--------------------------- MODULE UpdateHandling ---------------------------
(***************************************************************************)
(* What ingest makes of the BGP UPDATEs of one peering session.  The same  *)
(* UPDATE is handled by two pieces of code: handle_message                 *)
(* (crates/ingest/src/service/handler.rs) when it arrives over RIS Live,   *)
(* and bgpkit_elem_into_event with Event::normalize (archived.rs, bgp.rs)  *)
(* when it is read from an update archive while seeding.  The machine      *)
(* feeds every UPDATE to both and compares the routes they lead to, with   *)
(* each other and with what the peer announces.                            *)
(*                                                                         *)
(* The origins of a route are a set: their order and duplicates are left   *)
(* out, and with them dedup().                                             *)
(*                                                                         *)
(* A path may have confederation segments, which only the archives refuse. *)
(* External: RIS Live lists a path as numbers and arrays of numbers, so    *)
(* that no such segment can be told from the others there.                 *)
(*                                                                         *)
(* The session may go down and come back.  Both pieces of code ignore the  *)
(* state messages that tell of it.                                         *)
(***************************************************************************)
CONSTANTS Prefixes, DefaultRoutes, \* prefixes, and those of length 0
          Asns, PrivateAsns,       \* AS numbers, and those is_private_asn names
          Ends,                    \* what paths end with: the AS numbers of an element
          NoPath,                  \* an UPDATE without an AS path: path is None
          EmptyPath,               \* an AS path without elements
          NoRoute                  \* the prefix has no route

ASSUME UpdateAssumption ==
    /\ DefaultRoutes \subseteq Prefixes /\ PrivateAsns \subseteq Asns /\ Ends \subseteq SUBSET Asns
    /\ \A S \in SUBSET Asns : S # NoPath /\ S # EmptyPath /\ S # NoRoute
    /\ NoPath # EmptyPath /\ NoPath # NoRoute /\ EmptyPath # NoRoute

VARIABLES rib,      \* per prefix, the path the peer announces, or NoRoute
          live,     \* the routes, all UPDATEs having arrived over RIS Live
          archived, \* the routes, all UPDATEs having been read from archives
          skipped,  \* history: prefixes whose last withdrawal live skipped
          refused,  \* history: prefixes whose last announcement with a public origin the
                    \* archives refused, until an operation from the archives
          orphaned  \* history: prefixes whose routes ended with the session, and that
                    \* were not heard of again

vars == <<rib, live, archived, skipped, refused, orphaned>>

\* The part of a path the properties tell apart: the AS numbers of its last
\* element, one for a plain AS number, any number for an AS set.
Paths == {EmptyPath} \cup Ends

\* An UPDATE: it announces with a path (the AS path is mandatory in BGP then),
\* and does not name a prefix as announced and as withdrawn.  confed: the path
\* has a confederation segment.
Updates == {m \in [path : Paths \cup {NoPath}, confed : BOOLEAN, announced : SUBSET Prefixes,
                   withdrawn : SUBSET Prefixes] :
               /\ m.confed => m.path \notin {NoPath, EmptyPath}
               /\ m.path = NoPath => m.announced = {}
               /\ m.announced \cap m.withdrawn = {}}

\* path.last(), without private AS numbers; {} also for an empty path.
PublicOriginsUnknown(path) ==
    IF path \in {NoPath, EmptyPath} THEN {path} ELSE path \ PrivateAsns
PublicOriginsAll(path) == IF path \in {NoPath, EmptyPath} THEN {} ELSE path
PublicOrigins(path) == IF path \in {NoPath, EmptyPath} THEN {} ELSE path \ PrivateAsns

-----------------------------------------------------------------------------
(* handle_message: the prefixes it upserts with PublicOrigins, and deletes. *)

\* The early return of an announcement without a public origin.
ReturnsEarly(m) ==
    m.announced # {} /\ m.path # EmptyPath /\ PublicOrigins(m.path) = {}

LiveUpsertsOrDeletes(m) ==
    IF PublicOrigins(m.path) = {} \/ m.withdrawn # {} THEN {} ELSE m.announced \ DefaultRoutes
LiveUpserts(m) ==
    IF PublicOrigins(m.path) = {} THEN {} ELSE m.announced \ DefaultRoutes

\* A message matches only with a path; withdrawals are not normalized.
LiveDeletes(m) ==
    IF m.path = NoPath \/ ReturnsEarly(m) THEN {} ELSE m.withdrawn

(* bgpkit_elem_into_event and normalize, of each element of the UPDATE. *)

\* An announced element whose path cannot be converted is an error, and skipped;
\* the withdrawn prefixes are elements of their own.
ArchivedUpserts(m) ==
    IF m.confed \/ PublicOrigins(m.path) = {} THEN {} ELSE m.announced \ DefaultRoutes
Refused(m) == {p \in m.announced \ DefaultRoutes : m.confed /\ PublicOrigins(m.path) # {}}

ArchivedDeletesUnlessPrivate(m) == IF ReturnsEarly(m) THEN {} ELSE m.withdrawn \ DefaultRoutes
ArchivedDeletes(m) == m.withdrawn \ DefaultRoutes

\* RoutesBatcher::upsert of some prefixes and delete of others, in that order.
Apply(routes, upserts, origins, deletes) ==
    [p \in Prefixes |-> IF p \in deletes THEN NoRoute
                        ELSE IF p \in upserts THEN origins ELSE routes[p]]

-----------------------------------------------------------------------------
Init == /\ rib = [p \in Prefixes |-> NoRoute]
        /\ live = rib /\ archived = rib
        /\ skipped = {} /\ refused = {} /\ orphaned = {}

Update(m) ==
    /\ rib' = Apply(rib, m.announced, m.path, m.withdrawn)
    /\ live' = Apply(live, LiveUpserts(m), PublicOrigins(m.path), LiveDeletes(m))
    /\ archived' = Apply(archived, ArchivedUpserts(m), PublicOrigins(m.path), ArchivedDeletes(m))
    /\ skipped' = (skipped \ (LiveUpserts(m) \cup LiveDeletes(m)))
                     \cup (m.withdrawn \ LiveDeletes(m))
    /\ refused' = (refused \ (ArchivedUpserts(m) \cup ArchivedDeletes(m)))
                     \cup Refused(m)
    /\ orphaned' = orphaned \ (m.announced \cup m.withdrawn)

\* The session goes down, and with it all that the peer announced.
SessionDown ==
    /\ rib' = [p \in Prefixes |-> NoRoute]
    /\ orphaned' = orphaned \cup {p \in Prefixes : rib[p] # NoRoute}
    /\ UNCHANGED <<live, archived, skipped, refused>>

Next == (\E m \in Updates : Update(m)) \/ SessionDown

Spec == Init /\ [][Next]_vars

-----------------------------------------------------------------------------
(* Properties. *)

Routes == {NoRoute} \cup SUBSET Asns

TypeOK == /\ rib \in [Prefixes -> {NoRoute} \cup Paths]
          /\ live \in [Prefixes -> Routes] /\ archived \in [Prefixes -> Routes]
          /\ skipped \in SUBSET Prefixes /\ refused \in SUBSET Prefixes /\ orphaned \in SUBSET Prefixes

\* Neither way ever stores a default route, a private origin or a route
\* without an origin, which would make MOAS conflicts out of nothing.
RoutesAreMeaningful ==
    \A routes \in {live, archived}, p \in Prefixes :
        routes[p] # NoRoute =>
            p \notin DefaultRoutes /\ routes[p] # {} /\ routes[p] \cap PrivateAsns = {}

\* The archives are followed exactly: a prefix the peer announces with a public
\* origin has that route, and a prefix it does not announce has none.  Three
\* kinds of stale routes are left: one that a filtered announcement replaced, one
\* that an announcement with a confederation segment replaced, and one that ended
\* with the session, until the prefix is heard of again.
ArchivedFollowsPeer ==
    \A p \in Prefixes \ DefaultRoutes :
        /\ rib[p] = NoRoute => archived[p] = NoRoute \/ p \in orphaned
        /\ p \in orphaned => rib[p] = NoRoute
        /\ rib[p] # NoRoute /\ PublicOrigins(rib[p]) # {} /\ p \notin refused
              => archived[p] = PublicOrigins(rib[p])

\* What RIS Live gets wrong is bounded: it misses no route of the archives nor
\* shows other origins for it, unless the archives refused the announcement; it
\* only keeps routes whose withdrawal it skipped, until the prefix is announced
\* or withdrawn again.
LiveOnlyKeepsSkipped ==
    \A p \in Prefixes \ refused :
        live[p] # archived[p] => archived[p] = NoRoute /\ p \in skipped

\* "Sowohl während der Initialisierung als auch im Live-Betrieb verarbeitet das
\* Programm UPDATE-Nachrichten auf dieselbe Weise."
\* (docs/paper/6_implementation.typ:79)  It does not: handle_message ignores the
\* withdrawals of a message without a path or with a private origin.  (Paths that
\* only the archives refuse are left aside.)
SameWay == \A p \in Prefixes \ refused : live[p] = archived[p]
=============================================================================
