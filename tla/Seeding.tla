------------------------------- MODULE Seeding -------------------------------
(***************************************************************************)
(* How ingest brings the routes table up to date before it goes live:      *)
(* crates/ingest/src/service/seeding.rs, with the archives it reads        *)
(* (ripe_ris/archived.rs, archived/file_names.rs), the RouteInsertBatcher  *)
(* and last_route_timestamp.  The process may stop and start again at any  *)
(* point.                                                                  *)
(*                                                                         *)
(* Time is counted in slots of five minutes.  The UPDATEs are numbered in  *)
(* the order of time; those of slot 0 are older than the model.  A row is  *)
(* the UPDATE it shows and the slot of its updated_at.                     *)
(*                                                                         *)
(* External: RIPE RIS publishes for each slot, some time after it is over, *)
(* the file of its UPDATEs, named by its begin, and for some slots a dump  *)
(* of the routes at its begin.                                             *)
(***************************************************************************)
EXTENDS Naturals, Sequences, FiniteSets

CONSTANTS Keys,      \* (prefix, peer_ip, host), as in RoutesBatcher
          DumpSlots, \* slots of 00:00, 08:00 and 16:00
          MaxSlot,   \* bound on time
          MaxOps,    \* bound on the UPDATEs of a behaviour
          MaxStops,  \* bound on the stops of the process
          NoRow,     \* the key has no row
          NoFile     \* the file is not in the cache

Slots == 1..MaxSlot

ASSUME SeedingAssumption ==
    /\ IsFiniteSet(Keys) /\ Keys # {}
    /\ MaxSlot \in Nat \ {0} /\ MaxOps \in Nat /\ Cardinality(Keys) <= MaxOps /\ MaxStops \in Nat
    /\ DumpSlots \subseteq Slots /\ 1 \in DumpSlots
    /\ NoRow \notin [op : Nat, at : Nat]

VARIABLES
    clock,     \* the slot of now
    log,       \* the UPDATEs: [key, kind, slot]
    published, \* slots whose file of UPDATEs can be downloaded
    cache,     \* per slot, the UPDATEs the cached file yields, or NoFile
    dumpCache, \* per dump, the keys the cached dump yields, or NoFile
    state,     \* "off", "bview", "updates" or "live"
    current,   \* bview_date, then current: the last slot looked for
    left,      \* "bview": the keys of the dump that are not inserted yet
    pending,   \* the UPDATEs in the RoutesBatcher
    routes,    \* the table: per key [op, at], or NoRow
    events,    \* UPDATEs sent to the EventBatcher
    applied,   \* history: per key, the last UPDATE executed on the table
    since,     \* history: the slot this seeding started from
    base,      \* history: the slot of the last dump that was inserted
    skipped,   \* history: slots whose file was not found in this seeding
    dropped,   \* history: UPDATEs dropped by the batcher since it began
    torn,      \* history: a dump was inserted in part only
    twice,     \* history: UPDATEs sent to the EventBatcher again
    stops      \* history: the number of stops

world == <<clock, log, published>>
files == <<cache, dumpCache>>
history == <<since, base, skipped, dropped, torn, stops>>
vars == <<world, files, state, current, left, pending, routes, events, applied, twice, history>>

-----------------------------------------------------------------------------
(* The world. *)

Newest(S) == CHOOSE n \in S : \A m \in S : m <= n
Of(k, S) == {n \in S : log[n].key = k}

\* The UPDATEs of a slot, and those before it.
InSlot(s) == {n \in DOMAIN log : log[n].slot = s}
Before(s) == {n \in DOMAIN log : log[n].slot < s}

\* The keys with a route at the begin of a slot.
Dump(s) == {k \in Keys : /\ Of(k, Before(s)) # {}
                         /\ log[Newest(Of(k, Before(s)))].kind = "Upsert"}

\* Every key has been announced once, before the model begins.
InOrder == CHOOSE order \in [1..Cardinality(Keys) -> Keys] :
               \A i, j \in DOMAIN order : i # j => order[i] # order[j]

Init ==
    /\ clock = 1 /\ published = {}
    /\ log = [i \in 1..Cardinality(Keys) |-> [key |-> InOrder[i], kind |-> "Upsert", slot |-> 0]]
    /\ cache = [s \in Slots |-> NoFile] /\ dumpCache = [s \in DumpSlots |-> NoFile]
    /\ state = "off" /\ current = 0 /\ left = {} /\ pending = {}
    /\ routes = [k \in Keys |-> NoRow] /\ applied = [k \in Keys |-> 0]
    /\ events = {} /\ twice = {}
    /\ since = 0 /\ base = 0 /\ skipped = {} /\ dropped = {} /\ torn = FALSE /\ stops = 0

Tick ==
    /\ clock < MaxSlot /\ clock' = clock + 1
    /\ UNCHANGED <<log, published, files, state, current, left, pending, routes, events,
                   applied, twice, history>>

Publish ==
    /\ \E s \in 1..(clock - 1) \ published : published' = published \cup {s}
    /\ UNCHANGED <<clock, log, files, state, current, left, pending, routes, events, applied,
                   twice, history>>

\* event_batcher.insert of some UPDATEs.
SendEvents(ops) == events' = events \cup ops /\ twice' = twice \cup (ops \cap events)

\* An UPDATE is sent by a peer.  While the process is live it is handled, or
\* dropped somewhere between RIS Live and the table.
Update(k, kind) ==
    LET n == Len(log) + 1
    IN  /\ n <= MaxOps
        /\ log' = Append(log, [key |-> k, kind |-> kind, slot |-> clock])
        /\ \/ state # "live" /\ UNCHANGED <<pending, events, twice, dropped>>
           \/ state = "live" /\ pending' = pending \cup {n} /\ SendEvents({n}) /\ dropped' = dropped
           \/ state = "live" /\ dropped' = dropped \cup {n} /\ UNCHANGED <<pending, events, twice>>
        /\ UNCHANGED <<clock, published, files, state, current, left, routes, applied,
                       since, base, skipped, torn, stops>>

-----------------------------------------------------------------------------
(* The beginning: seed. *)

\* last_route_timestamp.
Oldest(S) == CHOOSE s \in S : \A t \in S : s <= t
Timestamps == {routes[k].at : k \in {j \in Keys : routes[j] # NoRow}}
LastRouteTimestampOldest == Oldest(Timestamps)
LastRouteTimestamp == Newest(Timestamps)

\* current_bview_date.
CurrentBview == Newest({s \in DumpSlots : s <= clock})

NeedsBviewWhenOld == \A s \in Timestamps : s < CurrentBview
NeedsBview == Timestamps = {}

Began(s) == since' = s /\ skipped' = {} /\ dropped' = {}

\* The table has rows: go on from the newest.
StartFromTable ==
    /\ state = "off" /\ ~NeedsBview
    /\ state' = "updates" /\ current' = LastRouteTimestamp /\ Began(LastRouteTimestamp)
    /\ UNCHANGED <<world, files, left, pending, routes, events, applied, twice, base, torn,
                   stops>>

\* It has none: get the newest dump, from the cache if it is there.  (As long as
\* the dump is not published run returns an error, and the process is started
\* again: the start modelled is the one that finds it.)
StartFromBview ==
    LET d == CurrentBview
        cached == dumpCache[d] # NoFile
    IN  /\ state = "off" /\ NeedsBview
        /\ left' = IF cached THEN dumpCache[d] ELSE Dump(d)
        /\ dumpCache' = [dumpCache EXCEPT ![d] = left']
        /\ torn' = (left' # Dump(d))
        /\ state' = "bview" /\ current' = d /\ Began(d) /\ base' = d
        /\ UNCHANGED <<world, cache, pending, routes, events, applied, twice, stops>>

\* The download ends early, by an error or with the process: what is there of
\* the file stays in the cache.
BviewCutOff ==
    LET d == CurrentBview
    IN  /\ state = "off" /\ NeedsBview /\ dumpCache[d] = NoFile
        /\ stops < MaxStops /\ stops' = stops + 1
        /\ \E part \in SUBSET Dump(d) : dumpCache' = [dumpCache EXCEPT ![d] = part]
        /\ UNCHANGED <<world, cache, state, current, left, pending, routes, events, applied,
                       twice, since, base, skipped, dropped, torn>>

-----------------------------------------------------------------------------
(* process_bview. *)

\* RouteInsertBatcher, insert and finish: COPY of some rows.  It fails when one is there.
Copy ==
    /\ state = "bview"
    /\ \E ks \in SUBSET left \ {{}} :
          /\ \A k \in ks : routes[k] = NoRow
          /\ left' = left \ ks
          /\ applied' = [k \in Keys |-> IF k \in ks THEN Newest(Of(k, Before(current)))
                                                    ELSE applied[k]]
          /\ routes' = [k \in Keys |-> IF k \in ks THEN [op |-> applied'[k], at |-> current]
                                                   ELSE routes[k]]
    /\ UNCHANGED <<world, files, state, current, pending, events, twice, history>>

AllFullBatchesInserted == Cardinality(left) <= 1
AllInserted == left = {}
BviewDone ==
    /\ state = "bview" /\ AllInserted
    /\ state' = "updates" /\ left' = {}
    /\ UNCHANGED <<world, files, current, pending, routes, events, applied, twice, history>>

-----------------------------------------------------------------------------
(* process_updates. *)

\* next_update_date, which must not be in the future.
NextUpdateSkips == current + 2
NextUpdate == current + 1

Looking == state = "updates" /\ NextUpdate <= clock
Cached == cache[NextUpdate] # NoFile

\* The file is in the cache, or is downloaded; its elements are handed to the
\* batchers one by one.  How far they get before a stop is WriteBatch's choice;
\* of the events a stop may cut the last ones off, which is left out.
AdvanceNot == current
Advance == NextUpdate
ReadFile ==
    LET ops == IF Cached THEN cache[NextUpdate] ELSE InSlot(NextUpdate)
    IN  /\ Looking
        /\ Cached \/ NextUpdate \in published
        /\ cache' = [cache EXCEPT ![NextUpdate] = ops]
        /\ pending' = pending \cup ops /\ SendEvents(ops)
        /\ current' = Advance
        /\ UNCHANGED <<world, dumpCache, state, left, routes, applied, history>>

\* It is not found: it is skipped.
AdvanceOnlyAfterFile == current
AdvanceAnyway == NextUpdate
SkipFile ==
    /\ Looking /\ ~Cached /\ NextUpdate \notin published
    /\ skipped' = skipped \cup {NextUpdate}
    /\ current' = AdvanceAnyway
    /\ UNCHANGED <<world, files, state, left, pending, routes, events, applied, twice, since,
                   base, dropped, torn, stops>>

\* Its download ends early; see BviewCutOff.
FileCutOff ==
    /\ Looking /\ ~Cached /\ NextUpdate \in published
    /\ stops < MaxStops /\ stops' = stops + 1
    /\ \E part \in SUBSET InSlot(NextUpdate) :
          /\ \A n \in part : \A m \in InSlot(NextUpdate) \ part : n < m
          /\ cache' = [cache EXCEPT ![NextUpdate] = part]
    /\ state' = "off" /\ dropped' = dropped \cup pending /\ pending' = {}
    /\ UNCHANGED <<world, dumpCache, current, left, routes, events, applied, twice, since,
                   base, skipped, torn>>

\* There is no further file: end() of both batchers drops what is pending, and
\* the service goes live.
SeedingDone ==
    /\ state = "updates" /\ ~Looking
    /\ state' = "live"
    /\ dropped' = dropped \cup pending /\ pending' = {}
    /\ UNCHANGED <<world, files, current, left, routes, events, applied, twice, since, base,
                   skipped, torn, stops>>

-----------------------------------------------------------------------------
(* The RoutesBatcher, as RoutingTable promises: it writes the next UPDATEs of  *)
(* those pending, or drops them with a database error.                         *)

NextOnes == {ops \in SUBSET pending \ {{}} : \A n \in ops : \A m \in pending \ ops : n < m}

WriteBatch ==
    /\ state \in {"updates", "live"}
    /\ \E ops \in NextOnes :
          LET Named == {k \in Keys : Of(k, ops) # {}}
              Last(k) == Newest(Of(k, ops))
              RowOf(n) == IF log[n].kind = "Upsert" THEN [op |-> n, at |-> log[n].slot] ELSE NoRow
          IN  /\ routes' = [k \in Keys |-> IF k \in Named THEN RowOf(Last(k)) ELSE routes[k]]
              /\ applied' = [k \in Keys |-> IF k \in Named THEN Last(k) ELSE applied[k]]
              /\ pending' = pending \ ops
    /\ UNCHANGED <<world, files, state, current, left, events, twice, history>>

WriteFails ==
    /\ state \in {"updates", "live"}
    /\ \E ops \in NextOnes : pending' = pending \ ops /\ dropped' = dropped \cup ops
    /\ UNCHANGED <<world, files, state, current, left, routes, events, applied, twice, since,
                   base, skipped, torn, stops>>

\* A crash, an error that run returns, or a cancellation: in process_bview the
\* rest of the dump is not inserted, and process_updates or the service ends.
Stop ==
    /\ state # "off" /\ stops < MaxStops /\ stops' = stops + 1
    /\ state' = "off"
    /\ torn' = (torn \/ left # {})
    /\ dropped' = dropped \cup pending /\ pending' = {} /\ left' = {}
    /\ UNCHANGED <<world, files, current, routes, events, applied, twice, since, base,
                   skipped>>

-----------------------------------------------------------------------------
Process ==
    \/ StartFromTable \/ StartFromBview
    \/ Copy \/ BviewDone
    \/ ReadFile \/ SkipFile \/ SeedingDone

Next ==
    \/ Tick \/ Publish \/ \E k \in Keys, kind \in {"Upsert", "Delete"} : Update(k, kind)
    \/ Process
    \/ BviewCutOff \/ FileCutOff \/ WriteBatch \/ WriteFails \/ Stop

\* The process runs, and is started again after it stopped (prod.compose.yml:16).
Fairness == WF_vars(Process) /\ WF_vars(WriteBatch \/ WriteFails)

Spec == Init /\ [][Next]_vars /\ Fairness

-----------------------------------------------------------------------------
(* Properties. *)

\* COPY, which has no ON CONFLICT clause, never meets a row that is there,
\* whatever was left behind by an earlier start.
CopyNeverConflicts == state = "bview" => \A k \in left : routes[k] = NoRow

\* A row is only replaced by a newer one: neither the dump nor a file read again
\* after a restart takes a row back.
RowsNeverAge ==
    [][\A k \in Keys : routes[k] # NoRow /\ routes'[k] # NoRow =>
          routes'[k].op >= routes[k].op /\ routes'[k].at >= routes[k].at]_vars

\* The file of a slot that a cut off download left behind.
CutOff(s) == cache[s] # NoFile /\ cache[s] # InSlot(s)

\* The holes a seeding leaves are of four kinds: of the UPDATEs after the slot
\* it started from, up to the slot it has got to, each is executed (or
\* overtaken) or on its way, except when its file was not found or cut off, or
\* the batcher dropped it.
HolesAreKnown ==
    state \in {"updates", "live"} =>
        \A n \in DOMAIN log :
            log[n].slot > since /\ log[n].slot <= current =>
                \/ applied[log[n].key] >= n
                \/ n \in pending \cup dropped
                \/ log[n].slot \in skipped \/ CutOff(log[n].slot)

\* A dump that is inserted completely is the base of everything: no key is
\* behind what the peers had announced before the dump.
DumpIsWhole ==
    ~torn /\ state \in {"updates", "live"} =>
        \A k \in Dump(base) : applied[k] >= Newest(Of(k, Before(base)))

\* Nothing is recorded as an event twice, from an archive and from RIS Live,
\* unless the process was started again.
EventsOnce == stops = 0 => twice = {}

\* A seeding comes to an end: every start that is not stopped goes live.
SeedingEnds == state \in {"bview", "updates"} ~> state \in {"live", "off"}

\* "nacheinander alle RIPE RIS Update-Archive [...], die seit dem RIB Dump
\* generiert wurden" (docs/paper/6_implementation.typ:30) are read: when an archive
\* is read, every earlier one since the dump that RIPE RIS has published was read
\* too, or was looked for in vain.  The code never looks for the archive of the
\* slot that begins with the dump.
AllArchivesSinceDump ==
    [][ReadFile /\ stops = 0 =>
          \A s \in published : s \in since..current => cache[s] # NoFile \/ s \in skipped]_vars
=============================================================================
