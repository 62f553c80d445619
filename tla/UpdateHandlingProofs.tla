----------------------- MODULE UpdateHandlingProofs -----------------------
(***************************************************************************)
(* Theorems about UpdateHandling, for every set of prefixes and AS numbers *)
(* and for every sequence of UPDATEs and ends of a session.                *)
(***************************************************************************)
EXTENDS UpdateHandling, TLAPS

USE UpdateAssumption

LEMMA PathTypes ==
  ASSUME NEW path \in Paths \cup {NoPath}
  PROVE  /\ PublicOrigins(path) \in SUBSET Asns
         /\ PublicOrigins(path) \cap PrivateAsns = {}
         /\ PublicOrigins(path) # NoRoute
  BY DEF Paths, PublicOrigins

\* What the machine knows of an UPDATE.
LEMMA UpdateTypes ==
  ASSUME NEW m \in Updates
  PROVE  /\ m.path \in Paths \cup {NoPath}
         /\ m.announced \in SUBSET Prefixes /\ m.withdrawn \in SUBSET Prefixes
         /\ m.announced # {} => m.path \in Paths
         /\ m.announced \cap m.withdrawn = {}
  BY DEF Updates

LEMMA NextType == TypeOK /\ [Next]_vars => TypeOK'
<1> SUFFICES ASSUME TypeOK, [Next]_vars PROVE TypeOK' OBVIOUS
<1>1. ASSUME NEW m \in Updates, Update(m) PROVE TypeOK'
  <2>1. rib' \in [Prefixes -> {NoRoute} \cup Paths]
    BY <1>1, UpdateTypes DEF TypeOK, Update, Apply
  <2>2. PublicOrigins(m.path) \in Routes
    BY UpdateTypes, PathTypes DEF Routes
  <2>3. live' \in [Prefixes -> Routes] /\ archived' \in [Prefixes -> Routes]
    BY <1>1, <2>2 DEF TypeOK, Update, Apply, Routes
  <2>4. skipped' \in SUBSET Prefixes /\ refused' \in SUBSET Prefixes /\ orphaned' \in SUBSET Prefixes
    BY <1>1, UpdateTypes DEF TypeOK, Update, Refused
  <2> QED BY <2>1, <2>3, <2>4 DEF TypeOK
<1>2. CASE SessionDown
  BY <1>2 DEF TypeOK, SessionDown
<1>3. CASE UNCHANGED vars
  BY <1>3 DEF TypeOK, vars
<1> QED BY <1>1, <1>2, <1>3 DEF Next

\* The variables keep their types.
THEOREM TypeCorrect == Spec => []TypeOK
<1>1. Init => TypeOK
  BY DEF Init, TypeOK, Routes
<1> QED BY <1>1, NextType, PTL DEF Spec

Meaningful(routes) ==
    \A p \in Prefixes : routes[p] # NoRoute =>
        p \notin DefaultRoutes /\ routes[p] # {} /\ routes[p] \cap PrivateAsns = {}

LEMMA ApplyMeaningful ==
  ASSUME NEW m \in Updates, NEW routes, Meaningful(routes), NEW deletes,
         NEW upserts \in {LiveUpserts(m), ArchivedUpserts(m)}
  PROVE  Meaningful(Apply(routes, upserts, PublicOrigins(m.path), deletes))
<1>1. upserts \subseteq IF PublicOrigins(m.path) = {} THEN {} ELSE m.announced \ DefaultRoutes
  BY DEF LiveUpserts, ArchivedUpserts
<1>2. PublicOrigins(m.path) \cap PrivateAsns = {}
  BY UpdateTypes, PathTypes
<1> QED BY <1>1, <1>2 DEF Meaningful, Apply

LEMMA NextMeaningful == RoutesAreMeaningful /\ [Next]_vars => RoutesAreMeaningful'
<1> SUFFICES ASSUME RoutesAreMeaningful, [Next]_vars PROVE RoutesAreMeaningful' OBVIOUS
<1>1. Meaningful(live) /\ Meaningful(archived)
  BY DEF RoutesAreMeaningful, Meaningful
<1>2. Meaningful(live') /\ Meaningful(archived')
  <2>1. ASSUME NEW m \in Updates, Update(m) PROVE Meaningful(live') /\ Meaningful(archived')
    BY <1>1, <2>1, ApplyMeaningful DEF Update
  <2>2. CASE SessionDown \/ UNCHANGED vars
    BY <1>1, <2>2 DEF SessionDown, vars
  <2> QED BY <2>1, <2>2 DEF Next
<1> QED BY <1>2 DEF RoutesAreMeaningful, Meaningful

\* Whatever a peer sends, no default route, private origin or empty origin
\* reaches the routes, over RIS Live or from the archives.
THEOREM MeaningfulCorrect == Spec => []RoutesAreMeaningful
<1>1. Init => RoutesAreMeaningful
  BY DEF Init, RoutesAreMeaningful
<1> QED BY <1>1, NextMeaningful, PTL DEF Spec

LEMMA NextFollows == TypeOK /\ ArchivedFollowsPeer /\ [Next]_vars => ArchivedFollowsPeer'
<1> SUFFICES ASSUME TypeOK, ArchivedFollowsPeer, [Next]_vars PROVE ArchivedFollowsPeer' OBVIOUS
<1>1. ASSUME NEW m \in Updates, Update(m), NEW p \in Prefixes \ DefaultRoutes
      PROVE  /\ rib'[p] = NoRoute => archived'[p] = NoRoute \/ p \in orphaned'
             /\ p \in orphaned' => rib'[p] = NoRoute
             /\ rib'[p] # NoRoute /\ PublicOrigins(rib'[p]) # {} /\ p \notin refused'
                  => archived'[p] = PublicOrigins(rib'[p])
  <2>1. CASE p \in m.withdrawn
    BY <1>1, <2>1 DEF Update, Apply, ArchivedDeletes
  <2>2. CASE p \in m.announced
    <3>1. p \notin m.withdrawn /\ m.path # NoRoute
      BY <2>2, UpdateTypes DEF Paths
    <3> QED BY <1>1, <2>2, <3>1 DEF Update, Apply, ArchivedDeletes, ArchivedUpserts, Refused
  <2>3. CASE p \notin m.withdrawn /\ p \notin m.announced
    <3>1. /\ rib'[p] = rib[p] /\ archived'[p] = archived[p]
          /\ p \in orphaned' <=> p \in orphaned
          /\ p \in refused' <=> p \in refused
      BY <1>1, <2>3 DEF Update, Apply, ArchivedDeletes, ArchivedUpserts, Refused
    <3> QED BY <3>1 DEF ArchivedFollowsPeer
  <2> QED BY <2>1, <2>2, <2>3
<1>2. ASSUME NEW m \in Updates, Update(m) PROVE ArchivedFollowsPeer'
  BY <1>1, <1>2 DEF ArchivedFollowsPeer
<1>3. CASE SessionDown
  BY <1>3 DEF SessionDown, TypeOK, ArchivedFollowsPeer
<1>4. CASE UNCHANGED vars
  BY <1>4 DEF ArchivedFollowsPeer, vars
<1> QED BY <1>2, <1>3, <1>4 DEF Next

\* Replaying the archives of a session leads to what the peer announces, but
\* for routes whose replacement was filtered or that ended with the session.
THEOREM FollowsCorrect == Spec => []ArchivedFollowsPeer
<1>1. Init => ArchivedFollowsPeer
  BY DEF Init, ArchivedFollowsPeer
<1> QED BY <1>1, NextFollows, TypeCorrect, PTL DEF Spec

LEMMA NextKeepsSkipped ==
  RoutesAreMeaningful /\ LiveOnlyKeepsSkipped /\ [Next]_vars => LiveOnlyKeepsSkipped'
<1> SUFFICES ASSUME RoutesAreMeaningful, LiveOnlyKeepsSkipped, [Next]_vars
             PROVE  LiveOnlyKeepsSkipped'
  OBVIOUS
<1>1. ASSUME NEW m \in Updates, Update(m), NEW p \in Prefixes
      PROVE  p \notin refused' /\ live'[p] # archived'[p] => archived'[p] = NoRoute /\ p \in skipped'
  <2>1. p \notin refused' => /\ p \in LiveUpserts(m) <=> p \in ArchivedUpserts(m)
                             /\ p \in refused => p \in ArchivedUpserts(m) \cup ArchivedDeletes(m)
    BY <1>1 DEF Update, LiveUpserts, ArchivedUpserts, Refused
  <2>2. LiveDeletes(m) = {} \/ LiveDeletes(m) = m.withdrawn
    BY DEF LiveDeletes
  <2>3. CASE p \in DefaultRoutes
    <3>1. p \notin LiveUpserts(m)
      BY <2>3 DEF LiveUpserts
    <3>2. live[p] = NoRoute /\ archived[p] = NoRoute
      BY <2>3 DEF RoutesAreMeaningful
    <3> QED BY <1>1, <2>1, <3>1, <3>2 DEF Update, Apply
  <2>4. CASE p \notin DefaultRoutes /\ p \in m.withdrawn
    <3>1. archived'[p] = NoRoute
      BY <1>1, <2>4 DEF Update, Apply, ArchivedDeletes
    <3>2. CASE p \in LiveDeletes(m)
      BY <1>1, <3>1, <3>2 DEF Update, Apply
    <3>3. CASE p \notin LiveDeletes(m)
      BY <1>1, <2>4, <3>1, <3>3 DEF Update
    <3> QED BY <3>2, <3>3
  <2>5. CASE p \notin DefaultRoutes /\ p \notin m.withdrawn
    <3>1. p \notin LiveDeletes(m) /\ p \notin ArchivedDeletes(m)
      BY <2>2, <2>5 DEF ArchivedDeletes
    <3>2. CASE p \in LiveUpserts(m)
      BY <1>1, <2>1, <3>1, <3>2 DEF Update, Apply
    <3>3. CASE p \notin LiveUpserts(m)
      BY <1>1, <2>1, <3>1, <3>3 DEF Update, Apply, LiveOnlyKeepsSkipped
    <3> QED BY <3>2, <3>3
  <2> QED BY <2>3, <2>4, <2>5
<1>2. ASSUME NEW m \in Updates, Update(m) PROVE LiveOnlyKeepsSkipped'
  BY <1>1, <1>2 DEF LiveOnlyKeepsSkipped
<1>3. CASE SessionDown \/ UNCHANGED vars
  BY <1>3 DEF LiveOnlyKeepsSkipped, SessionDown, vars
<1> QED BY <1>2, <1>3 DEF Next

\* RIS Live and the archives differ in one way only: routes whose withdrawal
\* handle_message skipped are still there.
THEOREM SkippedCorrect == Spec => []LiveOnlyKeepsSkipped
<1>1. Init => LiveOnlyKeepsSkipped
  BY DEF Init, LiveOnlyKeepsSkipped
<1> QED BY <1>1, NextKeepsSkipped, MeaningfulCorrect, PTL DEF Spec
=============================================================================
