-------------------------- MODULE SingleFlightProofs --------------------------
(***************************************************************************)
(* Proofs about SingleFlight, for any set of requests, digests and mutexes *)
(* and any cap of the in-flight map.                                       *)
(***************************************************************************)
EXTENDS SingleFlight, FiniteSetTheorems, TLAPS

States == {"idle", "hit", "gone", "pass", "enter", "ref", "wait", "recheck", "flighthit",
           "flightgone", "flightpass", "upstream", "download", "publish"}

(* The names of the program points. *)
LEMMA Points ==
    /\ PCs = States
    /\ Queued = {"wait", "recheck", "flighthit", "flightgone", "flightpass", "upstream",
                 "download", "publish"}
    /\ Guarded \subseteq Queued /\ Flying \subseteq Guarded
  BY DEF PCs, States, Queued, Guarded, Flying

(* Moving one request from one point to another keeps the types. *)
LEMMA GotoType ==
    ASSUME TypeOK, NEW r \in Requests, NEW l \in PCs, l # "idle", pc[r] # "idle", Step(r, l)
    PROVE  TypeOK'
  BY DEF TypeOK, Step, Goto

(* Ending a request keeps the types. *)
LEMMA DoneType ==
    ASSUME TypeOK, NEW r \in Requests, Done(r), cached' = cached
    PROVE  TypeOK'
  <1>1. pc' \in [Requests -> PCs]
    BY DEF TypeOK, Done, Goto, PCs
  <1>2. dig' \in [Requests -> Digests \cup {None}] /\ kind' \in [Requests -> {"get", "head", "range"}]
    BY DEF TypeOK, Done
  <1>3. \A s \in Requests : dig'[s] = None <=> pc'[s] = "idle"
    BY DEF TypeOK, Done, Goto
  <1>4. lockOf' \in [Requests -> Locks \cup {None}] /\ ahead' \in [Requests -> SUBSET Requests]
    BY DEF TypeOK, Done
  <1>. QED  BY <1>1, <1>2, <1>3, <1>4 DEF TypeOK, Done

(* Pruning yields a map whose entries are entries of the old map, and keeps *)
(* every entry somebody holds an Arc of.                                    *)
LEMMA PruneKeeps ==
    ASSUME TypeOK, NEW d \in Digests
    PROVE  /\ Prune(inflight) \in [Digests -> Locks \cup {None}]
           /\ Prune(inflight)[d] \in {inflight[d], None}
           /\ Referenced(inflight[d]) => Prune(inflight)[d] = inflight[d]
  BY DEF TypeOK, Prune

(* What inflight_lock leaves behind. *)
LEMMA LockType ==
    ASSUME FlightAssumption, TypeOK, NEW r \in Requests, inflight_lock(r)
    PROVE  TypeOK'
  <1>1. dig[r] \in Digests
    BY DEF inflight_lock, TypeOK
  <1>2. PICK l \in Locks :
          /\ inflight' = [Prune(inflight) EXCEPT ![dig[r]] = l]
          /\ lockOf' = [lockOf EXCEPT ![r] = l]
    BY DEF inflight_lock
  <1>3. inflight' \in [Digests -> Locks \cup {None}]
    BY <1>1, <1>2, PruneKeeps
  <1>4. lockOf' \in [Requests -> Locks \cup {None}]
    BY <1>2 DEF TypeOK
  <1>. QED  BY <1>3, <1>4 DEF inflight_lock, TypeOK, Goto, PCs

(* TypeOK holds initially and is kept by every step. *)
THEOREM TypeCorrect == Spec => []TypeOK
  <1>1. Init => TypeOK
    BY DEF Init, TypeOK, PCs
  <1>2. TypeOK /\ [Next]_vars => TypeOK'
    <2>. SUFFICES ASSUME TypeOK, Next  PROVE TypeOK'
      BY DEF vars, TypeOK
    <2>. USE FlightAssumption
    <2>1. ASSUME NEW r \in Requests, NEW d \in Digests, NEW k \in {"get", "head", "range"},
                 Arrive(r, d, k)
          PROVE  TypeOK'
      BY <2>1 DEF Arrive, TypeOK, Goto, PCs, FlightAssumption
    <2>2. ASSUME NEW r \in Requests, Handler(r)  PROVE TypeOK'
      <3>1. CASE Open(r)
        BY <3>1, DoneType, GotoType, Points DEF Open, States
      <3>2. CASE LookAgain(r)
        BY <3>2, DoneType, GotoType, Points DEF LookAgain, States
      <3>3. CASE PassThrough(r)
        BY <3>3, DoneType DEF PassThrough
      <3>4. CASE inflight_lock(r)
        BY <3>4, LockType
      <3>5. CASE lock_owned(r)
        BY <3>5 DEF lock_owned, LineUp, InQueue, TypeOK, Goto, PCs, Queued
      <3>6. CASE Acquired(r)
        BY <3>6, GotoType, Points DEF Acquired, States
      <3>7. CASE Recheck(r)
        BY <3>7, GotoType, Points DEF Recheck, States
      <3>8. CASE NotFetched(r)
        BY <3>8, DoneType DEF NotFetched
      <3>9. CASE Spawn(r)
        BY <3>9, GotoType, Points DEF Spawn, States
      <3>10. CASE Commit(r)
        BY <3>10, Points DEF Commit, TypeOK, Goto, States
      <3>11. CASE TaskEnds(r)
        BY <3>11, DoneType DEF TaskEnds
      <3>. QED  BY <2>2, <3>1, <3>2, <3>3, <3>4, <3>5, <3>6, <3>7, <3>8, <3>9, <3>10, <3>11
               DEF Handler
    <2>3. ASSUME NEW r \in Requests, Disconnect(r)  PROVE TypeOK'
      BY <2>3, DoneType DEF Disconnect
    <2>4. ASSUME NEW d \in Digests, Evict(d)  PROVE TypeOK'
      BY <2>4 DEF Evict, TypeOK
    <2>. QED  BY <2>1, <2>2, <2>3, <2>4 DEF Next
  <1>. QED  BY <1>1, <1>2, PTL DEF Spec

-----------------------------------------------------------------------------
(* The inductive invariant *)

(* Ending a request: it leaves the queue, its mutex stays where it is. *)
LEMMA DoneInv ==
    ASSUME TypeOK, FlightInv, NEW r \in Requests, Done(r), cached' = cached
    PROVE  FlightInv'
  <1>1. /\ \A s \in Requests : s # r => /\ pc'[s] = pc[s] /\ dig'[s] = dig[s]
                                        /\ lockOf'[s] = lockOf[s] /\ ahead'[s] = ahead[s] \ {r}
        /\ pc'[r] = "idle" /\ lockOf'[r] = None /\ ahead'[r] = {}
        /\ inflight' = inflight
    BY DEF Done, Goto, TypeOK
  <1>2. HeldIsMapped'
    BY <1>1, Points DEF FlightInv, HeldIsMapped
  <1>3. OwnMutex'
    BY <1>1 DEF FlightInv, OwnMutex
  <1>4. QueueOrdered'
    BY <1>1, Points DEF FlightInv, QueueOrdered
  <1>5. GuardedFirst'
    BY <1>1, Points DEF FlightInv, GuardedFirst
  <1>6. NotYetCached'
    BY <1>1 DEF FlightInv, NotYetCached
  <1>. QED  BY <1>2, <1>3, <1>4, <1>5, <1>6 DEF FlightInv

(* Moving within the queue, or outside of it without a mutex. *)
LEMMA StepInv ==
    ASSUME TypeOK, FlightInv, NEW r \in Requests, NEW l, Step(r, l), pc[r] # "idle",
           \/ pc[r] \in Queued /\ l \in Queued
           \/ pc[r] \notin Queued \cup {"ref"} /\ l \notin Queued \cup {"ref", "idle"},
           l \in Guarded => ahead[r] = {},
           l \in {"upstream", "download"} => dig[r] \notin cached
    PROVE  FlightInv'
  <1>1. /\ \A s \in Requests : s # r => pc'[s] = pc[s]
        /\ pc'[r] = l
        /\ UNCHANGED <<dig, kind, lockOf, ahead, inflight, cached>>
    BY DEF Step, Goto, TypeOK
  <1>2. HeldIsMapped'
    BY <1>1, Points DEF FlightInv, HeldIsMapped
  <1>3. OwnMutex'
    BY <1>1 DEF FlightInv, OwnMutex
  <1>4. QueueOrdered'
    BY <1>1, Points DEF FlightInv, QueueOrdered
  <1>5. GuardedFirst'
    BY <1>1, Points DEF FlightInv, GuardedFirst
  <1>6. NotYetCached'
    BY <1>1 DEF FlightInv, NotYetCached
  <1>. QED  BY <1>2, <1>3, <1>4, <1>5, <1>6 DEF FlightInv

(* inflight_lock keeps every mutex in use under its digest and gives a      *)
(* digest without one a mutex nobody knows.                                 *)
LEMMA LockInv ==
    ASSUME FlightAssumption, TypeOK, FlightInv, NEW r \in Requests, inflight_lock(r)
    PROVE  FlightInv'
  <1>. DEFINE m == Prune(inflight)
  <1>1. dig[r] \in Digests /\ lockOf[r] = None /\ pc[r] = "enter"
    BY Points DEF inflight_lock, TypeOK, FlightInv, HeldIsMapped
  <1>2. PICK l \in Locks :
          /\ IF m[dig[r]] # None THEN l = m[dig[r]] ELSE Fresh(m, l)
          /\ inflight' = [m EXCEPT ![dig[r]] = l]
          /\ lockOf' = [lockOf EXCEPT ![r] = l]
    BY DEF inflight_lock
  <1>3. m \in [Digests -> Locks \cup {None}] /\ \A d \in Digests : m[d] \in {inflight[d], None}
    BY <1>1, PruneKeeps
  <1>4. \A s \in Requests : lockOf[s] # None => m[dig[s]] = lockOf[s] /\ dig[s] \in Digests
    <2>. SUFFICES ASSUME NEW s \in Requests, lockOf[s] # None
                  PROVE  m[dig[s]] = lockOf[s] /\ dig[s] \in Digests
      OBVIOUS
    <2>1. lockOf[s] = inflight[dig[s]] /\ pc[s] # "idle"
      BY Points DEF FlightInv, HeldIsMapped
    <2>2. dig[s] \in Digests
      BY <2>1 DEF TypeOK
    <2>3. Referenced(inflight[dig[s]])
      BY <2>1 DEF Referenced
    <2>. QED  BY <2>1, <2>2, <2>3, PruneKeeps
  <1>5. \A d, e \in Digests : d # e /\ m[d] # None => m[d] # m[e]
    BY <1>3 DEF FlightInv, OwnMutex
  <1>6. /\ \A s \in Requests : s # r => pc'[s] = pc[s] /\ lockOf'[s] = lockOf[s]
        /\ pc'[r] = "ref" /\ lockOf'[r] = l
        /\ UNCHANGED <<dig, ahead, cached>>
    BY <1>2 DEF inflight_lock, Goto, TypeOK
  <1>7. inflight'[dig[r]] = l /\ \A d \in Digests : d # dig[r] => inflight'[d] = m[d]
    BY <1>1, <1>2, <1>3
  <1>8. l # None
    BY DEF FlightAssumption
  <1>9. OwnMutex'
    <2>1. \A d \in Digests : d # dig[r] => m[d] # l
      <3>1. CASE m[dig[r]] # None
        BY <1>1, <1>2, <1>5, <3>1
      <3>2. CASE m[dig[r]] = None
        BY <1>2, <3>2 DEF Fresh
      <3>. QED  BY <3>1, <3>2
    <2>. QED  BY <1>1, <1>5, <1>7, <1>8, <2>1 DEF OwnMutex
  <1>10. HeldIsMapped'
    <2>1. ASSUME NEW s \in Requests, s # r, lockOf[s] # None
          PROVE  lockOf[s] = inflight'[dig[s]]
      BY <1>2, <1>4, <1>7, <2>1
    <2>. QED  BY <1>1, <1>6, <1>7, <1>8, <2>1, Points DEF FlightInv, HeldIsMapped
  <1>11. QueueOrdered'
    <2>1. \A s \in Requests : r \notin ahead[s] /\ ahead[r] = {}
      BY <1>1, Points DEF FlightInv, QueueOrdered, HeldIsMapped, TypeOK
    <2>. QED  BY <1>6, <2>1, Points DEF FlightInv, QueueOrdered
  <1>12. GuardedFirst'
    BY <1>6, Points DEF FlightInv, GuardedFirst
  <1>13. NotYetCached'
    BY <1>6 DEF FlightInv, NotYetCached
  <1>. QED  BY <1>9, <1>10, <1>11, <1>12, <1>13 DEF FlightInv

(* Lining up puts everybody already in the queue ahead. *)
LEMMA LineUpInv ==
    ASSUME TypeOK, FlightInv, NEW r \in Requests, lock_owned(r)
    PROVE  FlightInv'
  <1>1. /\ \A s \in Requests : s # r => pc'[s] = pc[s] /\ ahead'[s] = ahead[s]
        /\ pc[r] = "ref" /\ pc'[r] = "wait" /\ ahead'[r] = InQueue(lockOf[r])
        /\ UNCHANGED <<dig, lockOf, inflight, cached>>
    BY DEF lock_owned, LineUp, Goto, TypeOK
  <1>2. HeldIsMapped'
    BY <1>1, Points DEF FlightInv, HeldIsMapped
  <1>3. OwnMutex'
    BY <1>1 DEF FlightInv, OwnMutex
  <1>4. QueueOrdered'
    BY <1>1, Points DEF FlightInv, QueueOrdered, InQueue
  <1>5. GuardedFirst'
    BY <1>1, Points DEF FlightInv, GuardedFirst, Guarded
  <1>6. NotYetCached'
    BY <1>1 DEF FlightInv, NotYetCached
  <1>. QED  BY <1>2, <1>3, <1>4, <1>5, <1>6 DEF FlightInv

(* Two requests that hold the guard of one digest are the same request. *)
LEMMA Exclusive ==
    ASSUME TypeOK, FlightInv, NEW r \in Requests, NEW s \in Requests,
           pc[r] \in Guarded, pc[s] \in Guarded, dig[r] = dig[s]
    PROVE  r = s
  <1>1. lockOf[r] = lockOf[s]
    BY Points DEF FlightInv, HeldIsMapped
  <1>2. ahead[r] = {} /\ ahead[s] = {}
    BY DEF FlightInv, GuardedFirst
  <1>. QED  BY <1>1, <1>2, Points DEF FlightInv, QueueOrdered

(* rename() makes the blob visible; no other flight of the digest is up. *)
LEMMA CommitInv ==
    ASSUME TypeOK, FlightInv, NEW r \in Requests, Commit(r)
    PROVE  FlightInv'
  <1>1. /\ \A s \in Requests : s # r => pc'[s] = pc[s]
        /\ pc[r] = "download" /\ pc'[r] = "publish"
        /\ UNCHANGED <<dig, lockOf, ahead, inflight>>
        /\ cached' = cached \cup {dig[r]}
    BY DEF Commit, Goto, TypeOK
  <1>2. HeldIsMapped'
    BY <1>1, Points DEF FlightInv, HeldIsMapped
  <1>3. OwnMutex'
    BY <1>1 DEF FlightInv, OwnMutex
  <1>4. QueueOrdered'
    BY <1>1, Points DEF FlightInv, QueueOrdered
  <1>5. GuardedFirst'
    BY <1>1, Points DEF FlightInv, GuardedFirst, Guarded
  <1>6. NotYetCached'
    BY <1>1, Exclusive DEF FlightInv, NotYetCached, Guarded
  <1>. QED  BY <1>2, <1>3, <1>4, <1>5, <1>6 DEF FlightInv

(* FlightInv is inductive relative to the types. *)
THEOREM FlightInvariant == Spec => []FlightInv
  <1>1. Init => FlightInv
    BY Points DEF Init, FlightInv, HeldIsMapped, OwnMutex, QueueOrdered, GuardedFirst, NotYetCached
  <1>2. TypeOK /\ FlightInv /\ [Next]_vars => FlightInv'
    <2>. SUFFICES ASSUME TypeOK, FlightInv, [Next]_vars  PROVE FlightInv'
      OBVIOUS
    <2>. USE FlightAssumption
    <2>0. CASE UNCHANGED vars
      BY <2>0 DEF vars, FlightInv, HeldIsMapped, OwnMutex, QueueOrdered, GuardedFirst, NotYetCached
    <2>1. ASSUME NEW r \in Requests, NEW d \in Digests, NEW k \in {"get", "head", "range"},
                 Arrive(r, d, k)
          PROVE  FlightInv'
      <3>1. /\ \A s \in Requests : s # r => pc'[s] = pc[s] /\ dig'[s] = dig[s]
            /\ pc[r] = "idle" /\ pc'[r] \in {"hit", "pass", "enter"}
            /\ UNCHANGED <<lockOf, ahead, inflight, cached>>
        BY <2>1 DEF Arrive, Goto, TypeOK
      <3>2. HeldIsMapped'
        BY <3>1, Points DEF FlightInv, HeldIsMapped
      <3>3. OwnMutex'
        BY <3>1 DEF FlightInv, OwnMutex
      <3>4. QueueOrdered'
        BY <3>1, Points DEF FlightInv, QueueOrdered
      <3>5. GuardedFirst'
        BY <3>1, Points DEF FlightInv, GuardedFirst
      <3>6. NotYetCached'
        BY <3>1 DEF FlightInv, NotYetCached
      <3>. QED  BY <3>2, <3>3, <3>4, <3>5, <3>6 DEF FlightInv
    <2>2. ASSUME NEW r \in Requests, Handler(r)  PROVE FlightInv'
      <3>1. CASE Open(r)
        BY <3>1, DoneInv, StepInv, Points DEF Open, FlightInv, GuardedFirst, Guarded
      <3>2. CASE LookAgain(r)
        BY <3>2, DoneInv, StepInv, Points DEF LookAgain, FlightInv, GuardedFirst, Guarded
      <3>3. CASE PassThrough(r)
        BY <3>3, DoneInv DEF PassThrough
      <3>4. CASE inflight_lock(r)
        BY <3>4, LockInv
      <3>5. CASE lock_owned(r)
        BY <3>5, LineUpInv
      <3>6. CASE Acquired(r)
        BY <3>6, StepInv, Points DEF Acquired
      <3>7. CASE Recheck(r)
        BY <3>7, StepInv, Points DEF Recheck, FoundNow, FlightInv, GuardedFirst, Guarded
      <3>8. CASE NotFetched(r)
        BY <3>8, DoneInv DEF NotFetched
      <3>9. CASE Spawn(r)
        BY <3>9, StepInv, Points DEF Spawn, FlightInv, GuardedFirst, Guarded, NotYetCached
      <3>10. CASE Commit(r)
        BY <3>10, CommitInv
      <3>11. CASE TaskEnds(r)
        BY <3>11, DoneInv DEF TaskEnds
      <3>. QED  BY <2>2, <3>1, <3>2, <3>3, <3>4, <3>5, <3>6, <3>7, <3>8, <3>9, <3>10, <3>11
               DEF Handler
    <2>3. ASSUME NEW r \in Requests, Disconnect(r)  PROVE FlightInv'
      BY <2>3, DoneInv DEF Disconnect
    <2>4. ASSUME NEW d \in Digests, Evict(d)  PROVE FlightInv'
      BY <2>4 DEF Evict, FlightInv, HeldIsMapped, OwnMutex, QueueOrdered, GuardedFirst, NotYetCached
    <2>. QED  BY <2>0, <2>1, <2>2, <2>3, <2>4 DEF Next
  <1>. QED  BY <1>1, <1>2, TypeCorrect, PTL DEF Spec

(* The single flight: at most one request holds the guard of a digest.      *)
THEOREM FlightsAreSingle == Spec => []OneFlight
  <1>1. TypeOK /\ FlightInv => OneFlight
    BY Exclusive DEF OneFlight
  <1>. QED  BY <1>1, TypeCorrect, FlightInvariant, PTL

-----------------------------------------------------------------------------
(* Refinement of the abstract flight *)

InAir == {d \in Digests : \E r \in Requests : pc[r] \in Flying /\ dig[r] = d}

(* A step of a request that is not in the air, to a point that is not,      *)
(* changes nothing of the flights.                                          *)
LEMMA GroundStep ==
    ASSUME TypeOK, NEW r \in Requests, pc[r] \notin Flying, pc'[r] \notin Flying,
           \A s \in Requests : s # r => pc'[s] = pc[s] /\ dig'[s] = dig[s]
    PROVE  InAir' = InAir
  BY DEF InAir

(* Leaving the air lands the flight of the digest: no other is up. *)
LEMMA Landing ==
    ASSUME TypeOK, FlightInv, NEW r \in Requests, pc[r] \in Flying, Done(r), cached' = cached
    PROVE  \E d \in Digests : F!Land(d)
  <1>1. dig[r] \in Digests
    BY DEF TypeOK, Flying
  <1>d. PICK d \in Digests : d = dig[r]
    BY <1>1
  <1>2. \A s \in Requests : s # r => pc'[s] = pc[s] /\ dig'[s] = dig[s]
    BY DEF Done, Goto, TypeOK
  <1>3. pc'[r] = "idle"
    BY DEF Done, Goto, TypeOK
  <1>4. dig[r] \in InAir
    BY <1>1 DEF InAir
  <1>5. \A s \in Requests : s # r /\ pc[s] \in Flying => dig[s] # dig[r]
    BY Exclusive, Points
  <1>6. InAir' = InAir \ {dig[r]}
    BY <1>1, <1>2, <1>3, <1>5 DEF InAir, Flying
  <1>7. F!Land(d)
    BY <1>d, <1>4, <1>6 DEF F!Land, InAir
  <1>. QED  BY <1>7

(* Every step of a request is a step of the abstract flight or none. *)
LEMMA DoneFlight ==
    ASSUME TypeOK, FlightInv, NEW r \in Requests, Done(r), cached' = cached
    PROVE  F!Next \/ UNCHANGED <<InAir, cached>>
  <1>1. CASE pc[r] \in Flying
    BY <1>1, Landing DEF F!Next
  <1>2. CASE pc[r] \notin Flying
    <2>1. /\ \A s \in Requests : s # r => pc'[s] = pc[s] /\ dig'[s] = dig[s]
          /\ pc'[r] \notin Flying
      BY DEF Done, Goto, TypeOK, Flying
    <2>. QED  BY <1>2, <2>1, GroundStep
  <1>. QED  BY <1>1, <1>2

(* A step on the ground, or from one point in the air to another. *)
LEMMA StepFlight ==
    ASSUME TypeOK, NEW r \in Requests, NEW l, Step(r, l), pc[r] \in Flying <=> l \in Flying
    PROVE  UNCHANGED <<InAir, cached>>
  <1>1. /\ \A s \in Requests : s # r => pc'[s] = pc[s]
        /\ pc'[r] = l /\ UNCHANGED <<dig, cached>>
    BY DEF Step, Goto, TypeOK
  <1>. QED  BY <1>1 DEF InAir

(* The route implements the abstract flight: a download takes off only      *)
(* under the guard, after a look into the cache that is not stale, and      *)
(* nobody else publishes the blob before it does.                           *)
THEOREM RefinesFlight == Spec => ImplementsFlight
  <1>1. Init => F!Init
    BY DEF Init, F!Init, Flying
  <1>2. TypeOK /\ FlightInv /\ FlightInv' /\ [Next]_vars => [F!Next]_<<InAir, cached>>
    <2>. SUFFICES ASSUME TypeOK, FlightInv, FlightInv', [Next]_vars
                  PROVE  F!Next \/ UNCHANGED <<InAir, cached>>
      OBVIOUS
    <2>0. CASE UNCHANGED vars
      BY <2>0 DEF vars, InAir
    <2>1. ASSUME NEW r \in Requests, NEW d \in Digests, NEW k \in {"get", "head", "range"},
                 Arrive(r, d, k)
          PROVE  UNCHANGED <<InAir, cached>>
      <3>1. /\ \A s \in Requests : s # r => pc'[s] = pc[s] /\ dig'[s] = dig[s]
            /\ pc[r] \notin Flying /\ pc'[r] \notin Flying /\ cached' = cached
        BY <2>1 DEF Arrive, Goto, TypeOK, Flying
      <3>. QED  BY <3>1, GroundStep
    <2>2. ASSUME NEW r \in Requests, Handler(r)  PROVE F!Next \/ UNCHANGED <<InAir, cached>>
      <3>1. CASE Open(r)
        BY <3>1, DoneFlight, StepFlight DEF Open, Flying
      <3>2. CASE LookAgain(r)
        BY <3>2, DoneFlight, StepFlight DEF LookAgain, Flying
      <3>3. CASE PassThrough(r)
        BY <3>3, DoneFlight DEF PassThrough
      <3>4. CASE inflight_lock(r)
        <4>1. /\ \A s \in Requests : s # r => pc'[s] = pc[s] /\ dig'[s] = dig[s]
              /\ pc[r] \notin Flying /\ pc'[r] \notin Flying /\ cached' = cached
          BY <3>4 DEF inflight_lock, Goto, TypeOK, Flying
        <4>. QED  BY <4>1, GroundStep
      <3>5. CASE lock_owned(r)
        <4>1. /\ \A s \in Requests : s # r => pc'[s] = pc[s] /\ dig'[s] = dig[s]
              /\ pc[r] \notin Flying /\ pc'[r] \notin Flying /\ cached' = cached
          BY <3>5 DEF lock_owned, Goto, TypeOK, Flying
        <4>. QED  BY <4>1, GroundStep
      <3>6. CASE Acquired(r)
        BY <3>6, StepFlight DEF Acquired, Flying
      <3>7. CASE Recheck(r)
        <4>1. CASE FoundNow(r)
          BY <3>7, <4>1, StepFlight DEF Recheck, Flying
        <4>2. CASE ~FoundNow(r)
          <5>1. /\ \A s \in Requests : s # r => pc'[s] = pc[s]
                /\ pc[r] = "recheck" /\ pc'[r] = "upstream" /\ UNCHANGED <<dig, cached>>
            BY <3>7, <4>2 DEF Recheck, Step, Goto, TypeOK
          <5>2. dig[r] \in Digests /\ dig[r] \notin cached
            BY <4>2, <5>1 DEF TypeOK, FoundNow
          <5>3. \A s \in Requests : pc[s] \in Flying => dig[s] # dig[r]
            BY <5>1, Exclusive, Points DEF Flying, Guarded
          <5>4. dig[r] \notin InAir /\ InAir' = InAir \cup {dig[r]}
            BY <5>1, <5>2, <5>3 DEF InAir, Flying
          <5>5. PICK d \in Digests : d = dig[r]
            BY <5>2
          <5>6. F!TakeOff(d)
            BY <5>1, <5>2, <5>4, <5>5 DEF F!TakeOff, InAir
          <5>. QED  BY <5>6 DEF F!Next
        <4>. QED  BY <4>1, <4>2
      <3>8. CASE NotFetched(r)
        BY <3>8, DoneFlight DEF NotFetched
      <3>9. CASE Spawn(r)
        BY <3>9, StepFlight DEF Spawn, Flying
      <3>10. CASE Commit(r)
        <4>1. /\ \A s \in Requests : s # r => pc'[s] = pc[s]
              /\ pc[r] = "download" /\ pc'[r] = "publish" /\ UNCHANGED dig
              /\ cached' = cached \cup {dig[r]}
          BY <3>10 DEF Commit, Goto, TypeOK
        <4>2. dig[r] \in Digests /\ dig[r] \notin cached
          BY <4>1 DEF TypeOK, FlightInv, NotYetCached
        <4>3. dig[r] \in InAir /\ InAir' = InAir
          BY <4>1, <4>2 DEF InAir, Flying
        <4>4. PICK d \in Digests : d = dig[r]
          BY <4>2
        <4>5. F!Publish(d)
          BY <4>1, <4>2, <4>3, <4>4 DEF F!Publish, InAir
        <4>. QED  BY <4>5 DEF F!Next
      <3>11. CASE TaskEnds(r)
        BY <3>11, DoneFlight DEF TaskEnds
      <3>. QED  BY <2>2, <3>1, <3>2, <3>3, <3>4, <3>5, <3>6, <3>7, <3>8, <3>9, <3>10, <3>11
               DEF Handler
    <2>3. ASSUME NEW r \in Requests, Disconnect(r)  PROVE F!Next \/ UNCHANGED <<InAir, cached>>
      BY <2>3, DoneFlight DEF Disconnect
    <2>4. ASSUME NEW d \in Digests, Evict(d)  PROVE F!Next \/ UNCHANGED <<InAir, cached>>
      <3>1. InAir' = InAir
        BY <2>4 DEF Evict, InAir
      <3>2. F!Evict(d)
        BY <2>4, <3>1 DEF Evict, F!Evict, InAir
      <3>. QED  BY <3>2 DEF F!Next
    <2>. QED  BY <2>0, <2>1, <2>2, <2>3, <2>4 DEF Next
  <1>3. [F!Next]_<<InAir, cached>> => [F!Next]_<<{d \in Digests : \E r \in Requests : pc[r] \in Flying /\ dig[r] = d}, cached>>
    BY DEF InAir
  <1>. QED  BY <1>1, <1>2, <1>3, TypeCorrect, FlightInvariant, PTL DEF Spec, ImplementsFlight, F!Spec

-----------------------------------------------------------------------------
(* The size of the in-flight map *)

Used(m) == {d \in Digests : m[d] # None}

(* What pruning keeps of a map above its cap are digests somebody asks for. *)
LEMMA PrunedIsAskedFor ==
    ASSUME FlightAssumption, TypeOK, FlightInv, Cardinality(Used(inflight)) > Cap
    PROVE  Used(Prune(inflight)) \subseteq {dig[s] : s \in Requests}
  <1>. SUFFICES ASSUME NEW d \in Digests, Prune(inflight)[d] # None
                PROVE  d \in {dig[s] : s \in Requests}
    BY DEF Used
  <1>1. inflight[d] # None /\ Referenced(inflight[d])
    BY DEF Prune, Used
  <1>2. PICK s \in Requests : lockOf[s] = inflight[d]
    BY <1>1 DEF Referenced
  <1>3. inflight[dig[s]] = inflight[d] /\ pc[s] # "idle"
    BY <1>1, <1>2, Points DEF FlightInv, HeldIsMapped
  <1>4. dig[s] \in Digests
    BY <1>3 DEF TypeOK
  <1>5. dig[s] = d
    BY <1>1, <1>3, <1>4 DEF FlightInv, OwnMutex
  <1>. QED  BY <1>5

(* inflight_lock adds one entry to a map that is small or was pruned. *)
LEMMA LockBounded ==
    ASSUME FlightAssumption, TypeOK, FlightInv, NEW r \in Requests, inflight_lock(r)
    PROVE  MapBounded'
  <1>. DEFINE m == Prune(inflight)
              old == Used(inflight)
              new == Used(inflight')
  <1>1. dig[r] \in Digests /\ new \subseteq Used(m) \cup {dig[r]} /\ IsFiniteSet(old)
    <2>1. dig[r] \in Digests
      BY DEF inflight_lock, TypeOK
    <2>2. PICK l \in Locks : inflight' = [m EXCEPT ![dig[r]] = l]
      BY DEF inflight_lock
    <2>3. m \in [Digests -> Locks \cup {None}]
      BY <2>1, PruneKeeps
    <2>4. new \subseteq Used(m) \cup {dig[r]}
      <3>. HIDE DEF m
      <3>. QED  BY <2>1, <2>2, <2>3 DEF Used
    <2>5. IsFiniteSet(old)
      BY FS_Subset DEF Used, FlightAssumption
    <2>. QED  BY <2>1, <2>4, <2>5
  <1>2. Cardinality(old) \in Nat /\ Cap \in Nat
    BY <1>1, FS_CardinalityType DEF FlightAssumption
  <1>3. CASE Cardinality(old) <= Cap
    <2>1. m = inflight
      BY <1>2, <1>3 DEF Prune, Used
    <2>2. new \subseteq old \cup {dig[r]}
      BY <1>1, <2>1
    <2>. DEFINE more == old \cup {dig[r]}
    <2>3. IsFiniteSet(more) /\ (Cardinality(more) = Cardinality(old) \/ Cardinality(more) = Cardinality(old) + 1)
      BY <1>1, FS_AddElement
    <2>. HIDE DEF more, old, new
    <2>4. Cardinality(new) <= Cardinality(more) /\ Cardinality(new) \in Nat
      BY <2>2, <2>3, FS_Subset, FS_CardinalityType DEF more
    <2>5. Cardinality(new) <= Cap + 1
      BY <1>2, <1>3, <2>3, <2>4
    <2>. QED  BY <2>5 DEF MapBounded, new, Used
  <1>4. CASE Cardinality(old) > Cap
    <2>. DEFINE asked == {dig[s] : s \in Requests}
    <2>1. new \subseteq asked
      BY <1>1, <1>4, PrunedIsAskedFor
    <2>2. IsFiniteSet(asked) /\ Cardinality(asked) <= Cardinality(Requests)
      <3>1. dig \in Surjection(Requests, asked)
        BY DEF TypeOK, Surjection
      <3>. QED  BY <3>1, FS_Surjection DEF FlightAssumption
    <2>3. Cardinality(Requests) \in Nat /\ Cardinality(asked) \in Nat
      BY <2>2, FS_CardinalityType DEF FlightAssumption
    <2>. HIDE DEF asked, new
    <2>4. Cardinality(new) <= Cardinality(asked) /\ Cardinality(new) \in Nat
      BY <2>1, <2>2, FS_Subset, FS_CardinalityType
    <2>5. Cardinality(new) <= Cardinality(Requests)
      BY <2>2, <2>3, <2>4
    <2>. QED  BY <2>5 DEF MapBounded, new, Used
  <1>. QED  BY <1>2, <1>3, <1>4

(* The in-flight map does not grow with the digests ever asked for: above   *)
(* its cap it holds no more than one entry for each request at hand.        *)
THEOREM InflightIsBounded == Spec => []MapBounded
  <1>1. Init => MapBounded
    <2>. SUFFICES ASSUME Init  PROVE MapBounded
      OBVIOUS
    <2>1. {d \in Digests : inflight[d] # None} = {}
      BY DEF Init
    <2>2. Cardinality({d \in Digests : inflight[d] # None}) = 0
      BY <2>1, FS_EmptySet
    <2>. QED  BY <2>2, FlightAssumption DEF MapBounded, FlightAssumption
  <1>2. TypeOK /\ FlightInv /\ MapBounded /\ [Next]_vars => MapBounded'
    <2>. SUFFICES ASSUME TypeOK, FlightInv, MapBounded, [Next]_vars  PROVE MapBounded'
      OBVIOUS
    <2>1. UNCHANGED inflight \/ \E r \in Requests : inflight_lock(r)
      BY DEF Next, vars, Arrive, Handler, Open, LookAgain, PassThrough, lock_owned, Acquired, Recheck,
             NotFetched, Spawn, Commit, TaskEnds, Disconnect, Evict, Done, Step
    <2>2. CASE UNCHANGED inflight
      BY <2>2 DEF MapBounded
    <2>. QED  BY <2>1, <2>2, LockBounded, FlightAssumption
  <1>. QED  BY <1>1, <1>2, TypeCorrect, FlightInvariant, PTL DEF Spec

=============================================================================
