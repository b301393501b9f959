-------------------------- MODULE ManagementProofs --------------------------
(***************************************************************************)
(* Proofs about CertJob and PullManager, for any number of requests, jobs, *)
(* images, restarts and certificates, and any limits.                      *)
(***************************************************************************)
EXTENDS MCManagement, FiniteSetTheorems, TLAPS

(* The instances of the components bring their own names for the operators  *)
(* of FiniteSets.                                                           *)
LEMMA SameCounting ==
    /\ \A S : Cert!Cardinality(S) = Cardinality(S) /\ Pulls!Cardinality(S) = Cardinality(S)
    /\ \A S : Pulls!IsFiniteSet(S) = IsFiniteSet(S)
  <1>1. \A S : Cert!Cardinality(S) = Cardinality(S)
    BY Zenon DEF Cert!Cardinality, Cardinality
  <1>2. \A S : Pulls!Cardinality(S) = Cardinality(S)
    BY Zenon DEF Pulls!Cardinality, Cardinality
  <1>3. \A S : Pulls!IsFiniteSet(S) = IsFiniteSet(S)
    BY Zenon DEF Pulls!IsFiniteSet, IsFiniteSet
  <1>. QED  BY <1>1, <1>2, <1>3

-----------------------------------------------------------------------------
(* Certificates *)

Certs == [ver : Int, key : Int]
Pairs == [cert : Certs, key : Int]

(* At these points the container has exited with success, and nobody has    *)
(* created another.                                                         *)
Harvest == {"reap", "succeed"} \cup Cert!Deploying

CertTypes ==
    /\ layout \in Cert!Layouts
    /\ status \in {"idle", "running", "done", "failed"}
    /\ pc \in [Requests -> {"idle", "asked", "reboot"} \cup Cert!Tasks]
    /\ container \in {"none", "created", "running", "ok", "bad"}
    /\ issued \in Pairs /\ live \in Pairs
    /\ issued.cert.ver \in Nat /\ issued.key \in Nat

(* A job holds the status from its claim to its result, so there is one. *)
StatusHeld ==
    /\ \A r \in Cert!Active : status = "running"
    /\ \A r, s \in Cert!Active : r = s

(* What acme.sh wrote is a pair that belongs together. *)
IssuedWell ==
    /\ container = "ok" => Cert!Loads(issued)
    /\ \A r \in Requests : pc[r] \in Harvest => Cert!Loads(issued)

(* Nothing rewrites the pair while it is deployed or after it was. *)
AtRest ==
    /\ \A r \in Requests : pc[r] \in Harvest => container \in {"none", "ok"}
    /\ \A r \in Requests : pc[r] = "reap" => container = "ok"
    /\ status = "done" => container \in {"none", "ok"}

(* The files that were copied so far are those that were found. *)
Copied ==
    /\ \A r \in Requests : pc[r] \in {"certcopy", "key", "keycopy", "succeed"} => Cert!Loads(Cert!found)
    /\ \A r \in Requests : pc[r] \in {"key", "keycopy"} => live.cert = Cert!found.cert
    /\ \A r \in Requests : pc[r] = "succeed" => live = Cert!found

CertInv == CertTypes /\ StatusHeld /\ IssuedWell /\ AtRest /\ Copied /\ DoneIsDeployed

(* What a copy finds changes only when acme.sh writes, and is a pair that   *)
(* belongs together in every layout.                                        *)
LEMMA FoundSame == UNCHANGED <<layout, issued>> => Cert!found' = Cert!found
  BY DEF Cert!found

LEMMA FoundWell ==
    ASSUME CertTypes, Cert!Loads(issued), Cert!found # Cert!NoFiles
    PROVE  Cert!found \in Pairs /\ Cert!Loads(Cert!found)
  <1>1. MaxIssues + 1 \in Nat \ {0}
    BY ManagementAssumption DEF ManagementAssumption, Cert!CertAssumption
  <1>2. Cert!Placed \in Pairs /\ Cert!Loads(Cert!Placed)
    BY <1>1 DEF Cert!Placed, Cert!Loads, Pairs, Certs
  <1>. QED  BY <1>2 DEF CertTypes, Cert!found, Cert!Layouts

(* A job of its own moves on, and leaves status, container and files alone. *)
LEMMA CallInv ==
    ASSUME CertInv, NEW r \in Requests, NEW l \in {"idle", "asked", "reboot"} \cup Cert!Tasks,
           pc[r] \in Cert!Tasks \cup {"asked", "reboot"},
           pc' = [pc EXCEPT ![r] = l], l \in {"asked", "reboot"} => l = pc[r],
           pc[r] = "reboot" => l = "idle", l \in Harvest => l = "reap" /\ container = "ok",
           UNCHANGED <<layout, status, container, issued, live>>
    PROVE  CertInv'
  <1>1. CertTypes' /\ DoneIsDeployed'
    BY FoundSame DEF CertInv, CertTypes, DoneIsDeployed, Cert!DoneIsDeployed
  <1>2. \A s \in Requests : s \in Cert!Active' => s \in Cert!Active
    BY DEF Cert!Active, CertInv, CertTypes, Cert!Tasks, Cert!Deploying
  <1>3. StatusHeld'
    BY <1>2 DEF StatusHeld, CertInv, Cert!Active
  <1>4. \A s \in Requests : pc'[s] = pc[s] \/ pc'[s] \notin Harvest \/ (pc'[s] = "reap" /\ container = "ok")
    BY DEF CertInv, CertTypes
  <1>5. IssuedWell' /\ AtRest' /\ Copied'
    BY <1>4, FoundSame DEF IssuedWell, AtRest, Copied, CertInv, Harvest, Cert!Deploying
  <1>. QED  BY <1>1, <1>3, <1>5 DEF CertInv

(* The container changes hands while its job is far from deploying. *)
LEMMA ContainerInv ==
    ASSUME CertInv, NEW r \in Requests, NEW l \in {"create", "start", "wait", "fail"},
           pc[r] \in {"clean", "create", "start", "bury"},
           pc' = [pc EXCEPT ![r] = l],
           container' \in {"none", "created", "running", container},
           UNCHANGED <<layout, status, issued, live>>
    PROVE  CertInv'
  <1>1. r \in Cert!Active /\ status = "running"
    BY DEF Cert!Active, Cert!Tasks, CertInv, StatusHeld
  <1>2. \A s \in Requests : s \in Cert!Active' <=> s \in Cert!Active
    BY DEF Cert!Active, CertInv, CertTypes, Cert!Tasks
  <1>3. \A s \in Requests : pc'[s] \notin Harvest
    BY <1>1 DEF CertInv, CertTypes, StatusHeld, Cert!Active, Harvest, Cert!Tasks, Cert!Deploying
  <1>4. CertTypes'
    BY DEF CertInv, CertTypes, Cert!Tasks
  <1>5. StatusHeld'
    BY <1>1, <1>2 DEF CertInv, StatusHeld, Cert!Active
  <1>6. IssuedWell' /\ AtRest' /\ Copied' /\ DoneIsDeployed'
    BY <1>1, <1>3 DEF CertInv, IssuedWell, AtRest, Copied, Harvest, Cert!Deploying, DoneIsDeployed, Cert!DoneIsDeployed
  <1>. QED  BY <1>4, <1>5, <1>6 DEF CertInv

(* Every step of a job, acme.sh and a restart at any point keep the         *)
(* invariant.                                                               *)
LEMMA CertNext == CertInv /\ [Cert!Next]_(Cert!vars) => CertInv'
  <1>. SUFFICES ASSUME CertInv, [Cert!Next]_(Cert!vars)  PROVE CertInv'
    OBVIOUS
  <1>1. ASSUME NEW r \in Requests, Cert!Claim(r)  PROVE CertInv'
    <2>1. /\ pc[r] = "idle" /\ status # "running" /\ status' = "running"
          /\ pc' = [pc EXCEPT ![r] = "asked"] /\ UNCHANGED <<layout, container, issued, live>>
      BY <1>1 DEF Cert!Claim, Cert!MayClaim, Cert!Goto
    <2>2. \A s \in Requests : s \notin Cert!Active
      BY <2>1 DEF CertInv, StatusHeld
    <2>3. CertTypes' /\ DoneIsDeployed'
      BY <2>1, FoundSame DEF CertInv, CertTypes, DoneIsDeployed, Cert!DoneIsDeployed
    <2>4. \A s \in Requests : pc'[s] = pc[s] \/ (s = r /\ pc'[s] = "asked")
      BY <2>1 DEF CertInv, CertTypes
    <2>5. StatusHeld'
      BY <2>1, <2>2, <2>4 DEF StatusHeld, Cert!Active
    <2>6. IssuedWell' /\ AtRest' /\ Copied'
      BY <2>1, <2>4, FoundSame DEF CertInv, IssuedWell, AtRest, Copied, Harvest, Cert!Deploying
    <2>. QED  BY <2>3, <2>5, <2>6 DEF CertInv
  <1>2. ASSUME NEW r \in Requests,
               Cert!Disconnect(r) \/ Cert!SelfId(r) \/ Cert!PullImage(r) \/ Cert!Inspect(r)
        PROVE  CertInv'
    <2>1. \E l \in {"idle", "pull", "inspect", "clean", "fail"} : pc' = [pc EXCEPT ![r] = l]
      BY <1>2 DEF Cert!Disconnect, Cert!SelfId, Cert!PullImage, Cert!Inspect, Cert!Call, Cert!Goto
    <2>2. pc[r] \in {"asked", "pull", "inspect"} /\ UNCHANGED <<layout, status, container, issued, live>>
      BY <1>2 DEF Cert!Disconnect, Cert!SelfId, Cert!PullImage, Cert!Inspect, Cert!Call
    <2>. QED  BY <2>1, <2>2, CallInv DEF Cert!Tasks, Harvest, Cert!Deploying
  <1>3. ASSUME NEW r \in Requests,
               Cert!RemoveLeftover(r) \/ Cert!CreateContainer(r) \/ Cert!StartContainer(r)
        PROVE  CertInv'
    <2>1. \E l \in {"create", "start", "wait", "fail"} : pc' = [pc EXCEPT ![r] = l]
      BY <1>3 DEF Cert!RemoveLeftover, Cert!CreateContainer, Cert!StartContainer, Cert!Goto
    <2>2. /\ pc[r] \in {"clean", "create", "start"} /\ UNCHANGED <<layout, status, issued, live>>
          /\ container' \in {"none", "created", "running", container}
      BY <1>3 DEF Cert!RemoveLeftover, Cert!CreateContainer, Cert!StartContainer
    <2>. QED  BY <2>1, <2>2, ContainerInv
  <1>4. ASSUME NEW r \in Requests, Cert!WaitReturns(r) \/ Cert!WaitTimeout(r) \/ Cert!NoReboot(r)
        PROVE  CertInv'
    <2>1. /\ pc[r] \in {"wait", "reboot"} /\ UNCHANGED <<layout, status, container, issued, live>>
          /\ \/ pc' = [pc EXCEPT ![r] = "reap"] /\ container = "ok" /\ pc[r] = "wait"
             \/ \E l \in {"bury", "fail"} : pc' = [pc EXCEPT ![r] = l] /\ pc[r] = "wait"
             \/ pc' = [pc EXCEPT ![r] = "idle"] /\ pc[r] = "reboot"
      BY <1>4 DEF Cert!WaitReturns, Cert!WaitTimeout, Cert!NoReboot, Cert!Call, Cert!Goto
    <2>. QED  BY <2>1, CallInv DEF Cert!Tasks, Harvest, Cert!Deploying
  <1>5. ASSUME NEW r \in Requests, Cert!RemoveContainer(r)  PROVE CertInv'
    <2>1. UNCHANGED <<layout, status, issued, live>> /\ container' \in {"none", container}
      BY <1>5 DEF Cert!RemoveContainer
    <2>2. CASE pc[r] = "bury"
      <3>1. pc' = [pc EXCEPT ![r] = "fail"]
        BY <1>5, <2>2 DEF Cert!RemoveContainer, Cert!Goto
      <3>. QED  BY <2>1, <2>2, <3>1, ContainerInv
    <2>3. CASE pc[r] = "reap"
      <3>1. pc' = [pc EXCEPT ![r] = "cert"]
        BY <1>5, <2>3 DEF Cert!RemoveContainer, Cert!Goto
      <3>2. r \in Cert!Active /\ status = "running" /\ \A s \in Cert!Active : s = r
        BY <2>3 DEF Cert!Active, Cert!Tasks, CertInv, StatusHeld
      <3>3. \A s \in Requests : s # r => pc'[s] = pc[s] /\ pc[s] \notin Cert!Tasks
        BY <3>1, <3>2 DEF CertInv, CertTypes, Cert!Active
      <3>4. CertTypes' /\ DoneIsDeployed'
        BY <2>1, <3>1, <3>2 DEF CertInv, CertTypes, Cert!Tasks, Cert!Deploying, DoneIsDeployed, Cert!DoneIsDeployed
      <3>5. StatusHeld'
        BY <2>1, <3>1, <3>2 DEF CertInv, CertTypes, StatusHeld, Cert!Active
      <3>6. pc'[r] = "cert"
        BY <3>1 DEF CertInv, CertTypes
      <3>7. IssuedWell' /\ AtRest' /\ Copied'
        BY <2>1, <2>3, <3>2, <3>3, <3>6, FoundSame
           DEF CertInv, IssuedWell, AtRest, Copied, Harvest, Cert!Tasks, Cert!Deploying
      <3>. QED  BY <3>4, <3>5, <3>7 DEF CertInv
    <2>. QED  BY <1>5, <2>2, <2>3 DEF Cert!RemoveContainer
  <1>6. ASSUME NEW r \in Requests, Cert!CopyOpens(r) \/ Cert!CopyEnds(r)  PROVE CertInv'
    <2>1. UNCHANGED <<layout, status, container, issued>> /\ pc[r] \in Cert!Deploying
      BY <1>6 DEF Cert!CopyOpens, Cert!CopyEnds, Cert!Deploying
    <2>2. r \in Cert!Active /\ status = "running" /\ \A s \in Cert!Active : s = r
      BY <2>1 DEF Cert!Active, Cert!Tasks, CertInv, StatusHeld
    <2>3. Cert!Torn \in Certs
      BY DEF Cert!Torn, Certs
    <2>4. \/ pc' = [pc EXCEPT ![r] = "certcopy"] /\ live' = [live EXCEPT !.cert = Cert!Torn]
          \/ pc' = [pc EXCEPT ![r] = "keycopy"] /\ live' = [live EXCEPT !.key = -1] /\ pc[r] = "key"
          \/ pc' = [pc EXCEPT ![r] = "key"] /\ live' = [live EXCEPT !.cert = Cert!found.cert]
          \/ pc' = [pc EXCEPT ![r] = "succeed"] /\ live' = [live EXCEPT !.key = Cert!found.key] /\ pc[r] = "keycopy"
      BY <1>6 DEF Cert!CopyOpens, Cert!CopyEnds, Cert!Goto
    <2>5. \A s \in Requests : s # r => pc'[s] = pc[s] /\ pc[s] \notin Cert!Tasks
      BY <2>2, <2>4 DEF CertInv, CertTypes, Cert!Active
    <2>6. pc'[r] \in Harvest \ {"reap"} /\ pc'[r] \in Cert!Tasks
      BY <2>4 DEF CertInv, CertTypes, Harvest, Cert!Tasks, Cert!Deploying
    <2>14. Cert!found \in Pairs /\ Cert!Loads(Cert!found)
      <3>1. pc[r] \in Harvest /\ Cert!Loads(issued)
        BY <2>1 DEF CertInv, IssuedWell, Harvest
      <3>2. Cert!found # Cert!NoFiles
        <4>1. CASE Cert!CopyOpens(r)
          BY <4>1 DEF Cert!CopyOpens
        <4>2. CASE Cert!CopyEnds(r)
          <5>1. Cert!Loads(Cert!found)
            BY <4>2 DEF Cert!CopyEnds, CertInv, Copied
          <5>. QED  BY <5>1 DEF Cert!Loads, Cert!NoFiles, Cert!NoCert
        <4>. QED  BY <1>6, <4>1, <4>2
      <3>. QED  BY <3>1, <3>2, FoundWell DEF CertInv
    <2>7. live' \in Pairs
      BY <2>3, <2>4, <2>14 DEF CertInv, CertTypes, Pairs
    <2>8. pc' \in [Requests -> {"idle", "asked", "reboot"} \cup Cert!Tasks]
      BY <2>4 DEF CertInv, CertTypes, Cert!Tasks, Cert!Deploying
    <2>9. CertTypes' /\ DoneIsDeployed'
      BY <2>1, <2>2, <2>7, <2>8 DEF CertInv, CertTypes, DoneIsDeployed, Cert!DoneIsDeployed
    <2>10. StatusHeld'
      BY <2>1, <2>2, <2>5 DEF CertInv, StatusHeld, Cert!Active
    <2>11. IssuedWell' /\ AtRest'
      BY <2>1, <2>2, <2>5, <2>6 DEF CertInv, IssuedWell, AtRest, Harvest, Cert!Tasks, Cert!Deploying
    <2>12. /\ pc'[r] \in {"key", "keycopy"} => live'.cert = Cert!found.cert
           /\ pc'[r] = "succeed" => live' = Cert!found
      BY <2>4, <2>14 DEF CertInv, CertTypes, Copied, Pairs
    <2>13. Copied'
      BY <2>1, <2>5, <2>12, <2>14, FoundSame DEF Copied, Cert!Tasks, Cert!Deploying
    <2>. QED  BY <2>9, <2>10, <2>11, <2>13 DEF CertInv
  <1>7. ASSUME NEW r \in Requests, Cert!CopyFails(r)  PROVE CertInv'
    BY <1>7, CallInv DEF Cert!CopyFails, Cert!Call, Cert!Goto, Cert!Tasks, Cert!Deploying, Harvest
  <1>8. ASSUME NEW r \in Requests, Cert!Record(r)  PROVE CertInv'
    <2>1. /\ UNCHANGED <<layout, container, issued, live>>
          /\ \/ pc[r] = "succeed" /\ status' = "done" /\ pc' = [pc EXCEPT ![r] = "reboot"]
             \/ pc[r] = "fail" /\ status' = "failed" /\ pc' = [pc EXCEPT ![r] = "idle"]
      BY <1>8 DEF Cert!Record, Cert!Goto
    <2>2. r \in Cert!Active /\ \A s \in Cert!Active : s = r
      BY <2>1 DEF Cert!Active, Cert!Tasks, CertInv, StatusHeld
    <2>3. \A s \in Requests : /\ s # r => pc'[s] = pc[s] /\ pc[s] \notin Cert!Tasks \cup {"asked"}
                              /\ s = r => pc'[s] \in {"reboot", "idle"}
      BY <2>1, <2>2 DEF CertInv, CertTypes, Cert!Active
    <2>4. CertTypes'
      BY <2>1 DEF CertInv, CertTypes
    <2>5. StatusHeld'
      BY <2>3 DEF StatusHeld, Cert!Active, Cert!Tasks, Cert!Deploying
    <2>6. DoneIsDeployed' /\ AtRest'
      BY <2>1, <2>3, FoundSame DEF CertInv, IssuedWell, AtRest, Copied, Harvest, Cert!Tasks, Cert!Deploying,
                        DoneIsDeployed, Cert!DoneIsDeployed, Cert!Loads
    <2>7. IssuedWell' /\ Copied'
      BY <2>1, <2>3, FoundSame DEF CertInv, IssuedWell, Copied, Harvest, Cert!Tasks, Cert!Deploying, Cert!Loads
    <2>. QED  BY <2>4, <2>5, <2>6, <2>7 DEF CertInv
  <1>9. CASE Cert!AcmeExits
    <2>1. container = "running" /\ UNCHANGED <<layout, status, pc, live>>
      BY <1>9 DEF Cert!AcmeExits
    <2>2. status # "done" /\ \A r \in Requests : pc[r] \notin Harvest
      BY <2>1 DEF CertInv, AtRest
    <2>. DEFINE Good == /\ container' \in {"ok", "bad"} /\ issued' \in Pairs
                        /\ issued'.cert.ver \in Nat /\ issued'.key \in Nat
                        /\ container' = "ok" => Cert!Loads(issued')
    <2>3. Good
      <3>1. CASE container' = "bad" /\ UNCHANGED issued
        BY <3>1 DEF CertInv, CertTypes
      <3>2. ASSUME container' = "ok", NEW k \in {issued.key, issued.cert.ver + 1} \ {0},
                   issued' = [cert |-> [ver |-> issued.cert.ver + 1, key |-> k], key |-> k]
            PROVE  Good
        <4>1. issued.cert.ver \in Nat /\ issued.key \in Nat
          BY DEF CertInv, CertTypes
        <4>2. k \in Nat \ {0}
          BY <4>1
        <4>. QED  BY <3>2, <4>1, <4>2 DEF Cert!Loads, Pairs, Certs
      <3>. HIDE DEF Good
      <3>. QED  BY <1>9, <3>1, <3>2 DEF Cert!AcmeExits
    <2>. QED  BY <2>1, <2>2, <2>3
              DEF CertInv, CertTypes, StatusHeld, IssuedWell, AtRest, Copied, Harvest, Cert!Active,
                  DoneIsDeployed, Cert!DoneIsDeployed, Cert!Deploying
  <1>10. CASE Cert!Restart
    BY <1>10, FoundSame DEF Cert!Restart, CertInv, CertTypes, StatusHeld, IssuedWell, AtRest, Copied, Harvest,
                 Cert!Active, Cert!Tasks, DoneIsDeployed, Cert!DoneIsDeployed, Cert!Deploying
  <1>11. CASE UNCHANGED Cert!vars
    BY <1>11, FoundSame DEF Cert!vars, CertInv, CertTypes, StatusHeld, IssuedWell, AtRest, Copied,
                 Cert!Active, DoneIsDeployed, Cert!DoneIsDeployed
  <1>. QED  BY <1>1, <1>2, <1>3, <1>4, <1>5, <1>6, <1>7, <1>8, <1>9, <1>10, <1>11
            DEF Cert!Next, Cert!Task, Cert!Conflict

(* Nothing is issued, deployed or claimed when the first process starts. *)
LEMMA CertInit == Cert!Init => CertInv
  <1>1. Cert!NoFiles \in Pairs /\ Cert!NoFiles.cert.ver = 0 /\ Cert!NoFiles.key = 0
    BY DEF Cert!NoFiles, Cert!NoCert, Pairs, Certs
  <1>. QED  BY <1>1 DEF Cert!Init, CertInv, CertTypes, StatusHeld, IssuedWell, AtRest, Copied, Harvest,
                        Cert!Active, Cert!Tasks, DoneIsDeployed, Cert!DoneIsDeployed, Cert!Deploying

(* One certificate job at a time, whatever requests arrive, are dropped     *)
(* half way or outlive their container.                                     *)
THEOREM OneJobAtATime == Cert!Spec => []OneJob
  <1>1. CertInv => OneJob
    <2>. SUFFICES ASSUME CertInv  PROVE OneJob
      OBVIOUS
    <2>1. Cert!Active = {} \/ \E r \in Cert!Active : Cert!Active = {r}
      BY DEF CertInv, StatusHeld
    <2>2. Cardinality(Cert!Active) = 0 \/ Cardinality(Cert!Active) = 1
      BY <2>1, FS_EmptySet, FS_Singleton
    <2>. QED  BY <2>2, SameCounting DEF OneJob, Cert!OneJob
  <1>. QED  BY <1>1, CertInit, CertNext, PTL DEF Cert!Spec

(* While a job copies the files no acme.sh runs, also after a job timed out *)
(* or the process died.                                                     *)
THEOREM DeploysWhatIsFinished == Cert!Spec => []DeploysFinished
  <1>1. CertInv => DeploysFinished
    BY DEF CertInv, AtRest, Harvest, DeploysFinished, Cert!DeploysFinished
  <1>. QED  BY <1>1, CertInit, CertNext, PTL DEF Cert!Spec

(* A job that reports success has deployed both files of the pair that it   *)
(* found, and they belong together.                                         *)
THEOREM SuccessIsDeployed == Cert!Spec => []DoneIsDeployed
  <1>1. CertInv => DoneIsDeployed
    BY DEF CertInv
  <1>. QED  BY <1>1, CertInit, CertNext, PTL DEF Cert!Spec

-----------------------------------------------------------------------------
(* Pull jobs *)

PullTypes ==
    /\ want \in [Callers -> Images \cup {None}]
    /\ next_id \in Nat \ {0}
    /\ image \in [Pulls!Ids -> Images \cup {None}]
    /\ st \in [Pulls!Ids -> Pulls!Points]
    /\ quiet \in [Pulls!Ids -> BOOLEAN]
    /\ jobs \subseteq Pulls!Ids
    /\ \A j \in Pulls!Ids : j >= next_id => st[j] = "none"

PullingOf(i) == {j \in Pulls!Pulling : image[j] = i}
CreatingOf(i) == {c \in Pulls!Creating : want[c] = i}

PullInv ==
    /\ PullTypes
    /\ Cardinality(Pulls!Pulling) + Cardinality(Pulls!Creating) <= MaxActive + Cardinality(Callers) - 1
    /\ \A i \in Images : Cardinality(PullingOf(i)) + Cardinality(CreatingOf(i)) <= Cardinality(Callers)
    /\ Pulls!Pulling \subseteq jobs

(* What the proofs use of the constants. *)
LEMMA PullConstants ==
    /\ MaxActive \in Nat \ {0} /\ MaxJobs \in Nat /\ None \notin Images
    /\ IsFiniteSet(Callers) /\ Cardinality(Callers) \in Nat
    /\ IsFiniteSet(Pulls!Ids)
  <1>1. MaxActive \in Nat \ {0} /\ MaxJobs \in Nat /\ None \notin Images /\ IsFiniteSet(Callers)
    BY ManagementAssumption, SameCounting DEF ManagementAssumption, Pulls!PullAssumption
  <1>2. IsFiniteSet(Pulls!Ids)
    BY <1>1, FS_Interval DEF Pulls!Ids
  <1>. QED  BY <1>1, <1>2, FS_CardinalityType

(* The sets that are counted are finite. *)
LEMMA Finite ==
    /\ IsFiniteSet(Pulls!Pulling) /\ IsFiniteSet(Pulls!Creating)
    /\ \A i : IsFiniteSet(PullingOf(i)) /\ IsFiniteSet(CreatingOf(i))
  <1>1. Pulls!Pulling \subseteq Pulls!Ids /\ Pulls!Creating \subseteq Callers
    BY DEF Pulls!Pulling, Pulls!Creating
  <1>2. IsFiniteSet(Pulls!Pulling) /\ IsFiniteSet(Pulls!Creating)
    BY <1>1, PullConstants, FS_Subset
  <1>3. ASSUME NEW i  PROVE IsFiniteSet(PullingOf(i)) /\ IsFiniteSet(CreatingOf(i))
    BY <1>2, FS_Subset DEF PullingOf, CreatingOf
  <1>. QED  BY <1>2, <1>3

(* A caller that becomes a job is counted once, before and after. *)
LEMMA Exchange ==
    ASSUME NEW P, NEW C, IsFiniteSet(P), IsFiniteSet(C), NEW j, NEW c, j \notin P, c \in C
    PROVE  Cardinality(P \cup {j}) + Cardinality(C \ {c}) = Cardinality(P) + Cardinality(C)
  <1>1. Cardinality(P \cup {j}) = Cardinality(P) + 1
    BY FS_AddElement
  <1>2. Cardinality(C \ {c}) = Cardinality(C) - 1
    BY FS_RemoveElement
  <1>3. Cardinality(P) \in Nat /\ Cardinality(C) \in Nat
    BY FS_CardinalityType
  <1>. QED  BY <1>1, <1>2, <1>3

(* Fewer are not more. *)
LEMMA Fewer ==
    ASSUME NEW P, NEW C, IsFiniteSet(P), IsFiniteSet(C), NEW Q \in SUBSET P, NEW n \in Int,
           Cardinality(P) + Cardinality(C) <= n
    PROVE  Cardinality(Q) + Cardinality(C) <= n
  <1>1. Cardinality(Q) <= Cardinality(P) /\ IsFiniteSet(Q)
    BY FS_Subset
  <1>2. Cardinality(P) \in Nat /\ Cardinality(C) \in Nat /\ Cardinality(Q) \in Nat
    BY <1>1, FS_CardinalityType
  <1>. QED  BY <1>1, <1>2

(* A caller gets past the check only while the pulls it can see are below   *)
(* the limit and none is of its image, and it sees them all.                *)
LEMMA CheckInv ==
    ASSUME PullInv, NEW c \in Callers, NEW i \in Images, Pulls!Check(c, i)
    PROVE  PullInv'
  <1>. USE PullConstants
  <1>1. PICK active \in Pulls!Views : ~Pulls!SameImage(active, i) /\ ~Pulls!TooMany(active)
    BY DEF Pulls!Check
  <1>2. /\ want' = [want EXCEPT ![c] = i] /\ want[c] = None
        /\ UNCHANGED <<next_id, image, st, quiet, jobs>>
    BY DEF Pulls!Check
  <1>3. Pulls!Pulling \subseteq active /\ active \subseteq jobs
    <2>1. {j \in jobs : st[j] \in Pulls!Busy} \subseteq active /\ active \subseteq jobs
      BY DEF Pulls!Views
    <2>. QED  BY <2>1 DEF PullInv, Pulls!Pulling, Pulls!Busy
  <1>4. IsFiniteSet(active)
    BY <1>3, FS_Subset DEF PullInv, PullTypes
  <1>5. Cardinality(Pulls!Pulling) <= MaxActive - 1
    <2>1. Cardinality(active) < MaxActive /\ Cardinality(active) \in Nat
      BY <1>1, <1>4, FS_CardinalityType, SameCounting DEF Pulls!TooMany
    <2>2. Cardinality(Pulls!Pulling) <= Cardinality(active)
      BY <1>3, <1>4, FS_Subset
    <2>. QED  BY <2>1, <2>2, Finite, FS_CardinalityType
  <1>6. PullingOf(i) = {}
    BY <1>1, <1>3 DEF PullingOf, Pulls!SameImage
  <1>7. Pulls!Pulling' = Pulls!Pulling /\ \A k : PullingOf(k)' = PullingOf(k)
    BY <1>2 DEF PullingOf, Pulls!Pulling
  <1>8. ASSUME NEW T \in SUBSET Callers  PROVE Cardinality(T) <= Cardinality(Callers) /\ Cardinality(T) \in Nat
    BY FS_Subset, FS_CardinalityType
  <1>9. Pulls!Creating' \in SUBSET Callers /\ CreatingOf(i)' \in SUBSET Callers
    BY DEF Pulls!Creating, CreatingOf
  <1>10. \A k \in Images : k # i => CreatingOf(k)' = CreatingOf(k)
    BY <1>2 DEF PullInv, PullTypes, CreatingOf, Pulls!Creating
  <1>11. PullTypes' /\ (Pulls!Pulling \subseteq jobs)'
    BY <1>2, <1>7 DEF PullInv, PullTypes
  <1>12. Cardinality(Pulls!Pulling') + Cardinality(Pulls!Creating') <= MaxActive + Cardinality(Callers) - 1
    BY <1>5, <1>7, <1>8, <1>9, Finite, FS_CardinalityType
  <1>13. ASSUME NEW k \in Images
         PROVE  Cardinality(PullingOf(k)') + Cardinality(CreatingOf(k)') <= Cardinality(Callers)
    <2>1. CASE k = i
      <3>1. Cardinality(PullingOf(i)) = 0
        BY <1>6, FS_EmptySet
      <3>. QED  BY <2>1, <3>1, <1>7, <1>8, <1>9
    <2>2. CASE k # i
      BY <2>2, <1>7, <1>10 DEF PullInv
    <2>. QED  BY <2>1, <2>2
  <1>. QED  BY <1>11, <1>12, <1>13 DEF PullInv

(* The caller turns into a job, and the trimming drops no job that pulls. *)
LEMMA CreateInv ==
    ASSUME PullInv, NEW c \in Callers, Pulls!Create(c)
    PROVE  PullInv'
  <1>. USE PullConstants
  <1>1. /\ want[c] \in Images /\ next_id \in Pulls!Ids /\ st[next_id] = "none"
        /\ want' = [want EXCEPT ![c] = None] /\ next_id' = next_id + 1
        /\ image' = [image EXCEPT ![next_id] = want[c]]
        /\ st' = [st EXCEPT ![next_id] = "request"] /\ UNCHANGED quiet
    BY DEF Pulls!Create, Pulls!fetch_add, PullInv, PullTypes, Pulls!Ids
  <1>2. PICK active \in Pulls!Views : jobs' = Pulls!Retain(jobs \cup {next_id}, active \cup {next_id})
    BY DEF Pulls!Create
  <1>3. Pulls!Pulling' = Pulls!Pulling \cup {next_id} /\ next_id \notin Pulls!Pulling
    BY <1>1 DEF Pulls!Pulling, PullInv, PullTypes
  <1>4. Pulls!Creating' = Pulls!Creating \ {c} /\ c \in Pulls!Creating
    BY <1>1 DEF Pulls!Creating, PullInv, PullTypes
  <1>5. (Pulls!Pulling \subseteq jobs)' /\ jobs' \subseteq Pulls!Ids
    <2>1. {j \in jobs : st[j] \in Pulls!Busy} \subseteq active
      BY DEF Pulls!Views
    <2>2. Pulls!Pulling \subseteq active /\ Pulls!Pulling \subseteq jobs
      BY <2>1 DEF PullInv, Pulls!Pulling, Pulls!Busy
    <2>3. \A j \in jobs \cup {next_id} : j \in active \cup {next_id} => j \in jobs'
      BY <1>2 DEF Pulls!Retain
    <2>4. jobs' \subseteq jobs \cup {next_id}
      BY <1>2 DEF Pulls!Retain
    <2>. QED  BY <1>1, <1>3, <2>2, <2>3, <2>4 DEF PullInv, PullTypes
  <1>6. PullTypes'
    <2>1. \A j \in Pulls!Ids : j >= next_id' => st'[j] = "none"
      BY <1>1 DEF PullInv, PullTypes, Pulls!Ids
    <2>. QED  BY <1>1, <1>5, <2>1 DEF PullInv, PullTypes, Pulls!Points
  <1>7. Cardinality(Pulls!Pulling') + Cardinality(Pulls!Creating') <= MaxActive + Cardinality(Callers) - 1
    BY <1>3, <1>4, Exchange, Finite DEF PullInv
  <1>8. ASSUME NEW k \in Images
        PROVE  Cardinality(PullingOf(k)') + Cardinality(CreatingOf(k)') <= Cardinality(Callers)
    <2>1. CASE k = want[c]
      <3>1. PullingOf(k)' = PullingOf(k) \cup {next_id} /\ next_id \notin PullingOf(k)
        BY <1>1, <1>3, <2>1 DEF PullingOf, PullInv, PullTypes, Pulls!Pulling
      <3>2. CreatingOf(k)' = CreatingOf(k) \ {c} /\ c \in CreatingOf(k)
        BY <1>1, <1>4, <2>1 DEF CreatingOf, PullInv, PullTypes
      <3>. QED  BY <3>1, <3>2, Exchange, Finite DEF PullInv
    <2>2. CASE k # want[c]
      <3>1. PullingOf(k)' = PullingOf(k)
        BY <1>1, <1>3, <2>2 DEF PullingOf, PullInv, PullTypes, Pulls!Pulling
      <3>2. CreatingOf(k)' = CreatingOf(k)
        BY <1>1, <1>4, <2>2 DEF CreatingOf, PullInv, PullTypes, Pulls!Creating
      <3>. QED  BY <3>1, <3>2 DEF PullInv
    <2>. QED  BY <2>1, <2>2
  <1>. QED  BY <1>5, <1>6, <1>7, <1>8 DEF PullInv

(* A job's own steps never start a pull again. *)
LEMMA MoveInv ==
    ASSUME PullInv, NEW j \in Pulls!Ids, NEW from \in Pulls!Points \ {"none"}, NEW to \in Pulls!Points,
           to = "request" => FALSE, to = "stream" => from = "request", Pulls!Move(j, from, to)
    PROVE  PullInv'
  <1>. USE PullConstants
  <1>1. /\ st[j] = from /\ st' = [st EXCEPT ![j] = to] /\ UNCHANGED <<want, next_id, image, jobs>>
        /\ quiet' = [quiet EXCEPT ![j] = FALSE]
    BY DEF Pulls!Move
  <1>2. Pulls!Pulling' \in SUBSET Pulls!Pulling /\ Pulls!Creating' = Pulls!Creating
    BY <1>1 DEF Pulls!Pulling, Pulls!Creating, PullInv, PullTypes
  <1>3. \A k : PullingOf(k)' \in SUBSET PullingOf(k) /\ CreatingOf(k)' = CreatingOf(k)
    BY <1>1, <1>2 DEF PullingOf, CreatingOf
  <1>4. PullTypes'
    BY <1>1 DEF PullInv, PullTypes
  <1>5. Cardinality(Pulls!Pulling') + Cardinality(Pulls!Creating') <= MaxActive + Cardinality(Callers) - 1
    <2>1. MaxActive + Cardinality(Callers) - 1 \in Int
      OBVIOUS
    <2>. QED  BY <1>2, <2>1, Fewer, Finite DEF PullInv
  <1>6. ASSUME NEW k \in Images
        PROVE  Cardinality(PullingOf(k)') + Cardinality(CreatingOf(k)') <= Cardinality(Callers)
    BY <1>3, Fewer, Finite DEF PullInv
  <1>. QED  BY <1>1, <1>2, <1>4, <1>5, <1>6 DEF PullInv

(* Every step keeps the invariant. *)
LEMMA PullNext == PullInv /\ [Pulls!Next]_(Pulls!vars) => PullInv'
  <1>. SUFFICES ASSUME PullInv, [Pulls!Next]_(Pulls!vars)  PROVE PullInv'
    OBVIOUS
  <1>1. ASSUME NEW j \in Pulls!Ids, Pulls!Daemon(j) \/ Pulls!StreamEnds(j) \/ Pulls!IdleTimeout(j)
                                    \/ Pulls!BeginRetag(j)
        PROVE  PullInv'
    <2>1. \E from \in Pulls!Points \ {"none"}, to \in Pulls!Points :
             /\ to # "request" /\ (to = "stream" => from = "request")
             /\ Pulls!Move(j, from, to)
      BY <1>1 DEF Pulls!Daemon, Pulls!DaemonAccepts, Pulls!DaemonRefuses, Pulls!RetagEnds, Pulls!StreamEnds,
                  Pulls!AfterPull, Pulls!IdleTimeout, Pulls!BeginRetag, Pulls!Points
    <2>. QED  BY <2>1, MoveInv
  <1>2. CASE UNCHANGED Pulls!vars
    BY <1>2 DEF Pulls!vars, PullInv, PullTypes, PullingOf, CreatingOf, Pulls!Pulling, Pulls!Creating
  <1>3. ASSUME NEW j \in Pulls!Ids, Pulls!Frame(j) \/ Pulls!TimerRuns(j)  PROVE PullInv'
    <2>1. UNCHANGED <<want, next_id, image, st, jobs>> /\ quiet' \in [Pulls!Ids -> BOOLEAN]
      BY <1>3 DEF Pulls!Frame, Pulls!TimerRuns, Pulls!Listen, PullInv, PullTypes
    <2>. QED  BY <2>1 DEF PullInv, PullTypes, PullingOf, CreatingOf, Pulls!Pulling, Pulls!Creating
  <1>. QED  BY <1>1, <1>2, <1>3, CheckInv, CreateInv
            DEF Pulls!Next, Pulls!Task, Pulls!Refused, Pulls!BoundReached

(* The callers between check and push are all by which the number of pulls  *)
(* exceeds its limit, and a pull stays in the list that checks look at, for *)
(* any number of callers and jobs.                                          *)
THEOREM OvershootIsBounded == Pulls!Spec => []OvershootBounded
  <1>1. Pulls!Init => PullInv
    <2>. SUFFICES ASSUME Pulls!Init  PROVE PullInv
      OBVIOUS
    <2>1. Pulls!Pulling = {} /\ Pulls!Creating = {}
      BY DEF Pulls!Init, Pulls!Pulling, Pulls!Creating
    <2>2. \A i : PullingOf(i) = {} /\ CreatingOf(i) = {}
      BY <2>1 DEF PullingOf, CreatingOf
    <2>3. PullTypes
      BY DEF Pulls!Init, PullTypes, Pulls!Points
    <2>. QED  BY <2>1, <2>2, <2>3, FS_EmptySet, PullConstants DEF PullInv
  <1>2. PullInv => OvershootBounded
    BY SameCounting DEF PullInv, OvershootBounded, Pulls!OvershootBounded, PullingOf, CreatingOf
  <1>. QED  BY <1>1, <1>2, PullNext, PTL DEF Pulls!Spec
-----------------------------------------------------------------------------
(* What the run checks is a behaviour of each component: the theorems about *)
(* pulls and certificates hold for the jobs and the server side by side.    *)
THEOREM ManagementApart == Spec => Pulls!Spec /\ Cert!Spec /\ Serving!Spec
  <1>1. Init => Pulls!Init /\ Cert!Init /\ Serving!Init
    BY DEF Init
  <1>2. [Next]_vars => [Pulls!Next]_(Pulls!vars) /\ [Cert!Next]_(Cert!vars)
                       /\ [Serving!Next]_(Serving!vars)
    BY DEF Next, Waits, vars, pulls, cert, serving, Pulls!vars, Cert!vars, Serving!vars
  <1>. QED  BY <1>1, <1>2, PTL DEF Spec, Pulls!Spec, Cert!Spec, Serving!Spec
=============================================================================
