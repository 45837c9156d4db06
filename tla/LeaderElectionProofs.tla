------------------------- MODULE LeaderElectionProofs -------------------------
(***************************************************************************)
(* Who acts, for any number of replicas, tasks and faults.                 *)
(***************************************************************************)
EXTENDS LeaderElection, TLAPS

(* A replica that acts, or is about to be able to, holds the lock unless it has
   lost a session. *)
HoldsUnlessLost(r) ==
  (Acting(r) \/ conn[r] \/ pc[r] = "granted") /\ ~lost[r] => lock = r

LeaderInv == TypeOK /\ \A r \in Replica : HoldsUnlessLost(r)

LEMMA InitHolds == Init => LeaderInv
BY LeaderAssumption
DEF Init, LeaderInv, TypeOK, HoldsUnlessLost, Acting, Main, Task, Booted, AllOff

-----------------------------------------------------------------------------
(* Types *)

LEMMA ForfeitTypes ==
  ASSUME TypeOK, NEW r \in Replica, NEW holder \in Replica \cup {Nobody, Abandoned},
         Forfeit(r, holder)
  PROVE  /\ lock' \in Replica \cup {Nobody, Abandoned}
         /\ lost' \in [Replica -> BOOLEAN]
<1>1. lock' \in Replica \cup {Nobody, Abandoned}
  BY DEF TypeOK, Forfeit
<1>2. lost[r] \/ (lock = r /\ holder # r) \in BOOLEAN
  OBVIOUS
<1>3. lost' \in [Replica -> BOOLEAN]
  BY <1>2 DEF TypeOK, Forfeit
<1> QED BY <1>1, <1>3

LEMMA FaultTypes == ASSUME TypeOK, Fault PROVE faults' \in 0 .. MaxFaults
BY LeaderAssumption DEF TypeOK, Fault

LEMMA VerifiedGoes ==
  ASSUME TypeOK, NEW r \in Replica, Verified(r)
  PROVE  \E next \in {"ending", "poll", "start"} : pc' = [pc EXCEPT ![r] = next]
<1>1. CASE stopping[r]
  BY <1>1 DEF Verified
<1>2. CASE ~stopping[r] /\ Started(r)
  BY <1>2 DEF Verified
<1>3. CASE ~stopping[r] /\ ~Started(r)
  BY <1>3 DEF Verified
<1> QED BY <1>1, <1>2, <1>3

LEMMA TypeStep == ASSUME TypeOK, [Next]_vars PROVE TypeOK'
<1> USE DEF Main, Task
<1>1. CASE UNCHANGED vars
  BY <1>1 DEF vars, TypeOK
<1>2. ASSUME NEW r \in Replica, Acquire(r) PROVE TypeOK'
  <2>1. CASE NotAcquired(r)
    <3>1. lock' \in Replica \cup {Nobody, Abandoned} /\ lost' \in [Replica -> BOOLEAN]
      BY <2>1, ForfeitTypes DEF NotAcquired, TypeOK
    <3>2. faults' \in 0 .. MaxFaults
      BY <2>1, FaultTypes DEF NotAcquired, TypeOK
    <3> QED BY <2>1, <3>1, <3>2 DEF NotAcquired, TypeOK
  <2>2. CASE ~NotAcquired(r)
    BY <1>2, <2>2 DEF Acquire, Grant, Acquired, StillLeader, TypeOK
  <2> QED BY <2>1, <2>2
<1>3. ASSUME NEW r \in Replica, Verify(r) PROVE TypeOK'
  <2>1. CASE Verified(r)
    BY <2>1, VerifiedGoes DEF Verified, TypeOK
  <2>2. CASE VerifyFails(r)
    <3>1. lock' \in Replica \cup {Nobody, Abandoned} /\ lost' \in [Replica -> BOOLEAN]
      BY <2>2, ForfeitTypes DEF VerifyFails, TypeOK
    <3>2. faults' \in 0 .. MaxFaults
      BY <2>2, FaultTypes DEF VerifyFails, TypeOK
    <3> QED BY <2>2, <3>1, <3>2 DEF VerifyFails, Forgotten, TypeOK
  <2>3. CASE VerifyRaises(r)
    BY <2>3, FaultTypes DEF VerifyRaises, TypeOK
  <2> QED BY <1>3, <2>1, <2>2, <2>3 DEF Verify
<1>4. ASSUME NEW r \in Replica, StartUp(r) \/ StartUpFails(r) \/ PollEnds(r)
      PROVE  TypeOK'
  <2>1. CASE StartUp(r)
    <3>1. act' \in [Replica -> [Loop -> Task]]
      BY <2>1 DEF StartUp, TypeOK
    <3> QED BY <2>1, <3>1 DEF StartUp, TypeOK
  <2>2. CASE StartUpFails(r) \/ PollEnds(r)
    BY <2>2, FaultTypes DEF StartUpFails, PollEnds, TypeOK
  <2> QED BY <1>4, <2>1, <2>2
<1>5. ASSUME NEW r \in Replica, End(r) PROVE TypeOK'
  <2>1. CASE \E l \in Loop : CancelTask(r, l)
    <3>1. PICK l \in Loop : CancelTask(r, l)
      BY <2>1
    <3>2. act' \in [Replica -> [Loop -> Task]]
      BY <3>1 DEF CancelTask, TypeOK
    <3> QED BY <3>1, <3>2 DEF CancelTask, TypeOK
  <2>2. CASE StopSeen(r) \/ Release(r)
    BY <2>2 DEF StopSeen, Release, SessionsClose, TypeOK
  <2> QED BY <1>5, <2>1, <2>2 DEF End
<1>6. ASSUME NEW r \in Replica, NEW l \in Loop, Cycle(r, l) PROVE TypeOK'
  <2>1. PICK t \in Task : act' = [act EXCEPT ![r][l] = t]
    BY <1>6 DEF Cycle, BeginCycle, EndCycle, LoopEnds
  <2>2. act' \in [Replica -> [Loop -> Task]]
    BY <2>1 DEF TypeOK
  <2> QED BY <1>6, <2>2 DEF Cycle, BeginCycle, EndCycle, LoopEnds, TypeOK
<1>7. ASSUME NEW r \in Replica, Stop(r) \/ Crash(r) \/ Restart(r) \/ SessionLost(r)
      PROVE  TypeOK'
  <2>1. CASE Stop(r)
    BY <2>1, FaultTypes DEF Stop, TypeOK
  <2>2. CASE Crash(r)
    BY <2>2, FaultTypes DEF Crash, SessionsClose, AllOff, TypeOK
  <2>3. CASE Restart(r)
    BY <2>3, LeaderAssumption DEF Restart, Booted, AllOff, TypeOK
  <2>4. CASE SessionLost(r)
    BY <2>4, FaultTypes, ForfeitTypes DEF SessionLost, TypeOK
  <2> QED BY <1>7, <2>1, <2>2, <2>3, <2>4
<1>8. CASE Reap
  BY <1>8 DEF Reap, TypeOK
<1> QED BY <1>1, <1>2, <1>3, <1>4, <1>5, <1>6, <1>7, <1>8 DEF Next, MainLoop

-----------------------------------------------------------------------------
(* Holding the lock *)

(* A step of s can only bring the lock to s or take it from s. *)
LEMMA OthersKeep ==
  ASSUME LeaderInv, NEW s \in Replica, NEW r \in Replica, r # s,
         lock' = lock \/ lock \in {Nobody, s}, lost'[r] = lost[r],
         UNCHANGED <<conn[r], pc[r], act[r]>>
  PROVE  HoldsUnlessLost(r)'
BY LeaderAssumption DEF LeaderInv, HoldsUnlessLost, Acting

LEMMA AcquireKeeps ==
  ASSUME LeaderInv, NEW s \in Replica, Acquire(s), NEW r \in Replica
  PROVE  HoldsUnlessLost(r)'
<1>1. CASE r # s
  <2>1. /\ (lock' = lock \/ lock \in {Nobody, s}) /\ lost'[r] = lost[r]
        /\ UNCHANGED <<conn[r], pc[r], act[r]>>
    BY <1>1
    DEF LeaderInv, TypeOK, Acquire, Grant, Acquired, NotAcquired, StillLeader, Forfeit
  <2> QED BY <1>1, <2>1, OthersKeep
<1>2. CASE r = s
  <2> USE <1>2 DEF LeaderInv, TypeOK, HoldsUnlessLost, Acting
  <2>1. CASE Grant(s)
    BY <2>1 DEF Grant
  <2>2. CASE Acquired(s)
    BY <2>2 DEF Acquired
  <2>3. CASE NotAcquired(s)
    BY <2>3 DEF NotAcquired, Forfeit
  <2>4. CASE StillLeader(s)
    BY <2>4 DEF StillLeader
  <2> QED BY <2>1, <2>2, <2>3, <2>4 DEF Acquire
<1> QED BY <1>1, <1>2

LEMMA VerifyKeeps ==
  ASSUME LeaderInv, NEW s \in Replica, Verify(s), NEW r \in Replica
  PROVE  HoldsUnlessLost(r)'
<1>1. CASE r # s
  <2>1. /\ (lock' = lock \/ lock \in {Nobody, s}) /\ lost'[r] = lost[r]
        /\ UNCHANGED <<conn[r], pc[r], act[r]>>
    BY <1>1
    DEF LeaderInv, TypeOK, Verify, Verified, VerifyFails, VerifyRaises, Forfeit, Forgotten
  <2> QED BY <1>1, <2>1, OthersKeep
<1>2. CASE r = s
  <2>1. CASE Verified(s)
    BY <1>2, <2>1 DEF Verified, HoldsUnlessLost
  <2>2. CASE VerifyFails(s)
    BY <1>2, <2>2
    DEF LeaderInv, TypeOK, HoldsUnlessLost, Acting, VerifyFails, Forfeit, Forgotten
  <2>3. CASE VerifyRaises(s)
    BY <1>2, <2>3 DEF LeaderInv, TypeOK, HoldsUnlessLost, Acting, VerifyRaises
  <2> QED BY <2>1, <2>2, <2>3 DEF Verify
<1> QED BY <1>1, <1>2

LEMMA WorkKeeps ==
  ASSUME LeaderInv, NEW s \in Replica,
         \/ StartUp(s) \/ StartUpFails(s) \/ PollEnds(s) \/ Stop(s) \/ Restart(s)
         \/ StopSeen(s) \/ \E l \in Loop : CancelTask(s, l) \/ Cycle(s, l),
         NEW r \in Replica
  PROVE  HoldsUnlessLost(r)'
<1>1. UNCHANGED <<lock, lost, conn>>
  BY DEF StartUp, StartUpFails, PollEnds, Stop, Restart, StopSeen, CancelTask,
         Cycle, BeginCycle, EndCycle, LoopEnds
<1>2. /\ pc'[r] = "granted" => pc[r] = "granted"
      /\ Acting(r)' => Acting(r) \/ conn[r]
  BY LeaderAssumption
  DEF LeaderInv, TypeOK, Acting, StartUp, StartUpFails, PollEnds, Stop, Restart,
      StopSeen, CancelTask, Cycle, BeginCycle, EndCycle, LoopEnds, Booted, AllOff
<1> QED BY <1>1, <1>2 DEF LeaderInv, HoldsUnlessLost

LEMMA ExitKeeps ==
  ASSUME LeaderInv, NEW s \in Replica, Release(s) \/ Crash(s), NEW r \in Replica
  PROVE  HoldsUnlessLost(r)'
<1>1. CASE r # s
  <2>1. /\ (lock' = lock \/ lock \in {Nobody, s}) /\ lost'[r] = lost[r]
        /\ UNCHANGED <<conn[r], pc[r], act[r]>>
    BY <1>1 DEF LeaderInv, TypeOK, Release, Crash, SessionsClose
  <2> QED BY <1>1, <2>1, OthersKeep
<1>2. CASE r = s
  BY <1>2
  DEF LeaderInv, TypeOK, HoldsUnlessLost, Acting, Release, Crash, TasksEnded, AllOff
<1> QED BY <1>1, <1>2

LEMMA LossKeeps ==
  ASSUME LeaderInv, (\E s \in Replica : SessionLost(s)) \/ Reap, NEW r \in Replica
  PROVE  HoldsUnlessLost(r)'
BY LeaderAssumption
DEF LeaderInv, TypeOK, HoldsUnlessLost, Acting, SessionLost, Forfeit, Reap

LEMMA LeaderStep == ASSUME LeaderInv, [Next]_vars PROVE LeaderInv'
<1>1. TypeOK'
  BY TypeStep DEF LeaderInv
<1>2. ASSUME NEW r \in Replica PROVE HoldsUnlessLost(r)'
  <2>1. CASE UNCHANGED vars
    BY <2>1 DEF vars, LeaderInv, HoldsUnlessLost, Acting
  <2>2. CASE Next
    BY <2>2, AcquireKeeps, VerifyKeeps, WorkKeeps, ExitKeeps, LossKeeps
    DEF Next, MainLoop, End
  <2> QED BY <2>1, <2>2
<1> QED BY <1>1, <1>2 DEF LeaderInv

-----------------------------------------------------------------------------
(* Theorems *)

(* The variables keep their types: the lock always has one holder or none. *)
THEOREM LeaderTypeCorrect == Spec => []TypeOK
<1>1. LeaderInv => TypeOK
  BY DEF LeaderInv
<1> QED BY InitHolds, LeaderStep, <1>1, PTL DEF Spec

(* run() stops its tasks before it lets go of the lock, and failed calls never
   free it under a task: two replicas act together only after a lost session. *)
THEOREM LeadersExcludeEachOther == Spec => []ExclusiveUnlessLost
<1>1. LeaderInv => ExclusiveUnlessLost
  BY DEF LeaderInv, HoldsUnlessLost, ExclusiveUnlessLost
<1> QED BY InitHolds, LeaderStep, <1>1, PTL DEF Spec

=============================================================================
