---------------------------- MODULE LeaderElection ----------------------------
(***************************************************************************)
(* Which replica of the worker acts (app/infrastructure/leader_election.py *)
(* and the main loop of app/worker.py).                                    *)
(*                                                                         *)
(* A replica leads while it believes to hold a PostgreSQL advisory lock:   *)
(* `is_leader` only says that `_connection` is set.  The lock belongs to   *)
(* the database session behind that connection, and the server frees it    *)
(* when the session ends, which the replica finds out when its main loop   *)
(* calls `verify`.  The other loops of the worker only read `is_leader`.   *)
(***************************************************************************)
EXTENDS Naturals

CONSTANTS
  Replica,     \* the worker processes
  Loop,        \* the background tasks of one process
  Heartbeat,   \* the one that runs before the replica has ever led
  Nobody,      \* no session holds the lock
  Abandoned,   \* a session whose client is gone holds it
  MaxFaults    \* bound: lost sessions, failed calls, stops and crashes

ASSUME LeaderAssumption ==
  /\ Heartbeat \in Loop
  /\ Nobody \notin Replica /\ Abandoned \notin Replica /\ Nobody # Abandoned
  /\ MaxFaults \in Nat

VARIABLES
  lock,      \* PostgreSQL: the process whose session holds the advisory lock
  conn,      \* conn[r]: `_connection is not None`
  pc,        \* pc[r]: where the main loop of run() is
  act,       \* act[r][l]: the background tasks
  stopping,  \* stopping[r]: stop_event
  lost,      \* history: r lost a session that held the lock
  faults

vars == <<lock, conn, pc, act, stopping, lost, faults>>

Main == {"top", "granted", "verify", "start", "poll", "ending", "down"}
Task == {"off", "idle", "acting"}

Fault == faults < MaxFaults /\ faults' = faults + 1

-----------------------------------------------------------------------------
(* Helpers *)

AllOff == [l \in Loop |-> "off"]
Booted == [AllOff EXCEPT ![Heartbeat] = "idle"]
Started(r) == \A l \in Loop \ {Heartbeat} : act[r][l] # "off"
TasksSignalled(r) == stopping[r]    \* slip: released while tasks still run
TasksEnded(r) == \A l \in Loop : act[r][l] = "off"

(* The lock leaves r although r has not ended. *)
Forfeit(r, holder) ==
  /\ lock' = IF lock = r THEN holder ELSE lock
  /\ lost' = [lost EXCEPT ![r] = lost[r] \/ (lock = r /\ holder # r)]

(* verify() found the session dead: forget the connection. *)
ClosedOnly(r) == conn                                  \* slip: never reset
ClosedKept(r) == [conn EXCEPT ![r] = Abandoned]        \* slip: not None
Forgotten(r) == [conn EXCEPT ![r] = FALSE]

(* The connections of a process that ends are closed; the server may take a
   while to notice. *)
SessionsClose(r) ==
  \E holder \in {Nobody, Abandoned} : lock' = IF lock = r THEN holder ELSE lock

Init ==
  /\ lock = Nobody
  /\ conn = [r \in Replica |-> FALSE]
  /\ pc = [r \in Replica |-> "top"]
  /\ act = [r \in Replica |-> Booted]
  /\ stopping = [r \in Replica |-> FALSE]
  /\ lost = [r \in Replica |-> FALSE]
  /\ faults = 0

-----------------------------------------------------------------------------
(* The main loop *)

(* try_acquire without a connection: the lock is free, or a session in this
   process's own pool has kept it.  A refusal changes nothing: the loop waits
   and comes back. *)
Grant(r) ==
  /\ pc[r] = "top" /\ ~stopping[r] /\ ~conn[r]
  /\ lock \in {Nobody, r}
  /\ lock' = r
  /\ lost' = [lost EXCEPT ![r] = FALSE]
  /\ pc' = [pc EXCEPT ![r] = "granted"]
  /\ UNCHANGED <<conn, act, stopping, faults>>

(* The commit after the SELECT went through. *)
Acquired(r) ==
  /\ pc[r] = "granted" /\ lock = r
  /\ conn' = [conn EXCEPT ![r] = TRUE]
  /\ pc' = [pc EXCEPT ![r] = "verify"]
  /\ UNCHANGED <<lock, act, stopping, lost, faults>>

(* The commit failed: the connection goes back to the pool with its lock, or is
   dropped. *)
NotAcquired(r) ==
  /\ pc[r] = "granted"
  /\ \/ lock # r /\ UNCHANGED <<lock, lost, faults>>
     \/ Fault /\ \E holder \in {r, Nobody, Abandoned} : Forfeit(r, holder)
  /\ pc' = [pc EXCEPT ![r] = "top"]
  /\ UNCHANGED <<conn, act, stopping>>

(* try_acquire with a connection returns at once. *)
StillLeader(r) ==
  /\ pc[r] = "top" /\ ~stopping[r] /\ conn[r]
  /\ pc' = [pc EXCEPT ![r] = "verify"]
  /\ UNCHANGED <<lock, conn, act, stopping, lost, faults>>

Verified(r) ==
  /\ pc[r] = "verify" /\ lock = r
  /\ pc' = [pc EXCEPT ![r] = CASE stopping[r] -> "ending"
                               [] ~stopping[r] /\ Started(r) -> "poll"
                               [] OTHER -> "start"]
  /\ UNCHANGED <<lock, conn, act, stopping, lost, faults>>

(* The session is dead, or the query fails although it is alive: then the
   connection is dropped, or back in the pool with its lock. *)
VerifyFails(r) ==
  /\ pc[r] = "verify"
  /\ \/ lock # r /\ UNCHANGED <<lock, lost, faults>>
     \/ Fault /\ \E holder \in {r, Abandoned} : Forfeit(r, holder)
  /\ conn' = Forgotten(r)
  /\ pc' = [pc EXCEPT ![r] = "top"]
  /\ UNCHANGED <<act, stopping>>

(* verify() only catches SQLAlchemyError; anything else ends run(). *)
VerifyRaises(r) ==
  /\ pc[r] = "verify" /\ Fault
  /\ pc' = [pc EXCEPT ![r] = "ending"]
  /\ UNCHANGED <<lock, conn, act, stopping, lost>>

(* First time as a leader: initialize the portfolio, start the tasks. *)
StartUp(r) ==
  /\ pc[r] = "start"
  /\ act' = [act EXCEPT ![r] = [l \in Loop |-> IF @[l] = "off" THEN "idle" ELSE @[l]]]
  /\ pc' = [pc EXCEPT ![r] = "poll"]
  /\ UNCHANGED <<lock, conn, stopping, lost, faults>>

StartUpFails(r) ==
  /\ pc[r] = "start" /\ Fault
  /\ pc' = [pc EXCEPT ![r] = "top"]
  /\ UNCHANGED <<lock, conn, act, stopping, lost>>

(* MonitorWorker.run_once returned or raised; the loop waits. *)
PollEnds(r) ==
  /\ pc[r] = "poll"
  /\ pc' = [pc EXCEPT ![r] = "top"]
  /\ UNCHANGED <<lock, conn, act, stopping, lost, faults>>

StopSeen(r) ==
  /\ pc[r] = "top" /\ stopping[r]
  /\ pc' = [pc EXCEPT ![r] = "ending"]
  /\ UNCHANGED <<lock, conn, act, stopping, lost, faults>>

(* `finally`: cancel each task and await it, the heartbeat last; ... *)
CancelTask(r, l) ==
  /\ pc[r] = "ending" /\ act[r][l] # "off"
  /\ l = Heartbeat => \A m \in Loop \ {l} : act[r][m] = "off"
  /\ act' = [act EXCEPT ![r][l] = "off"]
  /\ UNCHANGED <<lock, conn, pc, stopping, lost, faults>>

(* ... then release the lock and close the pool. *)
Release(r) ==
  /\ pc[r] = "ending" /\ TasksEnded(r)
  /\ SessionsClose(r)
  /\ conn' = [conn EXCEPT ![r] = FALSE]
  /\ pc' = [pc EXCEPT ![r] = "down"]
  /\ UNCHANGED <<act, stopping, lost, faults>>

-----------------------------------------------------------------------------
(* The background tasks *)

(* `if leader.is_leader` *)
BeginCycle(r, l) ==
  /\ act[r][l] = "idle" /\ ~stopping[r] /\ conn[r]
  /\ act' = [act EXCEPT ![r][l] = "acting"]
  /\ UNCHANGED <<lock, conn, pc, stopping, lost, faults>>

EndCycle(r, l) ==
  /\ act[r][l] = "acting"
  /\ act' = [act EXCEPT ![r][l] = "idle"]
  /\ UNCHANGED <<lock, conn, pc, stopping, lost, faults>>

LoopEnds(r, l) ==
  /\ act[r][l] = "idle" /\ stopping[r]
  /\ act' = [act EXCEPT ![r][l] = "off"]
  /\ UNCHANGED <<lock, conn, pc, stopping, lost, faults>>

-----------------------------------------------------------------------------
(* Processes and the server *)

Stop(r) ==
  /\ pc[r] # "down" /\ ~stopping[r] /\ Fault
  /\ stopping' = [stopping EXCEPT ![r] = TRUE]
  /\ UNCHANGED <<lock, conn, pc, act, lost>>

Crash(r) ==
  /\ pc[r] # "down" /\ Fault
  /\ SessionsClose(r)
  /\ conn' = [conn EXCEPT ![r] = FALSE]
  /\ pc' = [pc EXCEPT ![r] = "down"]
  /\ act' = [act EXCEPT ![r] = AllOff]
  /\ UNCHANGED <<stopping, lost>>

Restart(r) ==
  /\ pc[r] = "down"
  /\ pc' = [pc EXCEPT ![r] = "top"]
  /\ act' = [act EXCEPT ![r] = Booted]
  /\ stopping' = [stopping EXCEPT ![r] = FALSE]
  /\ UNCHANGED <<lock, conn, lost, faults>>

(* The server ends the session: a restart, a timeout, an administrator. *)
SessionLost(r) ==
  /\ lock = r /\ Fault
  /\ Forfeit(r, Nobody)
  /\ UNCHANGED <<conn, pc, act, stopping>>

(* The server notices that a client is gone. *)
Reap ==
  /\ lock = Abandoned
  /\ lock' = Nobody
  /\ UNCHANGED <<conn, pc, act, stopping, lost, faults>>

-----------------------------------------------------------------------------
Acquire(r) == Grant(r) \/ Acquired(r) \/ NotAcquired(r) \/ StillLeader(r)
Verify(r) == Verified(r) \/ VerifyFails(r) \/ VerifyRaises(r)
End(r) == StopSeen(r) \/ (\E l \in Loop : CancelTask(r, l)) \/ Release(r)
MainLoop(r) ==
  Acquire(r) \/ Verify(r) \/ StartUp(r) \/ StartUpFails(r) \/ PollEnds(r) \/ End(r)
Cycle(r, l) == BeginCycle(r, l) \/ EndCycle(r, l) \/ LoopEnds(r, l)

Next ==
  \/ \E r \in Replica :
       \/ MainLoop(r) \/ \E l \in Loop : Cycle(r, l)
       \/ Stop(r) \/ Crash(r) \/ Restart(r) \/ SessionLost(r)
  \/ Reap

Spec == Init /\ [][Next]_vars

(* The main loop never blocks for good, a stopped process is started again by
   its supervisor, and the server detects dead clients. *)
Fairness ==
  /\ \A r \in Replica : WF_vars(MainLoop(r)) /\ WF_vars(Restart(r))
  /\ WF_vars(Reap)

FairSpec == Spec /\ Fairness

-----------------------------------------------------------------------------
(* Properties *)

TypeOK ==
  /\ lock \in Replica \cup {Nobody, Abandoned}
  /\ conn \in [Replica -> BOOLEAN]
  /\ pc \in [Replica -> Main]
  /\ act \in [Replica -> [Loop -> Task]]
  /\ stopping \in [Replica -> BOOLEAN]
  /\ lost \in [Replica -> BOOLEAN]
  /\ faults \in 0 .. MaxFaults

(* A replica that polls, starts up, or has a task in the middle of a cycle. *)
Acting(r) ==
  pc[r] \in {"start", "poll"} \/ \E l \in Loop : act[r][l] = "acting"

(* Two replicas act at the same time only if one of them has lost the session
   that held its lock: stopping, restarting, failing over and failed calls never
   let two act (the order of `finally` in run()). *)
ExclusiveUnlessLost ==
  \A r, s \in Replica : r # s /\ Acting(r) /\ Acting(s) => lost[r] \/ lost[s]

(* A replica whose session is gone does not go on believing that it leads. *)
StaleLeaderNotices ==
  \A r \in Replica : conn[r] /\ lock # r ~> ~conn[r]

(* Once faults cease, one replica leads for good: no lock is orphaned and no
   process waits for itself. *)
SomebodyLeads == <>[](\E r \in Replica : conn[r] /\ lock = r /\ Started(r))

=============================================================================
