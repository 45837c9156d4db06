------------------------------ MODULE DexDiscovery ------------------------------
(***************************************************************************)
(* How swaps on the DEX programs become rows, scores and events.           *)
(* discovery_loop (app/worker.py) samples the newest transactions of each  *)
(* program since a cursor (DexDiscoveryService); what it finds goes        *)
(* through TokenDetectionService, TradeCollector and ScoreCollector, which *)
(* look for a row and insert it if it is missing.  Another session, the    *)
(* poll or the WebSocket, does the same to the wallets it monitors.        *)
(***************************************************************************)
EXTENDS Naturals, Sequences, SequencesExt, FiniteSets

CONSTANTS
  Programs,    \* discovery_programs, a sequence
  Wallet, Monitored, Token,
  NoTx,
  Window,      \* page_size * max_pages
  MaxTx,       \* bound: transactions on the chain
  MaxFaults    \* bound: failed calls, missing details, crashes

Program == {Programs[i] : i \in DOMAIN Programs}
Tx == Program \X (1 .. MaxTx)

ASSUME DiscoveryAssumption ==
  /\ Programs \in Seq(Program)
  /\ Monitored \subseteq Wallet /\ Wallet \cap Token = {}
  /\ NoTx \notin Tx /\ Window \in Nat \ {0} /\ MaxTx \in Nat /\ MaxFaults \in Nat

VARIABLES
  chain,     \* of each program: a sequence of swaps, [wallet, token]
  cursor,    \* service_heartbeats "discovery:...": newest transaction sampled
  rows,      \* tokens, wallets and trades, by their unique keys
  scores,    \* snapshots: the trades they were computed from
  published, \* history: the transactions whose TradeScored was published
  sampled,   \* history: those a scan has listed
  lost,      \* history: those whose details were missing when asked for, or
             \* that left the window before a scan succeeded
  tx, at,    \* of both sessions: the transaction in hand, the item of its plan
  got,       \* and what was read for it
  pc,        \* discovery_loop
  left,      \* the programs of this cycle that are left
  todo,      \* the transactions of the scan in hand that are left
  newest,    \* the newest of them
  broken,    \* the session needs a rollback
  faults

tables == <<cursor, rows, scores>>
history == <<published, sampled, lost>>
session == <<tx, at, got>>
scan == <<todo, newest>>
cycle == <<left, broken>>
vars == <<chain, tables, history, session, pc, scan, cycle, faults>>

Fault == faults < MaxFaults /\ faults' = faults + 1

Discovery == "discovery"
Peer == "peer"
Session == {Discovery, Peer}

Height(p) == Len(chain[p])
OnChain == {t \in Tx : t[2] <= Height(t[1])}
Swap(t) == chain[t[1]][t[2]]

Init ==
  /\ chain = [p \in Program |-> <<>>] /\ cursor = [p \in Program |-> 0]
  /\ rows = {} /\ scores = [w \in Wallet |-> {}]
  /\ published = {} /\ sampled = {} /\ lost = {}
  /\ tx = [s \in Session |-> NoTx] /\ at = [s \in Session |-> 1]
  /\ got = [s \in Session |-> <<"no">>]
  /\ pc = "idle" /\ left = <<>> /\ todo = <<>> /\ newest = 0
  /\ broken = FALSE
  /\ faults = 0

NewTransaction(p) ==
  /\ Cardinality(OnChain) < MaxTx
  /\ \E w \in Wallet, k \in Token :
       chain' = [chain EXCEPT ![p] = Append(@, [wallet |-> w, token |-> k])]
  /\ UNCHANGED <<tables, history, session, pc, scan, cycle, faults>>

-----------------------------------------------------------------------------
(* The handling of one swap: TokenCreated, TradeObserved, WalletUpdated,
   TradeScored.  Each item is read, and then written.  The score of the token is
   computed and saved as that of the wallet is, and left out. *)

PlanEarly(t) ==    \* slip: the scores before the trade
  <<<<"row", Swap(t).token>>, <<"row", Swap(t).wallet>>, <<"score", Swap(t).wallet>>,
    <<"row", t>>>>

Plan(t) ==
  <<<<"row", Swap(t).token>>, <<"row", Swap(t).wallet>>, <<"row", t>>,
    <<"score", Swap(t).wallet>>>>

Item(s) == Plan(tx[s])[at[s]]

Busy(s) == tx[s] # NoTx /\ (s = Discovery => ~broken)

Read(s) ==
  /\ Busy(s) /\ at[s] <= 4 /\ got[s][1] = "no"
  /\ got' = [got EXCEPT ![s] =
       IF Item(s)[1] = "score"
       THEN <<"trades", {t \in rows \cap OnChain : Swap(t).wallet = Item(s)[2]}>>
       ELSE IF Item(s)[2] \in rows THEN <<"found">> ELSE <<"missing">>]
  /\ UNCHANGED <<chain, tables, history, tx, at, pc, scan, cycle, faults>>

Turned(s) ==
  /\ at' = [at EXCEPT ![s] = @ + 1] /\ got' = [got EXCEPT ![s] = <<"no">>]
  /\ UNCHANGED <<chain, cursor, history, tx, pc, scan, cycle, faults>>

RowIsThere(s) ==
  /\ Busy(s) /\ got[s][1] = "found"
  /\ Turned(s) /\ UNCHANGED <<rows, scores>>

InsertRow(s) ==
  /\ Busy(s) /\ got[s][1] = "missing" /\ Item(s)[2] \notin rows
  /\ rows' = rows \cup {Item(s)[2]}
  /\ Turned(s) /\ UNCHANGED scores

SaveScore(s) ==
  /\ Busy(s) /\ got[s][1] = "trades"
  /\ scores' = [scores EXCEPT ![Item(s)[2]] = got[s][2]]
  /\ Turned(s) /\ UNCHANGED rows

LeaveAt(s) ==    \* slip: the next transaction goes on at the item of this one
  /\ tx' = [tx EXCEPT ![s] = NoTx] /\ UNCHANGED at
  /\ got' = [got EXCEPT ![s] = <<"no">>]

Leave(s) ==
  /\ tx' = [tx EXCEPT ![s] = NoTx] /\ at' = [at EXCEPT ![s] = 1]
  /\ got' = [got EXCEPT ![s] = <<"no">>]

PublishNew(s) ==    \* slip: a trade that is stored already is not published
  /\ Busy(s) /\ (at[s] = 5 \/ (at[s] = 3 /\ got[s][1] = "found"))
  /\ published' = IF at[s] = 5 THEN published \cup {tx[s]} ELSE published
  /\ Leave(s)
  /\ UNCHANGED <<chain, tables, sampled, lost, pc, scan, cycle, faults>>

Publish(s) ==
  /\ Busy(s) /\ at[s] = 5
  /\ published' = published \cup {tx[s]}
  /\ Leave(s)
  /\ UNCHANGED <<chain, tables, sampled, lost, pc, scan, cycle, faults>>

Pipeline(s) == Read(s) \/ RowIsThere(s) \/ InsertRow(s) \/ SaveScore(s) \/ Publish(s)

Collides(s) == Busy(s) /\ got[s][1] = "missing" /\ Item(s)[2] \in rows

-----------------------------------------------------------------------------
(* The other session, one transaction at a time; an exception ends it. *)

PeerBegins ==
  /\ tx[Peer] = NoTx
  /\ \E t \in OnChain :
       Swap(t).wallet \in Monitored /\ tx' = [tx EXCEPT ![Peer] = t]
  /\ UNCHANGED <<chain, tables, history, at, got, pc, scan, cycle, faults>>

PeerFails ==
  /\ tx[Peer] # NoTx
  /\ IF Collides(Peer) THEN UNCHANGED faults ELSE Fault
  /\ Leave(Peer)
  /\ UNCHANGED <<chain, tables, history, pc, scan, cycle>>

-----------------------------------------------------------------------------
(* discovery_loop and scan_program *)

BeginCycleInSession ==    \* slip: the session of the cycle before is used again
  /\ pc = "idle"
  /\ left' = Programs
  /\ pc' = "cycle"
  /\ UNCHANGED <<chain, tables, history, session, scan, broken, faults>>

BeginCycle ==
  /\ pc = "idle"
  /\ left' = Programs /\ broken' = FALSE
  /\ pc' = "cycle"
  /\ UNCHANGED <<chain, tables, history, session, scan, faults>>

(* The newest transactions down to the cursor, at most a window of them.  Pages
   go on from the last signature of the one before, so that what arrives after
   the first page is not seen; on a cold start the window is only a sample. *)
Lowest(p) ==
  LET below == IF Height(p) > Window THEN Height(p) - Window ELSE 0
  IN IF cursor[p] > below THEN cursor[p] + 1 ELSE below + 1

ListPages ==
  /\ pc = "cycle" /\ left # <<>> /\ ~broken
  /\ LET p == Head(left) IN
       /\ newest' = Height(p)
       /\ todo' = [i \in 1 .. Height(p) + 1 - Lowest(p) |-> <<p, Lowest(p) + i - 1>>]
  /\ sampled' = sampled \cup {todo'[i] : i \in DOMAIN todo'}
  /\ lost' = lost \cup
       {t \in sampled : t[1] = Head(left) /\ t[2] \in cursor[t[1]] + 1 .. Lowest(t[1]) - 1}
  /\ pc' = "scan"
  /\ UNCHANGED <<chain, tables, published, session, cycle, faults>>

(* get_transaction, for the oldest first *)
Fetch ==
  /\ pc = "scan" /\ todo # <<>> /\ tx[Discovery] = NoTx
  /\ tx' = [tx EXCEPT ![Discovery] = Head(todo)]
  /\ todo' = Tail(todo)
  /\ UNCHANGED <<chain, tables, history, at, got, pc, newest, cycle, faults>>

(* It answers nothing, and the transaction is skipped. *)
FetchMissing ==
  /\ pc = "scan" /\ todo # <<>> /\ tx[Discovery] = NoTx
  /\ Fault
  /\ lost' = lost \cup {Head(todo)}
  /\ todo' = Tail(todo)
  /\ UNCHANGED <<chain, tables, published, sampled, session, pc, newest, cycle>>

FinishScan ==
  /\ pc = "scan" /\ todo = <<>> /\ tx[Discovery] = NoTx
  /\ cursor' = IF newest > 0 THEN [cursor EXCEPT ![Head(left)] = newest] ELSE cursor
  /\ left' = Tail(left) /\ newest' = 0 /\ pc' = "cycle"
  /\ UNCHANGED <<chain, rows, scores, history, session, todo, broken, faults>>

(* The exception is caught in the loop over the programs. *)
ProgramFails ==
  /\ left' = Tail(left) /\ todo' = <<>> /\ newest' = 0
  /\ pc' = "cycle"
  /\ Leave(Discovery)
  /\ UNCHANGED <<chain, tables, history>>

(* A failed statement leaves the session unusable; a failed call does not. *)
ScanFails ==
  /\ pc \in {"cycle", "scan"} /\ left # <<>> /\ ~broken
  /\ IF Collides(Discovery) THEN UNCHANGED faults ELSE Fault
  /\ broken' \in IF Collides(Discovery) THEN {TRUE} ELSE BOOLEAN
  /\ ProgramFails

SessionRefuses ==
  /\ pc = "cycle" /\ left # <<>> /\ broken
  /\ ProgramFails
  /\ UNCHANGED <<broken, faults>>

(* The messages about failures are left out. *)
EndCycle ==
  /\ pc = "cycle" /\ left = <<>>
  /\ pc' = "idle"
  /\ UNCHANGED <<chain, tables, history, session, scan, left, broken, faults>>

Crash ==
  /\ pc # "idle" /\ Fault
  /\ pc' = "idle" /\ left' = <<>> /\ todo' = <<>> /\ newest' = 0
  /\ Leave(Discovery)
  /\ UNCHANGED <<chain, tables, history, broken>>

-----------------------------------------------------------------------------

Cycle ==
  \/ BeginCycle \/ ListPages \/ Fetch \/ FinishScan \/ SessionRefuses \/ EndCycle
  \/ Pipeline(Discovery)
  \/ Collides(Discovery) /\ ScanFails

Next ==
  \/ \E p \in Program : NewTransaction(p)
  \/ PeerBegins \/ Pipeline(Peer) \/ PeerFails
  \/ Cycle \/ FetchMissing \/ ScanFails \/ Crash

Spec == Init /\ [][Next]_vars

FairSpec == Spec /\ WF_vars(Cycle)

-----------------------------------------------------------------------------
(* Properties *)

TypeOK ==
  /\ cursor \in [Program -> 0 .. MaxTx]
  /\ rows \subseteq Wallet \cup Token \cup OnChain
  /\ \A w \in Wallet : \A t \in scores[w] : t \in rows /\ Swap(t).wallet = w
  /\ published \subseteq rows /\ sampled \subseteq OnChain /\ lost \subseteq sampled
  /\ \A s \in Session : tx[s] \in OnChain \cup {NoTx} /\ at[s] \in 1 .. 5
  /\ pc \in {"idle", "cycle", "scan"} /\ IsSuffix(left, Programs)
  /\ pc = "scan" => left # <<>> /\ \A i \in DOMAIN todo : todo[i] \in OnChain
  /\ tx[Discovery] # NoTx => pc = "scan" /\ tx[Discovery][1] = Head(left)
  /\ broken \in BOOLEAN /\ faults \in 0 .. MaxFaults

(* The cursor of a program passes a transaction that was sampled only when all of
   its events were published, unless its details were missing or it left the window
   of a scan before: an exception anywhere, or a crash, has it handled again, the
   trade that is stored already included (scan_program, TradeService.create_trade). *)
SampledIsPublished ==
  \A t \in sampled : t[2] <= cursor[t[1]] => t \in published \cup lost

(* The score of a wallet that only the discovery handles was computed from every
   trade whose handling was completed (TradeCollector, ScoreCollector). *)
PublishedIsScored ==
  \A t \in published : Swap(t).wallet \notin Monitored => t \in scores[Swap(t).wallet]

(* What is sampled is published in the end, unless newer transactions fill the
   window before a scan succeeds. *)
SampledIsHandled ==
  \A t \in Tx :
    t \in sampled ~> t \in published \cup lost
=============================================================================
