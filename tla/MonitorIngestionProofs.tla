------------------------ MODULE MonitorIngestionProofs ------------------------
(***************************************************************************)
(* What ingestion guarantees for any number of wallets and transactions,   *)
(* any page size and any number of faults.                                 *)
(***************************************************************************)
EXTENDS MonitorIngestion, TLAPS

-----------------------------------------------------------------------------
(* The inductive invariant *)

(* How deep the scan is: as long as no page had a gap, every page was full and
   above the checkpoint. *)
Depth ==
  IF scan.pages = 0 THEN scan.newest = 0 /\ scan.gaps = {}
  ELSE scan.gaps = {} => /\ scan.newest = scan.low + scan.pages * PageSize
                         /\ checkpoint[cur] <= scan.low

ScanInv ==
  /\ \A w \in Wallet : checkpoint[w] <= height[w]
  /\ pc \in {"scan", "mark"} \cup Handling
       => cur \in Wallet /\ scan.newest <= height[cur] /\ scan.low <= height[cur]
  /\ pc = "scan" => scan.pages < MaxPages /\ Depth
  /\ pc = "mark" /\ batch.kind = "resync" /\ scan.gaps = {}
       => checkpoint[cur] + MaxPages * PageSize <= scan.newest

(* What is excused when the checkpoint passes i: it was settled, or it had no
   details in this scan or in an earlier one. *)
Excused(i) == Settled(cur, i) \/ i \in leftOut[cur] \/ i \in scan.gaps

(* What is being handled is a batch of the wallet being scanned, what of it is not
   to be handled any more is excused, and the batch is only marked when nothing of
   it is left. *)
BatchInv ==
  /\ pc \in Handling => batch.kind = "batch"
  /\ pc = "mark" /\ batch.kind = "batch" => batch.todo = {}
  /\ pc \in {"mark"} \cup Handling /\ batch.kind = "batch"
       => /\ batch.todo \subseteq 1 .. scan.newest
          /\ \A i \in 1 .. scan.newest : i \in batch.todo \/ Excused(i)

PushInv == push.pc # "idle" => push.wallet \in Source /\ push.tx \in Tx

IngestionInv == TypeOK /\ ScanInv /\ BatchInv /\ PushInv /\ OnlyGapsAreMissed

LEMMA InitHolds == Init => IngestionInv
BY IngestionAssumption
DEF Init, IngestionInv, TypeOK, ScanInv, BatchInv, PushInv, OnlyGapsAreMissed, NoScan,
    NoBatch, NoPush, Handling, Tx

-----------------------------------------------------------------------------
(* Types *)

LEMMA FaultTypes ==
  ASSUME TypeOK, Fault \/ UNCHANGED faults PROVE faults' \in 0 .. MaxFaults
BY IngestionAssumption DEF TypeOK, Fault

ScanType ==
  [pages : Nat, low : 0 .. MaxHeight, newest : 0 .. MaxHeight, gaps : SUBSET Tx]

LEMMA PageTypes ==
  ASSUME TypeOK, cur \in Wallet
  PROVE  /\ PageTop \in 0 .. MaxHeight /\ PageBottom \in 0 .. MaxHeight
         /\ PageBottom <= PageTop /\ Page \subseteq Tx
         /\ FullPage => PageBottom + PageSize = PageTop
         /\ checkpoint[cur] \in 0 .. MaxHeight
BY IngestionAssumption DEF TypeOK, PageTop, PageBottom, Page, FullPage, Tx

LEMMA ForgetTypes ==
  ASSUME Forget
  PROVE  /\ cur' \in Wallet \cup {0}
         /\ scan' \in ScanType
         /\ batch' \in [kind : {"batch", "baseline", "resync", "broken"},
                        todo : SUBSET Tx]
BY IngestionAssumption DEF Forget, NoScan, NoBatch, ScanType

LEMMA EndTypes ==
  ASSUME TypeOK, cur \in Wallet, faults' \in 0 .. MaxFaults,
         NEW kind \in {"batch", "baseline", "resync", "broken"}, NEW first \in 1 .. MaxHeight + 1,
         NEW n \in 0 .. MaxHeight, NEW gaps \in SUBSET Page,
         ScanEnds(kind, first, n, gaps)
  PROVE  TypeOK'
<1>1. scan' \in ScanType
  BY PageTypes DEF ScanEnds, TypeOK, ScanType
<1>2. batch' \in [kind : {"batch", "baseline", "resync", "broken"}, todo : SUBSET Tx]
  BY IngestionAssumption DEF ScanEnds, Tx
<1> QED BY <1>1, <1>2 DEF ScanEnds, Handling, rows, outcome, passed, TypeOK, ScanType

LEMMA PollTypes == ASSUME IngestionInv, Poll PROVE TypeOK'
<1> USE IngestionAssumption
<1>0. TypeOK /\ ScanInv /\ BatchInv
  BY DEF IngestionInv
<1>1. CASE StartPoll
  BY <1>0, <1>1 DEF StartPoll, Monitors, rows, outcome, passed, TypeOK
<1>2. ASSUME NEW w \in Wallet, StartScan(w) PROVE TypeOK'
  <2>1. faults' \in 0 .. MaxFaults
    BY <1>0, <1>2, FaultTypes DEF StartScan
  <2>2. scan' \in ScanType
    BY <1>2 DEF StartScan, NoScan, ScanType
  <2> QED BY <1>0, <1>2, <2>1, <2>2
          DEF StartScan, NoBatch, rows, outcome, passed, TypeOK, ScanType
<1>3. CASE EndPoll
  BY <1>0, <1>3 DEF EndPoll, rows, outcome, passed, TypeOK
<1>4. CASE Scan
  <2>1. cur \in Wallet /\ FirstNew \in 1 .. MaxHeight + 1
    BY <1>0, <1>4, PageTypes DEF ScanInv, Scan, FirstNew
  <2>2. ASSUME NEW n \in 0 .. MaxHeight, TokenRepeats(n) PROVE TypeOK'
    BY <1>0, <2>1, <2>2, FaultTypes, EndTypes DEF TokenRepeats
  <2>3. ASSUME NEW n \in 0 .. MaxHeight, NEW gaps \in SUBSET Page, ReadPage(n, gaps)
        PROVE  TypeOK'
    <3>1. faults' \in 0 .. MaxFaults
      BY <1>0, <2>3, FaultTypes DEF ReadPage, Answered
    <3>2. CASE NextPage(n, gaps)
      <4>1. scan' \in ScanType
        BY <1>0, <2>1, <3>2, PageTypes DEF NextPage, TypeOK, ScanType
      <4> QED BY <1>0, <3>1, <3>2, <4>1
              DEF NextPage, rows, outcome, passed, TypeOK, ScanType
    <3> QED BY <1>0, <2>1, <2>3, <3>1, <3>2, EndTypes
            DEF ReadPage, ReachCheckpoint, FirstScan, ReachBeginning, GiveUp
  <2> QED BY <1>4, <2>2, <2>3 DEF Scan
<1>5. CASE Handle
  <2>1. PICK i \in batch.todo : Lookup(i) \/ Insert(i) \/ Publish(i)
    BY <1>5 DEF Handle
  <2>2. cur \in Wallet /\ i \in Tx
    BY <1>0, <2>1 DEF ScanInv, TypeOK, Lookup, Insert, Publish, Handling
  <2>3. CASE Lookup(i)
    BY <1>0, <2>2, <2>3 DEF Lookup, Handling, rows, outcome, passed, TypeOK
  <2>4. CASE Insert(i)
    BY <1>0, <2>2, <2>4 DEF Insert, Handling, outcome, passed, TypeOK
  <2>5. CASE Publish(i)
    BY <1>0, <2>2, <2>5 DEF Publish, Handling, rows, passed, TypeOK
  <2> QED BY <2>1, <2>3, <2>4, <2>5
<1>6. CASE MarkSuccess
  <2>1. cur \in Wallet /\ Advanced \in 0 .. MaxHeight
    BY <1>0, <1>6 DEF ScanInv, TypeOK, MarkSuccess, Advanced
  <2>2. PassedOver \subseteq Tx /\ Gaps \subseteq Tx
    BY <1>0 DEF TypeOK, PassedOver, Gaps, Tx
  <2> QED BY <1>0, <1>6, <2>1, <2>2, ForgetTypes DEF MarkSuccess, rows, TypeOK, ScanType
<1>7. CASE MarkError
  <2>1. cur \in Wallet
    BY <1>0, <1>7 DEF ScanInv, MarkError
  <2> QED BY <1>0, <1>7, <2>1, ForgetTypes, FaultTypes
          DEF MarkError, outcome, passed, TypeOK, ScanType
<1>8. CASE SessionFails
  BY <1>0, <1>8, ForgetTypes, FaultTypes
  DEF SessionFails, rows, outcome, passed, TypeOK, ScanType
<1> QED BY <1>1, <1>2, <1>3, <1>4, <1>5, <1>6, <1>7, <1>8 DEF Poll

LEMMA OtherTypes ==
  ASSUME IngestionInv, WebSocket \/ Crash \/ \E w \in Wallet : NewTransaction(w)
  PROVE  TypeOK'
<1> USE IngestionAssumption
<1>0. TypeOK /\ PushInv
  BY DEF IngestionInv
<1>1. ASSUME NEW w \in Wallet, NewTransaction(w) PROVE TypeOK'
  BY <1>0, <1>1 DEF NewTransaction, rows, outcome, passed, poll, TypeOK
<1>2. CASE Crash
  BY <1>0, <1>2, ForgetTypes, FaultTypes
  DEF Crash, NoPush, rows, outcome, passed, TypeOK, ScanType
<1>3. ASSUME NEW w \in Source, NEW i \in Tx, Receive(w, i) PROVE TypeOK'
  BY <1>0, <1>3 DEF Receive, rows, outcome, passed, poll, TypeOK, Handling, Tx
<1>4. CASE PushLookup
  BY <1>0, <1>4 DEF PushLookup, rows, outcome, passed, poll, TypeOK, Handling
<1>5. CASE PushInsert
  BY <1>0, <1>5 DEF PushInsert, PushInv, outcome, passed, poll, TypeOK, Handling
<1>6. CASE PushPublish
  <2>1. push.wallet \in Wallet /\ push.tx \in Tx
    BY <1>0, <1>6 DEF PushPublish, PushInv
  <2>2. published' \in [Wallet -> SUBSET Tx]
    BY <1>0, <1>6, <2>1 DEF PushPublish, TypeOK
  <2>3. push' \in [pc : {"idle"} \cup Handling, wallet : Wallet \cup {0},
                   tx : 0 .. MaxHeight]
    BY <1>6 DEF PushPublish, NoPush
  <2> QED BY <1>0, <1>6, <2>2, <2>3 DEF PushPublish, rows, passed, poll, TypeOK
<1>7. CASE PushFails
  BY <1>0, <1>7, FaultTypes DEF PushFails, NoPush, rows, outcome, passed, poll, TypeOK
<1> QED BY <1>1, <1>2, <1>3, <1>4, <1>5, <1>6, <1>7 DEF WebSocket

-----------------------------------------------------------------------------
(* Nothing is missed but gaps *)

LEMMA PushStep ==
  ASSUME IngestionInv, [Next]_vars
  PROVE  PushInv'
<1>1. TypeOK /\ PushInv
  BY DEF IngestionInv
<1>2. CASE UNCHANGED push
  BY <1>1, <1>2 DEF PushInv
<1>3. CASE WebSocket
  <2>1. ASSUME NEW w \in Source, NEW i \in Tx, Receive(w, i) PROVE PushInv'
    BY <2>1 DEF Receive, PushInv
  <2>2. CASE PushLookup \/ PushInsert
    BY <1>1, <2>2 DEF PushLookup, PushInsert, PushInv, TypeOK
  <2>3. CASE PushPublish \/ PushFails
    BY <2>3 DEF PushPublish, PushFails, NoPush, PushInv
  <2> QED BY <1>3, <2>1, <2>2, <2>3 DEF WebSocket
<1>4. CASE Crash
  BY <1>4 DEF Crash, PushInv, NoPush
<1> QED BY <1>2, <1>3, <1>4
        DEF Next, vars, Poll, StartPoll, StartScan, EndPoll, Scan, TokenRepeats, ReadPage,
            ReachCheckpoint, FirstScan, ReachBeginning, GiveUp, NextPage, ScanEnds,
            Handle, Lookup, Insert, Publish, MarkSuccess, MarkError, SessionFails,
            NewTransaction

(* What only a handler or the end of a scan changes. *)
LEMMA Kept ==
  ASSUME [Next]_vars
  PROVE  \/ UNCHANGED <<checkpoint, outcome>>
         \/ UNCHANGED <<checkpoint, passed>> /\ \E i \in batch.todo : Publish(i)
         \/ UNCHANGED <<checkpoint, passed>> /\ PushPublish
         \/ MarkSuccess
<1>1. CASE Scan
  BY <1>1 DEF Scan, TokenRepeats, ReadPage, ReachCheckpoint, FirstScan, ReachBeginning,
              GiveUp, NextPage, ScanEnds, rows
<1>2. CASE Handle
  <2>1. \A i \in batch.todo : Publish(i) => UNCHANGED <<checkpoint, passed>>
    BY DEF Publish, rows
  <2>2. \A i \in batch.todo : Lookup(i) \/ Insert(i) => UNCHANGED <<checkpoint, outcome>>
    BY DEF Lookup, Insert, rows
  <2> QED BY <1>2, <2>1, <2>2 DEF Handle
<1>3. CASE WebSocket
  <2>1. PushPublish => UNCHANGED <<checkpoint, passed>>
    BY DEF PushPublish, rows
  <2> QED BY <1>3, <2>1 DEF WebSocket, Receive, PushLookup, PushInsert, PushFails, rows
<1> QED BY <1>1, <1>2, <1>3
        DEF Next, vars, rows, Poll, StartPoll, StartScan, EndPoll, MarkError,
            SessionFails, Crash, NewTransaction

(* No step takes anything out of what is settled or was left out. *)
LEMMA SettledStays ==
  ASSUME IngestionInv, [Next]_vars, NEW w \in Wallet, NEW i
  PROVE  /\ Settled(w, i) => Settled(w, i)'
         /\ i \in leftOut[w] => i \in leftOut'[w]
<1>1. CASE UNCHANGED outcome
  BY <1>1 DEF outcome, passed, Settled
<1>2. ASSUME NEW k \in batch.todo, Publish(k), UNCHANGED passed
      PROVE  /\ Settled(w, i) => Settled(w, i)'
             /\ i \in leftOut[w] => i \in leftOut'[w]
  BY <1>2 DEF Publish, Settled, passed, IngestionInv, TypeOK
<1>3. CASE PushPublish /\ UNCHANGED passed
  BY <1>3 DEF PushPublish, Settled, passed, IngestionInv, TypeOK
<1>4. CASE MarkSuccess
  BY <1>4 DEF MarkSuccess, Settled, IngestionInv, TypeOK
<1> QED BY <1>1, <1>2, <1>3, <1>4, Kept

LEMMA MissedStep ==
  ASSUME IngestionInv, [Next]_vars
  PROVE  OnlyGapsAreMissed'
<1>1. CASE UNCHANGED checkpoint
  BY <1>1, SettledStays DEF IngestionInv, OnlyGapsAreMissed, TypeOK
<1>2. CASE MarkSuccess
  <2>1. /\ TypeOK /\ ScanInv /\ BatchInv /\ OnlyGapsAreMissed
        /\ cur \in Wallet /\ pc = "mark"
    BY <1>2 DEF MarkSuccess, IngestionInv, ScanInv
  <2>2. SUFFICES ASSUME NEW w \in Wallet, NEW i \in 1 .. checkpoint'[w]
                 PROVE  Settled(w, i)' \/ i \in leftOut'[w]
    BY DEF OnlyGapsAreMissed
  <2>3. CASE i \in 1 .. checkpoint[w]
    BY <2>1, <2>3, SettledStays DEF OnlyGapsAreMissed
  <2>4. CASE i \notin 1 .. checkpoint[w]
    <3>1. w = cur /\ i \in 1 .. scan.newest
      BY <1>2, <2>1, <2>2, <2>4 DEF MarkSuccess, Advanced, TypeOK
    <3>2. CASE batch.kind = "batch"
      <4>1. Excused(i)
        BY <2>1, <3>1, <3>2 DEF BatchInv
      <4>2. CASE i \in scan.gaps
        BY <1>2, <2>1, <3>1, <3>2, <4>2 DEF MarkSuccess, Gaps, TypeOK
      <4> QED BY <3>1, <4>1, <4>2, SettledStays DEF Excused
    <3>3. CASE batch.kind # "batch"
      BY <1>2, <2>1, <3>1, <3>3 DEF MarkSuccess, PassedOver, Settled, TypeOK
    <3> QED BY <3>2, <3>3
  <2> QED BY <2>3, <2>4
<1> QED BY <1>1, <1>2, Kept

-----------------------------------------------------------------------------
(* How deep the scan is *)

(* A full page without gaps that does not show the checkpoint lies above it. *)
LEMMA FullPageAbove ==
  ASSUME IngestionInv, pc = "scan", NEW n \in 0 .. MaxHeight, NEW gaps \in SUBSET Page,
         Newest(gaps, n), ~Found(gaps), FullPage, scan.gaps \cup gaps = {}
  PROVE  /\ checkpoint[cur] <= PageBottom
         /\ n = PageBottom + (scan.pages + 1) * PageSize
<1>1. /\ TypeOK /\ ScanInv /\ Depth /\ cur \in Wallet
      /\ checkpoint[cur] <= height[cur] /\ scan.gaps = {} /\ gaps = {}
  BY DEF IngestionInv, ScanInv
<1>2. /\ PageTop \in 0 .. MaxHeight /\ PageBottom \in 0 .. MaxHeight
      /\ PageBottom + PageSize = PageTop /\ checkpoint[cur] \in 0 .. MaxHeight
  BY <1>1, PageTypes
<1>3. scan.pages \in Nat /\ PageSize \in Nat \ {0} /\ scan.newest \in 0 .. MaxHeight
  BY <1>1, IngestionAssumption DEF TypeOK
<1>4. (scan.pages + 1) * PageSize = scan.pages * PageSize + PageSize
  BY <1>3
<1>5. scan.pages * PageSize \in Nat
  BY <1>3
<1>6. checkpoint[cur] <= PageTop
  BY <1>1 DEF PageTop, Depth
<1>7. checkpoint[cur] <= PageBottom
  BY <1>1, <1>2, <1>6 DEF Found, Page
<1>8. n = PageTop + scan.pages * PageSize
  <2>1. CASE scan.pages = 0
    <3>1. scan.newest = 0 /\ scan.pages * PageSize = 0
      BY <1>1, <1>3, <2>1 DEF Depth
    <3>2. PageTop \in Page
      BY <1>2, <1>3 DEF Page
    <3>3. n = PageTop
      BY <1>1, <1>2, <3>1, <3>2 DEF Newest, Page
    <3> QED BY <1>2, <3>1, <3>3
  <2>2. CASE scan.pages # 0
    <3>1. scan.newest = PageTop + scan.pages * PageSize
      BY <1>1, <2>2 DEF Depth, PageTop
    <3>2. scan.newest # 0
      BY <1>2, <1>3, <1>5, <3>1
    <3> QED BY <3>1, <3>2 DEF Newest
  <2> QED BY <2>1, <2>2
<1> QED BY <1>2, <1>3, <1>4, <1>5, <1>7, <1>8

LEMMA NewestBelow ==
  ASSUME IngestionInv, pc = "scan", NEW n \in 0 .. MaxHeight, NEW gaps \in SUBSET Page,
         Newest(gaps, n)
  PROVE  n <= height[cur] /\ PageBottom <= height[cur]
<1>1. TypeOK /\ ScanInv /\ cur \in Wallet
  BY DEF IngestionInv, ScanInv
<1>2. PageTop <= height[cur]
  BY <1>1, IngestionAssumption DEF ScanInv, PageTop, TypeOK
<1> QED BY <1>1, <1>2, PageTypes, IngestionAssumption DEF ScanInv, Newest, Page, TypeOK

LEMMA EndDepth ==
  ASSUME IngestionInv, pc = "scan",
         NEW kind \in {"batch", "baseline", "resync", "broken"}, NEW first \in Nat,
         NEW n \in 0 .. MaxHeight, NEW gaps \in SUBSET Page,
         Newest(gaps, n), ScanEnds(kind, first, n, gaps),
         kind = "resync" => ~Found(gaps) /\ FullPage /\ scan.pages + 1 = MaxPages
  PROVE  ScanInv'
<1>1. TypeOK /\ ScanInv /\ cur \in Wallet
  BY DEF IngestionInv, ScanInv
<1>2. n <= height[cur] /\ scan.low <= height[cur]
  BY <1>1, NewestBelow DEF ScanInv
<1>3. /\ scan'.newest = n /\ scan'.low = scan.low /\ scan'.gaps = scan.gaps \cup gaps
      /\ UNCHANGED <<height, checkpoint, cur>> /\ batch'.kind = kind
      /\ pc' \in {"lookup", "mark"}
  BY <1>1 DEF ScanEnds, rows, TypeOK
<1>4. ASSUME kind = "resync", scan'.gaps = {}
      PROVE  checkpoint[cur] + MaxPages * PageSize <= n
  <2>1. /\ checkpoint[cur] <= PageBottom
        /\ n = PageBottom + (scan.pages + 1) * PageSize
    BY <1>3, <1>4, FullPageAbove
  <2>2. MaxPages * PageSize \in Nat /\ n = PageBottom + MaxPages * PageSize
    BY <1>4, <2>1, IngestionAssumption
  <2> QED BY <1>1, <2>1, <2>2, PageTypes
<1> QED BY <1>1, <1>2, <1>3, <1>4 DEF ScanInv

LEMMA DepthStep ==
  ASSUME IngestionInv, [Next]_vars, TypeOK'
  PROVE  ScanInv'
<1>0. TypeOK /\ ScanInv
  BY DEF IngestionInv
<1>1. CASE pc' \in {"idle", "next"} /\ UNCHANGED <<height, checkpoint>>
  BY <1>0, <1>1 DEF ScanInv, Handling
<1>2. CASE UNCHANGED <<cur, scan, batch, height, checkpoint>>
           /\ (pc' = pc \/ (pc \in Handling /\ pc' \in Handling))
  BY <1>0, <1>2 DEF ScanInv, Depth, Handling
<1>3. ASSUME NEW w \in Wallet, NewTransaction(w) PROVE ScanInv'
  BY <1>0, <1>3 DEF ScanInv, Depth, NewTransaction, rows, poll, TypeOK
<1>4. ASSUME NEW w \in Wallet, StartScan(w) PROVE ScanInv'
  <2>1. /\ pc' = "scan" /\ cur' = w /\ UNCHANGED <<height, checkpoint>>
        /\ scan'.pages = 0 /\ scan'.newest = 0 /\ scan'.gaps = {} /\ scan'.low = 0
        /\ height[w] \in Nat
    BY <1>0, <1>4 DEF StartScan, NoScan, rows, TypeOK
  <2> QED BY <1>0, <2>1, IngestionAssumption DEF ScanInv, Depth
<1>5. CASE Scan
  <2>1. ASSUME NEW n \in 0 .. MaxHeight, TokenRepeats(n) PROVE ScanInv'
    BY <1>5, <2>1, EndDepth DEF Scan, TokenRepeats
  <2>2. ASSUME NEW n \in 0 .. MaxHeight, NEW gaps \in SUBSET Page, ReadPage(n, gaps)
        PROVE  ScanInv'
    <3>1. pc = "scan" /\ Newest(gaps, n) /\ cur \in Wallet
      BY <1>0, <1>5, <2>2 DEF Scan, ReadPage, ScanInv
    <3>2. CASE ReachCheckpoint(n, gaps)
      BY <1>0, <3>1, <3>2, PageTypes, EndDepth DEF ReachCheckpoint, FirstNew
    <3>3. CASE FirstScan(n, gaps) \/ ReachBeginning(n, gaps)
      BY <3>1, <3>3, EndDepth DEF FirstScan, ReachBeginning
    <3>4. CASE GiveUp(n, gaps)
      <4>1. scan.pages + 1 = MaxPages
        BY <1>0, <3>1, <3>4, IngestionAssumption DEF GiveUp, PagesLeft, ScanInv, TypeOK
      <4> QED BY <3>1, <3>4, <4>1, EndDepth DEF GiveUp
    <3>5. CASE NextPage(n, gaps)
      <4>1. /\ pc' = "scan" /\ UNCHANGED <<height, checkpoint, cur>>
            /\ scan'.pages = scan.pages + 1 /\ scan'.newest = n
            /\ scan'.gaps = scan.gaps \cup gaps /\ scan'.low = PageBottom
        BY <3>1, <3>5 DEF NextPage, rows
      <4>2. n <= height[cur] /\ PageBottom <= height[cur]
        BY <3>1, NewestBelow
      <4>3. scan.gaps \cup gaps = {}
              => /\ checkpoint[cur] <= PageBottom
                 /\ n = PageBottom + (scan.pages + 1) * PageSize
        BY <3>1, <3>5, FullPageAbove DEF NextPage
      <4>4. scan.pages \in Nat /\ scan.pages + 1 # 0 /\ scan.pages + 1 < MaxPages
        BY <1>0, <3>5 DEF NextPage, PagesLeft, TypeOK
      <4>5. Depth'
        BY <4>1, <4>3, <4>4 DEF Depth
      <4> QED BY <1>0, <3>1, <4>1, <4>2, <4>4, <4>5 DEF ScanInv, Handling
    <3> QED BY <2>2, <3>2, <3>3, <3>4, <3>5 DEF ReadPage
  <2> QED BY <1>5, <2>1, <2>2 DEF Scan
<1>6. ASSUME NEW i \in batch.todo, Publish(i) PROVE ScanInv'
  <2>1. /\ pc \in Handling /\ pc' \in {"lookup", "mark"}
        /\ UNCHANGED <<height, checkpoint, cur, scan>>
        /\ batch'.kind = batch.kind /\ batch.kind = "batch"
    BY <1>0, <1>6 DEF Publish, Handling, rows, TypeOK, IngestionInv, BatchInv
  <2> QED BY <1>0, <2>1 DEF ScanInv, Handling
<1>7. CASE MarkSuccess
  <2>1. cur \in Wallet /\ Advanced <= height[cur]
    BY <1>0, <1>7 DEF MarkSuccess, ScanInv, Advanced
  <2> QED BY <1>0, <1>7, <2>1 DEF MarkSuccess, ScanInv, Handling, TypeOK
<1> QED BY <1>1, <1>2, <1>3, <1>4, <1>5, <1>6, <1>7
        DEF Next, vars, rows, poll, Poll, StartPoll, EndPoll, Handle, Lookup, Insert,
            MarkError, SessionFails, WebSocket, Receive, PushLookup, PushInsert,
            PushPublish, PushFails, Crash, Handling

-----------------------------------------------------------------------------
(* The batch in hand *)

(* A step that leaves the poller where it is, or sends it home. *)
LEMMA BatchKept ==
  ASSUME IngestionInv, [Next]_vars,
         \/ UNCHANGED poll
         \/ pc' \in {"idle", "next"}
         \/ /\ pc \in Handling /\ pc' \in Handling
            /\ UNCHANGED <<cur, scan, batch>>
  PROVE  BatchInv'
<1>1. TypeOK /\ ScanInv /\ BatchInv
  BY DEF IngestionInv
<1>2. CASE pc' \in {"idle", "next"}
  BY <1>2 DEF BatchInv, Handling
<1>3. ASSUME UNCHANGED <<cur, scan>>, cur \in Wallet, NEW i, Excused(i)
      PROVE  Excused(i)'
  <2>1. \A w \in Wallet : w = cur => /\ Settled(w, i) => Settled(w, i)'
                                     /\ i \in leftOut[w] => i \in leftOut'[w]
    BY SettledStays
  <2> QED BY <1>3, <2>1 DEF Excused, Settled
<1>4. CASE UNCHANGED poll
  BY <1>1, <1>3, <1>4 DEF BatchInv, ScanInv, poll
<1>5. CASE /\ pc \in Handling /\ pc' \in Handling
           /\ UNCHANGED <<cur, scan, batch>>
  BY <1>1, <1>3, <1>5 DEF BatchInv, ScanInv, Handling
<1> QED BY <1>2, <1>4, <1>5

LEMMA EndBatch ==
  ASSUME IngestionInv, pc = "scan",
         NEW kind \in {"batch", "baseline", "resync", "broken"},
         NEW first \in 1 .. checkpoint[cur] + 1,
         NEW n \in 0 .. MaxHeight, NEW gaps \in SUBSET Page,
         ScanEnds(kind, first, n, gaps)
  PROVE  BatchInv'
<1>1. /\ TypeOK /\ OnlyGapsAreMissed /\ cur \in Wallet
      /\ checkpoint[cur] \in 0 .. MaxHeight
  BY PageTypes DEF IngestionInv, ScanInv
<1>2. /\ scan'.newest = n /\ scan'.gaps = scan.gaps \cup gaps
      /\ UNCHANGED <<cur, outcome>> /\ batch'.kind = kind
      /\ batch'.todo = IF kind = "batch" THEN (first .. n) \ scan'.gaps ELSE {}
      /\ pc' = IF batch'.todo # {} THEN "lookup" ELSE "mark"
  BY <1>1 DEF ScanEnds, TypeOK
<1>3. ASSUME kind = "batch", NEW i \in 1 .. n
      PROVE  i \in batch'.todo \/ Excused(i)'
  <2>1. CASE i \in 1 .. checkpoint[cur]
    BY <1>1, <1>2, <2>1 DEF OnlyGapsAreMissed, Excused, Settled, outcome, passed
  <2>2. CASE i \notin 1 .. checkpoint[cur]
    <3>1. i \in first .. n
      BY <1>1, <1>3, <2>2
    <3> QED BY <1>2, <1>3, <3>1 DEF Excused
  <2> QED BY <2>1, <2>2
<1>4. kind = "batch" => batch'.todo \subseteq 1 .. n
  BY <1>1, <1>2
<1> QED BY <1>2, <1>3, <1>4 DEF BatchInv, Handling

LEMMA ScanBatch ==
  ASSUME IngestionInv, Scan
  PROVE  BatchInv'
<1>1. TypeOK /\ cur \in Wallet /\ pc = "scan" /\ checkpoint[cur] \in 0 .. MaxHeight
  BY PageTypes DEF IngestionInv, ScanInv, Scan
<1>2. 1 \in 1 .. checkpoint[cur] + 1 /\ FirstNew \in 1 .. checkpoint[cur] + 1
  BY <1>1 DEF FirstNew
<1>3. ASSUME NEW n \in 0 .. MaxHeight, TokenRepeats(n) PROVE BatchInv'
  BY <1>1, <1>2, <1>3, EndBatch DEF TokenRepeats
<1>4. ASSUME NEW n \in 0 .. MaxHeight, NEW gaps \in SUBSET Page, ReadPage(n, gaps)
      PROVE  BatchInv'
  <2>1. CASE NextPage(n, gaps)
    BY <1>1, <2>1 DEF NextPage, BatchInv, Handling
  <2> QED BY <1>1, <1>2, <1>4, <2>1, EndBatch
          DEF ReadPage, ReachCheckpoint, FirstScan, ReachBeginning, GiveUp
<1> QED BY <1>3, <1>4 DEF Scan

LEMMA PublishBatch ==
  ASSUME IngestionInv, [Next]_vars, NEW i \in batch.todo, Publish(i)
  PROVE  BatchInv'
<1>1. /\ TypeOK /\ BatchInv /\ cur \in Wallet /\ batch.kind = "batch"
      /\ batch.todo \subseteq 1 .. scan.newest
      /\ \A j \in 1 .. scan.newest : j \in batch.todo \/ Excused(j)
  BY DEF IngestionInv, ScanInv, BatchInv, Publish, Handling
<1>2. /\ batch'.todo = batch.todo \ {i} /\ batch'.kind = "batch"
      /\ UNCHANGED <<cur, scan, passed>>
      /\ pc' = IF batch'.todo # {} THEN "lookup" ELSE "mark"
  BY <1>1 DEF Publish, TypeOK
<1>3. ASSUME NEW j \in 1 .. scan.newest PROVE j \in batch'.todo \/ Excused(j)'
  <2>1. CASE j = i
    BY <1>1, <1>2, <2>1 DEF Publish, Excused, Settled, TypeOK
  <2>2. CASE Excused(j)
    BY <1>1, <1>2, <2>2 DEF Publish, Excused, Settled, passed, TypeOK
  <2> QED BY <1>1, <1>2, <2>1, <2>2
<1> QED BY <1>1, <1>2, <1>3 DEF BatchInv, Handling

LEMMA IngestionStep ==
  ASSUME IngestionInv, [Next]_vars
  PROVE  IngestionInv'
<1>1. TypeOK'
  <2>1. CASE UNCHANGED vars
    BY <2>1 DEF vars, rows, outcome, passed, poll, IngestionInv, TypeOK
  <2> QED BY <2>1, PollTypes, OtherTypes DEF Next
<1>2. PushInv' /\ OnlyGapsAreMissed' /\ ScanInv'
  BY <1>1, PushStep, MissedStep, DepthStep
<1>3. BatchInv'
  <2>1. CASE UNCHANGED poll \/ pc' \in {"idle", "next"}
    BY <2>1, BatchKept
  <2>2. CASE Scan
    BY <2>2, ScanBatch
  <2>3. ASSUME NEW i \in batch.todo, Publish(i) PROVE BatchInv'
    BY <2>3, PublishBatch
  <2>4. ASSUME NEW i \in batch.todo, Lookup(i) \/ Insert(i) PROVE BatchInv'
    BY <2>4, BatchKept DEF Lookup, Insert, Handling
  <2>5. ASSUME NEW w \in Wallet, StartScan(w) PROVE BatchInv'
    BY <2>5 DEF StartScan, BatchInv, Handling
  <2> QED BY <2>1, <2>2, <2>3, <2>4, <2>5
          DEF Next, vars, Poll, StartPoll, EndPoll, Handle, MarkSuccess, MarkError,
              SessionFails, WebSocket, Receive, PushLookup, PushInsert, PushPublish,
              PushFails, Crash, NewTransaction
<1> QED BY <1>1, <1>2, <1>3 DEF IngestionInv

-----------------------------------------------------------------------------
(* Theorems *)

(* Checkpoints, batches and pages stay within what the chain has. *)
THEOREM IngestionTypeCorrect == Spec => []TypeOK
<1>1. IngestionInv => TypeOK
  BY DEF IngestionInv
<1> QED BY InitHolds, IngestionStep, <1>1, PTL DEF Spec

(* A checkpoint never passes a transaction that was neither handled nor passed
   over on purpose nor without details in the scan that passed it. *)
THEOREM OnlyGapsAreEverMissed == Spec => []OnlyGapsAreMissed
<1>1. IngestionInv => OnlyGapsAreMissed
  BY DEF IngestionInv
<1> QED BY InitHolds, IngestionStep, <1>1, PTL DEF Spec

(* A catch-up without gaps is only given up when the backlog fills every page. *)
THEOREM ShortBacklogsAreHandled == Spec => OnlyLongBacklogsAreSkipped
<1>1. IngestionInv /\ [Next]_vars
        => [MarkSuccess /\ batch.kind = "resync" /\ scan.gaps = {}
              => checkpoint[cur] + MaxPages * PageSize <= scan.newest]_vars
  BY DEF IngestionInv, ScanInv, MarkSuccess
<1> QED BY InitHolds, IngestionStep, <1>1, PTL DEF Spec, OnlyLongBacklogsAreSkipped

(* The poller hands transactions on in the order of the chain. *)
THEOREM PollKeepsOrder == Spec => PolledInOrder
<1>1. ASSUME IngestionInv, NEW i \in batch.todo, Publish(i), NEW j \in 1 .. i - 1
      PROVE  Settled(cur, j) \/ j \in leftOut[cur] \cup scan.gaps
  <2>1. /\ BatchInv /\ batch.kind = "batch" /\ pc \in Handling /\ i \in 1 .. scan.newest
        /\ scan.newest \in Nat
    BY <1>1 DEF IngestionInv, TypeOK, BatchInv, Publish, Handling
  <2>2. j \in 1 .. scan.newest /\ j \notin batch.todo
    BY <1>1, <2>1 DEF Publish, First
  <2> QED BY <2>1, <2>2 DEF BatchInv, Excused
<1>2. IngestionInv /\ [Next]_vars
        => [\A i \in batch.todo : Publish(i)
             => \A j \in 1 .. i - 1 :
                  Settled(cur, j) \/ j \in leftOut[cur] \cup scan.gaps]_vars
  BY <1>1
<1> QED BY InitHolds, IngestionStep, <1>2, PTL DEF Spec, PolledInOrder

=============================================================================
