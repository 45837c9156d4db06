-------------------------- MODULE CandidateAuditProofs --------------------------
(***************************************************************************)
(* That an audit reported complete is whole, that no audit falls behind    *)
(* its checkpoint, and that audits keep within their caps, for any number  *)
(* of candidates, page size, cap, history and faults.                      *)
(***************************************************************************)
EXTENDS CandidateAudit, SequenceTheorems, TLAPS

State == {"none", "in_progress", "complete", "error"}

RowShape ==
  [state : State, total : Nat, token : BOOLEAN, low : Nat, capped : BOOLEAN,
   early : BOOLEAN, selected : BOOLEAN, counted : BOOLEAN]

(* What TypeOK says of the variables that completeness speaks of, without the
   bounds of the instance. *)
Shape ==
  /\ height \in [Candidate -> Nat] /\ row \in [Candidate -> RowShape]
  /\ start \in [Candidate -> Nat] /\ read \in [Candidate -> SUBSET Nat]

(* A page is only begun below the cap. *)
PageBelowCap == pc = "page" => cur \in Candidate /\ Total(cur) < MaxHistory

(* Everything above a checkpoint, up to where the audit began, was handled. *)
Above(c) == row[c].token => row[c].low + 1 .. start[c] \subseteq read[c]

Whole(c) ==
  Complete(c) /\ ~row[c].capped /\ ~row[c].early => 1 .. start[c] \subseteq read[c]

AuditInv ==
  /\ Shape /\ PageBelowCap
  /\ \A c \in Candidate : Above(c) /\ Whole(c)

LEMMA InitAudits == Init => AuditInv
<1> SUFFICES ASSUME Init PROVE AuditInv
  OBVIOUS
<1>1. NoRow \in RowShape
  BY DEF NoRow, RowShape, State
<1>2. Shape
  BY <1>1, AuditAssumption DEF Init, Shape
<1>3. \A c \in Candidate : Above(c) /\ Whole(c)
  BY DEF Init, NoRow, Above, Whole, Complete
<1> QED BY <1>2, <1>3 DEF AuditInv, PageBelowCap, Init

-----------------------------------------------------------------------------
(* Pages *)

(* A page is an interval below its top, of the limit's length if there is more;
   what it is counted as is what it holds. *)
LEMMA PageIsInterval ==
  ASSUME AuditInv, pc = "page"
  PROVE  /\ cur \in Candidate /\ Total(cur) \in Nat /\ PageTop \in Nat
         /\ PageBottom \in 0 .. PageTop
         /\ Counted \in Nat
<1>1. cur \in Candidate /\ Total(cur) < MaxHistory
  BY DEF AuditInv, PageBelowCap
<1>2. row[cur].total \in Nat /\ row[cur].low \in Nat /\ height[cur] \in Nat
  BY <1>1 DEF AuditInv, Shape, RowShape
<1>3. Total(cur) \in Nat /\ PageTop \in Nat
  BY <1>2 DEF Total, PageTop
<1>4. Limit \in Nat \ {0}
  BY <1>1, <1>3, AuditAssumption DEF Limit, MinOf
<1>5. PageBottom \in 0 .. PageTop
  BY <1>3, <1>4 DEF PageBottom
<1>6. Counted \in Nat
  BY <1>3, <1>5 DEF Counted
<1> QED BY <1>1, <1>3, <1>5, <1>6

(* What is handed on is added to what was read. *)
LEMMA HandOnAdds ==
  ASSUME AuditInv, pc = "page", NEW done \in Nat, HandOn(done)
  PROVE  /\ read' \in [Candidate -> SUBSET Nat]
         /\ \A c \in Candidate : read[c] \subseteq read'[c]
         /\ PageBottom + 1 .. PageBottom + done \subseteq read'[cur]
<1>1. cur \in Candidate /\ PageBottom \in Nat
  BY PageIsInterval
<1> QED BY <1>1 DEF AuditInv, Shape, HandOn

(* Nothing is forgotten when a row and the start of its audit stay. *)
LEMMA RowKept ==
  ASSUME AuditInv, NEW c \in Candidate, row'[c] = row[c], start'[c] = start[c],
         read[c] \subseteq read'[c]
  PROVE  Above(c)' /\ Whole(c)'
BY DEF AuditInv, Above, Whole, Complete

LEMMA PageReadAudits ==
  ASSUME AuditInv, NEW more \in BOOLEAN, NEW early \in BOOLEAN, NEW selected \in BOOLEAN,
         PageRead(more, early, selected)
  PROVE  AuditInv'
<1> DEFINE capped == Counted >= MaxHistory
           complete == ~more \/ capped \/ early
           new == [state |-> IF complete THEN "complete" ELSE "in_progress",
                   total |-> Counted, token |-> ~complete, low |-> PageBottom,
                   capped |-> capped, early |-> early, selected |-> selected,
                   counted |-> row[cur].counted \/ complete]
<1>1. /\ pc = "page" /\ pc' = "walk" /\ UNCHANGED height
      /\ row' = [row EXCEPT ![cur] = new]
      /\ start' = IF Resumes(cur) THEN start ELSE [start EXCEPT ![cur] = PageTop]
      /\ HandOn(PageTop - PageBottom)
      /\ more \/ PageBottom = 0
  BY DEF PageRead, Leave
<1>2. /\ cur \in Candidate /\ PageTop \in Nat /\ PageBottom \in 0 .. PageTop
      /\ Counted \in Nat
  BY <1>1, PageIsInterval
<1>3. /\ read' \in [Candidate -> SUBSET Nat]
      /\ \A c \in Candidate : read[c] \subseteq read'[c]
      /\ PageBottom + 1 .. PageTop \subseteq read'[cur]
  BY <1>1, <1>2, HandOnAdds
<1>4. new \in RowShape
  BY <1>2 DEF AuditInv, Shape, RowShape, State
<1>5. new.token = ~complete /\ new.low = PageBottom /\ new.capped = capped
      /\ new.early = early /\ new.state = (IF complete THEN "complete" ELSE "in_progress")
  OBVIOUS
<1> HIDE DEF new
<1>6. Shape'
  BY <1>1, <1>2, <1>3, <1>4 DEF AuditInv, Shape
<1>7. row'[cur] = new
  BY <1>1, <1>2 DEF AuditInv, Shape
<1>8. PageBottom + 1 .. start'[cur] \subseteq read'[cur]
  <2>1. CASE Resumes(cur)
    <3>1. PageTop = row[cur].low /\ row[cur].token /\ start'[cur] = start[cur]
      BY <1>1, <2>1 DEF PageTop, Resumes
    <3>2. PageTop + 1 .. start'[cur] \subseteq read'[cur]
      BY <1>2, <1>3, <3>1 DEF AuditInv, Above
    <3>3. start'[cur] \in Nat
      BY <1>2, <1>6 DEF Shape
    <3> QED BY <1>2, <1>3, <3>2, <3>3
  <2>2. CASE ~Resumes(cur)
    BY <1>1, <1>2, <1>3, <2>2 DEF AuditInv, Shape
  <2> QED BY <2>1, <2>2
<1>9. ASSUME NEW c \in Candidate PROVE Above(c)' /\ Whole(c)'
  <2>1. CASE c = cur
    <3>1. Above(c)'
      BY <1>5, <1>7, <1>8, <2>1 DEF Above
    <3>2. Whole(c)'
      BY <1>1, <1>2, <1>5, <1>7, <1>8, <2>1 DEF Whole, Complete
    <3> QED BY <3>1, <3>2
  <2>2. CASE c # cur
    BY <1>1, <1>2, <1>3, <2>2, RowKept DEF AuditInv, Shape
  <2> QED BY <2>1, <2>2
<1> QED BY <1>1, <1>6, <1>9 DEF AuditInv, PageBelowCap

LEMMA PageFailsAudits ==
  ASSUME AuditInv, NEW done \in Nat, PageFails(done)
  PROVE  AuditInv'
<1>1. /\ pc = "page" /\ pc' = "walk" /\ UNCHANGED <<height, start>>
      /\ HandOn(done)
  BY DEF PageFails, Leave, outside
<1>2. cur \in Candidate /\ Total(cur) \in Nat /\ Counted \in Nat
  BY <1>1, PageIsInterval
<1>3. PICK total \in Nat : row' = Failed(total)
  BY <1>2 DEF PageFails
<1>4. /\ read' \in [Candidate -> SUBSET Nat]
      /\ \A c \in Candidate : read[c] \subseteq read'[c]
  BY <1>1, HandOnAdds
<1> DEFINE new == [row[cur] EXCEPT !.state = "error", !.total = total,
                                   !.token = Resumes(cur)]
<1>5. row[cur] \in RowShape
  BY <1>2 DEF AuditInv, Shape
<1>6. new \in RowShape /\ new.token = Resumes(cur) /\ new.low = row[cur].low
      /\ new.state = "error"
  BY <1>5 DEF RowShape, State, Resumes, Unfinished
<1>7. row' = [row EXCEPT ![cur] = new]
  BY <1>2, <1>3, <1>5 DEF Failed, RowShape, AuditInv, Shape
<1> HIDE DEF new
<1>8. Shape'
  BY <1>1, <1>2, <1>4, <1>6, <1>7 DEF AuditInv, Shape
<1>9. ASSUME NEW c \in Candidate PROVE Above(c)' /\ Whole(c)'
  <2>1. CASE c = cur
    BY <1>1, <1>2, <1>4, <1>6, <1>7, <2>1
    DEF AuditInv, Shape, Above, Whole, Complete, Resumes
  <2>2. CASE c # cur
    BY <1>1, <1>2, <1>4, <1>7, <2>2, RowKept DEF AuditInv, Shape
  <2> QED BY <2>1, <2>2
<1> QED BY <1>1, <1>8, <1>9 DEF AuditInv, PageBelowCap

-----------------------------------------------------------------------------
(* The walk *)

(* An action that leaves the rows and what was read, and begins no page. *)
LEMMA NoRowTouched ==
  ASSUME AuditInv, UNCHANGED <<row, start>>, height' \in [Candidate -> Nat],
         read' \in [Candidate -> SUBSET Nat], \A c \in Candidate : read[c] \subseteq read'[c],
         PageBelowCap'
  PROVE  AuditInv'
BY RowKept DEF AuditInv, Shape

LEMMA BackfillAudits ==
  ASSUME AuditInv, NEW c \in Candidate, Backfill(c)
  PROVE  AuditInv'
<1> DEFINE new == [row[c] EXCEPT !.counted = TRUE]
<1>1. pc' = "walk" /\ UNCHANGED <<height, start, read>>
  BY DEF Backfill, Turn, outside, history
<1>2. row[c] \in RowShape
  BY DEF AuditInv, Shape
<1>3. new \in RowShape /\ new.token = row[c].token /\ new.low = row[c].low
      /\ new.state = row[c].state /\ new.capped = row[c].capped /\ new.early = row[c].early
  BY <1>2 DEF RowShape
<1>4. row' = [row EXCEPT ![c] = new]
  BY DEF Backfill
<1> HIDE DEF new
<1>5. Shape'
  BY <1>1, <1>3, <1>4 DEF AuditInv, Shape
<1>6. ASSUME NEW d \in Candidate PROVE Above(d)' /\ Whole(d)'
  BY <1>1, <1>3, <1>4 DEF AuditInv, Shape, Above, Whole, Complete
<1> QED BY <1>1, <1>5, <1>6 DEF AuditInv, PageBelowCap

LEMMA FinishCappedAudits ==
  ASSUME AuditInv, NEW c \in Candidate, FinishCapped(c)
  PROVE  AuditInv'
<1> DEFINE new == [row[c] EXCEPT !.state = "complete", !.token = FALSE,
                                 !.capped = TRUE, !.early = FALSE]
<1>1. pc' = "walk" /\ UNCHANGED <<height, start, read>>
  BY DEF FinishCapped, Attempt, Turn, outside, history
<1>2. row[c] \in RowShape
  BY DEF AuditInv, Shape
<1>3. new \in RowShape /\ ~new.token /\ new.capped
  BY <1>2 DEF RowShape, State
<1>4. row' = [row EXCEPT ![c] = new]
  BY <1>2 DEF FinishCapped, RowShape, AuditInv, Shape
<1> HIDE DEF new
<1>5. Shape'
  BY <1>1, <1>3, <1>4 DEF AuditInv, Shape
<1>6. ASSUME NEW d \in Candidate PROVE Above(d)' /\ Whole(d)'
  BY <1>1, <1>3, <1>4 DEF AuditInv, Shape, Above, Whole, Complete
<1> QED BY <1>1, <1>5, <1>6 DEF AuditInv, PageBelowCap

LEMMA CycleLostAudits ==
  ASSUME AuditInv, CycleLost
  PROVE  AuditInv'
<1>1. pc' = "idle" /\ UNCHANGED <<height, row, start>>
  BY DEF CycleLost, outside, rows
<1>2. /\ read' \in [Candidate -> SUBSET Nat]
      /\ \A c \in Candidate : read[c] \subseteq read'[c]
  <2>1. CASE UNCHANGED read
    BY <2>1 DEF AuditInv, Shape
  <2>2. CASE pc = "page" /\ \E done \in 0 .. PageTop - PageBottom : HandOn(done)
    <3>1. PICK done \in Nat : HandOn(done)
      BY <2>2, PageIsInterval
    <3> QED BY <2>2, <3>1, HandOnAdds
  <2> QED BY <2>1, <2>2 DEF CycleLost
<1>3. height' \in [Candidate -> Nat] /\ PageBelowCap'
  BY <1>1 DEF AuditInv, Shape, PageBelowCap
<1> QED BY <1>1, <1>2, <1>3, NoRowTouched

(* The steps that write no row and hand nothing on. *)
Quiet ==
  \/ StartCycle \/ EndWalk \/ Promote \/ UNCHANGED vars
  \/ \E c \in Candidate :
       Skip(c) \/ BeginPage(c) \/ RetryDue(c) \/ NewTransaction(c) \/ SetMonitor(c)

LEMMA QuietSteps ==
  ASSUME Quiet
  PROVE  UNCHANGED <<row, start, read>>
BY DEF Quiet, StartCycle, EndWalk, Promote, Skip, BeginPage, RetryDue, NewTransaction,
       SetMonitor, vars, rows, history, outside

LEMMA QuietAudits == ASSUME AuditInv, Quiet PROVE AuditInv'
<1>1. UNCHANGED <<row, start, read>>
  BY QuietSteps
<1>2. height' \in [Candidate -> Nat]
  BY DEF Quiet, AuditInv, Shape, StartCycle, EndWalk, Promote, Skip, BeginPage, RetryDue,
         NewTransaction, SetMonitor, vars, outside
<1>3. PageBelowCap'
  <2>1. CASE \E c \in Candidate : BeginPage(c)
    BY <1>1, <2>1 DEF BeginPage, PageBelowCap, Total, Unfinished
  <2>2. CASE ~\E c \in Candidate : BeginPage(c)
    <3>1. pc' # "page" \/ UNCHANGED <<pc, cur>>
      BY <2>2 DEF Quiet, StartCycle, EndWalk, Promote, Skip, RetryDue, NewTransaction,
                  SetMonitor, vars, cycle
    <3> QED BY <1>1, <3>1 DEF AuditInv, PageBelowCap, Total, Unfinished
  <2> QED BY <2>1, <2>2
<1>4. \A d \in Candidate : read[d] \subseteq read'[d]
  BY <1>1
<1> QED BY <1>1, <1>2, <1>3, <1>4, NoRowTouched DEF AuditInv, Shape

LEMMA AuditStep == AuditInv /\ [Next]_vars => AuditInv'
<1> SUFFICES ASSUME AuditInv, [Next]_vars PROVE AuditInv'
  OBVIOUS
<1>1. CASE Page
  BY <1>1, PageReadAudits, PageFailsAudits DEF Page
<1>2. CASE CycleLost
  BY <1>2, CycleLostAudits
<1>3. ASSUME NEW c \in Candidate, Backfill(c) \/ FinishCapped(c) PROVE AuditInv'
  BY <1>3, BackfillAudits, FinishCappedAudits
<1>4. CASE Quiet
  BY <1>4, QuietAudits
<1> QED BY <1>1, <1>2, <1>3, <1>4 DEF Next, Walk, Outside, Quiet

-----------------------------------------------------------------------------
(* Checkpoints *)

(* The audit of c goes on from a checkpoint that is no higher, or is complete. *)
Advances(c) ==
  Resumes(c) => row'[c].state = "complete" \/ (row'[c].token /\ row'[c].low <= row[c].low)

LEMMA RowStays ==
  ASSUME AuditInv, NEW c \in Candidate, row'[c] = row[c]
  PROVE  Advances(c)
BY DEF AuditInv, Shape, RowShape, Advances, Resumes

LEMMA StepAdvances ==
  ASSUME AuditInv, Next, NEW c \in Candidate
  PROVE  Advances(c)
<1>1. ASSUME NEW more \in BOOLEAN, NEW early \in BOOLEAN, NEW selected \in BOOLEAN,
             PageRead(more, early, selected)
      PROVE  Advances(c)
  <2>1. /\ cur \in Candidate /\ PageTop \in Nat /\ PageBottom \in 0 .. PageTop
        /\ row \in [Candidate -> RowShape]
    BY <1>1, PageIsInterval DEF PageRead, AuditInv, Shape
  <2>2. CASE c = cur
    BY <1>1, <2>1, <2>2 DEF PageRead, Advances, PageTop
  <2>3. CASE c # cur
    BY <1>1, <2>1, <2>3, RowStays DEF PageRead
  <2> QED BY <2>2, <2>3
<1>2. ASSUME NEW done \in Nat, PageFails(done) PROVE Advances(c)
  <2>1. PICK total : row' = Failed(total)
    BY <1>2 DEF PageFails
  <2>2. row[c] \in RowShape /\ row \in [Candidate -> RowShape]
    BY DEF AuditInv, Shape
  <2>3. row'[c].token = (IF c = cur THEN Resumes(cur) ELSE row[c].token)
        /\ row'[c].low = row[c].low
    BY <2>1, <2>2 DEF Failed, RowShape
  <2> QED BY <2>2, <2>3 DEF Advances, RowShape, Resumes
<1>3. ASSUME NEW d \in Candidate, Backfill(d) PROVE Advances(c)
  <2>1. CASE d = c
    BY <1>3, <2>1 DEF Backfill, Uncounted, Complete, Advances, Resumes, Unfinished
  <2>2. CASE d # c
    BY <1>3, <2>2, RowStays DEF Backfill, AuditInv, Shape
  <2> QED BY <2>1, <2>2
<1>4. ASSUME NEW d \in Candidate, FinishCapped(d) PROVE Advances(c)
  <2>1. CASE d = c
    BY <1>4, <2>1 DEF FinishCapped, AuditInv, Shape, RowShape, Advances
  <2>2. CASE d # c
    BY <1>4, <2>2, RowStays DEF FinishCapped, AuditInv, Shape
  <2> QED BY <2>1, <2>2
<1>5. CASE Quiet \/ CycleLost
  BY <1>5, QuietSteps, RowStays DEF CycleLost, rows
<1> QED BY <1>1, <1>2, <1>3, <1>4, <1>5 DEF Next, Walk, Page, Outside, Quiet

-----------------------------------------------------------------------------
(* Types and bounds *)

(* The order of attempts: each candidate that has a row, once. *)
OrderOK ==
  /\ tried \in Seq(Candidate) /\ due \subseteq Candidate
  /\ \A c \in Candidate :
       row[c].state # "none" <=> \E i \in DOMAIN tried : tried[i] = c
  /\ \A i, j \in DOMAIN tried : tried[i] = tried[j] => i = j

RowsOK ==
  /\ height \in [Candidate -> 0 .. MaxHeight] /\ row \in [Candidate -> RowType]
  /\ start \in [Candidate -> 0 .. MaxHeight]
  /\ read \in [Candidate -> SUBSET (1 .. MaxHeight)]

WalkOK ==
  /\ queued \subseteq Candidate /\ poor \subseteq Candidate /\ monitored \subseteq Candidate
  /\ pc \in {"idle", "walk", "page", "promote"}
  /\ left \subseteq Candidate /\ attempted \in 0 .. MaxCandidates
  /\ cur \in Candidate \cup {NoCandidate} /\ finished \in Candidate \cup {NoCandidate}
  /\ faults \in 0 .. MaxFaults

LEMMA TypeParts ==
  ASSUME AuditInv
  PROVE  TypeOK <=> RowsOK /\ OrderOK /\ WalkOK
BY DEF AuditInv, PageBelowCap, TypeOK, RowsOK, OrderOK, WalkOK

(* An attempt takes the candidate out of the order and puts it last. *)
LEMMA BeatKeepsOrder ==
  ASSUME OrderOK, NEW c \in Candidate, Beat(c), row'[c].state # "none",
         \A d \in Candidate \ {c} : row'[d] = row[d]
  PROVE  OrderOK'
<1> DEFINE k == Place(c)
           others == IF row[c].state = "none" THEN tried ELSE RemoveAt(tried, k)
<1>1. tried' = Append(others, c) /\ due' = due \ {c}
  BY DEF Beat
<1>2. /\ others \in Seq(Candidate)
      /\ \A d \in Candidate \ {c} :
           (\E i \in DOMAIN others : others[i] = d) <=> (\E i \in DOMAIN tried : tried[i] = d)
      /\ \A i \in DOMAIN others : others[i] # c
      /\ \A i, j \in DOMAIN others : others[i] = others[j] => i = j
  <2>1. CASE row[c].state = "none"
    BY <2>1 DEF OrderOK
  <2>2. CASE row[c].state # "none"
    <3>1. k \in DOMAIN tried /\ tried[k] = c
      BY <2>2 DEF OrderOK, Place
    <3> HIDE DEF k
    <3>2. /\ tried \in Seq(Candidate) /\ DOMAIN tried = 1 .. Len(tried)
          /\ \A i, j \in DOMAIN tried : tried[i] = tried[j] => i = j
      BY DEF OrderOK
    <3>3. /\ others \in Seq(Candidate) /\ DOMAIN others = 1 .. Len(tried) - 1
          /\ \A i \in 1 .. Len(tried) - 1 :
               others[i] = IF i < k THEN tried[i] ELSE tried[i + 1]
      <4> DEFINE front == SubSeq(tried, 1, k - 1)
                 back == SubSeq(tried, k + 1, Len(tried))
      <4>1. others = front \o back
        BY <2>2 DEF RemoveAt
      <4>2. k \in 1 .. Len(tried) /\ Len(tried) \in Nat
        BY <3>1, <3>2
      <4>3. /\ front \in Seq(Candidate) /\ Len(front) = k - 1
            /\ \A i \in 1 .. k - 1 : front[i] = tried[i]
        <5>1. \A i \in 1 .. k - 1 : tried[i] \in Candidate
          BY <3>2, <4>2
        <5> QED BY <4>2, <5>1, SubSeqProperties
      <4>4. /\ back \in Seq(Candidate) /\ Len(back) = Len(tried) - k
            /\ \A i \in 1 .. Len(tried) - k : back[i] = tried[i + k]
        <5>1. \A i \in k + 1 .. Len(tried) : tried[i] \in Candidate
          BY <3>2, <4>2
        <5> QED BY <4>2, <5>1, SubSeqProperties
      <4> HIDE DEF others, front, back
      <4>5. /\ others \in Seq(Candidate) /\ Len(others) = Len(tried) - 1
            /\ \A i \in 1 .. Len(tried) - 1 :
                 others[i] = IF i <= k - 1 THEN front[i] ELSE back[i - (k - 1)]
        <5>1. /\ front \o back \in Seq(Candidate)
              /\ Len(front \o back) = Len(front) + Len(back)
              /\ \A i \in 1 .. Len(front) + Len(back) :
                   (front \o back)[i] =
                     IF i <= Len(front) THEN front[i] ELSE back[i - Len(front)]
          BY <4>3, <4>4, ConcatProperties
        <5>2. Len(front) + Len(back) = Len(tried) - 1
          BY <4>2, <4>3, <4>4
        <5> QED BY <4>1, <4>3, <5>1, <5>2
      <4>6. ASSUME NEW i \in 1 .. Len(tried) - 1
            PROVE  others[i] = IF i < k THEN tried[i] ELSE tried[i + 1]
        <5>1. CASE i < k
          BY <4>2, <4>3, <4>5, <5>1
        <5>2. CASE ~(i < k)
          <6>1. i - (k - 1) \in 1 .. Len(tried) - k /\ i - (k - 1) + k = i + 1
            BY <4>2, <5>2
          <6> QED BY <4>2, <4>4, <4>5, <5>2, <6>1
        <5> QED BY <5>1, <5>2
      <4> QED BY <4>2, <4>5, <4>6
    <3> HIDE DEF others
    <3>4. ASSUME NEW i \in DOMAIN others PROVE others[i] # c
      BY <3>1, <3>2, <3>3
    <3>5. ASSUME NEW i \in DOMAIN others, NEW j \in DOMAIN others, others[i] = others[j]
          PROVE  i = j
      BY <3>1, <3>2, <3>3, <3>5
    <3>6. ASSUME NEW i \in DOMAIN tried, i # k
          PROVE  \E j \in DOMAIN others : others[j] = tried[i]
      <4>1. CASE i < k
        BY <3>1, <3>2, <3>3, <4>1
      <4>2. CASE i > k
        <5>1. i - 1 \in DOMAIN others /\ others[i - 1] = tried[i]
          BY <3>1, <3>2, <3>3, <4>2
        <5> QED BY <5>1
      <4> QED BY <3>1, <3>2, <3>6, <4>1, <4>2
    <3>7. ASSUME NEW j \in DOMAIN others PROVE \E i \in DOMAIN tried : tried[i] = others[j]
      BY <3>1, <3>2, <3>3
    <3> QED BY <3>1, <3>3, <3>4, <3>5, <3>6, <3>7
  <2> QED BY <2>1, <2>2
<1> HIDE DEF others
<1>3. /\ tried' \in Seq(Candidate) /\ DOMAIN tried' = 1 .. Len(others) + 1
      /\ \A i \in 1 .. Len(others) : tried'[i] = others[i]
      /\ tried'[Len(others) + 1] = c
      /\ DOMAIN others = 1 .. Len(others) /\ Len(others) \in Nat
  BY <1>1, <1>2
<1>4. ASSUME NEW d \in Candidate
      PROVE  row'[d].state # "none" <=> \E i \in DOMAIN tried' : tried'[i] = d
  <2>1. CASE d = c
    <3>1. Len(others) + 1 \in DOMAIN tried'
      BY <1>3
    <3> QED BY <1>3, <2>1, <3>1
  <2>2. CASE d # c
    <3>1. (\E i \in DOMAIN tried' : tried'[i] = d) <=> \E i \in DOMAIN others : others[i] = d
      BY <1>3, <2>2
    <3> QED BY <1>2, <2>2, <3>1 DEF OrderOK
  <2> QED BY <2>1, <2>2
<1>5. ASSUME NEW i \in DOMAIN tried', NEW j \in DOMAIN tried', tried'[i] = tried'[j]
      PROVE  i = j
  BY <1>2, <1>3, <1>5
<1> QED BY <1>1, <1>3, <1>4, <1>5 DEF OrderOK

LEMMA OrderStays ==
  ASSUME OrderOK, UNCHANGED <<row, tried>>, due' \subseteq Candidate
  PROVE  OrderOK'
BY DEF OrderOK

(* No page goes above the chain, and none beyond the cap. *)
LEMMA PageIsBounded ==
  ASSUME AuditInv, RowsOK, pc = "page"
  PROVE  /\ cur \in Candidate
         /\ PageTop \in 0 .. MaxHeight /\ PageBottom \in 0 .. PageTop
         /\ Total(cur) \in 0 .. MaxHistory /\ Counted \in 0 .. MaxHistory
<1>1. /\ cur \in Candidate /\ Total(cur) \in Nat /\ Total(cur) < MaxHistory
      /\ PageTop \in Nat /\ PageBottom \in 0 .. PageTop
  BY PageIsInterval DEF AuditInv, PageBelowCap
<1>2. row[cur].low \in 0 .. MaxHeight /\ height[cur] \in 0 .. MaxHeight
  BY <1>1 DEF RowsOK, RowType
<1>3. PageTop \in 0 .. MaxHeight
  BY <1>2 DEF PageTop
<1>4. Limit \in Nat /\ Limit <= MaxHistory - Total(cur) /\ PageTop - PageBottom <= Limit
  BY <1>1, AuditAssumption DEF Limit, MinOf, PageBottom
<1>5. Counted \in 0 .. MaxHistory
  BY <1>1, <1>4, AuditAssumption DEF Counted
<1> QED BY <1>1, <1>3, <1>5, AuditAssumption

LEMMA HandOnBounded ==
  ASSUME AuditInv, RowsOK, pc = "page", NEW done \in Nat, done <= PageTop - PageBottom,
         HandOn(done)
  PROVE  read' \in [Candidate -> SUBSET (1 .. MaxHeight)]
<1>1. /\ cur \in Candidate /\ PageTop \in 0 .. MaxHeight /\ PageBottom \in 0 .. PageTop
  BY PageIsBounded
<1>2. PageBottom + 1 .. PageBottom + done \subseteq 1 .. MaxHeight
  BY <1>1, AuditAssumption
<1> QED BY <1>1, <1>2 DEF HandOn, RowsOK

LEMMA PageReadTyped ==
  ASSUME AuditInv, TypeOK, NEW more \in BOOLEAN, NEW early \in BOOLEAN,
         NEW selected \in BOOLEAN, PageRead(more, early, selected)
  PROVE  RowsOK' /\ OrderOK' /\ WalkOK'
<1> DEFINE capped == Counted >= MaxHistory
           complete == ~more \/ capped \/ early
           new == [state |-> IF complete THEN "complete" ELSE "in_progress",
                   total |-> Counted, token |-> ~complete, low |-> PageBottom,
                   capped |-> capped, early |-> early, selected |-> selected,
                   counted |-> row[cur].counted \/ complete]
<1>1. RowsOK /\ OrderOK /\ WalkOK /\ pc = "page"
  BY TypeParts DEF PageRead
<1>2. /\ cur \in Candidate /\ PageTop \in 0 .. MaxHeight /\ PageBottom \in 0 .. PageTop
      /\ Counted \in 0 .. MaxHistory
  BY <1>1, PageIsBounded
<1>3. new \in RowType /\ new.state # "none"
  BY <1>1, <1>2, AuditAssumption DEF RowsOK, RowType
<1>4. row' = [row EXCEPT ![cur] = new]
  BY DEF PageRead
<1> HIDE DEF new
<1>5. RowsOK'
  <2>1. read' \in [Candidate -> SUBSET (1 .. MaxHeight)]
    BY <1>1, <1>2, HandOnBounded DEF PageRead
  <2> QED BY <1>1, <1>2, <1>3, <1>4, <2>1 DEF PageRead, RowsOK
<1>6. OrderOK'
  BY <1>1, <1>2, <1>3, <1>4, BeatKeepsOrder DEF PageRead, RowsOK
<1>7. WalkOK'
  BY <1>1, <1>2 DEF PageRead, WalkOK, Leave
<1> QED BY <1>5, <1>6, <1>7

LEMMA PageFailsTyped ==
  ASSUME AuditInv, TypeOK, NEW done \in Nat, PageFails(done)
  PROVE  RowsOK' /\ OrderOK' /\ WalkOK'
<1>1. RowsOK /\ OrderOK /\ WalkOK /\ pc = "page"
  BY TypeParts DEF PageFails
<1>2. /\ cur \in Candidate /\ Total(cur) \in 0 .. MaxHistory /\ Counted \in 0 .. MaxHistory
  BY <1>1, PageIsBounded
<1>3. PICK total \in 0 .. MaxHistory : row' = Failed(total)
  BY <1>2 DEF PageFails
<1> DEFINE new == [row[cur] EXCEPT !.state = "error", !.total = total,
                                   !.token = Resumes(cur)]
<1>4. row[cur] \in RowType
  BY <1>1, <1>2 DEF RowsOK
<1>5. new \in RowType /\ new.state = "error"
  BY <1>4 DEF RowType, Resumes, Unfinished
<1>6. row' = [row EXCEPT ![cur] = new]
  BY <1>1, <1>2, <1>3, <1>4 DEF Failed, RowType, RowsOK
<1> HIDE DEF new
<1>7. RowsOK'
  <2>1. read' \in [Candidate -> SUBSET (1 .. MaxHeight)]
    BY <1>1, HandOnBounded DEF PageFails
  <2> QED BY <1>1, <1>2, <1>5, <1>6, <2>1 DEF PageFails, RowsOK, outside
<1>8. OrderOK'
  BY <1>1, <1>2, <1>5, <1>6, BeatKeepsOrder DEF PageFails, RowsOK
<1>9. WalkOK'
  BY <1>1, <1>2, AuditAssumption DEF PageFails, WalkOK, Leave, outside, Fault
<1> QED BY <1>7, <1>8, <1>9

LEMMA BackfillTyped ==
  ASSUME AuditInv, TypeOK, NEW c \in Candidate, Backfill(c)
  PROVE  RowsOK' /\ OrderOK' /\ WalkOK'
<1> DEFINE new == [row[c] EXCEPT !.counted = TRUE]
<1>1. RowsOK /\ OrderOK /\ WalkOK
  BY TypeParts
<1>2. row[c] \in RowType /\ row[c].state = "complete"
  BY <1>1 DEF RowsOK, Backfill, Uncounted, Complete
<1>3. new \in RowType /\ new.state # "none"
  BY <1>2 DEF RowType
<1>4. row' = [row EXCEPT ![c] = new]
  BY DEF Backfill
<1> HIDE DEF new
<1>5. RowsOK'
  BY <1>1, <1>3, <1>4 DEF Backfill, RowsOK, outside, history
<1>6. OrderOK'
  BY <1>1, <1>3, <1>4, BeatKeepsOrder DEF Backfill, RowsOK
<1>7. WalkOK'
  BY <1>1, AuditAssumption DEF Backfill, Turn, WalkOK, outside
<1> QED BY <1>5, <1>6, <1>7

LEMMA FinishCappedTyped ==
  ASSUME AuditInv, TypeOK, NEW c \in Candidate, FinishCapped(c)
  PROVE  RowsOK' /\ OrderOK' /\ WalkOK'
<1> DEFINE new == [row[c] EXCEPT !.state = "complete", !.token = FALSE,
                                 !.capped = TRUE, !.early = FALSE]
<1>1. RowsOK /\ OrderOK /\ WalkOK
  BY TypeParts
<1>2. row[c] \in RowType
  BY <1>1 DEF RowsOK
<1>3. new \in RowType /\ new.state # "none"
  BY <1>2 DEF RowType
<1>4. row' = [row EXCEPT ![c] = new]
  BY <1>1, <1>2 DEF FinishCapped, RowType, RowsOK
<1> HIDE DEF new
<1>5. RowsOK'
  <2>1. UNCHANGED <<height, start, read>>
    BY DEF FinishCapped, outside, history
  <2> QED BY <1>1, <1>3, <1>4, <2>1 DEF RowsOK
<1>6. OrderOK'
  BY <1>1, <1>3, <1>4, BeatKeepsOrder DEF FinishCapped, RowsOK
<1>7. WalkOK'
  BY <1>1, AuditAssumption DEF FinishCapped, Attempt, Turn, WalkOK, outside
<1> QED BY <1>5, <1>6, <1>7

LEMMA CycleLostTyped ==
  ASSUME AuditInv, TypeOK, CycleLost
  PROVE  RowsOK' /\ OrderOK' /\ WalkOK'
<1>1. RowsOK /\ OrderOK /\ WalkOK
  BY TypeParts
<1>2. read' \in [Candidate -> SUBSET (1 .. MaxHeight)]
  <2>1. CASE UNCHANGED read
    BY <1>1, <2>1 DEF RowsOK
  <2>2. CASE pc = "page" /\ \E done \in 0 .. PageTop - PageBottom : HandOn(done)
    <3>1. PICK done \in Nat : HandOn(done) /\ done <= PageTop - PageBottom
      BY <1>1, <2>2, PageIsBounded
    <3> QED BY <1>1, <2>2, <3>1, HandOnBounded
  <2> QED BY <2>1, <2>2 DEF CycleLost
<1>3. RowsOK'
  BY <1>1, <1>2 DEF CycleLost, RowsOK, outside, rows
<1>4. OrderOK'
  BY <1>1, OrderStays DEF CycleLost, rows, OrderOK
<1>5. WalkOK'
  BY <1>1, AuditAssumption DEF CycleLost, WalkOK, outside, Fault
<1> QED BY <1>3, <1>4, <1>5

LEMMA QuietTyped ==
  ASSUME AuditInv, TypeOK, Quiet
  PROVE  RowsOK' /\ OrderOK' /\ WalkOK'
<1>1. RowsOK /\ OrderOK /\ WalkOK /\ UNCHANGED <<row, start, read>>
  BY TypeParts, QuietSteps
<1>2. UNCHANGED tried /\ due' \subseteq Candidate
  BY <1>1 DEF Quiet, OrderOK, StartCycle, EndWalk, Promote, Skip, BeginPage, RetryDue,
              NewTransaction, SetMonitor, vars, rows
<1>3. height' \in [Candidate -> 0 .. MaxHeight]
  BY <1>1, AuditAssumption
  DEF Quiet, RowsOK, StartCycle, EndWalk, Promote, Skip, BeginPage, RetryDue,
      NewTransaction, SetMonitor, vars, outside
<1>4. WalkOK'
  <2>1. CASE StartCycle
    BY <1>1, <2>1, AuditAssumption DEF WalkOK, StartCycle
  <2>2. CASE UNCHANGED vars
    BY <1>1, <2>2 DEF WalkOK, vars, outside, cycle
  <2>3. CASE EndWalk
    <3>1. /\ pc' = "promote" /\ left' = {} /\ attempted' = 0
          /\ UNCHANGED <<queued, poor, monitored, cur, finished, faults>>
      BY <2>3 DEF EndWalk, outside
    <3> QED BY <1>1, <3>1, AuditAssumption DEF WalkOK
  <2>4. CASE Promote
    <3>1. UNCHANGED <<queued, poor, left, attempted, cur, faults>>
      BY <2>4 DEF Promote
    <3>2. pc' = "idle" /\ finished' = NoCandidate
      BY <2>4 DEF Promote
    <3>3. monitored' \subseteq Candidate
      BY <1>1, <2>4 DEF Promote, WalkOK
    <3> QED BY <1>1, <3>1, <3>2, <3>3 DEF WalkOK
  <2>5. ASSUME NEW c \in Candidate, Skip(c) PROVE WalkOK'
    BY <1>1, <2>5 DEF WalkOK, Skip, outside
  <2>6. ASSUME NEW c \in Candidate, BeginPage(c) PROVE WalkOK'
    <3>1. /\ attempted < MaxCandidates /\ attempted' = attempted + 1
          /\ left' = left \ {c} /\ cur' = c /\ pc' = "page"
          /\ UNCHANGED <<queued, poor, monitored, finished, faults>>
      BY <2>6 DEF BeginPage, Attempt, Turn, outside
    <3> QED BY <1>1, <3>1, AuditAssumption DEF WalkOK
  <2>7. ASSUME NEW c \in Candidate, RetryDue(c) \/ NewTransaction(c) \/ SetMonitor(c)
        PROVE  WalkOK'
    BY <1>1, <2>7 DEF WalkOK, RetryDue, NewTransaction, SetMonitor, outside, cycle
  <2> QED BY <2>1, <2>2, <2>3, <2>4, <2>5, <2>6, <2>7 DEF Quiet
<1> QED BY <1>1, <1>2, <1>3, <1>4, OrderStays DEF RowsOK

LEMMA InitTyped == Init => TypeOK
<1> SUFFICES ASSUME Init PROVE TypeOK
  OBVIOUS
<1>1. NoRow \in RowType
  BY AuditAssumption DEF NoRow, RowType
<1> QED BY <1>1, AuditAssumption DEF Init, TypeOK, NoRow

LEMMA TypeStep == AuditInv /\ TypeOK /\ [Next]_vars => TypeOK'
<1> SUFFICES ASSUME AuditInv, TypeOK, [Next]_vars PROVE TypeOK'
  OBVIOUS
<1>1. RowsOK' /\ OrderOK' /\ WalkOK'
  <2>1. CASE Page
    BY <2>1, PageReadTyped, PageFailsTyped DEF Page
  <2>2. CASE CycleLost
    BY <2>2, CycleLostTyped
  <2>3. ASSUME NEW c \in Candidate, Backfill(c) \/ FinishCapped(c)
        PROVE  RowsOK' /\ OrderOK' /\ WalkOK'
    BY <2>3, BackfillTyped, FinishCappedTyped
  <2>4. CASE Quiet
    BY <2>4, QuietTyped
  <2> QED BY <2>1, <2>2, <2>3, <2>4 DEF Next, Walk, Outside, Quiet
<1>2. (pc = "page" => cur \in Candidate)'
  BY AuditStep DEF AuditInv, PageBelowCap
<1> QED BY <1>1, <1>2 DEF TypeOK, RowsOK, OrderOK, WalkOK

-----------------------------------------------------------------------------
(* A candidate reported complete, and neither capped nor stopped early, has had its
   whole history handled, through every error, lost cycle and retry. *)
THEOREM AuditsAreWhole == Spec => []CompleteIsWhole
<1>1. AuditInv => CompleteIsWhole
  BY DEF AuditInv, Whole, CompleteIsWhole
<1> QED BY <1>1, InitAudits, AuditStep, PTL DEF Spec

(* "Transient errors retain the checkpoint" (docs/TRADER_DISCOVERY.md:141): an audit
   that has got somewhere goes on from there, or is complete. *)
THEOREM CheckpointsAreKept == Spec => NoProgressLost
<1>1. AuditInv /\ [Next]_vars => [\A c \in Candidate : Advances(c)]_vars
  BY StepAdvances
<1>2. [\A c \in Candidate : Advances(c)]_vars =>
        [\A c \in Candidate :
           Resumes(c) => \/ row'[c].state = "complete"
                         \/ row'[c].token /\ row'[c].low <= row[c].low]_vars
  BY DEF Advances
<1> QED BY <1>1, <1>2, InitAudits, AuditStep, PTL DEF Spec, NoProgressLost

(* No audit counts more transactions than maximum_history_transactions, whatever
   page, error or retry comes in between, no page is handed on that the chain does
   not have, no cycle tries more than maximum_candidates, and the order of attempts
   names each candidate that has a row exactly once. *)
THEOREM AuditsAreBounded == Spec => []TypeOK
BY InitAudits, AuditStep, InitTyped, TypeStep, PTL DEF Spec

=============================================================================
