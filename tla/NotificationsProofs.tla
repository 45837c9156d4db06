-------------------------- MODULE NotificationsProofs --------------------------
(***************************************************************************)
(* What a mark promises and how often a message is sent, for any number of *)
(* workers, recipients, orders, keys, attempts and failures.               *)
(***************************************************************************)
EXTENDS Notifications, TLAPS

(* A message that went well so far has reached everybody it passed. *)
JobsReached ==
  \A w \in Worker, k \in Kind, r \in Recipient :
    job[w][k].all /\ r < job[w][k].next => job[w][k].about \subseteq seen[r]

(* Messages are about what the loops of their kind handle. *)
JobsAbout ==
  \A w \in Worker :
    /\ job[w]["summary"].about \subseteq settled
    /\ job[w]["report"] = NoJob \/ job[w]["report"].about = {Report}

(* What is to be told once, and has been stored for that. *)
Begun(m) == m \in alerts \/ (m = Started /\ created)

(* It is told by one job only, which has not reached the recipients ahead. *)
OneJob ==
  /\ \A r \in Recipient, m \in Once : ~Begun(m) => copies[r][m] = 0
  /\ \A w \in Worker, k \in Kind, m \in Once : m \in job[w][k].about =>
       /\ Begun(m)
       /\ \A r \in Recipient : job[w][k].next <= r => copies[r][m] = 0
       /\ \A v \in Worker, l \in Kind : m \in job[v][l].about => v = w /\ l = k

OutboxInv ==
  /\ TypeOK /\ JobsReached /\ JobsAbout /\ OneJob
  /\ SentWasTold /\ MarkedWasReported /\ ToldByOneJob

LEMMA InitOutbox == Init => OutboxInv
<1> SUFFICES ASSUME Init PROVE OutboxInv
  OBVIOUS
<1>1. NoJob \in Job /\ NoJob.about = {} /\ NoJob.next = 0
  BY NotificationsAssumption DEF NoJob, Job
<1>2. TypeOK
  <2>1. job \in [Worker -> [Kind -> Job]]
    BY <1>1 DEF Init
  <2>2. seen \in [Recipient -> SUBSET (Order \cup Once \cup {Report})]
    BY DEF Init
  <2>3. copies \in [Recipient -> [Once -> Nat]]
    BY DEF Init
  <2>4. faults \in 0 .. MaxFaults
    BY NotificationsAssumption DEF Init
  <2> QED BY <2>1, <2>2, <2>3, <2>4 DEF Init, TypeOK
<1>3. JobsReached /\ JobsAbout /\ OneJob
  BY <1>1, NotificationsAssumption DEF Init, JobsReached, JobsAbout, OneJob, Recipient, Kind
<1> QED BY <1>2, <1>3, NotificationsAssumption
       DEF Init, OutboxInv, SentWasTold, MarkedWasReported, ToldByOneJob

-----------------------------------------------------------------------------
(* What the operators on jobs do *)

(* One job is replaced by one that is about nothing to be told once, has reached
   whom it passed and is about what it should be: nothing else changes. *)
LEMMA JobReplaced ==
  ASSUME OutboxInv, NEW w \in Worker, NEW k \in Kind, NEW j \in Job,
         job' = [job EXCEPT ![w][k] = j], UNCHANGED <<seen, copies>>,
         alerts \subseteq alerts', created => created', settled \subseteq settled',
         \A r \in Recipient : j.all /\ r < j.next => j.about \subseteq seen[r],
         k = "summary" => j.about \subseteq settled',
         k = "report" => j = NoJob \/ j.about = {Report},
         j.about \cap Once = {}
  PROVE  /\ job' \in [Worker -> [Kind -> Job]]
         /\ JobsReached' /\ JobsAbout' /\ OneJob' /\ ToldByOneJob'
<1>1. job \in [Worker -> [Kind -> Job]]
  BY DEF OutboxInv, TypeOK
<1>2. \A v \in Worker, l \in Kind :
        job'[v][l] = IF v = w /\ l = k THEN j ELSE job[v][l]
  BY <1>1
<1>3. job' \in [Worker -> [Kind -> Job]]
  BY <1>1
<1>4. JobsReached'
  BY <1>2 DEF OutboxInv, JobsReached
<1>5. JobsAbout'
  BY <1>2 DEF OutboxInv, JobsAbout, Kind
<1>6. OneJob'
  BY <1>2 DEF OutboxInv, OneJob, Begun
<1> QED BY <1>3, <1>4, <1>5, <1>6 DEF OutboxInv, ToldByOneJob

(* A job about something to be told once begins when that is stored. *)
LEMMA OnceBegins ==
  ASSUME OutboxInv, NEW w \in Worker, NEW k \in {"signal", "started"}, NEW m \in Once,
         Begin(w, k, {m}), ~Begun(m), Begun(m)',
         UNCHANGED <<seen, copies, settled>>, alerts \subseteq alerts', created => created'
  PROVE  /\ job' \in [Worker -> [Kind -> Job]]
         /\ JobsReached' /\ JobsAbout' /\ OneJob' /\ ToldByOneJob'
<1> DEFINE j == [about |-> {m}, next |-> 1, all |-> TRUE]
<1>1. job \in [Worker -> [Kind -> Job]] /\ k \in Kind
  BY DEF OutboxInv, TypeOK, Kind
<1>2. j \in Job
  BY NotificationsAssumption DEF Job
<1>3. job' = [job EXCEPT ![w][k] = j]
  BY DEF Begin
<1>4. \A v \in Worker, l \in Kind :
        job'[v][l] = IF v = w /\ l = k THEN j ELSE job[v][l]
  BY <1>1, <1>3
<1>5. job' \in [Worker -> [Kind -> Job]]
  BY <1>1, <1>2, <1>3
<1>6. JobsReached'
  BY <1>4 DEF OutboxInv, JobsReached, Recipient
<1>7. JobsAbout'
  BY <1>4 DEF OutboxInv, JobsAbout, Kind
<1>8. \A v \in Worker, l \in Kind : m \notin job[v][l].about
  BY DEF OutboxInv, OneJob
<1>9. OneJob'
  <2>1. \A r \in Recipient, n \in Once : ~Begun(n)' => copies'[r][n] = 0
    BY DEF OutboxInv, OneJob, Begun
  <2>2. ASSUME NEW v \in Worker, NEW l \in Kind, NEW n \in Once, n \in job'[v][l].about
        PROVE  /\ Begun(n)'
               /\ \A r \in Recipient : job'[v][l].next <= r => copies'[r][n] = 0
    <3>1. CASE v = w /\ l = k
      BY <1>4, <2>2, <3>1 DEF OutboxInv, OneJob
    <3>2. CASE ~(v = w /\ l = k)
      BY <1>4, <2>2, <3>2 DEF OutboxInv, OneJob, Begun
    <3> QED BY <3>1, <3>2
  <2>3. \A v, u \in Worker, l, i \in Kind, n \in Once :
          n \in job'[v][l].about /\ n \in job'[u][i].about => u = v /\ i = l
    BY <1>4, <1>8 DEF OutboxInv, OneJob
  <2> QED BY <2>1, <2>2, <2>3 DEF OneJob
<1> QED BY <1>5, <1>6, <1>7, <1>9 DEF OutboxInv, ToldByOneJob

(* A recipient is told: the mail arrives as often as said. *)
LEMMA TellKeeps ==
  ASSUME OutboxInv, NEW w \in Worker, NEW k \in Kind, Tell(w, k)
  PROVE  OutboxInv'
<1> DEFINE r == job[w][k].next
           about == job[w][k].about
<1>1. PICK arrived \in 0 .. Attempts, good \in BOOLEAN :
        /\ r \in Recipient
        /\ good => arrived > 0
        /\ IF good /\ arrived = 1 THEN UNCHANGED faults ELSE Fault
        /\ IF arrived = 0 THEN UNCHANGED inbox
           ELSE /\ seen' = [seen EXCEPT ![r] = @ \cup about]
                /\ copies' = [copies EXCEPT ![r] =
                     [m \in Once |-> IF m \in about THEN @[m] + arrived ELSE @[m]]]
        /\ TellNext(w, k, good)
        /\ UNCHANGED <<tables, clock, leads, ready>>
  BY DEF Tell
<1> DEFINE j == [about |-> about, next |-> r + 1, all |-> (job[w][k].all /\ good)]
<1>2. /\ job \in [Worker -> [Kind -> Job]] /\ job[w][k] \in Job
      /\ seen \in [Recipient -> SUBSET (Order \cup Once \cup {Report})]
      /\ copies \in [Recipient -> [Once -> Nat]]
  BY DEF OutboxInv, TypeOK
<1>3. /\ job' = [job EXCEPT ![w][k] = j]
      /\ j \in Job /\ j.about = about /\ j.next = r + 1 /\ j.all = (job[w][k].all /\ good)
  <2>1. job' = [job EXCEPT ![w][k] = j]
    BY <1>1 DEF TellNext
  <2>2. about \in SUBSET (Order \cup Once \cup {Report}) /\ job[w][k].all \in BOOLEAN
    BY <1>2 DEF Job
  <2>3. r + 1 \in 0 .. Recipients + 1
    BY <1>1, NotificationsAssumption DEF Recipient
  <2>4. (job[w][k].all /\ good) \in BOOLEAN
    BY <1>1, <2>2
  <2> QED BY <2>1, <2>2, <2>3, <2>4 DEF Job
<1>4. \A v \in Worker, l \in Kind :
        job'[v][l] = IF v = w /\ l = k THEN j ELSE job[v][l]
  BY <1>2, <1>3
<1>5. /\ \A q \in Recipient : seen[q] \subseteq seen'[q] /\ (q # r => seen'[q] = seen[q])
      /\ good => about \subseteq seen'[r]
      /\ seen' \in [Recipient -> SUBSET (Order \cup Once \cup {Report})]
  <2>1. about \in SUBSET (Order \cup Once \cup {Report})
    BY <1>2 DEF Job
  <2>2. CASE arrived = 0
    BY <1>1, <1>2, <2>2 DEF inbox
  <2>3. CASE arrived # 0
    BY <1>1, <1>2, <2>1, <2>3
  <2> QED BY <2>2, <2>3
<1>6. \A q \in Recipient, m \in Once :
        copies'[q][m] = IF q = r /\ m \in about THEN copies[q][m] + arrived ELSE copies[q][m]
  <2>1. CASE arrived = 0
    <3>1. copies' = copies
      BY <1>1, <2>1 DEF inbox
    <3>2. \A q \in Recipient, m \in Once : copies[q][m] + arrived = copies[q][m]
      BY <1>2, <2>1
    <3> QED BY <3>1, <3>2
  <2>2. CASE arrived # 0
    <3>1. copies' = [copies EXCEPT ![r] =
                       [m \in Once |-> IF m \in about THEN copies[r][m] + arrived
                                                      ELSE copies[r][m]]]
      BY <1>1, <2>2
    <3> QED BY <1>1, <1>2, <3>1
  <2> QED BY <2>1, <2>2
<1>7. copies' \in [Recipient -> [Once -> Nat]]
  <2>1. CASE arrived = 0
    BY <1>1, <1>2, <2>1 DEF inbox
  <2>2. CASE arrived # 0
    <3>1. [m \in Once |-> IF m \in about THEN copies[r][m] + arrived ELSE copies[r][m]]
            \in [Once -> Nat]
      BY <1>1, <1>2
    <3> QED BY <1>1, <1>2, <2>2, <3>1
  <2> QED BY <2>1, <2>2
<1>8. UNCHANGED <<settled, notified, created, marker, alerts, clock, leads, ready>>
  BY <1>1 DEF tables
<1>9. faults' \in 0 .. MaxFaults
  BY <1>1, NotificationsAssumption DEF Fault, OutboxInv, TypeOK
<1>10. TypeOK'
  BY <1>2, <1>3, <1>5, <1>7, <1>8, <1>9 DEF OutboxInv, TypeOK
<1>11. JobsReached'
  <2> SUFFICES ASSUME NEW v \in Worker, NEW l \in Kind, NEW q \in Recipient,
                      job'[v][l].all, q < job'[v][l].next
               PROVE  job'[v][l].about \subseteq seen'[q]
    BY DEF JobsReached
  <2>1. CASE v = w /\ l = k
    <3>1. job'[v][l] = j
      BY <1>4, <2>1
    <3>2. job[w][k].all /\ good /\ q < r + 1 /\ job'[v][l].about = about
      BY <1>3, <3>1
    <3>3. q = r \/ q < r
      BY <1>1, <3>2 DEF Recipient
    <3> QED BY <1>5, <2>1, <3>2, <3>3 DEF OutboxInv, JobsReached
  <2>2. CASE ~(v = w /\ l = k)
    BY <1>4, <1>5, <2>2 DEF OutboxInv, JobsReached
  <2> QED BY <2>1, <2>2
<1>12. JobsAbout'
  <2>1. job[w][k] # NoJob
    BY DEF Tell, Busy
  <2> QED BY <1>3, <1>4, <1>8, <2>1 DEF OutboxInv, JobsAbout, Kind
<1>13. OneJob'
  <2>1. \A q \in Recipient, m \in Once : ~Begun(m)' => copies'[q][m] = 0
    BY <1>6, <1>8 DEF OutboxInv, OneJob, Begun
  <2>2. ASSUME NEW v \in Worker, NEW l \in Kind, NEW m \in Once, m \in job'[v][l].about
        PROVE  /\ Begun(m)'
               /\ \A q \in Recipient : job'[v][l].next <= q => copies'[q][m] = 0
               /\ \A u \in Worker, i \in Kind : m \in job'[u][i].about => u = v /\ i = l
    <3>1. m \in job[v][l].about /\ \A u \in Worker, i \in Kind :
            m \in job'[u][i].about => m \in job[u][i].about
      BY <1>3, <1>4, <2>2
    <3>2. Begun(m)' /\ \A u \in Worker, i \in Kind : m \in job'[u][i].about => u = v /\ i = l
      BY <1>8, <3>1 DEF OutboxInv, OneJob, Begun
    <3>3. ASSUME NEW q \in Recipient, job'[v][l].next <= q PROVE copies'[q][m] = 0
      <4>1. CASE v = w /\ l = k
        <5>1. q # r /\ r <= q
          <6>1. job'[v][l].next = r + 1
            BY <1>3, <1>4, <4>1
          <6> QED BY <1>1, <3>3, <6>1 DEF Recipient
        <5> QED BY <1>6, <3>1, <4>1, <5>1 DEF OutboxInv, OneJob
      <4>2. CASE ~(v = w /\ l = k)
        <5>1. m \notin about
          BY <3>1, <4>2 DEF OutboxInv, OneJob
        <5> QED BY <1>4, <1>6, <3>1, <3>3, <4>2, <5>1 DEF OutboxInv, OneJob
      <4> QED BY <4>1, <4>2
    <3> QED BY <3>1, <3>2, <3>3
  <2> QED BY <2>1, <2>2 DEF OneJob
<1>14. ToldByOneJob'
  <2> SUFFICES ASSUME NEW q \in Recipient, NEW m \in Once PROVE copies'[q][m] <= Attempts
    BY DEF ToldByOneJob
  <2>1. CASE q = r /\ m \in about
    <3>1. copies[q][m] = 0
      BY <1>1, <2>1 DEF OutboxInv, OneJob, Recipient
    <3> QED BY <1>1, <1>6, <2>1, <3>1, NotificationsAssumption
  <2>2. CASE ~(q = r /\ m \in about)
    BY <1>6, <2>2 DEF OutboxInv, ToldByOneJob
  <2> QED BY <2>1, <2>2
<1>15. SentWasTold' /\ MarkedWasReported'
  BY <1>5, <1>8 DEF OutboxInv, SentWasTold, MarkedWasReported
<1> QED BY <1>10, <1>11, <1>12, <1>13, <1>14, <1>15 DEF OutboxInv

LEMMA EndKeeps ==
  ASSUME OutboxInv, NEW w \in Worker, NEW k \in Kind, End(w, k),
         UNCHANGED <<seen, copies, settled, created, alerts>>
  PROVE  /\ job' \in [Worker -> [Kind -> Job]]
         /\ JobsReached' /\ JobsAbout' /\ OneJob' /\ ToldByOneJob'
<1>1. /\ NoJob \in Job /\ NoJob.about = {}
      /\ \A r \in Recipient : ~(r < NoJob.next)
  BY NotificationsAssumption DEF NoJob, Job, Recipient
<1>2. job' = [job EXCEPT ![w][k] = NoJob]
  BY DEF End
<1> QED BY <1>1, <1>2, JobReplaced

(* What leaves jobs and mail alone, and what is stored stays stored. *)
LEMMA QuietKeeps ==
  ASSUME OutboxInv, UNCHANGED <<job, seen, copies, alerts, created>>,
         settled \subseteq settled'
  PROVE  /\ JobsReached' /\ JobsAbout' /\ OneJob' /\ ToldByOneJob'
<1>1. JobsReached' /\ JobsAbout'
  BY DEF OutboxInv, JobsReached, JobsAbout
<1> QED BY <1>1 DEF OutboxInv, OneJob, Begun, ToldByOneJob

-----------------------------------------------------------------------------
(* Actions *)

LEMMA BeginSummaryKeeps ==
  ASSUME OutboxInv, NEW w \in Worker, BeginSummary(w)
  PROVE  OutboxInv'
<1> DEFINE j == [about |-> Unsent, next |-> 1, all |-> TRUE]
<1>1. Unsent \subseteq settled /\ Unsent \subseteq Order
  BY DEF Unsent, Oldest, OutboxInv, TypeOK
<1>2. j \in Job
  BY <1>1, NotificationsAssumption DEF Job
<1>3. j.about \cap Once = {}
  BY <1>1, NotificationsAssumption DEF Once
<1>4. job' = [job EXCEPT ![w]["summary"] = j]
  BY DEF BeginSummary, Begin
<1>5. UNCHANGED <<settled, notified, created, marker, alerts, clock, leads, ready, seen,
                  copies, faults>>
  BY DEF BeginSummary, tables, inbox
<1>6. "summary" \in Kind /\ \A r \in Recipient : ~(r < j.next)
  BY DEF Kind, Recipient
<1>7. /\ job' \in [Worker -> [Kind -> Job]]
      /\ JobsReached' /\ JobsAbout' /\ OneJob' /\ ToldByOneJob'
  BY <1>1, <1>2, <1>3, <1>4, <1>5, <1>6, JobReplaced
<1> QED BY <1>5, <1>7 DEF OutboxInv, TypeOK, SentWasTold, MarkedWasReported

LEMMA BeginReportKeeps ==
  ASSUME OutboxInv, NEW w \in Worker, BeginReport(w)
  PROVE  OutboxInv'
<1> DEFINE j == [about |-> {Report}, next |-> 1, all |-> TRUE]
<1>1. j \in Job /\ j.about \cap Once = {}
  BY NotificationsAssumption DEF Job
<1>2. job' = [job EXCEPT ![w]["report"] = j]
  BY DEF BeginReport, Begin
<1>3. UNCHANGED <<settled, notified, created, marker, alerts, clock, leads, ready, seen,
                  copies, faults>>
  BY DEF BeginReport, tables, inbox
<1>4. "report" \in Kind /\ \A r \in Recipient : ~(r < j.next)
  BY DEF Kind, Recipient
<1>5. /\ job' \in [Worker -> [Kind -> Job]]
      /\ JobsReached' /\ JobsAbout' /\ OneJob' /\ ToldByOneJob'
  BY <1>1, <1>2, <1>3, <1>4, JobReplaced
<1> QED BY <1>3, <1>5 DEF OutboxInv, TypeOK, SentWasTold, MarkedWasReported

(* A message told to the last recipient, and well, was told to all. *)
LEMMA ToldAll ==
  ASSUME OutboxInv, NEW w \in Worker, NEW k \in Kind, Told(w, k), job[w][k].all
  PROVE  \A r \in Recipient : job[w][k].about \subseteq seen[r]
<1>1. job[w][k].next \in 0 .. Recipients + 1
  BY DEF OutboxInv, TypeOK, Job
<1> QED BY <1>1, NotificationsAssumption DEF Told, OutboxInv, JobsReached, Recipient

LEMMA SummaryToldKeeps ==
  ASSUME OutboxInv, NEW w \in Worker, SummaryTold(w)
  PROVE  OutboxInv'
<1>1. UNCHANGED <<settled, created, marker, alerts, clock, leads, ready, seen, copies, faults>>
  BY DEF SummaryTold, inbox
<1>2. "summary" \in Kind /\ End(w, "summary")
  BY DEF Kind, SummaryTold
<1>3. /\ job' \in [Worker -> [Kind -> Job]]
      /\ JobsReached' /\ JobsAbout' /\ OneJob' /\ ToldByOneJob'
  BY <1>1, <1>2, EndKeeps
<1>4. CASE job[w]["summary"].all
  <2>1. notified' = notified \cup job[w]["summary"].about
    BY <1>4 DEF SummaryTold, MarkNotificationsSent
  <2>2. \A r \in Recipient : job[w]["summary"].about \subseteq seen[r]
    BY <1>2, <1>4, ToldAll DEF SummaryTold
  <2>3. job[w]["summary"].about \subseteq settled
    BY DEF OutboxInv, JobsAbout
  <2>4. SentWasTold'
    BY <1>1, <2>1, <2>2 DEF OutboxInv, SentWasTold
  <2>5. TypeOK'
    BY <1>1, <1>3, <2>1, <2>3 DEF OutboxInv, TypeOK
  <2> QED BY <1>1, <1>3, <2>4, <2>5 DEF OutboxInv, MarkedWasReported
<1>5. CASE ~job[w]["summary"].all
  <2>1. notified' = notified
    BY <1>5 DEF SummaryTold
  <2> QED BY <1>1, <1>3, <2>1 DEF OutboxInv, TypeOK, SentWasTold, MarkedWasReported
<1> QED BY <1>4, <1>5

LEMMA ReportToldKeeps ==
  ASSUME OutboxInv, NEW w \in Worker, ReportTold(w)
  PROVE  OutboxInv'
<1>1. UNCHANGED <<settled, notified, created, alerts, clock, leads, ready, seen, copies, faults>>
  BY DEF ReportTold, inbox
<1>2. "report" \in Kind /\ End(w, "report")
  BY DEF Kind, ReportTold
<1>3. /\ job' \in [Worker -> [Kind -> Job]]
      /\ JobsReached' /\ JobsAbout' /\ OneJob' /\ ToldByOneJob'
  BY <1>1, <1>2, EndKeeps
<1>4. job[w]["report"].all \in BOOLEAN /\ marker \in BOOLEAN
  BY <1>2 DEF OutboxInv, TypeOK, Job
<1>5. marker' = (marker \/ job[w]["report"].all)
  BY DEF ReportTold
<1>6. MarkedWasReported'
  <2>1. CASE job[w]["report"].all
    <3>1. job[w]["report"].about = {Report}
      BY DEF ReportTold, Told, Busy, OutboxInv, JobsAbout
    <3> QED BY <1>1, <1>2, <2>1, <3>1, ToldAll DEF ReportTold, MarkedWasReported
  <2>2. CASE ~job[w]["report"].all
    BY <1>1, <1>5, <2>2 DEF OutboxInv, MarkedWasReported
  <2> QED BY <2>1, <2>2
<1>7. marker' \in BOOLEAN
  BY <1>4, <1>5
<1>8. TypeOK'
  BY <1>1, <1>3, <1>7 DEF OutboxInv, TypeOK
<1> QED BY <1>1, <1>3, <1>6, <1>8 DEF OutboxInv, SentWasTold

LEMMA EnsurePortfolioKeeps ==
  ASSUME OutboxInv, NEW w \in Worker, EnsurePortfolio(w)
  PROVE  OutboxInv'
<1>1. UNCHANGED <<settled, notified, marker, alerts, clock, leads, seen, copies, faults>>
      /\ created' = TRUE
  BY DEF EnsurePortfolio, inbox
<1>2. CASE created
  <2>1. UNCHANGED <<job, created>> /\ ready' = ready \cup {w}
    BY <1>1, <1>2 DEF EnsurePortfolio, Initialized, OutboxInv, TypeOK
  <2>2. JobsReached' /\ JobsAbout' /\ OneJob' /\ ToldByOneJob'
    BY <1>1, <2>1, QuietKeeps
  <2> QED BY <1>1, <2>1, <2>2 DEF OutboxInv, TypeOK, SentWasTold, MarkedWasReported
<1>3. CASE ~created
  <2>1. Begin(w, "started", {Started}) /\ ready' = ready
    BY <1>3 DEF EnsurePortfolio
  <2>2. Started \in Once /\ ~Begun(Started) /\ Begun(Started)'
    BY <1>1, <1>3, NotificationsAssumption DEF Once, Begun, OutboxInv, TypeOK
  <2>3. /\ job' \in [Worker -> [Kind -> Job]]
        /\ JobsReached' /\ JobsAbout' /\ OneJob' /\ ToldByOneJob'
    BY <1>1, <2>1, <2>2, OnceBegins
  <2> QED BY <1>1, <2>1, <2>3 DEF OutboxInv, TypeOK, SentWasTold, MarkedWasReported
<1> QED BY <1>2, <1>3

LEMMA CreateAlphaSignalKeeps ==
  ASSUME OutboxInv, NEW w \in Worker, NEW m \in Key, CreateAlphaSignal(w, m)
  PROVE  OutboxInv'
<1>1. /\ UNCHANGED <<settled, notified, created, marker, clock, leads, ready, seen, copies, faults>>
      /\ alerts' = alerts \cup {m} /\ Begin(w, "signal", {m})
  BY DEF CreateAlphaSignal, inbox
<1>2. m \in Once /\ ~Begun(m) /\ Begun(m)'
  BY <1>1, NotificationsAssumption DEF CreateAlphaSignal, Absent, Once, Begun
<1>3. /\ job' \in [Worker -> [Kind -> Job]]
      /\ JobsReached' /\ JobsAbout' /\ OneJob' /\ ToldByOneJob'
  BY <1>1, <1>2, OnceBegins
<1> QED BY <1>1, <1>3 DEF OutboxInv, TypeOK, SentWasTold, MarkedWasReported

(* A message ends, told or not, without a mark. *)
LEMMA EndsKeep ==
  ASSUME OutboxInv, NEW w \in Worker, NEW k \in Kind,
         (k = "started" /\ StartTold(w)) \/ (k = "signal" /\ SignalTold(w)) \/ Breaks(w, k)
  PROVE  OutboxInv'
<1>1. /\ End(w, k)
      /\ UNCHANGED <<settled, notified, created, marker, alerts, clock, leads, seen, copies>>
      /\ ready' \subseteq ready \cup {w}
      /\ UNCHANGED faults \/ Fault
  BY DEF StartTold, SignalTold, Breaks, Initialized, tables, inbox
<1>2. /\ job' \in [Worker -> [Kind -> Job]]
      /\ JobsReached' /\ JobsAbout' /\ OneJob' /\ ToldByOneJob'
  BY <1>1, EndKeeps
<1>3. faults' \in 0 .. MaxFaults
  BY <1>1, NotificationsAssumption DEF Fault, OutboxInv, TypeOK
<1> QED BY <1>1, <1>2, <1>3 DEF OutboxInv, TypeOK, SentWasTold, MarkedWasReported

LEMMA CrashKeeps ==
  ASSUME OutboxInv, NEW w \in Worker, Crash(w)
  PROVE  OutboxInv'
<1>1. /\ UNCHANGED <<settled, notified, created, marker, alerts, clock, seen, copies>>
      /\ leads' \subseteq leads /\ ready' \subseteq ready /\ Fault
      /\ job' = [job EXCEPT ![w] = [k \in Kind |-> NoJob]]
  BY DEF Crash, tables, inbox
<1>2. NoJob \in Job /\ NoJob.about = {} /\ \A r \in Recipient : ~(r < NoJob.next)
  BY NotificationsAssumption DEF NoJob, Job, Recipient
<1>3. job \in [Worker -> [Kind -> Job]]
  BY DEF OutboxInv, TypeOK
<1>4. \A v \in Worker, k \in Kind : job'[v][k] = IF v = w THEN NoJob ELSE job[v][k]
  BY <1>1, <1>3
<1>5. job' \in [Worker -> [Kind -> Job]]
  BY <1>1, <1>2, <1>3
<1>6. JobsReached' /\ JobsAbout'
  BY <1>1, <1>2, <1>4 DEF OutboxInv, JobsReached, JobsAbout, Kind
<1>7. OneJob' /\ ToldByOneJob'
  BY <1>1, <1>2, <1>4 DEF OutboxInv, OneJob, Begun, ToldByOneJob
<1>8. faults' \in 0 .. MaxFaults
  BY <1>1, NotificationsAssumption DEF Fault, OutboxInv, TypeOK
<1> QED BY <1>1, <1>5, <1>6, <1>7, <1>8
       DEF OutboxInv, TypeOK, SentWasTold, MarkedWasReported

LEMMA OthersKeep ==
  ASSUME OutboxInv,
         \/ \E o \in Order : Settle(o)
         \/ Tick
         \/ \E w \in Worker : Lead(w) \/ Deposed(w)
  PROVE  OutboxInv'
<1>1. /\ UNCHANGED <<notified, created, marker, alerts, ready, job, seen, copies>>
      /\ settled \subseteq settled' /\ settled' \subseteq Order
      /\ clock' \in {"early", "due", "over"} /\ leads' \subseteq Worker
      /\ UNCHANGED faults \/ Fault
  BY DEF Settle, Tick, Lead, Deposed, tables, inbox, OutboxInv, TypeOK
<1>2. JobsReached' /\ JobsAbout' /\ OneJob' /\ ToldByOneJob'
  BY <1>1, QuietKeeps
<1>3. faults' \in 0 .. MaxFaults
  BY <1>1, NotificationsAssumption DEF Fault, OutboxInv, TypeOK
<1> QED BY <1>1, <1>2, <1>3 DEF OutboxInv, TypeOK, SentWasTold, MarkedWasReported

LEMMA NextOutbox == OutboxInv /\ [Next]_vars => OutboxInv'
<1> SUFFICES ASSUME OutboxInv, [Next]_vars PROVE OutboxInv'
  OBVIOUS
<1>1. CASE UNCHANGED vars
  <2>1. UNCHANGED <<settled, notified, created, marker, alerts, clock, leads, ready, job,
                    seen, copies, faults>>
    BY <1>1 DEF vars, tables, inbox
  <2>2. JobsReached' /\ JobsAbout' /\ OneJob' /\ ToldByOneJob'
    BY <2>1, QuietKeeps
  <2> QED BY <2>1, <2>2 DEF OutboxInv, TypeOK, SentWasTold, MarkedWasReported
<1>2. ASSUME NEW w \in Worker, NEW k \in Kind, Loop(w, k) \/ Breaks(w, k)
      PROVE  OutboxInv'
  <2>1. CASE k = "started" /\ (EnsurePortfolio(w) \/ StartTold(w))
    BY <1>2, <2>1, EnsurePortfolioKeeps, EndsKeep
  <2>2. CASE k = "summary" /\ (BeginSummary(w) \/ SummaryTold(w))
    BY <2>2, BeginSummaryKeeps, SummaryToldKeeps
  <2>3. CASE k = "report" /\ (BeginReport(w) \/ ReportTold(w))
    BY <2>3, BeginReportKeeps, ReportToldKeeps
  <2>4. CASE (k = "signal" /\ SignalTold(w)) \/ Breaks(w, k)
    BY <1>2, <2>4, EndsKeep
  <2>5. CASE Tell(w, k)
    BY <1>2, <2>5, TellKeeps
  <2> QED BY <1>2, <2>1, <2>2, <2>3, <2>4, <2>5 DEF Loop
<1>3. ASSUME NEW w \in Worker, NEW m \in Key, CreateAlphaSignal(w, m)
      PROVE  OutboxInv'
  BY <1>3, CreateAlphaSignalKeeps
<1>4. ASSUME NEW w \in Worker, Crash(w) PROVE OutboxInv'
  BY <1>4, CrashKeeps
<1> QED BY <1>1, <1>2, <1>3, <1>4, OthersKeep DEF Next

-----------------------------------------------------------------------------
(* Rows, leaders and messages underway have their types, and nothing is marked as
   sent that has not settled. *)
THEOREM OutboxTypeCorrect == Spec => []TypeOK
<1>1. OutboxInv => TypeOK
  BY DEF OutboxInv
<1> QED BY <1>1, InitOutbox, NextOutbox, PTL DEF Spec

(* An order is marked only when its summary has reached every recipient
   (paper_copy_summary_loop). *)
THEOREM SummariesAreTold == Spec => []SentWasTold
<1>1. OutboxInv => SentWasTold
  BY DEF OutboxInv
<1> QED BY <1>1, InitOutbox, NextOutbox, PTL DEF Spec

(* The marker of a day stands only when every recipient has its report
   (paper_copy_report_loop). *)
THEOREM ReportsAreTold == Spec => []MarkedWasReported
<1>1. OutboxInv => MarkedWasReported
  BY DEF OutboxInv
<1> QED BY <1>1, InitOutbox, NextOutbox, PTL DEF Spec

(* Whoever leads, and whatever fails or is scored again: a signal, and the start of
   the portfolio, reach nobody more often than one job makes attempts
   (create_alpha_signal, initialize_paper_copy). *)
THEOREM SignalsAreToldByOneJob == Spec => []ToldByOneJob
<1>1. OutboxInv => ToldByOneJob
  BY DEF OutboxInv
<1> QED BY <1>1, InitOutbox, NextOutbox, PTL DEF Spec
==================================================================================
