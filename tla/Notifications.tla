------------------------------ MODULE Notifications ------------------------------
(***************************************************************************)
(* What the worker tells its Telegram recipients, and what it remembers of *)
(* having told it: summaries of paper copy orders (notification_sent), the *)
(* report of a day (the marker paper-copy-report:<date>), alpha signals    *)
(* (the row of the alert), and the start of the portfolio (its row).       *)
(***************************************************************************)
EXTENDS Naturals, FiniteSets

CONSTANTS
  Worker,
  Recipients,  \* how many, told in this order; 0 when Telegram is disabled
  Orders,      \* the paper copy orders are 1 .. Orders
  Key,         \* dedupe keys of alpha signals
  Report, Started,
  Limit,       \* list_unsent: orders in a summary
  Attempts,    \* len(retry_delays_seconds) + 1
  MaxKinds,    \* bound: kinds of messages underway at once; they share no row
  MaxFaults    \* bound: attempts that fail, exceptions, crashes, leaders deposed

Recipient == 1 .. Recipients
Order == 1 .. Orders
Once == Key \cup {Started}
Kind == {"summary", "report", "signal", "started"}

ASSUME NotificationsAssumption ==
  /\ IsFiniteSet(Worker) /\ Recipients \in Nat /\ Orders \in Nat
  /\ Report \notin Order \cup Once /\ Started \notin Order \cup Key
  /\ Key \cap Order = {}
  /\ Limit \in Nat \ {0} /\ Attempts \in Nat \ {0}
  /\ MaxKinds \in Nat \ {0} /\ MaxFaults \in Nat

VARIABLES
  settled,   \* orders that are filled or skipped
  notified,  \* those with notification_sent
  created,   \* the portfolio has a row
  clock,     \* the date of the report: "early", "due", "over"
  marker,    \* the heartbeat row of the report
  alerts,    \* the keys with an alert
  leads,     \* the workers that take themselves for the leader
  ready,     \* those whose initialize_paper_copy is done
  job,       \* each worker's messages underway, one of a kind
  seen,      \* what each recipient was told
  copies,    \* and how often, of what is to be told once
  faults

tables == <<settled, notified, created, marker, alerts>>
inbox == <<seen, copies>>
vars == <<tables, clock, leads, ready, job, inbox, faults>>

NoJob == [about |-> {}, next |-> 0, all |-> TRUE]
Busy(w, k) == job[w][k] # NoJob
Fault == faults < MaxFaults /\ faults' = faults + 1

Init ==
  /\ settled = {} /\ notified = {} /\ created = FALSE
  /\ clock = "early" /\ marker = FALSE /\ alerts = {}
  /\ leads = {} /\ ready = {}
  /\ job = [w \in Worker |-> [k \in Kind |-> NoJob]]
  /\ seen = [r \in Recipient |-> {}]
  /\ copies = [r \in Recipient |-> [m \in Once |-> 0]]
  /\ faults = 0

-----------------------------------------------------------------------------
(* The rest of the system *)

Settle(o) ==
  /\ settled' = settled \cup {o}
  /\ UNCHANGED <<notified, created, marker, alerts, clock, leads, ready, job, inbox, faults>>

Tick ==
  /\ clock' = CASE clock = "early" -> "due" [] OTHER -> "over"
  /\ UNCHANGED <<tables, leads, ready, job, inbox, faults>>

(* A worker may take itself for the leader when another one does (LeaderElection). *)
Lead(w) ==
  /\ leads' = leads \cup {w}
  /\ UNCHANGED <<tables, clock, ready, job, inbox, faults>>

Deposed(w) ==
  /\ w \in leads /\ Fault
  /\ leads' = leads \ {w}
  /\ UNCHANGED <<tables, clock, ready, job, inbox>>

-----------------------------------------------------------------------------
(* TelegramNotifier.send_text *)

Underway == {k \in Kind : \E w \in Worker : Busy(w, k)}

Begin(w, k, about) ==
  /\ ~Busy(w, k) /\ Cardinality(Underway \cup {k}) <= MaxKinds
  /\ job' = [job EXCEPT ![w][k] = [about |-> about, next |-> 1, all |-> TRUE]]

End(w, k) == job' = [job EXCEPT ![w][k] = NoJob]

TellOn(w, k, good) ==    \* slip: one success is taken for all
  job' = [job EXCEPT ![w][k] = [@ EXCEPT !.next = @ + 1,
                                  !.all = IF job[w][k].next = 1 THEN good ELSE @ \/ good]]

TellNext(w, k, good) ==
  LET j == job[w][k]
  IN job' = [job EXCEPT ![w][k] =
               [about |-> j.about, next |-> j.next + 1, all |-> j.all /\ good]]

(* All the attempts for one recipient.  An attempt whose answer is lost may have
   delivered the message; an answer that is not ok ends them. *)
Tell(w, k) ==
  LET r == job[w][k].next IN
  \E arrived \in 0 .. Attempts, good \in BOOLEAN :
    /\ Busy(w, k) /\ r \in Recipient
    /\ good => arrived > 0
    /\ IF good /\ arrived = 1 THEN UNCHANGED faults ELSE Fault
    /\ IF arrived = 0 THEN UNCHANGED inbox
       ELSE /\ seen' = [seen EXCEPT ![r] = @ \cup job[w][k].about]
            /\ copies' = [copies EXCEPT ![r] =
                 [m \in Once |-> IF m \in job[w][k].about THEN @[m] + arrived ELSE @[m]]]
    /\ TellNext(w, k, good)
    /\ UNCHANGED <<tables, clock, leads, ready>>

Told(w, k) == Busy(w, k) /\ job[w][k].next > Recipients

-----------------------------------------------------------------------------
(* initialize_paper_copy *)

Initialized(w) == ready' = ready \cup {w}

(* ensure_portfolio commits the row before anybody is told. *)
EnsurePortfolio(w) ==
  /\ w \in leads \ ready /\ ~Busy(w, "started")
  /\ created' = TRUE
  /\ IF created
     THEN Initialized(w) /\ UNCHANGED job
     ELSE Begin(w, "started", {Started}) /\ UNCHANGED ready
  /\ UNCHANGED <<settled, notified, marker, alerts, clock, leads, inbox, faults>>

StartTold(w) ==
  /\ Told(w, "started")
  /\ Initialized(w) /\ End(w, "started")
  /\ UNCHANGED <<tables, clock, leads, inbox, faults>>

-----------------------------------------------------------------------------
(* paper_copy_summary_loop *)

Oldest(S) == {o \in S : Cardinality({p \in S : p < o}) < Limit}

UnsentOfAny == Oldest(Order \ notified)    \* slip: the pending ones are listed too

UnsentOfAll == Oldest(settled)    \* slip: the sent ones are listed too

Unsent == Oldest(settled \ notified)

(* A summary of nothing is sent, too, and changes nothing. *)
BeginSummary(w) ==
  /\ w \in leads \cap ready /\ Unsent # {}
  /\ Begin(w, "summary", Unsent)
  /\ UNCHANGED <<tables, clock, leads, ready, inbox, faults>>

MarkUnsent(w) == notified' = notified \cup Unsent    \* slip: lists them again

MarkNotificationsSent(w) == notified' = notified \cup job[w]["summary"].about

SummaryTold(w) ==
  /\ Told(w, "summary")
  /\ IF job[w]["summary"].all THEN MarkNotificationsSent(w) ELSE UNCHANGED notified
  /\ End(w, "summary")
  /\ UNCHANGED <<settled, created, marker, alerts, clock, leads, ready, inbox, faults>>

-----------------------------------------------------------------------------
(* paper_copy_report_loop *)

ReportDue == clock = "due"

BeginReport(w) ==
  /\ w \in leads \cap ready /\ ReportDue /\ ~marker
  /\ Begin(w, "report", {Report})
  /\ UNCHANGED <<tables, clock, leads, ready, inbox, faults>>

ReportTold(w) ==
  /\ Told(w, "report")
  /\ marker' = (marker \/ job[w]["report"].all)
  /\ End(w, "report")
  /\ UNCHANGED <<settled, notified, created, alerts, clock, leads, ready, inbox, faults>>

-----------------------------------------------------------------------------
(* Alpha signals *)

Insertable(k) == TRUE    \* slip: no unique key

Absent(k) == k \notin alerts    \* ON CONFLICT DO NOTHING

(* A trade that qualifies: the alert is committed, then published, and the
   notifier tells it in the loop that published it. *)
CreateAlphaSignal(w, k) ==
  /\ w \in leads /\ Absent(k)
  /\ alerts' = alerts \cup {k}
  /\ Begin(w, "signal", {k})
  /\ UNCHANGED <<settled, notified, created, marker, clock, leads, ready, inbox, faults>>

SignalTold(w) ==
  /\ Told(w, "signal")
  /\ End(w, "signal")
  /\ UNCHANGED <<tables, clock, leads, ready, inbox, faults>>

-----------------------------------------------------------------------------
(* An exception (of the database, mostly) ends what a loop is at; a crash or a
   shutdown ends all that a worker is at, and its next life initializes again. *)
Breaks(w, k) ==
  /\ Busy(w, k) /\ Fault
  /\ End(w, k)
  /\ UNCHANGED <<tables, clock, leads, ready, inbox>>

Crash(w) ==
  /\ Fault
  /\ job' = [job EXCEPT ![w] = [k \in Kind |-> NoJob]]
  /\ leads' = leads \ {w} /\ ready' = ready \ {w}
  /\ UNCHANGED <<tables, clock, inbox>>

(* The loop that tells messages of kind k. *)
Loop(w, k) ==
  \/ k = "started" /\ (EnsurePortfolio(w) \/ StartTold(w))
  \/ k = "summary" /\ (BeginSummary(w) \/ SummaryTold(w))
  \/ k = "report" /\ (BeginReport(w) \/ ReportTold(w))
  \/ k = "signal" /\ SignalTold(w)
  \/ Tell(w, k)

Next ==
  \/ \E o \in Order : Settle(o)
  \/ Tick
  \/ \E w \in Worker :
       \/ Lead(w) \/ Deposed(w) \/ Crash(w)
       \/ \E k \in Kind : Loop(w, k) \/ Breaks(w, k)
       \/ \E k \in Key : CreateAlphaSignal(w, k)

Spec == Init /\ [][Next]_vars

(* Some worker wins the election; a loop that may go on does. *)
FairSpec ==
  /\ Spec
  /\ WF_vars(leads = {} /\ \E w \in Worker : Lead(w))
  /\ \A w \in Worker, k \in Kind : WF_vars(Loop(w, k))

-----------------------------------------------------------------------------
(* Orders, markers, alerts and messages underway are what they should be. *)
Job == [about : SUBSET (Order \cup Once \cup {Report}), next : 0 .. Recipients + 1,
        all : BOOLEAN]

TypeOK ==
  /\ settled \subseteq Order /\ notified \subseteq settled
  /\ created \in BOOLEAN /\ marker \in BOOLEAN
  /\ clock \in {"early", "due", "over"} /\ alerts \subseteq Key
  /\ leads \subseteq Worker /\ ready \subseteq Worker
  /\ job \in [Worker -> [Kind -> Job]]
  /\ seen \in [Recipient -> SUBSET (Order \cup Once \cup {Report})]
  /\ copies \in [Recipient -> [Once -> Nat]]
  /\ faults \in 0 .. MaxFaults

(* An order that is marked as sent was told to every recipient, whoever sent its
   summary and whatever was settled while it was sent. *)
SentWasTold == \A r \in Recipient : notified \subseteq seen[r]

(* The marker of the day stands only when every recipient has the report. *)
MarkedWasReported == marker => \A r \in Recipient : Report \in seen[r]

(* A signal, and the start of the portfolio, are told by one job in their life:
   nobody gets more copies than one job makes attempts, through any number of
   workers, crashes and scores of the same trade. *)
ToldByOneJob ==
  \A r \in Recipient, m \in Once : copies[r][m] <= Attempts

(* Every settled order is marked in the end, whatever failed, in whatever order
   they settle and however few a summary holds. *)
OrdersAreTold == \A o \in Order : o \in settled ~> o \in notified
==================================================================================
