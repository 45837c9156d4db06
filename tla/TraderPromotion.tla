---------------------------- MODULE TraderPromotion ----------------------------
(***************************************************************************)
(* Which wallets are monitored.  Several loops of the worker promote a     *)
(* wallet whose score is high (TraderPromotionCollector), the main poll    *)
(* enables the sources of paper copies (CopySourceService), the operator   *)
(* adds, enables and disables monitors, and a command line tool            *)
(* (app/audit_trader_styles.py) judges them all again.  Each works in a    *)
(* database session of its own on the table wallet_monitors.               *)
(***************************************************************************)
EXTENDS Naturals, FiniteSets

CONSTANTS
  Wallet,
  Poll,        \* the loop of run(), which also reconciles the copy sources
  Discovery,   \* the other loops that promote: discovery and candidates
  Automatic,   \* the wallets whose candidate row may become automatic
  NoWallet,
  Max,         \* auto_promote_max_monitors
  MaxChanges,  \* bound: scores and styles that get worse, acts of operator and tool
  MaxFaults    \* bound: exceptions in a cycle

Loop == {Poll} \cup Discovery

ASSUME PromotionAssumption ==
  /\ IsFiniteSet(Wallet) /\ Automatic \subseteq Wallet /\ NoWallet \notin Wallet
  /\ IsFiniteSet(Discovery) /\ Poll \notin Discovery
  /\ Max \in Nat /\ MaxChanges \in Nat /\ MaxFaults \in Nat

VARIABLES
  monitor,   \* wallet_monitors: "none", "enabled" or "disabled"
  worthy,    \* those with a score of at least minimum_score and grade A or B
  patient,   \* those TraderStyleService finds eligible
  sources,   \* automatic candidates that passed probation
  auto,      \* history: monitors inserted by a promotion and untouched since
  pc,        \* each loop, at its awaits
  hand,      \* the wallet it is at
  seen,      \* the row as it was loaded
  adding,    \* the sources the poll has still to add
  held,      \* the enabled monitors the poll's session has loaded
  view,      \* what the tool loaded and has not come to: a set of <<w, state>>
  changes, faults

score == <<worthy, patient, sources>>
loops == <<pc, hand, seen, adding, held>>
bounds == <<changes, faults>>
vars == <<monitor, score, auto, loops, view, bounds>>

Enabled == {w \in Wallet : monitor[w] = "enabled"}

Home(p) == IF p = Poll THEN "polling" ELSE "idle"

Change == changes < MaxChanges /\ changes' = changes + 1

Init ==
  /\ monitor = [w \in Wallet |-> "none"]
  /\ worthy = {} /\ patient = Wallet /\ sources = {} /\ auto = {}
  /\ pc = [p \in Loop |-> "idle"]
  /\ hand = [p \in Loop |-> NoWallet] /\ seen = [p \in Loop |-> "none"]
  /\ adding = {} /\ held = {} /\ view = {}
  /\ changes = 0 /\ faults = 0

-----------------------------------------------------------------------------
(* Scores, styles and candidate rows *)

Toggle(S, w) == IF w \in S THEN S \ {w} ELSE S \cup {w}

(* Only what becomes worse is a change that is counted. *)
ScoreSaved(w) ==
  /\ worthy' = Toggle(worthy, w)
  /\ IF w \in worthy THEN Change ELSE UNCHANGED changes
  /\ UNCHANGED <<monitor, patient, sources, auto, loops, view, faults>>

StyleChanges(w) ==
  /\ Change /\ patient' = Toggle(patient, w)
  /\ UNCHANGED <<monitor, worthy, sources, auto, loops, view, faults>>

CandidateAudited(w) ==
  /\ w \in Automatic
  /\ sources' = Toggle(sources, w)
  /\ IF w \in sources THEN Change ELSE UNCHANGED changes
  /\ UNCHANGED <<monitor, worthy, patient, auto, loops, view, faults>>

-----------------------------------------------------------------------------
(* Rows *)

Step(p, at) == pc' = [pc EXCEPT ![p] = at]

DoneInHand(p, at) ==    \* slip: the wallet stays in hand
  Step(p, at) /\ UNCHANGED hand /\ seen' = [seen EXCEPT ![p] = "none"]

Done(p, at) ==
  /\ Step(p, at)
  /\ hand' = [hand EXCEPT ![p] = NoWallet] /\ seen' = [seen EXCEPT ![p] = "none"]

Enable(w) == monitor' = [monitor EXCEPT ![w] = "enabled"]

StoreNew(p) ==    \* slip: an existing monitor is not enabled
  /\ seen[p] = "none" => monitor[hand[p]] = "none"
  /\ IF seen[p] = "none" THEN Enable(hand[p]) ELSE UNCHANGED monitor

(* The commit of create_or_enable.  A row that was not there is inserted, which
   fails when another session has inserted it meanwhile; a row loaded as enabled
   is written without the column. *)
Store(p) ==
  /\ seen[p] = "none" => monitor[hand[p]] = "none"
  /\ IF seen[p] = "enabled" THEN UNCHANGED monitor ELSE Enable(hand[p])

-----------------------------------------------------------------------------
(* CopySourceService.reconcile, at the beginning of each poll *)

ListSources ==
  /\ pc[Poll] = "idle"
  /\ adding' = sources
  /\ Step(Poll, "adding")
  /\ UNCHANGED <<monitor, score, auto, hand, seen, held, view, bounds>>

AddSource(w) ==
  /\ pc[Poll] = "adding" /\ w \in adding
  /\ adding' = adding \ {w}
  /\ hand' = [hand EXCEPT ![Poll] = w] /\ seen' = [seen EXCEPT ![Poll] = monitor[w]]
  /\ Step(Poll, "sourcing")
  /\ UNCHANGED <<monitor, score, auto, held, view, bounds>>

SourceStored ==
  /\ pc[Poll] = "sourcing"
  /\ Store(Poll)
  /\ auto' = auto \ {hand[Poll]}
  /\ Done(Poll, "adding")
  /\ UNCHANGED <<score, adding, held, view, bounds>>

(* MonitorWorker.run_once loads the enabled monitors and keeps them. *)
BeginPolling ==
  /\ pc[Poll] = "adding" /\ adding = {}
  /\ held' = Enabled
  /\ Step(Poll, "polling")
  /\ UNCHANGED <<monitor, score, auto, hand, seen, adding, view, bounds>>

EndPolling ==
  /\ pc[Poll] = "polling"
  /\ held' = {}
  /\ Step(Poll, "idle")
  /\ UNCHANGED <<monitor, score, auto, hand, seen, adding, view, bounds>>

-----------------------------------------------------------------------------
(* TraderPromotionCollector *)

(* handle_score_updated, for a score that was just saved, and promote_address. *)
ScoreUpdated(p, w) ==
  /\ pc[p] = Home(p) /\ w \in worthy
  /\ hand' = [hand EXCEPT ![p] = w]
  /\ Step(p, "judging")
  /\ UNCHANGED <<monitor, score, auto, seen, adding, held, view, bounds>>

(* _has_holder_style *)
JudgedHasty(p) ==
  /\ pc[p] = "judging" /\ hand[p] \notin patient
  /\ Done(p, Home(p))
  /\ UNCHANGED <<monitor, score, auto, adding, held, view, bounds>>

JudgedPatient(p) ==
  /\ pc[p] = "judging" /\ hand[p] \in patient
  /\ Step(p, "finding")
  /\ UNCHANGED <<monitor, score, auto, hand, seen, adding, held, view, bounds>>

(* The monitor exists.  The session of the poll still has the rows it loaded, so
   there an enabled one stays enabled to it until its cycle ends. *)
FindEnabled(p) ==
  /\ pc[p] = "finding"
  /\ (p = Poll /\ hand[p] \in held) \/ monitor[hand[p]] = "enabled"
  /\ Done(p, Home(p))
  /\ UNCHANGED <<monitor, score, auto, adding, held, view, bounds>>

FindDisabled(p) ==
  /\ pc[p] = "finding"
  /\ ~(p = Poll /\ hand[p] \in held) /\ monitor[hand[p]] = "disabled"
  /\ Step(p, "enabling")
  /\ UNCHANGED <<monitor, score, auto, hand, seen, adding, held, view, bounds>>

FindNone(p) ==
  /\ pc[p] = "finding"
  /\ ~(p = Poll /\ hand[p] \in held) /\ monitor[hand[p]] = "none"
  /\ Step(p, "counting")
  /\ UNCHANGED <<monitor, score, auto, hand, seen, adding, held, view, bounds>>

PromotionLeaves(p) ==    \* slip: a wallet that has a monitor is left as it is
  /\ pc[p] = "enabling"
  /\ Done(p, Home(p))
  /\ UNCHANGED <<monitor, score, auto, adding, held, view, bounds>>

(* MonitorRepository.set_enabled of the row that was found *)
PromotionEnables(p) ==
  /\ pc[p] = "enabling"
  /\ Enable(hand[p])
  /\ Done(p, Home(p))
  /\ UNCHANGED <<score, auto, adding, held, view, bounds>>

HasRoomForAny == TRUE    \* slip: the maximum is not looked at
HasRoom == Cardinality(Enabled) < Max

CapacityReached(p) ==
  /\ pc[p] = "counting" /\ ~HasRoom
  /\ Done(p, Home(p))
  /\ UNCHANGED <<monitor, score, auto, adding, held, view, bounds>>

RoomFound(p) ==
  /\ pc[p] = "counting" /\ HasRoom
  /\ Step(p, "loading")
  /\ UNCHANGED <<monitor, score, auto, hand, seen, adding, held, view, bounds>>

(* MonitorService.add, which looks for the monitor again *)
LoadMonitor(p) ==
  /\ pc[p] = "loading"
  /\ seen' = [seen EXCEPT ![p] = monitor[hand[p]]]
  /\ Step(p, "storing")
  /\ UNCHANGED <<monitor, score, auto, hand, adding, held, view, bounds>>

Promoted(p) ==
  /\ pc[p] = "storing"
  /\ Store(p)
  /\ auto' = IF seen[p] = "none" THEN auto \cup {hand[p]} ELSE auto
  /\ Done(p, Home(p))
  /\ UNCHANGED <<score, adding, held, view, bounds>>

-----------------------------------------------------------------------------
(* Exceptions end the cycle, or leave the session of the poll to the next one. *)

CycleEnds(p) ==
  /\ Done(p, "idle")
  /\ IF p = Poll THEN adding' = {} /\ held' = {} ELSE UNCHANGED <<adding, held>>
  /\ UNCHANGED <<monitor, score, auto, view, changes>>

InsertCollides(p) ==
  /\ pc[p] \in {"sourcing", "storing"} /\ seen[p] = "none"
  /\ monitor[hand[p]] # "none"
  /\ CycleEnds(p) /\ UNCHANGED faults

CycleFails(p) ==
  /\ pc[p] # "idle"
  /\ faults < MaxFaults /\ faults' = faults + 1
  /\ CycleEnds(p)

-----------------------------------------------------------------------------
(* The operator and the tool *)

AddMonitor(w) ==
  /\ Change /\ Enable(w) /\ auto' = auto \ {w}
  /\ UNCHANGED <<score, loops, view, faults>>

SetEnabled(w) ==
  /\ Change /\ monitor[w] # "none"
  /\ \E s \in {"enabled", "disabled"} : monitor' = [monitor EXCEPT ![w] = s]
  /\ auto' = auto \ {w}
  /\ UNCHANGED <<score, loops, view, faults>>

AuditStyles ==
  /\ Change /\ view = {}
  /\ view' = {<<w, monitor[w]>> : w \in {v \in Wallet : monitor[v] # "none"}}
  /\ UNCHANGED <<monitor, score, auto, loops, faults>>

(* A row is written when what it was when it was loaded is not what it should be. *)
AuditMonitor ==
  \E v \in view :
    LET w == v[1]
        should == IF w \in worthy \cap patient THEN "enabled" ELSE "disabled"
    IN /\ view' = view \ {v}
       /\ monitor' = IF v[2] = should THEN monitor ELSE [monitor EXCEPT ![w] = should]
       /\ auto' = IF v[2] = should THEN auto ELSE auto \ {w}
       /\ UNCHANGED <<score, loops, bounds>>

-----------------------------------------------------------------------------

Promotion(p) ==
  \/ JudgedHasty(p) \/ JudgedPatient(p)
  \/ FindEnabled(p) \/ FindDisabled(p) \/ FindNone(p)
  \/ PromotionEnables(p) \/ CapacityReached(p) \/ RoomFound(p)
  \/ LoadMonitor(p) \/ Promoted(p) \/ InsertCollides(p)

Reconcile ==
  \/ ListSources \/ SourceStored \/ BeginPolling
  \/ \E w \in Wallet : AddSource(w)

Environment ==
  \/ \E w \in Wallet :
       \/ ScoreSaved(w) \/ StyleChanges(w) \/ CandidateAudited(w)
       \/ AddMonitor(w) \/ SetEnabled(w)
  \/ AuditStyles \/ AuditMonitor

Next ==
  \/ Environment \/ Reconcile \/ EndPolling
  \/ \E p \in Loop :
       \/ Promotion(p) \/ CycleFails(p)
       \/ \E w \in Wallet : ScoreUpdated(p, w)

Spec == Init /\ [][Next]_vars

(* The loops go on, a poll ends at last, and so does the tool.  Nothing is
   assumed of when scores are updated. *)
FairSpec ==
  /\ Spec
  /\ WF_vars(Reconcile) /\ SF_vars(EndPolling) /\ WF_vars(AuditMonitor)
  /\ \A p \in Loop : WF_vars(Promotion(p))

-----------------------------------------------------------------------------
(* Properties *)

TypeOK ==
  /\ monitor \in [Wallet -> {"none", "enabled", "disabled"}]
  /\ worthy \subseteq Wallet /\ patient \subseteq Wallet
  /\ sources \subseteq Automatic /\ auto \subseteq Enabled
  /\ pc \in [Loop -> {"idle", "adding", "sourcing", "polling", "judging", "finding",
                      "enabling", "counting", "loading", "storing"}]
  /\ hand \in [Loop -> Wallet \cup {NoWallet}]
  /\ \A p \in Loop : hand[p] = NoWallet <=> pc[p] \in {"idle", "adding", "polling"}
  /\ seen \in [Loop -> {"none", "enabled", "disabled"}]
  /\ adding \subseteq Automatic /\ held \subseteq Wallet
  /\ view \subseteq Wallet \X {"enabled", "disabled"}
  /\ changes \in 0 .. MaxChanges /\ faults \in 0 .. MaxFaults

(* Each loop counts the enabled monitors and inserts one some awaits later, in a
   session of its own, so the maximum can be passed: but never by more than the
   number of the other loops (_promote). *)
OverrunBounded == Cardinality(auto) <= Max + Cardinality(Loop) - 1

(* However often the operator, the tool or a failed cycle come between, a wallet
   that stays a copy source ends up monitored for good (CopySourceService.reconcile
   adds it again at every poll). *)
SourcesAreMonitored ==
  \A w \in Automatic : <>[](w \in sources) => <>[](w \in Enabled)

(* A wallet that stays worthy and patient and whose score is updated again and
   again is found monitored, or the monitors are found at their maximum, again and
   again: no stale row and no failed insert keeps it out for ever. *)
WorthyAreMonitored ==
  \A w \in Wallet :
    /\ <>[](w \in worthy \cap patient)
    /\ []<><<\E p \in Loop : ScoreUpdated(p, w)>>_vars
    => []<>(w \in Enabled \/ ~HasRoom)
=============================================================================
