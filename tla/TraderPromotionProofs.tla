------------------------- MODULE TraderPromotionProofs -------------------------
(***************************************************************************)
(* By how much the promotions can pass the maximum of monitors, for any    *)
(* number of wallets and loops.                                            *)
(***************************************************************************)
EXTENDS TraderPromotion, FiniteSetTheorems, TLAPS

(* The loops that found room and have not inserted their wallet yet. *)
Promoting == {p \in Loop : pc[p] \in {"loading", "storing"}}

RoomLeft ==
  Cardinality(auto) + Cardinality(Promoting) <= Max + Cardinality(Loop) - 1

PromotionInv == TypeOK /\ RoomLeft

LEMMA SetsAreFinite ==
  ASSUME TypeOK
  PROVE  /\ IsFiniteSet(Loop) /\ Cardinality(Loop) \in Nat \ {0}
         /\ IsFiniteSet(Enabled) /\ Cardinality(Enabled) \in Nat
         /\ IsFiniteSet(auto) /\ Cardinality(auto) \in Nat
         /\ IsFiniteSet(Promoting) /\ Cardinality(Promoting) \in Nat
         /\ Cardinality(Promoting) <= Cardinality(Loop)
         /\ Cardinality(auto) <= Cardinality(Enabled)
<1>1. IsFiniteSet(Loop) /\ Cardinality(Loop) = Cardinality(Discovery) + 1
  <2>1. Loop = Discovery \cup {Poll}
    BY DEF Loop
  <2> QED BY <2>1, FS_AddElement, PromotionAssumption
<1>2. Cardinality(Discovery) \in Nat
  BY FS_CardinalityType, PromotionAssumption
<1>3. Enabled \subseteq Wallet /\ Promoting \subseteq Loop /\ auto \subseteq Enabled
  BY DEF Enabled, Promoting, TypeOK
<1>4. IsFiniteSet(Enabled)
  BY <1>3, FS_Subset, PromotionAssumption
<1>5. /\ IsFiniteSet(auto) /\ Cardinality(auto) <= Cardinality(Enabled)
      /\ IsFiniteSet(Promoting) /\ Cardinality(Promoting) <= Cardinality(Loop)
  BY <1>1, <1>3, <1>4, FS_Subset
<1> QED BY <1>1, <1>2, <1>4, <1>5, FS_CardinalityType

(* A step that neither promotes nor finds room. *)
LEMMA RoomKept ==
  ASSUME PromotionInv, TypeOK', auto' \subseteq auto, Promoting' \subseteq Promoting
  PROVE  RoomLeft'
<1>1. /\ Cardinality(auto') <= Cardinality(auto) /\ Cardinality(auto') \in Nat
      /\ Cardinality(Promoting') <= Cardinality(Promoting)
      /\ Cardinality(Promoting') \in Nat
  BY SetsAreFinite, FS_Subset, FS_CardinalityType DEF PromotionInv
<1> QED BY <1>1, SetsAreFinite, PromotionAssumption DEF PromotionInv, RoomLeft

LEMMA InitPromotes == Init => PromotionInv
<1> SUFFICES ASSUME Init PROVE PromotionInv
  OBVIOUS
<1>1. TypeOK
  BY PromotionAssumption DEF Init, TypeOK, Enabled
<1>2. auto = {} /\ Promoting = {}
  BY DEF Init, Promoting
<1> QED BY <1>1, <1>2, FS_EmptySet, SetsAreFinite, PromotionAssumption
        DEF PromotionInv, RoomLeft

-----------------------------------------------------------------------------
(* Types *)

States == {"none", "enabled", "disabled"}

(* What a step that enables the wallet of a loop leaves of the types. *)
LEMMA StoreTypes ==
  ASSUME TypeOK, NEW p \in Loop, hand[p] \in Wallet, Store(p)
  PROVE  /\ monitor' \in [Wallet -> States] /\ Enabled \subseteq Enabled'
         /\ seen[p] = "none" => hand[p] \in Enabled'
BY DEF TypeOK, Store, Enable, Enabled, States

LEMMA EnvironmentTypes ==
  ASSUME TypeOK, Environment
  PROVE  TypeOK'
<1>1. ASSUME NEW w \in Wallet, ScoreSaved(w) \/ StyleChanges(w) \/ CandidateAudited(w)
      PROVE  TypeOK'
  BY <1>1, PromotionAssumption DEF TypeOK, ScoreSaved, StyleChanges, CandidateAudited,
     Toggle, Change, loops, Enabled
<1>2. ASSUME NEW w \in Wallet, AddMonitor(w) \/ SetEnabled(w)
      PROVE  TypeOK'
  BY <1>2, PromotionAssumption DEF TypeOK, AddMonitor, SetEnabled, Enable, Change,
     loops, score, Enabled
<1>3. ASSUME AuditStyles PROVE TypeOK'
  BY <1>3, PromotionAssumption DEF TypeOK, AuditStyles, Change, loops, score, Enabled
<1>4. ASSUME AuditMonitor PROVE TypeOK'
  BY <1>4 DEF TypeOK, AuditMonitor, loops, score, bounds, Enabled
<1> QED BY <1>1, <1>2, <1>3, <1>4 DEF Environment

LEMMA ReconcileTypes ==
  ASSUME TypeOK, Reconcile \/ EndPolling
  PROVE  TypeOK'
<1> USE DEF TypeOK, score, bounds, Step
<1>1. Poll \in Loop
  BY DEF Loop
<1>2. CASE ListSources
  BY <1>1, <1>2 DEF ListSources, Enabled
<1>3. CASE SourceStored
  BY <1>1, <1>3, StoreTypes DEF SourceStored, Done, States
<1>4. CASE BeginPolling
  BY <1>1, <1>4 DEF BeginPolling, Enabled
<1>5. CASE EndPolling
  BY <1>1, <1>5 DEF EndPolling, Enabled
<1>6. ASSUME NEW w \in Wallet, AddSource(w) PROVE TypeOK'
  BY <1>1, <1>6, PromotionAssumption DEF AddSource, Enabled
<1> QED BY <1>2, <1>3, <1>4, <1>5, <1>6 DEF Reconcile

LEMMA CycleEndTypes ==
  ASSUME TypeOK, NEW p \in Loop, InsertCollides(p) \/ CycleFails(p)
  PROVE  TypeOK'
BY PromotionAssumption DEF TypeOK, score, InsertCollides, CycleFails, CycleEnds, Done,
   Step, Enabled

LEMMA PromotionTypes ==
  ASSUME TypeOK, NEW p \in Loop, Promotion(p)
  PROVE  TypeOK'
<1> USE DEF TypeOK, score, bounds, Step, Done, Home
<1>1. CASE JudgedHasty(p)
  BY <1>1 DEF JudgedHasty, Enabled
<1>2. CASE JudgedPatient(p)
  BY <1>2 DEF JudgedPatient, Enabled
<1>3. CASE FindEnabled(p)
  BY <1>3 DEF FindEnabled, Enabled
<1>4. CASE FindDisabled(p)
  BY <1>4 DEF FindDisabled, Enabled
<1>5. CASE FindNone(p)
  BY <1>5 DEF FindNone, Enabled
<1>6. CASE PromotionEnables(p)
  BY <1>6 DEF PromotionEnables, Enable, Enabled
<1>7. CASE CapacityReached(p)
  BY <1>7 DEF CapacityReached, Enabled
<1>8. CASE RoomFound(p)
  BY <1>8 DEF RoomFound, Enabled
<1>9. CASE LoadMonitor(p)
  BY <1>9 DEF LoadMonitor, Enabled
<1>10. CASE Promoted(p)
  BY <1>10, StoreTypes DEF Promoted, States
<1>11. CASE InsertCollides(p)
  BY <1>11, CycleEndTypes
<1> QED BY <1>1, <1>2, <1>3, <1>4, <1>5, <1>6, <1>7, <1>8, <1>9, <1>10, <1>11
        DEF Promotion

LEMMA NextTypes ==
  ASSUME TypeOK, [Next]_vars
  PROVE  TypeOK'
<1>1. ASSUME NEW p \in Loop, NEW w \in Wallet, ScoreUpdated(p, w) PROVE TypeOK'
  BY <1>1, PromotionAssumption DEF TypeOK, ScoreUpdated, Step, Home, score, bounds, Enabled
<1>2. CASE UNCHANGED vars
  BY <1>2 DEF TypeOK, vars, score, loops, bounds, Enabled
<1> QED BY <1>1, <1>2, EnvironmentTypes, ReconcileTypes, CycleEndTypes, PromotionTypes
        DEF Next

-----------------------------------------------------------------------------
(* Room *)

LEMMA RoomFoundBounded ==
  ASSUME PromotionInv, TypeOK', NEW p \in Loop, RoomFound(p)
  PROVE  RoomLeft'
<1>1. auto' = auto /\ Cardinality(Enabled) < Max
  BY DEF RoomFound, HasRoom
<1>2. Cardinality(Promoting') <= Cardinality(Loop) /\ Cardinality(Promoting') \in Nat
  <2>1. Promoting' \subseteq Loop
    BY DEF Promoting
  <2> QED BY <2>1, SetsAreFinite, FS_Subset, FS_CardinalityType DEF PromotionInv
<1> QED BY <1>1, <1>2, SetsAreFinite, PromotionAssumption DEF PromotionInv, RoomLeft

LEMMA PromotedBounded ==
  ASSUME PromotionInv, TypeOK', NEW p \in Loop, Promoted(p)
  PROVE  RoomLeft'
<1>1. p \in Promoting /\ Promoting' = Promoting \ {p}
  BY DEF Promoted, Done, Step, Home, Promoting, PromotionInv, TypeOK
<1>2. Cardinality(Promoting') = Cardinality(Promoting) - 1
  BY <1>1, FS_RemoveElement, SetsAreFinite DEF PromotionInv
<1>3. Cardinality(auto') \in Nat /\ Cardinality(auto') <= Cardinality(auto) + 1
  <2>1. auto' = auto \/ auto' = auto \cup {hand[p]}
    BY DEF Promoted
  <2>2. IsFiniteSet(auto) /\ Cardinality(auto) \in Nat
    BY SetsAreFinite DEF PromotionInv
  <2>3. /\ Cardinality(auto \cup {hand[p]}) \in Nat
        /\ Cardinality(auto \cup {hand[p]}) <= Cardinality(auto) + 1
    <3>1. /\ IsFiniteSet(auto \cup {hand[p]})
          /\ \/ Cardinality(auto \cup {hand[p]}) = Cardinality(auto)
             \/ Cardinality(auto \cup {hand[p]}) = Cardinality(auto) + 1
      BY <2>2, FS_AddElement, Zenon
    <3>2. Cardinality(auto \cup {hand[p]}) \in Nat
      BY <3>1, FS_CardinalityType, Zenon
    <3> QED BY <2>2, <3>1, <3>2
  <2>4. CASE auto' = auto
    <3>1. Cardinality(auto') = Cardinality(auto)
      BY <2>4, Zenon
    <3> QED BY <2>2, <3>1
  <2>5. CASE auto' = auto \cup {hand[p]}
    <3>1. Cardinality(auto') = Cardinality(auto \cup {hand[p]})
      BY <2>5, Zenon
    <3> QED BY <2>3, <3>1
  <2> QED BY <2>1, <2>4, <2>5
<1> QED BY <1>2, <1>3, SetsAreFinite, PromotionAssumption DEF PromotionInv, RoomLeft

(* Every other step leaves the promoted monitors and the promoting loops, or
   fewer of them. *)
LEMMA OthersKeepRoom ==
  ASSUME PromotionInv, TypeOK', [Next]_vars,
         \A p \in Loop : ~RoomFound(p) /\ ~Promoted(p)
  PROVE  RoomLeft'
<1>1. ASSUME Environment PROVE auto' \subseteq auto /\ Promoting' = Promoting
  <2>1. ASSUME NEW w \in Wallet,
               \/ ScoreSaved(w) \/ StyleChanges(w) \/ CandidateAudited(w)
               \/ AddMonitor(w) \/ SetEnabled(w)
        PROVE  auto' \subseteq auto /\ pc' = pc
    BY <2>1 DEF ScoreSaved, StyleChanges, CandidateAudited, AddMonitor, SetEnabled, loops
  <2>2. ASSUME AuditStyles \/ AuditMonitor PROVE auto' \subseteq auto /\ pc' = pc
    BY <2>2 DEF AuditStyles, AuditMonitor, loops
  <2> QED BY <1>1, <2>1, <2>2 DEF Environment, Promoting
<1>2. ASSUME Reconcile \/ EndPolling
      PROVE  auto' \subseteq auto /\ Promoting' = Promoting
  BY <1>2 DEF Reconcile, EndPolling, ListSources, AddSource, SourceStored, BeginPolling,
     Done, Step, Promoting, PromotionInv, TypeOK, Loop
<1>3. ASSUME NEW p \in Loop, InsertCollides(p) \/ CycleFails(p)
      PROVE  auto' = auto /\ Promoting' \subseteq Promoting
  BY <1>3 DEF InsertCollides, CycleFails, CycleEnds, Done, Step, Promoting, PromotionInv,
     TypeOK
<1>4. ASSUME NEW p \in Loop, Promotion(p) PROVE auto' = auto /\ Promoting' \subseteq Promoting
  <2>1. CASE InsertCollides(p)
    BY <2>1, <1>3
  <2>2. CASE LoadMonitor(p)
    BY <2>2 DEF LoadMonitor, Step, Promoting, PromotionInv, TypeOK
  <2>3. CASE \/ JudgedHasty(p) \/ JudgedPatient(p) \/ FindEnabled(p) \/ FindDisabled(p)
             \/ FindNone(p) \/ PromotionEnables(p) \/ CapacityReached(p)
    BY <2>3 DEF JudgedHasty, JudgedPatient, FindEnabled, FindDisabled, FindNone,
       PromotionEnables, CapacityReached, Done, Step, Home, Promoting, PromotionInv, TypeOK
  <2> QED BY <1>4, <2>1, <2>2, <2>3 DEF Promotion
<1>5. ASSUME NEW p \in Loop, NEW w \in Wallet, ScoreUpdated(p, w)
      PROVE  auto' = auto /\ Promoting' \subseteq Promoting
  BY <1>5 DEF ScoreUpdated, Step, Home, Promoting, PromotionInv, TypeOK
<1>6. CASE UNCHANGED vars
  BY <1>6, RoomKept DEF vars, loops, Promoting
<1> QED BY <1>1, <1>2, <1>3, <1>4, <1>5, <1>6, RoomKept DEF Next

LEMMA NextPromotes == PromotionInv /\ [Next]_vars => PromotionInv'
<1> SUFFICES ASSUME PromotionInv, [Next]_vars PROVE PromotionInv'
  OBVIOUS
<1>1. TypeOK'
  BY NextTypes DEF PromotionInv
<1>2. RoomLeft'
  BY <1>1, RoomFoundBounded, PromotedBounded, OthersKeepRoom
<1> QED BY <1>1, <1>2 DEF PromotionInv

(* The rows, the loops and the tool are what TypeOK says, whatever interleaves
   (MonitorRepository, TraderPromotionCollector, CopySourceService). *)
THEOREM PromotionTypeCorrect == Spec => []TypeOK
<1>1. PromotionInv => TypeOK
  BY DEF PromotionInv
<1> QED BY <1>1, InitPromotes, NextPromotes, PTL DEF Spec

(* The monitors inserted by promotions pass the maximum by less than the number
   of the loops that promote (TraderPromotionCollector._promote). *)
THEOREM PromotionsBounded == Spec => []OverrunBounded
<1>1. PromotionInv => OverrunBounded
  <2> SUFFICES ASSUME PromotionInv PROVE OverrunBounded
    OBVIOUS
  <2> QED BY SetsAreFinite, PromotionAssumption DEF PromotionInv, RoomLeft, OverrunBounded
<1> QED BY <1>1, InitPromotes, NextPromotes, PTL DEF Spec
=============================================================================
