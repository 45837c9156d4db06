-------------------------- MODULE DexDiscoveryProofs --------------------------
(***************************************************************************)
(* That the discovery misses nothing it has sampled, scores what it has    *)
(* published, and keeps the failure of one program apart, for any number   *)
(* of programs, wallets, transactions and faults.                          *)
(***************************************************************************)
EXTENDS DexDiscovery, SequenceTheorems, FiniteSetTheorems, TLAPS

SwapType == [wallet : Wallet, token : Token]
Answer == {<<"no">>, <<"found">>, <<"missing">>} \cup ({"trades"} \X SUBSET Tx)

ChainOK ==
  /\ chain \in [Program -> Seq(SwapType)]
  /\ \A p \in Program : Height(p) <= MaxTx

TablesOK ==
  /\ rows \subseteq Wallet \cup Token \cup OnChain
  /\ scores \in [Wallet -> SUBSET Tx]
  /\ \A w \in Wallet : \A t \in scores[w] :
       t \in rows /\ t \in OnChain /\ Swap(t).wallet = w
  /\ published \subseteq rows \cap OnChain

SessionsOK ==
  /\ tx \in [Session -> OnChain \cup {NoTx}] /\ at \in [Session -> 1 .. 5]
  /\ got \in [Session -> Answer]
  /\ tx[Peer] # NoTx => Swap(tx[Peer]).wallet \in Monitored

(* What a session has read of the trades of a wallet is what has been stored, the
   trade in hand and what it has published itself included. *)
Collected(s) ==
  LET w == Swap(tx[s]).wallet
  IN /\ tx[s] # NoTx /\ at[s] = 4 /\ tx[s] \in got[s][2]
     /\ \A t \in got[s][2] : t \in rows /\ t \in OnChain /\ Swap(t).wallet = w
     /\ w \notin Monitored =>
          \A t \in published : Swap(t).wallet = w => t \in got[s][2]

(* How far a session has come with the transaction it has in hand. *)
InHand(s) ==
  /\ tx[s] = NoTx => at[s] = 1 /\ got[s] = <<"no">>
  /\ tx[s] # NoTx /\ at[s] >= 4 => tx[s] \in rows
  /\ got[s] = <<"found">> => at[s] <= 3 /\ Item(s)[2] \in rows
  /\ got[s] = <<"missing">> => at[s] <= 3
  /\ got[s][1] = "trades" => Collected(s)
  /\ tx[s] # NoTx /\ at[s] = 5 /\ Swap(tx[s]).wallet \notin Monitored
       => tx[s] \in scores[Swap(tx[s]).wallet]

PipelineOK ==
  /\ ChainOK /\ TablesOK /\ SessionsOK
  /\ \A s \in Session : InHand(s)
  /\ PublishedIsScored

SamplesOK ==
  /\ cursor \in [Program -> Nat] /\ \A p \in Program : cursor[p] <= Height(p)
  /\ sampled \subseteq OnChain /\ lost \subseteq sampled
  /\ SampledIsPublished

(* What was sampled up to the newest transaction of the scan in hand is handled,
   or in hand, or still to come. *)
ScanOK ==
  /\ pc \in {"idle", "cycle", "scan"}
  /\ tx[Discovery] # NoTx => pc = "scan" /\ tx[Discovery][1] = Head(left)
  /\ todo \in Seq(Tx) /\ newest \in Nat
  /\ pc = "scan" =>
       /\ left # <<>> /\ newest <= Height(Head(left))
       /\ \A i \in DOMAIN todo : todo[i] \in sampled /\ todo[i][1] = Head(left)
       /\ \A t \in sampled :
            t[1] = Head(left) /\ t[2] <= newest =>
              \/ t \in published \cup lost \/ t = tx[Discovery]
              \/ \E i \in DOMAIN todo : todo[i] = t

(* What is left of a cycle is the rest of the configured programs. *)
CycleOK ==
  /\ left \in Seq(Program) /\ Len(left) <= Len(Programs)
  /\ \A i \in 1 .. Len(left) : left[i] = Programs[Len(Programs) - Len(left) + i]
  /\ broken \in BOOLEAN /\ faults \in 0 .. MaxFaults

DexInv == PipelineOK /\ SamplesOK /\ ScanOK /\ CycleOK

-----------------------------------------------------------------------------
(* The chain *)

LEMMA SwapTyped ==
  ASSUME ChainOK, NEW t \in OnChain
  PROVE  /\ t \in Tx /\ t[1] \in Program /\ t[2] \in 1 .. Height(t[1])
         /\ t = <<t[1], t[2]>>
         /\ Swap(t) \in SwapType /\ Swap(t).wallet \in Wallet /\ Swap(t).token \in Token
<1>1. t \in Tx /\ t[1] \in Program /\ t[2] \in 1 .. MaxTx /\ t[2] <= Height(t[1])
      /\ t = <<t[1], t[2]>>
  BY DEF OnChain, Tx
<1>2. chain[t[1]] \in Seq(SwapType)
  BY <1>1 DEF ChainOK
<1>3. t[2] \in 1 .. Height(t[1])
  BY <1>1, <1>2, DiscoveryAssumption DEF Height
<1>4. Swap(t) \in SwapType
  BY <1>1, <1>2, <1>3 DEF Swap, Height
<1> QED BY <1>1, <1>3, <1>4 DEF SwapType

LEMMA ProgramsFinite == IsFiniteSet(Program)
<1>1. Programs \in Seq(Program) /\ Len(Programs) \in Nat
  BY DiscoveryAssumption
<1>2. IsFiniteSet(1 .. Len(Programs))
  BY <1>1, FS_Interval
<1>3. Programs \in Surjection(1 .. Len(Programs), Program)
  BY <1>1 DEF Program, Surjection
<1> QED BY <1>2, <1>3, FS_Surjection

LEMMA ChainIsFinite == IsFiniteSet(OnChain)
<1>1. IsFiniteSet(1 .. MaxTx)
  BY DiscoveryAssumption, FS_Interval
<1>2. IsFiniteSet(Tx)
  BY <1>1, ProgramsFinite, FS_Product DEF Tx
<1> QED BY <1>2, FS_Subset DEF OnChain

(* There is room for a transaction of any program while the chain is not full. *)
LEMMA RoomOnChain ==
  ASSUME ChainOK, Cardinality(OnChain) < MaxTx, NEW p \in Program
  PROVE  Height(p) < MaxTx
<1>h. Height(p) \in Nat
  BY DEF ChainOK, Height
<1> SUFFICES ASSUME Height(p) >= MaxTx PROVE FALSE
  BY <1>h, DiscoveryAssumption
<1> DEFINE full == {p} \X (1 .. MaxTx)
<1>1. full \subseteq OnChain
  BY DiscoveryAssumption DEF ChainOK, Height, OnChain, Tx
<1>2. IsFiniteSet(1 .. MaxTx) /\ Cardinality(1 .. MaxTx) = MaxTx
  BY DiscoveryAssumption, FS_Interval
<1>3. IsFiniteSet({p}) /\ Cardinality({p}) = 1
  BY FS_Singleton
<1>4. Cardinality(full) = 1 * MaxTx
  BY <1>2, <1>3, FS_Product
<1>5. Cardinality(full) <= Cardinality(OnChain) /\ Cardinality(OnChain) \in Nat
  BY <1>1, ChainIsFinite, FS_Subset, FS_CardinalityType
<1> QED BY <1>4, <1>5, DiscoveryAssumption

LEMMA ChainGrows ==
  ASSUME ChainOK, NEW p \in Program, NewTransaction(p)
  PROVE  /\ ChainOK'
         /\ \A q \in Program : Height(q) <= Height(q)' /\ Height(q) \in Nat
         /\ \A t \in OnChain : t \in OnChain' /\ Swap(t)' = Swap(t)
<1>1. PICK w \in Wallet, k \in Token :
        chain' = [chain EXCEPT ![p] = Append(@, [wallet |-> w, token |-> k])]
  BY DEF NewTransaction
<1> DEFINE e == [wallet |-> w, token |-> k]
<1>2. e \in SwapType /\ chain[p] \in Seq(SwapType) /\ Height(p) < MaxTx
  BY RoomOnChain DEF SwapType, ChainOK, NewTransaction
<1> HIDE DEF e
<1>3. /\ chain'[p] = Append(chain[p], e) /\ chain'[p] \in Seq(SwapType)
      /\ Len(chain'[p]) = Len(chain[p]) + 1 /\ Len(chain[p]) \in Nat
      /\ \A i \in 1 .. Len(chain[p]) : chain'[p][i] = chain[p][i]
  BY <1>1, <1>2 DEF ChainOK, e
<1>4. \A q \in Program : q # p => chain'[q] = chain[q]
  BY <1>1 DEF ChainOK
<1>5. ChainOK'
  <2>1. chain' \in [Program -> Seq(SwapType)]
    <3>1. chain' = [chain EXCEPT ![p] = Append(chain[p], e)]
      BY <1>1 DEF e
    <3>2. Append(chain[p], e) \in Seq(SwapType)
      BY <1>2
    <3> QED BY <3>1, <3>2 DEF ChainOK
  <2>2. ASSUME NEW q \in Program PROVE Len(chain'[q]) <= MaxTx
    <3>1. CASE q = p
      BY <1>2, <1>3, <3>1, DiscoveryAssumption DEF Height
    <3>2. CASE q # p
      BY <1>4, <3>2 DEF ChainOK, Height
    <3> QED BY <3>1, <3>2
  <2> QED BY <2>1, <2>2 DEF ChainOK, Height
<1>6. \A q \in Program : Height(q) <= Height(q)' /\ Height(q) \in Nat
  BY <1>3, <1>4 DEF ChainOK, Height
<1>7. ASSUME NEW t \in OnChain PROVE t \in OnChain' /\ Swap(t)' = Swap(t)
  <2>1. t \in Tx /\ t[1] \in Program /\ t[2] \in 1 .. Len(chain[t[1]])
    BY SwapTyped DEF Height
  <2>2. t[2] <= Len(chain'[t[1]])
    BY <1>6, <2>1 DEF Height
  <2>3. chain'[t[1]][t[2]] = chain[t[1]][t[2]]
    BY <1>3, <1>4, <2>1
  <2> QED BY <2>1, <2>2, <2>3 DEF OnChain, Swap, Height
<1> QED BY <1>5, <1>6, <1>7

LEMMA ChainKept ==
  ASSUME UNCHANGED chain
  PROVE  /\ OnChain' = OnChain /\ \A t \in OnChain : Swap(t)' = Swap(t)
         /\ ChainOK => ChainOK'
         /\ \A q \in Program : Height(q)' = Height(q)
BY DEF OnChain, Height, Swap, ChainOK

-----------------------------------------------------------------------------
(* The handling of a swap *)

LEMMA Items ==
  ASSUME NEW s \in Session
  PROVE  /\ at[s] = 1 => Item(s) = <<"row", Swap(tx[s]).token>>
         /\ at[s] = 2 => Item(s) = <<"row", Swap(tx[s]).wallet>>
         /\ at[s] = 3 => Item(s) = <<"row", tx[s]>>
         /\ at[s] = 4 => Item(s) = <<"score", Swap(tx[s]).wallet>>
BY DEF Item, Plan

LEMMA SessionFacts ==
  ASSUME PipelineOK, NEW s \in Session
  PROVE  /\ at[s] \in 1 .. 5 /\ got[s] \in Answer /\ InHand(s)
         /\ tx[s] # NoTx => /\ tx[s] \in OnChain
                            /\ Swap(tx[s]).wallet \in Wallet
                            /\ Swap(tx[s]).token \in Token
         /\ tx[s] # NoTx /\ Swap(tx[s]).wallet \notin Monitored => s = Discovery
BY SwapTyped DEF PipelineOK, SessionsOK, Session

(* A session that is not touched keeps what it knows while the rows and the scores
   of the wallets it alone handles only grow. *)
LEMMA OtherSession ==
  ASSUME PipelineOK, NEW s \in Session,
         \A t \in OnChain : t \in OnChain' /\ Swap(t)' = Swap(t),
         tx'[s] = tx[s], at'[s] = at[s], got'[s] = got[s], rows \subseteq rows',
         s = Discovery =>
           /\ \A t \in published' :
                t \in published \/ (t \in OnChain /\ Swap(t).wallet \in Monitored)
           /\ \A w \in Wallet \ Monitored : scores[w] \subseteq scores'[w]
  PROVE  InHand(s)'
<1>1. /\ at[s] \in 1 .. 5 /\ got[s] \in Answer /\ InHand(s)
      /\ tx[s] # NoTx => tx[s] \in OnChain /\ Swap(tx[s]).wallet \in Wallet
      /\ tx[s] # NoTx /\ Swap(tx[s]).wallet \notin Monitored => s = Discovery
  BY SessionFacts
<1>2. tx[s] # NoTx =>
        /\ Swap(tx[s])' = Swap(tx[s])
        /\ at[s] \in 1 .. 4 => Item(s)' = Item(s)
  <2> SUFFICES ASSUME tx[s] # NoTx
               PROVE  Swap(tx[s])' = Swap(tx[s]) /\ (at[s] \in 1 .. 4 => Item(s)' = Item(s))
    OBVIOUS
  <2>1. Swap(tx[s])' = Swap(tx[s])
    <3> DEFINE t == tx[s]
    <3>1. t \in OnChain
      BY <1>1
    <3> HIDE DEF t
    <3>2. chain'[t[1]][t[2]] = chain[t[1]][t[2]]
      BY <3>1 DEF Swap
    <3> QED BY <3>2 DEF Swap, t
  <2>2. Plan(tx[s])' = Plan(tx[s])
    BY <2>1 DEF Plan
  <2> QED BY <2>1, <2>2 DEF Item
<1>3. CASE tx[s] = NoTx
  BY <1>1, <1>3 DEF InHand, Collected
<1>4. CASE tx[s] # NoTx
  <2>1. got[s][1] = "trades" => Collected(s)'
    <3> SUFFICES ASSUME got[s][1] = "trades" PROVE Collected(s)'
      OBVIOUS
    <3>1. Collected(s)
      BY <1>1 DEF InHand
    <3>2. \A t \in got[s][2] : t \in rows' /\ t \in OnChain' /\ Swap(t)'.wallet = Swap(tx[s])'.wallet
      BY <1>2, <1>4, <3>1 DEF Collected
    <3>3. ASSUME Swap(tx[s]).wallet \notin Monitored, NEW t \in published',
                 Swap(t)'.wallet = Swap(tx[s]).wallet
          PROVE  t \in got[s][2]
      <4>1. t \in published \/ (t \in OnChain /\ Swap(t).wallet \in Monitored)
        BY <1>1, <1>4, <3>3
      <4>2. t \in OnChain
        BY <4>1 DEF PipelineOK, TablesOK
      <4> QED BY <3>1, <3>3, <4>1, <4>2 DEF Collected
    <3> QED BY <1>2, <1>4, <3>1, <3>2, <3>3 DEF Collected
  <2>2. at[s] = 5 /\ Swap(tx[s]).wallet \notin Monitored
           => tx[s] \in scores'[Swap(tx[s]).wallet]
    BY <1>1, <1>4 DEF InHand
  <2> QED BY <1>1, <1>2, <1>4, <2>1, <2>2 DEF InHand
<1> QED BY <1>3, <1>4

(* An action of a session on the tables. *)
LEMMA RestKept ==
  ASSUME PipelineOK, UNCHANGED chain, SessionsOK', TablesOK',
         \A s \in Session : InHand(s)', PublishedIsScored'
  PROVE  PipelineOK'
BY ChainKept DEF PipelineOK

LEMMA ReadInv ==
  ASSUME PipelineOK, NEW s \in Session, Read(s)
  PROVE  PipelineOK'
<1> DEFINE new == IF Item(s)[1] = "score"
                  THEN <<"trades", {t \in rows \cap OnChain : Swap(t).wallet = Item(s)[2]}>>
                  ELSE IF Item(s)[2] \in rows THEN <<"found">> ELSE <<"missing">>
<1>1. /\ tx[s] # NoTx /\ at[s] \in 1 .. 4 /\ got[s][1] = "no"
      /\ got' = [got EXCEPT ![s] = new]
      /\ UNCHANGED <<chain, rows, scores, published, tx, at>>
  BY SessionFacts DEF Read, Busy, tables, history
<1>2. /\ tx[s] \in OnChain /\ InHand(s)
  BY <1>1, SessionFacts
<1>3. new \in Answer
  BY DEF Answer, OnChain
<1> HIDE DEF new
<1>4. OnChain' = OnChain /\ \A t \in OnChain : Swap(t)' = Swap(t)
  BY <1>1, ChainKept
<1>5. TablesOK' /\ PublishedIsScored'
  BY <1>1, <1>4 DEF PipelineOK, TablesOK, PublishedIsScored
<1>6. SessionsOK'
  BY <1>1, <1>2, <1>3, <1>4 DEF PipelineOK, SessionsOK, Swap
<1>7. InHand(s)'
  <2>1. Item(s)' = Item(s) /\ Swap(tx[s])' = Swap(tx[s]) /\ got'[s] = new
    BY <1>1 DEF PipelineOK, SessionsOK, Item, Plan, Swap
  <2>2. CASE at[s] = 4
    <3>1. new = <<"trades", {t \in rows \cap OnChain : Swap(t).wallet = Swap(tx[s]).wallet}>>
      BY <2>2, Items DEF new
    <3>2. tx[s] \in rows /\ published \subseteq rows \cap OnChain
      BY <1>1, <1>2, <2>2 DEF InHand, PipelineOK, TablesOK
    <3>3. new[1] = "trades" /\ new # <<"found">> /\ new # <<"missing">>
      BY <3>1
    <3>4. new[2] = {t \in rows \cap OnChain : Swap(t).wallet = Swap(tx[s]).wallet}
      BY <3>1
    <3>5. Collected(s)'
      BY <1>1, <1>2, <1>4, <2>1, <2>2, <3>2, <3>4 DEF Collected
    <3> QED BY <1>1, <2>1, <2>2, <3>2, <3>3, <3>5 DEF InHand
  <2>3. CASE at[s] # 4
    <3>1. /\ new \in {<<"found">>, <<"missing">>}
          /\ new = <<"found">> => Item(s)[2] \in rows
      BY <1>1, <2>3, Items DEF new
    <3>2. new[1] # "trades"
      BY <3>1
    <3> QED BY <1>1, <2>1, <2>3, <3>1, <3>2 DEF InHand
  <2> QED BY <2>2, <2>3
<1>8. ASSUME NEW r \in Session, r # s PROVE InHand(r)'
  <2>1. tx'[r] = tx[r] /\ at'[r] = at[r] /\ got'[r] = got[r]
    BY <1>1, <1>8 DEF PipelineOK, SessionsOK
  <2> QED BY <1>1, <1>4, <2>1, OtherSession
<1> QED BY <1>1, <1>5, <1>6, <1>7, <1>8, RestKept

(* What the other session has in hand is of a wallet this one does not score. *)
LEMMA Alone ==
  ASSUME PipelineOK, NEW s \in Session, NEW r \in Session, r # s,
         tx[s] # NoTx, tx[r] # NoTx, Swap(tx[s]).wallet = Swap(tx[r]).wallet
  PROVE  Swap(tx[s]).wallet \in Monitored
BY SessionFacts DEF Session

(* The item is done, and the next one is not yet read. *)
LEMMA TurnedInv ==
  ASSUME PipelineOK, NEW s \in Session, RowIsThere(s) \/ InsertRow(s) \/ SaveScore(s)
  PROVE  PipelineOK'
<1>1. /\ tx[s] # NoTx /\ at[s] \in 1 .. 4 /\ got[s] # <<"no">> /\ got[s] \in Answer
      /\ at' = [at EXCEPT ![s] = @ + 1] /\ got' = [got EXCEPT ![s] = <<"no">>]
      /\ UNCHANGED <<chain, published, tx>>
  <2>1. tx[s] # NoTx /\ got[s][1] # "no" /\ UNCHANGED <<chain, published, tx>>
    BY DEF RowIsThere, InsertRow, SaveScore, Turned, Busy, history
  <2>2. /\ at' = [at EXCEPT ![s] = @ + 1] /\ got' = [got EXCEPT ![s] = <<"no">>]
    BY DEF RowIsThere, InsertRow, SaveScore, Turned
  <2>3. got[s] \in Answer /\ got[s] # <<"no">>
    BY <2>1, SessionFacts
  <2>4. got[s][1] = "trades" \/ got[s] = <<"found">> \/ got[s] = <<"missing">>
    BY <2>3 DEF Answer
  <2>5. at[s] \in 1 .. 4
    BY <2>4, SessionFacts DEF InHand, Collected
  <2> QED BY <2>1, <2>2, <2>3, <2>5
<1>2. /\ tx[s] \in OnChain /\ InHand(s)
      /\ Swap(tx[s]).wallet \in Wallet /\ Swap(tx[s]).token \in Token
  BY <1>1, SessionFacts
<1>3. OnChain' = OnChain /\ \A t \in OnChain : Swap(t)' = Swap(t)
  BY <1>1, ChainKept
<1>4. SessionsOK'
  BY <1>1, <1>2, <1>3 DEF PipelineOK, SessionsOK, Swap, Answer
<1>5. CASE RowIsThere(s) \/ InsertRow(s)
  <2>1. /\ at[s] <= 3 /\ Item(s)[2] \in rows' /\ UNCHANGED scores
        /\ rows \subseteq rows' /\ rows' \subseteq rows \cup {Item(s)[2]}
    <3>1. CASE RowIsThere(s)
      <4>1. got[s] = <<"found">> /\ UNCHANGED <<rows, scores>>
        BY <1>1, <3>1 DEF RowIsThere, Answer
      <4> QED BY <1>2, <4>1 DEF InHand
    <3>2. CASE InsertRow(s)
      <4>1. got[s] = <<"missing">> /\ rows' = rows \cup {Item(s)[2]} /\ UNCHANGED scores
        BY <1>1, <3>2 DEF InsertRow, Answer
      <4> QED BY <1>2, <4>1 DEF InHand
    <3> QED BY <1>5, <3>1, <3>2
  <2>2. Item(s)[2] \in Wallet \cup Token \cup OnChain
    BY <1>1, <1>2, <2>1, Items
  <2>3. at[s] = 3 => Item(s)[2] = tx[s]
    BY Items
  <2>4. TablesOK' /\ PublishedIsScored'
    BY <1>1, <1>3, <2>1, <2>2 DEF PipelineOK, TablesOK, PublishedIsScored
  <2>5. InHand(s)'
    <3>1. at'[s] = at[s] + 1 /\ at'[s] \in 2 .. 4 /\ got'[s] = <<"no">> /\ tx'[s] = tx[s]
      BY <1>1, <2>1 DEF PipelineOK, SessionsOK
    <3>2. at'[s] >= 4 => tx'[s] \in rows'
      BY <1>1, <2>1, <2>3, <3>1
    <3> QED BY <1>1, <3>1, <3>2 DEF InHand
  <2>6. ASSUME NEW r \in Session, r # s PROVE InHand(r)'
    <3>1. tx'[r] = tx[r] /\ at'[r] = at[r] /\ got'[r] = got[r]
      BY <1>1, <2>6 DEF PipelineOK, SessionsOK
    <3> QED BY <1>1, <1>3, <2>1, <3>1, OtherSession
  <2> QED BY <1>1, <1>4, <2>4, <2>5, <2>6, RestKept
<1>6. CASE SaveScore(s)
  <2> DEFINE w == Swap(tx[s]).wallet
  <2>1. Collected(s) /\ got[s][1] = "trades"
    BY <1>2, <1>6 DEF SaveScore, InHand
  <2>2. /\ at[s] = 4 /\ w \in Wallet /\ got[s][2] \subseteq Tx
        /\ scores' = [scores EXCEPT ![w] = got[s][2]] /\ UNCHANGED rows
    <3>1. at[s] = 4 /\ got[s][2] \subseteq Tx
      BY <2>1 DEF Collected, OnChain
    <3>2. Item(s)[2] = w
      BY <3>1, Items
    <3> QED BY <1>2, <1>6, <3>1, <3>2 DEF SaveScore
  <2>3. \A t \in got[s][2] : t \in rows /\ t \in OnChain /\ Swap(t).wallet = w
    BY <2>1 DEF Collected
  <2>4. TablesOK'
    BY <1>1, <1>3, <2>2, <2>3 DEF PipelineOK, TablesOK
  <2>5. PublishedIsScored'
    <3> SUFFICES ASSUME NEW t \in published, Swap(t).wallet \notin Monitored
                 PROVE  t \in scores'[Swap(t).wallet]
      BY <1>1, <1>3 DEF PublishedIsScored, PipelineOK, TablesOK
    <3>1. t \in OnChain /\ Swap(t).wallet \in Wallet /\ t \in scores[Swap(t).wallet]
      BY SwapTyped DEF PipelineOK, TablesOK, PublishedIsScored
    <3> QED BY <2>1, <2>2, <3>1 DEF Collected, PipelineOK, TablesOK
  <2>6. InHand(s)'
    <3>1. at'[s] = 5 /\ got'[s] = <<"no">> /\ tx'[s] = tx[s] /\ tx[s] \in rows
      BY <1>1, <1>2, <2>2 DEF PipelineOK, SessionsOK, InHand
    <3>2. Swap(tx[s])' = Swap(tx[s])
      BY <1>1, <3>1 DEF Swap
    <3>3. tx[s] \in scores'[w]
      BY <2>1, <2>2 DEF Collected, PipelineOK, TablesOK
    <3> QED BY <1>1, <2>2, <3>1, <3>2, <3>3 DEF InHand
  <2>7. ASSUME NEW r \in Session, r # s PROVE InHand(r)'
    <3>1. tx'[r] = tx[r] /\ at'[r] = at[r] /\ got'[r] = got[r]
      BY <1>1, <2>7 DEF PipelineOK, SessionsOK
    <3>2. r = Discovery => s # Discovery
      BY <2>7
    <3>3. r = Discovery => w \in Monitored
      BY <1>1, <3>2, SessionFacts
    <3>4. r = Discovery => \A v \in Wallet \ Monitored : scores[v] \subseteq scores'[v]
      BY <2>2, <3>3 DEF PipelineOK, TablesOK
    <3> QED BY <1>1, <1>3, <2>2, <3>1, <3>4, OtherSession
  <2> QED BY <1>1, <1>4, <2>4, <2>5, <2>6, <2>7, RestKept
<1> QED BY <1>5, <1>6

(* A session that takes up a transaction, or leaves one, and what it publishes. *)
LEMMA TakenInv ==
  ASSUME PipelineOK, NEW s \in Session, NEW t \in OnChain, tx[s] = NoTx,
         s = Peer => Swap(t).wallet \in Monitored,
         tx' = [tx EXCEPT ![s] = t],
         UNCHANGED <<chain, rows, scores, published, at, got>>
  PROVE  PipelineOK'
<1>1. OnChain' = OnChain /\ \A u \in OnChain : Swap(u)' = Swap(u)
  BY ChainKept
<1>2. TablesOK' /\ PublishedIsScored'
  BY <1>1 DEF PipelineOK, TablesOK, PublishedIsScored
<1>3. SessionsOK'
  BY <1>1 DEF PipelineOK, SessionsOK, Swap, Session
<1>4. InHand(s)'
  <2>1. at'[s] = 1 /\ got'[s] = <<"no">>
    BY DEF PipelineOK, InHand
  <2> QED BY <2>1 DEF InHand
<1>5. ASSUME NEW r \in Session, r # s PROVE InHand(r)'
  <2>1. tx'[r] = tx[r] /\ at'[r] = at[r] /\ got'[r] = got[r]
    BY <1>5 DEF PipelineOK, SessionsOK
  <2> QED BY <1>1, <2>1, OtherSession
<1> QED BY <1>2, <1>3, <1>4, <1>5, RestKept

LEMMA LeaveInv ==
  ASSUME PipelineOK, NEW s \in Session, Leave(s), UNCHANGED <<chain, rows, scores>>,
         \/ UNCHANGED published
         \/ tx[s] # NoTx /\ at[s] = 5 /\ published' = published \cup {tx[s]}
  PROVE  PipelineOK'
<1>1. OnChain' = OnChain /\ \A u \in OnChain : Swap(u)' = Swap(u)
  BY ChainKept
<1>2. /\ tx' = [tx EXCEPT ![s] = NoTx] /\ at' = [at EXCEPT ![s] = 1]
      /\ got' = [got EXCEPT ![s] = <<"no">>]
  BY DEF Leave
<1>3. /\ published \subseteq published'
      /\ \A t \in published' \ published :
           t = tx[s] /\ tx[s] # NoTx /\ at[s] = 5 /\ t \in OnChain /\ t \in rows
  BY SessionFacts DEF InHand
<1>4. TablesOK'
  BY <1>1, <1>3 DEF PipelineOK, TablesOK
<1>5. PublishedIsScored'
  <2> SUFFICES ASSUME NEW t \in published', Swap(t).wallet \notin Monitored
               PROVE  t \in scores[Swap(t).wallet]
    BY <1>1, <1>3 DEF PublishedIsScored, PipelineOK, TablesOK
  <2>1. CASE t \in published
    BY <2>1 DEF PipelineOK, PublishedIsScored
  <2>2. CASE t \notin published
    BY <1>3, <2>2, SessionFacts DEF InHand
  <2> QED BY <2>1, <2>2
<1>6. SessionsOK'
  BY <1>1, <1>2 DEF PipelineOK, SessionsOK, Answer, Swap, Session
<1>7. InHand(s)'
  BY <1>2 DEF PipelineOK, SessionsOK, InHand
<1>8. ASSUME NEW r \in Session, r # s PROVE InHand(r)'
  <2>1. tx'[r] = tx[r] /\ at'[r] = at[r] /\ got'[r] = got[r]
    BY <1>2, <1>8 DEF PipelineOK, SessionsOK
  <2>2. r = Discovery =>
          \A t \in published' :
            t \in published \/ (t \in OnChain /\ Swap(t).wallet \in Monitored)
    BY <1>3, <1>8, SessionFacts
  <2> QED BY <1>1, <2>1, <2>2, OtherSession
<1> QED BY <1>4, <1>5, <1>6, <1>7, <1>8, RestKept

LEMMA NewTransactionInv ==
  ASSUME PipelineOK, NEW p \in Program, NewTransaction(p)
  PROVE  PipelineOK'
<1>1. /\ ChainOK'
      /\ \A t \in OnChain : t \in OnChain' /\ Swap(t)' = Swap(t)
      /\ UNCHANGED <<rows, scores, published, tx, at, got>>
  BY ChainGrows DEF PipelineOK, NewTransaction, tables, history, session
<1>2. TablesOK' /\ PublishedIsScored'
  BY <1>1 DEF PipelineOK, TablesOK, PublishedIsScored
<1>3. SessionsOK'
  BY <1>1 DEF PipelineOK, SessionsOK, Swap, Session
<1>4. \A s \in Session : InHand(s)'
  BY <1>1, OtherSession
<1> QED BY <1>1, <1>2, <1>3, <1>4 DEF PipelineOK

LEMMA NothingInHand ==
  ASSUME PipelineOK, UNCHANGED <<chain, rows, scores, published, tx, at, got>>
  PROVE  PipelineOK'
<1>1. OnChain' = OnChain /\ \A u \in OnChain : Swap(u)' = Swap(u)
  BY ChainKept
<1>2. TablesOK' /\ PublishedIsScored'
  BY <1>1 DEF PipelineOK, TablesOK, PublishedIsScored
<1>3. SessionsOK'
  BY <1>1 DEF PipelineOK, SessionsOK, Swap
<1>4. \A s \in Session : InHand(s)'
  BY <1>1, OtherSession
<1> QED BY <1>2, <1>3, <1>4, RestKept

-----------------------------------------------------------------------------
(* Scans *)

LEMMA HeadOfCycle ==
  ASSUME CycleOK, left # <<>>
  PROVE  /\ Head(left) \in Program /\ Head(left) = left[1]
         /\ Head(left) = Programs[Len(Programs) - Len(left) + 1]
         /\ Len(left) \in Nat \ {0} /\ Tail(left) \in Seq(Program)
         /\ Len(Tail(left)) = Len(left) - 1
         /\ \A i \in 1 .. Len(left) - 1 : Tail(left)[i] = left[i + 1]
BY HeadTailProperties DEF CycleOK

(* A scan is not disturbed by what is published meanwhile, nor by the chain. *)
LEMMA ScanKept ==
  ASSUME DexInv, ChainOK', UNCHANGED <<cursor, sampled, lost, pc, todo, newest, left>>,
         \A q \in Program : Height(q) <= Height(q)',
         OnChain \subseteq OnChain', published \subseteq published',
         \/ tx'[Discovery] = tx[Discovery]
         \/ tx'[Discovery] = NoTx /\ tx[Discovery] \in published'
  PROVE  SamplesOK' /\ ScanOK'
<1>1. \A q \in Program : Height(q) \in Nat /\ Height(q)' \in Nat
  BY DEF DexInv, PipelineOK, ChainOK, Height
<1>2. SamplesOK'
  BY <1>1 DEF DexInv, SamplesOK, SampledIsPublished
<1>3. ScanOK'
  <2>1. pc = "scan" => newest <= Height(Head(left))'
    BY <1>1, HeadOfCycle DEF DexInv, ScanOK
  <2> QED BY <2>1 DEF DexInv, ScanOK
<1> QED BY <1>2, <1>3

(* Nothing is in hand when no scan is. *)
LEMMA NoScan ==
  ASSUME DexInv, UNCHANGED <<chain, cursor, sampled, lost, published>>,
         pc' \in {"idle", "cycle"}, tx'[Discovery] = NoTx,
         todo' \in Seq(Tx), newest' \in Nat
  PROVE  SamplesOK' /\ ScanOK'
BY ChainKept DEF DexInv, SamplesOK, SampledIsPublished, ScanOK

LEMMA ListPagesInv ==
  ASSUME DexInv, ListPages
  PROVE  SamplesOK' /\ ScanOK'
<1> DEFINE p == Head(left)
           low == Lowest(p)
           n == Height(p) + 1 - low
<1>1. /\ pc' = "scan" /\ left # <<>> /\ pc = "cycle"
      /\ UNCHANGED <<chain, cursor, published, tx, left>>
      /\ newest' = Height(p)
      /\ todo' = [i \in 1 .. n |-> <<p, low + i - 1>>]
      /\ sampled' = sampled \cup {todo'[i] : i \in DOMAIN todo'}
      /\ lost' = lost \cup {t \in sampled : t[1] = p /\ t[2] \in cursor[t[1]] + 1 .. low - 1}
  BY DEF ListPages, tables, session, cycle
<1>2. p \in Program /\ Height(p) \in 0 .. MaxTx /\ cursor[p] \in 0 .. Height(p)
  BY <1>1, HeadOfCycle DEF DexInv, SamplesOK, PipelineOK, ChainOK, Height
<1>3. low \in cursor[p] + 1 .. Height(p) + 1
  BY <1>2, DiscoveryAssumption DEF Lowest
<1> HIDE DEF p, low
<1>4. n \in Nat
  BY <1>2, <1>3
<1>5. ASSUME NEW i \in 1 .. n
      PROVE  todo'[i] \in OnChain /\ todo'[i][1] = p /\ todo'[i][2] \in low .. Height(p)
  <2>1. todo'[i] = <<p, low + i - 1>>
    BY <1>1
  <2>2. low + i - 1 \in low .. Height(p) /\ low + i - 1 \in 1 .. MaxTx
    BY <1>2, <1>3, <1>4, DiscoveryAssumption
  <2> QED BY <1>2, <2>1, <2>2 DEF OnChain, Tx
<1>6. DOMAIN todo' = 1 .. n /\ todo' \in Seq(Tx)
  <2>1. \A i \in 1 .. n : <<p, low + i - 1>> \in Tx
    BY <1>1, <1>5 DEF OnChain
  <2> HIDE DEF n
  <2> QED BY <1>1, <1>4, <2>1
<1>7. \A t \in sampled' : t \in sampled \/ (t \in OnChain /\ t[1] = p /\ t[2] \in low .. Height(p))
  BY <1>1, <1>5, <1>6
<1>8. sampled \subseteq OnChain /\ lost \subseteq sampled /\ SampledIsPublished
  BY DEF DexInv, SamplesOK
<1>9. SamplesOK'
  <2>1. OnChain' = OnChain /\ \A q \in Program : Height(q)' = Height(q)
    BY <1>1, ChainKept
  <2>2. sampled' \subseteq OnChain /\ lost' \subseteq sampled'
    BY <1>1, <1>7, <1>8
  <2>3. SampledIsPublished'
    <3> SUFFICES ASSUME NEW t \in sampled', t[2] <= cursor[t[1]]
                 PROVE  t \in published \cup lost'
      BY <1>1 DEF SampledIsPublished
    <3>1. t \in sampled
      BY <1>2, <1>3, <1>7
    <3> QED BY <1>1, <1>8, <3>1 DEF SampledIsPublished
  <2> QED BY <1>1, <2>1, <2>2, <2>3 DEF DexInv, SamplesOK
<1>10. ASSUME NEW t \in sampled', t[1] = p, t[2] <= Height(p)
       PROVE  t \in published \cup lost' \/ \E i \in DOMAIN todo' : todo'[i] = t
  <2>1. t \in OnChain /\ t = <<p, t[2]>> /\ t[2] \in 1 .. Height(p)
    BY <1>7, <1>8, <1>10, SwapTyped DEF DexInv, PipelineOK
  <2>2. CASE t[2] >= low
    <3>1. t[2] - low + 1 \in 1 .. n /\ low + (t[2] - low + 1) - 1 = t[2]
      BY <1>2, <1>3, <2>1, <2>2
    <3>2. todo'[t[2] - low + 1] = t
      BY <1>1, <2>1, <3>1
    <3> QED BY <1>6, <3>1, <3>2
  <2>3. CASE t[2] < low
    <3>1. t \in sampled
      BY <1>2, <1>3, <1>7, <2>1, <2>3
    <3>2. CASE t[2] <= cursor[p]
      BY <1>1, <1>8, <1>10, <3>1, <3>2 DEF SampledIsPublished
    <3>3. CASE t[2] > cursor[p]
      <4>1. t[2] \in cursor[p] + 1 .. low - 1
        BY <1>2, <1>3, <2>1, <2>3, <3>3
      <4> QED BY <1>1, <1>10, <3>1, <4>1
    <3> QED BY <1>2, <2>1, <3>2, <3>3
  <2> QED BY <1>2, <1>3, <2>1, <2>2, <2>3
<1>11. ScanOK'
  <2>1. tx'[Discovery] = NoTx
    BY <1>1 DEF DexInv, ScanOK
  <2>2. newest' \in Nat /\ newest' <= Height(Head(left))' /\ Head(left') = p
    BY <1>1, <1>2 DEF Height, p
  <2>3. \A i \in DOMAIN todo' : todo'[i] \in sampled' /\ todo'[i][1] = p
    BY <1>1, <1>5, <1>6
  <2> QED BY <1>1, <1>6, <1>10, <2>1, <2>2, <2>3 DEF ScanOK
<1> QED BY <1>9, <1>11

(* The oldest that is left is taken in hand, or given up. *)
LEMMA FetchInv ==
  ASSUME DexInv, Fetch \/ FetchMissing
  PROVE  SamplesOK' /\ ScanOK'
<1>1. /\ pc = "scan" /\ pc' = "scan" /\ todo # <<>> /\ tx[Discovery] = NoTx
      /\ todo' = Tail(todo)
      /\ UNCHANGED <<chain, cursor, published, sampled, newest, left>>
      /\ \/ tx'[Discovery] = Head(todo) /\ UNCHANGED lost
         \/ tx' = tx /\ lost' = lost \cup {Head(todo)}
  BY DEF Fetch, FetchMissing, DexInv, PipelineOK, SessionsOK, Session, tables, history, cycle,
         session
<1>2. /\ todo \in Seq(Tx) /\ Head(todo) = todo[1] /\ Tail(todo) \in Seq(Tx)
      /\ DOMAIN Tail(todo) = 1 .. Len(todo) - 1 /\ Len(todo) \in Nat \ {0}
      /\ \A i \in 1 .. Len(todo) - 1 : Tail(todo)[i] = todo[i + 1]
      /\ DOMAIN todo = 1 .. Len(todo)
  BY <1>1, HeadTailProperties DEF DexInv, ScanOK
<1>3. Head(todo) \in sampled /\ Head(todo)[1] = Head(left)
  BY <1>1, <1>2 DEF DexInv, ScanOK
<1>4. SamplesOK'
  BY <1>1, <1>3, ChainKept DEF DexInv, SamplesOK, SampledIsPublished
<1>5. \A i \in DOMAIN todo' : todo'[i] \in sampled /\ todo'[i][1] = Head(left)
  BY <1>1, <1>2 DEF DexInv, ScanOK
<1>6. ASSUME NEW t \in sampled, t[1] = Head(left), t[2] <= newest
      PROVE  \/ t \in published \cup lost' \/ t = tx'[Discovery]
             \/ \E i \in DOMAIN todo' : todo'[i] = t
  <2>1. t # NoTx
    BY DiscoveryAssumption DEF DexInv, SamplesOK, OnChain
  <2>2. CASE \E i \in DOMAIN todo : todo[i] = t
    <3>1. PICK i \in DOMAIN todo : todo[i] = t
      BY <2>2
    <3>2. CASE i = 1
      BY <1>1, <1>2, <3>1, <3>2
    <3>3. CASE i # 1
      <4>1. i - 1 \in 1 .. Len(todo) - 1 /\ (i - 1) + 1 = i
        BY <1>2, <3>3
      <4>2. todo'[i - 1] = t
        BY <1>1, <1>2, <3>1, <4>1
      <4> QED BY <1>1, <1>2, <4>1, <4>2
    <3> QED BY <3>2, <3>3
  <2> QED BY <1>1, <1>6, <2>1, <2>2 DEF DexInv, ScanOK
<1>7. ScanOK'
  <2>1. newest' \in Nat /\ left' # <<>> /\ newest' <= Height(Head(left))'
    BY <1>1 DEF DexInv, ScanOK, Height
  <2>2. tx'[Discovery] # NoTx => tx'[Discovery][1] = Head(left')
    BY <1>1, <1>3
  <2> QED BY <1>1, <1>2, <1>5, <1>6, <2>1, <2>2 DEF ScanOK
<1> QED BY <1>4, <1>7

LEMMA FinishScanInv ==
  ASSUME DexInv, FinishScan
  PROVE  SamplesOK' /\ ScanOK'
<1> DEFINE p == Head(left)
<1>1. /\ pc = "scan" /\ pc' = "cycle" /\ todo = <<>> /\ tx[Discovery] = NoTx
      /\ cursor' = IF newest > 0 THEN [cursor EXCEPT ![p] = newest] ELSE cursor
      /\ UNCHANGED <<chain, published, sampled, lost, tx, todo>> /\ newest' = 0
  BY DEF FinishScan, history, session
<1>2. /\ p \in Program /\ newest \in Nat /\ newest <= Height(p)
      /\ \A t \in sampled : t[1] = p /\ t[2] <= newest => t \in published \cup lost
  <2>1. \A t \in sampled : t # NoTx
    BY DiscoveryAssumption DEF DexInv, SamplesOK, OnChain
  <2> QED BY <1>1, <2>1, HeadOfCycle DEF DexInv, ScanOK
<1> HIDE DEF p
<1>3. SamplesOK'
  BY <1>1, <1>2, ChainKept DEF DexInv, SamplesOK, SampledIsPublished
<1>4. ScanOK'
  BY <1>1 DEF DexInv, ScanOK
<1> QED BY <1>3, <1>4

-----------------------------------------------------------------------------
(* Cycles *)

LEMMA FaultCounted ==
  ASSUME CycleOK, Fault \/ UNCHANGED faults
  PROVE  faults' \in 0 .. MaxFaults
BY DiscoveryAssumption DEF CycleOK, Fault

LEMMA CycleKept ==
  ASSUME CycleOK, UNCHANGED <<left, broken>>, Fault \/ UNCHANGED faults
  PROVE  CycleOK'
BY FaultCounted DEF CycleOK

(* The cycle goes on with the next program. *)
LEMMA ProgramDone ==
  ASSUME CycleOK, left # <<>>, left' = Tail(left), broken' \in BOOLEAN,
         Fault \/ UNCHANGED faults
  PROVE  CycleOK'
<1>1. faults' \in 0 .. MaxFaults
  BY FaultCounted
<1>2. /\ Head(left) = Programs[Len(Programs) - Len(left) + 1]
      /\ Len(left) \in Nat \ {0} /\ left' \in Seq(Program) /\ Len(left') = Len(left) - 1
      /\ \A i \in 1 .. Len(left) - 1 : left'[i] = left[i + 1]
  BY HeadOfCycle
<1>3. Len(left) <= Len(Programs) /\ Len(Programs) \in Nat
  BY DiscoveryAssumption DEF CycleOK
<1>4. ASSUME NEW i \in 1 .. Len(left') PROVE left'[i] = Programs[Len(Programs) - Len(left') + i]
  <2>1. i + 1 \in 1 .. Len(left) /\ i \in 1 .. Len(left) - 1
    BY <1>2
  <2>2. left[i + 1] = Programs[Len(Programs) - Len(left) + (i + 1)]
    BY <2>1 DEF CycleOK
  <2>3. Len(Programs) - Len(left') + i = Len(Programs) - Len(left) + (i + 1)
    BY <1>2, <1>3
  <2> QED BY <1>2, <2>1, <2>2, <2>3
<1> QED BY <1>1, <1>2, <1>3, <1>4 DEF CycleOK

LEMMA CycleEmpty ==
  ASSUME CycleOK, left' = <<>>, UNCHANGED broken, Fault \/ UNCHANGED faults
  PROVE  CycleOK'
<1>1. faults' \in 0 .. MaxFaults
  BY FaultCounted
<1>2. left' \in Seq(Program) /\ Len(left') = 0 /\ Len(Programs) \in Nat
  BY DiscoveryAssumption
<1> QED BY <1>1, <1>2 DEF CycleOK

LEMMA BeginCycleInv ==
  ASSUME CycleOK, BeginCycle
  PROVE  CycleOK'
<1>1. left' = Programs /\ broken' = FALSE /\ UNCHANGED faults
  BY DEF BeginCycle
<1>2. /\ left' \in Seq(Program) /\ Len(left') \in Nat
      /\ Len(left') <= Len(Programs) /\ Len(Programs) - Len(left') = 0
  BY <1>1, DiscoveryAssumption
<1>3. ASSUME NEW i \in 1 .. Len(left')
      PROVE  left'[i] = Programs[Len(Programs) - Len(left') + i]
  <2>1. Len(Programs) - Len(left') + i = i
    BY <1>2
  <2> QED BY <1>1, <2>1
<1> QED BY <1>1, <1>2, <1>3 DEF CycleOK

-----------------------------------------------------------------------------
(* Every step *)

LEMMA InitDex == Init => DexInv
<1> SUFFICES ASSUME Init PROVE DexInv
  OBVIOUS
<1>1. /\ chain \in [Program -> Seq(SwapType)] /\ \A p \in Program : Height(p) = 0
      /\ OnChain = {}
  <2>1. \A p \in Program : chain[p] = <<>>
    BY DEF Init
  <2>2. \A p \in Program : Height(p) = 0
    BY <2>1 DEF Height
  <2>3. OnChain = {}
    BY <2>2 DEF OnChain, Tx
  <2> QED BY <2>2, <2>3 DEF Init
<1>2. ChainOK /\ TablesOK /\ PublishedIsScored
  BY <1>1, DiscoveryAssumption DEF Init, ChainOK, TablesOK, PublishedIsScored
<1>3. SessionsOK /\ \A s \in Session : InHand(s)
  BY <1>1 DEF Init, SessionsOK, InHand, Answer, Session
<1>4. SamplesOK
  BY <1>1 DEF Init, SamplesOK, SampledIsPublished
<1>5. ScanOK
  <2>1. pc = "idle" /\ tx[Discovery] = NoTx /\ todo = <<>> /\ newest = 0
    BY DEF Init, Session
  <2> QED BY <2>1 DEF ScanOK
<1>6. CycleOK
  <2>1. /\ left = <<>> /\ Len(left) = 0 /\ Len(Programs) \in Nat
        /\ pc = "idle" /\ broken = FALSE /\ faults = 0
    BY DiscoveryAssumption DEF Init
  <2>2. left \in Seq(Program)
    BY <2>1
  <2>3. Len(left) <= Len(Programs) /\ 1 .. Len(left) = {}
    BY <2>1
  <2>4. broken \in BOOLEAN
    BY <2>1
  <2>5. faults \in 0 .. MaxFaults
    BY <2>1, DiscoveryAssumption
  <2> QED BY <2>1, <2>2, <2>3, <2>4, <2>5 DEF CycleOK
<1> QED BY <1>2, <1>3, <1>4, <1>5, <1>6 DEF DexInv, PipelineOK

LEMMA PipelineStep ==
  ASSUME DexInv, NEW s \in Session, Pipeline(s)
  PROVE  DexInv'
<1>1. PipelineOK'
  <2>1. CASE Publish(s)
    <3>1. /\ Leave(s) /\ tx[s] # NoTx /\ at[s] = 5 /\ published' = published \cup {tx[s]}
          /\ UNCHANGED <<chain, rows, scores>>
      BY <2>1 DEF Publish, Busy, tables
    <3> QED BY <3>1, LeaveInv DEF DexInv
  <2> QED BY <2>1, ReadInv, TurnedInv DEF Pipeline, DexInv
<1>2. /\ UNCHANGED <<chain, cursor, sampled, lost, pc, todo, newest, left, broken, faults>>
  BY DEF Pipeline, Read, RowIsThere, InsertRow, SaveScore, Turned, Publish, tables, history,
         scan, cycle
<1>3. /\ published \subseteq published'
      /\ \/ tx'[Discovery] = tx[Discovery]
         \/ tx'[Discovery] = NoTx /\ tx[Discovery] \in published'
  <2>1. CASE Publish(s)
    <3>1. published' = published \cup {tx[s]} /\ tx' = [tx EXCEPT ![s] = NoTx]
      BY <2>1 DEF Publish, Leave
    <3> QED BY <3>1 DEF DexInv, PipelineOK, SessionsOK, Session
  <2>2. CASE ~Publish(s)
    BY <2>2 DEF Pipeline, Read, RowIsThere, InsertRow, SaveScore, Turned, history
  <2> QED BY <2>1, <2>2
<1>4. SamplesOK' /\ ScanOK'
  <2>1. ChainOK' /\ OnChain \subseteq OnChain' /\ \A q \in Program : Height(q) <= Height(q)'
    BY <1>2, ChainKept DEF DexInv, PipelineOK, ChainOK, Height
  <2> QED BY <1>2, <1>3, <2>1, ScanKept
<1>5. CycleOK'
  BY <1>2, CycleKept DEF DexInv
<1> QED BY <1>1, <1>4, <1>5 DEF DexInv

LEMMA OutsideStep ==
  ASSUME DexInv, PeerBegins \/ PeerFails \/ \E p \in Program : NewTransaction(p)
  PROVE  DexInv'
<1>1. /\ UNCHANGED <<rows, scores, published, cursor, sampled, lost, pc, todo, newest,
                     left, broken>>
      /\ Fault \/ UNCHANGED faults
      /\ tx'[Discovery] = tx[Discovery]
  <2>1. CASE PeerBegins
    BY <2>1 DEF PeerBegins, tables, history, scan, cycle, Peer, Discovery, DexInv, PipelineOK,
                SessionsOK, Session
  <2>2. CASE PeerFails
    BY <2>2 DEF PeerFails, Leave, tables, history, scan, cycle, Peer, Discovery, DexInv,
                PipelineOK, SessionsOK, Session
  <2>3. CASE \E p \in Program : NewTransaction(p)
    BY <2>3 DEF NewTransaction, tables, history, session, scan, cycle
  <2> QED BY <2>1, <2>2, <2>3
<1>2. PipelineOK'
  <2>1. CASE PeerBegins
    <3>1. PICK t \in OnChain : Swap(t).wallet \in Monitored /\ tx' = [tx EXCEPT ![Peer] = t]
      BY <2>1 DEF PeerBegins
    <3>2. tx[Peer] = NoTx /\ UNCHANGED <<chain, at, got>>
      BY <2>1 DEF PeerBegins
    <3> QED BY <1>1, <3>1, <3>2, TakenInv DEF DexInv, Session
  <2>2. CASE PeerFails
    <3>1. Leave(Peer) /\ UNCHANGED chain
      BY <2>2 DEF PeerFails
    <3> QED BY <1>1, <3>1, LeaveInv DEF DexInv, Session
  <2>3. CASE \E p \in Program : NewTransaction(p)
    BY <2>3, NewTransactionInv DEF DexInv
  <2> QED BY <2>1, <2>2, <2>3
<1>3. ChainOK' /\ OnChain \subseteq OnChain' /\ \A q \in Program : Height(q) <= Height(q)'
  <2>1. CASE UNCHANGED chain
    BY <2>1, ChainKept DEF DexInv, PipelineOK, ChainOK, Height
  <2>2. CASE \E p \in Program : NewTransaction(p)
    BY <2>2, ChainGrows DEF DexInv, PipelineOK
  <2> QED BY <2>1, <2>2 DEF PeerBegins, PeerFails
<1>4. SamplesOK' /\ ScanOK'
  BY <1>1, <1>3, ScanKept
<1>5. CycleOK'
  BY <1>1, CycleKept DEF DexInv
<1> QED BY <1>2, <1>4, <1>5 DEF DexInv

(* The loop itself: a program begins, is scanned, fails, and the cycle ends. *)
LEMMA ScanStep ==
  ASSUME DexInv, ListPages \/ Fetch \/ FetchMissing \/ FinishScan
  PROVE  DexInv'
<1>1. UNCHANGED <<chain, rows, scores, published, at, got>>
  BY DEF ListPages, Fetch, FetchMissing, FinishScan, tables, history, session
<1>2. PipelineOK'
  <2>1. CASE Fetch
    <3>1. /\ todo # <<>> /\ pc = "scan" /\ tx[Discovery] = NoTx
          /\ tx' = [tx EXCEPT ![Discovery] = Head(todo)]
      BY <2>1 DEF Fetch
    <3>2. Head(todo) \in OnChain
      BY <3>1, HeadTailProperties DEF DexInv, ScanOK, SamplesOK
    <3> QED BY <1>1, <3>1, <3>2, TakenInv DEF DexInv, Session, Discovery, Peer
  <2>2. CASE ~Fetch
    <3>1. UNCHANGED tx
      BY <2>2 DEF ListPages, FetchMissing, FinishScan, session
    <3> QED BY <1>1, <3>1, NothingInHand DEF DexInv
  <2> QED BY <2>1, <2>2
<1>3. SamplesOK' /\ ScanOK'
  BY ListPagesInv, FetchInv, FinishScanInv
<1>4. CycleOK'
  <2>1. CASE FinishScan
    <3>1. /\ pc = "scan" /\ left' = Tail(left) /\ UNCHANGED <<broken, faults>>
      BY <2>1 DEF FinishScan
    <3>2. left # <<>> /\ broken' \in BOOLEAN
      BY <3>1 DEF DexInv, ScanOK, CycleOK
    <3> QED BY <3>1, <3>2, ProgramDone DEF DexInv
  <2>2. CASE ListPages \/ Fetch \/ FetchMissing
    <3>1. /\ UNCHANGED <<left, broken>> /\ pc # "idle"
          /\ Fault \/ UNCHANGED faults
      BY <2>2 DEF ListPages, Fetch, FetchMissing, cycle
    <3> QED BY <3>1, CycleKept DEF DexInv
  <2> QED BY <2>1, <2>2
<1> QED BY <1>2, <1>3, <1>4 DEF DexInv

LEMMA FailureStep ==
  ASSUME DexInv, ScanFails \/ SessionRefuses \/ Crash
  PROVE  DexInv'
<1>1. /\ Leave(Discovery) /\ todo' = <<>> /\ newest' = 0 /\ pc' \in {"idle", "cycle"}
      /\ UNCHANGED <<chain, rows, scores, cursor, published, sampled, lost>>
  BY DEF ScanFails, SessionRefuses, Crash, ProgramFails, tables, history
<1>2. PipelineOK'
  BY <1>1, LeaveInv DEF DexInv, Session
<1>3. SamplesOK' /\ ScanOK'
  <2>1. tx'[Discovery] = NoTx
    BY <1>1 DEF Leave, DexInv, PipelineOK, SessionsOK, Session
  <2> QED BY <1>1, <2>1, NoScan
<1>4. CycleOK'
  <2>1. CASE ScanFails
    <3>1. /\ pc # "idle" /\ left # <<>> /\ ~broken /\ left' = Tail(left)
          /\ broken' \in BOOLEAN
          /\ Fault \/ UNCHANGED faults
      BY <2>1 DEF ScanFails, ProgramFails
    <3> QED BY <3>1, ProgramDone DEF DexInv
  <2>2. CASE SessionRefuses
    <3>1. /\ pc # "idle" /\ left # <<>> /\ broken /\ left' = Tail(left)
          /\ UNCHANGED <<broken, faults>>
      BY <2>2 DEF SessionRefuses, ProgramFails
    <3>2. broken' \in BOOLEAN
      BY <3>1 DEF DexInv, CycleOK
    <3> QED BY <3>1, <3>2, ProgramDone DEF DexInv
  <2>3. CASE Crash
    <3>1. left' = <<>> /\ pc' = "idle" /\ UNCHANGED broken /\ Fault
      BY <2>3 DEF Crash
    <3> QED BY <3>1, CycleEmpty DEF DexInv
  <2> QED BY <2>1, <2>2, <2>3
<1> QED BY <1>2, <1>3, <1>4 DEF DexInv

LEMMA CycleStep ==
  ASSUME DexInv, BeginCycle \/ EndCycle
  PROVE  DexInv'
<1>1. /\ UNCHANGED <<chain, rows, scores, cursor, published, sampled, lost, tx, at, got,
                     todo, newest>>
      /\ pc' \in {"idle", "cycle"} /\ pc \in {"idle", "cycle"}
  BY DEF BeginCycle, EndCycle, tables, history, session, scan
<1>2. PipelineOK'
  BY <1>1, NothingInHand DEF DexInv
<1>3. SamplesOK' /\ ScanOK'
  <2>1. tx'[Discovery] = NoTx /\ todo' \in Seq(Tx) /\ newest' \in Nat
    BY <1>1 DEF DexInv, ScanOK
  <2> QED BY <1>1, <2>1, NoScan
<1>4. CycleOK'
  <2>1. CASE EndCycle
    <3>1. left' = <<>> /\ pc' = "idle" /\ UNCHANGED <<broken, faults>>
      BY <2>1 DEF EndCycle
    <3> QED BY <3>1, CycleEmpty DEF DexInv
  <2> QED BY <2>1, BeginCycleInv DEF DexInv
<1> QED BY <1>2, <1>3, <1>4 DEF DexInv

LEMMA DexStutters == DexInv /\ UNCHANGED vars => DexInv'
<1> SUFFICES ASSUME DexInv, UNCHANGED vars PROVE DexInv'
  OBVIOUS
<1>1. /\ UNCHANGED <<chain, rows, scores, cursor, published, sampled, lost, tx, at, got>>
      /\ UNCHANGED <<pc, todo, newest, left, broken, faults>>
  BY DEF vars, tables, history, session, scan, cycle
<1>2. PipelineOK'
  BY <1>1, NothingInHand DEF DexInv
<1>3. ChainOK' /\ OnChain \subseteq OnChain' /\ \A q \in Program : Height(q) <= Height(q)'
  BY <1>1, ChainKept DEF DexInv, PipelineOK, ChainOK, Height
<1>4. SamplesOK' /\ ScanOK'
  BY <1>1, <1>3, ScanKept
<1>5. CycleOK'
  BY <1>1, CycleKept DEF DexInv
<1> QED BY <1>2, <1>4, <1>5 DEF DexInv

LEMMA DexStep == DexInv /\ [Next]_vars => DexInv'
<1> SUFFICES ASSUME DexInv, [Next]_vars PROVE DexInv'
  OBVIOUS
<1>1. CASE \E s \in Session : Pipeline(s)
  BY <1>1, PipelineStep
<1>2. CASE PeerBegins \/ PeerFails \/ \E p \in Program : NewTransaction(p)
  BY <1>2, OutsideStep
<1>3. CASE ListPages \/ Fetch \/ FetchMissing \/ FinishScan
  BY <1>3, ScanStep
<1>4. CASE ScanFails \/ SessionRefuses \/ Crash
  BY <1>4, FailureStep
<1>5. CASE BeginCycle \/ EndCycle
  BY <1>5, CycleStep
<1>6. CASE UNCHANGED vars
  BY <1>6, DexStutters
<1> QED BY <1>1, <1>2, <1>3, <1>4, <1>5, <1>6 DEF Next, Cycle, Session

LEMMA DexAlways == Spec => []DexInv
BY InitDex, DexStep, PTL DEF Spec

-----------------------------------------------------------------------------

LEMMA RestIsSuffix ==
  ASSUME CycleOK
  PROVE  IsSuffix(left, Programs)
<1> DEFINE n == Len(left)
           m == Len(Programs)
<1>1. n \in Nat /\ m \in Nat /\ n <= m /\ left \in Seq(Program) /\ Programs \in Seq(Program)
      /\ \A i \in 1 .. n : left[i] = Programs[m - n + i]
  BY DiscoveryAssumption DEF CycleOK
<1> HIDE DEF n, m
<1> DEFINE a == [i \in 1 .. n |-> left[n - i + 1]]
           b == [i \in 1 .. m |-> Programs[m - i + 1]]
<1>2. Reverse(left) = a /\ Reverse(Programs) = b
  BY DEF Reverse, n, m
<1>3. /\ a \in Seq(Program) /\ Len(a) = n /\ b \in Seq(Program) /\ Len(b) = m
  <2>1. \A i \in 1 .. n : n - i + 1 \in 1 .. n
    BY <1>1
  <2>2. \A i \in 1 .. m : m - i + 1 \in 1 .. m
    BY <1>1
  <2>3. (\A i \in 1 .. n : left[i] \in Program) /\ (\A i \in 1 .. m : Programs[i] \in Program)
    BY <1>1 DEF n, m
  <2> QED BY <1>1, <2>1, <2>2, <2>3
<1>4. ASSUME NEW i \in 1 .. n PROVE a[i] = b[i]
  <2>1. n - i + 1 \in 1 .. n /\ m - n + (n - i + 1) = m - i + 1 /\ i \in 1 .. m
    BY <1>1
  <2> QED BY <1>1, <2>1
<1>5. SubSeq(a, 1, n) = SubSeq(b, 1, n)
  <2> HIDE DEF a, b
  <2>1. SubSeq(a, 1, n) = [i \in 1 .. n |-> a[i]]
    BY <1>1, <1>3
  <2>2. SubSeq(b, 1, n) = [i \in 1 .. n |-> b[i]]
    BY <1>1, <1>3
  <2> QED BY <1>4, <2>1, <2>2
<1> HIDE DEF a, b
<1> QED BY <1>1, <1>2, <1>3, <1>5 DEF IsSuffix, IsPrefix

(* Every variable has its type, the trades of a score are stored and are of its
   wallet, and what is left of a cycle is the rest of the configured programs. *)
THEOREM DiscoveryTypeCorrect == Spec => []TypeOK
<1>1. DexInv => TypeOK
  <2> SUFFICES ASSUME DexInv PROVE TypeOK
    OBVIOUS
  <2>1. cursor \in [Program -> 0 .. MaxTx]
    <3>1. ASSUME NEW p \in Program PROVE cursor[p] \in 0 .. MaxTx
      <4>1. cursor[p] \in Nat /\ cursor[p] <= Height(p) /\ Height(p) <= MaxTx /\ Height(p) \in Nat
        BY DEF DexInv, PipelineOK, ChainOK, SamplesOK, Height
      <4> QED BY <4>1, DiscoveryAssumption
    <3> QED BY <3>1 DEF DexInv, SamplesOK
  <2>2. /\ rows \subseteq Wallet \cup Token \cup OnChain
        /\ \A w \in Wallet : \A t \in scores[w] : t \in rows /\ Swap(t).wallet = w
        /\ published \subseteq rows /\ sampled \subseteq OnChain /\ lost \subseteq sampled
        /\ \A s \in Session : tx[s] \in OnChain \cup {NoTx} /\ at[s] \in 1 .. 5
    BY DEF DexInv, PipelineOK, TablesOK, SessionsOK, SamplesOK
  <2>3. /\ pc \in {"idle", "cycle", "scan"}
        /\ pc = "scan" => left # <<>> /\ \A i \in DOMAIN todo : todo[i] \in OnChain
        /\ tx[Discovery] # NoTx => pc = "scan" /\ tx[Discovery][1] = Head(left)
    BY DEF DexInv, ScanOK, SamplesOK
  <2> QED BY <2>1, <2>2, <2>3, RestIsSuffix DEF DexInv, CycleOK, TypeOK
<1> QED BY <1>1, DexAlways, PTL

(* The cursor of a program passes a transaction that was sampled only when its events
   were published, unless its details were missing or it left the window of a scan
   before, whatever fails or crashes in between (scan_program). *)
THEOREM NothingSampledIsMissed == Spec => []SampledIsPublished
<1>1. DexInv => SampledIsPublished
  BY DEF DexInv, SamplesOK
<1> QED BY <1>1, DexAlways, PTL

(* The score of a wallet that only the discovery handles was computed from every
   trade whose handling was completed (TradeCollector, ScoreCollector). *)
THEOREM PublishedTradesAreScored == Spec => []PublishedIsScored
<1>1. DexInv => PublishedIsScored
  BY DEF DexInv, PipelineOK
<1> QED BY <1>1, DexAlways, PTL

=============================================================================
