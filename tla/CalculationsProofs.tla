---------------------- MODULE CalculationsProofs ----------------------
(***************************************************************************)
(* That the calculators, which go through a history once, find what its    *)
(* definition says, for histories of any length: what is held, in SQL and  *)
(* in Python, the busiest windows, the cycles of buying and selling, the   *)
(* books of a position, and the evidence that scores rest on.              *)
(*                                                                         *)
(* A fold is a recursive function on the subsets of the positions of a     *)
(* history.  RecursionExists shows once that such functions exist, so that *)
(* each fold below becomes a function of the length of the history, which  *)
(* an equation describes (Runs, Replays, Rolls, CyclesRun).  What holds of *)
(* all its values is proved by looking at the least length at which it     *)
(* would not (LeastNumber).  Of the rounding of doubles no more is used    *)
(* than DoublesAssumption; where the code adds doubles, the sums are shown *)
(* to stay near those of an exact pass (SumsStayNear, AlwaysShadows).      *)
(***************************************************************************)
EXTENDS MCCalculations, FiniteSetTheorems, SequenceTheorems, TLAPS

(* The trades a history is made of; amounts are counted in the smallest unit of a
   token, as on the chain. *)
TradeType ==
  [wallet : Nat, token : Nat, side : {"buy", "sell"}, amount : Nat, sol : Int, at : Int]

-----------------------------------------------------------------------------
(* Induction *)

(* A non-empty set of subsets of a finite set has a minimal one. *)
LEMMA SubsetInduction ==
  ASSUME NEW S, IsFiniteSet(S), NEW T \in SUBSET SUBSET S, T # {}
  PROVE  \E x \in T : \A y \in T : ~ (y \subseteq x /\ y # x)
<1>1. IsWellFoundedOn(StrictSubsetOrdering(S), SUBSET S)
  BY FS_StrictSubsetOrderingWellFounded, FS_FiniteSubsetsOfFinite
<1>2. \E x \in T : \A y \in T : ~ (<<y, x>> \in StrictSubsetOrdering(S))
  BY <1>1, WFMin
<1> QED BY <1>2 DEF StrictSubsetOrdering

(* A non-empty set of numbers has a least one. *)
LEMMA LeastNumber ==
  ASSUME NEW T \in SUBSET Nat, T # {}
  PROVE  \E x \in T : \A y \in T : x <= y
<1>1. PICK t \in T : TRUE
  OBVIOUS
<1> DEFINE I == {0 .. k : k \in {n \in T : n <= t}}
<1>2. I \in SUBSET SUBSET (0 .. t) /\ I # {}
  <2>1. 0 .. t \in I
    BY <1>1
  <2> QED BY <2>1
<1>3. IsFiniteSet(0 .. t)
  BY FS_Interval
<1>4. PICK s \in I : \A y \in I : ~ (y \subseteq s /\ y # s)
  <2> DEFINE R == 0 .. t
  <2>1. I \in SUBSET SUBSET R /\ I # {} /\ IsFiniteSet(R)
    BY <1>2, <1>3
  <2> HIDE DEF I, R
  <2> QED BY <2>1, SubsetInduction
<1>5. PICK k \in T : k <= t /\ s = 0 .. k
  BY <1>4
<1>6. ASSUME NEW y \in T, y < k PROVE FALSE
  <2>1. 0 .. y \in I
    BY <1>5, <1>6
  <2>2. 0 .. y \subseteq 0 .. k /\ k \in 0 .. k /\ k \notin 0 .. y
    BY <1>6
  <2> QED BY <1>4, <1>5, <2>1, <2>2
<1> QED BY <1>5, <1>6


(* A non-empty set of numbers up to N has a greatest one. *)
LEMMA MaxIsIn ==
  ASSUME NEW N \in Nat, NEW s \in SUBSET (0 .. N), s # {}
  PROVE  Max(s) \in s /\ \A x \in s : x <= Max(s)
<1> DEFINE Above == {n \in Nat : \A x \in s : x <= n}
<1>1. PICK b \in Above : \A n \in Above : b <= n
  <2>1. Above \in SUBSET Nat /\ N \in Above
    OBVIOUS
  <2> HIDE DEF Above
  <2> QED BY <2>1, LeastNumber
<1>2. b \in s
  <2> SUFFICES ASSUME b \notin s PROVE FALSE
    OBVIOUS
  <2>1. PICK y \in s : TRUE
    OBVIOUS
  <2>2. y \in Nat /\ y < b
    BY <1>1, <2>1
  <2>3. b - 1 \in Nat /\ \A x \in s : x <= b - 1
    BY <1>1, <2>2
  <2> QED BY <1>1, <2>3
<1>3. \A x \in s : b >= x
  BY <1>1
<1>4. Max(s) \in s /\ \A x \in s : Max(s) >= x
  BY <1>2, <1>3 DEF Max
<1> QED BY <1>4

LEMMA MaxOfInterval ==
  ASSUME NEW n \in Nat, n # 0
  PROVE  Max(1 .. n) = n
<1>1. 1 .. n \in SUBSET (0 .. n) /\ n \in 1 .. n
  OBVIOUS
<1>2. 1 .. n # {}
  BY <1>1
<1>3. Max(1 .. n) \in 1 .. n /\ \A x \in 1 .. n : x <= Max(1 .. n)
  BY <1>1, <1>2, MaxIsIn
<1>4. n <= Max(1 .. n)
  BY <1>1, <1>3
<1> QED BY <1>3, <1>4

-----------------------------------------------------------------------------
(* The community modules define folds by recursion over the subsets of a set, one
   element at a time: these are the calculations made with them. *)

Calculation == {"sum", "add", "replay", "slide", "cycle", "exact", "accrue"}

(* A sum, of numbers or of fractions, takes any element out, a pass over a history
   the last one. *)
Chosen(s) == CHOOSE x \in s : TRUE
Taken(calc, s) == IF calc \in {"sum", "add"} THEN Chosen(s) ELSE Max(s)

Start(calc) ==
  CASE calc = "sum" -> 0
    [] calc = "add" -> Zero
    [] calc = "replay" -> NoPosition
    [] calc = "slide" -> [left |-> 1, most |-> 0]
    [] calc = "cycle" -> NoCycle
    [] calc = "exact" -> NoCycle
    [] calc = "accrue" -> 0

Trades(p, x) == IF IsBuy(x) THEN Buy(p, x) ELSE Sell(p, x)

Slide(h, seconds, s, right) ==
  LET left == Left(h, s.left, right, seconds)
  IN [left |-> left, most |-> Max({s.most, right - left + 1})]

Turn(s, x) == IF IsBuy(x) THEN Open(s, x) ELSE Close(s, x)

(* The same pass if amounts were added up exactly. *)
ExactOpen(c, x) ==
  [c EXCEPT !.open = @ + x.amount, !.since = IF c.open = 0 THEN x.at ELSE @]

ExactClose(c, x) ==
  LET held == x.at - c.since  left == Max({c.open - x.amount, 0})
      emptied == c.open > 0 /\ left = 0
  IN [open |-> left, since |-> c.since,
      rapid |-> IF emptied /\ held <= RapidExit THEN c.rapid + 1 ELSE c.rapid,
      long |-> IF emptied /\ held >= MinHold THEN c.long + 1 ELSE c.long]

ExactTurn(s, x) == IF IsBuy(x) THEN ExactOpen(s, x) ELSE ExactClose(s, x)

(* arg is a function to sum, a history, or a history and the length of a window. *)
Step(calc, arg, before, x) ==
  CASE calc = "sum" -> arg[x] + before
    [] calc = "add" -> Plus(arg[x], before)
    [] calc = "replay" -> Trades(before, arg[x])
    [] calc = "slide" -> Slide(arg[1], arg[2], before, x)
    [] calc = "cycle" -> Turn(before, arg[x])
    [] calc = "exact" -> ExactTurn(before, arg[x])
    [] calc = "accrue" -> Add(before, SignedAmount(arg[x]))

(* it is the function that the fold of calc over the subsets of S chooses. *)
Computes(it, calc, arg, S) ==
  it = [s \in SUBSET S |->
          IF s = {} THEN Start(calc)
          ELSE Step(calc, arg, it[s \ {Taken(calc, s)}], Taken(calc, s))]

(* Such functions exist, so that the recursions can be unfolded. *)
LEMMA RecursionExists ==
  ASSUME NEW calc \in Calculation, NEW arg, NEW N \in Nat, NEW S \in SUBSET (0 .. N)
  PROVE  \E it : Computes(it, calc, arg, S)
<1> DEFINE Small(n) == {s \in SUBSET S : Cardinality(s) <= n}
           After(it, s) == IF s = {} THEN Start(calc)
                          ELSE Step(calc, arg, it[s \ {Taken(calc, s)}], Taken(calc, s))
           Sums(it, n) == it = [s \in Small(n) |-> After(it, s)]
           Bad == {n \in Nat : ~ \E it : Sums(it, n)}
<1>0. IsFiniteSet(S)
  <2>1. IsFiniteSet(0 .. N)
    BY FS_Interval
  <2>2. S \subseteq 0 .. N
    OBVIOUS
  <2> HIDE DEF Small, Bad
  <2> QED BY <2>1, <2>2, FS_Subset
<1>1. \A s \in SUBSET S : IsFiniteSet(s) /\ Cardinality(s) \in Nat
                           /\ Cardinality(s) <= Cardinality(S)
  BY <1>0, FS_Subset, FS_CardinalityType
<1>2. \A s \in SUBSET S : s # {} =>
        /\ Taken(calc, s) \in s /\ s \ {Taken(calc, s)} \in SUBSET S
        /\ Cardinality(s \ {Taken(calc, s)}) = Cardinality(s) - 1
  <2>1. \A s \in SUBSET S : s # {} => Taken(calc, s) \in s
    BY MaxIsIn DEF Taken, Chosen
  <2> QED BY <1>1, <2>1, FS_RemoveElement
<1>3. \E it : Sums(it, 0)
  <2>1. Small(0) = {{}}
    BY <1>1, FS_EmptySet
  <2>2. Sums([s \in {{}} |-> Start(calc)], 0)
    BY <2>1
  <2> QED BY <2>2
<1>4. ASSUME NEW n \in Nat, NEW it, Sums(it, n)
      PROVE  \E new : Sums(new, n + 1)
  <2> DEFINE new == [s \in Small(n + 1) |-> After(it, s)]
  <2>1. ASSUME NEW s \in Small(n) PROVE new[s] = it[s]
    <3>1. s \in Small(n + 1)
      BY <1>1
    <3> QED BY <1>4, <3>1
  <2>2. ASSUME NEW s \in Small(n + 1) PROVE new[s] = After(new, s)
    <3>1. CASE s = {}
      BY <3>1
    <3>2. CASE s # {}
      <4>1. s \ {Taken(calc, s)} \in Small(n)
        BY <1>1, <1>2, <3>2
      <4>2. new[s \ {Taken(calc, s)}] = it[s \ {Taken(calc, s)}]
        BY <2>1, <4>1
      <4> QED BY <3>2, <4>2
    <3> QED BY <3>1, <3>2
  <2>3. new = [s \in Small(n + 1) |-> After(new, s)]
    BY <2>2
  <2> QED BY <2>3
<1>5. Bad = {}
  <2> SUFFICES ASSUME Bad # {} PROVE FALSE
    OBVIOUS
  <2>1. PICK n \in Bad : \A m \in Bad : n <= m
    <3> HIDE DEF Bad
    <3>1. Bad \in SUBSET Nat
      BY DEF Bad
    <3> QED BY <3>1, LeastNumber
  <2> HIDE DEF Sums
  <2>2. n \in Nat /\ ~ \E it : Sums(it, n)
    OBVIOUS
  <2>3. n # 0
    BY <1>3, <2>2
  <2>4. n - 1 \in Nat /\ n = (n - 1) + 1 /\ ~(n <= n - 1)
    BY <2>2, <2>3
  <2>5. n - 1 \notin Bad
    <3> HIDE DEF Bad
    <3> QED BY <2>1, <2>4
  <2>6. \E it : Sums(it, n - 1)
    BY <2>4, <2>5
  <2>7. \E it : Sums(it, (n - 1) + 1)
    BY <1>4, <2>4, <2>6
  <2> QED BY <2>2, <2>4, <2>7
<1>6. PICK it : Sums(it, Cardinality(S))
  <2>1. Cardinality(S) \in Nat
    BY <1>0, FS_CardinalityType
  <2> HIDE DEF Sums
  <2> QED BY <1>5, <2>1
<1>7. Small(Cardinality(S)) = SUBSET S
  BY <1>1
<1> QED BY <1>6, <1>7 DEF Computes


(* it computes, for every subset of S, the sum of f over it. *)
SumsUp(it, f, S) ==
  it = [s \in SUBSET S |-> IF s = {} THEN 0 ELSE f[Chosen(s)] + it[s \ {Chosen(s)}]]

(* it computes, for every subset of S, the sum of the fractions of f over it. *)
AddsUp(it, f, S) ==
  it = [s \in SUBSET S |-> IF s = {} THEN Zero ELSE Plus(f[Chosen(s)], it[s \ {Chosen(s)}])]

(* it computes, for every set of positions in h, the fold over it. *)
Folds(it, h) ==
  it = [s \in SUBSET (DOMAIN h) |->
          IF s = {} THEN NoPosition ELSE Trades(it[s \ {Max(s)}], h[Max(s)])]

Slides(it, h, seconds) ==
  it = [s \in SUBSET (DOMAIN h) |->
          IF s = {} THEN [left |-> 1, most |-> 0]
          ELSE Slide(h, seconds, it[s \ {Max(s)}], [i \in DOMAIN h |-> i][Max(s)])]

Turns(it, h) ==
  it = [s \in SUBSET (DOMAIN h) |->
          IF s = {} THEN NoCycle ELSE Turn(it[s \ {Max(s)}], h[Max(s)])]

LEMMA SumsExist ==
  ASSUME NEW f, NEW N \in Nat, NEW S \in SUBSET (0 .. N)
  PROVE  \E it : SumsUp(it, f, S)
<1>1. PICK it : Computes(it, "sum", f, S)
  BY RecursionExists DEF Calculation
<1>2. SumsUp(it, f, S)
  BY <1>1 DEF Computes, SumsUp, Start, Step, Taken
<1> QED BY <1>2

LEMMA FractionSumsExist ==
  ASSUME NEW f, NEW N \in Nat, NEW S \in SUBSET (0 .. N)
  PROVE  \E it : AddsUp(it, f, S)
<1>1. PICK it : Computes(it, "add", f, S)
  BY RecursionExists DEF Calculation
<1>2. AddsUp(it, f, S)
  BY <1>1 DEF Computes, AddsUp, Start, Step, Taken
<1> QED BY <1>2

LEMMA FoldsExist ==
  ASSUME NEW h \in Seq(TradeType)
  PROVE  \E it : Folds(it, h)
<1>1. Len(h) \in Nat /\ DOMAIN h \in SUBSET (0 .. Len(h))
  OBVIOUS
<1>2. PICK it : Computes(it, "replay", h, DOMAIN h)
  BY <1>1, RecursionExists DEF Calculation
<1>3. Folds(it, h)
  BY <1>2 DEF Computes, Folds, Start, Step, Taken
<1> QED BY <1>3

LEMMA TurnsExist ==
  ASSUME NEW h \in Seq(TradeType)
  PROVE  \E it : Turns(it, h)
<1>1. Len(h) \in Nat /\ DOMAIN h \in SUBSET (0 .. Len(h))
  OBVIOUS
<1>2. PICK it : Computes(it, "cycle", h, DOMAIN h)
  BY <1>1, RecursionExists DEF Calculation
<1>3. Turns(it, h)
  BY <1>2 DEF Computes, Turns, Start, Step, Taken
<1> QED BY <1>3

LEMMA SlidesExist ==
  ASSUME NEW h \in Seq(TradeType), NEW seconds
  PROVE  \E it : Slides(it, h, seconds)
<1>1. Len(h) \in Nat /\ DOMAIN h \in SUBSET (0 .. Len(h)) /\ DOMAIN h = 1 .. Len(h)
  OBVIOUS
<1>2. PICK it : Computes(it, "slide", <<h, seconds>>, DOMAIN h)
  BY <1>1, RecursionExists DEF Calculation
<1>3. \A s \in SUBSET (DOMAIN h) : s # {} => Max(s) \in DOMAIN h
  BY <1>1, MaxIsIn
<1>4. \A s \in SUBSET (DOMAIN h) : s # {} => [i \in DOMAIN h |-> i][Max(s)] = Max(s)
  BY <1>3
<1>5. Slides(it, h, seconds)
  BY <1>2, <1>4 DEF Computes, Slides, Start, Step, Taken
<1> QED BY <1>5

(* What the operators of the calculators are, in those terms. *)
LEMMA SumIsChosen ==
  ASSUME NEW S, NEW f, DOMAIN f = S
  PROVE  SumFunction(f) = (CHOOSE it : SumsUp(it, f, S))[S]
BY DEF SumFunction, SumFunctionOnSet, FoldFunctionOnSet, MapThenFoldSet, SumsUp, Chosen

LEMMA FractionSumIsChosen ==
  ASSUME NEW S, NEW f, DOMAIN f = S
  PROVE  Sum(f) = (CHOOSE it : AddsUp(it, f, S))[S]
BY DEF Sum, FoldFunction, FoldFunctionOnSet, MapThenFoldSet, AddsUp, Chosen

LEMMA ReplayIsChosen ==
  ASSUME NEW h
  PROVE  Replay(h) = (CHOOSE it : Folds(it, h))[DOMAIN h]
BY DEF Replay, FoldLeft, MapThenFoldSet, Folds, Trades

LEMMA RollingIsChosen ==
  ASSUME NEW h, NEW seconds
  PROVE  RollingTrades(h, seconds) = (CHOOSE it : Slides(it, h, seconds))[DOMAIN h].most
<1>1. DOMAIN [i \in DOMAIN h |-> i] = DOMAIN h
  OBVIOUS
<1> QED BY <1>1 DEF RollingTrades, FoldLeft, MapThenFoldSet, Slides, Slide

-----------------------------------------------------------------------------
(* Sums and folds, one trade at a time *)

SumsNumbers(it, f, S) == IsFiniteSet(S) /\ SumsUp(it, f, S) /\ \A x \in S : f[x] \in Int

Splits(it, f, s, x) == it[s] \in Int /\ it[s \ {x}] \in Int /\ it[s] = f[x] + it[s \ {x}]

(* A sum is taken in any order. *)
LEMMA SumWithout ==
  ASSUME NEW f, NEW S, NEW it, SumsNumbers(it, f, S)
  PROVE  \A s \in SUBSET S : \A x \in s : Splits(it, f, s, x)
<1>0. IsFiniteSet(S) /\ SumsUp(it, f, S) /\ \A x \in S : f[x] \in Int
  BY DEF SumsNumbers
<1> DEFINE Good(r) == it[r] \in Int /\ \A y \in r : it[r] = f[y] + it[r \ {y}]
           Bad == {r \in SUBSET S : ~ Good(r)}
<1>1. \A r \in SUBSET S : it[r] = IF r = {} THEN 0 ELSE f[Chosen(r)] + it[r \ {Chosen(r)}]
  BY <1>0 DEF SumsUp
<1>2. ASSUME Bad # {} PROVE FALSE
  <2>1. PICK r \in Bad : \A y \in Bad : ~ (y \subseteq r /\ y # r)
    <3>1. Bad \in SUBSET SUBSET S
      OBVIOUS
    <3> HIDE DEF Bad
    <3> QED BY <1>0, <1>2, <3>1, SubsetInduction
  <2>2. r \in SUBSET S /\ r # {} /\ ~ Good(r)
    <3>1. it[{}] = 0
      BY <1>1
    <3>2. Good({})
      BY <3>1
    <3>3. r \in SUBSET S /\ ~ Good(r)
      OBVIOUS
    <3> HIDE DEF Good
    <3> QED BY <3>2, <3>3
  <2> DEFINE c == Chosen(r)
  <2>3. c \in r /\ it[r] = f[c] + it[r \ {c}]
    BY <1>1, <2>2 DEF Chosen
  <2> HIDE DEF c
  <2>4. \A y \in r : Good(r \ {y})
    BY <2>1, <2>2
  <2>5. ASSUME NEW y \in r PROVE it[r] = f[y] + it[r \ {y}]
    <3>1. CASE y = c
      BY <2>3, <3>1
    <3>2. CASE y # c
      <4>1. it[r \ {c}] = f[y] + it[(r \ {c}) \ {y}]
        BY <2>3, <2>4, <3>2
      <4>2. it[r \ {y}] = f[c] + it[(r \ {y}) \ {c}]
        BY <2>3, <2>4, <3>2
      <4>3. (r \ {y}) \ {c} = (r \ {c}) \ {y}
        OBVIOUS
      <4>4. (r \ {c}) \ {y} \notin Bad /\ (r \ {c}) \ {y} \in SUBSET S
        <5>1. (r \ {c}) \ {y} \subseteq r /\ (r \ {c}) \ {y} # r
          BY <2>3
        <5> HIDE DEF Bad
        <5> QED BY <2>1, <2>2, <5>1
      <4>5. it[(r \ {c}) \ {y}] \in Int /\ f[c] \in Int /\ f[y] \in Int
        BY <1>0, <2>2, <2>3, <4>4
      <4> DEFINE u == it[r \ {c}]
                 v == it[r \ {y}]
                 w == it[(r \ {c}) \ {y}]
      <4>6. it[r] = f[c] + u /\ u = f[y] + w /\ v = f[c] + w
        BY <2>3, <4>1, <4>2, <4>3
      <4>7. w \in Int
        BY <4>5
      <4> HIDE DEF Bad, Good, u, w
      <4>8. it[r] = f[y] + v
        <5> HIDE DEF v
        <5> QED BY <4>5, <4>6, <4>7
      <4> QED BY <4>8
    <3> QED BY <3>1, <3>2
  <2>6. f[c] \in Int /\ it[r \ {c}] \in Int
    BY <1>0, <2>2, <2>3, <2>4
  <2>7. it[r] \in Int
    <3> DEFINE u == it[r \ {c}]
    <3>1. it[r] = f[c] + u /\ u \in Int
      BY <2>3, <2>6
    <3> HIDE DEF u, Bad
    <3> QED BY <2>6, <3>1
  <2> QED BY <2>2, <2>5, <2>7
<1>3. \A s \in SUBSET S : Good(s)
  BY <1>2
<1>4. ASSUME NEW s \in SUBSET S, NEW x \in s
      PROVE  Splits(it, f, s, x)
  <2>1. Good(s) /\ Good(s \ {x})
    <3>1. s \ {x} \in SUBSET S
      OBVIOUS
    <3> HIDE DEF Good
    <3> QED BY <1>3, <3>1
  <2> QED BY <2>1 DEF Splits
<1> QED BY <1>4

(* The sum over a part of S is the same within a larger set. *)
LEMMA SumsAgree ==
  ASSUME NEW f, NEW g, NEW S, NEW R, IsFiniteSet(S), S \subseteq R,
         \A x \in S : f[x] = g[x],
         NEW it, SumsUp(it, f, S), NEW jt, SumsUp(jt, g, R)
  PROVE  it[S] = jt[S]
<1> DEFINE Bad == {r \in SUBSET S : it[r] # jt[r]}
<1>1. \A r \in SUBSET S : it[r] = IF r = {} THEN 0 ELSE f[Chosen(r)] + it[r \ {Chosen(r)}]
  BY DEF SumsUp
<1>2. \A r \in SUBSET S : jt[r] = IF r = {} THEN 0 ELSE g[Chosen(r)] + jt[r \ {Chosen(r)}]
  BY DEF SumsUp
<1>3. ASSUME Bad # {} PROVE FALSE
  <2>1. PICK r \in Bad : \A y \in Bad : ~ (y \subseteq r /\ y # r)
    <3>1. Bad \in SUBSET SUBSET S
      OBVIOUS
    <3> HIDE DEF Bad
    <3> QED BY <1>3, <3>1, SubsetInduction
  <2>2. r \in SUBSET S /\ r # {} /\ it[r] # jt[r]
    BY <1>1, <1>2
  <2> DEFINE c == Chosen(r)
  <2>3. c \in r
    BY <2>2 DEF Chosen
  <2>4. it[r] = f[c] + it[r \ {c}] /\ jt[r] = g[c] + jt[r \ {c}]
    BY <1>1, <1>2, <2>2
  <2> HIDE DEF c
  <2>5. it[r \ {c}] = jt[r \ {c}]
    BY <2>1, <2>2, <2>3
  <2> QED BY <2>2, <2>3, <2>4, <2>5
<1> QED BY <1>3

(* F[k] is the sum of the first k of n numbers. *)
Adds(F, e, n) ==
  /\ F[0] = 0
  /\ \A k \in 0 .. n : F[k] \in Int
  /\ \A k \in 1 .. n : F[k] = F[k - 1] + e[k]

LEMMA NumbersUpTo ==
  ASSUME NEW n \in Nat
  PROVE  IsFiniteSet(1 .. n) /\ 1 .. n \in SUBSET (0 .. n)
BY FS_Interval

LEMMA SumAdds ==
  ASSUME NEW n \in Nat, NEW e \in [1 .. n -> Int]
  PROVE  \E F : Adds(F, e, n) /\ SumFunction(e) = F[n]
<1> DEFINE it == CHOOSE j : SumsUp(j, e, 1 .. n)
           F == [k \in 0 .. n |-> it[1 .. k]]
           S == 1 .. n
<1>1. SumFunction(e) = it[1 .. n]
  BY SumIsChosen
<1>2. SumsUp(it, e, S)
  <2>1. \E j : SumsUp(j, e, S)
    BY NumbersUpTo, SumsExist
  <2> QED BY <2>1
<1> HIDE DEF it
<1>3. SumsNumbers(it, e, S)
  BY <1>2, NumbersUpTo DEF SumsNumbers
<1>4. \A k \in 0 .. n : F[k] = it[1 .. k]
  OBVIOUS
<1>5. it[1 .. 0] = 0
  <2>1. 1 .. 0 = {} /\ {} \in SUBSET S
    OBVIOUS
  <2>2. it[{}] = 0
    BY <1>2, <2>1 DEF SumsUp
  <2> QED BY <2>1, <2>2
<1> HIDE DEF F
<1>6. F[0] = 0
  BY <1>4, <1>5
<1>7. ASSUME NEW k \in 1 .. n PROVE F[k] \in Int /\ F[k] = F[k - 1] + e[k]
  <2> DEFINE part == 1 .. k
  <2>1. part \in SUBSET S /\ k \in part /\ part \ {k} = 1 .. k - 1
    OBVIOUS
  <2> HIDE DEF part, S
  <2>2. Splits(it, e, part, k)
    BY <1>3, <2>1, SumWithout
  <2>3. it[part] \in Int /\ it[part] = e[k] + it[1 .. k - 1] /\ it[1 .. k - 1] \in Int
    BY <2>1, <2>2 DEF Splits
  <2>4. F[k] = it[part] /\ F[k - 1] = it[1 .. k - 1]
    BY <1>4 DEF part
  <2>5. e[k] \in Int
    OBVIOUS
  <2> QED BY <2>3, <2>4, <2>5
<1>8. \A k \in 0 .. n : F[k] \in Int
  <2>1. \A k \in 0 .. n : k = 0 \/ k \in 1 .. n
    OBVIOUS
  <2> QED BY <1>6, <1>7, <2>1
<1>9. Adds(F, e, n)
  BY <1>6, <1>7, <1>8 DEF Adds
<1>10. SumFunction(e) = F[n]
  BY <1>1, <1>4
<1> QED BY <1>9, <1>10

(* The running sums of a history: F[n] is the sum over its first n trades. *)
Runs(F, h) ==
  /\ F[0] = 0
  /\ \A n \in 0 .. Len(h) : F[n] \in Int
  /\ \A n \in 1 .. Len(h) : F[n] = F[n - 1] + Signed(h[n])

LEMMA SignedIsInt ==
  ASSUME NEW x \in TradeType
  PROVE  Signed(x) \in Int
BY DEF TradeType, Signed, Bought, Sold

LEMMA TotalOfPart ==
  ASSUME NEW h \in Seq(TradeType), NEW it, NEW f, f = [i \in DOMAIN h |-> Signed(h[i])],
         SumsUp(it, f, DOMAIN h), NEW n \in 0 .. Len(h)
  PROVE  Total(SubSeq(h, 1, n), Signed) = it[1 .. n]
<1> DEFINE g == SubSeq(h, 1, n)
           e == [i \in DOMAIN g |-> Signed(g[i])]
           jt == CHOOSE j : SumsUp(j, e, DOMAIN g)
<1>1. DOMAIN h = 1 .. Len(h) /\ Len(h) \in Nat
  OBVIOUS
<1>2. DOMAIN g = 1 .. n /\ \A i \in 1 .. n : g[i] = h[i]
  BY <1>1
<1> HIDE DEF g
<1>3. IsFiniteSet(DOMAIN g)
  BY <1>2, FS_Interval
<1>4. SumsUp(jt, e, DOMAIN g)
  <2> HIDE DEF e
  <2>1. n \in Nat /\ DOMAIN g \in SUBSET (0 .. n)
    BY <1>1, <1>2
  <2>2. \E j : SumsUp(j, e, DOMAIN g)
    BY <2>1, SumsExist
  <2> QED BY <2>2
<1>5. Total(g, Signed) = jt[DOMAIN g]
  <2>1. Total(g, Signed) = SumFunction(e) /\ DOMAIN e = DOMAIN g
    BY DEF Total
  <2> HIDE DEF e
  <2> QED BY <2>1, SumIsChosen
<1>6. DOMAIN g \subseteq DOMAIN h /\ \A x \in DOMAIN g : e[x] = f[x]
  BY <1>1, <1>2
<1>7. jt[DOMAIN g] = it[DOMAIN g]
  <2> DEFINE S == DOMAIN g
             R == DOMAIN h
  <2>1. IsFiniteSet(S) /\ S \subseteq R /\ SumsUp(jt, e, S) /\ SumsUp(it, f, R)
    BY <1>3, <1>4, <1>6
  <2>2. \A x \in S : e[x] = f[x]
    BY <1>6
  <2> HIDE DEF e, jt, S, R
  <2>3. jt[S] = it[S]
    BY <2>1, <2>2, SumsAgree, SMTT(40)
  <2> QED BY <2>3 DEF S
<1> QED BY <1>2, <1>7, <1>5 DEF g

LEMMA TotalsRun ==
  ASSUME NEW h \in Seq(TradeType)
  PROVE  \E F : Runs(F, h) /\ \A n \in 0 .. Len(h) : Total(SubSeq(h, 1, n), Signed) = F[n]
<1> DEFINE f == [i \in DOMAIN h |-> Signed(h[i])]
<1>1. DOMAIN h = 1 .. Len(h) /\ Len(h) \in Nat /\ IsFiniteSet(DOMAIN h)
  BY FS_Interval
<1>2. \A i \in DOMAIN h : h[i] \in TradeType
  OBVIOUS
<1>3. \A i \in DOMAIN h : f[i] = Signed(h[i]) /\ f[i] \in Int
  BY <1>2, SignedIsInt
<1>4. PICK it : SumsUp(it, f, DOMAIN h)
  <2>1. Len(h) \in Nat /\ DOMAIN h \in SUBSET (0 .. Len(h))
    BY <1>1
  <2> HIDE DEF f
  <2> QED BY <2>1, SumsExist
<1> DEFINE F == [n \in 0 .. Len(h) |-> it[1 .. n]]
<1>5. \A n \in 0 .. Len(h) : Total(SubSeq(h, 1, n), Signed) = F[n]
  <2>1. f = [i \in DOMAIN h |-> Signed(h[i])]
    OBVIOUS
  <2> HIDE DEF f
  <2> QED BY <1>4, <2>1, TotalOfPart
<1>6. F[0] = 0
  <2>1. it[{}] = 0 /\ 1 .. 0 = {}
    BY <1>4 DEF SumsUp
  <2> QED BY <1>1, <2>1
<1>7. ASSUME NEW n \in 1 .. Len(h)
      PROVE  F[n] \in Int /\ F[n] = F[n - 1] + Signed(h[n])
  <2>1. 1 .. n \in SUBSET (DOMAIN h) /\ n \in 1 .. n /\ (1 .. n) \ {n} = 1 .. n - 1
    BY <1>1
  <2>2. it[1 .. n] \in Int /\ it[1 .. n] = f[n] + it[(1 .. n) \ {n}] /\ it[(1 .. n) \ {n}] \in Int
    <3> DEFINE S == DOMAIN h
               part == 1 .. n
    <3>1. IsFiniteSet(S) /\ SumsUp(it, f, S) /\ part \in SUBSET S /\ n \in part
      BY <1>1, <1>4, <2>1
    <3>2. \A i \in S : f[i] \in Int
      BY <1>3
    <3> HIDE DEF f, F, S, part
    <3>0. SumsNumbers(it, f, S)
      BY <3>1, <3>2 DEF SumsNumbers
    <3>3. Splits(it, f, part, n)
      BY <3>0, <3>1, SumWithout
    <3> QED BY <3>3 DEF part, Splits
  <2>3. F[n] = it[1 .. n] /\ F[n - 1] = it[1 .. n - 1] /\ n \in DOMAIN h
    BY <1>1
  <2>4. f[n] = Signed(h[n])
    BY <1>3, <2>3
  <2>5. F[n] = f[n] + it[1 .. n - 1] /\ F[n] \in Int
    <3> HIDE DEF f, F
    <3> QED BY <2>1, <2>2, <2>3
  <2>6. F[n] = Signed(h[n]) + F[n - 1] /\ F[n - 1] \in Int
    <3>1. it[1 .. n - 1] \in Int
      BY <2>1, <2>2
    <3> HIDE DEF f, F
    <3> QED BY <2>3, <2>4, <2>5, <3>1
  <2>7. Signed(h[n]) \in Int
    BY <1>2, <2>3, SignedIsInt
  <2> HIDE DEF f, F
  <2> QED BY <2>5, <2>6, <2>7
<1>8. \A n \in 0 .. Len(h) : F[n] \in Int
  <2> HIDE DEF F, f
  <2>1. \A n \in 0 .. Len(h) : n = 0 \/ n \in 1 .. Len(h)
    BY <1>1
  <2> QED BY <1>6, <1>7, <2>1
<1>9. Runs(F, h)
  <2> HIDE DEF F, f
  <2> QED BY <1>6, <1>7, <1>8 DEF Runs
<1> QED BY <1>5, <1>9

(* The positions of a history: P[n] is the one after its first n trades. *)
Replays(P, h) ==
  /\ P[0] = NoPosition
  /\ \A n \in 1 .. Len(h) : P[n] = Trades(P[n - 1], h[n])

LEMMA ReplayRuns ==
  ASSUME NEW h \in Seq(TradeType)
  PROVE  \E P : Replays(P, h) /\ Replay(h) = P[Len(h)]
<1> DEFINE it == CHOOSE j : Folds(j, h)
           P == [n \in 0 .. Len(h) |-> it[1 .. n]]
<1>1. DOMAIN h = 1 .. Len(h) /\ Len(h) \in Nat
  OBVIOUS
<1>2. Folds(it, h)
  BY FoldsExist
<1>3. Replay(h) = it[DOMAIN h]
  BY ReplayIsChosen
<1> HIDE DEF it
<1>4. \A s \in SUBSET (DOMAIN h) :
        it[s] = IF s = {} THEN NoPosition ELSE Trades(it[s \ {Max(s)}], h[Max(s)])
  BY <1>2 DEF Folds
<1>5. P[0] = NoPosition
  <2>1. 1 .. 0 = {}
    OBVIOUS
  <2>2. it[{}] = NoPosition
    BY <1>4
  <2>3. P[0] = it[1 .. 0]
    BY <1>1
  <2> HIDE DEF P
  <2> QED BY <2>1, <2>2, <2>3
<1>6. ASSUME NEW n \in 1 .. Len(h) PROVE P[n] = Trades(P[n - 1], h[n])
  <2>1. 1 .. n \in SUBSET (DOMAIN h) /\ n \in 1 .. n /\ (1 .. n) \ {n} = 1 .. n - 1
    BY <1>1
  <2>2. Max(1 .. n) = n
    BY MaxOfInterval
  <2>3. it[1 .. n] = Trades(it[1 .. n - 1], h[n])
    BY <1>4, <2>1, <2>2
  <2> QED BY <1>1, <2>3
<1>7. P[Len(h)] = it[DOMAIN h]
  BY <1>1
<1> HIDE DEF P
<1> QED BY <1>3, <1>5, <1>6, <1>7 DEF Replays

-----------------------------------------------------------------------------
(* One trade *)

Shape(p) ==
  p = [quantity |-> p.quantity, priced |-> p.priced, cost |-> p.cost,
       realized |-> p.realized, basis |-> p.basis, unmatched |-> p.unmatched]

LEMMA LesserOf ==
  ASSUME NEW a \in Nat, NEW b \in Nat
  PROVE  Min({a, b}) = IF a <= b THEN a ELSE b
BY DEF Min

(* What a trade does to what is held and to what was sold unmatched. *)
LEMMA StepQuantities ==
  ASSUME NEW p, Shape(p), p.quantity \in Nat, p.unmatched \in Nat, NEW x \in TradeType
  PROVE  LET q == Trades(p, x)
             matched == IF p.quantity <= x.amount THEN p.quantity ELSE x.amount
         IN /\ Shape(q)
            /\ IsBuy(x) => q.quantity = p.quantity + x.amount /\ q.unmatched = p.unmatched
            /\ ~ IsBuy(x) => /\ q.quantity = p.quantity - matched
                             /\ q.unmatched = p.unmatched + x.amount - matched
<1> DEFINE r(a, b, c, d, e, f) ==
             [quantity |-> a, priced |-> b, cost |-> c, realized |-> d, basis |-> e, unmatched |-> f]
<1>1. CASE IsBuy(x)
  <2> DEFINE b == IF Spent(x) > 0 THEN Plus(p.priced, Whole(x.amount)) ELSE p.priced
             c == Plus(p.cost, Whole(Spent(x)))
  <2>1. Buy(p, x) = [p EXCEPT !.quantity = p.quantity + x.amount, !.priced = b, !.cost = c]
    BY DEF Buy
  <2> HIDE DEF b, c
  <2>2. Buy(p, x) = r(p.quantity + x.amount, b, c, p.realized, p.basis, p.unmatched)
    BY <2>1 DEF Shape
  <2> QED BY <1>1, <2>2 DEF Trades, Shape
<1>2. CASE ~ IsBuy(x)
  <2>1. Match(p, x).quantity = IF p.quantity <= x.amount THEN p.quantity ELSE x.amount
    <3>1. x.amount \in Nat
      BY DEF TradeType
    <3>2. Match(p, x).quantity = Min({p.quantity, x.amount})
      BY DEF Match
    <3> QED BY <3>1, <3>2, LesserOf
  <2>2. \E b, c, d, e :
          Sell(p, x) = r(p.quantity - Match(p, x).quantity, b, c, d, e,
                         p.unmatched + x.amount - Match(p, x).quantity)
    BY DEF Sell, Shape
  <2> QED BY <1>2, <2>1, <2>2 DEF Trades, Shape
<1> QED BY <1>1, <1>2

-----------------------------------------------------------------------------
(* What is held, and what was sold without having been bought, after n trades: a
   balance that starts at zero, and is reset to zero by every sale of more than it
   holds, lies above the running sum by the least that this sum has been. *)
Follows(P, F, n) ==
  /\ Shape(P[n])
  /\ P[n].quantity \in Nat /\ P[n].unmatched \in Nat
  /\ P[n].quantity = F[n] + P[n].unmatched
  /\ \A k \in 0 .. n : - F[k] <= P[n].unmatched
  /\ \E k \in 0 .. n : P[n].unmatched = - F[k]

LEMMA FollowsOn ==
  ASSUME NEW h \in Seq(TradeType), NEW P, Replays(P, h), NEW F, Runs(F, h),
         NEW n \in 1 .. Len(h), Follows(P, F, n - 1)
  PROVE  Follows(P, F, n)
<1> DEFINE p == P[n - 1]
           q == P[n]
           x == h[n]
<1>1. n - 1 \in Nat /\ n \in DOMAIN h /\ Len(h) \in Nat
  OBVIOUS
<1>2. x \in TradeType /\ x.amount \in Nat
  <2>1. x \in TradeType
    BY <1>1
  <2> HIDE DEF x
  <2> QED BY <2>1 DEF TradeType
<1>3. q = Trades(p, x)
  BY DEF Replays
<1>4. F[n] = F[n - 1] + Signed(x) /\ \A k \in 0 .. n : F[k] \in Int
  BY <1>1 DEF Runs
<1>5. Signed(x) = IF IsBuy(x) THEN x.amount ELSE - x.amount
  BY <1>2 DEF Signed, Bought, Sold
<1>6. /\ Shape(p) /\ p.quantity \in Nat /\ p.unmatched \in Nat
      /\ p.quantity = F[n - 1] + p.unmatched
      /\ \A k \in 0 .. n - 1 : - F[k] <= p.unmatched
  BY DEF Follows
<1>7. PICK k \in 0 .. n - 1 : p.unmatched = - F[k]
  BY DEF Follows
<1>8. k \in 0 .. n /\ n \in 0 .. n /\ \A i \in 0 .. n : i = n \/ i \in 0 .. n - 1
  BY <1>1
<1> HIDE DEF p, q, x
<1>9. CASE IsBuy(x)
  <2>1. Shape(q) /\ q.quantity = p.quantity + x.amount /\ q.unmatched = p.unmatched
    BY <1>2, <1>3, <1>6, <1>9, StepQuantities
  <2>2. - F[n] <= p.unmatched
    BY <1>2, <1>4, <1>5, <1>6, <1>8, <1>9
  <2>3. \A i \in 0 .. n : - F[i] <= q.unmatched
    BY <1>6, <1>8, <2>1, <2>2
  <2>4. q.quantity = F[n] + q.unmatched /\ q.quantity \in Nat /\ q.unmatched \in Nat
    <3>1. F[n] = F[n - 1] + x.amount /\ F[n] \in Int /\ F[n - 1] \in Int
      BY <1>1, <1>2, <1>4, <1>5, <1>8, <1>9
    <3> DEFINE f == F[n]
               e == F[n - 1]
               a == x.amount
    <3>2. f = e + a /\ f \in Int /\ e \in Int /\ a \in Nat /\ p.quantity = e + p.unmatched
      BY <1>2, <1>6, <3>1
    <3>3. q.quantity = p.quantity + a /\ q.unmatched = p.unmatched
      BY <2>1
    <3> HIDE DEF f, e, a
    <3> QED BY <1>6, <3>2, <3>3 DEF f
  <2>5. q.unmatched = - F[k]
    BY <1>7, <2>1
  <2> QED BY <1>8, <2>1, <2>3, <2>4, <2>5 DEF Follows, q
<1>10. CASE ~ IsBuy(x)
  <2> DEFINE m == IF p.quantity <= x.amount THEN p.quantity ELSE x.amount
  <2>1. Shape(q) /\ q.quantity = p.quantity - m /\ q.unmatched = p.unmatched + x.amount - m
    BY <1>2, <1>3, <1>6, <1>10, StepQuantities
  <2>2. m \in Nat /\ m <= p.quantity /\ m <= x.amount
    BY <1>2, <1>6
  <2>3. F[n] = F[n - 1] - x.amount /\ F[n] \in Int /\ F[n - 1] \in Int
    BY <1>1, <1>2, <1>4, <1>5, <1>8, <1>10
  <2>4. q.quantity = F[n] + q.unmatched /\ q.quantity \in Nat /\ q.unmatched \in Nat
        /\ p.unmatched <= q.unmatched
    <3> DEFINE f == F[n]
               e == F[n - 1]
               a == x.amount
    <3>1. f = e - a /\ f \in Int /\ e \in Int /\ a \in Nat /\ p.quantity = e + p.unmatched
      BY <1>2, <1>6, <2>3
    <3>2. q.quantity = p.quantity - m /\ q.unmatched = p.unmatched + a - m
      BY <2>1
    <3>3. m \in Nat /\ m <= p.quantity /\ m <= a
      BY <2>2
    <3> HIDE DEF f, e, a, m
    <3> QED BY <1>6, <3>1, <3>2, <3>3 DEF f
  <2>5. - F[n] <= q.unmatched
    BY <2>3, <2>4
  <2>6. \A i \in 0 .. n : - F[i] <= q.unmatched
    <3>1. ASSUME NEW i \in 0 .. n - 1 PROVE - F[i] <= q.unmatched
      <4>1. - F[i] <= p.unmatched /\ F[i] \in Int
        BY <1>1, <1>4, <1>6
      <4> QED BY <1>6, <2>4, <4>1
    <3> QED BY <1>8, <2>5, <3>1
  <2>7. \E i \in 0 .. n : q.unmatched = - F[i]
    <3>1. CASE p.quantity <= x.amount
      <4>1. q.quantity = 0
        BY <1>6, <2>1, <3>1
      <4>2. q.unmatched = - F[n]
        BY <2>3, <2>4, <4>1
      <4> QED BY <1>8, <4>2
    <3>2. CASE ~ (p.quantity <= x.amount)
      <4>1. q.unmatched = p.unmatched
        BY <1>2, <1>6, <2>1, <3>2
      <4> QED BY <1>7, <1>8, <4>1
    <3> QED BY <3>1, <3>2
  <2> QED BY <2>1, <2>4, <2>6, <2>7 DEF Follows, q
<1> QED BY <1>9, <1>10

LEMMA AlwaysFollows ==
  ASSUME NEW h \in Seq(TradeType), NEW P, Replays(P, h), NEW F, Runs(F, h)
  PROVE  Follows(P, F, Len(h))
<1> DEFINE Bad == {n \in 0 .. Len(h) : ~ Follows(P, F, n)}
<1>1. Len(h) \in Nat
  OBVIOUS
<1>2. Follows(P, F, 0)
  <2>1. P[0] = NoPosition /\ F[0] = 0
    BY DEF Replays, Runs
  <2>2. Shape(NoPosition) /\ NoPosition.quantity = 0 /\ NoPosition.unmatched = 0
    BY DEF Shape, NoPosition
  <2>3. \A k \in 0 .. 0 : k = 0
    OBVIOUS
  <2>4. 0 \in 0 .. 0
    OBVIOUS
  <2> QED BY <2>1, <2>2, <2>3, <2>4 DEF Follows
<1>3. ASSUME Bad # {} PROVE FALSE
  <2>1. PICK n \in Bad : \A m \in Bad : n <= m
    <3>1. Bad \in SUBSET Nat
      BY <1>1
    <3> HIDE DEF Bad
    <3> QED BY <1>3, <3>1, LeastNumber
  <2>2. n \in 0 .. Len(h) /\ ~ Follows(P, F, n)
    OBVIOUS
  <2>3. n \in 1 .. Len(h) /\ n - 1 \in 0 .. Len(h) /\ ~(n <= n - 1)
    BY <1>1, <1>2, <2>2
  <2>4. Follows(P, F, n - 1)
    BY <2>1, <2>3
  <2> QED BY <2>2, <2>3, <2>4, FollowsOn
<1> QED BY <1>1, <1>3

-----------------------------------------------------------------------------
(* Doubles *)

(* No sum of what was traded is larger than all that was traded. *)
LEMMA SumsAreBounded ==
  ASSUME NEW h \in Seq(TradeType), NEW F, Runs(F, h)
  PROVE  /\ Total(h, Traded) \in Nat
         /\ \A n \in 0 .. Len(h) : -Total(h, Traded) <= F[n] /\ F[n] <= Total(h, Traded)
<1> DEFINE N == Len(h)
           e == [i \in 1 .. N |-> Traded(h[i])]
<1>1. N \in Nat /\ DOMAIN h = 1 .. N
  OBVIOUS
<1>2. \A i \in 1 .. N : h[i] \in TradeType
  BY <1>1
<1>3. e \in [1 .. N -> Int] /\ \A i \in 1 .. N : e[i] = Traded(h[i]) /\ e[i] \in Nat
  <2>1. ASSUME NEW i \in 1 .. N PROVE Traded(h[i]) \in Nat
    <3>1. h[i] \in TradeType
      BY <1>2
    <3> QED BY <3>1 DEF Traded, TradeType
  <2> QED BY <2>1
<1>4. Total(h, Traded) = SumFunction(e)
  BY <1>1 DEF Total
<1> HIDE DEF e, N
<1>5. PICK V : Adds(V, e, N) /\ SumFunction(e) = V[N]
  BY <1>1, <1>3, SumAdds
<1>6. /\ V[0] = 0 /\ \A k \in 0 .. N : V[k] \in Int
      /\ \A k \in 1 .. N : V[k] = V[k - 1] + e[k]
  BY <1>5 DEF Adds
<1>7. /\ F[0] = 0 /\ \A k \in 0 .. N : F[k] \in Int
      /\ \A k \in 1 .. N : F[k] = F[k - 1] + Signed(h[k])
  BY DEF Runs, N
<1> DEFINE Good(n) == /\ -V[n] <= F[n] /\ F[n] <= V[n]
                      /\ \A k \in 0 .. n : V[k] <= V[n]
           Bad == {n \in 0 .. N : ~ Good(n)}
<1>8. Good(0)
  <2>1. \A k \in 0 .. 0 : k = 0
    OBVIOUS
  <2> QED BY <1>6, <1>7, <2>1
<1>9. ASSUME Bad # {} PROVE FALSE
  <2>1. PICK n \in Bad : \A m \in Bad : n <= m
    <3>1. Bad \in SUBSET Nat
      BY <1>1
    <3> HIDE DEF Bad
    <3> QED BY <1>9, <3>1, LeastNumber
  <2>2. n \in 0 .. N /\ ~ Good(n)
    OBVIOUS
  <2>3. n # 0
    BY <1>8, <2>2
  <2>4. n \in 1 .. N /\ n - 1 \in 0 .. N /\ ~(n <= n - 1)
    BY <1>1, <2>2, <2>3
  <2>5. Good(n - 1)
    BY <2>1, <2>4
  <2>6. /\ V[n] = V[n - 1] + e[n] /\ e[n] \in Nat /\ F[n] = F[n - 1] + Signed(h[n])
        /\ V[n] \in Int /\ V[n - 1] \in Int /\ F[n] \in Int /\ F[n - 1] \in Int
    BY <1>3, <1>6, <1>7, <2>2, <2>4
  <2>7. -e[n] <= Signed(h[n]) /\ Signed(h[n]) <= e[n] /\ Signed(h[n]) \in Int
    <3> DEFINE x == h[n]
    <3>1. x \in TradeType /\ e[n] = x.amount
      BY <1>2, <1>3, <2>4 DEF Traded
    <3> HIDE DEF x
    <3>2. x.amount \in Nat
      BY <3>1 DEF TradeType
    <3>3. Signed(x) = IF IsBuy(x) THEN x.amount ELSE -x.amount
      BY <3>2 DEF Signed, Bought, Sold
    <3>4. -e[n] <= Signed(x) /\ Signed(x) <= e[n] /\ Signed(x) \in Int
      BY <3>1, <3>2, <3>3
    <3> QED BY <3>4 DEF x
  <2>8. -V[n - 1] <= F[n - 1] /\ F[n - 1] <= V[n - 1] /\ \A k \in 0 .. n - 1 : V[k] <= V[n - 1]
    BY <2>5
  <2>9. -V[n] <= F[n] /\ F[n] <= V[n] /\ V[n - 1] <= V[n]
    <3> DEFINE v == V[n - 1]
               f == F[n - 1]
               s == Signed(h[n])
               a == e[n]
    <3>1. /\ v \in Int /\ f \in Int /\ s \in Int /\ a \in Nat /\ -v <= f /\ f <= v /\ -a <= s /\ s <= a
          /\ V[n] = v + a /\ F[n] = f + s
      BY <2>6, <2>7, <2>8
    <3> HIDE DEF v, f, s, a
    <3>2. -V[n] <= F[n] /\ F[n] <= V[n] /\ v <= V[n]
      BY <3>1
    <3> QED BY <3>2 DEF v
  <2>10. ASSUME NEW k \in 0 .. n PROVE V[k] <= V[n]
    <3>1. k = n \/ k \in 0 .. n - 1
      BY <2>4
    <3>2. CASE k = n
      BY <2>6, <3>2
    <3>3. CASE k \in 0 .. n - 1
      <4>1. k \in 0 .. N /\ V[k] <= V[n - 1]
        BY <1>1, <2>4, <2>8, <3>3
      <4>2. V[k] \in Int
        BY <1>6, <4>1
      <4> QED BY <2>6, <2>9, <4>1, <4>2
    <3> QED BY <3>1, <3>2, <3>3
  <2> QED BY <2>2, <2>9, <2>10
<1>10. \A n \in 0 .. N : Good(n)
  BY <1>9
<1>11. N \in 0 .. N /\ 0 \in 0 .. N
  BY <1>1
<1>12. Total(h, Traded) = V[N] /\ V[N] \in Int /\ V[0] <= V[N]
  BY <1>4, <1>5, <1>6, <1>10, <1>11
<1>13. ASSUME NEW n \in 0 .. N PROVE -V[N] <= F[n] /\ F[n] <= V[N]
  <2>1. V[n] \in Int /\ F[n] \in Int /\ V[n] <= V[N] /\ -V[n] <= F[n] /\ F[n] <= V[n]
    BY <1>6, <1>7, <1>10, <1>11
  <2> QED BY <1>12, <2>1
<1> QED BY <1>6, <1>12, <1>13 DEF N

LEMMA NearestIs ==
  ASSUME NEW x \in Int
  PROVE  /\ Nearest(x) \in Int
         /\ -Largest <= x /\ x <= Largest => Near(Nearest(x), x, Error)
<1>1. Largest \in Nat
  BY DoublesAssumption
<1>2. CASE -Largest <= x /\ x <= Largest
  <2>1. x \in -Largest .. Largest
    BY <1>1, <1>2
  <2> QED BY <2>1, DoublesAssumption DEF Nearest, Near
<1>3. CASE ~ (-Largest <= x /\ x <= Largest)
  <2>1. x \notin -Largest .. Largest
    BY <1>1, <1>3
  <2> QED BY <1>3, <2>1 DEF Nearest
<1> QED BY <1>2, <1>3

(* The sum of two numbers that are nearly X and Y is nearly their sum. *)
LEMMA AddIsNear ==
  ASSUME NEW x \in Int, NEW y \in Int, NEW X \in Int, NEW Y \in Int, NEW p \in Nat, NEW q \in Nat,
         Near(x, X, p), Near(y, Y, q),
         -Largest <= X + Y - p - q, X + Y + p + q <= Largest
  PROVE  Add(x, y) \in Int /\ Near(Add(x, y), X + Y, p + q + Error)
<1>1. Largest \in Nat /\ Error \in Nat
  BY DoublesAssumption
<1> DEFINE s == x + y
           r == Nearest(s)
<1>2. s \in Int /\ x - X >= -p /\ x - X <= p /\ y - Y >= -q /\ y - Y <= q
  BY DEF Near
<1>3. -Largest <= s /\ s <= Largest
  BY <1>1, <1>2
<1>4. r \in Int /\ Near(r, s, Error)
  <2> HIDE DEF s
  <2> QED BY <1>2, <1>3, NearestIs
<1>5. r - s >= -Error /\ r - s <= Error
  BY <1>1, <1>4 DEF Near
<1> HIDE DEF r
<1>6. r - (X + Y) >= -(p + q + Error) /\ r - (X + Y) <= p + q + Error
  BY <1>1, <1>2, <1>4, <1>5
<1>7. Near(r, X + Y, p + q + Error)
  BY <1>1, <1>4, <1>6 DEF Near
<1> QED BY <1>4, <1>7 DEF Add, r

LEMMA DoubleIsNear ==
  ASSUME NEW a \in Nat
  PROVE  Double(a) \in Int /\ (Unit * a <= Largest => Near(Double(a), Unit * a, Error))
<1>1. Unit \in Nat /\ Largest \in Nat
  BY DoublesAssumption
<1>2. Unit * a \in Nat
  BY <1>1
<1> DEFINE x == Unit * a
<1> HIDE DEF x
<1>3. x \in Int /\ -Largest <= x
  BY <1>1, <1>2 DEF x
<1> QED BY <1>3, NearestIs DEF Double, x

(* The sums of the database: G[n] is the one over the first n trades. *)
Accrues(G, h) ==
  /\ G[0] = 0
  /\ \A n \in 1 .. Len(h) : G[n] = Add(G[n - 1], SignedAmount(h[n]))

LEMMA RunningAccrues ==
  ASSUME NEW h \in Seq(TradeType)
  PROVE  Accrues(RunningQuantity(h), h)
<1> DEFINE N == Len(h)
           After(sum, n) == IF n = 0 THEN 0 ELSE Add(sum[n - 1], SignedAmount(h[n]))
<1>1. DOMAIN h = 1 .. N /\ N \in Nat /\ DOMAIN h \in SUBSET (0 .. N)
  OBVIOUS
<1>2. PICK it : Computes(it, "accrue", h, DOMAIN h)
  BY <1>1, RecursionExists DEF Calculation
<1>3. \A s \in SUBSET (DOMAIN h) :
        it[s] = IF s = {} THEN 0 ELSE Add(it[s \ {Max(s)}], SignedAmount(h[Max(s)]))
  BY <1>2 DEF Computes, Start, Step, Taken
<1> DEFINE G == [n \in 0 .. N |-> it[1 .. n]]
<1>4. it[1 .. 0] = 0
  <2>1. 1 .. 0 = {}
    OBVIOUS
  <2> QED BY <1>3, <2>1
<1>5. ASSUME NEW n \in 1 .. N PROVE it[1 .. n] = Add(it[1 .. n - 1], SignedAmount(h[n]))
  <2>1. 1 .. n \in SUBSET (DOMAIN h) /\ n \in 1 .. n /\ (1 .. n) \ {n} = 1 .. n - 1
    BY <1>1
  <2>2. Max(1 .. n) = n
    BY MaxOfInterval
  <2> QED BY <1>3, <2>1, <2>2
<1>6. G = [n \in 0 .. N |-> After(G, n)]
  <2> SUFFICES ASSUME NEW n \in 0 .. N PROVE it[1 .. n] = After(G, n)
    OBVIOUS
  <2>1. CASE n = 0
    BY <1>4, <2>1
  <2>2. CASE n # 0
    <3>1. n \in 1 .. N /\ n - 1 \in 0 .. N
      BY <1>1, <2>2
    <3>2. G[n - 1] = it[1 .. n - 1]
      BY <3>1
    <3> QED BY <1>5, <2>2, <3>1, <3>2
  <2> QED BY <2>1, <2>2
<1> DEFINE R == RunningQuantity(h)
<1>7. R = CHOOSE sum : sum = [n \in 0 .. N |-> After(sum, n)]
  BY DEF RunningQuantity
<1>8. R = [n \in 0 .. N |-> After(R, n)]
  <2> HIDE DEF G, R
  <2> QED BY <1>6, <1>7
<1> HIDE DEF R, G
<1>9. \A n \in 0 .. N : R[n] = After(R, n)
  BY <1>8
<1>10. R[0] = 0
  <2>1. 0 \in 0 .. N
    BY <1>1
  <2> QED BY <1>9, <2>1
<1>11. ASSUME NEW n \in 1 .. N PROVE R[n] = Add(R[n - 1], SignedAmount(h[n]))
  <2>1. n \in 0 .. N /\ n # 0
    BY <1>1
  <2> QED BY <1>9, <2>1
<1> QED BY <1>10, <1>11 DEF Accrues, R

LEMMA AccruedAreNumbers ==
  ASSUME NEW h \in Seq(TradeType), NEW G, Accrues(G, h)
  PROVE  \A n \in 0 .. Len(h) : G[n] \in Int
<1>1. Len(h) \in Nat
  OBVIOUS
<1>2. G[0] = 0 /\ \A n \in 1 .. Len(h) : G[n] = Add(G[n - 1], SignedAmount(h[n]))
  BY DEF Accrues
<1>3. ASSUME NEW n \in 1 .. Len(h), G[n - 1] \in Int PROVE G[n] \in Int
  <2>1. h[n] \in TradeType
    OBVIOUS
  <2>2. Double(h[n].amount) \in Int
    BY <2>1, DoubleIsNear DEF TradeType
  <2>3. SignedAmount(h[n]) \in Int
    BY <2>2 DEF SignedAmount
  <2>4. G[n - 1] + SignedAmount(h[n]) \in Int
    BY <1>3, <2>3
  <2> QED BY <1>2, <2>4, NearestIs DEF Add
<1> DEFINE Bad == {n \in 0 .. Len(h) : G[n] \notin Int}
<1>4. ASSUME Bad # {} PROVE FALSE
  <2>1. PICK n \in Bad : \A m \in Bad : n <= m
    <3>1. Bad \in SUBSET Nat
      BY <1>1
    <3> HIDE DEF Bad
    <3> QED BY <1>4, <3>1, LeastNumber
  <2>2. n \in 0 .. Len(h) /\ G[n] \notin Int
    OBVIOUS
  <2>3. n # 0
    BY <1>2, <2>2
  <2>4. n \in 1 .. Len(h) /\ n - 1 \in 0 .. Len(h) /\ ~(n <= n - 1)
    BY <1>1, <2>2, <2>3
  <2>5. G[n - 1] \in Int
    BY <2>1, <2>4
  <2> QED BY <1>3, <2>2, <2>4, <2>5
<1> QED BY <1>4

(* Of finitely many sums, one is the least. *)
LEMMA LeastSum ==
  ASSUME NEW N \in Nat, NEW G, G[0] = 0, \A n \in 0 .. N : G[n] \in Int
  PROVE  LET u == Max({-G[n] : n \in 1 .. N} \cup {0})
         IN /\ u \in Nat /\ \A k \in 0 .. N : -G[k] <= u
            /\ \E k \in 0 .. N : u = -G[k]
<1> DEFINE Lowest(n) == \E k \in 0 .. n : \A i \in 0 .. n : G[k] <= G[i]
           Bad == {n \in 0 .. N : ~ Lowest(n)}
<1>1. Lowest(0)
  <2>1. \A k \in 0 .. 0 : k = 0
    OBVIOUS
  <2> QED BY <2>1
<1>2. ASSUME Bad # {} PROVE FALSE
  <2>1. PICK n \in Bad : \A m \in Bad : n <= m
    <3>1. Bad \in SUBSET Nat
      OBVIOUS
    <3> HIDE DEF Bad
    <3> QED BY <1>2, <3>1, LeastNumber
  <2>2. n \in 0 .. N /\ ~ Lowest(n)
    OBVIOUS
  <2>3. n # 0
    BY <1>1, <2>2
  <2>4. n \in 1 .. N /\ n - 1 \in 0 .. N /\ ~(n <= n - 1)
    BY <2>2, <2>3
  <2>5. PICK k \in 0 .. n - 1 : \A i \in 0 .. n - 1 : G[k] <= G[i]
    <3>1. Lowest(n - 1)
      BY <2>1, <2>4
    <3> QED BY <3>1
  <2>6. \A i \in 0 .. n : (i = n \/ i \in 0 .. n - 1) /\ G[i] \in Int
    BY <2>4
  <2>7. k \in 0 .. n /\ n \in 0 .. n /\ G[k] \in Int /\ G[n] \in Int
    BY <2>4
  <2>8. CASE G[k] <= G[n]
    <3>1. \A i \in 0 .. n : G[k] <= G[i]
      BY <2>5, <2>6, <2>8
    <3> QED BY <2>2, <2>7, <3>1
  <2>9. CASE ~ (G[k] <= G[n])
    <3>1. ASSUME NEW i \in 0 .. n PROVE G[n] <= G[i]
      <4>1. CASE i = n
        BY <2>7, <4>1
      <4>2. CASE i \in 0 .. n - 1
        <5>1. G[k] <= G[i] /\ G[i] \in Int
          BY <2>5, <2>6, <4>2
        <5> QED BY <2>7, <2>9, <5>1
      <4> QED BY <2>6, <4>1, <4>2
    <3> QED BY <2>2, <2>7, <3>1
  <2> QED BY <2>8, <2>9
<1>3. PICK k \in 0 .. N : \A i \in 0 .. N : G[k] <= G[i]
  <2>1. N \in 0 .. N
    OBVIOUS
  <2>2. Lowest(N)
    <3> HIDE DEF Lowest
    <3> QED BY <1>2, <2>1
  <2> QED BY <2>2
<1> DEFINE S == {-G[n] : n \in 1 .. N} \cup {0}
           u == -G[k]
<1>4. G[k] \in Int /\ G[k] <= 0
  BY <1>3
<1>5. u \in Nat /\ \A i \in 0 .. N : -G[i] <= u
  <2>1. ASSUME NEW i \in 0 .. N PROVE -G[i] <= u
    <3>1. G[i] \in Int /\ G[k] <= G[i]
      BY <1>3
    <3> QED BY <1>4, <3>1
  <2> QED BY <1>4, <2>1
<1>6. u \in S
  <2>1. k = 0 \/ k \in 1 .. N
    OBVIOUS
  <2>2. CASE k = 0
    BY <2>2
  <2> QED BY <2>1, <2>2
<1>7. ASSUME NEW v \in S PROVE v \in Int /\ u >= v
  <2>1. \E i \in 0 .. N : v = -G[i]
    <3>1. CASE v = 0
      <4> HIDE DEF S, u
      <4> QED BY <3>1
    <3>2. CASE v \in {-G[n] : n \in 1 .. N}
      <4>1. \A n \in 1 .. N : n \in 0 .. N
        OBVIOUS
      <4> QED BY <3>2, <4>1
    <3> QED BY <3>1, <3>2
  <2>2. PICK i \in 0 .. N : v = -G[i]
    BY <2>1
  <2>3. G[i] \in Int /\ -G[i] <= u
    BY <1>5
  <2> HIDE DEF u, S
  <2> QED BY <1>5, <2>2, <2>3
<1>8. Max(S) = u
  <2> HIDE DEF S, u
  <2>1. Max(S) \in S /\ \A v \in S : Max(S) >= v
    BY <1>6, <1>7 DEF Max
  <2>2. Max(S) >= u /\ u >= Max(S) /\ Max(S) \in Int
    BY <1>6, <1>7, <2>1
  <2> QED BY <1>5, <2>2
<1> HIDE DEF S
<1> QED BY <1>5, <1>8 DEF S

(* The quantities of the database are numbers, whatever was traded. *)
LEMMA QuantityIs ==
  ASSUME NEW h \in Seq(TradeType)
  PROVE  \E G : /\ Accrues(G, h)
                /\ \A n \in 0 .. Len(h) : G[n] \in Int
                /\ UnmatchedSells(h) \in Nat
                /\ \A k \in 0 .. Len(h) : -G[k] <= UnmatchedSells(h)
                /\ \E k \in 0 .. Len(h) : UnmatchedSells(h) = -G[k]
                /\ Quantity(h) = Add(G[Len(h)], UnmatchedSells(h)) /\ Quantity(h) \in Int
<1> DEFINE G == RunningQuantity(h)
           N == Len(h)
           u == UnmatchedSells(h)
<1>1. N \in Nat /\ DOMAIN h = 1 .. N
  OBVIOUS
<1>2. Accrues(G, h)
  BY RunningAccrues
<1>3. G[0] = 0 /\ \A n \in 0 .. N : G[n] \in Int
  BY <1>2, AccruedAreNumbers DEF Accrues
<1>4. u = Max({-G[n] : n \in 1 .. N} \cup {0})
  BY <1>1 DEF UnmatchedSells
<1> HIDE DEF G, u
<1>5. u \in Nat /\ (\A k \in 0 .. N : -G[k] <= u) /\ \E k \in 0 .. N : u = -G[k]
  BY <1>1, <1>3, <1>4, LeastSum
<1>6. Quantity(h) = Add(G[N], u)
  BY DEF Quantity, NetQuantity, G, u
<1>7. Quantity(h) \in Int
  <2>1. G[N] \in Int /\ G[N] + u \in Int
    BY <1>1, <1>3, <1>5
  <2> QED BY <1>6, <2>1, NearestIs DEF Add
<1> QED BY <1>2, <1>3, <1>5, <1>6, <1>7 DEF u

(* What the position calculator finds: what is left of the last sum above the least. *)
LEMMA ExactHoldings ==
  ASSUME NEW h \in Seq(TradeType)
  PROVE  \E F : /\ Runs(F, h) /\ Total(h, Signed) = F[Len(h)]
                /\ Replay(h).quantity \in Nat /\ Replay(h).unmatched \in Nat
                /\ Replay(h).quantity = F[Len(h)] + Replay(h).unmatched
                /\ \A k \in 0 .. Len(h) : -F[k] <= Replay(h).unmatched
                /\ \E k \in 0 .. Len(h) : Replay(h).unmatched = -F[k]
<1>1. PICK P : Replays(P, h) /\ Replay(h) = P[Len(h)]
  BY ReplayRuns
<1>2. PICK F : Runs(F, h) /\ \A n \in 0 .. Len(h) : Total(SubSeq(h, 1, n), Signed) = F[n]
  BY TotalsRun
<1>3. Follows(P, F, Len(h))
  BY <1>1, <1>2, AlwaysFollows
<1>4. Len(h) \in 0 .. Len(h) /\ SubSeq(h, 1, Len(h)) = h
  OBVIOUS
<1>5. Total(h, Signed) = F[Len(h)]
  BY <1>2, <1>4
<1> QED BY <1>1, <1>2, <1>3, <1>5 DEF Follows

(* What is in range: every sum, with what rounding may have added to it. *)
LEMMA Allowance ==
  ASSUME NEW N \in Nat, NEW T \in Nat, InRange(T, N)
  PROVE  /\ Unit * T \in Nat /\ 2 * N * Error \in Nat /\ Error \in Nat /\ Largest \in Nat
         /\ 2 * (Unit * T) + 2 * (2 * N * Error) + 4 * Error <= Largest
         /\ \A n \in 0 .. N : 2 * n * Error \in Nat /\ 2 * n * Error <= 2 * N * Error
         /\ \A f \in Int : -T <= f /\ f <= T =>
              Unit * f \in Int /\ -(Unit * T) <= Unit * f /\ Unit * f <= Unit * T
<1>1. Unit \in Nat /\ Largest \in Nat /\ Error \in Nat
  BY DoublesAssumption
<1>2. 2 * Unit * T + 4 * (N + 1) * Error <= Largest
  BY DEF InRange
<1>3. 2 * Unit * T = 2 * (Unit * T) /\ 4 * (N + 1) * Error = 2 * (2 * N * Error) + 4 * Error
  BY <1>1
<1>4. Unit * T \in Nat /\ 2 * N * Error \in Nat
  BY <1>1
<1>5. ASSUME NEW n \in 0 .. N PROVE 2 * n * Error \in Nat /\ 2 * n * Error <= 2 * N * Error
  <2>1. 2 * n \in Nat /\ 2 * N \in Nat /\ 2 * n <= 2 * N
    OBVIOUS
  <2>2. \A x, y \in Int : x <= y => x * Error <= y * Error
    BY <1>1
  <2>3. \A x \in Nat : x * Error \in Nat
    BY <1>1
  <2> QED BY <2>1, <2>2, <2>3
<1>6. ASSUME NEW f \in Int, -T <= f, f <= T
      PROVE  Unit * f \in Int /\ -(Unit * T) <= Unit * f /\ Unit * f <= Unit * T
  <2>1. \A x, y \in Int : x <= y => Unit * x <= Unit * y
    BY <1>1
  <2>2. Unit * (-T) <= Unit * f /\ Unit * f <= Unit * T
    BY <1>6, <2>1
  <2>3. Unit * (-T) = -(Unit * T) /\ Unit * f \in Int
    BY <1>1
  <2> QED BY <2>2, <2>3
<1> QED BY <1>1, <1>2, <1>3, <1>4, <1>5, <1>6

(* What a trade adds to the sums, exactly and in doubles. *)
LEMMA AmountIsNear ==
  ASSUME NEW x \in TradeType, NEW T \in Nat, NEW N \in Nat, InRange(T, N), x.amount <= 2 * T
  PROVE  /\ Double(x.amount) \in Int /\ Near(Double(x.amount), Unit * x.amount, Error)
         /\ SignedAmount(x) \in Int /\ Unit * Signed(x) \in Int
         /\ Near(SignedAmount(x), Unit * Signed(x), Error)
<1> DEFINE a == x.amount
           d == Double(a)
           A == Unit * a
<1>1. a \in Nat
  BY DEF TradeType
<1>2. Unit \in Nat /\ Largest \in Nat /\ Error \in Nat
  BY DoublesAssumption
<1> HIDE DEF a
<1>3. A \in Nat /\ A <= Largest
  <2>1. \A y, z \in Int : y <= z => Unit * y <= Unit * z
    BY <1>2
  <2>2. Unit * a <= Unit * (2 * T)
    <3>1. a \in Int /\ 2 * T \in Int /\ a <= 2 * T
      BY <1>1 DEF a
    <3> QED BY <2>1, <3>1
  <2>3. Unit * (2 * T) = 2 * (Unit * T) /\ Unit * a \in Nat
    BY <1>1, <1>2
  <2>4. 2 * (Unit * T) + 2 * (2 * N * Error) + 4 * Error <= Largest
        /\ Unit * T \in Nat /\ 2 * N * Error \in Nat
    BY Allowance
  <2> QED BY <1>2, <2>2, <2>3, <2>4
<1>4. d \in Int /\ Near(d, A, Error)
  BY <1>1, <1>3, DoubleIsNear
<1>5. SignedAmount(x) = IF IsBuy(x) THEN d ELSE -d
  BY DEF SignedAmount, a
<1>6. Unit * Signed(x) = IF IsBuy(x) THEN A ELSE -A
  <2>1. Signed(x) = IF IsBuy(x) THEN a ELSE -a
    BY <1>1 DEF Signed, Bought, Sold, a
  <2>2. Unit * (-a) = -(Unit * a)
    BY <1>1, <1>2
  <2> QED BY <2>1, <2>2
<1> HIDE DEF A, d
<1>7. d - A >= -Error /\ d - A <= Error
  BY <1>2, <1>4 DEF Near
<1>8. (-d) - (-A) >= -Error /\ (-d) - (-A) <= Error /\ (-d) - (-A) \in Int
  BY <1>2, <1>3, <1>4, <1>7
<1>9. Near(-d, -A, Error)
  BY <1>2, <1>8 DEF Near
<1> QED BY <1>3, <1>4, <1>5, <1>6, <1>9 DEF d, A, a

(* The sums of doubles stay near the exact ones, two roundings a trade. *)
LEMMA SumsStayNear ==
  ASSUME NEW h \in Seq(TradeType), InRange(Total(h, Traded), Len(h)),
         NEW F, Runs(F, h), NEW G, Accrues(G, h)
  PROVE  \A n \in 0 .. Len(h) : Near(G[n], Unit * F[n], 2 * n * Error)
<1> DEFINE N == Len(h)
           T == Total(h, Traded)
           Good(n) == Near(G[n], Unit * F[n], 2 * n * Error)
           Bad == {n \in 0 .. N : ~ Good(n)}
<1>1. N \in Nat /\ DOMAIN h = 1 .. N
  OBVIOUS
<1>2. T \in Nat /\ \A n \in 0 .. N : -T <= F[n] /\ F[n] <= T
  BY SumsAreBounded
<1>3. /\ F[0] = 0 /\ \A k \in 0 .. N : F[k] \in Int
      /\ \A k \in 1 .. N : F[k] = F[k - 1] + Signed(h[k])
  BY DEF Runs
<1>4. G[0] = 0 /\ \A n \in 1 .. N : G[n] = Add(G[n - 1], SignedAmount(h[n]))
  BY DEF Accrues
<1>5. \A n \in 0 .. N : G[n] \in Int
  BY AccruedAreNumbers
<1>6. InRange(T, N)
  OBVIOUS
<1>7. \A i \in 1 .. N : h[i] \in TradeType
  BY <1>1
<1> HIDE DEF T, N
<1>8. /\ Unit * T \in Nat /\ 2 * N * Error \in Nat /\ Error \in Nat /\ Largest \in Nat
      /\ 2 * (Unit * T) + 2 * (2 * N * Error) + 4 * Error <= Largest
      /\ \A n \in 0 .. N : 2 * n * Error \in Nat /\ 2 * n * Error <= 2 * N * Error
      /\ \A f \in Int : -T <= f /\ f <= T =>
           Unit * f \in Int /\ -(Unit * T) <= Unit * f /\ Unit * f <= Unit * T
  BY <1>1, <1>2, <1>6, Allowance
<1>9. Unit \in Nat
  BY DoublesAssumption
<1>10. Good(0)
  <2>1. Unit * 0 = 0 /\ 2 * 0 * Error = 0
    BY <1>8, <1>9
  <2> QED BY <1>3, <1>4, <2>1 DEF Near
<1>11. ASSUME NEW n \in 1 .. N, Good(n - 1) PROVE Good(n)
  <2> DEFINE f == F[n - 1]
             g == G[n - 1]
             x == h[n]
             s == Signed(x)
             p == 2 * (n - 1) * Error
  <2>1. n \in 0 .. N /\ n - 1 \in 0 .. N /\ n \in Nat
    BY <1>1
  <2>2. x \in TradeType /\ x.amount \in Nat /\ s = IF IsBuy(x) THEN x.amount ELSE -x.amount
    <3>1. x \in TradeType
      BY <1>7
    <3> HIDE DEF x
    <3> QED BY <3>1 DEF TradeType, Signed, Bought, Sold
  <2>3. /\ f \in Int /\ g \in Int /\ F[n] = f + s /\ F[n] \in Int /\ G[n] = Add(g, SignedAmount(x))
        /\ -T <= f /\ f <= T /\ -T <= F[n] /\ F[n] <= T /\ Near(g, Unit * f, p)
    BY <1>2, <1>3, <1>4, <1>5, <1>11, <2>1
  <2>4. p \in Nat /\ p <= 2 * N * Error
    BY <1>8, <2>1
  <2>5. 2 * n * Error = p + Error + Error
    BY <1>8, <2>1
  <2> HIDE DEF f, g, x, s, p
  <2>6. x.amount <= 2 * T
    BY <1>2, <2>2, <2>3
  <2>7. /\ SignedAmount(x) \in Int /\ Unit * s \in Int /\ Near(SignedAmount(x), Unit * s, Error)
    BY <1>1, <1>2, <1>6, <2>2, <2>6, AmountIsNear DEF s
  <2>8. /\ Unit * f \in Int /\ Unit * F[n] \in Int
        /\ -(Unit * T) <= Unit * F[n] /\ Unit * F[n] <= Unit * T
    BY <1>8, <2>3
  <2>9. Unit * F[n] = Unit * f + Unit * s
    <3>1. s \in Int
      BY <2>2
    <3> QED BY <1>9, <2>3, <3>1
  <2> DEFINE X == Unit * f
             Y == Unit * s
             y == SignedAmount(x)
             W == Unit * T
             E == Error
             L == 2 * N * Error
  <2>10. /\ X \in Int /\ Y \in Int /\ y \in Int /\ W \in Nat /\ E \in Nat /\ L \in Nat /\ p <= L
         /\ -W <= X + Y /\ X + Y <= W /\ 2 * W + 2 * L + 4 * E <= Largest
         /\ Near(g, X, p) /\ Near(y, Y, E)
    BY <1>8, <2>3, <2>4, <2>7, <2>8, <2>9
  <2> HIDE DEF X, Y, y, W, E, L
  <2>11. -Largest <= X + Y - p - E /\ X + Y + p + E <= Largest
    BY <1>8, <2>4, <2>10
  <2>12. Near(Add(g, y), X + Y, p + E + Error)
    BY <2>3, <2>4, <2>10, <2>11, AddIsNear
  <2> QED BY <2>3, <2>5, <2>9, <2>12 DEF X, Y, y, E
<1>12. ASSUME Bad # {} PROVE FALSE
  <2> HIDE DEF Good
  <2>1. PICK n \in Bad : \A m \in Bad : n <= m
    <3>1. Bad \in SUBSET Nat
      BY <1>1
    <3> HIDE DEF Bad
    <3> QED BY <1>12, <3>1, LeastNumber
  <2>2. n \in 0 .. N /\ ~ Good(n)
    OBVIOUS
  <2>3. n # 0
    BY <1>10, <2>2
  <2>4. n \in 1 .. N /\ n - 1 \in 0 .. N /\ ~(n <= n - 1)
    BY <1>1, <2>2, <2>3
  <2>5. Good(n - 1)
    BY <2>1, <2>4
  <2> QED BY <1>11, <2>2, <2>4, <2>5
<1> QED BY <1>12 DEF N

(* The holders that AnalyticsRepository finds in SQL, from running sums of doubles
   over the trades of a wallet in a token, are those that PositionCalculator finds by
   going through the trades one by one in decimals, but for the roundings: for every
   history in range, however a double is rounded, what was sold without having been
   bought differs by at most two roundings a trade, and what is held by as much again
   and one (_holder_expressions, PositionCalculator.calculate). *)
THEOREM RunningSumsFindHoldings ==
  ASSUME NEW h \in Seq(TradeType), InRange(Total(h, Traded), Len(h))
  PROVE  /\ Near(Quantity(h), Unit * Replay(h).quantity, (4 * Len(h) + 1) * Error)
         /\ Near(UnmatchedSells(h), Unit * Replay(h).unmatched, 2 * Len(h) * Error)
<1> DEFINE N == Len(h)
           T == Total(h, Traded)
           v == Replay(h).unmatched
           q == Replay(h).quantity
           u == UnmatchedSells(h)
           L == 2 * N * Error
           W == Unit * T
<1>1. PICK F : /\ Runs(F, h) /\ q \in Nat /\ v \in Nat /\ q = F[N] + v
               /\ \A k \in 0 .. N : -F[k] <= v
               /\ \E k \in 0 .. N : v = -F[k]
  BY ExactHoldings
<1>2. PICK G : /\ Accrues(G, h) /\ \A n \in 0 .. N : G[n] \in Int
               /\ u \in Nat /\ \A k \in 0 .. N : -G[k] <= u
               /\ \E k \in 0 .. N : u = -G[k]
               /\ Quantity(h) = Add(G[N], u) /\ Quantity(h) \in Int
  BY QuantityIs
<1>3. \A n \in 0 .. N : Near(G[n], Unit * F[n], 2 * n * Error)
  BY <1>1, <1>2, SumsStayNear
<1>4. N \in Nat /\ T \in Nat /\ \A n \in 0 .. N : -T <= F[n] /\ F[n] <= T
  BY <1>1, SumsAreBounded
<1>5. \A n \in 0 .. N : F[n] \in Int
  BY <1>1 DEF Runs
<1>6. InRange(T, N)
  OBVIOUS
<1> HIDE DEF N, T
<1>7. /\ W \in Nat /\ L \in Nat /\ Error \in Nat /\ Largest \in Nat
      /\ 2 * W + 2 * L + 4 * Error <= Largest
      /\ \A n \in 0 .. N : 2 * n * Error \in Nat /\ 2 * n * Error <= L
      /\ \A f \in Int : -T <= f /\ f <= T => Unit * f \in Int /\ -W <= Unit * f /\ Unit * f <= W
  BY <1>4, <1>6, Allowance
<1>8. Unit \in Nat
  BY DoublesAssumption
<1> HIDE DEF v, q, u, L, W
<1>9. ASSUME NEW n \in 0 .. N
      PROVE  /\ Unit * F[n] \in Int /\ -W <= Unit * F[n] /\ Unit * F[n] <= W
             /\ G[n] - Unit * F[n] >= -L /\ G[n] - Unit * F[n] <= L
  <2>1. Near(G[n], Unit * F[n], 2 * n * Error) /\ 2 * n * Error \in Nat /\ 2 * n * Error <= L
    BY <1>3, <1>7
  <2>2. Unit * F[n] \in Int /\ -W <= Unit * F[n] /\ Unit * F[n] <= W
    BY <1>4, <1>5, <1>7
  <2>3. G[n] \in Int
    BY <1>2
  <2> DEFINE p == 2 * n * Error
             f == Unit * F[n]
  <2>4. Near(G[n], f, p) /\ p \in Nat /\ p <= L /\ f \in Int /\ L \in Nat
    BY <1>7, <2>1, <2>2
  <2> HIDE DEF p, f
  <2>5. G[n] - f >= -L /\ G[n] - f <= L
    BY <2>3, <2>4 DEF Near
  <2> QED BY <2>2, <2>5 DEF f
<1>10. ASSUME NEW n \in 0 .. N PROVE Unit * (-F[n]) = -(Unit * F[n])
  BY <1>5, <1>8
<1>11. Unit * v \in Nat /\ Unit * v <= W
  <2>1. PICK k \in 0 .. N : v = -F[k]
    BY <1>1
  <2>2. Unit * v = -(Unit * F[k])
    BY <1>10, <2>1
  <2>3. Unit * v \in Nat
    BY <1>1, <1>8
  <2> QED BY <1>7, <1>9, <2>2, <2>3
<1>12. u - Unit * v >= -L
  <2>1. PICK k \in 0 .. N : v = -F[k]
    BY <1>1
  <2>2. Unit * v = -(Unit * F[k]) /\ -G[k] <= u /\ G[k] \in Int /\ Unit * F[k] \in Int
    BY <1>2, <1>9, <1>10, <2>1
  <2>3. G[k] - Unit * F[k] <= L
    BY <1>9
  <2> DEFINE f == Unit * F[k]
  <2> HIDE DEF f
  <2>4. f \in Int /\ G[k] - f <= L /\ Unit * v = -f
    BY <2>2, <2>3 DEF f
  <2> DEFINE g == G[k]
  <2>6. g \in Int /\ -g <= u /\ g - f <= L /\ u \in Int /\ L \in Int
    BY <1>2, <1>7, <2>2, <2>4
  <2> HIDE DEF g
  <2>5. u - (-f) >= -L
    BY <2>4, <2>6
  <2> QED BY <2>4, <2>5
<1>13. u - Unit * v <= L
  <2>1. PICK k \in 0 .. N : u = -G[k]
    BY <1>2
  <2>2. -F[k] <= v /\ -F[k] \in Int
    BY <1>1, <1>5
  <2>3. \A x, y \in Int : x <= y => Unit * x <= Unit * y
    BY <1>8
  <2>4. Unit * (-F[k]) <= Unit * v
    BY <1>1, <2>2, <2>3
  <2>5. -(Unit * F[k]) <= Unit * v
    BY <1>10, <2>4
  <2> DEFINE f == Unit * F[k]
             w == Unit * v
  <2>6. f \in Int /\ w \in Int /\ -f <= w /\ G[k] - f >= -L /\ G[k] \in Int
    BY <1>2, <1>9, <1>11, <2>5
  <2> HIDE DEF f, w
  <2>7. u - w <= L
    BY <1>7, <2>1, <2>6
  <2> QED BY <2>7 DEF w
<1>14. Near(u, Unit * v, L)
  <2>1. u \in Int /\ Unit * v \in Int /\ L \in Nat
    BY <1>2, <1>7, <1>11
  <2> DEFINE w == Unit * v
  <2> HIDE DEF w
  <2>2. u - w \in Int /\ u - w >= -L /\ u - w <= L
    BY <1>12, <1>13, <2>1 DEF w
  <2>3. Near(u, w, L)
    BY <2>1, <2>2 DEF Near
  <2> QED BY <2>3 DEF w
<1>15. Near(Quantity(h), Unit * q, (4 * N + 1) * Error)
  <2> DEFINE X == Unit * F[N]
             Y == Unit * v
             g == G[N]
  <2>1. N \in 0 .. N
    BY <1>4
  <2>2. /\ X \in Int /\ -W <= X /\ X <= W /\ g \in Int /\ Y \in Nat /\ Y <= W /\ Near(u, Y, L)
        /\ g - X >= -L /\ g - X <= L
    BY <1>2, <1>9, <1>11, <1>14, <2>1
  <2>3. Unit * q = X + Y
    <3>1. F[N] \in Int /\ v \in Int
      BY <1>1, <1>5, <2>1
    <3> QED BY <1>1, <1>8, <3>1
  <2>4. L + L + Error = (4 * N + 1) * Error
    BY <1>4, <1>7 DEF L
  <2> HIDE DEF X, Y, g
  <2>5. Near(g, X, L)
    BY <1>7, <2>2 DEF Near
  <2>6. -Largest <= X + Y - L - L /\ X + Y + L + L <= Largest
    BY <1>7, <2>2
  <2>7. Near(Add(g, u), X + Y, L + L + Error)
    BY <1>2, <1>7, <2>2, <2>5, <2>6, AddIsNear
  <2> QED BY <1>2, <2>3, <2>4, <2>7 DEF g
<1> QED BY <1>14, <1>15 DEF q, v, u, L, N
-----------------------------------------------------------------------------
(* Rolling windows *)

(* What is sorted by time, as evaluate_trades sorts before it looks. *)
InOrder(h) == \A i, j \in DOMAIN h : i <= j => h[i].at <= h[j].at

(* The pass over a history: W[n] is its state after the first n trades. *)
Rolls(W, h, seconds) ==
  /\ W[0] = [left |-> 1, most |-> 0]
  /\ \A n \in 1 .. Len(h) : W[n] = Slide(h, seconds, W[n - 1], n)

LEMMA RollingRuns ==
  ASSUME NEW h \in Seq(TradeType), NEW seconds
  PROVE  \E W : Rolls(W, h, seconds) /\ RollingTrades(h, seconds) = W[Len(h)].most
<1> DEFINE it == CHOOSE j : Slides(j, h, seconds)
           W == [n \in 0 .. Len(h) |-> it[1 .. n]]
<1>1. DOMAIN h = 1 .. Len(h) /\ Len(h) \in Nat
  OBVIOUS
<1>2. Slides(it, h, seconds)
  BY SlidesExist
<1>3. RollingTrades(h, seconds) = it[DOMAIN h].most
  BY RollingIsChosen
<1> HIDE DEF it
<1>4. \A s \in SUBSET (DOMAIN h) :
        it[s] = IF s = {} THEN [left |-> 1, most |-> 0]
                ELSE Slide(h, seconds, it[s \ {Max(s)}], [i \in DOMAIN h |-> i][Max(s)])
  BY <1>2 DEF Slides
<1>5. W[0] = [left |-> 1, most |-> 0]
  <2>1. 1 .. 0 = {}
    OBVIOUS
  <2>2. it[{}] = [left |-> 1, most |-> 0]
    BY <1>4
  <2>3. W[0] = it[1 .. 0]
    BY <1>1
  <2> HIDE DEF W
  <2> QED BY <2>1, <2>2, <2>3
<1>6. ASSUME NEW n \in 1 .. Len(h) PROVE W[n] = Slide(h, seconds, W[n - 1], n)
  <2>1. 1 .. n \in SUBSET (DOMAIN h) /\ n \in 1 .. n /\ (1 .. n) \ {n} = 1 .. n - 1
    BY <1>1
  <2>2. Max(1 .. n) = n
    BY MaxOfInterval
  <2>3. [i \in DOMAIN h |-> i][n] = n
    BY <1>1
  <2>4. it[1 .. n] = Slide(h, seconds, it[1 .. n - 1], n)
    BY <1>4, <2>1, <2>2, <2>3
  <2> QED BY <1>1, <2>4
<1>7. W[Len(h)] = it[DOMAIN h]
  BY <1>1
<1> HIDE DEF W
<1> QED BY <1>3, <1>5, <1>6, <1>7 DEF Rolls

LEMMA MinIsIn ==
  ASSUME NEW s \in SUBSET Nat, s # {}
  PROVE  Min(s) \in s /\ \A x \in s : Min(s) <= x
<1>1. PICK b \in s : \A x \in s : b <= x
  BY LeastNumber
<1> QED BY <1>1 DEF Min

LEMMA GreaterOf ==
  ASSUME NEW a \in Nat, NEW b \in Nat
  PROVE  Max({a, b}) = IF a <= b THEN b ELSE a
BY DEF Max

(* No trade left of the left end is in the window that ends with trade n; no
   window seen so far is wider than the widest, and the widest was seen. *)
WindowsSeen(h, seconds, w, n) ==
  /\ w.left \in Nat \ {0} /\ w.most \in Nat
  /\ \A i \in 1 .. n : Within(h, i, n, seconds) => w.left <= i
  /\ \A m \in 1 .. n : \A i \in 1 .. m : Within(h, i, m, seconds) => m - i + 1 <= w.most
  /\ w.most = 0 \/ \E m \in 1 .. n : \E i \in 1 .. m :
                       Within(h, i, m, seconds) /\ w.most = m - i + 1
  /\ w.left <= n + 1

LEMMA WindowsSeenOn ==
  ASSUME NEW h \in Seq(TradeType), InOrder(h), NEW seconds \in Nat,
         NEW n \in 1 .. Len(h), NEW w, WindowsSeen(h, seconds, w, n - 1)
  PROVE  WindowsSeen(h, seconds, Slide(h, seconds, w, n), n)
<1> DEFINE S == {i \in w.left .. n : Within(h, i, n, seconds)}
           left == Min(S)
           v == Slide(h, seconds, w, n)
<1>1. n \in Nat /\ n - 1 \in Nat /\ Len(h) \in Nat /\ \A i \in 1 .. n : i \in DOMAIN h
  OBVIOUS
<1>2. \A i \in 1 .. n : h[i].at \in Int
  <2>1. \A i \in 1 .. n : h[i] \in TradeType
    BY <1>1
  <2> QED BY <2>1 DEF TradeType
<1>3. /\ w.left \in Nat \ {0} /\ w.most \in Nat /\ w.left <= n
      /\ \A i \in 1 .. n - 1 : Within(h, i, n - 1, seconds) => w.left <= i
      /\ \A m \in 1 .. n - 1 : \A i \in 1 .. m : Within(h, i, m, seconds) => m - i + 1 <= w.most
      /\ w.most = 0 \/ \E m \in 1 .. n - 1 : \E i \in 1 .. m :
                           Within(h, i, m, seconds) /\ w.most = m - i + 1
  BY <1>1 DEF WindowsSeen
<1>4. S \in SUBSET Nat /\ n \in S
  <2>1. Within(h, n, n, seconds)
    BY <1>1, <1>2 DEF Within
  <2> QED BY <1>1, <1>3, <2>1
<1>5. left \in S /\ \A i \in S : left <= i
  BY <1>4, MinIsIn
<1>6. left \in 1 .. n /\ Within(h, left, n, seconds)
  BY <1>1, <1>3, <1>5
<1>7. v = [left |-> left, most |-> Max({w.most, n - left + 1})]
  BY DEF Slide, Left
<1> HIDE DEF S, left, v
<1>8. v.left = left /\ v.most = IF w.most <= n - left + 1 THEN n - left + 1 ELSE w.most
  <2>1. n - left + 1 \in Nat
    BY <1>1, <1>6
  <2>2. Max({w.most, n - left + 1}) = IF w.most <= n - left + 1 THEN n - left + 1 ELSE w.most
    BY <1>3, <2>1, GreaterOf
  <2> QED BY <1>7, <2>2
<1>9. ASSUME NEW i \in 1 .. n, Within(h, i, n, seconds) PROVE left <= i
  <2>1. CASE w.left <= i
    BY <1>3, <1>5, <1>9, <2>1 DEF S
  <2>2. CASE i < w.left
    <3>1. i \in 1 .. n - 1 /\ n - 1 \in 1 .. n
      BY <1>1, <1>3, <2>2
    <3>2. h[n - 1].at <= h[n].at
      BY <1>1, <3>1 DEF InOrder
    <3>3. Within(h, i, n - 1, seconds)
      <4> DEFINE a == h[i].at
                 b == h[n - 1].at
                 c == h[n].at
      <4>1. a \in Int /\ b \in Int /\ c \in Int
        BY <1>1, <1>2, <3>1
      <4>2. c - a <= seconds /\ b <= c
        BY <1>9, <3>2 DEF Within
      <4> HIDE DEF a, b, c
      <4>3. b - a <= seconds
        BY <4>1, <4>2
      <4> QED BY <4>3 DEF a, b, Within
    <3> QED BY <1>3, <2>2, <3>1, <3>3
  <2> QED BY <1>3, <2>1, <2>2
<1>10. w.most <= v.most /\ n - left + 1 <= v.most /\ v.most \in Nat
  BY <1>1, <1>3, <1>6, <1>8
<1>11. ASSUME NEW m \in 1 .. n, NEW i \in 1 .. m, Within(h, i, m, seconds)
       PROVE  m - i + 1 <= v.most
  <2>1. CASE m = n
    <3>1. left <= i
      BY <1>9, <1>11, <2>1
    <3> QED BY <1>1, <1>6, <1>10, <2>1, <3>1
  <2>2. CASE m \in 1 .. n - 1
    <3>1. m - i + 1 <= w.most
      BY <1>3, <1>11, <2>2
    <3> QED BY <1>3, <1>10, <3>1
  <2> QED BY <1>1, <2>1, <2>2
<1>12. v.most = 0 \/ \E m \in 1 .. n : \E i \in 1 .. m :
                        Within(h, i, m, seconds) /\ v.most = m - i + 1
  <2>1. CASE w.most <= n - left + 1
    <3>1. v.most = n - left + 1 /\ n \in 1 .. n
      BY <1>1, <1>8, <2>1
    <3> QED BY <1>6, <3>1
  <2>2. CASE ~ (w.most <= n - left + 1)
    <3>1. v.most = w.most
      BY <1>8, <2>2
    <3>2. \A m \in 1 .. n - 1 : m \in 1 .. n
      BY <1>1
    <3> QED BY <1>3, <3>1, <3>2
  <2> QED BY <2>1, <2>2
<1>13. v.left \in Nat \ {0} /\ v.left <= n + 1
  BY <1>1, <1>6, <1>8
<1>14. \A i \in 1 .. n : Within(h, i, n, seconds) => v.left <= i
  BY <1>8, <1>9
<1> QED BY <1>10, <1>11, <1>12, <1>13, <1>14 DEF WindowsSeen, v

LEMMA AllWindowsSeen ==
  ASSUME NEW h \in Seq(TradeType), InOrder(h), NEW seconds \in Nat,
         NEW W, Rolls(W, h, seconds)
  PROVE  WindowsSeen(h, seconds, W[Len(h)], Len(h))
<1> DEFINE Bad == {n \in 0 .. Len(h) : ~ WindowsSeen(h, seconds, W[n], n)}
<1>1. Len(h) \in Nat
  OBVIOUS
<1>2. WindowsSeen(h, seconds, W[0], 0)
  <2>1. W[0].left = 1 /\ W[0].most = 0
    BY DEF Rolls
  <2>2. 1 .. 0 = {}
    OBVIOUS
  <2> QED BY <2>1, <2>2 DEF WindowsSeen
<1>3. ASSUME Bad # {} PROVE FALSE
  <2>1. PICK n \in Bad : \A m \in Bad : n <= m
    <3>1. Bad \in SUBSET Nat
      BY <1>1
    <3> HIDE DEF Bad
    <3> QED BY <1>3, <3>1, LeastNumber
  <2>2. n \in 0 .. Len(h) /\ ~ WindowsSeen(h, seconds, W[n], n)
    OBVIOUS
  <2>3. n \in 1 .. Len(h) /\ n - 1 \in 0 .. Len(h) /\ ~(n <= n - 1)
    BY <1>1, <1>2, <2>2
  <2>4. WindowsSeen(h, seconds, W[n - 1], n - 1)
    BY <2>1, <2>3
  <2>5. W[n] = Slide(h, seconds, W[n - 1], n)
    BY <2>3 DEF Rolls
  <2> QED BY <2>2, <2>3, <2>4, <2>5, WindowsSeenOn
<1> QED BY <1>1, <1>3

(* The one pass that moves the left end of a window along with its right end finds
   the most trades that any window of the length holds, whatever trades share a
   time (_maximum_rolling_trades). *)
THEOREM BusiestWindowIsFound ==
  ASSUME NEW h \in Seq(TradeType), InOrder(h), NEW seconds \in Nat
  PROVE  RollingTrades(h, seconds) = Peak({Cardinality(Window(h, seconds, i)) : i \in DOMAIN h})
<1>1. PICK W : Rolls(W, h, seconds) /\ RollingTrades(h, seconds) = W[Len(h)].most
  BY RollingRuns
<1> DEFINE N == Len(h)
           most == RollingTrades(h, seconds)
           Sizes == {Cardinality(Window(h, seconds, i)) : i \in DOMAIN h} \cup {0}
<1>2. /\ most \in Nat
      /\ \A m \in 1 .. N : \A i \in 1 .. m : Within(h, i, m, seconds) => m - i + 1 <= most
      /\ most = 0 \/ \E m \in 1 .. N : \E i \in 1 .. m :
                         Within(h, i, m, seconds) /\ most = m - i + 1
  BY <1>1, AllWindowsSeen DEF WindowsSeen
<1>3. N \in Nat /\ DOMAIN h = 1 .. N
  OBVIOUS
<1>4. \A i \in 1 .. N : h[i].at \in Int
  <2>1. \A i \in 1 .. N : h[i] \in TradeType
    BY <1>3
  <2> QED BY <2>1 DEF TradeType
<1> HIDE DEF most, N
<1>5. ASSUME NEW i \in 1 .. N
      PROVE  Cardinality(Window(h, seconds, i)) \in Nat /\ Cardinality(Window(h, seconds, i)) <= most
  <2> DEFINE w == Window(h, seconds, i)
             a == Min(w)
             b == Max(w)
  <2>1. w \in SUBSET (0 .. N) /\ w \in SUBSET Nat /\ i \in w
    BY <1>3, <1>4 DEF Window
  <2>2. a \in w /\ b \in w /\ \A x \in w : a <= x /\ x <= b
    BY <1>3, <2>1, MaxIsIn, MinIsIn
  <2> HIDE DEF a, b
  <2>3. a \in 1 .. N /\ b \in 1 .. N /\ a <= b
    BY <1>3, <2>2 DEF Window
  <2>4. Within(h, a, b, seconds)
    BY <1>4, <2>2, <2>3 DEF Window, Within
  <2>5. b - a + 1 <= most
    BY <1>2, <1>3, <2>3, <2>4
  <2>6. w \subseteq a .. b
    BY <2>1, <2>2
  <2>7. IsFiniteSet(a .. b) /\ Cardinality(a .. b) = b - a + 1
    BY <1>3, <2>3, FS_Interval
  <2> HIDE DEF w
  <2>8. IsFiniteSet(w) /\ Cardinality(w) <= b - a + 1
    BY <2>6, <2>7, FS_Subset
  <2>9. Cardinality(w) \in Nat
    BY <2>8, FS_CardinalityType
  <2>10. Cardinality(w) <= most
    BY <1>2, <1>3, <2>3, <2>5, <2>8, <2>9
  <2> QED BY <2>9, <2>10 DEF w
<1>6. most \in Sizes
  <2>1. CASE most = 0
    BY <2>1
  <2>2. ASSUME NEW m \in 1 .. N, NEW i \in 1 .. m, Within(h, i, m, seconds), most = m - i + 1
        PROVE  most \in Sizes
    <3>1. i \in 1 .. N
      BY <1>3
    <3>2. i .. m \subseteq Window(h, seconds, i)
      <4> SUFFICES ASSUME NEW j \in i .. m PROVE j \in Window(h, seconds, i)
        OBVIOUS
      <4>1. j \in 1 .. N /\ m \in 1 .. N /\ i <= j /\ j <= m
        BY <1>3
      <4>2. h[i].at <= h[j].at /\ h[j].at <= h[m].at
        BY <1>3, <3>1, <4>1 DEF InOrder
      <4>3. h[i].at \in Int /\ h[j].at \in Int /\ h[m].at \in Int
        BY <1>4, <3>1, <4>1
      <4> QED BY <1>3, <2>2, <4>1, <4>2, <4>3 DEF Window, Within
    <3>3. IsFiniteSet(Window(h, seconds, i))
      <4>1. IsFiniteSet(1 .. N)
        BY <1>3, FS_Interval
      <4>2. Window(h, seconds, i) \subseteq 1 .. N
        BY <1>3 DEF Window
      <4> QED BY <4>1, <4>2, FS_Subset
    <3>4. Cardinality(i .. m) = m - i + 1
      BY <1>3, FS_Interval
    <3>5. Cardinality(i .. m) <= Cardinality(Window(h, seconds, i))
      BY <3>2, <3>3, FS_Subset
    <3>6. Cardinality(Window(h, seconds, i)) = most
      BY <1>2, <1>5, <2>2, <3>1, <3>4, <3>5
    <3> QED BY <1>3, <3>1, <3>6
  <2> QED BY <1>2, <2>1, <2>2
<1>7. \A x \in Sizes : x \in Nat /\ x <= most
  BY <1>2, <1>3, <1>5
<1> HIDE DEF Sizes
<1>8. Max(Sizes) \in Sizes /\ \A x \in Sizes : Max(Sizes) >= x
  <2>1. \A x \in Sizes : most >= x
    BY <1>2, <1>7
  <2> QED BY <1>6, <2>1 DEF Max
<1>9. Max(Sizes) = most
  <2> DEFINE m == Max(Sizes)
  <2>1. m \in Nat /\ m <= most /\ m >= most
    BY <1>6, <1>7, <1>8
  <2> HIDE DEF m
  <2>2. m = most
    BY <1>2, <2>1
  <2> QED BY <2>2 DEF m
<1> QED BY <1>9 DEF Peak, Sizes, most

(* The windows that trades begin, taken one after the other, find the most tokens
   that any window of the length holds, those of trades at the same time but stored
   before included (_maximum_rolling_distinct_tokens). *)
THEOREM TokensAtOnceAreFound ==
  ASSUME NEW h \in Seq(TradeType), InOrder(h), NEW seconds \in Nat
  PROVE  RollingTokens(h, seconds) = Peak({Cardinality(AtOnce(h, seconds, i)) : i \in DOMAIN h})
<1> DEFINE N == Len(h)
           Seen(i) == {h[j].token : j \in {k \in i .. N : Within(h, i, k, seconds)}}
           Found == {Cardinality(Seen(i)) : i \in DOMAIN h} \cup {0}
           Real == {Cardinality(AtOnce(h, seconds, i)) : i \in DOMAIN h} \cup {0}
<1>1. N \in Nat /\ DOMAIN h = 1 .. N
  OBVIOUS
<1>2. \A i \in 1 .. N : h[i].at \in Int
  <2>1. \A i \in 1 .. N : h[i] \in TradeType
    BY <1>1
  <2> QED BY <2>1 DEF TradeType
<1>3. \A i \in 1 .. N : AtOnce(h, seconds, i) = {h[j].token : j \in Window(h, seconds, i)}
  BY DEF AtOnce
<1> HIDE DEF N
<1>4. ASSUME NEW i \in 1 .. N PROVE Seen(i) \subseteq AtOnce(h, seconds, i)
  <2> SUFFICES ASSUME NEW k \in i .. N, Within(h, i, k, seconds)
               PROVE  k \in Window(h, seconds, i)
    BY <1>3
  <2>1. k \in 1 .. N /\ i <= k
    BY <1>1
  <2>2. h[i].at <= h[k].at
    BY <1>1, <2>1 DEF InOrder
  <2> QED BY <1>1, <1>2, <2>1, <2>2 DEF Within, Window
<1>5. ASSUME NEW i \in 1 .. N
      PROVE  \E a \in 1 .. N : AtOnce(h, seconds, i) = Seen(a)
  <2> DEFINE w == Window(h, seconds, i)
             a == Min(w)
  <2>1. w \in SUBSET Nat /\ i \in w /\ w \subseteq 1 .. N
    BY <1>1, <1>2 DEF Window
  <2>2. a \in w /\ \A x \in w : a <= x
    BY <2>1, MinIsIn
  <2> HIDE DEF a
  <2>3. a \in 1 .. N /\ a <= i /\ h[a].at = h[i].at
    <3>1. a \in 1 .. N /\ a <= i
      BY <2>1, <2>2
    <3>2. h[a].at <= h[i].at /\ h[a].at - h[i].at >= 0
      BY <1>1, <2>2, <3>1 DEF InOrder, Window
    <3> QED BY <1>2, <3>1, <3>2
  <2>4. w = {k \in a .. N : Within(h, a, k, seconds)}
    <3>1. ASSUME NEW k \in w PROVE k \in a .. N /\ Within(h, a, k, seconds)
      BY <1>1, <1>2, <2>1, <2>2, <2>3 DEF Window, Within
    <3>2. ASSUME NEW k \in a .. N, Within(h, a, k, seconds) PROVE k \in w
      <4>1. k \in 1 .. N /\ a <= k
        BY <1>1, <2>3
      <4>2. h[a].at <= h[k].at
        BY <1>1, <2>3, <4>1 DEF InOrder
      <4> QED BY <1>1, <1>2, <2>3, <3>2, <4>1, <4>2 DEF Window, Within
    <3> QED BY <3>1, <3>2
  <2> QED BY <1>3, <2>3, <2>4
<1>6. ASSUME NEW i \in 1 .. N
      PROVE  /\ IsFiniteSet(AtOnce(h, seconds, i)) /\ IsFiniteSet(Seen(i))
             /\ Cardinality(AtOnce(h, seconds, i)) \in 0 .. N
             /\ Cardinality(Seen(i)) \in 0 .. N
             /\ Cardinality(Seen(i)) <= Cardinality(AtOnce(h, seconds, i))
  <2> DEFINE t == [j \in 1 .. N |-> h[j].token]
             all == {t[j] : j \in 1 .. N}
  <2>1. IsFiniteSet(1 .. N) /\ Cardinality(1 .. N) = N
    BY <1>1, FS_Interval
  <2>2. IsFiniteSet(all) /\ Cardinality(all) <= N
    <3>1. t \in Surjection(1 .. N, all)
      BY DEF Surjection
    <3> HIDE DEF t, all
    <3>2. IsFiniteSet(all) /\ Cardinality(all) <= Cardinality(1 .. N)
      BY <2>1, <3>1, FS_Surjection
    <3> QED BY <2>1, <3>2
  <2>3. AtOnce(h, seconds, i) \subseteq all
    BY <1>1, <1>3 DEF Window
  <2>4. IsFiniteSet(AtOnce(h, seconds, i)) /\ Cardinality(AtOnce(h, seconds, i)) <= Cardinality(all)
    <3> HIDE DEF all
    <3> QED BY <2>2, <2>3, FS_Subset
  <2> HIDE DEF Seen
  <2>5. IsFiniteSet(Seen(i)) /\ Cardinality(Seen(i)) <= Cardinality(AtOnce(h, seconds, i))
    BY <1>4, <2>4, FS_Subset
  <2>6. Cardinality(Seen(i)) \in Nat /\ Cardinality(AtOnce(h, seconds, i)) \in Nat
        /\ Cardinality(all) \in Nat
    <3> HIDE DEF all
    <3> QED BY <2>2, <2>4, <2>5, FS_CardinalityType
  <2> HIDE DEF all
  <2> QED BY <1>1, <2>2, <2>4, <2>5, <2>6
<1> HIDE DEF Seen
<1>7. Found \in SUBSET (0 .. N) /\ Found # {} /\ Real \in SUBSET (0 .. N) /\ Real # {}
  BY <1>1, <1>6
<1>8. \A x \in Real : x \in Found
  BY <1>1, <1>5
<1>9. \A x \in Found : \E y \in Real : x <= y
  BY <1>1, <1>6
<1> HIDE DEF Found, Real
<1>10. /\ Max(Found) \in Found /\ \A x \in Found : x <= Max(Found)
       /\ Max(Real) \in Real /\ \A x \in Real : x <= Max(Real)
  BY <1>1, <1>7, MaxIsIn
<1> DEFINE f == Max(Found)
           r == Max(Real)
<1>11. f \in Int /\ r \in Int /\ r <= f /\ \A x \in Real : x \in Int
  <2>1. \A x \in 0 .. N : x \in Int
    BY <1>1
  <2>2. f \in 0 .. N /\ r \in 0 .. N /\ r \in Found
    BY <1>7, <1>8, <1>10
  <2>3. \A x \in Real : x \in 0 .. N
    BY <1>7
  <2>4. r <= f
    BY <1>10, <2>2
  <2> HIDE DEF f, r
  <2> QED BY <2>1, <2>2, <2>3, <2>4
<1>12. PICK y \in Real : f <= y
  BY <1>9, <1>10
<1>13. y <= r
  BY <1>10
<1> HIDE DEF f, r
<1>14. f = r
  BY <1>11, <1>12, <1>13
<1> QED BY <1>14 DEF f, r, RollingTokens, Peak, Found, Real, Seen, N

-----------------------------------------------------------------------------
(* Cycles *)

(* The pass over the trades of a token: C[n] is its state after the first n. *)
CyclesRun(C, h) ==
  /\ C[0] = NoCycle
  /\ \A n \in 1 .. Len(h) : C[n] = Turn(C[n - 1], h[n])

(* The same pass, adding up exactly. *)
ExactRun(C, h) ==
  /\ C[0] = NoCycle
  /\ \A n \in 1 .. Len(h) : C[n] = ExactTurn(C[n - 1], h[n])

LEMMA ExactRuns ==
  ASSUME NEW h \in Seq(TradeType)
  PROVE  \E C : ExactRun(C, h)
<1>1. DOMAIN h = 1 .. Len(h) /\ Len(h) \in Nat /\ DOMAIN h \in SUBSET (0 .. Len(h))
  OBVIOUS
<1>2. PICK it : Computes(it, "exact", h, DOMAIN h)
  BY <1>1, RecursionExists DEF Calculation
<1>3. \A s \in SUBSET (DOMAIN h) :
        it[s] = IF s = {} THEN NoCycle ELSE ExactTurn(it[s \ {Max(s)}], h[Max(s)])
  BY <1>2 DEF Computes, Start, Step, Taken
<1> DEFINE C == [n \in 0 .. Len(h) |-> it[1 .. n]]
<1>4. C[0] = NoCycle
  <2>1. 1 .. 0 = {}
    OBVIOUS
  <2>2. C[0] = it[1 .. 0]
    BY <1>1
  <2> HIDE DEF C
  <2> QED BY <1>3, <2>1, <2>2
<1>5. ASSUME NEW n \in 1 .. Len(h) PROVE C[n] = ExactTurn(C[n - 1], h[n])
  <2>1. 1 .. n \in SUBSET (DOMAIN h) /\ n \in 1 .. n /\ (1 .. n) \ {n} = 1 .. n - 1
    BY <1>1
  <2>2. Max(1 .. n) = n
    BY MaxOfInterval
  <2>3. it[1 .. n] = ExactTurn(it[1 .. n - 1], h[n])
    BY <1>3, <2>1, <2>2
  <2> QED BY <1>1, <2>3
<1> HIDE DEF C
<1> QED BY <1>4, <1>5 DEF ExactRun

LEMMA CyclesIsChosen ==
  ASSUME NEW h, NEW now
  PROVE  Cycles(h, now) =
           LET c == (CHOOSE it : Turns(it, h))[DOMAIN h]
           IN IF c.open > 0 /\ now - c.since >= MinHold THEN [c EXCEPT !.long = @ + 1] ELSE c
BY DEF Cycles, FoldLeft, MapThenFoldSet, Turns, Turn

LEMMA CyclesRuns ==
  ASSUME NEW h \in Seq(TradeType), NEW now
  PROVE  \E C : /\ CyclesRun(C, h)
                /\ Cycles(h, now) =
                     IF C[Len(h)].open > 0 /\ now - C[Len(h)].since >= MinHold
                     THEN [C[Len(h)] EXCEPT !.long = @ + 1] ELSE C[Len(h)]
<1> DEFINE it == CHOOSE j : Turns(j, h)
           C == [n \in 0 .. Len(h) |-> it[1 .. n]]
<1>1. DOMAIN h = 1 .. Len(h) /\ Len(h) \in Nat
  OBVIOUS
<1>2. Turns(it, h)
  BY TurnsExist
<1>3. Cycles(h, now) =
        LET c == it[DOMAIN h]
        IN IF c.open > 0 /\ now - c.since >= MinHold THEN [c EXCEPT !.long = @ + 1] ELSE c
  BY CyclesIsChosen
<1> HIDE DEF it
<1>4. \A s \in SUBSET (DOMAIN h) :
        it[s] = IF s = {} THEN NoCycle ELSE Turn(it[s \ {Max(s)}], h[Max(s)])
  BY <1>2 DEF Turns
<1>5. C[0] = NoCycle
  <2>1. 1 .. 0 = {}
    OBVIOUS
  <2>2. it[{}] = NoCycle
    BY <1>4
  <2>3. C[0] = it[1 .. 0]
    BY <1>1
  <2> HIDE DEF C
  <2> QED BY <2>1, <2>2, <2>3
<1>6. ASSUME NEW n \in 1 .. Len(h) PROVE C[n] = Turn(C[n - 1], h[n])
  <2>1. 1 .. n \in SUBSET (DOMAIN h) /\ n \in 1 .. n /\ (1 .. n) \ {n} = 1 .. n - 1
    BY <1>1
  <2>2. Max(1 .. n) = n
    BY MaxOfInterval
  <2>3. it[1 .. n] = Turn(it[1 .. n - 1], h[n])
    BY <1>4, <2>1, <2>2
  <2> QED BY <1>1, <2>3
<1>7. C[Len(h)] = it[DOMAIN h]
  BY <1>1
<1> HIDE DEF C
<1> QED BY <1>3, <1>5, <1>6, <1>7 DEF CyclesRun

(* What is bought less what is sold from one trade to another is the difference of
   two running sums. *)
LEMMA NetIs ==
  ASSUME NEW h \in Seq(TradeType), NEW F, Runs(F, h),
         NEW i \in 1 .. Len(h), NEW j \in i .. Len(h)
  PROVE  Net(h, i, j) = F[j] - F[i - 1]
<1> DEFINE g == SubSeq(h, i, j)
           m == j - i + 1
<1>1. Len(h) \in Nat /\ i \in Nat /\ j \in Nat /\ m \in Nat /\ i <= j /\ i >= 1
  OBVIOUS
<1>2. g \in Seq(TradeType) /\ Len(g) = m /\ \A k \in 1 .. m : g[k] = h[i + k - 1]
  BY <1>1
<1>3. SubSeq(g, 1, m) = g
  <2> HIDE DEF g, m
  <2> QED BY <1>1, <1>2
<1> HIDE DEF g
<1>4. PICK G : Runs(G, g) /\ \A n \in 0 .. Len(g) : Total(SubSeq(g, 1, n), Signed) = G[n]
  BY <1>2, TotalsRun
<1>5. Net(h, i, j) = G[m]
  <2>1. m \in 0 .. Len(g)
    BY <1>1, <1>2
  <2>2. Total(SubSeq(g, 1, m), Signed) = G[m]
    BY <1>4, <2>1
  <2>3. Total(g, Signed) = G[m]
    BY <1>3, <2>2
  <2> QED BY <2>3 DEF Net, g
<1> DEFINE Good(k) == G[k] = F[i + k - 1] - F[i - 1]
           Bad == {k \in 0 .. m : ~ Good(k)}
<1>6. ASSUME Bad # {} PROVE FALSE
  <2>1. PICK k \in Bad : \A x \in Bad : k <= x
    <3>1. Bad \in SUBSET Nat
      BY <1>1
    <3> HIDE DEF Bad
    <3> QED BY <1>6, <3>1, LeastNumber
  <2>2. k \in 0 .. m /\ ~ Good(k)
    OBVIOUS
  <2>3. G[0] = 0 /\ \A n \in 0 .. Len(h) : F[n] \in Int
    BY <1>4 DEF Runs
  <2>4. i - 1 \in 0 .. Len(h) /\ i + 0 - 1 = i - 1
    BY <1>1
  <2>5. k # 0
    <3>1. Good(0)
      BY <2>3, <2>4
    <3> QED BY <2>2, <3>1
  <2>6. k \in 1 .. m /\ k - 1 \in 0 .. m /\ ~ (k <= k - 1) /\ k \in Nat
    BY <1>1, <2>2, <2>5
  <2>7. Good(k - 1)
    BY <2>1, <2>6
  <2> DEFINE l == i + k - 1
  <2>8. l \in 1 .. Len(h) /\ l - 1 \in 0 .. Len(h) /\ l - 1 = i + (k - 1) - 1 /\ l \in 0 .. Len(h)
    BY <1>1, <2>6
  <2>9. G[k] = G[k - 1] + Signed(g[k]) /\ g[k] = h[l]
    BY <1>2, <1>4, <2>6 DEF Runs
  <2>10. F[l] = F[l - 1] + Signed(h[l])
    BY <2>8 DEF Runs
  <2>11. Signed(h[l]) \in Int
    <3>1. h[l] \in TradeType
      BY <2>8
    <3> QED BY <3>1, SignedIsInt
  <2>12. G[k - 1] = F[l - 1] - F[i - 1]
    BY <2>7, <2>8
  <2>13. F[l - 1] \in Int /\ F[i - 1] \in Int /\ F[l] \in Int
    BY <2>3, <2>4, <2>8
  <2>14. G[k] = F[l] - F[i - 1]
    <3> DEFINE a == F[l - 1]
               b == F[i - 1]
               c == F[l]
               d == Signed(h[l])
    <3>1. a \in Int /\ b \in Int /\ c \in Int /\ d \in Int /\ c = a + d /\ G[k] = (a - b) + d
      BY <2>9, <2>10, <2>11, <2>12, <2>13
    <3> HIDE DEF a, b, c, d
    <3>2. G[k] = c - b
      BY <3>1
    <3> QED BY <3>2 DEF b, c
  <2> QED BY <2>2, <2>14
<1>7. Good(m)
  BY <1>1, <1>6
<1>8. i + m - 1 = j
  BY <1>1
<1> QED BY <1>5, <1>7, <1>8

(* A change of zero is no trade (TokenDetector.detect). *)
MovesTokens(h) == \A i \in DOMAIN h : h[i].amount > 0

(* Where a buy ends: as soon as no more is bought than sold since. *)
EndsBy(h, F, i) ==
  LET e == EndOf(h, i)
  IN /\ e \in i .. Len(h) + 1
     /\ e <= Len(h) => F[e] <= F[i - 1]
     /\ \A j \in i .. Len(h) : j < e => F[j] > F[i - 1]

LEMMA EndIs ==
  ASSUME NEW h \in Seq(TradeType), NEW F, Runs(F, h), NEW i \in 1 .. Len(h)
  PROVE  EndsBy(h, F, i)
<1> DEFINE S == {j \in i .. Len(h) : Net(h, i, j) <= 0} \cup {Len(h) + 1}
           e == Min(S)
<1>1. Len(h) \in Nat /\ i \in Nat /\ i - 1 \in 0 .. Len(h)
  OBVIOUS
<1>2. e \in S /\ \A x \in S : e <= x
  <2>1. S \in SUBSET Nat /\ S # {}
    BY <1>1
  <2> HIDE DEF S
  <2> QED BY <2>1, MinIsIn
<1>3. \A j \in i .. Len(h) : /\ F[j] \in Int /\ F[i - 1] \in Int
                             /\ Net(h, i, j) = F[j] - F[i - 1]
  <2>1. \A j \in i .. Len(h) : j \in 0 .. Len(h)
    BY <1>1
  <2>2. \A j \in 0 .. Len(h) : F[j] \in Int
    BY DEF Runs
  <2> QED BY <1>1, <2>1, <2>2, NetIs
<1> HIDE DEF e
<1>4. e \in i .. Len(h) + 1
  BY <1>1, <1>2
<1>5. e <= Len(h) => F[e] <= F[i - 1]
  <2> SUFFICES ASSUME e <= Len(h) PROVE F[e] <= F[i - 1]
    OBVIOUS
  <2>1. e \in i .. Len(h)
    BY <1>1, <1>4
  <2>2. Net(h, i, e) <= 0
    BY <1>1, <1>2, <1>4
  <2>3. F[e] \in Int /\ F[i - 1] \in Int /\ F[e] - F[i - 1] <= 0
    BY <1>3, <2>1, <2>2
  <2> QED BY <2>3
<1>6. ASSUME NEW j \in i .. Len(h), j < e PROVE F[j] > F[i - 1]
  <2>1. ~ (Net(h, i, j) <= 0)
    BY <1>1, <1>2, <1>6
  <2>2. F[j] \in Int /\ F[i - 1] \in Int /\ ~ (F[j] - F[i - 1] <= 0)
    BY <1>3, <2>1
  <2> QED BY <2>2
<1>7. e = EndOf(h, i)
  BY DEF EndOf, e
<1> QED BY <1>4, <1>5, <1>6, <1>7 DEF EndsBy

(* The cycles that ended with trade n or before, and were held so long. *)
EndedBy(h, n) == {i \in Openings(h) : EndOf(h, i) <= n}
Held(h, i) == h[EndOf(h, i)].at - h[i].at
Fast(h, n) == {i \in EndedBy(h, n) : Held(h, i) <= RapidExit}
Slow(h, n) == {i \in EndedBy(h, n) : Held(h, i) >= MinHold}

(* No cycle is open and every buy has ended; or one cycle is open, begun by the buy
   o, and what is held is what was bought since less what was sold.  Every cycle
   that ended is counted. *)
Following(c, F, h, n) ==
  /\ c = [open |-> c.open, since |-> c.since, rapid |-> c.rapid, long |-> c.long]
  /\ c.open \in Nat
  /\ c.open = 0 => \A j \in 1 .. n : IsBuy(h[j]) => EndOf(h, j) <= n
  /\ c.open > 0 => \E o \in 1 .. n : /\ o \in Openings(h) /\ EndOf(h, o) > n
                                     /\ c.open = F[n] - F[o - 1] /\ c.since = h[o].at
  /\ c.rapid = Cardinality(Fast(h, n))
  /\ c.long = Cardinality(Slow(h, n))

LEMMA SetsOfCycles ==
  ASSUME NEW h \in Seq(TradeType), NEW n
  PROVE  /\ IsFiniteSet(Fast(h, n)) /\ IsFiniteSet(Slow(h, n))
         /\ Cardinality(Fast(h, n)) \in Nat /\ Cardinality(Slow(h, n)) \in Nat
<1>1. IsFiniteSet(1 .. Len(h))
  BY FS_Interval
<1>2. Fast(h, n) \subseteq 1 .. Len(h) /\ Slow(h, n) \subseteq 1 .. Len(h)
  BY DEF Fast, Slow, EndedBy, Openings
<1>3. IsFiniteSet(Fast(h, n)) /\ IsFiniteSet(Slow(h, n))
  BY <1>1, <1>2, FS_Subset
<1> QED BY <1>3, FS_CardinalityType

(* The same cycles have ended by n as by n - 1, or one more. *)
LEMMA SameCycles ==
  ASSUME NEW h, NEW n, NEW m, EndedBy(h, n) = EndedBy(h, m)
  PROVE  Fast(h, n) = Fast(h, m) /\ Slow(h, n) = Slow(h, m)
BY DEF Fast, Slow

LEMMA OneMoreCycle ==
  ASSUME NEW h \in Seq(TradeType), NEW n, NEW m, NEW o, o \notin EndedBy(h, m),
         EndedBy(h, n) = EndedBy(h, m) \cup {o}
  PROVE  /\ Cardinality(Fast(h, n)) = Cardinality(Fast(h, m)) + (IF Held(h, o) <= RapidExit THEN 1 ELSE 0)
         /\ Cardinality(Slow(h, n)) = Cardinality(Slow(h, m)) + (IF Held(h, o) >= MinHold THEN 1 ELSE 0)
<1>1. /\ IsFiniteSet(Fast(h, m)) /\ IsFiniteSet(Slow(h, m))
      /\ Cardinality(Fast(h, m)) \in Nat /\ Cardinality(Slow(h, m)) \in Nat
  BY SetsOfCycles
<1>2. /\ Fast(h, n) = IF Held(h, o) <= RapidExit THEN Fast(h, m) \cup {o} ELSE Fast(h, m)
      /\ Slow(h, n) = IF Held(h, o) >= MinHold THEN Slow(h, m) \cup {o} ELSE Slow(h, m)
      /\ o \notin Fast(h, m) /\ o \notin Slow(h, m)
  BY DEF Fast, Slow
<1>3. /\ Cardinality(Fast(h, m) \cup {o}) = Cardinality(Fast(h, m)) + 1
      /\ Cardinality(Slow(h, m) \cup {o}) = Cardinality(Slow(h, m)) + 1
  BY <1>1, <1>2, FS_AddElement
<1> QED BY <1>1, <1>2, <1>3

(* A buy opens a cycle, or adds to the one that is open; it ends none. *)
LEMMA FollowingBuy ==
  ASSUME NEW h \in Seq(TradeType), MovesTokens(h), NEW F, Runs(F, h),
         NEW n \in 1 .. Len(h), NEW c, Following(c, F, h, n - 1), IsBuy(h[n])
  PROVE  Following(ExactOpen(c, h[n]), F, h, n)
<1> DEFINE a == h[n].amount
           q == ExactOpen(c, h[n])
<1>1. n \in Nat /\ n - 1 \in Nat /\ Len(h) \in Nat /\ n \in DOMAIN h
  OBVIOUS
<1>2. a \in Nat /\ a > 0
  <2>1. h[n] \in TradeType /\ h[n].amount > 0
    BY <1>1 DEF MovesTokens
  <2> QED BY <2>1 DEF TradeType
<1>3. F[n] = F[n - 1] + a /\ \A k \in 0 .. Len(h) : F[k] \in Int
  <2>1. Signed(h[n]) = a
    BY <1>2 DEF Signed, Bought, Sold
  <2> QED BY <2>1 DEF Runs
<1>4. /\ c = [open |-> c.open, since |-> c.since, rapid |-> c.rapid, long |-> c.long]
      /\ c.open \in Nat
      /\ c.open = 0 => \A j \in 1 .. n - 1 : IsBuy(h[j]) => EndOf(h, j) <= n - 1
      /\ c.open > 0 => \E o \in 1 .. n - 1 :
           /\ o \in Openings(h) /\ EndOf(h, o) > n - 1
           /\ c.open = F[n - 1] - F[o - 1] /\ c.since = h[o].at
      /\ c.rapid = Cardinality(Fast(h, n - 1)) /\ c.long = Cardinality(Slow(h, n - 1))
  BY DEF Following
<1>5. q = [open |-> c.open + a, since |-> IF c.open = 0 THEN h[n].at ELSE c.since,
           rapid |-> c.rapid, long |-> c.long]
  <2> DEFINE t == IF c.open = 0 THEN h[n].at ELSE c.since
  <2>1. q = [c EXCEPT !.open = c.open + a, !.since = t]
    BY DEF ExactOpen
  <2> HIDE DEF q, t, a
  <2>2. q = [open |-> c.open + a, since |-> t, rapid |-> c.rapid, long |-> c.long]
    BY <1>4, <2>1
  <2> QED BY <2>2 DEF t
<1> HIDE DEF a, q
<1>6. ASSUME NEW i \in 1 .. n PROVE EndOf(h, i) \in Nat /\ i <= EndOf(h, i) /\ EndOf(h, i) # n
  <2>1. i \in 1 .. Len(h) /\ i - 1 \in 0 .. Len(h) /\ n - 1 \in 0 .. Len(h) /\ n \in 0 .. Len(h)
    BY <1>1
  <2>2. EndsBy(h, F, i)
    BY <2>1, EndIs
  <2>3. EndOf(h, i) \in Nat /\ i <= EndOf(h, i)
    BY <1>1, <2>1, <2>2 DEF EndsBy
  <2>4. ASSUME EndOf(h, i) = n PROVE FALSE
    <3>1. F[n] <= F[i - 1]
      BY <1>1, <2>2, <2>4 DEF EndsBy
    <3>2. i = n \/ F[n - 1] > F[i - 1]
      <4>1. CASE i \in 1 .. n - 1
        <5>1. n - 1 \in i .. Len(h) /\ n - 1 < EndOf(h, i)
          BY <1>1, <2>4, <4>1
        <5> QED BY <2>2, <5>1 DEF EndsBy
      <4> QED BY <1>1, <4>1
    <3> DEFINE u == F[n]
               v == F[n - 1]
               w == F[i - 1]
    <3>3. u \in Int /\ v \in Int /\ w \in Int /\ u = v + a /\ u <= w /\ (v = w \/ v > w)
      BY <1>3, <2>1, <3>1, <3>2
    <3> HIDE DEF u, v, w
    <3> QED BY <1>2, <3>3
  <2> QED BY <2>3, <2>4
<1>7. EndedBy(h, n) = EndedBy(h, n - 1)
  <2>1. ASSUME NEW i \in Openings(h) PROVE EndOf(h, i) <= n <=> EndOf(h, i) <= n - 1
    <3>1. i \in 1 .. Len(h)
      BY DEF Openings
    <3>2. EndOf(h, i) \in Nat /\ i <= EndOf(h, i)
      BY <1>1, <3>1, EndIs DEF EndsBy
    <3>3. EndOf(h, i) # n
      BY <1>1, <1>6, <3>1, <3>2
    <3> QED BY <1>1, <3>2, <3>3
  <2> QED BY <2>1 DEF EndedBy
<1>8. q.rapid = Cardinality(Fast(h, n)) /\ q.long = Cardinality(Slow(h, n))
  BY <1>4, <1>5, <1>7, SameCycles
<1>9. q.open \in Nat /\ q.open > 0
  BY <1>2, <1>4, <1>5
<1>10. \E o \in 1 .. n : /\ o \in Openings(h) /\ EndOf(h, o) > n
                         /\ q.open = F[n] - F[o - 1] /\ q.since = h[o].at
  <2>1. CASE c.open = 0
    <3>1. n \in 1 .. n
      BY <1>1
    <3>2. \A j \in 1 .. n - 1 : IsBuy(h[j]) => EndOf(h, j) < n
      <4>1. ASSUME NEW j \in 1 .. n - 1, IsBuy(h[j]) PROVE EndOf(h, j) < n
        <5>1. EndOf(h, j) <= n - 1 /\ EndOf(h, j) \in Nat
          BY <1>1, <1>4, <1>6, <2>1, <4>1
        <5> QED BY <1>1, <5>1
      <4> QED BY <4>1
    <3>3. n \in Openings(h)
      BY <1>1, <3>2 DEF Openings
    <3>4. EndOf(h, n) > n
      BY <1>1, <1>6, <3>1
    <3>5. q.open = F[n] - F[n - 1]
      <4> DEFINE u == F[n]
                 v == F[n - 1]
      <4>1. u = v + a /\ v \in Int /\ q.open = 0 + a
        BY <1>1, <1>3, <1>5, <2>1
      <4> HIDE DEF u, v
      <4>2. q.open = u - v
        BY <1>2, <4>1
      <4> QED BY <4>2 DEF u, v
    <3>6. q.since = h[n].at
      BY <1>5, <2>1
    <3> QED BY <3>1, <3>3, <3>4, <3>5, <3>6
  <2>2. CASE c.open > 0
    <3>1. PICK o \in 1 .. n - 1 : /\ o \in Openings(h) /\ EndOf(h, o) > n - 1
                                  /\ c.open = F[n - 1] - F[o - 1] /\ c.since = h[o].at
      BY <1>4, <2>2
    <3>2. o \in 1 .. n
      BY <1>1
    <3>3. EndOf(h, o) > n
      BY <1>1, <1>6, <3>1, <3>2
    <3>4. q.open = F[n] - F[o - 1]
      <4> DEFINE u == F[n]
                 v == F[n - 1]
                 w == F[o - 1]
      <4>1. u = v + a /\ v \in Int /\ w \in Int /\ c.open = v - w /\ q.open = c.open + a
        BY <1>1, <1>3, <1>5, <3>1
      <4> HIDE DEF u, v, w
      <4>2. q.open = u - w
        BY <1>2, <4>1
      <4> QED BY <4>2 DEF u, w
    <3>5. q.since = h[o].at
      BY <1>5, <2>2, <3>1
    <3> QED BY <3>1, <3>2, <3>3, <3>4, <3>5
  <2> QED BY <1>4, <2>1, <2>2
<1>11. q = [open |-> q.open, since |-> q.since, rapid |-> q.rapid, long |-> q.long]
  BY <1>5
<1>12. ~ (q.open = 0)
  BY <1>9
<1> QED BY <1>8, <1>9, <1>10, <1>11, <1>12 DEF Following, q

(* A sell ends the cycle that is open when it leaves nothing, and with it every buy
   that was added to the cycle; a sell of what is not held changes nothing. *)
LEMMA FollowingSell ==
  ASSUME NEW h \in Seq(TradeType), MovesTokens(h), NEW F, Runs(F, h),
         NEW n \in 1 .. Len(h), NEW c, Following(c, F, h, n - 1), ~ IsBuy(h[n])
  PROVE  Following(ExactClose(c, h[n]), F, h, n)
<1> DEFINE a == h[n].amount
           left == Max({c.open - a, 0})
           q == ExactClose(c, h[n])
<1>1. n \in Nat /\ n - 1 \in Nat /\ Len(h) \in Nat /\ n \in DOMAIN h
  OBVIOUS
<1>2. a \in Nat /\ a > 0
  <2>1. h[n] \in TradeType /\ h[n].amount > 0
    BY <1>1 DEF MovesTokens
  <2> QED BY <2>1 DEF TradeType
<1>3. F[n] = F[n - 1] - a /\ \A k \in 0 .. Len(h) : F[k] \in Int
  <2>1. Signed(h[n]) = - a
    BY <1>2 DEF Signed, Bought, Sold
  <2>2. F[n] = F[n - 1] + Signed(h[n]) /\ \A k \in 0 .. Len(h) : F[k] \in Int
    BY DEF Runs
  <2>3. F[n - 1] \in Int
    BY <1>1, <2>2
  <2> HIDE DEF a
  <2> QED BY <1>2, <2>1, <2>2, <2>3
<1>4. /\ c.open \in Nat
      /\ c.open = 0 => \A j \in 1 .. n - 1 : IsBuy(h[j]) => EndOf(h, j) <= n - 1
      /\ c.open > 0 => \E o \in 1 .. n - 1 :
           /\ o \in Openings(h) /\ EndOf(h, o) > n - 1
           /\ c.open = F[n - 1] - F[o - 1] /\ c.since = h[o].at
      /\ c.rapid = Cardinality(Fast(h, n - 1)) /\ c.long = Cardinality(Slow(h, n - 1))
  BY DEF Following
<1>5. left = IF c.open > a THEN c.open - a ELSE 0
  <2>1. c.open - a \in Int
    BY <1>2, <1>4
  <2>2. CASE c.open > a
    BY <1>2, <1>4, <2>1, <2>2 DEF Max
  <2>3. CASE ~ (c.open > a)
    BY <1>2, <1>4, <2>1, <2>3 DEF Max
  <2> QED BY <2>2, <2>3
<1>6. q = [open |-> left, since |-> c.since,
           rapid |-> IF c.open > 0 /\ left = 0 /\ h[n].at - c.since <= RapidExit
                     THEN c.rapid + 1 ELSE c.rapid,
           long |-> IF c.open > 0 /\ left = 0 /\ h[n].at - c.since >= MinHold
                    THEN c.long + 1 ELSE c.long]
  BY DEF ExactClose
<1> HIDE DEF a, q, left
<1>7. ASSUME NEW i \in 1 .. Len(h)
      PROVE  /\ EndOf(h, i) \in Nat /\ i <= EndOf(h, i)
             /\ EndOf(h, i) <= Len(h) => F[EndOf(h, i)] <= F[i - 1]
             /\ \A j \in i .. Len(h) : j < EndOf(h, i) => F[j] > F[i - 1]
             /\ i - 1 \in 0 .. Len(h) /\ F[i - 1] \in Int
  <2>1. i - 1 \in 0 .. Len(h)
    BY <1>1
  <2> QED BY <1>1, <1>3, <2>1, EndIs DEF EndsBy
<1>8. Openings(h) \subseteq 1 .. Len(h) /\ \A i \in Openings(h) : IsBuy(h[i]) /\ i # n
  BY <1>1 DEF Openings
<1>9. q = [open |-> q.open, since |-> q.since, rapid |-> q.rapid, long |-> q.long] /\ q.open = left
  BY <1>6
<1>10. n \in 0 .. Len(h) /\ n - 1 \in 0 .. Len(h) /\ F[n] \in Int /\ F[n - 1] \in Int
  BY <1>1, <1>3
<1>11. CASE c.open = 0
  <2>1. left = 0
    BY <1>2, <1>4, <1>5, <1>11
  <2>2. ASSUME NEW j \in 1 .. n, IsBuy(h[j]) PROVE EndOf(h, j) <= n - 1 /\ EndOf(h, j) <= n
    <3>1. j \in 1 .. n - 1 /\ j \in 1 .. Len(h)
      BY <1>1, <2>2
    <3>2. EndOf(h, j) <= n - 1
      BY <1>4, <1>11, <2>2, <3>1
    <3> QED BY <1>1, <1>7, <3>1, <3>2
  <2>3. EndedBy(h, n) = EndedBy(h, n - 1)
    <3>1. ASSUME NEW i \in Openings(h) PROVE EndOf(h, i) <= n <=> EndOf(h, i) <= n - 1
      <4>1. i \in 1 .. Len(h) /\ IsBuy(h[i])
        BY <1>8
      <4>2. EndOf(h, i) \in Nat /\ i <= EndOf(h, i)
        BY <1>7, <4>1
      <4>3. EndOf(h, i) <= n => i \in 1 .. n
        BY <1>1, <4>1, <4>2
      <4> QED BY <1>1, <2>2, <4>1, <4>2, <4>3
    <3> QED BY <3>1 DEF EndedBy
  <2>4. q.rapid = c.rapid /\ q.long = c.long
    BY <1>6, <1>11
  <2>5. q.rapid = Cardinality(Fast(h, n)) /\ q.long = Cardinality(Slow(h, n))
    BY <1>4, <2>3, <2>4, SameCycles
  <2>6. q.open = 0 /\ ~ (q.open > 0)
    BY <1>9, <2>1
  <2> QED BY <1>9, <2>2, <2>5, <2>6 DEF Following, q
<1>12. CASE c.open > 0
  <2>1. PICK o \in 1 .. n - 1 : /\ o \in Openings(h) /\ EndOf(h, o) > n - 1
                                /\ c.open = F[n - 1] - F[o - 1] /\ c.since = h[o].at
    BY <1>4, <1>12
  <2>2. o \in 1 .. n /\ o \in 1 .. Len(h) /\ o <= n - 1 /\ o - 1 \in 0 .. Len(h) /\ IsBuy(h[o])
    BY <1>1, <1>8, <2>1
  <2>3. EndOf(h, o) \in Nat /\ EndOf(h, o) >= n
    BY <1>1, <1>7, <2>1, <2>2
  <2>4. c.open - a = F[n] - F[o - 1]
    <3> DEFINE u == F[n]
               v == F[n - 1]
               w == F[o - 1]
    <3>1. u = v - a /\ v \in Int /\ w \in Int /\ c.open = v - w
      BY <1>3, <1>7, <1>10, <2>1, <2>2
    <3> HIDE DEF u, v, w
    <3>2. c.open - a = u - w
      BY <1>2, <3>1
    <3> QED BY <3>2 DEF u, w
  <2>5. ASSUME NEW i \in Openings(h), i # o, EndOf(h, i) <= n PROVE EndOf(h, i) <= n - 1
    <3>1. i \in 1 .. Len(h) /\ EndOf(h, i) \in Nat /\ i <= EndOf(h, i) /\ i \in Nat
      BY <1>1, <1>7, <1>8
    <3>2. CASE i < o
      <4>1. i \in 1 .. o - 1 /\ IsBuy(h[i])
        BY <1>1, <1>8, <2>2, <3>1, <3>2
      <4>2. EndOf(h, i) < o
        BY <2>1, <4>1 DEF Openings
      <4> QED BY <1>1, <2>2, <3>1, <4>2
    <3>3. CASE i > o
      <4>1. o \in 1 .. i - 1
        BY <1>1, <2>2, <3>1, <3>3
      <4>2. EndOf(h, o) < i
        BY <2>2, <4>1 DEF Openings
      <4>3. EndOf(h, o) < n
        BY <1>1, <2>3, <2>5, <3>1, <4>2
      <4> QED BY <1>1, <2>3, <4>3
    <3> QED BY <1>1, <2>2, <2>5, <3>1, <3>2, <3>3
  <2>6. ASSUME NEW i \in Openings(h), EndOf(h, i) <= n - 1 PROVE EndOf(h, i) <= n /\ i # o
    BY <1>1, <1>7, <1>8, <2>1, <2>6
  <2>7. CASE c.open > a
    <3>1. left = c.open - a /\ left > 0 /\ left \in Nat
      BY <1>2, <1>4, <1>5, <2>7
    <3>2. EndOf(h, o) > n
      <4>1. ASSUME EndOf(h, o) = n PROVE FALSE
        <5>1. F[n] <= F[o - 1]
          BY <1>1, <1>7, <2>2, <4>1
        <5> DEFINE u == F[n]
                   w == F[o - 1]
        <5>2. u \in Int /\ w \in Int /\ u <= w /\ left = u - w
          BY <1>7, <1>10, <2>2, <2>4, <3>1, <5>1
        <5> HIDE DEF u, w
        <5> QED BY <3>1, <5>2
      <4> QED BY <1>1, <2>3, <4>1
    <3>3. EndedBy(h, n) = EndedBy(h, n - 1)
      <4>1. \A i \in Openings(h) : EndOf(h, i) <= n <=> EndOf(h, i) <= n - 1
        <5>1. ~ (EndOf(h, o) <= n)
          BY <1>1, <2>3, <3>2
        <5> QED BY <2>5, <2>6, <5>1
      <4> QED BY <4>1 DEF EndedBy
    <3>4. q.rapid = c.rapid /\ q.long = c.long /\ q.since = c.since
      BY <1>6, <3>1
    <3>5. q.rapid = Cardinality(Fast(h, n)) /\ q.long = Cardinality(Slow(h, n))
      BY <1>4, <3>3, <3>4, SameCycles
    <3>6. q.open = F[n] - F[o - 1] /\ q.since = h[o].at /\ q.open \in Nat /\ ~ (q.open = 0)
      BY <1>9, <2>1, <2>4, <3>1, <3>4
    <3> QED BY <1>9, <2>1, <2>2, <3>2, <3>5, <3>6 DEF Following, q
  <2>8. CASE ~ (c.open > a)
    <3>1. left = 0
      BY <1>5, <2>8
    <3>2. F[n] <= F[o - 1]
      <4> DEFINE u == F[n]
                 w == F[o - 1]
      <4>1. u \in Int /\ w \in Int /\ c.open - a = u - w
        BY <1>7, <1>10, <2>2, <2>4
      <4> HIDE DEF u, w
      <4>2. u <= w
        BY <1>2, <1>4, <2>8, <4>1
      <4> QED BY <4>2 DEF u, w
    <3>3. ASSUME NEW j \in 1 .. Len(h), j <= n, F[n] <= F[j - 1] PROVE EndOf(h, j) <= n
      <4>1. n \in j .. Len(h)
        BY <1>1, <3>3
      <4>2. ~ (n < EndOf(h, j))
        BY <1>7, <1>10, <3>3, <4>1
      <4> QED BY <1>1, <1>7, <4>2
    <3>4. EndOf(h, o) = n
      <4>1. EndOf(h, o) <= n
        BY <1>1, <2>2, <3>2, <3>3
      <4> QED BY <1>1, <2>3, <4>1
    <3>5. EndedBy(h, n) = EndedBy(h, n - 1) \cup {o}
      <4>1. \A i \in Openings(h) : EndOf(h, i) <= n <=> EndOf(h, i) <= n - 1 \/ i = o
        BY <1>1, <2>5, <2>6, <3>4
      <4> QED BY <2>1, <4>1 DEF EndedBy
    <3>6. o \notin EndedBy(h, n - 1)
      BY <2>6 DEF EndedBy
    <3>7. Held(h, o) = h[n].at - c.since
      BY <2>1, <3>4 DEF Held
    <3>8. q.rapid = Cardinality(Fast(h, n)) /\ q.long = Cardinality(Slow(h, n))
      <4>1. /\ Cardinality(Fast(h, n - 1)) \in Nat /\ Cardinality(Slow(h, n - 1)) \in Nat
        BY SetsOfCycles
      <4>2. /\ Cardinality(Fast(h, n)) =
                 Cardinality(Fast(h, n - 1)) + (IF Held(h, o) <= RapidExit THEN 1 ELSE 0)
            /\ Cardinality(Slow(h, n)) =
                 Cardinality(Slow(h, n - 1)) + (IF Held(h, o) >= MinHold THEN 1 ELSE 0)
        BY <3>5, <3>6, OneMoreCycle
      <4>3. /\ q.rapid = IF Held(h, o) <= RapidExit THEN c.rapid + 1 ELSE c.rapid
            /\ q.long = IF Held(h, o) >= MinHold THEN c.long + 1 ELSE c.long
        BY <1>6, <1>12, <3>1, <3>7
      <4> QED BY <1>4, <4>1, <4>2, <4>3
    <3>9. ASSUME NEW j \in 1 .. n, IsBuy(h[j]) PROVE EndOf(h, j) <= n
      <4>1. j \in 1 .. n - 1 /\ j \in 1 .. Len(h) /\ j \in Nat /\ j <= n
        BY <1>1, <3>9
      <4>2. CASE j < o
        <5>1. j \in 1 .. o - 1
          BY <1>1, <2>2, <4>1, <4>2
        <5>2. EndOf(h, j) < o
          BY <2>1, <3>9, <5>1 DEF Openings
        <5> QED BY <1>1, <1>7, <2>2, <4>1, <5>2
      <4>3. CASE j = o
        BY <1>1, <3>4, <4>3
      <4>4. CASE j > o
        <5>1. j - 1 \in o .. Len(h) /\ j - 1 < EndOf(h, o)
          BY <1>1, <2>2, <2>3, <4>1, <4>4
        <5>2. F[j - 1] > F[o - 1]
          BY <1>7, <2>2, <5>1
        <5> DEFINE u == F[n]
                   v == F[j - 1]
                   w == F[o - 1]
        <5>3. u \in Int /\ v \in Int /\ w \in Int /\ v > w /\ u <= w
          BY <1>7, <1>10, <2>2, <3>2, <4>1, <5>2
        <5> HIDE DEF u, v, w
        <5>4. u <= v
          BY <5>3
        <5>5. F[n] <= F[j - 1]
          BY <5>4 DEF u, v
        <5> QED BY <3>3, <4>1, <5>5
      <4> QED BY <1>1, <2>2, <4>1, <4>2, <4>3, <4>4
    <3>10. q.open = 0 /\ ~ (q.open > 0)
      BY <1>9, <3>1
    <3> QED BY <1>9, <3>8, <3>9, <3>10 DEF Following, q
  <2> QED BY <2>7, <2>8
<1> QED BY <1>4, <1>11, <1>12

LEMMA AlwaysFollowing ==
  ASSUME NEW h \in Seq(TradeType), MovesTokens(h), NEW F, Runs(F, h), NEW C, ExactRun(C, h)
  PROVE  \A n \in 0 .. Len(h) : Following(C[n], F, h, n)
<1> DEFINE Bad == {n \in 0 .. Len(h) : ~ Following(C[n], F, h, n)}
<1>1. Len(h) \in Nat
  OBVIOUS
<1>2. Following(C[0], F, h, 0)
  <2>1. C[0] = [open |-> 0, since |-> 0, rapid |-> 0, long |-> 0]
    BY DEF ExactRun, NoCycle
  <2>2. 1 .. 0 = {}
    OBVIOUS
  <2>3. EndedBy(h, 0) = {}
    <3>1. ASSUME NEW i \in Openings(h) PROVE ~ (EndOf(h, i) <= 0)
      <4>1. i \in 1 .. Len(h)
        BY DEF Openings
      <4> QED BY <1>1, <4>1, EndIs DEF EndsBy
    <3> QED BY <3>1 DEF EndedBy
  <2>4. Cardinality(Fast(h, 0)) = 0 /\ Cardinality(Slow(h, 0)) = 0
    BY <2>3, FS_EmptySet DEF Fast, Slow
  <2> QED BY <2>1, <2>2, <2>4 DEF Following
<1>3. ASSUME Bad # {} PROVE FALSE
  <2>1. PICK n \in Bad : \A m \in Bad : n <= m
    <3>1. Bad \in SUBSET Nat
      BY <1>1
    <3> HIDE DEF Bad
    <3> QED BY <1>3, <3>1, LeastNumber
  <2>2. n \in 0 .. Len(h) /\ ~ Following(C[n], F, h, n)
    OBVIOUS
  <2>3. n \in 1 .. Len(h) /\ n - 1 \in 0 .. Len(h) /\ ~(n <= n - 1)
    BY <1>1, <1>2, <2>2
  <2>4. Following(C[n - 1], F, h, n - 1)
    BY <2>1, <2>3
  <2>5. C[n] = ExactTurn(C[n - 1], h[n])
    BY <2>3 DEF ExactRun
  <2>6. CASE IsBuy(h[n])
    BY <2>2, <2>3, <2>4, <2>5, <2>6, FollowingBuy DEF ExactTurn
  <2>7. CASE ~ IsBuy(h[n])
    BY <2>2, <2>3, <2>4, <2>5, <2>7, FollowingSell DEF ExactTurn
  <2> QED BY <2>6, <2>7
<1> QED BY <1>1, <1>3

(* The state d of the pass over doubles, and the state c of the exact one. *)
Shadows(d, c, distance) ==
  /\ d = [open |-> d.open, since |-> c.since, rapid |-> c.rapid, long |-> c.long]
  /\ d.open \in Int /\ (c.open = 0 => d.open = 0) /\ (c.open > 0 => d.open > 0)
  /\ Near(d.open, Unit * c.open, distance)

(* One more trade makes two more roundings. *)
LEMMA OneMoreTradeIsNear ==
  ASSUME NEW T \in Nat, NEW N \in Nat, InRange(T, N), NEW n \in 1 .. N,
         NEW x \in TradeType, x.amount <= 2 * T,
         NEW k \in Int, -(2 * T) <= k + Signed(x), k + Signed(x) <= 2 * T,
         NEW d \in Int, Near(d, Unit * k, 2 * (n - 1) * Error)
  PROVE  /\ Add(d, SignedAmount(x)) \in Int
         /\ Near(Add(d, SignedAmount(x)), Unit * (k + Signed(x)), 2 * n * Error)
<1> DEFINE s == Signed(x)
           y == SignedAmount(x)
           X == Unit * k
           Y == Unit * s
           W == Unit * T
           L == 2 * N * Error
           p == 2 * (n - 1) * Error
<1>1. /\ W \in Nat /\ L \in Nat /\ Error \in Nat /\ Largest \in Nat
      /\ 2 * W + 2 * L + 4 * Error <= Largest
      /\ \A m \in 0 .. N : 2 * m * Error \in Nat /\ 2 * m * Error <= L
  BY Allowance
<1>2. Unit \in Nat
  BY DoublesAssumption
<1>3. n \in Nat /\ n - 1 \in 0 .. N
  OBVIOUS
<1>4. p \in Nat /\ p <= L
  BY <1>1, <1>3
<1>5. 2 * n * Error = p + Error + Error
  BY <1>1, <1>3
<1>6. s \in Int /\ y \in Int /\ Y \in Int /\ Near(y, Y, Error)
  BY SignedIsInt, AmountIsNear
<1> HIDE DEF s, y
<1>7. X \in Int /\ Unit * (k + s) = X + Y
  BY <1>2, <1>6
<1>8. -(2 * W) <= X + Y /\ X + Y <= 2 * W
  <2>1. \A i, j \in Int : i <= j => Unit * i <= Unit * j
    BY <1>2
  <2>2. k + s \in Int /\ -(2 * T) \in Int /\ 2 * T \in Int
    BY <1>6
  <2>3. Unit * (-(2 * T)) <= Unit * (k + s) /\ Unit * (k + s) <= Unit * (2 * T)
    BY <2>1, <2>2 DEF s
  <2>4. Unit * (-(2 * T)) = -(2 * W) /\ Unit * (2 * T) = 2 * W
    BY <1>2
  <2> QED BY <1>7, <2>3, <2>4
<1>9. Near(d, X, p)
  OBVIOUS
<1> HIDE DEF X, Y, W, L, p
<1>10. -Largest <= X + Y - p - Error /\ X + Y + p + Error <= Largest
  BY <1>1, <1>4, <1>6, <1>7, <1>8
<1>11. Add(d, y) \in Int /\ Near(Add(d, y), X + Y, p + Error + Error)
  BY <1>1, <1>4, <1>6, <1>7, <1>9, <1>10, AddIsNear
<1> QED BY <1>5, <1>7, <1>11 DEF s, y

(* As long as roundings are dust, what is left of nothing is dust, and what is left of
   a position is not. *)
LEMMA DustIsNothing ==
  ASSUME NEW N \in Nat, NEW T \in Nat, InRange(T, N), NEW n \in 0 .. N,
         2 * N * Error <= Dust, Dust + 2 * N * Error < Unit,
         NEW k \in Int, NEW r \in Int, Near(r, Unit * k, 2 * n * Error)
  PROVE  (k <= 0 => r <= Dust) /\ (k >= 1 => r > Dust /\ r > 0)
<1> DEFINE R == 2 * N * Error
           e == 2 * n * Error
           X == Unit * k
<1>1. Unit \in Nat /\ Dust \in Nat
  BY DoublesAssumption, StyleAssumption
<1>2. R \in Nat /\ e \in Nat /\ e <= R
  BY Allowance
<1>3. X \in Int /\ (k <= 0 => X <= 0) /\ (k >= 1 => X >= Unit)
  <2>1. \A i, j \in Int : i <= j => Unit * i <= Unit * j
    BY <1>1
  <2>2. Unit * 0 = 0 /\ Unit * 1 = Unit /\ X \in Int
    BY <1>1
  <2> QED BY <2>1, <2>2
<1>4. R <= Dust /\ Dust + R < Unit /\ Near(r, X, e)
  OBVIOUS
<1> HIDE DEF R, e, X
<1>5. r - X >= -e /\ r - X <= e
  BY <1>2, <1>3, <1>4 DEF Near
<1> QED BY <1>1, <1>2, <1>3, <1>4, <1>5

(* The pass over doubles opens and closes the cycles that the exact one does. *)
LEMMA ShadowsOn ==
  ASSUME NEW T \in Nat, NEW N \in Nat, InRange(T, N), NEW n \in 1 .. N,
         2 * N * Error <= Dust, Dust + 2 * N * Error < Unit,
         NEW x \in TradeType, x.amount > 0, x.amount <= 2 * T,
         NEW c, c = [open |-> c.open, since |-> c.since, rapid |-> c.rapid, long |-> c.long],
         c.open \in Nat, c.open <= 2 * T, IsBuy(x) => c.open + x.amount <= 2 * T,
         NEW d, Shadows(d, c, 2 * (n - 1) * Error)
  PROVE  Shadows(Turn(d, x), ExactTurn(c, x), 2 * n * Error)
<1> DEFINE a == x.amount
           k == c.open
           r == Add(d.open, SignedAmount(x))
<1>1. a \in Nat /\ a > 0 /\ Signed(x) = IF IsBuy(x) THEN a ELSE -a
  <2>1. a \in Nat
    BY DEF TradeType
  <2> QED BY <2>1 DEF Signed, Bought, Sold
<1>2. /\ d = [open |-> d.open, since |-> c.since, rapid |-> c.rapid, long |-> c.long]
      /\ d.open \in Int /\ (k = 0 => d.open = 0) /\ (k > 0 => d.open > 0)
      /\ Near(d.open, Unit * k, 2 * (n - 1) * Error)
  BY DEF Shadows
<1>3. n \in 0 .. N
  OBVIOUS
<1>4. r \in Int /\ Near(r, Unit * (k + Signed(x)), 2 * n * Error)
  <2>1. -(2 * T) <= k + Signed(x) /\ k + Signed(x) <= 2 * T /\ k \in Int
    BY <1>1
  <2> QED BY <1>2, <2>1, OneMoreTradeIsNear
<1>5. SignedAmount(x) = IF IsBuy(x) THEN Double(a) ELSE -Double(a)
  BY DEF SignedAmount
<1>6. CASE IsBuy(x)
  <2>1. k + Signed(x) = k + a /\ k + a \in Int /\ k + a >= 1 /\ k + a > 0
    BY <1>1, <1>6
  <2>2. r > 0
    BY <1>3, <1>4, <2>1, DustIsNothing
  <2>3. ExactTurn(c, x) = [open |-> k + a, since |-> IF k = 0 THEN x.at ELSE c.since,
                           rapid |-> c.rapid, long |-> c.long]
    <3> DEFINE t == IF k = 0 THEN x.at ELSE c.since
               j == k + a
    <3>1. ExactTurn(c, x) = [c EXCEPT !.open = j, !.since = t]
      BY <1>6 DEF ExactTurn, ExactOpen
    <3> HIDE DEF t, j
    <3>2. ExactTurn(c, x) = [open |-> j, since |-> t, rapid |-> c.rapid, long |-> c.long]
      BY <3>1
    <3> QED BY <3>2 DEF t, j
  <2>4. Turn(d, x) = [open |-> r, since |-> IF k = 0 THEN x.at ELSE c.since,
                      rapid |-> c.rapid, long |-> c.long]
    <3>1. r = Add(d.open, Double(a))
      BY <1>5, <1>6
    <3> HIDE DEF r
    <3>2. CASE k = 0
      <4>1. d.open = 0 /\ ~ (d.open > 0)
        BY <1>2, <3>2
      <4>4. r = Add(0, Double(a))
        BY <3>1, <4>1
      <4>2. Turn(d, x) = [d EXCEPT !.open = r, !.since = x.at]
        BY <1>6, <4>1, <4>4 DEF Turn, Open
      <4>3. [d EXCEPT !.open = r, !.since = x.at]
              = [open |-> r, since |-> x.at, rapid |-> c.rapid, long |-> c.long]
        <5> DEFINE o == d.open
                   q == c.since
                   u == c.rapid
                   v == c.long
                   t == x.at
        <5>1. d = [open |-> o, since |-> q, rapid |-> u, long |-> v]
          BY <1>2
        <5> HIDE DEF o, q, u, v, t
        <5> DEFINE e == [d EXCEPT !.open = r]
        <5>2. e = [open |-> r, since |-> q, rapid |-> u, long |-> v]
          BY <5>1
        <5> HIDE DEF e
        <5>3. [e EXCEPT !.since = t] = [open |-> r, since |-> t, rapid |-> u, long |-> v]
          BY <5>2
        <5> QED BY <5>3 DEF e, u, v, t
      <4> QED BY <3>2, <4>2, <4>3
    <3>3. CASE k # 0
      <4>1. d.open > 0
        BY <1>2, <3>3
      <4>2. Turn(d, x) = [d EXCEPT !.open = r]
        BY <1>6, <3>1, <4>1 DEF Turn, Open
      <4>3. [d EXCEPT !.open = r]
              = [open |-> r, since |-> c.since, rapid |-> c.rapid, long |-> c.long]
        BY <1>2
      <4> QED BY <3>3, <4>2, <4>3
    <3> QED BY <3>2, <3>3
  <2>5. Near(r, Unit * (k + a), 2 * n * Error)
    BY <1>4, <2>1
  <2> DEFINE j == k + a
  <2>6. j \in Int /\ j > 0 /\ r \in Int /\ Near(r, Unit * j, 2 * n * Error)
    BY <1>4, <2>1, <2>5
  <2> HIDE DEF r, j
  <2>7. /\ ExactTurn(c, x).open = j /\ Turn(d, x).open = r
        /\ Turn(d, x) = [open |-> r, since |-> ExactTurn(c, x).since,
                         rapid |-> ExactTurn(c, x).rapid, long |-> ExactTurn(c, x).long]
    BY <2>3, <2>4 DEF j
  <2> QED BY <2>2, <2>6, <2>7 DEF Shadows
<1>7. CASE ~ IsBuy(x) /\ k = 0
  <2>1. d.open = 0 /\ ~ (d.open > 0) /\ ~ (c.open > 0)
    BY <1>2, <1>7
  <2>2. Max({k - a, 0}) = 0
    <3>1. k - a \in Int /\ ~ (k - a > 0)
      BY <1>1, <1>7
    <3> DEFINE z == k - a
    <3>2. z \in Int /\ z <= 0
      BY <3>1
    <3> HIDE DEF z
    <3>3. \A y \in {z, 0} : 0 >= y
      BY <3>2
    <3>4. Max({z, 0}) = 0
      BY <3>2, <3>3 DEF Max
    <3> QED BY <3>4 DEF z
  <2>3. ExactTurn(c, x) = c
    <3>1. ExactTurn(c, x) = [open |-> 0, since |-> c.since, rapid |-> c.rapid, long |-> c.long]
      BY <1>7, <2>1, <2>2 DEF ExactTurn, ExactClose
    <3> QED BY <1>7, <3>1
  <2>4. Turn(d, x) = d
    <3>1. Turn(d, x) = [open |-> d.open, since |-> d.since, rapid |-> d.rapid, long |-> d.long]
      BY <1>7, <2>1 DEF Turn, Close
    <3> QED BY <1>2, <3>1
  <2>5. Near(d.open, Unit * c.open, 2 * n * Error)
    <3>1. Unit * 0 = 0 /\ 2 * n * Error \in Nat
      BY <1>3, DoublesAssumption, Allowance
    <3> QED BY <1>7, <2>1, <3>1 DEF Near
  <2> QED BY <1>2, <2>3, <2>4, <2>5 DEF Shadows
<1>8. CASE ~ IsBuy(x) /\ k # 0
  <2>1. k > 0 /\ d.open > 0
    BY <1>2, <1>8
  <2> DEFINE j == k - a
             held == x.at - c.since
             fast == IF held <= RapidExit THEN c.rapid + 1 ELSE c.rapid
             slow == IF held >= MinHold THEN c.long + 1 ELSE c.long
  <2>2. k + Signed(x) = j /\ j \in Int
    BY <1>1, <1>8
  <2>3. (j <= 0 => r <= Dust) /\ (j >= 1 => r > Dust /\ r > 0)
    BY <1>3, <1>4, <2>2, DustIsNothing
  <2>4. Near(r, Unit * j, 2 * n * Error) /\ r \in Int
    BY <1>4, <2>2
  <2>5. r = Add(d.open, -Double(a))
    BY <1>5, <1>8
  <2>6. d.since = c.since /\ d.rapid = c.rapid /\ d.long = c.long
    BY <1>2
  <2>7. Dust \in Nat
    BY StyleAssumption
  <2> HIDE DEF r
  <2>8. Turn(d, x) =
          IF r <= Dust THEN [open |-> 0, since |-> c.since, rapid |-> fast, long |-> slow]
          ELSE [open |-> r, since |-> c.since, rapid |-> c.rapid, long |-> c.long]
    BY <1>8, <2>1, <2>5, <2>6 DEF Turn, Close
  <2>9. Max({j, 0}) = IF j > 0 THEN j ELSE 0
    <3> HIDE DEF j
    <3> DEFINE z == IF j > 0 THEN j ELSE 0
    <3>1. z \in {j, 0} /\ \A y \in {j, 0} : z >= y
      BY <2>2
    <3>2. \A y \in {j, 0} : (\A w \in {j, 0} : y >= w) => y = z
      BY <2>2
    <3> HIDE DEF z
    <3>3. Max({j, 0}) = z
      BY <3>1, <3>2 DEF Max
    <3> QED BY <3>3 DEF z
  <2>10. CASE j <= 0
    <3>1. Max({j, 0}) = 0
      BY <2>2, <2>9, <2>10
    <3>2. ExactTurn(c, x) = [open |-> 0, since |-> c.since, rapid |-> fast, long |-> slow]
      BY <1>8, <2>1, <3>1 DEF ExactTurn, ExactClose
    <3>3. Turn(d, x) = [open |-> 0, since |-> c.since, rapid |-> fast, long |-> slow]
      BY <2>3, <2>8, <2>10
    <3>4. Near(0, Unit * 0, 2 * n * Error)
      <4>1. Unit * 0 = 0 /\ 2 * n * Error \in Nat
        BY <1>3, DoublesAssumption, Allowance
      <4> QED BY <4>1 DEF Near
    <3> HIDE DEF fast, slow
    <3> QED BY <3>2, <3>3, <3>4 DEF Shadows
  <2>11. CASE ~ (j <= 0)
    <3>1. j > 0 /\ j >= 1 /\ Max({j, 0}) = j /\ j # 0
      BY <2>2, <2>9, <2>11
    <3>2. r > 0 /\ ~ (r <= Dust)
      BY <2>3, <2>4, <2>7, <3>1
    <3>3. ExactTurn(c, x) = [open |-> j, since |-> c.since, rapid |-> c.rapid, long |-> c.long]
      BY <1>8, <2>1, <3>1 DEF ExactTurn, ExactClose
    <3>4. Turn(d, x) = [open |-> r, since |-> c.since, rapid |-> c.rapid, long |-> c.long]
      BY <2>8, <3>2
    <3> HIDE DEF j
    <3> QED BY <2>4, <3>1, <3>2, <3>3, <3>4 DEF Shadows
  <2> QED BY <2>10, <2>11
<1> QED BY <1>6, <1>7, <1>8

LEMMA AlwaysShadows ==
  ASSUME NEW h \in Seq(TradeType), MovesTokens(h), Tolerated(h),
         NEW C, ExactRun(C, h), NEW D, CyclesRun(D, h)
  PROVE  Shadows(D[Len(h)], C[Len(h)], 2 * Len(h) * Error)
<1> DEFINE N == Len(h)
           T == Total(h, Traded)
           Good(n) == Shadows(D[n], C[n], 2 * n * Error)
           Bad == {n \in 0 .. N : ~ Good(n)}
<1>1. N \in Nat /\ DOMAIN h = 1 .. N /\ \A i \in 1 .. N : h[i] \in TradeType
  OBVIOUS
<1>2. 2 * N * Error <= Dust /\ Dust + 2 * N * Error < Unit /\ InRange(T, N)
  BY DEF Tolerated
<1>3. PICK F : Runs(F, h)
  BY TotalsRun
<1>4. T \in Nat /\ \A n \in 0 .. N : -T <= F[n] /\ F[n] <= T /\ F[n] \in Int
  BY <1>3, SumsAreBounded DEF Runs
<1>5. \A n \in 0 .. N : Following(C[n], F, h, n)
  BY <1>3, AlwaysFollowing
<1>6. \A i \in 1 .. N : h[i].amount > 0
  BY <1>1 DEF MovesTokens
<1>7. \A n \in 1 .. N : D[n] = Turn(D[n - 1], h[n]) /\ C[n] = ExactTurn(C[n - 1], h[n])
  BY DEF CyclesRun, ExactRun
<1>8. \A n \in 1 .. N : F[n] = F[n - 1] + Signed(h[n])
  BY <1>3 DEF Runs
<1> HIDE DEF N, T
<1>9. ASSUME NEW n \in 0 .. N
      PROVE  /\ C[n] = [open |-> C[n].open, since |-> C[n].since,
                        rapid |-> C[n].rapid, long |-> C[n].long]
             /\ C[n].open \in Nat /\ C[n].open <= 2 * T
  <2> DEFINE c == C[n]
  <2>1. /\ c = [open |-> c.open, since |-> c.since, rapid |-> c.rapid, long |-> c.long]
        /\ c.open \in Nat
        /\ c.open > 0 => \E o \in 1 .. n : c.open = F[n] - F[o - 1]
    BY <1>5 DEF Following
  <2> HIDE DEF c
  <2>2. c.open <= 2 * T
    <3>1. CASE c.open > 0
      <4>1. PICK o \in 1 .. n : c.open = F[n] - F[o - 1]
        BY <2>1, <3>1
      <4>2. o - 1 \in 0 .. N
        BY <1>1
      <4> DEFINE u == F[n]
                 v == F[o - 1]
      <4>3. u \in Int /\ v \in Int /\ u <= T /\ -T <= v /\ c.open = u - v
        BY <1>4, <4>1, <4>2
      <4> HIDE DEF u, v
      <4> QED BY <1>4, <4>3
    <3> QED BY <1>4, <2>1, <3>1
  <2> QED BY <2>1, <2>2 DEF c
<1>10. Good(0)
  <2>1. Unit * 0 = 0 /\ 2 * 0 * Error = 0
    BY DoublesAssumption
  <2>2. D[0] = NoCycle /\ C[0] = NoCycle
    BY DEF CyclesRun, ExactRun
  <2> QED BY <2>1, <2>2 DEF Shadows, NoCycle, Near
<1>11. ASSUME NEW n \in 1 .. N, Good(n - 1) PROVE Good(n)
  <2> DEFINE x == h[n]
             c == C[n - 1]
  <2>1. n \in 0 .. N /\ n - 1 \in 0 .. N
    BY <1>1
  <2>2. x \in TradeType /\ x.amount > 0
    BY <1>1, <1>6
  <2>3. x.amount \in Nat /\ Signed(x) = IF IsBuy(x) THEN x.amount ELSE -x.amount
    <3> HIDE DEF x
    <3>1. x.amount \in Nat
      BY <2>2 DEF TradeType
    <3> QED BY <3>1 DEF Signed, Bought, Sold
  <2>4. x.amount <= 2 * T
    <3> DEFINE u == F[n]
               v == F[n - 1]
               s == Signed(x)
    <3>1. u \in Int /\ v \in Int /\ -T <= u /\ u <= T /\ -T <= v /\ v <= T /\ u = v + s
      BY <1>4, <1>8, <2>1
    <3>2. s = IF IsBuy(x) THEN x.amount ELSE -x.amount
      BY <2>3
    <3> HIDE DEF u, v, s, x
    <3> QED BY <1>4, <2>3, <3>1, <3>2
  <2>5. /\ c = [open |-> c.open, since |-> c.since, rapid |-> c.rapid, long |-> c.long]
        /\ c.open \in Nat /\ c.open <= 2 * T
    BY <1>9, <2>1
  <2>6. IsBuy(x) => c.open + x.amount <= 2 * T
    <3> SUFFICES ASSUME IsBuy(x) PROVE c.open + x.amount <= 2 * T
      OBVIOUS
    <3>1. C[n] = ExactOpen(c, x)
      BY <1>7 DEF ExactTurn
    <3> DEFINE d == ExactOpen(c, x)
    <3>2. d.open = c.open + x.amount
      <4> HIDE DEF c, x
      <4> QED BY <2>5 DEF ExactOpen
    <3>3. d.open <= 2 * T
      BY <1>9, <2>1, <3>1
    <3> QED BY <3>2, <3>3
  <2>7. Shadows(D[n - 1], c, 2 * (n - 1) * Error)
    BY <1>11
  <2>8. D[n] = Turn(D[n - 1], x) /\ C[n] = ExactTurn(c, x)
    BY <1>7
  <2> HIDE DEF c, x
  <2>9. Shadows(Turn(D[n - 1], x), ExactTurn(c, x), 2 * n * Error)
    BY <1>1, <1>2, <1>4, <2>2, <2>4, <2>5, <2>6, <2>7, ShadowsOn
  <2> QED BY <2>8, <2>9
<1>12. ASSUME Bad # {} PROVE FALSE
  <2> HIDE DEF Good
  <2>1. PICK n \in Bad : \A m \in Bad : n <= m
    <3>1. Bad \in SUBSET Nat
      BY <1>1
    <3> HIDE DEF Bad
    <3> QED BY <1>12, <3>1, LeastNumber
  <2>2. n \in 0 .. N /\ ~ Good(n)
    OBVIOUS
  <2>3. n # 0
    BY <1>10, <2>2
  <2>4. n \in 1 .. N /\ n - 1 \in 0 .. N /\ ~(n <= n - 1)
    BY <1>1, <2>2, <2>3
  <2>5. Good(n - 1)
    BY <2>1, <2>4
  <2> QED BY <1>11, <2>2, <2>4, <2>5
<1>13. N \in 0 .. N
  BY <1>1
<1>14. Good(N)
  BY <1>12, <1>13
<1> QED BY <1>14 DEF N

(* The pass over the trades of a token, which only keeps what is held and since when,
   counts the cycles that there are: each buy that finds nothing held begins one, the
   first sell that leaves nothing ends it, and the one that is still open is long when
   it has been held long enough by now.  It adds up doubles, which may never come
   back to zero, and it counts the same as long as what they leave is dust
   (evaluate_trades). *)
THEOREM CyclesAreByDefinition ==
  ASSUME NEW h \in Seq(TradeType), MovesTokens(h), Tolerated(h), NEW now \in Int
  PROVE  Cycles(h, now).rapid = RapidOf(h, now) /\ Cycles(h, now).long = LongOf(h, now)
<1>1. PICK D : /\ CyclesRun(D, h)
               /\ Cycles(h, now) =
                    IF D[Len(h)].open > 0 /\ now - D[Len(h)].since >= MinHold
                    THEN [D[Len(h)] EXCEPT !.long = @ + 1] ELSE D[Len(h)]
  BY CyclesRuns
<1>2. PICK F : Runs(F, h) /\ \A n \in 0 .. Len(h) : Total(SubSeq(h, 1, n), Signed) = F[n]
  BY TotalsRun
<1>0. PICK C : ExactRun(C, h)
  BY ExactRuns
<1> DEFINE N == Len(h)
           c == C[N]
           d == D[N]
<1>3. N \in Nat /\ DOMAIN h = 1 .. N /\ N \in 0 .. N
  OBVIOUS
<1>4. /\ c = [open |-> c.open, since |-> c.since, rapid |-> c.rapid, long |-> c.long]
      /\ c.open \in Nat
      /\ c.open = 0 => \A j \in 1 .. N : IsBuy(h[j]) => EndOf(h, j) <= N
      /\ c.open > 0 => \E o \in 1 .. N : /\ o \in Openings(h) /\ EndOf(h, o) > N
                                         /\ c.since = h[o].at
      /\ c.rapid = Cardinality(Fast(h, N)) /\ c.long = Cardinality(Slow(h, N))
  <2>1. Following(C[N], F, h, N)
    BY <1>0, <1>2, <1>3, AlwaysFollowing
  <2> QED BY <2>1 DEF Following
<1>15. /\ d = [open |-> d.open, since |-> c.since, rapid |-> c.rapid, long |-> c.long]
       /\ d.open \in Int /\ (c.open = 0 => d.open = 0) /\ (c.open > 0 => d.open > 0)
  BY <1>0, <1>1, AlwaysShadows DEF Shadows
<1>16. Cycles(h, now) = IF d.open > 0 /\ now - d.since >= MinHold
                        THEN [d EXCEPT !.long = @ + 1] ELSE d
  BY <1>1
<1> HIDE DEF c, d, N
<1>6. /\ Cycles(h, now).rapid = c.rapid
      /\ Cycles(h, now).long = c.long + (IF c.open > 0 /\ now - c.since >= MinHold THEN 1 ELSE 0)
  <2>1. c.long \in Nat
    BY <1>4, SetsOfCycles
  <2> DEFINE e == [d EXCEPT !.long = @ + 1]
  <2>2. e.rapid = c.rapid /\ e.long = c.long + 1
    BY <1>15
  <2>3. d.rapid = c.rapid /\ d.long = c.long /\ d.since = c.since /\ (d.open > 0 <=> c.open > 0)
    BY <1>4, <1>15
  <2>4. Cycles(h, now) = IF c.open > 0 /\ now - c.since >= MinHold THEN e ELSE d
    BY <1>16, <2>3
  <2> HIDE DEF e
  <2> QED BY <2>1, <2>2, <2>3, <2>4
<1>7. \A i \in Openings(h) : /\ i \in 1 .. N /\ IsBuy(h[i])
                             /\ EndOf(h, i) \in Nat /\ i <= EndOf(h, i)
  <2>1. ASSUME NEW i \in Openings(h)
        PROVE  i \in 1 .. N /\ IsBuy(h[i]) /\ EndOf(h, i) \in Nat /\ i <= EndOf(h, i)
    <3>1. i \in 1 .. Len(h) /\ IsBuy(h[i])
      BY <1>3 DEF Openings, N
    <3>2. EndsBy(h, F, i)
      BY <1>2, <3>1, EndIs
    <3> QED BY <1>3, <3>1, <3>2 DEF EndsBy, N
  <2> QED BY <2>1
<1>8. Closed(h) = EndedBy(h, N)
  <2>1. ASSUME NEW i \in Openings(h) PROVE EndOf(h, i) \in DOMAIN h <=> EndOf(h, i) <= N
    BY <1>3, <1>7
  <2> QED BY <2>1 DEF Closed, EndedBy
<1>9. \A i \in Closed(h) : HeldFor(h, i, now) = Held(h, i)
  BY DEF HeldFor, Held
<1>10. RapidOf(h, now) = Cardinality(Fast(h, N))
  <2>1. {i \in Closed(h) : HeldFor(h, i, now) <= RapidExit} = Fast(h, N)
    BY <1>8, <1>9 DEF Fast
  <2> QED BY <2>1 DEF RapidOf
<1> DEFINE longs == {i \in Openings(h) : HeldFor(h, i, now) >= MinHold}
<1>11. Slow(h, N) = {i \in longs : i \in Closed(h)}
  BY <1>8, <1>9 DEF Slow, Closed
<1>12. LongOf(h, now) = Cardinality(longs)
  BY DEF LongOf
<1>13. CASE c.open = 0
  <2>1. \A i \in Openings(h) : i \in Closed(h)
    BY <1>4, <1>7, <1>8, <1>13 DEF EndedBy
  <2>2. longs = Slow(h, N)
    BY <1>11, <2>1
  <2>3. c.long \in Nat /\ ~ (c.open > 0)
    BY <1>4, <1>13, SetsOfCycles
  <2> HIDE DEF longs
  <2> QED BY <1>4, <1>6, <1>10, <1>12, <2>2, <2>3
<1>14. CASE c.open > 0
  <2>1. PICK o \in 1 .. N : o \in Openings(h) /\ EndOf(h, o) > N /\ c.since = h[o].at
    BY <1>4, <1>14
  <2>2. o \notin Closed(h) /\ HeldFor(h, o, now) = now - c.since
    <3>1. o \notin Closed(h)
      BY <1>3, <1>7, <1>8, <2>1 DEF EndedBy
    <3> QED BY <2>1, <3>1 DEF HeldFor
  <2>3. ASSUME NEW i \in Openings(h), i # o PROVE i \in Closed(h)
    <3>1. i \in Nat /\ o \in Nat /\ i \in 1 .. N /\ EndOf(h, i) \in Nat /\ EndOf(h, o) \in Nat
      <4>1. i \in 1 .. N /\ EndOf(h, i) \in Nat /\ EndOf(h, o) \in Nat
        BY <1>7, <2>1
      <4>2. \A x \in 1 .. N : x \in Nat
        BY <1>3
      <4> QED BY <4>1, <4>2
    <3>2. CASE i < o
      <4>1. i \in 1 .. o - 1 /\ IsBuy(h[i])
        BY <1>7, <3>1, <3>2
      <4>2. EndOf(h, i) < o
        BY <2>1, <4>1 DEF Openings
      <4>3. EndOf(h, i) <= N
        BY <1>3, <2>1, <3>1, <4>2
      <4> QED BY <1>8, <4>3 DEF EndedBy
    <3>3. CASE i > o
      <4>1. o \in 1 .. i - 1 /\ IsBuy(h[o])
        BY <1>7, <2>1, <3>1, <3>3
      <4>2. EndOf(h, o) < i
        BY <4>1 DEF Openings
      <4> QED BY <1>3, <2>1, <3>1, <4>2
    <3> QED BY <2>3, <3>1, <3>2, <3>3
  <2>4. longs = IF now - c.since >= MinHold THEN Slow(h, N) \cup {o} ELSE Slow(h, N)
    BY <1>11, <2>1, <2>2, <2>3
  <2>5. o \notin Slow(h, N)
    BY <1>11, <2>2
  <2>6. /\ IsFiniteSet(Slow(h, N)) /\ Cardinality(Slow(h, N)) \in Nat
        /\ Cardinality(Slow(h, N) \cup {o}) = Cardinality(Slow(h, N)) + 1
    BY <2>5, SetsOfCycles, FS_AddElement
  <2> HIDE DEF longs
  <2> QED BY <1>4, <1>6, <1>10, <1>12, <1>14, <2>4, <2>6
<1> QED BY <1>4, <1>13, <1>14

-----------------------------------------------------------------------------
(* Members of a set in an order *)

(* R orders the members of S one after the other. *)
Orders(R, S) ==
  /\ \A x \in S : <<x, x>> \notin R
  /\ \A x, y \in S : x = y \/ <<x, y>> \in R \/ <<y, x>> \in R
  /\ \A x, y, z \in S : <<x, y>> \in R /\ <<y, z>> \in R => <<x, z>> \in R

Before(x, S, R) == {y \in S : <<y, x>> \in R}

Lists(L, S, R) ==
  /\ L \in [1 .. Cardinality(S) -> S]
  /\ \A x \in S : \E n \in 1 .. Cardinality(S) : L[n] = x
  /\ \A m, n \in 1 .. Cardinality(S) : m < n => <<L[m], L[n]>> \in R

(* As many come before a member as its place says, and each number of them is that
   of one member. *)
LEMMA PlacesInOrder ==
  ASSUME NEW S, IsFiniteSet(S), NEW R, Orders(R, S)
  PROVE  /\ \A x \in S : Cardinality(Before(x, S, R)) \in 0 .. Cardinality(S) - 1
         /\ \A x, y \in S : <<x, y>> \in R =>
              Cardinality(Before(x, S, R)) < Cardinality(Before(y, S, R))
         /\ \A n \in 1 .. Cardinality(S) : \E x \in S : Cardinality(Before(x, S, R)) = n - 1
<1> DEFINE N == Cardinality(S)
           rank == [x \in S |-> Cardinality(Before(x, S, R))]
<1>1. N \in Nat
  BY FS_CardinalityType
<1>2. \A x \in S : IsFiniteSet(Before(x, S, R)) /\ Cardinality(Before(x, S, R)) \in Nat
  BY FS_Subset, FS_CardinalityType DEF Before
<1>3. ASSUME NEW x \in S
      PROVE  Cardinality(Before(x, S, R)) \in 0 .. N - 1
  <2>1. Before(x, S, R) \in SUBSET S /\ x \notin Before(x, S, R)
    BY DEF Before, Orders
  <2>2. Cardinality(Before(x, S, R)) <= N /\ Cardinality(Before(x, S, R)) # N
    BY <2>1, FS_Subset
  <2> QED BY <1>1, <1>2, <2>2
<1>4. ASSUME NEW x \in S, NEW y \in S, <<x, y>> \in R
      PROVE  Cardinality(Before(x, S, R)) < Cardinality(Before(y, S, R))
  <2>1. Before(x, S, R) \in SUBSET Before(y, S, R)
    BY <1>4 DEF Before, Orders
  <2>2. x \in Before(y, S, R) /\ x \notin Before(x, S, R)
    BY <1>4 DEF Before, Orders
  <2>3. /\ Cardinality(Before(x, S, R)) <= Cardinality(Before(y, S, R))
        /\ Cardinality(Before(x, S, R)) # Cardinality(Before(y, S, R))
    BY <1>2, <2>1, <2>2, FS_Subset
  <2> QED BY <1>2, <2>3
<1>5. rank \in Injection(S, 0 .. N - 1)
  <2>1. rank \in [S -> 0 .. N - 1]
    BY <1>3
  <2>2. ASSUME NEW x \in S, NEW y \in S, rank[x] = rank[y] PROVE x = y
    <3>1. Cardinality(Before(x, S, R)) = Cardinality(Before(y, S, R))
      BY <2>2
    <3>2. <<x, y>> \notin R /\ <<y, x>> \notin R
      <4>1. Cardinality(Before(x, S, R)) \in Nat
        BY <1>2
      <4> QED BY <1>4, <3>1, <4>1
    <3> QED BY <3>2 DEF Orders
  <2> HIDE DEF rank
  <2> QED BY <2>1, <2>2 DEF Injection, IsInjective
<1>6. rank \in Surjection(S, 0 .. N - 1)
  <2>1. IsFiniteSet(0 .. N - 1) /\ Cardinality(0 .. N - 1) = N
    BY <1>1, FS_Interval
  <2> HIDE DEF rank
  <2> QED BY <1>5, <2>1, FS_Injection
<1>7. ASSUME NEW n \in 1 .. N
      PROVE  \E x \in S : Cardinality(Before(x, S, R)) = n - 1
  <2>1. n - 1 \in 0 .. N - 1
    BY <1>1
  <2>2. PICK x \in S : rank[x] = n - 1
    BY <1>6, <2>1 DEF Surjection
  <2> QED BY <2>2
<1> QED BY <1>3, <1>4, <1>7

LEMMA OwnPlace ==
  ASSUME NEW S, IsFiniteSet(S), NEW R, Orders(R, S), NEW x \in S, NEW y \in S,
         Cardinality(Before(x, S, R)) = Cardinality(Before(y, S, R))
  PROVE  x = y
<1>1. Cardinality(Before(x, S, R)) \in 0 .. Cardinality(S) - 1 /\ Cardinality(S) \in Nat
  BY PlacesInOrder, FS_CardinalityType
<1>2. <<x, y>> \notin R /\ <<y, x>> \notin R
  BY <1>1, PlacesInOrder
<1> QED BY <1>2 DEF Orders

(* Listed does list them. *)
LEMMA ListedLists ==
  ASSUME NEW S, IsFiniteSet(S), NEW R, Orders(R, S)
  PROVE  Lists(Listed(S, R), S, R)
<1> DEFINE N == Cardinality(S)
           L == Listed(S, R)
           rank(x) == Cardinality(Before(x, S, R))
<1>1. N \in Nat
  BY FS_CardinalityType
<1>2. \A n \in 1 .. N : L[n] = CHOOSE x \in S : rank(x) = n - 1
  BY Zenon DEF Listed, Before
<1>3. DOMAIN L = 1 .. N /\ L = [n \in 1 .. N |-> L[n]]
  <2> DEFINE e(n) == CHOOSE x \in S : rank(x) = n - 1
  <2>1. L = [n \in 1 .. N |-> e(n)]
    BY Zenon DEF Listed, Before
  <2> HIDE DEF e, N, L
  <2> QED BY <2>1
<1> HIDE DEF L
<1>4. ASSUME NEW n \in 1 .. N
      PROVE  L[n] \in S /\ rank(L[n]) = n - 1
  <2>1. \E x \in S : rank(x) = n - 1
    BY PlacesInOrder
  <2> QED BY <1>2, <2>1
<1>5. \A x, y \in S : rank(x) = rank(y) => x = y
  BY OwnPlace
<1>6. ASSUME NEW x \in S PROVE \E n \in 1 .. N : L[n] = x
  <2>1. rank(x) \in 0 .. N - 1
    BY PlacesInOrder
  <2>2. rank(x) + 1 \in 1 .. N
    BY <1>1, <2>1
  <2>3. rank(L[rank(x) + 1]) = rank(x) /\ L[rank(x) + 1] \in S
    BY <1>4, <2>1, <2>2
  <2> QED BY <1>5, <2>2, <2>3
<1>7. ASSUME NEW m \in 1 .. N, NEW n \in 1 .. N, m < n
      PROVE  <<L[m], L[n]>> \in R
  <2>1. rank(L[m]) = m - 1 /\ rank(L[n]) = n - 1 /\ L[m] \in S /\ L[n] \in S
    BY <1>4
  <2>2. <<L[n], L[m]>> \in R => rank(L[n]) < rank(L[m])
    BY <2>1, PlacesInOrder
  <2> HIDE DEF rank
  <2>3. L[m] # L[n] /\ <<L[n], L[m]>> \notin R
    BY <1>7, <2>1, <2>2
  <2> QED BY <2>1, <2>3 DEF Orders
<1>8. L \in [1 .. N -> S]
  BY <1>3, <1>4
<1> QED BY <1>6, <1>7, <1>8 DEF Lists, L

(* There is one listing only. *)
LEMMA OneListing ==
  ASSUME NEW S, IsFiniteSet(S), NEW R, Orders(R, S), NEW L, Lists(L, S, R)
  PROVE  L = Listed(S, R)
<1> DEFINE N == Cardinality(S)
           M == Listed(S, R)
<1>1. N \in Nat
  BY FS_CardinalityType
<1>2. Lists(M, S, R)
  BY ListedLists
<1> HIDE DEF M
<1>3. ASSUME NEW K, Lists(K, S, R), NEW n \in 1 .. N
      PROVE  Cardinality(Before(K[n], S, R)) = n - 1
  <2> DEFINE f == [m \in 1 .. n - 1 |-> K[m]]
             B == Before(K[n], S, R)
  <2>1. K[n] \in S /\ \A m \in 1 .. N : K[m] \in S
    BY <1>3 DEF Lists
  <2>2. \A m \in 1 .. N : <<K[m], K[n]>> \in R <=> m < n
    <3> TAKE m \in 1 .. N
    <3>1. m < n => <<K[m], K[n]>> \in R
      BY <1>3 DEF Lists
    <3>2. n < m => <<K[n], K[m]>> \in R
      BY <1>3 DEF Lists
    <3>3. m = n \/ m < n \/ n < m
      BY <1>1
    <3>4. ~ (m < n) => <<K[m], K[n]>> \notin R
      BY <2>1, <3>2, <3>3 DEF Orders
    <3> QED BY <3>1, <3>4
  <2>3. \A i, j \in 1 .. N : K[i] = K[j] => i = j
    <3>1. \A i, j \in 1 .. N : i < j => K[i] # K[j]
      BY <1>3, <2>1 DEF Lists, Orders
    <3> QED BY <1>1, <3>1
  <2>4. f \in [1 .. n - 1 -> B]
    BY <1>1, <2>1, <2>2 DEF Before
  <2>5. \A x \in B : \E m \in 1 .. n - 1 : f[m] = x
    <3> TAKE x \in B
    <3>1. x \in S /\ <<x, K[n]>> \in R
      BY DEF Before
    <3>2. PICK m \in 1 .. N : K[m] = x
      BY <1>3, <3>1 DEF Lists
    <3>3. m \in 1 .. n - 1
      BY <1>1, <2>2, <3>1, <3>2
    <3> QED BY <3>2, <3>3
  <2>6. f \in Bijection(1 .. n - 1, B)
    <3>1. \A i, j \in 1 .. n - 1 : f[i] = f[j] => i = j
      BY <1>1, <2>3
    <3> HIDE DEF f, B
    <3> QED BY <2>4, <2>5, <3>1 DEF Bijection, Injection, IsInjective, Surjection
  <2>7. n - 1 \in Nat
    BY <1>1
  <2> HIDE DEF B
  <2> QED BY <2>6, <2>7, FS_CountingElements DEF ExistsBijection, B
<1>5. \A n \in 1 .. N : L[n] = M[n]
  <2> TAKE n \in 1 .. N
  <2>1. L[n] \in S /\ M[n] \in S
    BY <1>2 DEF Lists
  <2>2. Cardinality(Before(L[n], S, R)) = n - 1 /\ Cardinality(Before(M[n], S, R)) = n - 1
    BY <1>2, <1>3
  <2> QED BY <2>1, <2>2, OwnPlace
<1>6. L = [n \in 1 .. N |-> L[n]] /\ M = [n \in 1 .. N |-> M[n]]
  BY <1>2 DEF Lists
<1>7. L = M
  BY <1>5, <1>6
<1> QED BY <1>7 DEF M

(* A listing lists as many as there are, each once. *)
LEMMA ListedOnce ==
  ASSUME NEW S, IsFiniteSet(S), NEW R, Orders(R, S), NEW L, Lists(L, S, R)
  PROVE  /\ Cardinality(S) \in Nat
         /\ \A m, n \in 1 .. Cardinality(S) :
              /\ L[m] \in S
              /\ L[m] = L[n] => m = n
              /\ <<L[m], L[n]>> \in R <=> m < n
<1> DEFINE N == Cardinality(S)
<1>1. N \in Nat
  BY FS_CardinalityType
<1>2. ASSUME NEW m \in 1 .. N, NEW n \in 1 .. N
      PROVE  L[m] \in S /\ (L[m] = L[n] => m = n) /\ (<<L[m], L[n]>> \in R <=> m < n)
  <2>1. L[m] \in S /\ L[n] \in S
    BY DEF Lists
  <2>2. m < n => <<L[m], L[n]>> \in R
    BY DEF Lists
  <2>3. n < m => <<L[n], L[m]>> \in R
    BY DEF Lists
  <2>4. m = n \/ m < n \/ n < m
    BY <1>1
  <2>5. <<L[m], L[m]>> \notin R
    BY <2>1 DEF Orders
  <2>6. ~ (<<L[m], L[n]>> \in R /\ <<L[n], L[m]>> \in R)
    BY <2>1, <2>5 DEF Orders
  <2> QED BY <2>1, <2>2, <2>3, <2>4, <2>5, <2>6
<1> QED BY <1>1, <1>2

(* The rows of a history in an order. *)
LEMMA RowsAre ==
  ASSUME NEW h \in Seq(TradeType), NEW S \in SUBSET (DOMAIN h), NEW R, Orders(R, S)
  PROVE  /\ IsFiniteSet(S) /\ Cardinality(S) \in Nat /\ Cardinality(S) <= Len(h)
         /\ Lists(Listed(S, R), S, R)
         /\ Rows(h, S, R) \in Seq(TradeType) /\ Len(Rows(h, S, R)) = Cardinality(S)
         /\ DOMAIN Rows(h, S, R) = 1 .. Cardinality(S)
         /\ \A n \in 1 .. Cardinality(S) : Rows(h, S, R)[n] = h[Listed(S, R)[n]]
<1> DEFINE L == Listed(S, R)
           N == Cardinality(S)
<1>1. DOMAIN h = 1 .. Len(h) /\ Len(h) \in Nat
  OBVIOUS
<1>2. IsFiniteSet(DOMAIN h) /\ Cardinality(DOMAIN h) = Len(h)
  <2>1. IsFiniteSet(1 .. Len(h)) /\ Cardinality(1 .. Len(h)) = Len(h)
    <3> DEFINE n == Len(h)
    <3>2. n \in Nat
      BY <1>1
    <3> HIDE DEF n
    <3>3. IsFiniteSet(1 .. n) /\ Cardinality(1 .. n) = IF 1 > n THEN 0 ELSE n - 1 + 1
      BY <3>2, FS_Interval
    <3>4. IsFiniteSet(1 .. n) /\ Cardinality(1 .. n) = n
      BY <3>2, <3>3
    <3> QED BY <3>4 DEF n
  <2> QED BY <1>1, <2>1
<1>3. IsFiniteSet(S) /\ N \in Nat /\ N <= Len(h)
  BY <1>2, FS_Subset, FS_CardinalityType
<1>4. Lists(L, S, R)
  BY <1>3, ListedLists
<1>5. DOMAIN L = 1 .. N
  BY <1>4 DEF Lists
<1>6. Rows(h, S, R) = [n \in 1 .. N |-> h[L[n]]]
  BY <1>5 DEF Rows
<1> HIDE DEF L, N
<1>7. \A n \in 1 .. N : L[n] \in DOMAIN h
  BY <1>4 DEF Lists, N
<1>8. \A n \in 1 .. N : h[L[n]] \in TradeType
  BY <1>7
<1>9. Rows(h, S, R) \in Seq(TradeType) /\ Len(Rows(h, S, R)) = N /\ DOMAIN Rows(h, S, R) = 1 .. N
  BY <1>3, <1>6, <1>8, IsASeq
<1> QED BY <1>3, <1>4, <1>6, <1>9 DEF L, N

(* L takes the members of T, ordered by Q, to those of U, ordered by R. *)
Fits(L, T, Q, U, R) ==
  /\ \A n \in T : L[n] \in U
  /\ \A x \in U : \E n \in T : L[n] = x
  /\ \A m, n \in T : <<m, n>> \in Q <=> <<L[m], L[n]>> \in R

(* Rows of rows are rows, if the orders fit. *)
LEMMA RowsOfRows ==
  ASSUME NEW h \in Seq(TradeType), NEW S \in SUBSET (DOMAIN h), NEW R, Orders(R, S),
         NEW T \in SUBSET (DOMAIN Listed(S, R)), NEW Q, NEW A,
         NEW U, Orders(A, U), Fits(Listed(S, R), T, Q, U, A)
  PROVE  Rows(Rows(h, S, R), T, Q) = Rows(h, U, A)
<1> DEFINE L == Listed(S, R)
           g == Rows(h, S, R)
<1>1. /\ Lists(L, S, R) /\ IsFiniteSet(S)
      /\ g \in Seq(TradeType) /\ DOMAIN g = 1 .. Cardinality(S)
      /\ \A n \in 1 .. Cardinality(S) : g[n] = h[L[n]]
  BY RowsAre
<1>2. \A m, n \in 1 .. Cardinality(S) : L[m] \in S /\ (L[m] = L[n] => m = n)
  <2> HIDE DEF L, g
  <2>1. \A m, n \in 1 .. Cardinality(S) :
          /\ L[m] \in S
          /\ L[m] = L[n] => m = n
          /\ <<L[m], L[n]>> \in R <=> m < n
    BY <1>1, ListedOnce
  <2> QED BY <2>1
<1>places. T \in SUBSET (1 .. Cardinality(S))
  <2>1. DOMAIN L = 1 .. Cardinality(S)
    <3> HIDE DEF L
    <3> QED BY <1>1 DEF Lists
  <2> QED BY <2>1
<1> USE <1>places
<1> HIDE DEF L, g
<1>3. U = {L[n] : n \in T} /\ \A m, n \in T : <<m, n>> \in Q <=> <<L[m], L[n]>> \in A
  <2>1. \A n \in T : L[n] \in U
    BY DEF L, Fits
  <2>2. \A x \in U : \E n \in T : x = L[n]
    BY DEF L, Fits
  <2>3. \A m, n \in T : <<m, n>> \in Q <=> <<L[m], L[n]>> \in A
    BY DEF L, Fits
  <2> QED BY <2>1, <2>2, <2>3
<1>4. U \in SUBSET S /\ U \in SUBSET (DOMAIN h)
  BY <1>2, <1>3
<1>5. Orders(Q, T)
  <2>1. ASSUME NEW x \in T PROVE <<x, x>> \notin Q
    <3>1. L[x] \in U
      BY <1>3
    <3>2. <<L[x], L[x]>> \notin A
      BY <3>1 DEF Orders
    <3> QED BY <1>3, <3>2
  <2>2. ASSUME NEW x \in T, NEW y \in T PROVE x = y \/ <<x, y>> \in Q \/ <<y, x>> \in Q
    <3>1. L[x] \in U /\ L[y] \in U
      BY <1>3
    <3>2. L[x] = L[y] \/ <<L[x], L[y]>> \in A \/ <<L[y], L[x]>> \in A
      BY <3>1 DEF Orders
    <3> QED BY <1>2, <1>3, <3>2
  <2>3. ASSUME NEW x \in T, NEW y \in T, NEW z \in T, <<x, y>> \in Q, <<y, z>> \in Q
        PROVE  <<x, z>> \in Q
    <3>1. L[x] \in U /\ L[y] \in U /\ L[z] \in U
      BY <1>3
    <3>2. <<L[x], L[y]>> \in A /\ <<L[y], L[z]>> \in A
      BY <1>3, <2>3
    <3>3. <<L[x], L[z]>> \in A
      BY <3>1, <3>2 DEF Orders
    <3> QED BY <1>3, <3>3
  <2> QED BY <2>1, <2>2, <2>3 DEF Orders
<1> DEFINE K == Listed(T, Q)
           N == Cardinality(T)
<1>6. /\ Lists(K, T, Q) /\ IsFiniteSet(T) /\ N \in Nat
      /\ Rows(g, T, Q) \in Seq(TradeType) /\ DOMAIN Rows(g, T, Q) = 1 .. N
      /\ \A n \in 1 .. N : Rows(g, T, Q)[n] = g[K[n]]
  <2>1. T \in SUBSET (DOMAIN g)
    BY <1>1
  <2>2. g \in Seq(TradeType)
    BY <1>1
  <2> QED BY <1>5, <2>1, <2>2, RowsAre
<1> DEFINE M == [n \in 1 .. N |-> L[K[n]]]
<1>7. \A m, n \in 1 .. N : K[m] \in T /\ (K[m] = K[n] => m = n) /\ (<<K[m], K[n]>> \in Q <=> m < n)
  BY <1>5, <1>6, ListedOnce
<1>8. \A x \in T : \E n \in 1 .. N : K[n] = x
  BY <1>6 DEF Lists
<1> HIDE DEF K, N
<1>9. Cardinality(U) = N /\ IsFiniteSet(U)
  <2> DEFINE f == [n \in T |-> L[n]]
  <2>1. f \in [T -> U] /\ \A x \in U : \E n \in T : f[n] = x
    BY <1>3
  <2>2. \A m, n \in T : f[m] = f[n] => m = n
    BY <1>2
  <2>3. f \in Bijection(T, U)
    <3> HIDE DEF f
    <3> QED BY <2>1, <2>2 DEF Bijection, Injection, Surjection, IsInjective
  <2> QED BY <1>6, <2>3, FS_Bijection DEF ExistsBijection, N
<1>10. Lists(M, U, A)
  <2>1. M \in [1 .. N -> U]
    BY <1>3, <1>7
  <2>2. ASSUME NEW x \in U PROVE \E n \in 1 .. N : M[n] = x
    <3>1. PICK y \in T : x = L[y]
      BY <1>3
    <3>2. PICK n \in 1 .. N : K[n] = y
      BY <1>8
    <3> QED BY <3>1, <3>2
  <2>3. ASSUME NEW m \in 1 .. N, NEW n \in 1 .. N, m < n PROVE <<M[m], M[n]>> \in A
    <3>1. <<K[m], K[n]>> \in Q /\ K[m] \in T /\ K[n] \in T
      BY <1>7, <2>3
    <3> QED BY <1>3, <3>1
  <2> HIDE DEF M
  <2> QED BY <1>9, <2>1, <2>2, <2>3 DEF Lists
<1>11. M = Listed(U, A)
  <2> HIDE DEF M
  <2> QED BY <1>9, <1>10, OneListing
<1>12. /\ Rows(h, U, A) \in Seq(TradeType) /\ DOMAIN Rows(h, U, A) = 1 .. N
       /\ \A n \in 1 .. N : Rows(h, U, A)[n] = h[Listed(U, A)[n]]
  BY <1>4, <1>9, RowsAre
<1>13. \A n \in 1 .. N : Rows(g, T, Q)[n] = Rows(h, U, A)[n]
  <2> TAKE n \in 1 .. N
  <2>1. K[n] \in T /\ K[n] \in 1 .. Cardinality(S)
    BY <1>7
  <2>2. Rows(g, T, Q)[n] = h[L[K[n]]]
    BY <1>1, <1>6, <2>1 DEF K, N
  <2>3. Listed(U, A)[n] = L[K[n]]
    BY <1>11
  <2> QED BY <1>12, <2>2, <2>3
<1>14. Rows(g, T, Q) = Rows(h, U, A)
  <2>1. DOMAIN Rows(g, T, Q) = 1 .. N /\ Rows(g, T, Q) \in Seq(TradeType)
    BY <1>6 DEF N
  <2> DEFINE a == Rows(g, T, Q)
             b == Rows(h, U, A)
  <2>2. a \in Seq(TradeType) /\ b \in Seq(TradeType) /\ DOMAIN a = DOMAIN b
    BY <1>12, <2>1
  <2>3. \A n \in DOMAIN a : a[n] = b[n]
    BY <1>13, <2>1
  <2> HIDE DEF a, b
  <2>4. Len(a) = Len(b) /\ \A n \in 1 .. Len(a) : a[n] = b[n]
    BY <2>2, <2>3, LenProperties
  <2>5. a = b
    BY <2>2, <2>4, SeqEqual
  <2> QED BY <2>5 DEF a, b
<1> QED BY <1>14 DEF g

-----------------------------------------------------------------------------
(* Trades in the order of their times *)

LEMMA EarlierOrders ==
  ASSUME NEW h \in Seq(TradeType), NEW S \in SUBSET (DOMAIN h)
  PROVE  Orders(Earlier(h), S)
<1>1. ASSUME NEW i \in S PROVE i \in Nat /\ h[i].at \in Int
  <2>1. i \in DOMAIN h /\ i \in Nat
    OBVIOUS
  <2>2. h[i] \in TradeType
    BY <2>1
  <2> QED BY <2>1, <2>2 DEF TradeType
<1>2. \A i, j \in S : <<i, j>> \in Earlier(h) <=>
                        h[i].at < h[j].at \/ (h[i].at = h[j].at /\ i < j)
  BY DEF Earlier
<1>3. ASSUME NEW x \in S PROVE <<x, x>> \notin Earlier(h)
  BY <1>1, <1>2
<1>4. ASSUME NEW x \in S, NEW y \in S
      PROVE  x = y \/ <<x, y>> \in Earlier(h) \/ <<y, x>> \in Earlier(h)
  BY <1>1, <1>2
<1>5. ASSUME NEW x \in S, NEW y \in S, NEW z \in S,
             <<x, y>> \in Earlier(h), <<y, z>> \in Earlier(h)
      PROVE  <<x, z>> \in Earlier(h)
  <2> DEFINE a == h[x].at
             b == h[y].at
             c == h[z].at
  <2>1. a \in Int /\ b \in Int /\ c \in Int /\ x \in Nat /\ y \in Nat /\ z \in Nat
    BY <1>1
  <2>2. (a < b \/ (a = b /\ x < y)) /\ (b < c \/ (b = c /\ y < z))
    BY <1>2, <1>5
  <2> HIDE DEF a, b, c
  <2>3. a < c \/ (a = c /\ x < z)
    BY <2>1, <2>2
  <2> QED BY <1>2, <2>3 DEF a, c
<1> QED BY <1>3, <1>4, <1>5 DEF Orders

LEMMA SoonerOrders ==
  ASSUME NEW S \in SUBSET Nat
  PROVE  Orders(Sooner(S), S) /\ \A x, y \in S : <<x, y>> \in Sooner(S) <=> x < y
<1>1. \A x, y \in S : <<x, y>> \in Sooner(S) <=> x < y
  BY DEF Sooner
<1>2. \A x \in S : x \in Nat
  OBVIOUS
<1> QED BY <1>1, <1>2 DEF Orders

(* What is kept of ordered trades is in that order. *)
LEMMA KeptInOrder ==
  ASSUME NEW h \in Seq(TradeType), NEW S \in SUBSET (DOMAIN h), NEW U \in SUBSET S
  PROVE  Kept(Rows(h, S, Earlier(h)), {n \in 1 .. Cardinality(S) : Listed(S, Earlier(h))[n] \in U})
           = Rows(h, U, Earlier(h))
<1> DEFINE T == {n \in 1 .. Cardinality(S) : Listed(S, Earlier(h))[n] \in U}
           R == Earlier(h)
           L == Listed(S, R)
<1>1. Orders(R, S) /\ Orders(R, U)
  BY EarlierOrders
<1>2. Lists(L, S, R) /\ IsFiniteSet(S) /\ Cardinality(S) \in Nat
  BY <1>1, RowsAre
<1> HIDE DEF R, L
<1>3. \A m, n \in 1 .. Cardinality(S) : L[m] \in S /\ (<<L[m], L[n]>> \in R <=> m < n)
  BY <1>1, <1>2, ListedOnce
<1>4. T \in SUBSET (1 .. Cardinality(S)) /\ T \in SUBSET Nat /\ T = {n \in 1 .. Cardinality(S) : L[n] \in U}
  BY <1>2 DEF L, R
<1> HIDE DEF T
<1>5. U = {L[n] : n \in T}
  <2>1. ASSUME NEW x \in U PROVE \E n \in T : x = L[n]
    <3>1. PICK n \in 1 .. Cardinality(S) : L[n] = x
      BY <1>2 DEF Lists
    <3> QED BY <1>4, <3>1
  <2>2. \A n \in T : L[n] \in U
    BY <1>4
  <2> QED BY <2>1, <2>2
<1>6. \A m, n \in T : <<m, n>> \in Sooner(T) <=> <<L[m], L[n]>> \in R
  BY <1>3, <1>4, SoonerOrders
<1>7. Fits(L, T, Sooner(T), U, R)
  BY <1>5, <1>6 DEF Fits
<1>8. Rows(Rows(h, S, R), T, Sooner(T)) = Rows(h, U, R)
  <2>1. Fits(Listed(S, R), T, Sooner(T), U, R) /\ T \in SUBSET (DOMAIN Listed(S, R))
    BY <1>2, <1>4, <1>7 DEF L, Lists
  <2> QED BY <1>1, <2>1, RowsOfRows
<1> QED BY <1>8 DEF Kept, R, T

(* The trades in order, and where each of them was stored. *)
LEMMA OrderedIs ==
  ASSUME NEW h \in Seq(TradeType)
  PROVE  LET g == Ordered(h)
             p == Listed(DOMAIN h, Earlier(h))
         IN /\ g \in Seq(TradeType) /\ Len(g) = Len(h) /\ InOrder(g)
            /\ \A n \in DOMAIN g : p[n] \in DOMAIN h /\ g[n] = h[p[n]]
            /\ \A i \in DOMAIN h : \E n \in DOMAIN g : p[n] = i
            /\ \A m, n \in DOMAIN g : p[m] = p[n] => m = n
<1> DEFINE S == DOMAIN h
           R == Earlier(h)
           g == Rows(h, S, R)
           p == Listed(S, R)
<1>1. Orders(R, S)
  BY EarlierOrders
<1>2. /\ IsFiniteSet(S) /\ Cardinality(S) \in Nat
      /\ Lists(p, S, R)
      /\ g \in Seq(TradeType) /\ Len(g) = Cardinality(S)
      /\ DOMAIN g = 1 .. Cardinality(S)
      /\ \A n \in 1 .. Cardinality(S) : g[n] = h[p[n]]
  BY <1>1, RowsAre
<1>3. Cardinality(S) = Len(h)
  <2> DEFINE N == Len(h)
  <2>1. N \in Nat /\ S = 1 .. N
    OBVIOUS
  <2> HIDE DEF N, S
  <2>2. Cardinality(S) = IF 1 > N THEN 0 ELSE N - 1 + 1
    BY <2>1, FS_Interval
  <2> QED BY <2>1, <2>2 DEF N
<1>4. \A m, n \in 1 .. Cardinality(S) : p[m] \in S /\ (p[m] = p[n] => m = n) /\ (<<p[m], p[n]>> \in R <=> m < n)
  <2> HIDE DEF p, g, R, S
  <2> QED BY <1>1, <1>2, ListedOnce
<1>5. \A i \in S : \E n \in 1 .. Cardinality(S) : p[n] = i
  BY <1>2 DEF Lists
<1>6. InOrder(g)
  <2>1. ASSUME NEW i \in DOMAIN g, NEW j \in DOMAIN g, i <= j PROVE g[i].at <= g[j].at
    <3>1. i \in 1 .. Cardinality(S) /\ j \in 1 .. Cardinality(S)
      BY <1>2
    <3>2. g[i] \in TradeType /\ g[j] \in TradeType
      BY <1>2
    <3>3. g[i].at \in Int /\ g[j].at \in Int
      BY <3>2 DEF TradeType
    <3>4. CASE i = j
      BY <3>3, <3>4
    <3>5. CASE i < j
      <4>1. <<p[i], p[j]>> \in R
        BY <1>4, <3>1, <3>5
      <4>2. h[p[i]].at <= h[p[j]].at
        <5>1. p[i] \in S /\ p[j] \in S
          BY <1>4, <3>1
        <5>2. h[p[i]] \in TradeType /\ h[p[j]] \in TradeType
          BY <5>1
        <5>3. h[p[i]].at \in Int /\ h[p[j]].at \in Int
          BY <5>2 DEF TradeType
        <5>4. h[p[i]].at < h[p[j]].at \/ h[p[i]].at = h[p[j]].at
          BY <4>1 DEF Earlier
        <5> QED BY <5>3, <5>4
      <4> QED BY <1>2, <3>1, <4>2
    <3>6. i = j \/ i < j
      BY <1>2, <2>1, <3>1
    <3> QED BY <3>4, <3>5, <3>6
  <2> HIDE DEF g
  <2> QED BY <2>1 DEF InOrder
<1> HIDE DEF g, p, R, S
<1>7. /\ g \in Seq(TradeType) /\ Len(g) = Len(h) /\ InOrder(g)
      /\ \A n \in DOMAIN g : p[n] \in S /\ g[n] = h[p[n]]
      /\ \A i \in S : \E n \in DOMAIN g : p[n] = i
      /\ \A m, n \in DOMAIN g : p[m] = p[n] => m = n
  BY <1>2, <1>3, <1>4, <1>5, <1>6
<1> QED BY <1>7 DEF Ordered, g, p, R, S

TradesOf(h, t) == {i \in DOMAIN h : h[i].token = t}
TradesBy(h, w) == {i \in DOMAIN h : h[i].wallet = w}

(* The trades of a token in order, from all of them in order. *)
LEMMA OfTokenInOrder ==
  ASSUME NEW h \in Seq(TradeType), NEW S \in SUBSET (DOMAIN h), NEW t
  PROVE  OfToken(Rows(h, S, Earlier(h)), t) = Rows(h, S \cap TradesOf(h, t), Earlier(h))
<1> DEFINE g == Rows(h, S, Earlier(h))
           T == {n \in DOMAIN g : g[n].token = t}
           U == S \cap TradesOf(h, t)
<1>1. /\ Lists(Listed(S, Earlier(h)), S, Earlier(h))
      /\ DOMAIN g = 1 .. Cardinality(S)
      /\ \A n \in 1 .. Cardinality(S) : g[n] = h[Listed(S, Earlier(h))[n]]
  BY EarlierOrders, RowsAre
<1>2. \A n \in 1 .. Cardinality(S) : Listed(S, Earlier(h))[n] \in S
  BY <1>1 DEF Lists
<1> HIDE DEF g
<1>3. T = {n \in 1 .. Cardinality(S) : Listed(S, Earlier(h))[n] \in U}
  BY <1>1, <1>2 DEF TradesOf
<1> HIDE DEF T, U
<1>4. U \in SUBSET S
  BY DEF U
<1>5. Kept(g, T) = Rows(h, U, Earlier(h))
  BY <1>3, <1>4, KeptInOrder DEF g
<1> QED BY <1>5 DEF OfToken, T, U, g

LEMMA OfWalletInOrder ==
  ASSUME NEW h \in Seq(TradeType), NEW S \in SUBSET (DOMAIN h), NEW w
  PROVE  OfWallet(Rows(h, S, Earlier(h)), w) = Rows(h, S \cap TradesBy(h, w), Earlier(h))
<1> DEFINE g == Rows(h, S, Earlier(h))
           T == {n \in DOMAIN g : g[n].wallet = w}
           U == S \cap TradesBy(h, w)
<1>1. /\ Lists(Listed(S, Earlier(h)), S, Earlier(h))
      /\ DOMAIN g = 1 .. Cardinality(S)
      /\ \A n \in 1 .. Cardinality(S) : g[n] = h[Listed(S, Earlier(h))[n]]
  BY EarlierOrders, RowsAre
<1>2. \A n \in 1 .. Cardinality(S) : Listed(S, Earlier(h))[n] \in S
  BY <1>1 DEF Lists
<1> HIDE DEF g
<1>3. T = {n \in 1 .. Cardinality(S) : Listed(S, Earlier(h))[n] \in U}
  BY <1>1, <1>2 DEF TradesBy
<1> HIDE DEF T, U
<1>4. U \in SUBSET S
  BY DEF U
<1>5. Kept(g, T) = Rows(h, U, Earlier(h))
  BY <1>3, <1>4, KeptInOrder DEF g
<1> QED BY <1>5 DEF OfWallet, T, U, g

(* The trades of a wallet as they were stored, put in order. *)
LEMMA OrderedOfWallet ==
  ASSUME NEW h \in Seq(TradeType), NEW w
  PROVE  /\ OfWallet(h, w) \in Seq(TradeType)
         /\ Ordered(OfWallet(h, w)) = Rows(h, TradesBy(h, w), Earlier(h))
         /\ \A n \in DOMAIN OfWallet(h, w) :
              \E i \in TradesBy(h, w) : OfWallet(h, w)[n] = h[i]
         /\ \A i \in TradesBy(h, w) :
              \E n \in DOMAIN OfWallet(h, w) : OfWallet(h, w)[n] = h[i]
<1> DEFINE S == TradesBy(h, w)
           Q == Sooner(S)
           L == Listed(S, Q)
           g == Rows(h, S, Q)
           T == 1 .. Cardinality(S)
<1>1. S \in SUBSET (DOMAIN h) /\ S \in SUBSET Nat
  BY DEF TradesBy
<1>2. Orders(Q, S) /\ (\A x, y \in S : <<x, y>> \in Q <=> x < y)
  BY <1>1, SoonerOrders
<1>3. /\ IsFiniteSet(S) /\ Lists(L, S, Q) /\ g \in Seq(TradeType) /\ DOMAIN g = T
      /\ \A n \in T : g[n] = h[L[n]]
  BY <1>1, <1>2, RowsAre
<1>4. OfWallet(h, w) = g
  BY DEF OfWallet, Kept, TradesBy
<1> HIDE DEF S, Q, L, g
<1>5. \A m, n \in T : L[m] \in S /\ (L[m] = L[n] => m = n) /\ (<<L[m], L[n]>> \in Q <=> m < n)
  BY <1>2, <1>3, ListedOnce
<1>6. \A x \in S : \E n \in T : L[n] = x
  BY <1>3 DEF Lists
<1>7. S = {L[n] : n \in T}
  <2> HIDE DEF T
  <2>1. \A n \in T : L[n] \in S
    BY <1>5
  <2> QED BY <1>6, <2>1
<1>8. \A m, n \in T : <<m, n>> \in Earlier(g) <=> <<L[m], L[n]>> \in Earlier(h)
  <2> TAKE m, n \in T
  <2>1. L[m] \in S /\ L[n] \in S /\ (m < n <=> L[m] < L[n])
    BY <1>2, <1>5
  <2>2. g[m] = h[L[m]] /\ g[n] = h[L[n]]
    BY <1>3
  <2>3. <<m, n>> \in Earlier(g) <=> g[m].at < g[n].at \/ (g[m].at = g[n].at /\ m < n)
    BY <1>3 DEF Earlier
  <2>4. <<L[m], L[n]>> \in Earlier(h) <=>
          h[L[m]].at < h[L[n]].at \/ (h[L[m]].at = h[L[n]].at /\ L[m] < L[n])
    BY <1>1, <2>1 DEF Earlier
  <2> QED BY <2>1, <2>2, <2>3, <2>4
<1>9. Orders(Earlier(h), S)
  BY <1>1, EarlierOrders
<1>10. Rows(Rows(h, S, Q), T, Earlier(g)) = Rows(h, S, Earlier(h))
  <2>1. T \in SUBSET (DOMAIN Listed(S, Q))
    BY <1>3 DEF Lists, L
  <2> HIDE DEF T
  <2>2. Fits(L, T, Earlier(g), S, Earlier(h))
    BY <1>5, <1>6, <1>8 DEF Fits
  <2>3. Fits(Listed(S, Q), T, Earlier(g), S, Earlier(h))
    BY <2>2 DEF L
  <2> QED BY <1>1, <1>2, <1>9, <2>1, <2>3, RowsOfRows
<1>11. Ordered(g) = Rows(h, S, Earlier(h))
  BY <1>3, <1>10 DEF Ordered, g
<1>12. \A n \in DOMAIN g : \E i \in S : g[n] = h[i]
  BY <1>3, <1>5
<1>13. \A i \in S : \E n \in DOMAIN g : g[n] = h[i]
  BY <1>3, <1>6
<1> QED BY <1>3, <1>4, <1>11, <1>12, <1>13 DEF S

-----------------------------------------------------------------------------
(* Holders *)

(* The trades of a wallet in a token are the same ones in the same order, whether
   the trades of the token are taken apart by wallet, as the database does, or those
   of the wallet by token, as the position calculator does. *)
LEMMA SameTrades ==
  ASSUME NEW h \in Seq(TradeType), NEW t, NEW w
  PROVE  /\ OfWallet(OfToken(Ordered(h), t), w) \in Seq(TradeType)
         /\ OfWallet(OfToken(Ordered(h), t), w) = OfToken(Ordered(OfWallet(h, w)), t)
<1> DEFINE R == Earlier(h)
           S == TradesOf(h, t)
           B == TradesBy(h, w)
           D == DOMAIN h
<1>1. S \in SUBSET D /\ B \in SUBSET D /\ D \cap S = S /\ S \cap B = B \cap S /\ S \cap B \in SUBSET D
  BY DEF TradesOf, TradesBy
<1> HIDE DEF S, B
<1>2. OfToken(Ordered(h), t) = Rows(h, S, R)
  <2>1. D \in SUBSET (DOMAIN h)
    OBVIOUS
  <2>2. OfToken(Rows(h, D, R), t) = Rows(h, D \cap S, R)
    BY <2>1, OfTokenInOrder DEF S
  <2> QED BY <1>1, <2>2 DEF Ordered
<1>3. OfWallet(Rows(h, S, R), w) = Rows(h, S \cap B, R)
  BY <1>1, OfWalletInOrder DEF B
<1>4. OfToken(Rows(h, B, R), t) = Rows(h, B \cap S, R)
  BY <1>1, OfTokenInOrder DEF S
<1>5. Ordered(OfWallet(h, w)) = Rows(h, B, R)
  BY OrderedOfWallet DEF B
<1>6. Rows(h, S \cap B, R) \in Seq(TradeType)
  BY <1>1, EarlierOrders, RowsAre
<1> HIDE DEF R, D
<1>7. OfWallet(OfToken(Ordered(h), t), w) = Rows(h, S \cap B, R)
  BY <1>2, <1>3
<1>8. OfToken(Ordered(OfWallet(h, w)), t) = Rows(h, S \cap B, R)
  BY <1>1, <1>4, <1>5
<1> QED BY <1>6, <1>7, <1>8

(* What the rows of a history are rows of. *)
LEMMA RowsOf ==
  ASSUME NEW h \in Seq(TradeType), NEW S \in SUBSET (DOMAIN h), NEW R, Orders(R, S)
  PROVE  Range(Rows(h, S, R)) = {h[i] : i \in S}
<1> DEFINE L == Listed(S, R)
           g == Rows(h, S, R)
<1>1. /\ Lists(L, S, R)
      /\ DOMAIN g = 1 .. Cardinality(S)
      /\ \A n \in 1 .. Cardinality(S) : g[n] = h[L[n]]
  BY RowsAre
<1> HIDE DEF L, g
<1>2. \A n \in 1 .. Cardinality(S) : L[n] \in S
  BY <1>1 DEF Lists
<1>3. \A i \in S : \E n \in 1 .. Cardinality(S) : L[n] = i
  BY <1>1 DEF Lists
<1>4. \A n \in DOMAIN g : \E i \in S : g[n] = h[i]
  BY <1>1, <1>2
<1>5. \A i \in S : \E n \in DOMAIN g : g[n] = h[i]
  BY <1>1, <1>3
<1>6. Range(g) = {h[i] : i \in S}
  BY <1>4, <1>5 DEF Range
<1> QED BY <1>6 DEF g

LEMMA HaveTraded ==
  ASSUME NEW h \in Seq(TradeType), NEW t, NEW w
  PROVE  /\ w \in Wallets(OfToken(Ordered(h), t)) <=> TradesOf(h, t) \cap TradesBy(h, w) # {}
         /\ t \in Tokens(OfWallet(h, w)) <=> TradesOf(h, t) \cap TradesBy(h, w) # {}
<1> DEFINE R == Earlier(h)
           S == TradesOf(h, t)
           D == DOMAIN h
           g == OfToken(Ordered(h), t)
           k == OfWallet(h, w)
<1>1. g = Rows(h, S, R)
  <2>1. OfToken(Rows(h, D, R), t) = Rows(h, D \cap S, R)
    BY OfTokenInOrder
  <2>2. D \cap S = S
    BY DEF TradesOf
  <2> QED BY <2>1, <2>2 DEF Ordered
<1>2. S \in SUBSET D
  BY DEF TradesOf
<1>3. Orders(R, S)
  BY <1>2, EarlierOrders
<1> HIDE DEF g, k
<1>4. /\ \A n \in DOMAIN g : \E i \in S : g[n] = h[i]
      /\ \A i \in S : \E n \in DOMAIN g : g[n] = h[i]
  <2> HIDE DEF R, S
  <2>1. S \in SUBSET (DOMAIN h)
    BY <1>2
  <2>2. Range(Rows(h, S, R)) = {h[i] : i \in S}
    BY <1>3, <2>1, RowsOf
  <2>3. Range(g) = {h[i] : i \in S}
    BY <1>1, <2>2
  <2>4. \A n \in DOMAIN g : g[n] \in {h[i] : i \in S}
    BY <2>3 DEF Range
  <2>5. \A i \in S : h[i] \in Range(g)
    BY <2>3
  <2> QED BY <2>4, <2>5 DEF Range
<1>5. w \in Wallets(g) <=> \E i \in S : h[i].wallet = w
  <2>1. ASSUME w \in Wallets(g) PROVE \E i \in S : h[i].wallet = w
    <3>1. PICK n \in DOMAIN g : g[n].wallet = w
      BY <2>1 DEF Wallets
    <3>2. PICK i \in S : g[n] = h[i]
      BY <1>4
    <3> QED BY <3>1, <3>2
  <2>2. ASSUME NEW i \in S, h[i].wallet = w PROVE w \in Wallets(g)
    <3>1. PICK n \in DOMAIN g : g[n] = h[i]
      BY <1>4
    <3> QED BY <2>2, <3>1 DEF Wallets
  <2> QED BY <2>1, <2>2
<1>6. /\ \A n \in DOMAIN k : \E i \in TradesBy(h, w) : k[n] = h[i]
      /\ \A i \in TradesBy(h, w) : \E n \in DOMAIN k : k[n] = h[i]
  BY OrderedOfWallet DEF k
<1>7. t \in Tokens(k) <=> \E i \in TradesBy(h, w) : h[i].token = t
  <2>1. ASSUME t \in Tokens(k) PROVE \E i \in TradesBy(h, w) : h[i].token = t
    <3>1. PICK n \in DOMAIN k : k[n].token = t
      BY <2>1 DEF Tokens
    <3>2. PICK i \in TradesBy(h, w) : k[n] = h[i]
      BY <1>6
    <3> QED BY <3>1, <3>2
  <2>2. ASSUME NEW i \in TradesBy(h, w), h[i].token = t PROVE t \in Tokens(k)
    <3>1. PICK n \in DOMAIN k : k[n] = h[i]
      BY <1>6
    <3> QED BY <2>2, <3>1 DEF Tokens
  <2> QED BY <2>1, <2>2
<1>8. w \in Wallets(g) <=> TradesOf(h, t) \cap TradesBy(h, w) # {}
  BY <1>5 DEF TradesOf, TradesBy
<1>9. t \in Tokens(k) <=> TradesOf(h, t) \cap TradesBy(h, w) # {}
  BY <1>7 DEF TradesOf, TradesBy
<1> QED BY <1>8, <1>9 DEF g, k

(* How much a wallet holds of a token, and that the database and the position
   calculator say nearly the same of it. *)
LEMMA HeldIs ==
  ASSUME NEW h \in Seq(TradeType), NEW t, NEW w
  PROVE  LET k == OfWallet(OfToken(Ordered(h), t), w)  p == Position(OfWallet(h, w), t)
         IN /\ k \in Seq(TradeType) /\ Quantity(k) \in Int /\ UnmatchedSells(k) \in Nat
            /\ p.quantity \in Nat /\ p.unmatched \in Nat
            /\ InRange(Total(k, Traded), Len(k)) =>
                 /\ Near(Quantity(k), Unit * p.quantity, (4 * Len(k) + 1) * Error)
                 /\ Near(UnmatchedSells(k), Unit * p.unmatched, 2 * Len(k) * Error)
<1> DEFINE k == OfWallet(OfToken(Ordered(h), t), w)
           p == Position(OfWallet(h, w), t)
<1>1. k \in Seq(TradeType) /\ p = Replay(k)
  BY SameTrades DEF Position
<1> HIDE DEF k, p
<1>2. InRange(Total(k, Traded), Len(k)) =>
        /\ Near(Quantity(k), Unit * p.quantity, (4 * Len(k) + 1) * Error)
        /\ Near(UnmatchedSells(k), Unit * p.unmatched, 2 * Len(k) * Error)
  BY <1>1, RunningSumsFindHoldings
<1>3. p.quantity \in Nat /\ p.unmatched \in Nat
  BY <1>1, ExactHoldings
<1>4. Quantity(k) \in Int /\ UnmatchedSells(k) \in Nat
  BY <1>1, QuantityIs
<1> QED BY <1>1, <1>2, <1>3, <1>4 DEF k, p

(* Who holds more, or as much and has the smaller address. *)
More(of) ==
  {x \in Active(of) \X Active(of) :
     \/ Quantity(of[x[1]]) > Quantity(of[x[2]])
     \/ Quantity(of[x[1]]) = Quantity(of[x[2]]) /\ x[1] < x[2]}

LEMMA WalletsAreFew ==
  ASSUME NEW h \in Seq(TradeType)
  PROVE  /\ IsFiniteSet(Wallets(h)) /\ Cardinality(Wallets(h)) \in Nat
         /\ Wallets(h) \in SUBSET Nat
<1> DEFINE f == [i \in 1 .. Len(h) |-> h[i].wallet]
<1>1. DOMAIN h = 1 .. Len(h) /\ Len(h) \in Nat
  OBVIOUS
<1>2. IsFiniteSet(1 .. Len(h))
  <2> DEFINE n == Len(h)
  <2>1. n \in Nat
    BY <1>1
  <2> HIDE DEF n
  <2>2. IsFiniteSet(1 .. n)
    BY <2>1, FS_Interval
  <2> QED BY <2>2 DEF n
<1>3. IsFiniteSet({h[i].wallet : i \in 1 .. Len(h)})
  <2> DEFINE A == 1 .. Len(h)
             B == {h[i].wallet : i \in A}
  <2>1. f \in [A -> B] /\ \A w \in B : \E i \in A : f[i] = w
    OBVIOUS
  <2> HIDE DEF f, A, B
  <2>2. f \in Surjection(A, B)
    BY <2>1 DEF Surjection
  <2>3. IsFiniteSet(B)
    BY <1>2, <2>2, FS_Surjection DEF A
  <2> QED BY <2>3 DEF A, B
<1>4. Wallets(h) = {h[i].wallet : i \in 1 .. Len(h)}
  BY <1>1 DEF Wallets
<1>5. \A i \in DOMAIN h : h[i].wallet \in Nat
  <2> TAKE i \in DOMAIN h
  <2>1. h[i] \in TradeType
    OBVIOUS
  <2> QED BY <2>1 DEF TradeType
<1> QED BY <1>3, <1>4, <1>5, FS_CardinalityType DEF Wallets

(* The holders of a token are listed by what they hold, the largest first. *)
LEMMA HoldersListed ==
  ASSUME NEW h \in Seq(TradeType), NEW t
  PROVE  LET of == HolderAggregate(h, t)
             all == Listed(Active(of), More(of))
             N == Cardinality(Active(of))
         IN /\ N \in Nat /\ N <= Cardinality(Wallets(h))
            /\ all \in [1 .. N -> Active(of)]
            /\ {all[n] : n \in 1 .. N} = Active(of)
            /\ \A m, n \in 1 .. N : m < n =>
                 /\ all[m] # all[n]
                 /\ Quantity(of[all[m]]) >= Quantity(of[all[n]])
<1> DEFINE of == HolderAggregate(h, t)
           q(w) == Quantity(of[w])
           A == Active(of)
           N == Cardinality(A)
           all == Listed(A, More(of))
<1>1. \A w \in DOMAIN of : of[w] = OfWallet(OfToken(Ordered(h), t), w)
  BY DEF HolderAggregate
<1>2. DOMAIN of = Wallets(OfToken(Ordered(h), t))
  BY DEF HolderAggregate
<1>3. \A w \in DOMAIN of : Quantity(of[w]) = q(w) /\ q(w) \in Int
  <2> TAKE w \in DOMAIN of
  <2>1. Quantity(OfWallet(OfToken(Ordered(h), t), w)) \in Int
    BY HeldIs
  <2> QED BY <1>1, <2>1
<1> HIDE DEF of, q
<1>4. DOMAIN of \in SUBSET Wallets(h)
  <2>1. ASSUME NEW w \in DOMAIN of PROVE w \in Wallets(h)
    <3>1. w \in Wallets(OfToken(Ordered(h), t))
      BY <1>2
    <3>2. TradesOf(h, t) \cap TradesBy(h, w) # {}
      BY <3>1, HaveTraded
    <3> QED BY <3>2 DEF TradesOf, TradesBy, Wallets
  <2> QED BY <2>1
<1>5. A \in SUBSET (DOMAIN of)
  BY DEF Active
<1>6. /\ IsFiniteSet(A) /\ N \in Nat /\ N <= Cardinality(Wallets(h))
      /\ A \in SUBSET Nat
  <2>1. A \in SUBSET Wallets(h)
    BY <1>4, <1>5
  <2> HIDE DEF A
  <2> QED BY <2>1, WalletsAreFew, FS_Subset, FS_CardinalityType
<1> HIDE DEF A
<1>7. \A x, y \in A : <<x, y>> \in More(of) <=> q(x) > q(y) \/ (q(x) = q(y) /\ x < y)
  <2> TAKE x, y \in A
  <2>1. Quantity(of[x]) = q(x) /\ Quantity(of[y]) = q(y)
    BY <1>3, <1>5
  <2> QED BY <2>1 DEF More, A
<1>8. Orders(More(of), A)
  <2>1. \A x \in A : x \in Nat /\ q(x) \in Int
    BY <1>3, <1>5, <1>6
  <2>2. ASSUME NEW x \in A PROVE <<x, x>> \notin More(of)
    BY <1>7, <2>1
  <2>3. ASSUME NEW x \in A, NEW y \in A
        PROVE  x = y \/ <<x, y>> \in More(of) \/ <<y, x>> \in More(of)
    BY <1>7, <2>1
  <2>4. ASSUME NEW x \in A, NEW y \in A, NEW z \in A,
               <<x, y>> \in More(of), <<y, z>> \in More(of)
        PROVE  <<x, z>> \in More(of)
    <3> DEFINE a == q(x)
               b == q(y)
               c == q(z)
    <3>1. a \in Int /\ b \in Int /\ c \in Int /\ x \in Nat /\ y \in Nat /\ z \in Nat
      BY <2>1
    <3>2. (a > b \/ (a = b /\ x < y)) /\ (b > c \/ (b = c /\ y < z))
      BY <1>7, <2>4
    <3> HIDE DEF a, b, c
    <3>3. a > c \/ (a = c /\ x < z)
      BY <3>1, <3>2
    <3> QED BY <1>7, <3>3 DEF a, c
  <2> QED BY <2>2, <2>3, <2>4 DEF Orders
<1>9. Lists(all, A, More(of))
  BY <1>6, <1>8, ListedLists
<1> HIDE DEF all, N
<1>10. all \in [1 .. N -> A]
  BY <1>9 DEF Lists, N
<1>11. {all[n] : n \in 1 .. N} = A
  <2>1. \A x \in A : \E n \in 1 .. N : all[n] = x
    BY <1>9 DEF Lists, N
  <2> QED BY <1>10, <2>1
<1>12. ASSUME NEW m \in 1 .. N, NEW n \in 1 .. N, m < n
       PROVE  all[m] # all[n] /\ Quantity(of[all[m]]) >= Quantity(of[all[n]])
  <2>1. /\ all[m] \in A /\ all[n] \in A
        /\ (all[m] = all[n] => m = n)
        /\ <<all[m], all[n]>> \in More(of)
    BY <1>6, <1>8, <1>9, <1>12, ListedOnce DEF N
  <2>2. /\ q(all[m]) \in Int /\ q(all[n]) \in Int
        /\ Quantity(of[all[m]]) = q(all[m]) /\ Quantity(of[all[n]]) = q(all[n])
    BY <1>3, <1>5, <2>1
  <2>3. q(all[m]) > q(all[n]) \/ q(all[m]) = q(all[n])
    BY <1>7, <2>1
  <2>4. m # n
    BY <1>6, <1>12 DEF N
  <2> QED BY <2>1, <2>2, <2>3, <2>4
<1> QED BY <1>6, <1>10, <1>11, <1>12 DEF of, A, N, all

(* A page of one. *)
LEMMA PagesOfOne ==
  ASSUME NEW h \in Seq(TradeType), NEW t, NEW n \in Nat \ {0}
  PROVE  LET of == HolderAggregate(h, t)
             all == Listed(Active(of), More(of))
         IN ListTokenHolders(h, t, 1, n - 1) =
              IF n <= Cardinality(Active(of)) THEN <<all[n]>> ELSE <<>>
<1> DEFINE of == HolderAggregate(h, t)
           all == Listed(Active(of), More(of))
           N == Cardinality(Active(of))
<1>1. N \in Nat /\ all \in [1 .. N -> Active(of)]
  BY HoldersListed
<1>2. ListTokenHolders(h, t, 1, n - 1) = SubSeq(all, (n - 1) + 1, Min({(n - 1) + 1, Len(all)}))
  BY DEF ListTokenHolders, More
<1> HIDE DEF all, of, N
<1>3. all \in Seq(Active(of)) /\ Len(all) = N
  BY <1>1, IsASeq
<1>4. (n - 1) + 1 = n
  OBVIOUS
<1>5. ListTokenHolders(h, t, 1, n - 1) = SubSeq(all, n, Min({n, N}))
  BY <1>2, <1>3, <1>4
<1>6. Min({n, N}) = IF n <= N THEN n ELSE N
  BY <1>1, LesserOf
<1>7. CASE n <= N
  <2>1. SubSeq(all, n, n) = <<all[n]>>
    <3> DEFINE s == SubSeq(all, n, n)
    <3>1. Len(s) = 1 /\ s \in Seq(Active(of)) /\ s[1] = all[n]
      BY <1>1, <1>3, <1>7, SubSeqProperties
    <3> HIDE DEF s
    <3>2. s = <<s[1]>>
      BY <3>1
    <3> QED BY <3>1, <3>2 DEF s
  <2> QED BY <1>5, <1>6, <1>7, <2>1 DEF all, N, of
<1>8. CASE ~ (n <= N)
  <2>1. SubSeq(all, n, N) = <<>>
    BY <1>1, <1>3, <1>8, SubSeqProperties
  <2> QED BY <1>5, <1>6, <1>8, <2>1 DEF all, N, of
<1> QED BY <1>7, <1>8

(* For every history of trades of any wallets and tokens, however doubles are
   rounded, the holders of a token that AnalyticsRepository finds in SQL hold what
   PositionCalculator finds going through the trades of each wallet, but for the
   roundings; and the pages list whoever holds more than roundings explain, each
   once, and none before one who holds more than they explain
   (_token_holder_aggregate, list_token_holders, PositionCalculator). *)
THEOREM HoldersOfAnyHistory ==
  ASSUME history \in Seq(TradeType)
  PROVE  HoldingsAgree
<1> DEFINE h == history
           holders == HolderAggregate(h, 1)
           all == Listed(Active(holders), More(holders))
           N == Cardinality(Active(holders))
           M == Cardinality(Wallets(h))
           held == [w \in DOMAIN holders |-> Position(OfWallet(h, w), 1)]
           pages == [n \in 1 .. M |-> ListTokenHolders(h, 1, 1, n - 1)]
           full == {n \in DOMAIN pages : Len(pages[n]) = 1}
           inRange == \A w \in DOMAIN holders : InRange(Total(holders[w], Traded), Len(holders[w]))
           slack(w) == (4 * Len(holders[w]) + 1) * Error
           exact(w) == Unit * held[w].quantity
<1>1. DOMAIN held = DOMAIN holders /\ \A w \in DOMAIN holders : held[w] = Position(OfWallet(h, w), 1)
  OBVIOUS
<1>2. \A w \in DOMAIN holders : holders[w] = OfWallet(OfToken(Ordered(h), 1), w)
  BY DEF HolderAggregate
<1>3. /\ N \in Nat /\ N <= M
      /\ all \in [1 .. N -> Active(holders)]
      /\ {all[n] : n \in 1 .. N} = Active(holders)
      /\ \A m, n \in 1 .. N : m < n =>
           /\ all[m] # all[n]
           /\ Quantity(holders[all[m]]) >= Quantity(holders[all[n]])
  BY HoldersListed
<1>4. M \in Nat
  BY WalletsAreFew
<1>5. \A n \in 1 .. M : pages[n] = IF n <= N THEN <<all[n]>> ELSE <<>>
  <2> TAKE n \in 1 .. M
  <2>1. n \in Nat \ {0}
    BY <1>4
  <2>2. ListTokenHolders(h, 1, 1, n - 1) = IF n <= N THEN <<all[n]>> ELSE <<>>
    BY <2>1, PagesOfOne
  <2> QED BY <2>2
<1>6. DOMAIN pages = 1 .. M
  OBVIOUS
<1>7. h \in Seq(TradeType)
  OBVIOUS
<1> HIDE DEF h, pages, all, N, M, held, holders
<1>8. ASSUME inRange, NEW w \in DOMAIN held
      PROVE  /\ Near(Quantity(holders[w]), exact(w), slack(w))
             /\ Near(UnmatchedSells(holders[w]), Unit * held[w].unmatched,
                     2 * Len(holders[w]) * Error)
             /\ Quantity(holders[w]) \in Int /\ exact(w) \in Int /\ slack(w) \in Nat
  <2> DEFINE k == holders[w]
             p == held[w]
  <2>1. k = OfWallet(OfToken(Ordered(h), 1), w) /\ p = Position(OfWallet(h, w), 1)
    BY <1>1, <1>2
  <2>2. InRange(Total(k, Traded), Len(k))
    BY <1>1, <1>8
  <2> HIDE DEF k, p, inRange
  <2>3. /\ k \in Seq(TradeType) /\ Quantity(k) \in Int /\ p.quantity \in Nat
        /\ Near(Quantity(k), Unit * p.quantity, (4 * Len(k) + 1) * Error)
        /\ Near(UnmatchedSells(k), Unit * p.unmatched, 2 * Len(k) * Error)
    BY <1>7, <2>1, <2>2, HeldIs
  <2>4. Unit \in Nat /\ Error \in Nat
    BY DoublesAssumption
  <2>5. Unit * p.quantity \in Int
    BY <2>3, <2>4
  <2>6. (4 * Len(k) + 1) * Error \in Nat
    <3> DEFINE n == 4 * Len(k) + 1
    <3>1. n \in Nat
      BY <2>3
    <3> HIDE DEF n
    <3>2. n * Error \in Nat
      BY <2>4, <3>1
    <3> QED BY <3>2 DEF n
  <2> QED BY <2>3, <2>5, <2>6 DEF k, p
<1>9. ASSUME NEW n \in 1 .. M
      PROVE  /\ n <= N => Len(pages[n]) = 1 /\ pages[n][1] = all[n]
             /\ ~ (n <= N) => Len(pages[n]) = 0
  <2>1. CASE n <= N
    <3>1. pages[n] = <<all[n]>>
      BY <1>5, <2>1
    <3> QED BY <2>1, <3>1
  <2>2. CASE ~ (n <= N)
    <3>1. pages[n] = <<>>
      BY <1>5, <2>2
    <3> QED BY <2>2, <3>1
  <2> QED BY <2>1, <2>2
<1>10. \A n \in DOMAIN pages : Len(pages[n]) <= 1
  <2> TAKE n \in DOMAIN pages
  <2>1. Len(pages[n]) = 1 \/ Len(pages[n]) = 0
    BY <1>6, <1>9
  <2> QED BY <2>1
<1>11. full = 1 .. N
  <2>1. \A n \in 1 .. M : Len(pages[n]) = 1 <=> n <= N
    <3> TAKE n \in 1 .. M
    <3>1. n <= N => Len(pages[n]) = 1
      BY <1>9
    <3>2. ~ (n <= N) => Len(pages[n]) = 0
      BY <1>9
    <3> QED BY <3>1, <3>2
  <2> QED BY <1>3, <1>4, <1>6, <2>1
<1>12. \A n \in 1 .. N : pages[n][1] = all[n] /\ all[n] \in DOMAIN held
  <2> TAKE n \in 1 .. N
  <2>1. n \in 1 .. M /\ n <= N /\ all[n] \in Active(holders)
    BY <1>3, <1>4
  <2>2. Active(holders) \subseteq DOMAIN held
    BY <1>1 DEF Active
  <2> QED BY <1>9, <2>1, <2>2
<1> HIDE DEF full, slack, exact, inRange
<1>13. ASSUME inRange, NEW w \in DOMAIN held, exact(w) > slack(w)
       PROVE  \E n \in full : pages[n][1] = w
  <2> DEFINE q == Quantity(holders[w])
  <2>1. Near(q, exact(w), slack(w)) /\ q \in Int /\ exact(w) \in Int /\ slack(w) \in Nat
    BY <1>8, <1>13
  <2> HIDE DEF q
  <2>2. q - exact(w) >= -slack(w)
    BY <2>1 DEF Near
  <2>3. q > 0
    BY <1>13, <2>1, <2>2
  <2>4. w \in Active(holders)
    BY <1>1, <2>3 DEF Active, q
  <2>5. PICK n \in 1 .. N : all[n] = w
    BY <1>3, <2>4
  <2> QED BY <1>11, <1>12, <2>5
<1>14. ASSUME inRange, NEW m \in full, NEW n \in full, m < n
       PROVE  /\ pages[m][1] # pages[n][1]
              /\ exact(pages[n][1]) - slack(pages[n][1]) <= exact(pages[m][1]) + slack(pages[m][1])
  <2> DEFINE x == all[m]
             y == all[n]
             a == Quantity(holders[x])
             b == Quantity(holders[y])
  <2>1. m \in 1 .. N /\ n \in 1 .. N
    BY <1>11
  <2>2. /\ pages[m][1] = x /\ pages[n][1] = y /\ x \in DOMAIN held /\ y \in DOMAIN held
        /\ x # y /\ a >= b
    BY <1>3, <1>12, <1>14, <2>1
  <2>3. /\ Near(a, exact(x), slack(x)) /\ a \in Int /\ exact(x) \in Int /\ slack(x) \in Nat
        /\ Near(b, exact(y), slack(y)) /\ b \in Int /\ exact(y) \in Int /\ slack(y) \in Nat
    BY <1>8, <1>14, <2>2
  <2> HIDE DEF x, y, a, b
  <2>4. a - exact(x) <= slack(x) /\ b - exact(y) >= -slack(y)
    BY <2>3 DEF Near
  <2>5. exact(y) - slack(y) <= exact(x) + slack(x)
    BY <2>2, <2>3, <2>4
  <2> QED BY <2>2, <2>5
<1> QED BY <1>8, <1>10, <1>13, <1>14
     DEF HoldingsAgree, h, holders, held, pages, M, full, inRange, slack, exact

-----------------------------------------------------------------------------
(* Style *)

(* The tokens of a history are numbers up to some number. *)
LEMMA TokensAreBounded ==
  ASSUME NEW h \in Seq(TradeType)
  PROVE  \E N \in Nat : Tokens(h) \in SUBSET (0 .. N)
<1> DEFINE Bounded(n) == \E N \in Nat : \A i \in 1 .. n : h[i].token \in 0 .. N
           Bad == {n \in 0 .. Len(h) : ~ Bounded(n)}
<1>1. DOMAIN h = 1 .. Len(h) /\ Len(h) \in Nat
  OBVIOUS
<1>2. Bounded(0)
  <2>1. 0 \in Nat /\ \A i \in 1 .. 0 : h[i].token \in 0 .. 0
    OBVIOUS
  <2> QED BY <2>1
<1>3. ASSUME NEW n \in 1 .. Len(h), Bounded(n - 1) PROVE Bounded(n)
  <2>1. PICK N \in Nat : \A i \in 1 .. n - 1 : h[i].token \in 0 .. N
    BY <1>3
  <2>2. h[n] \in TradeType
    BY <1>1
  <2>3. h[n].token \in Nat
    BY <2>2 DEF TradeType
  <2> DEFINE t == h[n].token
             M == IF t <= N THEN N ELSE t
  <2>4. M \in Nat /\ N <= M /\ t <= M
    BY <2>3
  <2> HIDE DEF M
  <2>5. \A i \in 1 .. n : h[i].token \in 0 .. M
    <3> TAKE i \in 1 .. n
    <3>1. CASE i = n
      BY <2>3, <2>4, <3>1
    <3>2. CASE i \in 1 .. n - 1
      <4>1. h[i].token \in 0 .. N
        BY <2>1, <3>2
      <4> QED BY <2>4, <4>1
    <3> QED BY <1>1, <3>1, <3>2
  <2> QED BY <2>4, <2>5
<1> HIDE DEF Bounded
<1>4. ASSUME Bad # {} PROVE FALSE
  <2>1. PICK n \in Bad : \A m \in Bad : n <= m
    <3>1. Bad \in SUBSET Nat
      BY <1>1
    <3> HIDE DEF Bad
    <3> QED BY <1>4, <3>1, LeastNumber
  <2>2. n \in 0 .. Len(h) /\ ~ Bounded(n)
    OBVIOUS
  <2>3. n # 0
    BY <1>2, <2>2
  <2>4. n \in 1 .. Len(h) /\ n - 1 \in 0 .. Len(h) /\ ~ (n <= n - 1)
    BY <1>1, <2>2, <2>3
  <2>5. Bounded(n - 1)
    BY <2>1, <2>4
  <2> QED BY <1>3, <2>2, <2>4, <2>5
<1>5. Bounded(Len(h))
  BY <1>1, <1>4
<1>6. PICK N \in Nat : \A i \in 1 .. Len(h) : h[i].token \in 0 .. N
  BY <1>5 DEF Bounded
<1>7. Tokens(h) \in SUBSET (0 .. N)
  BY <1>1, <1>6 DEF Tokens
<1> QED BY <1>6, <1>7

(* A window has as many trades, and the same tokens, in the trades in order. *)
LEMMA WindowsInOrder ==
  ASSUME NEW h \in Seq(TradeType), NEW seconds, NEW n \in DOMAIN Ordered(h)
  PROVE  LET i == Listed(DOMAIN h, Earlier(h))[n]
         IN /\ i \in DOMAIN h
            /\ Cardinality(Window(Ordered(h), seconds, n)) = Cardinality(Window(h, seconds, i))
            /\ AtOnce(Ordered(h), seconds, n) = AtOnce(h, seconds, i)
<1> DEFINE g == Ordered(h)
           p == Listed(DOMAIN h, Earlier(h))
           V == Window(g, seconds, n)
           W == Window(h, seconds, p[n])
           f == [j \in V |-> p[j]]
<1>1. /\ g \in Seq(TradeType) /\ Len(g) = Len(h)
      /\ \A j \in DOMAIN g : p[j] \in DOMAIN h /\ g[j] = h[p[j]]
      /\ \A i \in DOMAIN h : \E j \in DOMAIN g : p[j] = i
      /\ \A j, k \in DOMAIN g : p[j] = p[k] => j = k
  BY OrderedIs
<1> HIDE DEF g, p
<1>2. n \in DOMAIN g
  BY DEF g
<1>3. V \in SUBSET (DOMAIN g) /\ W \in SUBSET (DOMAIN h)
  BY DEF Window
<1>4. \A j \in DOMAIN g : j \in V <=> p[j] \in W
  BY <1>1, <1>2 DEF Window
<1> HIDE DEF V, W
<1>5. f \in Bijection(V, W)
  <2>1. f \in [V -> W] /\ \A j, k \in V : f[j] = f[k] => j = k
    BY <1>1, <1>3, <1>4
  <2>2. ASSUME NEW i \in W PROVE \E j \in V : f[j] = i
    <3>1. PICK j \in DOMAIN g : p[j] = i
      BY <1>1, <1>3
    <3> QED BY <1>4, <3>1
  <2> HIDE DEF f
  <2> QED BY <2>1, <2>2 DEF Bijection, Injection, Surjection, IsInjective
<1>6. IsFiniteSet(V)
  <2>1. DOMAIN g = 1 .. Len(g) /\ Len(g) \in Nat
    BY <1>1
  <2> DEFINE m == Len(g)
  <2> HIDE DEF m
  <2>2. IsFiniteSet(1 .. m)
    BY <2>1, FS_Interval DEF m
  <2> QED BY <1>3, <2>1, <2>2, FS_Subset DEF m
<1>7. Cardinality(V) = Cardinality(W)
  BY <1>5, <1>6, FS_Bijection DEF ExistsBijection
<1>8. AtOnce(g, seconds, n) = AtOnce(h, seconds, p[n])
  <2>1. ASSUME NEW j \in V PROVE \E i \in W : g[j].token = h[i].token
    BY <1>1, <1>3, <1>4
  <2>2. ASSUME NEW i \in W PROVE \E j \in V : h[i].token = g[j].token
    <3>1. PICK j \in DOMAIN g : p[j] = i
      BY <1>1, <1>3
    <3> QED BY <1>1, <1>4, <3>1
  <2>3. {g[j].token : j \in V} = {h[i].token : i \in W}
    BY <2>1, <2>2
  <2> QED BY <2>3 DEF AtOnce, V, W
<1>9. p[n] \in DOMAIN h
  BY <1>1, <1>2
<1> QED BY <1>7, <1>8, <1>9 DEF g, p, V, W

(* A sum of natural numbers is one. *)
LEMMA SumsToNat ==
  ASSUME NEW S, IsFiniteSet(S), NEW f \in [S -> Nat], NEW it, SumsUp(it, f, S)
  PROVE  it[S] \in Nat
<1> DEFINE Bad == {s \in SUBSET S : it[s] \notin Nat}
<1>1. \A s \in SUBSET S : it[s] = IF s = {} THEN 0 ELSE f[Chosen(s)] + it[s \ {Chosen(s)}]
  BY DEF SumsUp
<1>2. it[{}] = 0
  BY <1>1
<1>3. ASSUME Bad # {} PROVE FALSE
  <2>1. PICK s \in Bad : \A y \in Bad : ~ (y \subseteq s /\ y # s)
    <3>1. Bad \in SUBSET SUBSET S
      OBVIOUS
    <3> HIDE DEF Bad
    <3> QED BY <1>3, <3>1, SubsetInduction
  <2>2. s \in SUBSET S /\ it[s] \notin Nat
    OBVIOUS
  <2>3. s # {}
    BY <1>2, <2>2
  <2> DEFINE c == Chosen(s)
  <2>4. c \in s
    BY <2>3 DEF Chosen
  <2>5. it[s] = f[c] + it[s \ {c}]
    BY <1>1, <2>2, <2>3
  <2> HIDE DEF c
  <2>6. s \ {c} \in SUBSET S /\ s \ {c} \subseteq s /\ s \ {c} # s
    BY <2>2, <2>4
  <2>7. it[s \ {c}] \in Nat
    BY <2>1, <2>6
  <2>8. f[c] \in Nat
    BY <2>2, <2>4
  <2> QED BY <2>2, <2>5, <2>7, <2>8
<1> QED BY <1>3

LEMMA SumIsNat ==
  ASSUME NEW N \in Nat, NEW S \in SUBSET (0 .. N), NEW f \in [S -> Nat]
  PROVE  SumFunction(f) \in Nat
<1> DEFINE it == CHOOSE j : SumsUp(j, f, S)
<1>1. SumFunction(f) = it[S]
  <2>1. DOMAIN f = S
    OBVIOUS
  <2> QED BY <2>1 DEF SumFunction, SumFunctionOnSet, FoldFunctionOnSet, MapThenFoldSet, SumsUp, Chosen
<1>2. SumsUp(it, f, S)
  <2>1. \E j : SumsUp(j, f, S)
    BY SumsExist
  <2> QED BY <2>1
<1> HIDE DEF it
<1>3. IsFiniteSet(S)
  <2>1. IsFiniteSet(0 .. N)
    BY FS_Interval
  <2> QED BY <2>1, FS_Subset
<1> QED BY <1>1, <1>2, <1>3, SumsToNat

(* The reason given says which of the limits hold. *)
LEMMA ReasonIs ==
  ASSUME NEW s
  PROVE  /\ Reason(s) = "none" =>
              /\ ~ (s.trades < MinTrades) /\ ~ (s.tokens > MaxTokens)
              /\ ~ (s.rapid > MaxRapid) /\ ~ (s.long < 1)
         /\ Reason(s) = "rapid_round_trip" =>
              /\ ~ (s.trades < MinTrades) /\ ~ (s.tokens > MaxTokens)
              /\ s.rapid > MaxRapid
<1> DEFINE c1 == s.trades < MinTrades
           c2 == s.tokens > MaxTokens
           c3 == s.switches > MaxSwitches
           c4 == s.rapid > MaxRapid
           c5 == s.long < 1
           R == Reasons(s)
           Holding == {i \in DOMAIN R : R[i][1]}
           m == Min(Holding)
<1>1. R = << <<c1, "insufficient_history">>, <<c2, "multi_token_burst">>,
             <<c3, "repeated_buy_sell_switching">>, <<c4, "rapid_round_trip">>,
             <<c5, "no_proven_long_hold">>, <<TRUE, "none">> >>
  BY DEF Reasons
<1> HIDE DEF c1, c2, c3, c4, c5, R
<1>2. /\ DOMAIN R = 1 .. 6
      /\ R[1][1] = c1 /\ R[2][1] = c2 /\ R[3][1] = c3 /\ R[4][1] = c4 /\ R[5][1] = c5
      /\ R[6][1] = TRUE
      /\ R[1][2] = "insufficient_history" /\ R[2][2] = "multi_token_burst"
      /\ R[3][2] = "repeated_buy_sell_switching" /\ R[4][2] = "rapid_round_trip"
      /\ R[5][2] = "no_proven_long_hold" /\ R[6][2] = "none"
  BY <1>1
<1>3. Holding \in SUBSET (1 .. 6) /\ 6 \in Holding
  BY <1>2
<1>4. m \in Holding /\ \A i \in Holding : m <= i
  <2>1. Holding \in SUBSET Nat /\ Holding # {}
    BY <1>3
  <2> HIDE DEF Holding
  <2>2. \E n \in Holding : \A i \in Holding : n <= i
    BY <2>1, LeastNumber
  <2> QED BY <2>2 DEF Min
<1>5. Reason(s) = R[m][2]
  BY DEF Reason, R
<1>6. m \in 1 .. 6 /\ \A i \in 1 .. 6 : i < m => ~ R[i][1]
  <2> HIDE DEF m
  <2>1. \A i \in 1 .. 6 : R[i][1] => i \in Holding
    BY <1>2
  <2>2. m \in 1 .. 6
    BY <1>3, <1>4
  <2> HIDE DEF Holding
  <2>3. \A i \in 1 .. 6 : R[i][1] => m <= i
    BY <1>4, <2>1
  <2> QED BY <2>2, <2>3
<1>7. R[m][1]
  BY <1>4
<1> HIDE DEF m, Holding
<1>8. ASSUME R[m][2] = "none" PROVE ~ c1 /\ ~ c2 /\ ~ c4 /\ ~ c5
  <2>1. m = 6
    BY <1>2, <1>6, <1>8
  <2> QED BY <1>2, <1>6, <2>1
<1>9. ASSUME R[m][2] = "rapid_round_trip" PROVE ~ c1 /\ ~ c2 /\ c4
  <2>1. m = 4
    BY <1>2, <1>6, <1>9
  <2> QED BY <1>2, <1>6, <1>7, <2>1
<1> QED BY <1>5, <1>8, <1>9 DEF c1, c2, c4, c5

(* The trades of a token in order. *)
LEMMA TokenTrades ==
  ASSUME NEW h \in Seq(TradeType), NEW t
  PROVE  /\ OfToken(Ordered(h), t) \in Seq(TradeType)
         /\ Range(OfToken(Ordered(h), t)) = {h[i] : i \in TradesOf(h, t)}
<1> DEFINE R == Earlier(h)
           S == TradesOf(h, t)
           D == DOMAIN h
<1>1. D \cap S = S /\ S \in SUBSET (DOMAIN h)
  BY DEF TradesOf
<1>2. OfToken(Rows(h, D, R), t) = Rows(h, D \cap S, R)
  BY OfTokenInOrder
<1>3. OfToken(Ordered(h), t) = Rows(h, S, R)
  BY <1>1, <1>2 DEF Ordered
<1>4. Orders(R, S)
  BY <1>1, EarlierOrders
<1> HIDE DEF S, R
<1>5. Range(Rows(h, S, R)) = {h[i] : i \in S} /\ Rows(h, S, R) \in Seq(TradeType)
  BY <1>1, <1>4, RowsOf, RowsAre
<1> QED BY <1>3, <1>5 DEF S

LEMMA SameTokens ==
  ASSUME NEW h \in Seq(TradeType)
  PROVE  Tokens(Ordered(h)) = Tokens(h)
<1> DEFINE g == Ordered(h)
           p == Listed(DOMAIN h, Earlier(h))
<1>1. /\ \A n \in DOMAIN g : p[n] \in DOMAIN h /\ g[n] = h[p[n]]
      /\ \A i \in DOMAIN h : \E n \in DOMAIN g : p[n] = i
  BY OrderedIs
<1> HIDE DEF g, p
<1>2. \A n \in DOMAIN g : \E i \in DOMAIN h : g[n].token = h[i].token
  BY <1>1
<1>3. \A i \in DOMAIN h : \E n \in DOMAIN g : h[i].token = g[n].token
  BY <1>1
<1>4. Tokens(g) = Tokens(h)
  BY <1>2, <1>3 DEF Tokens
<1> QED BY <1>4 DEF g

(* How many trades, and how many tokens, the windows of a history have. *)
Sizes(h, seconds) == {Cardinality(Window(h, seconds, i)) : i \in DOMAIN h}
Spreads(h, seconds) == {Cardinality(AtOnce(h, seconds, i)) : i \in DOMAIN h}

(* The busiest windows of the trades in order are those of the trades as stored. *)
LEMMA SamePeaks ==
  ASSUME NEW h \in Seq(TradeType), NEW seconds
  PROVE  /\ Sizes(Ordered(h), seconds) = Sizes(h, seconds)
         /\ Spreads(Ordered(h), seconds) = Spreads(h, seconds)
<1> DEFINE g == Ordered(h)
           p == Listed(DOMAIN h, Earlier(h))
<1>1. \A n \in DOMAIN g :
        /\ p[n] \in DOMAIN h
        /\ Cardinality(Window(g, seconds, n)) = Cardinality(Window(h, seconds, p[n]))
        /\ AtOnce(g, seconds, n) = AtOnce(h, seconds, p[n])
  BY WindowsInOrder
<1>2. \A i \in DOMAIN h : \E n \in DOMAIN g : p[n] = i
  BY OrderedIs
<1> HIDE DEF g, p
<1>3. {Cardinality(Window(g, seconds, n)) : n \in DOMAIN g}
        = {Cardinality(Window(h, seconds, i)) : i \in DOMAIN h}
  <2>1. \A n \in DOMAIN g : \E i \in DOMAIN h :
          Cardinality(Window(g, seconds, n)) = Cardinality(Window(h, seconds, i))
    BY <1>1
  <2>2. \A i \in DOMAIN h : \E n \in DOMAIN g :
          Cardinality(Window(h, seconds, i)) = Cardinality(Window(g, seconds, n))
    BY <1>1, <1>2
  <2> QED BY <2>1, <2>2
<1>4. {Cardinality(AtOnce(g, seconds, n)) : n \in DOMAIN g}
        = {Cardinality(AtOnce(h, seconds, i)) : i \in DOMAIN h}
  <2>1. \A n \in DOMAIN g : \E i \in DOMAIN h :
          Cardinality(AtOnce(g, seconds, n)) = Cardinality(AtOnce(h, seconds, i))
    BY <1>1
  <2>2. \A i \in DOMAIN h : \E n \in DOMAIN g :
          Cardinality(AtOnce(h, seconds, i)) = Cardinality(AtOnce(g, seconds, n))
    BY <1>1, <1>2
  <2> QED BY <2>1, <2>2
<1> QED BY <1>3, <1>4 DEF g, Sizes, Spreads

(* For every history of trades that move something, the style filter measures what
   its measures mean, in whatever order the trades were stored: the busiest windows,
   and, as long as what rounding leaves of positions is dust, the cycles of every
   token; and then a wallet that it lets pass keeps within its limits
   (TraderStyleService.evaluate_trades). *)
THEOREM StyleOfAnyHistory ==
  ASSUME history \in Seq(TradeType), MovesTokens(history)
  PROVE  StyleIsByDefinition
<1> DEFINE h == history
           g == Ordered(h)
           style == Style(h, Now)
           cycles == [t \in Tokens(g) |-> Cycles([s \in Tokens(g) |-> OfToken(g, s)][t], Now)]
           fast == [t \in Tokens(h) |-> RapidOf(OfToken(g, t), Now)]
           slow == [t \in Tokens(h) |-> LongOf(OfToken(g, t), Now)]
           rapid == SumFunction(fast)
           long == SumFunction(slow)
           atOnce(i) == Cardinality(AtOnce(h, Burst, i))
           tolerated == \A t \in Tokens(h) : Tolerated(OfToken(g, t))
<1>1. h \in Seq(TradeType) /\ MovesTokens(h) /\ Now \in Int
  BY DEF Now
<1>2. Burst \in Nat /\ MaxRapid \in Nat
  BY StyleAssumption
<1>3. g \in Seq(TradeType) /\ Len(g) = Len(h) /\ InOrder(g)
  BY <1>1, OrderedIs
<1>4. /\ style.trades = Len(g)
      /\ style.burst = RollingTrades(g, Burst)
      /\ style.tokens = RollingTokens(g, Burst)
      /\ style.rapid = SumFunction([t \in Tokens(g) |-> cycles[t].rapid])
      /\ style.long = SumFunction([t \in Tokens(g) |-> cycles[t].long])
  BY DEF Style
<1>5. Tokens(g) = Tokens(h)
  BY <1>1, SameTokens
<1> HIDE DEF h, g, style
<1>6. ASSUME tolerated, NEW t \in Tokens(g)
      PROVE  /\ cycles[t].rapid = RapidOf(OfToken(g, t), Now)
             /\ cycles[t].long = LongOf(OfToken(g, t), Now)
  <2> DEFINE k == OfToken(g, t)
  <2>1. cycles[t] = Cycles(k, Now)
    OBVIOUS
  <2>2. k \in Seq(TradeType) /\ Range(k) = {h[i] : i \in TradesOf(h, t)}
    BY <1>1, TokenTrades DEF g
  <2>5. Tolerated(k)
    BY <1>5, <1>6
  <2> HIDE DEF k, cycles, tolerated
  <2>3. MovesTokens(k)
    <3>1. ASSUME NEW n \in DOMAIN k PROVE k[n].amount > 0
      <4>1. k[n] \in Range(k)
        BY DEF Range
      <4>2. PICK i \in TradesOf(h, t) : k[n] = h[i]
        BY <2>2, <4>1
      <4> QED BY <1>1, <4>2 DEF MovesTokens, TradesOf
    <3> QED BY <3>1 DEF MovesTokens
  <2>4. Cycles(k, Now).rapid = RapidOf(k, Now) /\ Cycles(k, Now).long = LongOf(k, Now)
    BY <1>1, <2>2, <2>3, <2>5, CyclesAreByDefinition
  <2> QED BY <2>1, <2>4 DEF k
<1>7. ASSUME tolerated PROVE style.rapid = rapid /\ style.long = long
  <2> HIDE DEF cycles, tolerated
  <2>1. [t \in Tokens(g) |-> cycles[t].rapid] = fast
    BY <1>5, <1>6, <1>7, Zenon
  <2>2. [t \in Tokens(g) |-> cycles[t].long] = slow
    BY <1>5, <1>6, <1>7, Zenon
  <2> HIDE DEF fast, slow
  <2> QED BY <1>4, <2>1, <2>2
<1>8. style.burst = Peak({Cardinality(Window(h, Burst, i)) : i \in DOMAIN h})
  <2>1. RollingTrades(g, Burst) = Peak(Sizes(g, Burst))
    BY <1>2, <1>3, BusiestWindowIsFound, Zenon DEF Sizes
  <2>2. Sizes(g, Burst) = Sizes(h, Burst)
    BY <1>1, SamePeaks DEF g
  <2> QED BY <1>4, <2>1, <2>2 DEF Sizes
<1>9. style.tokens = Peak({atOnce(i) : i \in DOMAIN h})
  <2>1. RollingTokens(g, Burst) = Peak(Spreads(g, Burst))
    BY <1>2, <1>3, TokensAtOnceAreFound, Zenon DEF Spreads
  <2>2. Spreads(g, Burst) = Spreads(h, Burst)
    BY <1>1, SamePeaks DEF g
  <2> QED BY <1>4, <2>1, <2>2 DEF Spreads
<1>10. rapid \in Nat /\ long \in Nat
  <2>1. PICK N \in Nat : Tokens(h) \in SUBSET (0 .. N)
    BY <1>1, TokensAreBounded
  <2>2. ASSUME NEW t \in Tokens(h)
        PROVE  RapidOf(OfToken(g, t), Now) \in Nat /\ LongOf(OfToken(g, t), Now) \in Nat
    <3> DEFINE k == OfToken(g, t)
    <3>1. k \in Seq(TradeType)
      BY <1>1, TokenTrades DEF g
    <3> HIDE DEF k
    <3>2. Openings(k) \in SUBSET (1 .. Len(k)) /\ Closed(k) \in SUBSET (1 .. Len(k))
      BY <3>1 DEF Openings, Closed
    <3>3. IsFiniteSet(1 .. Len(k))
      <4> DEFINE n == Len(k)
      <4>1. n \in Nat
        BY <3>1
      <4> HIDE DEF n
      <4>2. IsFiniteSet(1 .. n)
        BY <4>1, FS_Interval
      <4> QED BY <4>2 DEF n
    <3>4. /\ IsFiniteSet({i \in Closed(k) : HeldFor(k, i, Now) <= RapidExit})
          /\ IsFiniteSet({i \in Openings(k) : HeldFor(k, i, Now) >= MinHold})
      <4>1. \A T \in SUBSET (1 .. Len(k)) : IsFiniteSet(T)
        BY <3>3, FS_Subset
      <4>2. /\ {i \in Closed(k) : HeldFor(k, i, Now) <= RapidExit} \in SUBSET (1 .. Len(k))
            /\ {i \in Openings(k) : HeldFor(k, i, Now) >= MinHold} \in SUBSET (1 .. Len(k))
        BY <3>2
      <4> QED BY <4>1, <4>2
    <3>5. RapidOf(k, Now) \in Nat /\ LongOf(k, Now) \in Nat
      BY <3>4, FS_CardinalityType DEF RapidOf, LongOf
    <3> QED BY <3>5 DEF k
  <2>3. fast \in [Tokens(h) -> Nat] /\ slow \in [Tokens(h) -> Nat]
    BY <2>2
  <2> HIDE DEF fast, slow
  <2> QED BY <2>1, <2>3, SumIsNat
<1> HIDE DEF rapid, long, fast, slow, cycles, atOnce
<1>11. ASSUME tolerated, Eligible(style) PROVE rapid <= MaxRapid /\ long >= 1
  <2>1. ~ (style.rapid > MaxRapid) /\ ~ (style.long < 1)
    BY <1>11, ReasonIs DEF Eligible
  <2> QED BY <1>2, <1>7, <1>10, <1>11, <2>1
<1> QED BY <1>7, <1>8, <1>9, <1>11
     DEF StyleIsByDefinition, tolerated, h, g, style, rapid, long, fast, slow, atOnce

-----------------------------------------------------------------------------
(* Fractions *)

(* a is the fraction of A and D. *)
Is(a, A, D) == a[1] \in Int /\ a[2] \in Nat \ {0} /\ a[1] * D = A * a[2]

LEMMA Cancel ==
  ASSUME NEW d \in Nat \ {0}, NEW x \in Int, NEW y \in Int, x * d = y * d
  PROVE  x = y
OBVIOUS

LEMMA CancelAtMost ==
  ASSUME NEW d \in Nat \ {0}, NEW x \in Int, NEW y \in Int
  PROVE  x * d <= y * d <=> x <= y
OBVIOUS

LEMMA ProductIsPositive ==
  ASSUME NEW d \in Nat \ {0}, NEW e \in Nat \ {0}
  PROVE  d * e \in Nat \ {0}
OBVIOUS

LEMMA ProductIsInt ==
  ASSUME NEW x \in Int, NEW y \in Int
  PROVE  x * y \in Int
OBVIOUS

(* What divides both leaves the value as it is. *)
LEMMA FracIs ==
  ASSUME NEW n \in Int, NEW d \in Nat \ {0}
  PROVE  Is(Frac(n, d), n, d)
<1> DEFINE Common == {k \in 1 .. d : Divides(k, n) /\ Divides(k, d)}
           u == Divisor(n, d)
<1>1. u \in Common
  <2>1. n % 1 = 0 /\ d % 1 = 0
    OBVIOUS
  <2>2. Common \in SUBSET (0 .. d) /\ 1 \in Common
    BY <2>1 DEF Divides
  <2> HIDE DEF Common
  <2>3. Max(Common) \in Common
    BY <2>2, MaxIsIn
  <2> QED BY <2>3 DEF Divisor, Common
<1>2. u \in Nat \ {0} /\ n % u = 0 /\ d % u = 0
  BY <1>1 DEF Divides
<1> HIDE DEF u, Common
<1> DEFINE q == n \div u
           r == d \div u
<1>3. q \in Int /\ r \in Int /\ n = u * q /\ d = u * r
  BY <1>2
<1> HIDE DEF q, r
<1>4. r \in Nat \ {0}
  BY <1>2, <1>3
<1>5. q * d = n * r
  BY <1>2, <1>3
<1>6. Frac(n, d) = IF n = 0 THEN <<0, 1>> ELSE <<q, r>>
  <2>1. ~ (d < 0)
    OBVIOUS
  <2> QED BY <2>1 DEF Frac, u, q, r
<1>7. CASE n = 0
  BY <1>6, <1>7 DEF Is
<1>8. CASE n # 0
  BY <1>3, <1>4, <1>5, <1>6, <1>8 DEF Is
<1> QED BY <1>7, <1>8

LEMMA WholeIs ==
  ASSUME NEW n \in Int
  PROVE  Is(Whole(n), n, 1)
BY DEF Whole, Is

LEMMA Rescaled ==
  ASSUME NEW a, NEW A \in Int, NEW D \in Nat \ {0}, Is(a, A, D), NEW k \in Int
  PROVE  Is(a, A * k, D * k)
<1>1. a[1] \in Int /\ a[2] \in Nat \ {0} /\ a[1] * D = A * a[2]
  BY DEF Is
<1>2. a[1] * (D * k) = (A * k) * a[2]
  <2> DEFINE x == a[1]
             y == a[2]
  <2>1. x \in Int /\ y \in Int /\ x * D = A * y
    BY <1>1
  <2> HIDE DEF x, y
  <2>2. x * (D * k) = (x * D) * k /\ (A * k) * y = (A * y) * k
    BY <2>1
  <2>3. x * (D * k) = (A * k) * y
    BY <2>1, <2>2
  <2> QED BY <2>3 DEF x, y
<1> QED BY <1>1, <1>2 DEF Is

(* A fraction of d that is worth n is worth what n and d are worth. *)
LEMMA ReducedIs ==
  ASSUME NEW n \in Int, NEW d \in Nat \ {0}, NEW A \in Int, NEW D \in Nat \ {0}, n * D = A * d
  PROVE  Is(Frac(n, d), A, D)
<1> DEFINE x == Frac(n, d)[1]
           y == Frac(n, d)[2]
<1>1. x \in Int /\ y \in Nat \ {0} /\ x * d = n * y
  BY FracIs DEF Is
<1> HIDE DEF x, y
<1>2. (x * D) * d = (A * y) * d
  <2>1. (x * D) * d = (x * d) * D
    BY <1>1
  <2>2. (n * y) * D = (n * D) * y
    BY <1>1
  <2>3. (A * d) * y = (A * y) * d
    BY <1>1
  <2> QED BY <1>1, <2>1, <2>2, <2>3
<1>3. x * D = A * y
  <2>1. x * D \in Int /\ A * y \in Int
    BY <1>1
  <2> QED BY <1>2, <2>1, Cancel
<1> QED BY <1>1, <1>3 DEF Is, x, y

LEMMA PlusIs ==
  ASSUME NEW a, NEW b, NEW A \in Int, NEW B \in Int, NEW D \in Nat \ {0}, Is(a, A, D), Is(b, B, D)
  PROVE  Is(Plus(a, b), A + B, D)
<1> DEFINE x == a[1]
           y == a[2]
           v == b[1]
           w == b[2]
<1>1. /\ x \in Int /\ y \in Nat \ {0} /\ x * D = A * y
      /\ v \in Int /\ w \in Nat \ {0} /\ v * D = B * w
  BY DEF Is
<1>2. Plus(a, b) = Frac(x * w + v * y, y * w)
  BY DEF Plus
<1> HIDE DEF x, y, v, w
<1>3. x * w + v * y \in Int /\ y * w \in Nat \ {0}
  BY <1>1, ProductIsInt, ProductIsPositive
<1>4. (x * w + v * y) * D = (A + B) * (y * w)
  <2>1. (x * w + v * y) * D = (x * D) * w + (v * D) * y
    BY <1>1
  <2>2. (A + B) * (y * w) = (A * y) * w + (B * w) * y
    BY <1>1
  <2> QED BY <1>1, <2>1, <2>2
<1>5. A + B \in Int
  OBVIOUS
<1> QED BY <1>2, <1>3, <1>4, <1>5, ReducedIs

LEMMA MinusIs ==
  ASSUME NEW a, NEW b, NEW A \in Int, NEW B \in Int, NEW D \in Nat \ {0}, Is(a, A, D), Is(b, B, D)
  PROVE  Is(Minus(a, b), A - B, D)
<1> DEFINE c == <<-b[1], b[2]>>
<1>1. Is(c, -B, D)
  <2>1. b[1] \in Int /\ b[2] \in Nat \ {0} /\ b[1] * D = B * b[2]
    BY DEF Is
  <2> DEFINE v == b[1]
             w == b[2]
  <2>2. v \in Int /\ w \in Nat \ {0} /\ v * D = B * w
    BY <2>1
  <2>3. c[1] = -v /\ c[2] = w
    OBVIOUS
  <2> HIDE DEF v, w, c
  <2>4. (-v) * D = (-B) * w
    BY <2>2
  <2> QED BY <2>2, <2>3, <2>4 DEF Is
<1> HIDE DEF c
<1>2. -B \in Int /\ A + (-B) = A - B
  OBVIOUS
<1>3. Is(Plus(a, c), A + (-B), D)
  BY <1>1, <1>2, PlusIs
<1> QED BY <1>2, <1>3 DEF Minus, c

LEMMA TimesIs ==
  ASSUME NEW a, NEW b, NEW A \in Int, NEW B \in Int, NEW D \in Nat \ {0}, NEW E \in Nat \ {0},
         Is(a, A, D), Is(b, B, E)
  PROVE  Is(Times(a, b), A * B, D * E)
<1> DEFINE x == a[1]
           y == a[2]
           v == b[1]
           w == b[2]
<1>1. /\ x \in Int /\ y \in Nat \ {0} /\ x * D = A * y
      /\ v \in Int /\ w \in Nat \ {0} /\ v * E = B * w
  BY DEF Is
<1>2. Times(a, b) = Frac(x * v, y * w)
  BY DEF Times
<1> HIDE DEF x, y, v, w
<1>3. x * v \in Int /\ y * w \in Nat \ {0} /\ A * B \in Int /\ D * E \in Nat \ {0}
  BY <1>1, ProductIsInt, ProductIsPositive
<1>4. (x * v) * (D * E) = (A * B) * (y * w)
  <2>1. (x * v) * (D * E) = (x * D) * (v * E)
    BY <1>1
  <2>2. (A * B) * (y * w) = (A * y) * (B * w)
    BY <1>1
  <2> QED BY <1>1, <2>1, <2>2
<1> QED BY <1>2, <1>3, <1>4, ReducedIs

LEMMA OverIs ==
  ASSUME NEW a, NEW b, NEW A \in Int, NEW B \in Nat \ {0}, NEW D \in Nat \ {0}, NEW E \in Nat \ {0},
         Is(a, A, D), Is(b, B, E)
  PROVE  Is(Over(a, b), A * E, D * B)
<1> DEFINE x == a[1]
           y == a[2]
           v == b[1]
           w == b[2]
<1>1. /\ x \in Int /\ y \in Nat \ {0} /\ x * D = A * y
      /\ v \in Int /\ w \in Nat \ {0} /\ v * E = B * w
  BY DEF Is
<1>2. Over(a, b) = Frac(x * w, y * v)
  BY DEF Over
<1> HIDE DEF x, y, v, w
<1>3. v \in Nat \ {0}
  <2>1. v * E > 0
    <3>1. B * w \in Nat \ {0}
      BY <1>1, ProductIsPositive
    <3> QED BY <1>1, <3>1
  <2> QED BY <1>1, <2>1
<1>4. x * w \in Int /\ y * v \in Nat \ {0} /\ A * E \in Int /\ D * B \in Nat \ {0}
  BY <1>1, <1>3, ProductIsInt, ProductIsPositive
<1>5. (x * w) * (D * B) = (A * E) * (y * v)
  <2>1. (x * w) * (D * B) = (x * D) * (B * w)
    BY <1>1
  <2>2. (A * E) * (y * v) = (A * y) * (v * E)
    BY <1>1
  <2> QED BY <1>1, <2>1, <2>2
<1> QED BY <1>2, <1>4, <1>5, ReducedIs

LEMMA PositiveIs ==
  ASSUME NEW a, NEW A \in Int, NEW D \in Nat \ {0}, Is(a, A, D)
  PROVE  Positive(a) <=> A > 0
<1> DEFINE x == a[1]
           y == a[2]
<1>1. x \in Int /\ y \in Nat \ {0} /\ x * D = A * y
  BY DEF Is
<1>2. Positive(a) <=> x > 0
  BY DEF Positive
<1> HIDE DEF x, y
<1>3. x > 0 => A > 0
  <2> SUFFICES ASSUME x > 0 PROVE A > 0
    OBVIOUS
  <2>1. x * D \in Nat \ {0}
    BY <1>1, ProductIsPositive
  <2> QED BY <1>1, <2>1
<1>4. A > 0 => x > 0
  <2> SUFFICES ASSUME A > 0 PROVE x > 0
    OBVIOUS
  <2>1. A * y \in Nat \ {0}
    BY <1>1, ProductIsPositive
  <2> QED BY <1>1, <2>1
<1> QED BY <1>2, <1>3, <1>4

LEMMA AtMostIs ==
  ASSUME NEW a, NEW b, NEW A \in Int, NEW B \in Int, NEW D \in Nat \ {0}, Is(a, A, D), Is(b, B, D)
  PROVE  AtMost(a, b) <=> A <= B
<1> DEFINE x == a[1]
           y == a[2]
           v == b[1]
           w == b[2]
<1>1. /\ x \in Int /\ y \in Nat \ {0} /\ x * D = A * y
      /\ v \in Int /\ w \in Nat \ {0} /\ v * D = B * w
  BY DEF Is
<1>2. AtMost(a, b) <=> x * w <= v * y
  BY DEF AtMost
<1> HIDE DEF x, y, v, w
<1>3. x * w <= v * y <=> (x * w) * D <= (v * y) * D
  BY <1>1, ProductIsInt, CancelAtMost
<1>4. (x * w) * D = A * (y * w) /\ (v * y) * D = B * (y * w)
  <2>1. (x * w) * D = (x * D) * w /\ (v * y) * D = (v * D) * y
    BY <1>1
  <2>2. (A * y) * w = A * (y * w) /\ (B * w) * y = B * (y * w)
    BY <1>1
  <2> QED BY <1>1, <2>1, <2>2
<1>5. A * (y * w) <= B * (y * w) <=> A <= B
  BY <1>1, ProductIsPositive, CancelAtMost
<1> QED BY <1>2, <1>3, <1>4, <1>5

-----------------------------------------------------------------------------
(* Sums over a history *)

(* p takes the places of n numbers to each other. *)
Permutes(p, n) ==
  /\ \A k \in 1 .. n : p[k] \in 1 .. n
  /\ \A j, k \in 1 .. n : p[j] = p[k] => j = k
  /\ \A i \in 1 .. n : \E k \in 1 .. n : p[k] = i

Rearranges(d, e, p, n) == Permutes(p, n) /\ \A k \in 1 .. n : d[k] = e[p[k]]

LEMMA PermutedSums ==
  ASSUME NEW n \in Nat, NEW e, NEW d, NEW p, Rearranges(d, e, p, n),
         NEW it, SumsNumbers(it, e, 1 .. n), NEW jt, SumsNumbers(jt, d, 1 .. n)
  PROVE  jt[1 .. n] = it[1 .. n]
<1> DEFINE S == 1 .. n
           image(s) == {p[k] : k \in s}
           Bad == {s \in SUBSET S : jt[s] # it[image(s)]}
<1>1. /\ \A k \in S : p[k] \in S
      /\ \A j, k \in S : p[j] = p[k] => j = k
      /\ \A i \in S : \E k \in S : p[k] = i
  BY DEF Permutes, Rearranges
<1>2. SumsNumbers(it, e, S) /\ SumsNumbers(jt, d, S) /\ IsFiniteSet(S)
  BY NumbersUpTo
<1>3. \A k \in S : d[k] = e[p[k]]
  BY DEF Rearranges
<1> HIDE DEF S
<1>4. jt[{}] = it[{}]
  <2>1. {} \in SUBSET S
    OBVIOUS
  <2> QED BY <1>2, <2>1 DEF SumsNumbers, SumsUp
<1>5. ASSUME Bad # {} PROVE FALSE
  <2>1. PICK s \in Bad : \A y \in Bad : ~ (y \subseteq s /\ y # s)
    <3>1. Bad \in SUBSET SUBSET S
      OBVIOUS
    <3> HIDE DEF Bad
    <3> QED BY <1>2, <1>5, <3>1, SubsetInduction
  <2>2. s \in SUBSET S /\ jt[s] # it[image(s)]
    OBVIOUS
  <2>3. s # {}
    <3>1. image({}) = {}
      OBVIOUS
    <3> HIDE DEF image
    <3> QED BY <1>4, <2>2, <3>1
  <2>4. PICK c \in s : TRUE
    BY <2>3
  <2>5. s \ {c} \in SUBSET S /\ s \ {c} \subseteq s /\ s \ {c} # s
    BY <2>2, <2>4
  <2>6. jt[s \ {c}] = it[image(s \ {c})]
    BY <2>1, <2>5
  <2>7. image(s) \in SUBSET S /\ p[c] \in image(s) /\ image(s) \ {p[c]} = image(s \ {c})
    <3>1. ASSUME NEW x \in image(s) \ {p[c]} PROVE x \in image(s \ {c})
      OBVIOUS
    <3>2. ASSUME NEW x \in image(s \ {c}) PROVE x \in image(s) \ {p[c]}
      BY <1>1, <2>2
    <3>3. image(s) \in SUBSET S /\ p[c] \in image(s)
      BY <1>1, <2>2
    <3> HIDE DEF image
    <3> QED BY <3>1, <3>2, <3>3
  <2> HIDE DEF image
  <2>8. Splits(jt, d, s, c) /\ Splits(it, e, image(s), p[c])
    BY <1>2, <2>2, <2>7, SumWithout
  <2>9. jt[s] = d[c] + jt[s \ {c}] /\ it[image(s)] = e[p[c]] + it[image(s \ {c})]
    BY <2>7, <2>8 DEF Splits
  <2> QED BY <1>3, <2>2, <2>6, <2>9
<1>6. jt[S] = it[image(S)]
  BY <1>5
<1>7. image(S) = S
  BY <1>1
<1> HIDE DEF image
<1> QED BY <1>6, <1>7 DEF S

LEMMA SumPermuted ==
  ASSUME NEW n \in Nat, NEW e \in [1 .. n -> Int], NEW d \in [1 .. n -> Int],
         NEW p, Permutes(p, n), \A k \in 1 .. n : d[k] = e[p[k]]
  PROVE  SumFunction(d) = SumFunction(e)
<1> DEFINE S == 1 .. n
           it == CHOOSE j : SumsUp(j, e, S)
           jt == CHOOSE j : SumsUp(j, d, S)
<1>1. SumFunction(e) = it[S] /\ SumFunction(d) = jt[S]
  <2>1. DOMAIN e = S /\ DOMAIN d = S
    OBVIOUS
  <2> HIDE DEF S
  <2> QED BY <2>1, SumIsChosen
<1>2. SumsUp(it, e, S) /\ SumsUp(jt, d, S)
  <2>1. (\E j : SumsUp(j, e, S)) /\ (\E j : SumsUp(j, d, S))
    BY NumbersUpTo, SumsExist
  <2> QED BY <2>1
<1> HIDE DEF it, jt
<1>3. SumsNumbers(it, e, S) /\ SumsNumbers(jt, d, S)
  BY <1>2, NumbersUpTo DEF SumsNumbers
<1>4. Rearranges(d, e, p, n)
  BY DEF Rearranges
<1>5. jt[S] = it[S]
  BY <1>3, <1>4, PermutedSums
<1> QED BY <1>1, <1>5

(* What a trade is worth and moves. *)
LEMMA AmountsAre ==
  ASSUME NEW x \in TradeType
  PROVE  /\ x.amount \in Nat /\ Spent(x) \in Nat /\ Received(x) \in Nat /\ Sold(x) \in Nat
         /\ IsBuy(x) => Received(x) = 0 /\ Sold(x) = 0 /\ Signed(x) = x.amount
         /\ ~ IsBuy(x) => Spent(x) = 0 /\ Sold(x) = x.amount /\ Signed(x) = - x.amount
<1>1. \A a \in Int : Max({a, 0}) = IF a <= 0 THEN 0 ELSE a
  BY DEF Max
<1>2. x.amount \in Nat /\ x.sol \in Int
  BY DEF TradeType
<1>3. Max({-x.sol, 0}) \in Nat /\ Max({x.sol, 0}) \in Nat
  <2>1. -x.sol \in Int
    BY <1>2
  <2> QED BY <1>1, <1>2, <2>1
<1> QED BY <1>2, <1>3 DEF Spent, Received, Sold, Bought, Signed

(* A total is the same whatever order the trades are in. *)
LEMMA TotalsOfOrdered ==
  ASSUME NEW h \in Seq(TradeType)
  PROVE  /\ Total(Ordered(h), Signed) = Total(h, Signed)
         /\ Total(Ordered(h), Spent) = Total(h, Spent)
         /\ Total(Ordered(h), Received) = Total(h, Received)
         /\ Total(Ordered(h), Sold) = Total(h, Sold)
<1> DEFINE g == Ordered(h)
           p == Listed(DOMAIN h, Earlier(h))
           n == Len(h)
<1>1. /\ g \in Seq(TradeType) /\ Len(g) = n
      /\ \A k \in DOMAIN g : p[k] \in DOMAIN h /\ g[k] = h[p[k]]
      /\ \A i \in DOMAIN h : \E k \in DOMAIN g : p[k] = i
      /\ \A j, k \in DOMAIN g : p[j] = p[k] => j = k
  BY OrderedIs
<1>2. n \in Nat /\ DOMAIN h = 1 .. n
  OBVIOUS
<1> HIDE DEF g, p, n
<1>3. DOMAIN g = 1 .. n
  BY <1>1
<1>4. Permutes(p, n)
  BY <1>1, <1>2, <1>3 DEF Permutes
<1>5. ASSUME NEW x \in TradeType
      PROVE  Signed(x) \in Int /\ Spent(x) \in Int /\ Received(x) \in Int /\ Sold(x) \in Int
  BY SignedIsInt, AmountsAre
<1>6. \A i \in 1 .. n : h[i] \in TradeType
  BY <1>2
<1>7. Total(g, Signed) = Total(h, Signed)
  <2> DEFINE e == [i \in 1 .. n |-> Signed(h[i])]
             d == [k \in 1 .. n |-> Signed(g[k])]
  <2>1. e \in [1 .. n -> Int] /\ d \in [1 .. n -> Int] /\ \A k \in 1 .. n : d[k] = e[p[k]]
    BY <1>1, <1>2, <1>3, <1>5, <1>6
  <2>2. Total(g, Signed) = SumFunction(d) /\ Total(h, Signed) = SumFunction(e)
    BY <1>2, <1>3 DEF Total
  <2> HIDE DEF e, d
  <2> QED BY <1>2, <1>4, <2>1, <2>2, SumPermuted
<1>8. Total(g, Spent) = Total(h, Spent)
  <2> DEFINE e == [i \in 1 .. n |-> Spent(h[i])]
             d == [k \in 1 .. n |-> Spent(g[k])]
  <2>1. e \in [1 .. n -> Int] /\ d \in [1 .. n -> Int] /\ \A k \in 1 .. n : d[k] = e[p[k]]
    BY <1>1, <1>2, <1>3, <1>5, <1>6
  <2>2. Total(g, Spent) = SumFunction(d) /\ Total(h, Spent) = SumFunction(e)
    BY <1>2, <1>3 DEF Total
  <2> HIDE DEF e, d
  <2> QED BY <1>2, <1>4, <2>1, <2>2, SumPermuted
<1>9. Total(g, Received) = Total(h, Received)
  <2> DEFINE e == [i \in 1 .. n |-> Received(h[i])]
             d == [k \in 1 .. n |-> Received(g[k])]
  <2>1. e \in [1 .. n -> Int] /\ d \in [1 .. n -> Int] /\ \A k \in 1 .. n : d[k] = e[p[k]]
    BY <1>1, <1>2, <1>3, <1>5, <1>6
  <2>2. Total(g, Received) = SumFunction(d) /\ Total(h, Received) = SumFunction(e)
    BY <1>2, <1>3 DEF Total
  <2> HIDE DEF e, d
  <2> QED BY <1>2, <1>4, <2>1, <2>2, SumPermuted
<1>10. Total(g, Sold) = Total(h, Sold)
  <2> DEFINE e == [i \in 1 .. n |-> Sold(h[i])]
             d == [k \in 1 .. n |-> Sold(g[k])]
  <2>1. e \in [1 .. n -> Int] /\ d \in [1 .. n -> Int] /\ \A k \in 1 .. n : d[k] = e[p[k]]
    BY <1>1, <1>2, <1>3, <1>5, <1>6
  <2>2. Total(g, Sold) = SumFunction(d) /\ Total(h, Sold) = SumFunction(e)
    BY <1>2, <1>3 DEF Total
  <2> HIDE DEF e, d
  <2> QED BY <1>2, <1>4, <2>1, <2>2, SumPermuted
<1> QED BY <1>7, <1>8, <1>9, <1>10 DEF g

-----------------------------------------------------------------------------
(* Books *)

LEMMA Monotone ==
  ASSUME NEW x \in Int, NEW y \in Int, x <= y, NEW k \in Nat
  PROVE  x * k <= y * k
OBVIOUS

LEMMA Reexpressed ==
  ASSUME NEW a, NEW A \in Int, NEW D \in Nat \ {0}, Is(a, A, D),
         NEW B \in Int, NEW E \in Nat \ {0}, A * E = B * D
  PROVE  Is(a, B, E)
<1> DEFINE x == a[1]
           y == a[2]
<1>1. x \in Int /\ y \in Nat \ {0} /\ x * D = A * y
  BY DEF Is
<1> HIDE DEF x, y
<1>2. (x * E) * D = (B * y) * D
  <2>1. (x * E) * D = (x * D) * E /\ (A * y) * E = (A * E) * y /\ (B * D) * y = (B * y) * D
    BY <1>1
  <2> QED BY <1>1, <2>1
<1>3. x * E = B * y
  BY <1>1, <1>2, ProductIsInt, Cancel
<1> QED BY <1>1, <1>3 DEF Is, x, y

LEMMA WholeOver ==
  ASSUME NEW n \in Int, NEW D \in Nat \ {0}
  PROVE  Is(Whole(n), n * D, D)
<1>1. Is(Whole(n), n, 1)
  BY WholeIs
<1>2. Is(Whole(n), n * D, 1 * D)
  BY <1>1, Rescaled
<1>3. 1 * D = D
  OBVIOUS
<1> QED BY <1>2, <1>3

(* The books of a position, as numbers over one denominator. *)
BooksOf(p, D, A, C, G, B) ==
  /\ D \in Nat \ {0} /\ A \in Int /\ C \in Int /\ G \in Int /\ B \in Int
  /\ Is(p.priced, A, D) /\ Is(p.cost, C, D) /\ Is(p.realized, G, D) /\ Is(p.basis, B, D)

(* What is true of them when so much was spent, received and sold of what was held:
   no token brought more than the best price, be for al of them; missed is zero when
   everything so far had a price and was matched. *)
InBalance(Q, D, A, C, G, B, spent, received, matched, missed, al, be) ==
  /\ 0 <= A /\ A <= Q * D
  /\ 0 <= C /\ (A = 0 => C = 0)
  /\ C + B <= spent * D
  /\ (G + B) * al <= (be * matched) * D
  /\ missed = 0 => A = Q * D /\ G = (received - spent) * D + C

Keeps(p, spent, received, matched, missed, al, be) ==
  \E D, A, C, G, B :
     BooksOf(p, D, A, C, G, B) /\
     InBalance(p.quantity, D, A, C, G, B, spent, received, matched, missed, al, be)

LEMMA BuyBalances ==
  ASSUME NEW Q \in Nat, NEW D \in Nat \ {0}, NEW A \in Int, NEW C \in Int, NEW G \in Int,
         NEW B \in Int, NEW S \in Nat, NEW V \in Nat, NEW M \in Nat, NEW missed \in Nat,
         NEW al \in Nat \ {0}, NEW be \in Nat, InBalance(Q, D, A, C, G, B, S, V, M, missed, al, be),
         NEW a \in Nat \ {0}, NEW s \in Nat,
         NEW bought, bought = IF s > 0 THEN A + a * D ELSE A,
         NEW more \in Nat, more = 0 => missed = 0 /\ s > 0
  PROVE  InBalance(Q + a, D, bought, C + s * D, G, B, S + s, V, M, more, al, be)
<1>1. /\ 0 <= A /\ A <= Q * D
      /\ 0 <= C /\ (A = 0 => C = 0)
      /\ C + B <= S * D
      /\ (G + B) * al <= (be * M) * D
      /\ missed = 0 => A = Q * D /\ G = (V - S) * D + C
  BY DEF InBalance
<1>2. a * D \in Nat \ {0} /\ s * D \in Nat /\ Q * D \in Int /\ S * D \in Int
  BY ProductIsPositive
<1>3. (Q + a) * D = Q * D + a * D /\ (S + s) * D = S * D + s * D
  OBVIOUS
<1>4. s = 0 => s * D = 0
  OBVIOUS
<1>5. 0 <= bought /\ bought <= (Q + a) * D
  BY <1>1, <1>2, <1>3
<1>6. 0 <= C + s * D /\ (bought = 0 => C + s * D = 0)
  <2>1. CASE s > 0
    BY <1>1, <1>2, <2>1
  <2>2. CASE s = 0
    BY <1>1, <1>4, <2>2
  <2> QED BY <2>1, <2>2
<1>7. C + s * D + B <= (S + s) * D
  BY <1>1, <1>2, <1>3
<1>8. ASSUME missed = 0, s > 0
      PROVE  bought = (Q + a) * D /\ G = (V - (S + s)) * D + (C + s * D)
  <2>1. (V - (S + s)) * D = (V - S) * D - s * D
    OBVIOUS
  <2>2. (V - S) * D \in Int
    OBVIOUS
  <2> QED BY <1>1, <1>2, <1>3, <1>8, <2>1, <2>2
<1> QED BY <1>1, <1>5, <1>6, <1>7, <1>8 DEF InBalance

LEMMA SellNothingBalances ==
  ASSUME NEW D \in Nat \ {0}, NEW A \in Int, NEW C \in Int, NEW G \in Int,
         NEW B \in Int, NEW S \in Nat, NEW V \in Nat, NEW M \in Nat, NEW missed \in Nat,
         NEW al \in Nat \ {0}, NEW be \in Nat, InBalance(0, D, A, C, G, B, S, V, M, missed, al, be),
         NEW R \in Nat, NEW more \in Nat \ {0}
  PROVE  InBalance(0, D, A, C, G, B, S, V + R, M, more, al, be)
BY DEF InBalance

Sale(R, k, u, v, A, C, G, B) ==
  LET counts == R > 0 /\ k * A > 0
  IN [priced |-> A * u - A * v, cost |-> C * u - C * v,
      realized |-> IF counts THEN G * u + (R * (k * A) - C * v) ELSE G * u,
      basis |-> IF counts THEN B * u + C * v ELSE B * u]

(* A sale of a for R that meets k of what is held, over F. *)
SaleFits(Q, D, A, C, G, B, a, R, k, al, be, F, u, v) ==
  /\ Q \in Nat \ {0} /\ D \in Nat \ {0} /\ A \in Int /\ C \in Int /\ G \in Int /\ B \in Int
  /\ a \in Nat \ {0} /\ R \in Nat /\ k \in Nat /\ k <= Q /\ k <= a
  /\ al \in Nat \ {0} /\ be \in Nat /\ R * al <= be * a
  /\ F = (Q * D) * a /\ u = Q * a /\ v = k * a

StillMissed(more, missed, a, R, k) ==
  more \in Nat /\ missed \in Nat /\ (more = 0 => missed = 0 /\ k = a /\ R > 0)

LEMMA SellBalances ==
  ASSUME NEW Q, NEW D, NEW A, NEW C, NEW G, NEW B, NEW S \in Nat, NEW V \in Nat, NEW M \in Nat,
         NEW missed, NEW al, NEW be, InBalance(Q, D, A, C, G, B, S, V, M, missed, al, be),
         NEW a, NEW R, NEW k, NEW F, NEW u, NEW v, SaleFits(Q, D, A, C, G, B, a, R, k, al, be, F, u, v),
         NEW more, StillMissed(more, missed, a, R, k)
  PROVE  LET after == Sale(R, k, u, v, A, C, G, B)
         IN InBalance(Q - k, F, after.priced, after.cost, after.realized, after.basis,
                      S, V + R, M + k, more, al, be)
<1> SUFFICES InBalance(Q - k, F, A * u - A * v, C * u - C * v,
                       IF R > 0 /\ k * A > 0 THEN G * u + (R * (k * A) - C * v) ELSE G * u,
                       IF R > 0 /\ k * A > 0 THEN B * u + C * v ELSE B * u,
                       S, V + R, M + k, more, al, be)
  BY DEF Sale
<1>0. /\ Q \in Nat \ {0} /\ D \in Nat \ {0} /\ A \in Int /\ C \in Int /\ G \in Int /\ B \in Int
      /\ a \in Nat \ {0} /\ R \in Nat /\ k \in Nat /\ k <= Q /\ k <= a
      /\ al \in Nat \ {0} /\ be \in Nat /\ R * al <= be * a
      /\ F = (Q * D) * a /\ u = Q * a /\ v = k * a
      /\ more \in Nat /\ missed \in Nat /\ (more = 0 => missed = 0 /\ k = a /\ R > 0)
  BY DEF SaleFits, StillMissed
<1> USE <1>0
<1>1. /\ 0 <= A /\ A <= Q * D
      /\ 0 <= C /\ (A = 0 => C = 0)
      /\ C + B <= S * D
      /\ (G + B) * al <= (be * M) * D
      /\ missed = 0 => A = Q * D /\ G = (V - S) * D + C
      /\ F = (Q * D) * a /\ u = Q * a /\ v = k * a
      /\ R * al <= be * a
  BY DEF InBalance
<1> DEFINE r == Q - k
           w == r * a
<1>2. r \in Nat /\ u \in Nat \ {0} /\ v \in Nat /\ w \in Nat /\ u - v = w
  <2>1. r \in Nat /\ u \in Nat \ {0} /\ v \in Nat
    BY <1>1, ProductIsPositive
  <2>2. (Q - k) * a = Q * a - k * a
    OBVIOUS
  <2>3. w \in Nat
    BY <2>1
  <2> QED BY <1>1, <2>1, <2>2, <2>3
<1>3. A * u - A * v = A * w /\ C * u - C * v = C * w
  <2>1. A * (u - v) = A * u - A * v /\ C * (u - v) = C * u - C * v
    BY <1>2
  <2> QED BY <1>2, <2>1
<1>4. F \in Nat \ {0} /\ F = D * u
  <2>1. (Q * D) * a = D * (Q * a)
    OBVIOUS
  <2>2. D * u \in Nat \ {0}
    BY <1>2, ProductIsPositive
  <2> QED BY <2>1, <2>2
<1>5. 0 <= A * w /\ A * w <= r * F
  <2>1. A * w <= (Q * D) * w
    BY <1>1, <1>2, Monotone
  <2>2. (Q * D) * (r * a) = r * ((Q * D) * a)
    BY <1>2
  <2>3. 0 <= A * w
    BY <1>1, <1>2
  <2> QED BY <2>1, <2>2, <2>3
<1>6. 0 <= C * w /\ (A * w = 0 => C * w = 0)
  <2>1. 0 <= C * w
    BY <1>1, <1>2
  <2>2. ASSUME A * w = 0 PROVE C * w = 0
    <3>1. A = 0 \/ w = 0
      BY <1>2, <2>2
    <3>2. CASE A = 0
      <4>1. C = 0
        BY <1>1, <3>2
      <4> QED BY <1>2, <4>1
    <3>3. CASE w = 0
      BY <3>3
    <3> QED BY <3>1, <3>2, <3>3
  <2> QED BY <2>1, <2>2
<1>7. (C + B) * u <= S * F /\ (C + B) * u = C * u + B * u
  <2>1. (C + B) * u <= (S * D) * u
    BY <1>1, <1>2, Monotone
  <2>2. (S * D) * u = S * (D * u)
    BY <1>2
  <2>3. (C + B) * u = C * u + B * u
    BY <1>2
  <2> QED BY <1>4, <2>1, <2>2, <2>3
<1>8. 0 <= C * v /\ C * v \in Int /\ C * u \in Int /\ B * u \in Int /\ G * u \in Int
  BY <1>1, <1>2
<1>9. ((G + B) * u) * al <= (be * M) * F /\ (G + B) * u = G * u + B * u
  <2>1. ((G + B) * al) * u <= ((be * M) * D) * u
    <3>1. (G + B) * al \in Int /\ (be * M) * D \in Int
      OBVIOUS
    <3> QED BY <1>1, <1>2, <3>1, Monotone
  <2>2. ((be * M) * D) * u = (be * M) * (D * u)
    BY <1>2
  <2>3. ((G + B) * al) * u = ((G + B) * u) * al
    BY <1>2
  <2>4. (G + B) * u = G * u + B * u
    BY <1>2
  <2> QED BY <1>4, <2>1, <2>2, <2>3, <2>4
<1>10. /\ (be * (M + k)) * F = (be * M) * F + (be * k) * F
       /\ (be * k) * F \in Nat /\ (be * M) * F \in Int
  <2>1. be * (M + k) = be * M + be * k
    OBVIOUS
  <2>2. be * M \in Int /\ be * k \in Nat /\ F \in Nat
    BY <1>4
  <2>3. (be * M + be * k) * F = (be * M) * F + (be * k) * F
    BY <2>2
  <2>4. (be * k) * F \in Nat /\ (be * M) * F \in Int
    BY <2>2
  <2> QED BY <2>1, <2>3, <2>4
<1>11. CASE R > 0 /\ k * A > 0
  <2> DEFINE g == G * u + (R * (k * A) - C * v)
             b == B * u + C * v
  <2>1. (A * u - A * v) >= 0
    BY <1>3, <1>5
  <2>2. C * w + b <= S * F
    <3>1. C * w = C * u - C * v
      BY <1>3
    <3> QED BY <1>7, <1>8, <3>1
  <2>3. (g + b) * al <= (be * (M + k)) * F
    <3>1. g + b = (G + B) * u + R * (k * A)
      <4>1. R * (k * A) \in Int
        OBVIOUS
      <4> QED BY <1>8, <1>9, <4>1
    <3>2. (R * (k * A)) * al <= (be * k) * F
      <4>1. k * A \in Nat
        BY <1>1
      <4>2. (R * al) * (k * A) <= (be * a) * (k * A)
        BY <4>1, ProductIsInt, Monotone
      <4>3. A * ((be * a) * k) <= (Q * D) * ((be * a) * k)
        <5>1. (be * a) * k \in Nat
          OBVIOUS
        <5> QED BY <1>1, <5>1, Monotone
      <4>4. (R * (k * A)) * al = (R * al) * (k * A)
        OBVIOUS
      <4>5. (be * a) * (k * A) = A * ((be * a) * k)
        OBVIOUS
      <4>6. (Q * D) * ((be * a) * k) = (be * k) * ((Q * D) * a)
        OBVIOUS
      <4>7. (R * (k * A)) * al \in Int /\ (be * a) * (k * A) \in Int /\ (be * k) * F \in Int
        BY <1>10
      <4> QED BY <4>2, <4>3, <4>4, <4>5, <4>6, <4>7
    <3>3. ((G + B) * u + R * (k * A)) * al = ((G + B) * u) * al + (R * (k * A)) * al
      BY <1>2
    <3>4. ((G + B) * u) * al \in Int /\ (R * (k * A)) * al \in Int
      BY <1>2
    <3> HIDE DEF g, b
    <3> QED BY <1>9, <1>10, <3>1, <3>2, <3>3, <3>4
  <2>4. ASSUME missed = 0, k = a, R > 0
        PROVE  A * w = r * F /\ g = (V + R - S) * F + C * w
    <3>1. A = Q * D /\ G = (V - S) * D + C
      BY <1>1, <2>4
    <3>2. (Q * D) * (r * a) = r * ((Q * D) * a)
      BY <1>2
    <3>3. R * (k * A) = R * F
      <4>1. a * (Q * D) = (Q * D) * a
        OBVIOUS
      <4> QED BY <2>4, <3>1, <4>1
    <3>4. G * u = (V - S) * F + C * u
      <4>1. ((V - S) * D + C) * u = ((V - S) * D) * u + C * u
        BY <1>2
      <4>2. ((V - S) * D) * u = (V - S) * (D * u)
        BY <1>2
      <4> QED BY <1>4, <3>1, <4>1, <4>2
    <3>5. (V + R - S) * F = (V - S) * F + R * F
      BY <1>4
    <3>6. (V - S) * F \in Int /\ R * F \in Int
      BY <1>4
    <3>7. g = (V + R - S) * F + C * w
      BY <1>3, <1>8, <3>3, <3>4, <3>5, <3>6
    <3> QED BY <3>1, <3>2, <3>7
  <2>5. InBalance(r, F, A * w, C * w, g, b, S, V + R, M + k, more, al, be)
    <3> HIDE DEF g, b, w, r
    <3> QED BY <1>5, <1>6, <2>2, <2>3, <2>4 DEF InBalance
  <2> QED BY <1>3, <1>11, <2>5
<1>12. CASE ~ (R > 0 /\ k * A > 0)
  <2>1. C * w + B * u <= S * F
    <3>1. C * w = C * u - C * v
      BY <1>3
    <3> QED BY <1>7, <1>8, <3>1
  <2>2. (G * u + B * u) * al <= (be * (M + k)) * F
    <3>1. ((G + B) * u) * al \in Int
      BY <1>2
    <3> QED BY <1>9, <1>10, <3>1
  <2>3. ~ (missed = 0 /\ k = a /\ R > 0)
    <3>1. ASSUME missed = 0, k = a, R > 0 PROVE FALSE
      <4>1. A \in Nat \ {0}
        BY <1>1, <3>1, ProductIsPositive
      <4>2. k * A > 0
        BY <3>1, <4>1, ProductIsPositive
      <4> QED BY <1>12, <3>1, <4>2
    <3> QED BY <3>1
  <2>4. InBalance(r, F, A * w, C * w, G * u, B * u, S, V + R, M + k, more, al, be)
    <3> HIDE DEF w, r
    <3> QED BY <1>5, <1>6, <2>1, <2>2, <2>3 DEF InBalance
  <2> QED BY <1>3, <1>12, <2>4
<1> QED BY <1>11, <1>12

(* What a position with A priced and C paid, over D, gives away when k of its Q go. *)
LEMMA MatchIs ==
  ASSUME NEW p, NEW x, NEW Q \in Nat \ {0}, p.quantity = Q, NEW k \in Nat, Match(p, x).quantity = k,
         NEW D \in Nat \ {0}, NEW A \in Int, NEW C \in Int, Is(p.priced, A, D), Is(p.cost, C, D),
         0 <= A, A = 0 => C = 0
  PROVE  Is(Match(p, x).priced, k * A, Q * D) /\ Is(Match(p, x).cost, k * C, Q * D)
<1> DEFINE m == Match(p, x)
<1>1. /\ m.priced = Share(Times(Whole(k), p.priced), Whole(Q))
      /\ m.cost = Times(Share(p.cost, p.priced), m.priced)
  BY DEF Match
<1> HIDE DEF m
<1>2. Q * D \in Nat \ {0} /\ k * A \in Int /\ k * C \in Int
  BY ProductIsPositive
<1>3. Is(m.priced, k * A, Q * D)
  <2>1. Is(Whole(k), k, 1) /\ Is(Whole(Q), Q, 1)
    BY WholeIs
  <2>2. Is(Times(Whole(k), p.priced), k * A, 1 * D)
    BY <2>1, TimesIs
  <2>3. 1 * D = D /\ (k * A) * 1 = k * A /\ D * Q = Q * D
    BY <1>2
  <2>4. Is(Over(Times(Whole(k), p.priced), Whole(Q)), (k * A) * 1, D * Q)
    <3>1. Is(Times(Whole(k), p.priced), k * A, D)
      BY <2>2, <2>3
    <3> QED BY <1>2, <2>1, <3>1, OverIs
  <2>5. Positive(Whole(Q))
    BY <2>1, PositiveIs
  <2> QED BY <1>1, <2>3, <2>4, <2>5 DEF Share
<1>4. CASE A = 0
  <2>1. ~ Positive(p.priced)
    BY <1>4, PositiveIs
  <2>2. Is(Zero, 0, 1)
    BY WholeIs DEF Zero
  <2>3. Is(Times(Zero, m.priced), A * (k * A), 1 * (Q * D))
    <3>1. Is(Zero, A, 1)
      BY <1>4, <2>2
    <3> QED BY <1>2, <1>3, <3>1, TimesIs
  <2>4. A * (k * A) = k * C /\ 1 * (Q * D) = Q * D
    <3>1. C = 0
      BY <1>4
    <3> QED BY <1>2, <1>4, <3>1
  <2>5. Share(p.cost, p.priced) = Zero
    BY <2>1 DEF Share
  <2> QED BY <1>1, <1>3, <2>3, <2>4, <2>5 DEF m
<1>5. CASE A > 0
  <2>1. A \in Nat \ {0} /\ Positive(p.priced)
    BY <1>5, PositiveIs
  <2>2. Share(p.cost, p.priced) = Over(p.cost, p.priced)
    BY <2>1 DEF Share
  <2>3. Is(Over(p.cost, p.priced), C * D, D * A)
    BY <2>1, OverIs
  <2>4. D * A \in Nat \ {0} /\ C * D \in Int /\ (D * A) * (Q * D) \in Nat \ {0}
        /\ (C * D) * (k * A) \in Int
    BY <1>2, <2>1, ProductIsPositive
  <2>5. Is(m.cost, (C * D) * (k * A), (D * A) * (Q * D))
    BY <1>1, <1>2, <1>3, <2>2, <2>3, <2>4, TimesIs
  <2>6. ((C * D) * (k * A)) * (Q * D) = (k * C) * ((D * A) * (Q * D))
    <3>1. (C * D) * (k * A) = (k * C) * (D * A)
      OBVIOUS
    <3>2. ((k * C) * (D * A)) * (Q * D) = (k * C) * ((D * A) * (Q * D))
      <4> DEFINE e == k * C
                 f == D * A
                 g == Q * D
      <4>1. e \in Int /\ f \in Int /\ g \in Int
        BY <1>2, <2>4
      <4> HIDE DEF e, f, g
      <4>2. (e * f) * g = e * (f * g)
        BY <4>1
      <4> QED BY <4>2 DEF e, f, g
    <3> QED BY <3>1, <3>2
  <2>7. Is(m.cost, k * C, Q * D)
    BY <1>2, <2>4, <2>5, <2>6, Reexpressed
  <2> QED BY <1>3, <2>7 DEF m
<1> QED BY <1>4, <1>5

LEMMA MatchedIs ==
  ASSUME NEW p, p.quantity \in Nat, NEW x \in TradeType
  PROVE  Match(p, x).quantity = IF p.quantity <= x.amount THEN p.quantity ELSE x.amount
<1>1. x.amount \in Nat
  BY AmountsAre
<1>2. Match(p, x).quantity = Min({p.quantity, x.amount})
  BY DEF Match
<1> QED BY <1>1, <1>2, LesserOf

(* A sale of a position that holds nothing. *)
LEMMA SellNothingKeeps ==
  ASSUME NEW p, Shape(p), p.quantity = 0, NEW x \in TradeType, x.amount > 0, ~ IsBuy(x),
         NEW S \in Nat, NEW V \in Nat, NEW M \in Nat, NEW missed \in Nat,
         NEW al \in Nat \ {0}, NEW be \in Nat, Keeps(p, S, V, M, missed, al, be),
         NEW more \in Nat \ {0}
  PROVE  Keeps(Sell(p, x), S, V + Received(x), M, more, al, be)
<1> DEFINE m == Match(p, x)
           q == Sell(p, x)
<1>1. x.amount \in Nat \ {0} /\ Received(x) \in Nat
  BY AmountsAre
<1>2. PICK D, A, C, G, B :
        BooksOf(p, D, A, C, G, B) /\ InBalance(0, D, A, C, G, B, S, V, M, missed, al, be)
  BY DEF Keeps
<1>3. /\ D \in Nat \ {0} /\ A \in Int /\ C \in Int /\ G \in Int /\ B \in Int
      /\ Is(p.priced, A, D) /\ Is(p.cost, C, D) /\ Is(p.realized, G, D) /\ Is(p.basis, B, D)
  BY <1>2 DEF BooksOf
<1>4. A = 0 /\ C = 0 /\ InBalance(0, D, A, C, G, B, S, V + Received(x), M, more, al, be)
  <2>1. A = 0 /\ C = 0
    BY <1>2, <1>3 DEF InBalance
  <2> DEFINE R == Received(x)
  <2> HIDE DEF R
  <2>2. R \in Nat
    BY <1>1 DEF R
  <2>3. InBalance(0, D, A, C, G, B, S, V + R, M, more, al, be)
    BY <1>2, <1>3, <2>2, SellNothingBalances
  <2> QED BY <2>1, <2>3 DEF R
<1>5. m.quantity = 0
  BY <1>1, MatchedIs
<1>6. Is(Zero, 0, 1) /\ Is(Zero, 0, D)
  <2>1. Is(Zero, 0, 1)
    BY WholeIs DEF Zero
  <2>2. 0 * D = 0 * 1
    BY <1>3
  <2> QED BY <1>3, <2>1, <2>2, Reexpressed
<1>7. m.priced = Zero
  <2>1. ~ Positive(Whole(0))
    BY <1>6, PositiveIs DEF Zero
  <2> QED BY <2>1 DEF Match, Share
<1>8. Is(m.cost, 0, D)
  <2>1. Share(p.cost, p.priced) = Zero
    BY <1>3, <1>4, PositiveIs DEF Share
  <2>2. m.cost = Times(Zero, Zero)
    BY <1>7, <2>1 DEF Match
  <2>3. Is(Times(Zero, Zero), 0 * 0, 1 * 1)
    BY <1>6, TimesIs
  <2>4. 0 * 0 = 0 /\ 1 * 1 = 1 /\ 0 * D = 0 * 1
    BY <1>3
  <2>5. Is(Times(Zero, Zero), 0, 1)
    BY <2>3, <2>4
  <2>6. Is(Times(Zero, Zero), 0, D)
    BY <1>3, <2>4, <2>5, Reexpressed
  <2> QED BY <2>2, <2>6
<1>9. /\ q.quantity = 0
      /\ q.priced = Minus(p.priced, m.priced) /\ q.cost = Minus(p.cost, m.cost)
      /\ q.realized = p.realized /\ q.basis = p.basis
  <2>1. ~ Positive(m.priced)
    BY <1>6, <1>7, PositiveIs
  <2> HIDE DEF m
  <2>2. q = [p EXCEPT !.quantity = @ - m.quantity, !.unmatched = @ + x.amount - m.quantity,
                      !.priced = Minus(@, m.priced), !.cost = Minus(@, m.cost)]
    BY <2>1 DEF Sell, m
  <2> HIDE DEF q
  <2> QED BY <1>5, <2>2 DEF Shape
<1> HIDE DEF m, q
<1>10. Is(q.priced, A - 0, D) /\ Is(q.cost, C - 0, D)
  BY <1>3, <1>6, <1>7, <1>8, <1>9, MinusIs
<1>11. A - 0 = A /\ C - 0 = C
  BY <1>3
<1>12. BooksOf(q, D, A, C, G, B)
  BY <1>3, <1>9, <1>10, <1>11 DEF BooksOf
<1> QED BY <1>4, <1>9, <1>12 DEF Keeps, q

(* A sale of a position that holds something. *)
LEMMA SellKeeps ==
  ASSUME NEW p, Shape(p), p.quantity \in Nat \ {0}, NEW x \in TradeType, x.amount > 0, ~ IsBuy(x),
         NEW S \in Nat, NEW V \in Nat, NEW M \in Nat, NEW missed \in Nat,
         NEW al \in Nat \ {0}, NEW be \in Nat, Keeps(p, S, V, M, missed, al, be),
         Received(x) * al <= be * x.amount,
         NEW k, k = Match(p, x).quantity,
         NEW more \in Nat, more = 0 => missed = 0 /\ k = x.amount /\ Received(x) > 0
  PROVE  Keeps(Sell(p, x), S, V + Received(x), M + k, more, al, be)
<1> DEFINE m == Match(p, x)
           q == Sell(p, x)
           R == Received(x)
           a == x.amount
           Q == p.quantity
<1>1. /\ a \in Nat \ {0} /\ R \in Nat /\ Q \in Nat \ {0} /\ R * al <= be * a
      /\ more = 0 => missed = 0 /\ k = a /\ R > 0
  BY AmountsAre
<1>2. PICK D, A, C, G, B :
        BooksOf(p, D, A, C, G, B) /\ InBalance(Q, D, A, C, G, B, S, V, M, missed, al, be)
  BY DEF Keeps
<1>3. /\ D \in Nat \ {0} /\ A \in Int /\ C \in Int /\ G \in Int /\ B \in Int
      /\ Is(p.priced, A, D) /\ Is(p.cost, C, D) /\ Is(p.realized, G, D) /\ Is(p.basis, B, D)
  BY <1>2 DEF BooksOf
<1>4. k \in Nat /\ k <= Q /\ k <= a
  <2>1. k = IF Q <= a THEN Q ELSE a
    BY <1>1, MatchedIs
  <2> HIDE DEF Q, a
  <2> QED BY <1>1, <2>1
<1>5. Is(m.priced, k * A, Q * D) /\ Is(m.cost, k * C, Q * D)
  <2>1. 0 <= A /\ (A = 0 => C = 0)
    BY <1>2 DEF InBalance
  <2> QED BY <1>1, <1>3, <1>4, <2>1, MatchIs
<1>6. m.quantity = k /\ Proceeds(m, x) = Over(Times(Whole(R), m.priced), Whole(a))
  BY DEF Proceeds
<1> DEFINE counts == R > 0 /\ Positive(m.priced)
           left == [p EXCEPT !.quantity = @ - k, !.unmatched = @ + a - k,
                             !.priced = Minus(@, m.priced), !.cost = Minus(@, m.cost)]
           gain == Minus(Proceeds(m, x), m.cost)
<1>7. q = IF counts THEN [left EXCEPT !.realized = Plus(@, gain), !.basis = Plus(@, m.cost)]
          ELSE left
  BY <1>6 DEF Sell
<1>8. /\ q.quantity = Q - k
      /\ q.priced = Minus(p.priced, m.priced) /\ q.cost = Minus(p.cost, m.cost)
      /\ q.realized = IF counts THEN Plus(p.realized, gain) ELSE p.realized
      /\ q.basis = IF counts THEN Plus(p.basis, m.cost) ELSE p.basis
  <2> HIDE DEF q, m, gain, counts, R
  <2> QED BY <1>7 DEF Shape
<1> HIDE DEF m, q, R, a, Q, left
<1> DEFINE F == (Q * D) * a
           u == Q * a
           v == k * a
<1>9. /\ Q * D \in Nat \ {0} /\ F \in Nat \ {0} /\ u \in Nat \ {0} /\ v \in Nat
      /\ k * A \in Int /\ k * C \in Int
  BY <1>1, <1>3, <1>4, ProductIsPositive, ProductIsInt
<1>10. D * u = F /\ (k * A) * a = A * v /\ (k * C) * a = C * v
  BY <1>1, <1>3, <1>4
<1>11. /\ Is(p.priced, A * u, F) /\ Is(p.cost, C * u, F)
       /\ Is(p.realized, G * u, F) /\ Is(p.basis, B * u, F)
  <2>1. /\ Is(p.priced, A * u, D * u) /\ Is(p.cost, C * u, D * u)
        /\ Is(p.realized, G * u, D * u) /\ Is(p.basis, B * u, D * u)
    <3> HIDE DEF u, F
    <3>1. u \in Int
      BY <1>9
    <3> QED BY <1>3, <3>1, Rescaled
  <2> QED BY <1>10, <2>1
<1>12. Is(m.priced, A * v, F) /\ Is(m.cost, C * v, F)
  <2>1. Is(m.priced, (k * A) * a, (Q * D) * a) /\ Is(m.cost, (k * C) * a, (Q * D) * a)
    <3>1. a \in Int
      BY <1>1
    <3> QED BY <1>5, <1>9, <3>1, Rescaled
  <2> QED BY <1>10, <2>1
<1>13. counts <=> R > 0 /\ k * A > 0
  BY <1>5, <1>9, PositiveIs
<1>14. Is(Proceeds(m, x), R * (k * A), F)
  <2>1. Is(Whole(R), R, 1) /\ Is(Whole(a), a, 1) /\ R \in Int
    BY <1>1, WholeIs
  <2>2. Is(Times(Whole(R), m.priced), R * (k * A), 1 * (Q * D))
    BY <1>5, <1>9, <2>1, TimesIs
  <2>3. 1 * (Q * D) = Q * D /\ (R * (k * A)) * 1 = R * (k * A) /\ R * (k * A) \in Int
    BY <1>9, <2>1, ProductIsInt
  <2>4. Is(Times(Whole(R), m.priced), R * (k * A), Q * D)
    BY <2>2, <2>3
  <2>5. Is(Over(Times(Whole(R), m.priced), Whole(a)), (R * (k * A)) * 1, (Q * D) * a)
    BY <1>1, <1>9, <2>1, <2>3, <2>4, OverIs
  <2> QED BY <1>6, <2>3, <2>5
<1> HIDE DEF F, u, v
<1>15. A * u \in Int /\ C * u \in Int /\ G * u \in Int /\ B * u \in Int
       /\ A * v \in Int /\ C * v \in Int /\ R * (k * A) \in Int
  <2>1. R \in Int /\ u \in Int /\ v \in Int
    BY <1>1, <1>9
  <2> QED BY <1>3, <1>9, <2>1, ProductIsInt
<1> DEFINE realized == IF R > 0 /\ k * A > 0 THEN G * u + (R * (k * A) - C * v) ELSE G * u
           basis == IF R > 0 /\ k * A > 0 THEN B * u + C * v ELSE B * u
<1>16. Is(q.priced, A * u - A * v, F) /\ Is(q.cost, C * u - C * v, F)
  BY <1>8, <1>9, <1>11, <1>12, <1>15, MinusIs
<1>17. Is(gain, R * (k * A) - C * v, F)
  BY <1>9, <1>12, <1>14, <1>15, MinusIs
<1> HIDE DEF gain
<1>18. Is(q.realized, realized, F) /\ Is(q.basis, basis, F)
  <2>1. Is(Plus(p.realized, gain), G * u + (R * (k * A) - C * v), F)
    <3>1. R * (k * A) - C * v \in Int
      BY <1>15
    <3> QED BY <1>9, <1>11, <1>15, <1>17, <3>1, PlusIs
  <2>2. Is(Plus(p.basis, m.cost), B * u + C * v, F)
    BY <1>9, <1>11, <1>12, <1>15, PlusIs
  <2> QED BY <1>8, <1>11, <1>13, <2>1, <2>2
<1>19. BooksOf(q, F, A * u - A * v, C * u - C * v, realized, basis)
  <2>1. A * u - A * v \in Int /\ C * u - C * v \in Int /\ realized \in Int /\ basis \in Int
    BY <1>15
  <2> HIDE DEF realized, basis
  <2> QED BY <1>9, <1>16, <1>18, <2>1 DEF BooksOf
<1>20. InBalance(Q - k, F, A * u - A * v, C * u - C * v, realized, basis,
                 S, V + R, M + k, more, al, be)
  <2>1. SaleFits(Q, D, A, C, G, B, a, R, k, al, be, F, u, v) /\ StillMissed(more, missed, a, R, k)
    BY <1>1, <1>3, <1>4 DEF SaleFits, StillMissed, F, u, v
  <2> DEFINE after == Sale(R, k, u, v, A, C, G, B)
  <2>2. InBalance(Q - k, F, after.priced, after.cost, after.realized, after.basis,
                  S, V + R, M + k, more, al, be)
    BY <1>2, <2>1, SellBalances
  <2> QED BY <2>2 DEF Sale
<1> HIDE DEF realized, basis
<1>21. Keeps(q, S, V + R, M + k, more, al, be)
  BY <1>8, <1>19, <1>20 DEF Keeps
<1> QED BY <1>21 DEF q, R, a

(* A buy. *)
LEMMA BuyKeeps ==
  ASSUME NEW p, Shape(p), p.quantity \in Nat, NEW x \in TradeType, x.amount > 0, IsBuy(x),
         NEW S \in Nat, NEW V \in Nat, NEW M \in Nat, NEW missed \in Nat,
         NEW al \in Nat \ {0}, NEW be \in Nat, Keeps(p, S, V, M, missed, al, be),
         NEW more \in Nat, more = 0 => missed = 0 /\ Spent(x) > 0
  PROVE  Keeps(Buy(p, x), S + Spent(x), V, M, more, al, be)
<1> DEFINE q == Buy(p, x)
           s == Spent(x)
           a == x.amount
           Q == p.quantity
<1>1. a \in Nat \ {0} /\ s \in Nat /\ Q \in Nat /\ (more = 0 => missed = 0 /\ s > 0)
  BY AmountsAre
<1>2. PICK D, A, C, G, B :
        BooksOf(p, D, A, C, G, B) /\ InBalance(Q, D, A, C, G, B, S, V, M, missed, al, be)
  BY DEF Keeps
<1>3. /\ D \in Nat \ {0} /\ A \in Int /\ C \in Int /\ G \in Int /\ B \in Int
      /\ Is(p.priced, A, D) /\ Is(p.cost, C, D) /\ Is(p.realized, G, D) /\ Is(p.basis, B, D)
  BY <1>2 DEF BooksOf
<1>4. /\ q.quantity = Q + a /\ q.realized = p.realized /\ q.basis = p.basis
      /\ q.priced = IF s > 0 THEN Plus(p.priced, Whole(a)) ELSE p.priced
      /\ q.cost = Plus(p.cost, Whole(s))
  BY DEF Buy, Shape
<1> HIDE DEF q, s, a, Q
<1> DEFINE bought == IF s > 0 THEN A + a * D ELSE A
<1>5. /\ Is(Whole(a), a * D, D) /\ Is(Whole(s), s * D, D) /\ a * D \in Int /\ s * D \in Int
  <2>1. a \in Int /\ s \in Int /\ D \in Int
    BY <1>1, <1>3
  <2> QED BY <1>3, <2>1, WholeOver, ProductIsInt
<1>6. Is(q.priced, bought, D) /\ Is(q.cost, C + s * D, D)
  BY <1>3, <1>4, <1>5, PlusIs
<1>7. BooksOf(q, D, bought, C + s * D, G, B)
  BY <1>3, <1>4, <1>5, <1>6 DEF BooksOf
<1>8. InBalance(Q + a, D, bought, C + s * D, G, B, S + s, V, M, more, al, be)
  <2>1. bought = IF s > 0 THEN A + a * D ELSE A
    OBVIOUS
  <2> HIDE DEF bought
  <2> QED BY <1>1, <1>2, <1>3, <2>1, BuyBalances
<1> HIDE DEF bought
<1>9. Keeps(q, S + s, V, M, more, al, be)
  BY <1>4, <1>7, <1>8 DEF Keeps
<1> QED BY <1>9 DEF q, s

(* be for al tokens is a price that no sale among the first n trades exceeds, and the
   price of one of them. *)
IsBest(h, n, al, be) ==
  /\ al \in Nat \ {0} /\ be \in Nat
  /\ \A i \in 1 .. n : Received(h[i]) * al <= be * h[i].amount
  /\ n # 0 => \E i \in 1 .. n : al = h[i].amount /\ be = Received(h[i])

LEMMA BetterOf ==
  ASSUME NEW r \in Nat, NEW e \in Nat \ {0}, NEW al \in Nat \ {0}, NEW be \in Nat,
         NEW s \in Nat, NEW a \in Nat \ {0}, r * al <= be * e, be * a <= s * al
  PROVE  r * a <= s * e
<1>1. (r * al) * a <= (be * e) * a
  <2>1. r * al \in Int /\ be * e \in Int
    BY ProductIsInt
  <2> QED BY <2>1, Monotone
<1>2. (be * a) * e <= (s * al) * e
  <2>1. be * a \in Int /\ s * al \in Int
    BY ProductIsInt
  <2> QED BY <2>1, Monotone
<1>3. (r * al) * a = (r * a) * al /\ (be * e) * a = (be * a) * e /\ (s * al) * e = (s * e) * al
  OBVIOUS
<1>4. r * a \in Int /\ s * e \in Int /\ (r * a) * al \in Int /\ (be * a) * e \in Int
      /\ (s * e) * al \in Int
  BY ProductIsInt
<1>5. (r * a) * al <= (s * e) * al
  BY <1>1, <1>2, <1>3, <1>4
<1> QED BY <1>4, <1>5, CancelAtMost

LEMMA BestExists ==
  ASSUME NEW h \in Seq(TradeType), MovesTokens(h)
  PROVE  \E al, be : IsBest(h, Len(h), al, be)
<1> DEFINE Bad == {n \in 0 .. Len(h) : ~ \E al, be : IsBest(h, n, al, be)}
<1>1. Len(h) \in Nat /\ DOMAIN h = 1 .. Len(h)
  OBVIOUS
<1>2. \A i \in 1 .. Len(h) : h[i].amount \in Nat \ {0} /\ Received(h[i]) \in Nat
  <2>1. ASSUME NEW i \in 1 .. Len(h) PROVE h[i].amount \in Nat \ {0} /\ Received(h[i]) \in Nat
    <3>1. h[i] \in TradeType /\ h[i].amount > 0
      BY <1>1 DEF MovesTokens
    <3> QED BY <3>1, AmountsAre
  <2> QED BY <2>1
<1>3. IsBest(h, 0, 1, 0)
  <2>1. 1 .. 0 = {}
    OBVIOUS
  <2> QED BY <2>1 DEF IsBest
<1>4. ASSUME Bad # {} PROVE FALSE
  <2>1. PICK n \in Bad : \A m \in Bad : n <= m
    <3>1. Bad \in SUBSET Nat
      BY <1>1
    <3> HIDE DEF Bad
    <3> QED BY <1>4, <3>1, LeastNumber
  <2>2. n \in 0 .. Len(h) /\ ~ \E al, be : IsBest(h, n, al, be)
    OBVIOUS
  <2>3. n \in 1 .. Len(h) /\ n - 1 \in 0 .. Len(h) /\ ~(n <= n - 1)
    BY <1>1, <1>3, <2>2
  <2>4. PICK al, be : IsBest(h, n - 1, al, be)
    BY <2>1, <2>3
  <2> DEFINE a == h[n].amount
             s == Received(h[n])
  <2>5. a \in Nat \ {0} /\ s \in Nat
    BY <1>2, <2>3
  <2>6. /\ al \in Nat \ {0} /\ be \in Nat
        /\ \A i \in 1 .. n - 1 : Received(h[i]) * al <= be * h[i].amount
        /\ n - 1 # 0 => \E i \in 1 .. n - 1 : al = h[i].amount /\ be = Received(h[i])
    BY <2>4 DEF IsBest
  <2>7. \A i \in 1 .. n : i = n \/ i \in 1 .. n - 1
    BY <2>3
  <2>8. n \in 1 .. n /\ n # 0 /\ \A i \in 1 .. n - 1 : i \in 1 .. n /\ i \in 1 .. Len(h)
    BY <1>1, <2>3
  <2>9. s * a <= s * a
    BY <2>5, ProductIsInt
  <2>10. CASE n - 1 = 0
    <3>1. \A i \in 1 .. n : i = n
      BY <2>3, <2>10
    <3>2. IsBest(h, n, a, s)
      BY <2>5, <2>8, <2>9, <3>1 DEF IsBest
    <3> QED BY <2>2, <3>2
  <2>11. CASE n - 1 # 0 /\ s * al <= be * a
    <3>1. IsBest(h, n, al, be)
      BY <2>6, <2>7, <2>8, <2>11 DEF IsBest
    <3> QED BY <2>2, <3>1
  <2>12. CASE n - 1 # 0 /\ ~ (s * al <= be * a)
    <3>1. be * a <= s * al
      <4>1. be * a \in Int /\ s * al \in Int
        BY <2>5, <2>6, ProductIsInt
      <4> QED BY <2>12, <4>1
    <3>2. ASSUME NEW i \in 1 .. n - 1 PROVE Received(h[i]) * a <= s * h[i].amount
      <4> DEFINE r == Received(h[i])
                 e == h[i].amount
      <4>1. r \in Nat /\ e \in Nat \ {0} /\ r * al <= be * e
        BY <1>2, <2>6, <2>8
      <4> HIDE DEF r, e, a, s
      <4>2. r * a <= s * e
        BY <2>5, <2>6, <3>1, <4>1, BetterOf
      <4> QED BY <4>2 DEF r, e
    <3>3. IsBest(h, n, a, s)
      <4>1. \A i \in 1 .. n : Received(h[i]) * a <= s * h[i].amount
        BY <2>7, <2>9, <3>2
      <4> QED BY <2>5, <2>8, <4>1 DEF IsBest
    <3> QED BY <2>2, <3>3
  <2> QED BY <2>10, <2>11, <2>12
<1>5. Len(h) \in 0 .. Len(h)
  BY <1>1
<1> QED BY <1>4, <1>5

(* What was spent, received and sold in the first n trades. *)
RunningSums(T, h) ==
  LET of(f(_)) == [i \in 1 .. Len(h) |-> f(h[i])]
  IN /\ Adds(T.spent, of(Spent), Len(h)) /\ Adds(T.received, of(Received), Len(h))
     /\ Adds(T.sold, of(Sold), Len(h))

Missed(P, h, n) == IF P[n].unmatched = 0 /\ \A i \in 1 .. n : Priced(h[i]) THEN 0 ELSE 1

(* The books after n trades. *)
InBooks(P, T, h, n, al, be) ==
  /\ Shape(P[n]) /\ P[n].quantity \in Nat /\ P[n].unmatched \in Nat
  /\ T.spent[n] \in Nat /\ T.received[n] \in Nat
  /\ T.sold[n] \in Int /\ T.sold[n] - P[n].unmatched \in Nat
  /\ Keeps(P[n], T.spent[n], T.received[n], T.sold[n] - P[n].unmatched, Missed(P, h, n), al, be)

LEMMA SumOfNats ==
  ASSUME NEW a \in Nat, NEW b \in Nat
  PROVE  a + b \in Nat
OBVIOUS

LEMMA InBooksOn ==
  ASSUME NEW h \in Seq(TradeType), MovesTokens(h), NEW P, Replays(P, h), NEW T, RunningSums(T, h),
         NEW al, NEW be, IsBest(h, Len(h), al, be),
         NEW n \in 1 .. Len(h), InBooks(P, T, h, n - 1, al, be)
  PROVE  InBooks(P, T, h, n, al, be)
<1> DEFINE p == P[n - 1]
           q == P[n]
           x == h[n]
           a == x.amount
           S == T.spent[n - 1]
           V == T.received[n - 1]
           U == T.sold[n - 1]
           M == U - p.unmatched
           missed == Missed(P, h, n - 1)
           more == Missed(P, h, n)
<1>1. n - 1 \in Nat /\ n \in DOMAIN h /\ Len(h) \in Nat /\ n \in Nat
  OBVIOUS
<1>2. x \in TradeType /\ a \in Nat \ {0} /\ x.amount > 0
  <2>1. x \in TradeType /\ a > 0
    BY <1>1 DEF MovesTokens
  <2> HIDE DEF x
  <2> QED BY <2>1, AmountsAre
<1>3. q = Trades(p, x)
  BY DEF Replays
<1>4. /\ Shape(p) /\ p.quantity \in Nat /\ p.unmatched \in Nat
      /\ S \in Nat /\ V \in Nat /\ U \in Int /\ M \in Nat
      /\ Keeps(p, S, V, M, missed, al, be)
  BY DEF InBooks
<1>5. /\ T.spent[n] = S + Spent(x) /\ T.received[n] = V + Received(x) /\ T.sold[n] = U + Sold(x)
  BY DEF RunningSums, Adds
<1>6. /\ al \in Nat \ {0} /\ be \in Nat /\ Received(x) * al <= be * x.amount
  BY DEF IsBest
<1>7. missed \in Nat /\ more \in Nat
  BY DEF Missed
<1>8. more = 0 => q.unmatched = 0 /\ Priced(x) /\ \A i \in 1 .. n - 1 : Priced(h[i])
  <2>1. n \in 1 .. n /\ \A i \in 1 .. n - 1 : i \in 1 .. n
    BY <1>1
  <2> QED BY <2>1 DEF Missed
<1>9. p.unmatched = 0 /\ (\A i \in 1 .. n - 1 : Priced(h[i])) => missed = 0
  BY DEF Missed
<1>10. /\ Spent(x) \in Nat /\ Received(x) \in Nat /\ Sold(x) \in Nat
       /\ IsBuy(x) => Received(x) = 0 /\ Sold(x) = 0
       /\ ~ IsBuy(x) => Spent(x) = 0 /\ Sold(x) = a
  BY <1>2, AmountsAre
<1>11. Priced(x) => Spent(x) + Received(x) > 0
  BY DEF Priced
<1> HIDE DEF p, q, x, S, V, U, missed, more, a
<1>12. CASE IsBuy(x)
  <2>1. Shape(q) /\ q.quantity = p.quantity + a /\ q.unmatched = p.unmatched
    BY <1>2, <1>3, <1>4, <1>12, StepQuantities DEF a
  <2>2. more = 0 => missed = 0 /\ Spent(x) > 0
    BY <1>8, <1>9, <1>10, <1>11, <1>12, <2>1
  <2>3. q = Buy(p, x)
    BY <1>3, <1>12 DEF Trades
  <2>4. Keeps(q, S + Spent(x), V, M, more, al, be)
    <3> HIDE DEF M
    <3> QED BY <1>2, <1>4, <1>6, <1>7, <1>12, <2>2, <2>3, BuyKeeps
  <2>5. /\ T.spent[n] = S + Spent(x) /\ T.received[n] = V /\ T.sold[n] = U
        /\ T.sold[n] - q.unmatched = M
    BY <1>4, <1>5, <1>10, <1>12, <2>1
  <2>6. q.quantity \in Nat /\ S + Spent(x) \in Nat
    <3>1. p.quantity \in Nat /\ a \in Nat /\ S \in Nat /\ Spent(x) \in Nat
      BY <1>2, <1>4, <1>10
    <3> QED BY <2>1, <3>1, SumOfNats
  <2> QED BY <1>4, <2>1, <2>4, <2>5, <2>6 DEF InBooks, q, more
<1>13. CASE ~ IsBuy(x)
  <2> DEFINE k == Match(p, x).quantity
  <2>1. k = IF p.quantity <= a THEN p.quantity ELSE a
    BY <1>2, <1>4, MatchedIs DEF a
  <2>2. Shape(q) /\ q.quantity = p.quantity - k /\ q.unmatched = p.unmatched + a - k
    BY <1>2, <1>3, <1>4, <1>13, <2>1, StepQuantities DEF a
  <2> HIDE DEF k
  <2>3. k \in Nat /\ k <= a /\ k <= p.quantity
    BY <1>2, <1>4, <2>1
  <2>4. more = 0 => missed = 0 /\ k = a /\ Received(x) > 0
    <3>1. more = 0 => p.unmatched = 0 /\ k = a
      BY <1>2, <1>4, <1>8, <2>2, <2>3
    <3> QED BY <1>8, <1>9, <1>10, <1>11, <1>13, <3>1
  <2>5. q = Sell(p, x)
    BY <1>3, <1>13 DEF Trades
  <2>6. Keeps(q, S, V + Received(x), M + k, more, al, be)
    <3>1. CASE p.quantity = 0
      <4>1. k = 0 /\ M + k = M
        BY <1>4, <2>3, <3>1
      <4>2. more \in Nat \ {0}
        BY <1>2, <1>7, <2>4, <4>1
      <4> HIDE DEF M
      <4>3. Keeps(Sell(p, x), S, V + Received(x), M, more, al, be)
        <5>1. Shape(p) /\ p.quantity = 0 /\ S \in Nat /\ V \in Nat /\ M \in Nat /\ missed \in Nat
          BY <1>4, <1>7, <3>1
        <5>2. al \in Nat \ {0} /\ be \in Nat /\ Keeps(p, S, V, M, missed, al, be)
          BY <1>4, <1>6
        <5> QED BY <1>2, <1>13, <4>2, <5>1, <5>2, SellNothingKeeps
      <4> QED BY <2>5, <4>1, <4>3
    <3>2. CASE p.quantity # 0
      <4>1. p.quantity \in Nat \ {0}
        BY <1>4, <3>2
      <4>2. more = 0 => missed = 0 /\ k = x.amount /\ Received(x) > 0
        BY <2>4 DEF a
      <4>3. k = Match(p, x).quantity
        BY DEF k
      <4> HIDE DEF M
      <4> QED BY <1>2, <1>4, <1>6, <1>7, <1>13, <2>5, <4>1, <4>2, <4>3, SellKeeps
    <3> QED BY <3>1, <3>2
  <2>7. T.spent[n] = S /\ T.received[n] = V + Received(x) /\ T.sold[n] = U + a
    BY <1>4, <1>5, <1>10, <1>13
  <2>8. /\ q.quantity \in Nat /\ q.unmatched \in Nat /\ V + Received(x) \in Nat /\ U + a \in Int
        /\ (U + a) - q.unmatched = M + k /\ M + k \in Nat
    <3> DEFINE held == p.quantity
               lost == p.unmatched
    <3>1. /\ held \in Nat /\ lost \in Nat /\ a \in Nat /\ V \in Nat /\ U \in Int /\ U - lost \in Nat
          /\ Received(x) \in Nat
      BY <1>2, <1>4, <1>10
    <3>2. q.quantity = held - k /\ q.unmatched = lost + a - k /\ k \in Nat /\ k <= a /\ k <= held
      BY <2>2, <2>3
    <3> HIDE DEF held, lost
    <3>3. held - k \in Nat /\ lost + a - k \in Nat
      BY <3>1, <3>2
    <3>4. V + Received(x) \in Nat /\ U + a \in Int
      BY <3>1
    <3>5. (U + a) - (lost + a - k) = (U - lost) + k /\ (U - lost) + k \in Nat
      BY <3>1, <3>2
    <3>6. M = U - lost
      BY DEF lost
    <3> QED BY <3>2, <3>3, <3>4, <3>5, <3>6
  <2> HIDE DEF M
  <2>9. T.sold[n] - q.unmatched = M + k
    BY <2>7, <2>8
  <2>10. Shape(q) /\ S \in Nat
    BY <1>4, <2>2
  <2> QED BY <2>6, <2>7, <2>8, <2>9, <2>10 DEF InBooks, q, more
<1> QED BY <1>12, <1>13

LEMMA AlwaysInBooks ==
  ASSUME NEW h \in Seq(TradeType), MovesTokens(h), NEW P, Replays(P, h), NEW T, RunningSums(T, h),
         NEW al, NEW be, IsBest(h, Len(h), al, be)
  PROVE  InBooks(P, T, h, Len(h), al, be)
<1> DEFINE Bad == {n \in 0 .. Len(h) : ~ InBooks(P, T, h, n, al, be)}
<1>1. Len(h) \in Nat
  OBVIOUS
<1>2. InBooks(P, T, h, 0, al, be)
  <2>1. P[0] = NoPosition /\ T.spent[0] = 0 /\ T.received[0] = 0 /\ T.sold[0] = 0
    BY DEF Replays, RunningSums, Adds
  <2>2. /\ Shape(NoPosition) /\ NoPosition.quantity = 0 /\ NoPosition.unmatched = 0
        /\ NoPosition.priced = Zero /\ NoPosition.cost = Zero
        /\ NoPosition.realized = Zero /\ NoPosition.basis = Zero
    BY DEF Shape, NoPosition
  <2>3. Is(Zero, 0, 1)
    BY WholeIs DEF Zero
  <2>4. BooksOf(NoPosition, 1, 0, 0, 0, 0)
    BY <2>2, <2>3 DEF BooksOf
  <2>5. Missed(P, h, 0) = 0
    <3>1. 1 .. 0 = {}
      OBVIOUS
    <3> QED BY <2>1, <2>2, <3>1 DEF Missed
  <2>6. InBalance(0, 1, 0, 0, 0, 0, 0, 0, 0, 0, al, be)
    <3>1. al \in Nat /\ be \in Nat
      BY DEF IsBest
    <3> QED BY <3>1 DEF InBalance
  <2>7. Keeps(NoPosition, 0, 0, 0, 0, al, be)
    BY <2>2, <2>4, <2>6 DEF Keeps
  <2>8. 0 - 0 = 0
    OBVIOUS
  <2> QED BY <2>1, <2>2, <2>5, <2>7, <2>8 DEF InBooks
<1>3. ASSUME Bad # {} PROVE FALSE
  <2>1. PICK n \in Bad : \A m \in Bad : n <= m
    <3>1. Bad \in SUBSET Nat
      BY <1>1
    <3> HIDE DEF Bad
    <3> QED BY <1>3, <3>1, LeastNumber
  <2>2. n \in 0 .. Len(h) /\ ~ InBooks(P, T, h, n, al, be)
    OBVIOUS
  <2>3. n \in 1 .. Len(h) /\ n - 1 \in 0 .. Len(h) /\ ~(n <= n - 1)
    BY <1>1, <1>2, <2>2
  <2>4. InBooks(P, T, h, n - 1, al, be)
    BY <2>1, <2>3
  <2> QED BY <2>2, <2>3, <2>4, InBooksOn
<1> QED BY <1>1, <1>3

(* A position whose books are kept, in the fractions that the calculator holds. *)
LEMMA KeptBooks ==
  ASSUME NEW p, p.quantity \in Nat, NEW S \in Nat, NEW V \in Nat, NEW M \in Nat,
         NEW missed, NEW al \in Nat \ {0}, NEW be \in Nat, Keeps(p, S, V, M, missed, al, be)
  PROVE  /\ AtMost(Zero, p.priced) /\ AtMost(p.priced, Whole(p.quantity))
         /\ AtMost(Zero, p.cost) /\ AtMost(Plus(p.cost, p.basis), Whole(S))
         /\ AtMost(Plus(p.realized, p.basis), Times(Share(Whole(be), Whole(al)), Whole(M)))
         /\ missed = 0 => Same(p.realized, Minus(Whole(V), Minus(Whole(S), p.cost)))
<1> DEFINE Q == p.quantity
<1>1. PICK D, A, C, G, B :
        BooksOf(p, D, A, C, G, B) /\ InBalance(Q, D, A, C, G, B, S, V, M, missed, al, be)
  BY DEF Keeps
<1>2. /\ D \in Nat \ {0} /\ A \in Int /\ C \in Int /\ G \in Int /\ B \in Int
      /\ Is(p.priced, A, D) /\ Is(p.cost, C, D) /\ Is(p.realized, G, D) /\ Is(p.basis, B, D)
  BY <1>1 DEF BooksOf
<1>3. /\ 0 <= A /\ A <= Q * D /\ 0 <= C /\ C + B <= S * D
      /\ (G + B) * al <= (be * M) * D
      /\ missed = 0 => G = (V - S) * D + C
  BY <1>1 DEF InBalance
<1>4. Q \in Nat
  OBVIOUS
<1> HIDE DEF Q
<1>5. Is(Zero, 0, D)
  <2>1. Is(Zero, 0, 1)
    BY WholeIs DEF Zero
  <2>2. 0 * D = 0 * 1
    BY <1>2
  <2> QED BY <1>2, <2>1, <2>2, Reexpressed
<1>6. /\ Is(Whole(Q), Q * D, D) /\ Is(Whole(S), S * D, D) /\ Is(Whole(V), V * D, D)
      /\ Q * D \in Int /\ S * D \in Int /\ V * D \in Int
  BY <1>2, <1>4, WholeOver, ProductIsInt
<1>7. AtMost(Zero, p.priced) /\ AtMost(p.priced, Whole(Q)) /\ AtMost(Zero, p.cost)
  BY <1>2, <1>3, <1>5, <1>6, AtMostIs
<1>8. AtMost(Plus(p.cost, p.basis), Whole(S))
  <2>1. Is(Plus(p.cost, p.basis), C + B, D) /\ C + B \in Int
    <3>1. /\ D \in Nat \ {0} /\ C \in Int /\ B \in Int
          /\ Is(p.cost, C, D) /\ Is(p.basis, B, D)
      BY <1>2
    <3>2. Is(Plus(p.cost, p.basis), C + B, D)
      BY <3>1, PlusIs
    <3> QED BY <3>1, <3>2
  <2> QED BY <1>2, <1>3, <1>6, <2>1, AtMostIs
<1>9. AtMost(Plus(p.realized, p.basis), Times(Share(Whole(be), Whole(al)), Whole(M)))
  <2>1. Is(Whole(be), be, 1) /\ Is(Whole(al), al, 1) /\ Is(Whole(M), M, 1)
    BY WholeIs
  <2>2. Share(Whole(be), Whole(al)) = Over(Whole(be), Whole(al))
    BY <2>1, PositiveIs DEF Share
  <2>3. Is(Over(Whole(be), Whole(al)), be * 1, 1 * al)
    BY <2>1, OverIs
  <2>4. be * 1 = be /\ 1 * al = al /\ al * 1 = al
    OBVIOUS
  <2>5. Is(Share(Whole(be), Whole(al)), be, al)
    BY <2>2, <2>3, <2>4
  <2>6. Is(Times(Share(Whole(be), Whole(al)), Whole(M)), be * M, al * 1)
    BY <2>1, <2>5, TimesIs
  <2>7. Is(Times(Share(Whole(be), Whole(al)), Whole(M)), be * M, al) /\ be * M \in Int
    BY <2>4, <2>6, ProductIsInt
  <2>8. Is(Times(Share(Whole(be), Whole(al)), Whole(M)), (be * M) * D, al * D)
    BY <1>2, <2>7, Rescaled
  <2>9. Is(Plus(p.realized, p.basis), G + B, D) /\ G + B \in Int
    <3>1. /\ D \in Nat \ {0} /\ G \in Int /\ B \in Int
          /\ Is(p.realized, G, D) /\ Is(p.basis, B, D)
      BY <1>2
    <3>2. Is(Plus(p.realized, p.basis), G + B, D)
      BY <3>1, PlusIs
    <3> QED BY <3>1, <3>2
  <2>10. Is(Plus(p.realized, p.basis), (G + B) * al, D * al)
    BY <1>2, <2>9, Rescaled
  <2>11. D * al = al * D /\ al * D \in Nat \ {0} /\ (G + B) * al \in Int /\ (be * M) * D \in Int
    BY <1>2, <2>7, <2>9, ProductIsPositive, ProductIsInt
  <2> QED BY <1>3, <2>8, <2>10, <2>11, AtMostIs
<1>10. ASSUME missed = 0
       PROVE  Same(p.realized, Minus(Whole(V), Minus(Whole(S), p.cost)))
  <2>1. Is(Minus(Whole(S), p.cost), S * D - C, D) /\ S * D - C \in Int
    BY <1>2, <1>6, MinusIs
  <2>2. Is(Minus(Whole(V), Minus(Whole(S), p.cost)), V * D - (S * D - C), D)
    BY <1>2, <1>6, <2>1, MinusIs
  <2>3. G = V * D - (S * D - C)
    <3>1. (V - S) * D = V * D - S * D
      BY <1>2
    <3>2. G = (V - S) * D + C
      BY <1>3, <1>10
    <3> QED BY <1>2, <1>6, <3>1, <3>2
  <2>4. Is(Minus(Whole(V), Minus(Whole(S), p.cost)), G, D) /\ G <= G
    BY <1>2, <2>2, <2>3
  <2> QED BY <1>2, <2>4, AtMostIs DEF Same
<1> QED BY <1>7, <1>8, <1>9, <1>10 DEF Q

OfOneToken(h) == \A i \in DOMAIN h : h[i].token = 1

(* PositionsKeepBooks holds of every history of one wallet and one token: however many
   trades there are, in whatever order they were stored and at whatever prices, known
   or not (PositionCalculator.calculate). *)
THEOREM BooksOfAnyHistory ==
  ASSUME history \in Seq(TradeType), MovesTokens(history), OfOneToken(history)
  PROVE  PositionsKeepBooks
<1> DEFINE h == history
           g == Ordered(h)
           p == Position(h, 1)
           n == Len(h)
           at == Listed(DOMAIN h, Earlier(h))
<1>1. n \in Nat /\ DOMAIN h = 1 .. n /\ h \in Seq(TradeType)
  OBVIOUS
<1>2. /\ g \in Seq(TradeType) /\ Len(g) = n
      /\ \A k \in DOMAIN g : at[k] \in DOMAIN h /\ g[k] = h[at[k]]
  BY OrderedIs
<1>3. DOMAIN g = 1 .. n
  BY <1>2
<1>4. OfToken(g, 1) = g
  <2> DEFINE S == DOMAIN h
  <2>1. S \cap TradesOf(h, 1) = S
    BY DEF TradesOf, OfOneToken
  <2>2. g = Rows(h, S, Earlier(h)) /\ S \in SUBSET (DOMAIN h)
    BY DEF Ordered
  <2> HIDE DEF S, g, h
  <2>3. OfToken(Rows(h, S, Earlier(h)), 1) = Rows(h, S \cap TradesOf(h, 1), Earlier(h))
    BY <1>1, <2>2, OfTokenInOrder
  <2> QED BY <2>1, <2>2, <2>3
<1>5. p = Replay(g)
  BY <1>4 DEF Position
<1>6. MovesTokens(g)
  BY <1>2 DEF MovesTokens
<1>7. /\ Total(g, Signed) = Total(h, Signed) /\ Total(g, Spent) = Total(h, Spent)
      /\ Total(g, Received) = Total(h, Received) /\ Total(g, Sold) = Total(h, Sold)
  BY <1>1, TotalsOfOrdered
<1> HIDE DEF g, h, p, at, n
<1>8. p.quantity = Total(h, Signed) + p.unmatched
  <2>1. PICK F : /\ Total(g, Signed) = F[Len(g)]
                 /\ Replay(g).quantity = F[Len(g)] + Replay(g).unmatched
    BY <1>2, ExactHoldings
  <2> QED BY <1>5, <1>7, <2>1
<1> DEFINE e(f(_)) == [i \in 1 .. n |-> f(g[i])]
<1>9. /\ Total(g, Spent) = SumFunction(e(Spent)) /\ Total(g, Received) = SumFunction(e(Received))
      /\ Total(g, Sold) = SumFunction(e(Sold))
  BY <1>3 DEF Total
<1>10. e(Spent) \in [1 .. n -> Int] /\ e(Received) \in [1 .. n -> Int] /\ e(Sold) \in [1 .. n -> Int]
  <2>1. ASSUME NEW i \in 1 .. n
        PROVE  Spent(g[i]) \in Int /\ Received(g[i]) \in Int /\ Sold(g[i]) \in Int
    <3>1. g[i] \in TradeType
      BY <1>2, <1>3
    <3> QED BY <3>1, AmountsAre
  <2> QED BY <2>1
<1>11. PICK T : /\ RunningSums(T, g)
                /\ T.spent[n] = Total(h, Spent) /\ T.received[n] = Total(h, Received)
                /\ T.sold[n] = Total(h, Sold)
  <2> DEFINE e1 == e(Spent)
             e2 == e(Received)
             e3 == e(Sold)
  <2>1. e1 \in [1 .. n -> Int] /\ e2 \in [1 .. n -> Int] /\ e3 \in [1 .. n -> Int]
    BY <1>10
  <2>2. /\ SumFunction(e1) = Total(h, Spent) /\ SumFunction(e2) = Total(h, Received)
        /\ SumFunction(e3) = Total(h, Sold)
    BY <1>7, <1>9
  <2>3. \A U : RunningSums(U, g) <=>
                 Adds(U.spent, e1, n) /\ Adds(U.received, e2, n) /\ Adds(U.sold, e3, n)
    BY <1>2 DEF RunningSums
  <2> HIDE DEF e1, e2, e3
  <2>4. PICK F1 : Adds(F1, e1, n) /\ SumFunction(e1) = F1[n]
    BY <1>1, <2>1, SumAdds
  <2>5. PICK F2 : Adds(F2, e2, n) /\ SumFunction(e2) = F2[n]
    BY <1>1, <2>1, SumAdds
  <2>6. PICK F3 : Adds(F3, e3, n) /\ SumFunction(e3) = F3[n]
    BY <1>1, <2>1, SumAdds
  <2> WITNESS [spent |-> F1, received |-> F2, sold |-> F3]
  <2> QED BY <2>2, <2>3, <2>4, <2>5, <2>6
<1>12. PICK P : Replays(P, g) /\ p = P[n]
  BY <1>2, <1>5, ReplayRuns
<1>13. PICK al, be : IsBest(g, n, al, be)
  BY <1>2, <1>6, BestExists
<1>14. InBooks(P, T, g, n, al, be)
  BY <1>2, <1>6, <1>11, <1>12, <1>13, AlwaysInBooks
<1> DEFINE S == Total(h, Spent)
           V == Total(h, Received)
           M == Total(h, Sold) - p.unmatched
           missed == Missed(P, g, n)
<1>15. /\ p.quantity \in Nat /\ S \in Nat /\ V \in Nat /\ M \in Nat
       /\ Keeps(p, S, V, M, missed, al, be)
  BY <1>11, <1>12, <1>14 DEF InBooks
<1>16. al \in Nat \ {0} /\ be \in Nat
  BY <1>13 DEF IsBest
<1> HIDE DEF S, V, M, missed
<1>17. /\ AtMost(Zero, p.priced) /\ AtMost(p.priced, Whole(p.quantity))
       /\ AtMost(Zero, p.cost) /\ AtMost(Plus(p.cost, p.basis), Whole(S))
       /\ AtMost(Plus(p.realized, p.basis), Times(Share(Whole(be), Whole(al)), Whole(M)))
       /\ missed = 0 => Same(p.realized, Minus(Whole(V), Minus(Whole(S), p.cost)))
  BY <1>15, <1>16, KeptBooks
<1>18. ASSUME h # <<>>
       PROVE  \E i \in DOMAIN h :
                Share(Whole(be), Whole(al)) = Share(Whole(Received(h[i])), Whole(h[i].amount))
  <2>1. n # 0
    BY <1>1, <1>18 DEF n
  <2>2. PICK k \in 1 .. n : al = g[k].amount /\ be = Received(g[k])
    BY <1>13, <2>1 DEF IsBest
  <2>3. at[k] \in DOMAIN h /\ g[k] = h[at[k]]
    BY <1>2, <1>3
  <2> QED BY <2>2, <2>3
<1>19. ASSUME p.unmatched = 0, \A i \in DOMAIN h : Priced(h[i])
       PROVE  missed = 0
  <2>1. \A k \in 1 .. n : Priced(g[k])
    BY <1>2, <1>3, <1>19
  <2> QED BY <1>12, <1>19, <2>1 DEF missed, Missed
<1> QED BY <1>8, <1>17, <1>18, <1>19 DEF PositionsKeepBooks, S, V, M, p, h

-----------------------------------------------------------------------------
(* Fractions within bounds *)

(* Fractions that are not compared to a number each, but bounded. *)
IsFraction(a) == a[1] \in Int /\ a[2] \in Nat \ {0}

(* a is from 0 to u / E. *)
UpTo(a, u, E) == IsFraction(a) /\ 0 <= a[1] /\ a[1] * E <= u * a[2]

(* A fraction stands for its own terms. *)
LEMMA OwnTerms ==
  ASSUME NEW a, IsFraction(a)
  PROVE  a[1] \in Int /\ a[2] \in Nat \ {0} /\ Is(a, a[1], a[2])
BY DEF IsFraction, Is

(* What stands for a fraction is one. *)
LEMMA StandsForFraction ==
  ASSUME NEW a, NEW A, NEW D, Is(a, A, D)
  PROVE  IsFraction(a)
BY DEF IsFraction, Is

(* Two fractions have a common denominator. *)
LEMMA CommonTerms ==
  ASSUME NEW a, NEW b, IsFraction(a), IsFraction(b)
  PROVE  \E A, B \in Int, D \in Nat \ {0} : Is(a, A, D) /\ Is(b, B, D)
<1> DEFINE x == a[1]
           y == a[2]
           v == b[1]
           w == b[2]
<1>1. /\ x \in Int /\ y \in Nat \ {0} /\ Is(a, x, y)
      /\ v \in Int /\ w \in Nat \ {0} /\ Is(b, v, w)
  BY OwnTerms
<1> HIDE DEF x, y, v, w
<1>2. Is(a, x * w, y * w) /\ Is(b, v * y, w * y)
  <2>1. w \in Int /\ y \in Int
    BY <1>1
  <2> QED BY <1>1, <2>1, Rescaled
<1>3. w * y = y * w /\ y * w \in Nat \ {0} /\ x * w \in Int /\ v * y \in Int
  BY <1>1, ProductIsPositive, ProductIsInt
<1> QED BY <1>2, <1>3

(* The results of the operations are fractions. *)
LEMMA FracIsFraction ==
  ASSUME NEW n \in Int, NEW d \in Nat \ {0}
  PROVE  IsFraction(Frac(n, d))
BY FracIs, StandsForFraction

(* Whole numbers. *)
LEMMA WholeIsFraction ==
  ASSUME NEW n \in Int
  PROVE  IsFraction(Whole(n)) /\ IsFraction(Zero) /\ IsFraction(One)
BY DEF IsFraction, Whole, Zero, One

(* Sums and differences. *)
LEMMA PlusIsFraction ==
  ASSUME NEW a, NEW b, IsFraction(a), IsFraction(b)
  PROVE  IsFraction(Plus(a, b)) /\ IsFraction(Minus(a, b))
<1>1. PICK A \in Int, B \in Int, D \in Nat \ {0} : Is(a, A, D) /\ Is(b, B, D)
  BY CommonTerms
<1> QED BY <1>1, PlusIs, MinusIs, StandsForFraction

(* Products and shares. *)
LEMMA TimesIsFraction ==
  ASSUME NEW a, NEW b, IsFraction(a), IsFraction(b)
  PROVE  IsFraction(Times(a, b)) /\ IsFraction(Share(a, b))
<1>1. PICK A \in Int, B \in Int, D \in Nat \ {0} : Is(a, A, D) /\ Is(b, B, D)
  BY CommonTerms
<1>2. IsFraction(Times(a, b))
  BY <1>1, TimesIs, StandsForFraction
<1>3. IsFraction(Share(a, b))
  <2>1. CASE ~ Positive(b)
    <3>1. IsFraction(Zero)
      BY WholeIsFraction
    <3> QED BY <2>1, <3>1 DEF Share
  <2>2. CASE Positive(b)
    <3>1. B \in Nat \ {0}
      BY <1>1, <2>2, PositiveIs
    <3>2. IsFraction(Over(a, b))
      BY <1>1, <3>1, OverIs, StandsForFraction
    <3> QED BY <2>2, <3>2 DEF Share
  <2> QED BY <2>1, <2>2
<1> QED BY <1>2, <1>3

(* The sign and the bounds of a fraction do not depend on the terms it is given in. *)
LEMMA SignIs ==
  ASSUME NEW a, NEW A \in Int, NEW D \in Nat \ {0}, Is(a, A, D)
  PROVE  0 <= a[1] <=> 0 <= A
<1> DEFINE x == a[1]
           y == a[2]
<1>1. x \in Int /\ y \in Nat \ {0} /\ x * D = A * y
  BY DEF Is
<1> HIDE DEF x, y
<1>2. 0 <= x <=> 0 * D <= x * D
  BY <1>1, CancelAtMost
<1>3. 0 <= A <=> 0 * y <= A * y
  BY <1>1, CancelAtMost
<1>4. 0 * D = 0 /\ 0 * y = 0
  BY <1>1
<1>5. 0 <= x <=> 0 <= A
  BY <1>1, <1>2, <1>3, <1>4
<1> QED BY <1>5 DEF x

-----------------------------------------------------------------------------
(* So are its bounds. *)
LEMMA UpToIs ==
  ASSUME NEW a, NEW A \in Int, NEW D \in Nat \ {0}, Is(a, A, D), NEW u \in Int, NEW E \in Nat \ {0}
  PROVE  UpTo(a, u, E) <=> 0 <= A /\ A * E <= u * D
<1> DEFINE x == a[1]
           y == a[2]
<1>1. x \in Int /\ y \in Nat \ {0} /\ x * D = A * y
  BY DEF Is
<1>2. UpTo(a, u, E) <=> 0 <= x /\ x * E <= u * y
  BY <1>1 DEF UpTo, IsFraction
<1> HIDE DEF x, y
<1>3. 0 <= x <=> 0 <= A
  <2>1. 0 <= x <=> 0 * D <= x * D
    BY <1>1, CancelAtMost
  <2>2. 0 <= A <=> 0 * y <= A * y
    BY <1>1, CancelAtMost
  <2>3. 0 * D = 0 /\ 0 * y = 0
    BY <1>1
  <2> QED BY <1>1, <2>1, <2>2, <2>3
<1>4. x * E <= u * y <=> (x * E) * D <= (u * y) * D
  BY <1>1, ProductIsInt, CancelAtMost
<1>5. A * E <= u * D <=> (A * E) * y <= (u * D) * y
  BY <1>1, ProductIsInt, CancelAtMost
<1>6. (x * E) * D = (A * E) * y /\ (u * y) * D = (u * D) * y
  <2>1. (x * E) * D = (x * D) * E /\ (A * y) * E = (A * E) * y
    BY <1>1
  <2>2. (u * y) * D = (u * D) * y
    BY <1>1
  <2> QED BY <1>1, <2>1, <2>2
<1> QED BY <1>2, <1>3, <1>4, <1>5, <1>6

(* Bounds add up. *)
LEMMA PlusUpTo ==
  ASSUME NEW a, NEW b, NEW u \in Int, NEW v \in Int, NEW E \in Nat \ {0}, UpTo(a, u, E), UpTo(b, v, E)
  PROVE  UpTo(Plus(a, b), u + v, E)
<1>1. IsFraction(a) /\ IsFraction(b)
  BY DEF UpTo
<1>2. PICK A \in Int, B \in Int, D \in Nat \ {0} : Is(a, A, D) /\ Is(b, B, D)
  BY <1>1, CommonTerms
<1>3. 0 <= A /\ A * E <= u * D /\ 0 <= B /\ B * E <= v * D
  BY <1>2, UpToIs
<1>4. Is(Plus(a, b), A + B, D)
  BY <1>2, PlusIs
<1>5. 0 <= A + B /\ (A + B) * E <= (u + v) * D
  <2>1. (A + B) * E = A * E + B * E /\ (u + v) * D = u * D + v * D
    BY <1>2
  <2>2. A * E \in Int /\ B * E \in Int /\ u * D \in Int /\ v * D \in Int
    BY <1>2
  <2> QED BY <1>2, <1>3, <2>1, <2>2
<1>6. A + B \in Int /\ u + v \in Int
  BY <1>2
<1> QED BY <1>2, <1>4, <1>5, <1>6, UpToIs

(* Once x is clamped, it is at most u / E: because all clamped fractions are, or x is. *)
Caps(x, u, E) == u \in Nat /\ (u = E \/ x[1] * E <= u * x[2])

(* What is clamped to 0 to 1 is within the bound, too. *)
LEMMA ClampedUpTo ==
  ASSUME NEW x, IsFraction(x), NEW u \in Nat, NEW E \in Nat \ {0}, Caps(x, u, E)
  PROVE  UpTo(Between0And1(x), u, E)
<1> DEFINE n == x[1]
           d == x[2]
<1>1. n \in Int /\ d \in Nat \ {0} /\ Is(x, n, d)
  BY OwnTerms
<1>2. u = E \/ n * E <= u * d
  BY DEF Caps
<1>3. /\ AtMost(x, One) <=> n <= d
      /\ AtMost(Zero, x) <=> 0 <= n
      /\ AtMost(Zero, One)
  BY <1>1 DEF AtMost, One, Zero, Whole
<1>4. UpTo(x, u, E) <=> 0 <= n /\ n * E <= u * d
  BY <1>1, UpToIs
<1> HIDE DEF n, d
<1>5. UpTo(Zero, u, E)
  <2>1. Is(Zero, 0, 1)
    BY WholeIs DEF Zero
  <2>2. 0 * E <= u * 1
    OBVIOUS
  <2> QED BY <2>1, <2>2, UpToIs
<1>6. CASE n <= d
  <2>1. Between0And1(x) = IF 0 <= n THEN x ELSE Zero
    BY <1>3, <1>6 DEF Between0And1, Least, Most
  <2>2. n * E <= u * d
    <3>1. CASE u = E
      <4>1. n * E <= d * E
        BY <1>1, <1>6, Monotone
      <4>2. d * E = E * d
        BY <1>1
      <4> QED BY <3>1, <4>1, <4>2
    <3> QED BY <1>2, <3>1
  <2> QED BY <1>4, <1>5, <2>1, <2>2
<1>7. CASE ~ (n <= d)
  <2>1. Between0And1(x) = One
    BY <1>3, <1>7 DEF Between0And1, Least, Most
  <2>2. E <= u
    <3>1. CASE u = E
      BY <3>1
    <3>2. CASE n * E <= u * d
      <4>1. d * E <= n * E
        BY <1>1, <1>7, Monotone
      <4>2. E * d = d * E /\ E * d \in Int /\ n * E \in Int /\ u * d \in Int
        BY <1>1
      <4>3. E * d <= u * d
        BY <3>2, <4>1, <4>2
      <4> QED BY <1>1, <4>3, CancelAtMost
    <3> QED BY <1>2, <3>1, <3>2
  <2>3. Is(One, 1, 1)
    BY WholeIs DEF One
  <2>4. 1 * E <= u * 1
    BY <2>2
  <2> QED BY <2>1, <2>3, <2>4, UpToIs
<1> QED BY <1>6, <1>7

(* The points of a part are bounded as the part is. *)
LEMMA PointsUpTo ==
  ASSUME NEW k \in Nat, NEW x, IsFraction(x), NEW u, NEW E \in Nat \ {0}, Caps(x, u, E)
  PROVE  UpTo(Points(k, x), k * u, E)
<1> DEFINE c == Between0And1(x)
<1>1. u \in Nat
  BY DEF Caps
<1>2. UpTo(c, u, E)
  BY <1>1, ClampedUpTo
<1>3. Points(k, x) = Times(Whole(k), c)
  BY DEF Points
<1> HIDE DEF c
<1> DEFINE n == c[1]
           d == c[2]
<1>4. n \in Int /\ d \in Nat \ {0} /\ Is(c, n, d) /\ 0 <= n /\ n * E <= u * d
  BY <1>2, OwnTerms DEF UpTo
<1> HIDE DEF n, d
<1>5. Is(Whole(k), k, 1)
  BY WholeIs
<1>6. Is(Times(Whole(k), c), k * n, 1 * d)
  BY <1>4, <1>5, TimesIs
<1>7. 1 * d = d /\ k * n \in Int /\ k * u \in Int /\ 0 <= k * n
  BY <1>1, <1>4
<1>8. (k * n) * E <= (k * u) * d
  <2>1. (n * E) * k <= (u * d) * k
    <3>1. n * E \in Int /\ u * d \in Int
      BY <1>1, <1>4
    <3> QED BY <1>4, <3>1, Monotone
  <2>2. (n * E) * k = (k * n) * E /\ (u * d) * k = (k * u) * d
    BY <1>1, <1>4
  <2> QED BY <2>1, <2>2
<1>9. Is(Times(Whole(k), c), k * n, d)
  BY <1>6, <1>7
<1> QED BY <1>3, <1>4, <1>7, <1>8, <1>9, UpToIs

(* f adds fractions, each bounded by a number of U over E. *)
Bounded(f, U, S, E) == \A x \in S : U[x] \in Int /\ UpTo(f[x], U[x], E)

(* Nothing is within every bound. *)
LEMMA ZeroUpTo ==
  ASSUME NEW E \in Nat \ {0}, NEW u \in Nat
  PROVE  UpTo(Zero, u, E)
<1>1. Is(Zero, 0, 1)
  BY WholeIs DEF Zero
<1>2. 0 * E <= u * 1
  OBVIOUS
<1> QED BY <1>1, <1>2, UpToIs

(* Part by part, a sum stays within the sum of the bounds. *)
LEMMA AddedUpTo ==
  ASSUME NEW S, IsFiniteSet(S), NEW f, NEW U, NEW E \in Nat \ {0}, Bounded(f, U, S, E),
         NEW it, AddsUp(it, f, S), NEW jt, SumsUp(jt, U, S)
  PROVE  UpTo(it[S], jt[S], E)
<1> DEFINE Good(s) == jt[s] \in Int /\ UpTo(it[s], jt[s], E)
           Bad == {s \in SUBSET S : ~ Good(s)}
<1>1. \A s \in SUBSET S : it[s] = IF s = {} THEN Zero ELSE Plus(f[Chosen(s)], it[s \ {Chosen(s)}])
  BY DEF AddsUp
<1>2. \A s \in SUBSET S : jt[s] = IF s = {} THEN 0 ELSE U[Chosen(s)] + jt[s \ {Chosen(s)}]
  BY DEF SumsUp
<1>3. ASSUME Bad # {} PROVE FALSE
  <2>1. PICK s \in Bad : \A y \in Bad : ~ (y \subseteq s /\ y # s)
    <3>1. Bad \in SUBSET SUBSET S
      OBVIOUS
    <3> HIDE DEF Bad
    <3> QED BY <1>3, <3>1, SubsetInduction
  <2>2. s \in SUBSET S /\ ~ Good(s)
    OBVIOUS
  <2>3. s # {}
    <3>1. it[{}] = Zero /\ jt[{}] = 0
      BY <1>1, <1>2
    <3>2. UpTo(Zero, 0, E)
      BY ZeroUpTo
    <3>3. Good({})
      BY <3>1, <3>2
    <3> HIDE DEF Good
    <3> QED BY <2>2, <3>3
  <2> DEFINE c == Chosen(s)
             r == s \ {c}
  <2>4. c \in s /\ it[s] = Plus(f[c], it[r]) /\ jt[s] = U[c] + jt[r]
    BY <1>1, <1>2, <2>2, <2>3 DEF Chosen
  <2> HIDE DEF c
  <2>5. Good(r)
    <3>1. r \in SUBSET S /\ r \subseteq s /\ r # s
      BY <2>2, <2>4
    <3> HIDE DEF Good
    <3> QED BY <2>1, <3>1
  <2>6. U[c] \in Int /\ UpTo(f[c], U[c], E)
    BY <2>2, <2>4 DEF Bounded
  <2> DEFINE m == it[r]
             n == jt[r]
  <2>7. n \in Int /\ UpTo(m, n, E) /\ it[s] = Plus(f[c], m) /\ jt[s] = U[c] + n
    BY <2>4, <2>5
  <2> HIDE DEF m, n
  <2>8. UpTo(Plus(f[c], m), U[c] + n, E)
    BY <2>6, <2>7, PlusUpTo
  <2>9. Good(s)
    BY <2>6, <2>7, <2>8
  <2> QED BY <2>2, <2>9
<1> HIDE DEF Good
<1>4. Good(S)
  BY <1>3
<1> QED BY <1>4 DEF Good

(* The bounds of a sum add up, too. *)
LEMMA SumUpTo ==
  ASSUME NEW N \in Nat, NEW S \in SUBSET (0 .. N), NEW f, DOMAIN f = S, NEW U, DOMAIN U = S,
         NEW E \in Nat \ {0}, Bounded(f, U, S, E)
  PROVE  UpTo(Sum(f), SumFunction(U), E)
<1> DEFINE it == CHOOSE j : AddsUp(j, f, S)
           jt == CHOOSE j : SumsUp(j, U, S)
<1>1. AddsUp(it, f, S)
  <2>1. \E j : AddsUp(j, f, S)
    BY FractionSumsExist
  <2> QED BY <2>1
<1>2. SumsUp(jt, U, S)
  <2>1. \E j : SumsUp(j, U, S)
    BY SumsExist
  <2> QED BY <2>1
<1>3. Sum(f) = it[S] /\ SumFunction(U) = jt[S]
  BY FractionSumIsChosen, SumIsChosen
<1>4. IsFiniteSet(S)
  <2>1. IsFiniteSet(0 .. N)
    BY FS_Interval
  <2> QED BY <2>1, FS_Subset
<1> HIDE DEF it, jt
<1>5. UpTo(it[S], jt[S], E)
  BY <1>1, <1>2, <1>4, AddedUpTo
<1> QED BY <1>3, <1>5

(* Of fractions of any sign. *)
AllFractions(f, S) == \A x \in S : IsFraction(f[x])
NoneNegative(f, S) == \A x \in S : IsFraction(f[x]) /\ 0 <= f[x][1]

(* A sum of fractions is one; when none of them is negative, neither is the sum, and
   one that is positive makes it so. *)
LEMMA AddedSigns ==
  ASSUME NEW S, IsFiniteSet(S), NEW f, AllFractions(f, S), NEW it, AddsUp(it, f, S)
  PROVE  /\ IsFraction(it[S])
         /\ NoneNegative(f, S) => /\ 0 <= it[S][1]
                                  /\ (\E x \in S : Positive(f[x])) => Positive(it[S])
<1> DEFINE Good(s) == /\ IsFraction(it[s])
                      /\ NoneNegative(f, S) => /\ 0 <= it[s][1]
                                               /\ (\E x \in s : Positive(f[x])) => Positive(it[s])
           Bad == {s \in SUBSET S : ~ Good(s)}
<1>1. \A s \in SUBSET S : it[s] = IF s = {} THEN Zero ELSE Plus(f[Chosen(s)], it[s \ {Chosen(s)}])
  BY DEF AddsUp
<1>2. ASSUME Bad # {} PROVE FALSE
  <2>1. PICK s \in Bad : \A y \in Bad : ~ (y \subseteq s /\ y # s)
    <3>1. Bad \in SUBSET SUBSET S
      OBVIOUS
    <3> HIDE DEF Bad
    <3> QED BY <1>2, <3>1, SubsetInduction
  <2>2. s \in SUBSET S /\ ~ Good(s)
    OBVIOUS
  <2>3. s # {}
    <3>1. it[{}] = Zero
      BY <1>1
    <3>2. Good({})
      BY <3>1 DEF IsFraction, Zero, Whole
    <3> HIDE DEF Good
    <3> QED BY <2>2, <3>2
  <2> DEFINE c == Chosen(s)
             r == s \ {c}
             m == it[r]
             a == f[c]
  <2>4. c \in s /\ it[s] = Plus(a, m)
    BY <1>1, <2>2, <2>3 DEF Chosen
  <2> HIDE DEF c
  <2>5. Good(r)
    <3>1. r \in SUBSET S /\ r \subseteq s /\ r # s
      BY <2>2, <2>4
    <3> HIDE DEF Good
    <3> QED BY <2>1, <3>1
  <2>6. IsFraction(a) /\ IsFraction(m) /\ c \in S
    BY <2>2, <2>4, <2>5 DEF AllFractions
  <2>7. /\ NoneNegative(f, S) => 0 <= a[1] /\ 0 <= m[1]
        /\ NoneNegative(f, S) /\ (\E x \in s : Positive(f[x])) => Positive(a) \/ Positive(m)
    <3>1. \A x \in s : x = c \/ x \in r
      OBVIOUS
    <3>2. NoneNegative(f, S) => 0 <= a[1]
      BY <2>6 DEF NoneNegative
    <3>3. NoneNegative(f, S) => /\ 0 <= m[1]
                                /\ (\E x \in r : Positive(f[x])) => Positive(m)
      BY <2>5
    <3> HIDE DEF m, r
    <3> QED BY <3>1, <3>2, <3>3
  <2> HIDE DEF m, a
  <2>8. PICK A \in Int, B \in Int, D \in Nat \ {0} : Is(a, A, D) /\ Is(m, B, D)
    BY <2>6, CommonTerms
  <2> DEFINE z == Plus(a, m)
  <2>9. Is(z, A + B, D) /\ A + B \in Int
    BY <2>8, PlusIs
  <2>10. (Positive(a) <=> A > 0) /\ (Positive(m) <=> B > 0) /\ (Positive(z) <=> A + B > 0)
    BY <2>8, <2>9, PositiveIs
  <2>11. (0 <= a[1] <=> 0 <= A) /\ (0 <= m[1] <=> 0 <= B) /\ (0 <= z[1] <=> 0 <= A + B)
    BY <2>8, <2>9, SignIs
  <2>12. IsFraction(z)
    BY <2>6, PlusIsFraction
  <2> HIDE DEF z
  <2>13. Good(s)
    <3>1. it[s] = z
      BY <2>4 DEF z
    <3>2. CASE NoneNegative(f, S)
      <4>1. 0 <= A /\ 0 <= B
        BY <2>7, <2>11, <3>2
      <4>2. 0 <= A + B /\ (A > 0 \/ B > 0 => A + B > 0)
        BY <2>8, <4>1
      <4> QED BY <2>7, <2>10, <2>11, <2>12, <3>1, <3>2, <4>2
    <3>3. CASE ~ NoneNegative(f, S)
      BY <2>12, <3>1, <3>3
    <3> QED BY <3>2, <3>3
  <2> QED BY <2>2, <2>13
<1> HIDE DEF Good
<1>3. Good(S)
  BY <1>2
<1> QED BY <1>3 DEF Good

(* So it is with what a score adds. *)
LEMMA SumSigns ==
  ASSUME NEW N \in Nat, NEW S \in SUBSET (0 .. N), NEW f, DOMAIN f = S, AllFractions(f, S)
  PROVE  /\ IsFraction(Sum(f))
         /\ NoneNegative(f, S) => /\ 0 <= Sum(f)[1]
                                  /\ (\E x \in S : Positive(f[x])) => Positive(Sum(f))
<1> DEFINE it == CHOOSE j : AddsUp(j, f, S)
<1>1. AddsUp(it, f, S)
  <2>1. \E j : AddsUp(j, f, S)
    BY FractionSumsExist
  <2> QED BY <2>1
<1>2. Sum(f) = it[S]
  BY FractionSumIsChosen
<1>3. IsFiniteSet(S)
  <2>1. IsFiniteSet(0 .. N)
    BY FS_Interval
  <2> QED BY <2>1, FS_Subset
<1> HIDE DEF it
<1>4. /\ IsFraction(it[S])
      /\ NoneNegative(f, S) => /\ 0 <= it[S][1]
                               /\ (\E x \in S : Positive(f[x])) => Positive(it[S])
  BY <1>1, <1>3, AddedSigns
<1> QED BY <1>2, <1>4

-----------------------------------------------------------------------------
(* Positions of any history *)

(* A position of any history: what is known of its cost goes with what is priced, and
   nothing is realized without a basis. *)
Sound(p) ==
  /\ Shape(p) /\ p.quantity \in Nat /\ p.unmatched \in Nat
  /\ IsFraction(p.priced) /\ IsFraction(p.cost) /\ IsFraction(p.realized) /\ IsFraction(p.basis)
  /\ 0 <= p.priced[1] /\ 0 <= p.cost[1] /\ 0 <= p.basis[1]
  /\ Positive(p.priced) <=> Positive(p.cost)
  /\ Positive(p.basis) \/ p.realized[1] = 0

(* m takes the share of p that is sold, over a common denominator. *)
Takes(m, p, A, C, a, c, D) ==
  /\ Is(p.priced, A, D) /\ Is(p.cost, C, D) /\ Is(m.priced, a, D) /\ Is(m.cost, c, D)
  /\ 0 <= a /\ a <= A /\ 0 <= c /\ c <= C
  /\ a > 0 <=> c > 0
  /\ A - a > 0 <=> C - c > 0

(* What a sale takes from a position is a part of it. *)
LEMMA MatchTakes ==
  ASSUME NEW p, Sound(p), NEW x \in TradeType
  PROVE  \E A, C, a, c \in Int, D \in Nat \ {0} : Takes(Match(p, x), p, A, C, a, c, D)
<1> DEFINE m == Match(p, x)
           k == m.quantity
           Q == p.quantity
<1>1. IsFraction(p.priced) /\ IsFraction(p.cost) /\ Q \in Nat
  BY DEF Sound
<1>2. PICK A \in Int, C \in Int, D \in Nat \ {0} : Is(p.priced, A, D) /\ Is(p.cost, C, D)
  BY <1>1, CommonTerms
<1>3. 0 <= A /\ 0 <= C /\ (A > 0 <=> C > 0)
  <2>1. (0 <= p.priced[1] <=> 0 <= A) /\ (0 <= p.cost[1] <=> 0 <= C)
    BY <1>2, SignIs
  <2>2. (Positive(p.priced) <=> A > 0) /\ (Positive(p.cost) <=> C > 0)
    BY <1>2, PositiveIs
  <2> QED BY <2>1, <2>2 DEF Sound
<1>4. k = IF Q <= x.amount THEN Q ELSE x.amount
  BY <1>1, MatchedIs
<1>5. x.amount \in Nat
  BY AmountsAre
<1>6. CASE Q = 0
  <2>1. Is(Zero, 0, 1)
    BY WholeIs DEF Zero
  <2>2. m.priced = Zero
    <3>1. ~ Positive(Whole(0))
      BY <2>1, PositiveIs DEF Zero
    <3> QED BY <1>6, <3>1 DEF Match, Share
  <2>3. IsFraction(Share(p.cost, p.priced))
    BY <1>1, TimesIsFraction
  <2> DEFINE s == Share(p.cost, p.priced)
  <2>4. m.cost = Times(s, Zero)
    BY <2>2 DEF Match
  <2>5. s[1] \in Int /\ s[2] \in Nat \ {0} /\ Is(s, s[1], s[2])
    BY <2>3, OwnTerms
  <2> HIDE DEF m, s
  <2>6. Is(m.cost, s[1] * 0, s[2] * 1)
    BY <2>1, <2>4, <2>5, TimesIs
  <2>7. s[1] * 0 = 0 /\ s[2] * 1 \in Nat \ {0} /\ 0 * D = 0 * (s[2] * 1) /\ 0 * D = 0 * 1
    BY <1>2, <2>5
  <2>8. Is(m.cost, 0, s[2] * 1)
    BY <2>6, <2>7
  <2>9. Is(m.cost, 0, D) /\ Is(m.priced, 0, D)
    BY <1>2, <2>1, <2>2, <2>7, <2>8, Reexpressed
  <2>10. A - 0 = A /\ C - 0 = C
    BY <1>2
  <2>11. Takes(m, p, A, C, 0, 0, D)
    BY <1>2, <1>3, <2>9, <2>10 DEF Takes
  <2> QED BY <1>2, <2>11 DEF m
<1>7. CASE Q # 0
  <2>1. Q \in Nat \ {0} /\ k \in Nat /\ k <= Q /\ Q - k \in Nat
    BY <1>1, <1>4, <1>5, <1>7
  <2>2. Is(m.priced, k * A, Q * D) /\ Is(m.cost, k * C, Q * D)
    <3>1. A = 0 => C = 0
      BY <1>2, <1>3
    <3> HIDE DEF k
    <3>2. Match(p, x).quantity = k /\ p.quantity = Q
      BY DEF k
    <3> HIDE DEF Q
    <3> QED BY <1>2, <1>3, <2>1, <3>1, <3>2, MatchIs
  <2> HIDE DEF k, m, Q
  <2>3. Is(p.priced, A * Q, D * Q) /\ Is(p.cost, C * Q, D * Q)
    BY <1>2, <2>1, Rescaled
  <2>4. D * Q = Q * D /\ Q * D \in Nat \ {0}
    BY <1>2, <2>1, ProductIsPositive
  <2>5. A * Q \in Int /\ C * Q \in Int /\ k * A \in Int /\ k * C \in Int
    BY <1>2, <2>1, ProductIsInt
  <2>6. \A y \in Int : 0 <= y => 0 <= k * y /\ k * y <= y * Q
    <3>1. ASSUME NEW y \in Int, 0 <= y PROVE 0 <= k * y /\ k * y <= y * Q
      <4>1. k * y <= Q * y
        BY <2>1, <3>1, Monotone
      <4>2. k * y \in Nat /\ Q * y = y * Q
        BY <2>1, <3>1
      <4> QED BY <4>1, <4>2
    <3> QED BY <3>1
  <2>7. \A y \in Int : 0 <= y => (k * y > 0 <=> k > 0 /\ y > 0)
    <3>1. ASSUME NEW y \in Int, 0 <= y PROVE k * y > 0 <=> k > 0 /\ y > 0
      <4>1. CASE k > 0 /\ y > 0
        BY <2>1, <3>1, <4>1, ProductIsPositive
      <4>2. CASE k = 0
        BY <3>1, <4>2
      <4>3. CASE y = 0
        BY <2>1, <4>3
      <4> QED BY <2>1, <3>1, <4>1, <4>2, <4>3
    <3> QED BY <3>1
  <2>8. \A y \in Int : 0 <= y => (y * Q - k * y > 0 <=> Q - k > 0 /\ y > 0)
    <3>1. ASSUME NEW y \in Int, 0 <= y PROVE y * Q - k * y > 0 <=> Q - k > 0 /\ y > 0
      <4> DEFINE j == Q - k
      <4>1. y * Q - k * y = j * y /\ j \in Nat
        BY <2>1
      <4> HIDE DEF j
      <4>2. CASE j > 0 /\ y > 0
        BY <3>1, <4>1, <4>2, ProductIsPositive DEF j
      <4>3. CASE j = 0
        <5>1. 0 * y = 0
          OBVIOUS
        <5> QED BY <4>1, <4>3, <5>1 DEF j
      <4>4. CASE y = 0
        <5>1. j * 0 = 0
          BY <4>1
        <5> QED BY <4>1, <4>4, <5>1 DEF j
      <4> QED BY <3>1, <4>1, <4>2, <4>3, <4>4
    <3> QED BY <3>1
  <2>9. Takes(m, p, A * Q, C * Q, k * A, k * C, Q * D)
    <3>1. /\ Is(p.priced, A * Q, Q * D) /\ Is(p.cost, C * Q, Q * D)
          /\ Is(m.priced, k * A, Q * D) /\ Is(m.cost, k * C, Q * D)
      BY <2>2, <2>3, <2>4
    <3>2. 0 <= k * A /\ k * A <= A * Q /\ 0 <= k * C /\ k * C <= C * Q
      BY <1>2, <1>3, <2>6
    <3>3. k * A > 0 <=> k * C > 0
      BY <1>2, <1>3, <2>7
    <3>4. A * Q - k * A > 0 <=> C * Q - k * C > 0
      BY <1>2, <1>3, <2>8
    <3> QED BY <3>1, <3>2, <3>3, <3>4 DEF Takes
  <2> QED BY <2>4, <2>5, <2>9 DEF m
<1> QED BY <1>6, <1>7

(* A sale leaves a sound position. *)
LEMMA SoundAfterSell ==
  ASSUME NEW p, Sound(p), NEW x \in TradeType, x.amount > 0, ~ IsBuy(x)
  PROVE  Sound(Sell(p, x))
<1> DEFINE m == Match(p, x)
           q == Sell(p, x)
           R == Received(x)
           gain == Minus(Proceeds(m, x), m.cost)
           counts == R > 0 /\ Positive(m.priced)
<1>1. PICK A \in Int, C \in Int, a \in Int, c \in Int, D \in Nat \ {0} : Takes(m, p, A, C, a, c, D)
  BY MatchTakes
<1>2. /\ Is(p.priced, A, D) /\ Is(p.cost, C, D) /\ Is(m.priced, a, D) /\ Is(m.cost, c, D)
      /\ 0 <= a /\ a <= A /\ 0 <= c /\ c <= C /\ (a > 0 <=> c > 0) /\ (A - a > 0 <=> C - c > 0)
  BY <1>1 DEF Takes
<1>3. Shape(q) /\ q.quantity \in Nat /\ q.unmatched \in Nat
  <2>1. q = Trades(p, x)
    BY DEF Trades
  <2> DEFINE u == p.quantity
             v == p.unmatched
             w == x.amount
             k == IF u <= w THEN u ELSE w
  <2>2. u \in Nat /\ v \in Nat /\ w \in Nat /\ Shape(p)
    BY AmountsAre DEF Sound
  <2>3. Shape(q) /\ q.quantity = u - k /\ q.unmatched = v + w - k
    BY <2>1, <2>2, StepQuantities
  <2> HIDE DEF u, v, w, q
  <2>4. u - k \in Nat /\ v + w - k \in Nat
    BY <2>2
  <2> QED BY <2>3, <2>4
<1>4. /\ q.priced = Minus(p.priced, m.priced) /\ q.cost = Minus(p.cost, m.cost)
      /\ q.realized = IF counts THEN Plus(p.realized, gain) ELSE p.realized
      /\ q.basis = IF counts THEN Plus(p.basis, m.cost) ELSE p.basis
  <2> DEFINE left == [p EXCEPT !.quantity = @ - m.quantity, !.unmatched = @ + x.amount - m.quantity,
                               !.priced = Minus(@, m.priced), !.cost = Minus(@, m.cost)]
  <2>1. q = IF counts THEN [left EXCEPT !.realized = Plus(@, gain), !.basis = Plus(@, m.cost)]
            ELSE left
    BY DEF Sell
  <2>2. Shape(p)
    BY DEF Sound
  <2> HIDE DEF q, m, gain, counts, R
  <2> QED BY <2>1, <2>2 DEF Shape
<1>5. IsFraction(gain)
  <2>1. IsFraction(m.priced) /\ IsFraction(m.cost)
    BY <1>2, StandsForFraction
  <2>2. R \in Nat /\ x.amount \in Nat \ {0}
    BY AmountsAre
  <2>3. Proceeds(m, x) = Over(Times(Whole(R), m.priced), Whole(x.amount))
    BY DEF Proceeds
  <2> HIDE DEF m, R
  <2>4. IsFraction(Whole(R)) /\ IsFraction(Whole(x.amount))
    BY <2>2, WholeIsFraction
  <2>5. Positive(Whole(x.amount))
    BY <2>2 DEF Positive, Whole
  <2>6. Proceeds(m, x) = Share(Times(Whole(R), m.priced), Whole(x.amount))
    BY <2>3, <2>5 DEF Share
  <2>7. IsFraction(Times(Whole(R), m.priced))
    BY <2>1, <2>4, TimesIsFraction
  <2>8. IsFraction(Proceeds(m, x))
    BY <2>4, <2>6, <2>7, TimesIsFraction
  <2> QED BY <2>1, <2>8, PlusIsFraction
<1> HIDE DEF m, q, gain, R
<1>6. /\ IsFraction(q.priced) /\ IsFraction(q.cost) /\ 0 <= q.priced[1] /\ 0 <= q.cost[1]
      /\ Positive(q.priced) <=> Positive(q.cost)
  <2>1. Is(q.priced, A - a, D) /\ Is(q.cost, C - c, D) /\ A - a \in Int /\ C - c \in Int
    BY <1>1, <1>2, <1>4, MinusIs
  <2>2. (0 <= q.priced[1] <=> 0 <= A - a) /\ (0 <= q.cost[1] <=> 0 <= C - c)
    BY <2>1, SignIs
  <2>3. (Positive(q.priced) <=> A - a > 0) /\ (Positive(q.cost) <=> C - c > 0)
    BY <2>1, PositiveIs
  <2>4. 0 <= A - a /\ 0 <= C - c
    BY <1>1, <1>2
  <2> QED BY <1>2, <2>1, <2>2, <2>3, <2>4, StandsForFraction
<1>7. /\ IsFraction(p.realized) /\ IsFraction(p.basis) /\ 0 <= p.basis[1]
      /\ Positive(p.basis) \/ p.realized[1] = 0
  BY DEF Sound
<1>8. CASE ~ counts
  <2>1. Sound(q)
    BY <1>3, <1>4, <1>6, <1>7, <1>8 DEF Sound
  <2> QED BY <2>1 DEF q
<1>9. CASE counts
  <2>1. IsFraction(q.realized)
    BY <1>4, <1>5, <1>7, <1>9, PlusIsFraction
  <2>2. c > 0
    <3>1. Positive(m.priced) <=> a > 0
      BY <1>1, <1>2, PositiveIs
    <3> QED BY <1>2, <1>9, <3>1
  <2>3. IsFraction(m.cost)
    BY <1>2, StandsForFraction
  <2>4. PICK B \in Int, e \in Int, F \in Nat \ {0} : Is(p.basis, B, F) /\ Is(m.cost, e, F)
    BY <1>7, <2>3, CommonTerms
  <2>5. 0 <= B /\ e > 0
    <3>1. 0 <= p.basis[1] <=> 0 <= B
      BY <2>4, SignIs
    <3>2. (Positive(m.cost) <=> e > 0) /\ (Positive(m.cost) <=> c > 0)
      BY <1>1, <1>2, <2>4, PositiveIs
    <3> QED BY <1>7, <2>2, <3>1, <3>2
  <2>6. Is(q.basis, B + e, F) /\ B + e \in Int /\ B + e > 0
    <3>1. q.basis = Plus(p.basis, m.cost)
      BY <1>4, <1>9
    <3>2. B + e \in Int /\ B + e > 0
      BY <2>4, <2>5
    <3> QED BY <2>4, <3>1, <3>2, PlusIs
  <2>7. Positive(q.basis) /\ 0 <= q.basis[1] /\ IsFraction(q.basis)
    <3>1. (Positive(q.basis) <=> B + e > 0) /\ (0 <= q.basis[1] <=> 0 <= B + e)
      BY <2>4, <2>6, PositiveIs, SignIs
    <3>2. 0 <= B + e
      BY <2>6
    <3> QED BY <2>6, <3>1, <3>2, StandsForFraction
  <2>8. Sound(q)
    BY <1>3, <1>6, <2>1, <2>7 DEF Sound
  <2> QED BY <2>8 DEF q
<1> QED BY <1>8, <1>9

(* A buy leaves one. *)
LEMMA SoundAfterBuy ==
  ASSUME NEW p, Sound(p), NEW x \in TradeType, x.amount > 0, IsBuy(x)
  PROVE  Sound(Buy(p, x))
<1> DEFINE q == Buy(p, x)
           s == Spent(x)
           a == x.amount
<1>1. a \in Nat \ {0} /\ s \in Nat
  BY AmountsAre
<1>2. /\ Shape(q) /\ q.quantity = p.quantity + a /\ q.unmatched = p.unmatched
      /\ q.realized = p.realized /\ q.basis = p.basis
      /\ q.priced = IF s > 0 THEN Plus(p.priced, Whole(a)) ELSE p.priced
      /\ q.cost = Plus(p.cost, Whole(s))
  <2>1. Shape(p)
    BY DEF Sound
  <2> DEFINE b == IF s > 0 THEN Plus(p.priced, Whole(a)) ELSE p.priced
             c == Plus(p.cost, Whole(s))
             r(d, e, f) == [quantity |-> d, priced |-> e, cost |-> f, realized |-> p.realized,
                            basis |-> p.basis, unmatched |-> p.unmatched]
  <2>2. q = [p EXCEPT !.quantity = p.quantity + a, !.priced = b, !.cost = c]
    BY DEF Buy
  <2> HIDE DEF b, c, q, s, a
  <2>3. q = r(p.quantity + a, b, c)
    BY <2>1, <2>2 DEF Shape
  <2>4. q.quantity = p.quantity + a /\ q.priced = b /\ q.cost = c /\ q.realized = p.realized
        /\ q.basis = p.basis /\ q.unmatched = p.unmatched
    BY <2>3
  <2>5. Shape(q)
    BY <2>3, <2>4 DEF Shape
  <2> QED BY <2>4, <2>5 DEF b, c
<1> HIDE DEF q, s, a
<1>3. q.quantity \in Nat /\ q.unmatched \in Nat
  BY <1>1, <1>2 DEF Sound
<1>4. IsFraction(p.priced) /\ IsFraction(p.cost)
  BY DEF Sound
<1>5. PICK A \in Int, C \in Int, D \in Nat \ {0} : Is(p.priced, A, D) /\ Is(p.cost, C, D)
  BY <1>4, CommonTerms
<1>6. 0 <= A /\ 0 <= C /\ (A > 0 <=> C > 0)
  <2>1. (0 <= p.priced[1] <=> 0 <= A) /\ (0 <= p.cost[1] <=> 0 <= C)
    BY <1>5, SignIs
  <2>2. (Positive(p.priced) <=> A > 0) /\ (Positive(p.cost) <=> C > 0)
    BY <1>5, PositiveIs
  <2> QED BY <2>1, <2>2 DEF Sound
<1>7. /\ Is(Whole(a), a * D, D) /\ Is(Whole(s), s * D, D) /\ a * D \in Nat \ {0} /\ s * D \in Nat
      /\ s > 0 => s * D > 0
  <2>1. Is(Whole(a), a * D, D) /\ Is(Whole(s), s * D, D)
    <3>1. a \in Int /\ s \in Int /\ D \in Int
      BY <1>1, <1>5
    <3> QED BY <1>5, <3>1, WholeOver
  <2>2. a * D \in Nat \ {0}
    BY <1>1, <1>5, ProductIsPositive
  <2>3. CASE s = 0
    BY <1>5, <2>1, <2>2, <2>3
  <2>4. CASE s # 0
    <3>1. s \in Nat \ {0}
      BY <1>1, <2>4
    <3>2. s * D \in Nat \ {0}
      BY <1>5, <3>1, ProductIsPositive
    <3> QED BY <2>1, <2>2, <3>2
  <2> QED BY <2>3, <2>4
<1> DEFINE A1 == IF s > 0 THEN A + a * D ELSE A
           C1 == C + s * D
<1>8. Is(q.priced, A1, D) /\ Is(q.cost, C1, D) /\ A1 \in Int /\ C1 \in Int
  <2>1. a * D \in Int /\ s * D \in Int
    BY <1>7
  <2>2. Is(q.cost, C1, D) /\ C1 \in Int
    <3>1. Is(Whole(s), s * D, D) /\ q.cost = Plus(p.cost, Whole(s))
      BY <1>2, <1>7
    <3>2. Is(Plus(p.cost, Whole(s)), C + s * D, D)
      BY <1>5, <2>1, <3>1, PlusIs
    <3>3. C + s * D \in Int
      BY <1>5, <2>1
    <3> QED BY <3>1, <3>2, <3>3
  <2>3. CASE s > 0
    <3>1. Is(Plus(p.priced, Whole(a)), A + a * D, D) /\ A + a * D \in Int
      BY <1>5, <1>7, <2>1, PlusIs
    <3> QED BY <1>2, <2>2, <2>3, <3>1
  <2>4. CASE ~ (s > 0)
    BY <1>2, <1>5, <2>2, <2>4
  <2> QED BY <2>3, <2>4
<1>9. 0 <= A1 /\ 0 <= C1 /\ (A1 > 0 <=> C1 > 0)
  <2> DEFINE u == a * D
             v == s * D
  <2>1. u \in Nat \ {0} /\ v \in Nat /\ (s > 0 => v > 0) /\ (s = 0 => v = 0)
    <3>1. 0 * D = 0
      BY <1>5
    <3> QED BY <1>7, <3>1
  <2> HIDE DEF u, v
  <2>2. CASE s > 0
    BY <1>5, <1>6, <2>1, <2>2 DEF u, v
  <2>3. CASE s = 0
    BY <1>5, <1>6, <2>1, <2>3 DEF v
  <2> QED BY <1>1, <2>2, <2>3
<1> HIDE DEF A1, C1
<1>10. /\ (Positive(q.priced) <=> A1 > 0) /\ (Positive(q.cost) <=> C1 > 0)
       /\ (0 <= q.priced[1] <=> 0 <= A1) /\ (0 <= q.cost[1] <=> 0 <= C1)
  BY <1>5, <1>8, PositiveIs, SignIs
<1>11. IsFraction(q.priced) /\ IsFraction(q.cost)
  BY <1>8, StandsForFraction
<1>12. /\ IsFraction(q.realized) /\ IsFraction(q.basis) /\ 0 <= q.basis[1]
       /\ Positive(q.basis) \/ q.realized[1] = 0
  BY <1>2 DEF Sound
<1>13. Sound(q)
  BY <1>2, <1>3, <1>9, <1>10, <1>11, <1>12 DEF Sound
<1> QED BY <1>13 DEF q

(* Replaying any history does. *)
LEMMA AlwaysSound ==
  ASSUME NEW h \in Seq(TradeType), MovesTokens(h)
  PROVE  Sound(Replay(h))
<1>1. PICK P : Replays(P, h) /\ Replay(h) = P[Len(h)]
  BY ReplayRuns
<1> DEFINE Bad == {n \in 0 .. Len(h) : ~ Sound(P[n])}
<1>2. Len(h) \in Nat
  OBVIOUS
<1>3. Sound(P[0])
  <2>1. P[0] = NoPosition
    BY <1>1 DEF Replays
  <2>2. IsFraction(Zero) /\ Zero[1] = 0 /\ ~ Positive(Zero)
    BY DEF IsFraction, Zero, Whole, Positive
  <2>3. /\ Shape(NoPosition) /\ NoPosition.quantity = 0 /\ NoPosition.unmatched = 0
        /\ NoPosition.priced = Zero /\ NoPosition.cost = Zero
        /\ NoPosition.realized = Zero /\ NoPosition.basis = Zero
    BY DEF Shape, NoPosition
  <2> QED BY <2>1, <2>2, <2>3 DEF Sound
<1>4. ASSUME Bad # {} PROVE FALSE
  <2>1. PICK n \in Bad : \A m \in Bad : n <= m
    <3>1. Bad \in SUBSET Nat
      BY <1>2
    <3> HIDE DEF Bad
    <3> QED BY <1>4, <3>1, LeastNumber
  <2>2. n \in 0 .. Len(h) /\ ~ Sound(P[n])
    OBVIOUS
  <2>3. n \in 1 .. Len(h) /\ n - 1 \in 0 .. Len(h) /\ ~(n <= n - 1)
    BY <1>2, <1>3, <2>2
  <2>4. Sound(P[n - 1])
    BY <2>1, <2>3
  <2>5. n \in DOMAIN h /\ h[n] \in TradeType /\ h[n].amount > 0
    BY <2>3 DEF MovesTokens
  <2>6. P[n] = Trades(P[n - 1], h[n])
    BY <1>1, <2>3 DEF Replays
  <2>7. Sound(Trades(P[n - 1], h[n]))
    BY <2>4, <2>5, SoundAfterBuy, SoundAfterSell DEF Trades
  <2> QED BY <2>2, <2>6, <2>7
<1> QED BY <1>1, <1>2, <1>4

(* Sums of the lengths that the scores have. *)
LEMMA SumOfFew ==
  ASSUME NEW n \in Nat, NEW e \in [1 .. n -> Int]
  PROVE  /\ n = 1 => SumFunction(e) = e[1]
         /\ n = 6 => SumFunction(e) = e[1] + e[2] + e[3] + e[4] + e[5] + e[6]
         /\ n = 7 => SumFunction(e) = e[1] + e[2] + e[3] + e[4] + e[5] + e[6] + e[7]
         /\ n = 8 => SumFunction(e) = e[1] + e[2] + e[3] + e[4] + e[5] + e[6] + e[7] + e[8]
<1>1. PICK F : Adds(F, e, n) /\ SumFunction(e) = F[n]
  BY SumAdds
<1>2. F[0] = 0 /\ \A k \in 1 .. n : F[k] = F[k - 1] + e[k]
  BY <1>1 DEF Adds
<1>3. CASE n = 1
  <2>1. F[1] = F[0] + e[1] /\ e[1] \in Int
    BY <1>2, <1>3
  <2> QED BY <1>1, <1>2, <1>3, <2>1
<1>4. ASSUME n \in 6 .. 8
      PROVE  /\ F[6] = e[1] + e[2] + e[3] + e[4] + e[5] + e[6]
             /\ e[1] \in Int /\ e[2] \in Int /\ e[3] \in Int /\ e[4] \in Int /\ e[5] \in Int
             /\ e[6] \in Int
  <2>1. 1 \in 1 .. n /\ 2 \in 1 .. n /\ 3 \in 1 .. n /\ 4 \in 1 .. n /\ 5 \in 1 .. n /\ 6 \in 1 .. n
    BY <1>4
  <2>2. /\ e[1] \in Int /\ e[2] \in Int /\ e[3] \in Int /\ e[4] \in Int /\ e[5] \in Int
        /\ e[6] \in Int
    BY <2>1
  <2>3. /\ F[1] = F[0] + e[1] /\ F[2] = F[1] + e[2] /\ F[3] = F[2] + e[3]
        /\ F[4] = F[3] + e[4] /\ F[5] = F[4] + e[5] /\ F[6] = F[5] + e[6]
    <3>1. 1 - 1 = 0 /\ 2 - 1 = 1 /\ 3 - 1 = 2 /\ 4 - 1 = 3 /\ 5 - 1 = 4 /\ 6 - 1 = 5
      OBVIOUS
    <3> QED BY <1>2, <2>1, <3>1
  <2> QED BY <1>2, <2>2, <2>3
<1>5. CASE n = 6
  BY <1>1, <1>4, <1>5
<1>6. CASE n = 7
  <2>1. F[7] = F[6] + e[7] /\ e[7] \in Int
    <3>1. 7 - 1 = 6 /\ 7 \in 1 .. n
      BY <1>6
    <3> QED BY <1>2, <3>1
  <2> QED BY <1>1, <1>4, <1>6, <2>1
<1>7. CASE n = 8
  <2>1. F[8] = F[7] + e[8] /\ e[8] \in Int /\ F[7] = F[6] + e[7] /\ e[7] \in Int
    <3>1. 7 - 1 = 6 /\ 8 - 1 = 7 /\ 7 \in 1 .. n /\ 8 \in 1 .. n
      BY <1>7
    <3> QED BY <1>2, <3>1
  <2> QED BY <1>1, <1>4, <1>7, <2>1
<1> QED BY <1>3, <1>5, <1>6, <1>7

(* What a bound says of a comparison with a number. *)
LEMMA CapIs ==
  ASSUME NEW a, NEW u \in Int, NEW E \in Nat \ {0}, UpTo(a, u, E), NEW k \in Nat
  PROVE  /\ AtMost(Zero, a)
         /\ u <= k * E => AtMost(a, Whole(k))
         /\ u < k * E => ~ AtMost(Whole(k), a)
<1> DEFINE n == a[1]
           d == a[2]
<1>1. n \in Int /\ d \in Nat \ {0} /\ 0 <= n /\ n * E <= u * d
  BY DEF UpTo, IsFraction
<1>2. /\ AtMost(Zero, a) <=> 0 * d <= n * 1
      /\ AtMost(a, Whole(k)) <=> n * 1 <= k * d
      /\ AtMost(Whole(k), a) <=> k * d <= n * 1
  BY DEF AtMost, Zero, Whole
<1> HIDE DEF n, d
<1>3. n * 1 = n /\ 0 * d = 0
  BY <1>1
<1>4. (k * E) * d = (k * d) * E /\ (k * d) * E \in Int /\ n * E \in Int /\ u * d \in Int
      /\ k * d \in Int /\ k * E \in Int
  BY <1>1
<1>5. ASSUME u <= k * E PROVE n <= k * d
  <2>1. u * d <= (k * E) * d
    BY <1>1, <1>4, <1>5, Monotone
  <2>2. n * E <= (k * d) * E
    BY <1>1, <1>4, <2>1
  <2> QED BY <1>1, <1>4, <2>2, CancelAtMost
<1>6. ASSUME u < k * E, k * d <= n PROVE FALSE
  <2>1. (k * d) * E <= n * E
    BY <1>1, <1>4, <1>6, Monotone
  <2>2. (k * E) * d <= u * d
    BY <1>1, <1>4, <2>1
  <2>3. k * E <= u
    BY <1>1, <1>4, <2>2, CancelAtMost
  <2> QED BY <1>4, <1>6, <2>3
<1> QED BY <1>1, <1>2, <1>3, <1>5, <1>6

(* Fractions are ordered. *)
LEMMA AtMostOrders ==
  ASSUME NEW a, NEW b, NEW c, IsFraction(a), IsFraction(b), IsFraction(c)
  PROVE  /\ AtMost(a, b) \/ AtMost(b, a)
         /\ AtMost(a, b) /\ AtMost(b, c) => AtMost(a, c)
<1>1. PICK A \in Int, B \in Int, D \in Nat \ {0} : Is(a, A, D) /\ Is(b, B, D)
  BY CommonTerms
<1>2. AtMost(a, b) \/ AtMost(b, a)
  <2>1. (AtMost(a, b) <=> A <= B) /\ (AtMost(b, a) <=> B <= A)
    BY <1>1, AtMostIs
  <2> QED BY <1>1, <2>1
<1>3. PICK B1 \in Int, C \in Int, E \in Nat \ {0} : Is(b, B1, E) /\ Is(c, C, E)
  BY CommonTerms
<1> DEFINE F == D * E
<1>4. E * D = F /\ F \in Nat \ {0} /\ D \in Int /\ E \in Int
  BY <1>1, <1>3, ProductIsPositive
<1>5. A * E \in Int /\ B * E \in Int /\ B1 * D \in Int /\ C * D \in Int
  BY <1>1, <1>3, <1>4, ProductIsInt
<1>6. Is(a, A * E, F) /\ Is(b, B * E, F) /\ Is(b, B1 * D, F) /\ Is(c, C * D, F)
  <2>1. Is(a, A * E, D * E) /\ Is(b, B * E, D * E)
    BY <1>1, <1>4, Rescaled
  <2>2. Is(b, B1 * D, E * D) /\ Is(c, C * D, E * D)
    BY <1>3, <1>4, Rescaled
  <2> QED BY <1>4, <2>1, <2>2
<1> HIDE DEF F
<1>7. B * E <= B1 * D
  <2>1. AtMost(b, b) <=> B * E <= B * E
    BY <1>4, <1>5, <1>6, AtMostIs
  <2>2. AtMost(b, b) <=> B * E <= B1 * D
    BY <1>4, <1>5, <1>6, AtMostIs
  <2> QED BY <1>5, <2>1, <2>2
<1>8. /\ AtMost(a, b) <=> A * E <= B * E
      /\ AtMost(b, c) <=> B1 * D <= C * D
      /\ AtMost(a, c) <=> A * E <= C * D
  BY <1>4, <1>5, <1>6, AtMostIs
<1> QED BY <1>2, <1>5, <1>7, <1>8

(* One of finitely many fractions is the greatest. *)
LEMMA GreatestFraction ==
  ASSUME NEW S, IsFiniteSet(S), S # {}, NEW f, AllFractions(f, S)
  PROVE  {t \in S : \A u \in S : AtMost(f[u], f[t])} # {}
<1> DEFINE Has(s) == \E t \in s : \A u \in s : AtMost(f[u], f[t])
           Bad == {s \in SUBSET S : s # {} /\ ~ Has(s)}
<1>1. ASSUME Bad # {} PROVE FALSE
  <2>1. PICK s \in Bad : \A y \in Bad : ~ (y \subseteq s /\ y # s)
    <3>1. Bad \in SUBSET SUBSET S
      OBVIOUS
    <3> HIDE DEF Bad
    <3> QED BY <1>1, <3>1, SubsetInduction
  <2>2. s \in SUBSET S /\ s # {} /\ ~ Has(s)
    OBVIOUS
  <2>3. PICK c \in s : TRUE
    BY <2>2
  <2> DEFINE r == s \ {c}
  <2>4. \A x \in S : IsFraction(f[x])
    BY DEF AllFractions
  <2>5. CASE r = {}
    <3>1. \A u \in s : u = c
      BY <2>5
    <3>2. AtMost(f[c], f[c])
      BY <2>2, <2>3, <2>4, AtMostOrders
    <3> QED BY <2>2, <2>3, <3>1, <3>2
  <2>6. CASE r # {}
    <3>1. Has(r)
      <4>1. r \in SUBSET S /\ r \subseteq s /\ r # s
        BY <2>2, <2>3
      <4> HIDE DEF Has
      <4> QED BY <2>1, <2>6, <4>1
    <3>2. PICK t \in r : \A u \in r : AtMost(f[u], f[t])
      BY <3>1
    <3>3. t \in s /\ t \in S /\ c \in S /\ (\A u \in s : u = c \/ u \in r) /\ \A u \in s : u \in S
      BY <2>2, <2>3
    <3> HIDE DEF r
    <3>4. CASE AtMost(f[c], f[t])
      BY <2>2, <3>2, <3>3, <3>4
    <3>5. CASE AtMost(f[t], f[c])
      <4>1. \A u \in s : AtMost(f[u], f[c])
        <5>1. AtMost(f[c], f[c])
          BY <2>4, <3>3, AtMostOrders
        <5>2. ASSUME NEW u \in r PROVE u \in S => AtMost(f[u], f[c])
          BY <2>4, <3>2, <3>3, <3>5, AtMostOrders
        <5> QED BY <3>3, <5>1, <5>2
      <4> QED BY <2>2, <2>3, <4>1
    <3> QED BY <2>4, <3>3, <3>4, <3>5, AtMostOrders
  <2> QED BY <2>5, <2>6
<1>2. Has(S)
  <2> HIDE DEF Has
  <2> QED BY <1>1
<1>3. PICK t \in S : \A u \in S : AtMost(f[u], f[t])
  BY <1>2
<1> QED BY <1>3

(* A loss is no gain as a share of anything, nor when something is taken from it. *)
LEMMA ShareOfLoss ==
  ASSUME NEW a, NEW b, IsFraction(a), IsFraction(b), ~ Positive(a)
  PROVE  ~ Positive(Share(a, b))
<1>1. CASE ~ Positive(b)
  BY <1>1 DEF Share, Positive, Zero, Whole
<1>2. CASE Positive(b)
  <2>1. PICK A \in Int, B \in Int, D \in Nat \ {0} : Is(a, A, D) /\ Is(b, B, D)
    BY CommonTerms
  <2>2. B \in Nat \ {0} /\ ~ (A > 0)
    BY <1>2, <2>1, PositiveIs
  <2>3. Is(Over(a, b), A * D, D * B)
    BY <2>1, <2>2, OverIs
  <2>4. A * D \in Int /\ D * B \in Nat \ {0}
    BY <2>1, <2>2, ProductIsInt, ProductIsPositive
  <2>5. A * D <= 0
    <3>1. A * D <= 0 * D
      <4>1. A <= 0 /\ 0 \in Int
        BY <2>1, <2>2
      <4> QED BY <2>1, <4>1, Monotone
    <3>2. 0 * D = 0
      BY <2>1
    <3> QED BY <3>1, <3>2
  <2>6. ~ Positive(Over(a, b))
    BY <2>3, <2>4, <2>5, PositiveIs
  <2> QED BY <1>2, <2>6 DEF Share
<1> QED BY <1>1, <1>2

(* A loss stays one when the best position is left out. *)
LEMMA LossWithoutGain ==
  ASSUME NEW a, NEW b, IsFraction(a), IsFraction(b), ~ Positive(a), 0 <= b[1]
  PROVE  ~ Positive(Minus(a, b))
<1>1. PICK A \in Int, B \in Int, D \in Nat \ {0} : Is(a, A, D) /\ Is(b, B, D)
  BY CommonTerms
<1>2. ~ (A > 0) /\ 0 <= B
  BY <1>1, PositiveIs, SignIs
<1>3. Is(Minus(a, b), A - B, D) /\ A - B \in Int /\ ~ (A - B > 0)
  BY <1>1, <1>2, MinusIs
<1> QED BY <1>1, <1>3, PositiveIs

(* The positions of a wallet. *)
SoundPositions(p, S) == DOMAIN p = S /\ \A t \in S : Sound(p[t])

(* Every position of a wallet is sound. *)
LEMMA PositionsAreSound ==
  ASSUME NEW h \in Seq(TradeType), MovesTokens(h)
  PROVE  SoundPositions(WalletPositions(h, TRUE), Tokens(h))
<1> DEFINE p == WalletPositions(h, TRUE)
           all == [t \in Tokens(h) |-> Position(h, t)]
<1>1. p = Restrict(all, {t \in Tokens(h) : TRUE \/ all[t].quantity > 0})
  BY DEF WalletPositions
<1>2. {t \in Tokens(h) : TRUE \/ all[t].quantity > 0} = Tokens(h)
  OBVIOUS
<1>3. p = [t \in Tokens(h) |-> all[t]]
  BY <1>1, <1>2 DEF Restrict
<1>4. DOMAIN p = Tokens(h) /\ \A t \in Tokens(h) : p[t] = Position(h, t)
  <2> HIDE DEF p
  <2> QED BY <1>3
<1> HIDE DEF p
<1>5. ASSUME NEW t \in Tokens(h) PROVE Sound(Position(h, t))
  <2> DEFINE g == OfToken(Ordered(h), t)
  <2>1. g \in Seq(TradeType) /\ Range(g) = {h[i] : i \in TradesOf(h, t)}
    BY TokenTrades
  <2>2. \A n \in DOMAIN g : g[n] \in Range(g)
    BY DEF Range
  <2>3. \A i \in TradesOf(h, t) : i \in DOMAIN h
    BY DEF TradesOf
  <2> HIDE DEF g
  <2>4. MovesTokens(g)
    BY <2>1, <2>2, <2>3 DEF MovesTokens
  <2>5. Sound(Replay(g))
    BY <2>1, <2>4, AlwaysSound
  <2> QED BY <2>5 DEF Position, g
<1> QED BY <1>4, <1>5 DEF SoundPositions, p

(* What Performance reports, when nothing was earned, is no reason for more points. *)
Unprofitable(f) ==
  /\ ~ Positive(f.roi) /\ ~ Positive(f.roiExTop)
  /\ \E n \in Nat \ {0} : f.wins[1] * n <= (n - 1) * f.wins[2]

PerformanceShape(f) ==
  /\ IsFraction(f.pnl) /\ IsFraction(f.roi) /\ IsFraction(f.gross) /\ IsFraction(f.wins)
  /\ IsFraction(f.concentration) /\ IsFraction(f.pnlExTop) /\ IsFraction(f.roiExTop)
  /\ IsFraction(f.unmatched) /\ f.positions \in Nat
  /\ Positive(f.pnl) \/ Unprofitable(f)

(* Where nothing was earned in all, not every realized position won. *)
LEMMA WinsAre ==
  ASSUME NEW p, NEW N \in Nat, NEW S \in SUBSET (0 .. N), SoundPositions(p, S),
         ~ Positive(Sum([t \in S |-> p[t].realized]))
  PROVE  LET realized == {t \in S : Positive(p[t].basis)}
             profitable == {t \in realized : Positive(p[t].realized)}
             wins == Share(Whole(Cardinality(profitable)), Whole(Cardinality(realized)))
         IN \E n \in Nat \ {0} : wins[1] * n <= (n - 1) * wins[2]
<1> DEFINE realized == {t \in S : Positive(p[t].basis)}
           profitable == {t \in realized : Positive(p[t].realized)}
           c == Cardinality(profitable)
           n == Cardinality(realized)
           wins == Share(Whole(c), Whole(n))
           f == [t \in S |-> p[t].realized]
<1>1. IsFiniteSet(S)
  <2>1. IsFiniteSet(0 .. N)
    BY FS_Interval
  <2> QED BY <2>1, FS_Subset
<1>2. realized \subseteq S /\ profitable \subseteq realized
  OBVIOUS
<1>3. \A t \in S : IsFraction(f[t]) /\ (Positive(p[t].basis) \/ f[t][1] = 0)
  BY DEF SoundPositions, Sound
<1>4. profitable # realized \/ realized = {}
  <2> SUFFICES ASSUME profitable = realized, realized # {} PROVE FALSE
    OBVIOUS
  <2>1. ASSUME NEW t \in S PROVE IsFraction(f[t]) /\ 0 <= f[t][1]
    <3>1. CASE t \in realized
      <4>1. f[t] = p[t].realized /\ t \in profitable
        BY <3>1
      <4>2. f[t][1] > 0
        BY <4>1 DEF Positive
      <4> HIDE DEF f, realized, profitable
      <4>3. f[t][1] \in Int
        BY <1>3 DEF IsFraction
      <4> QED BY <1>3, <4>2, <4>3
    <3>2. CASE t \notin realized
      <4>1. ~ Positive(p[t].basis)
        BY <3>2
      <4> HIDE DEF f, realized, profitable
      <4>2. f[t][1] = 0
        BY <1>3, <4>1
      <4> QED BY <1>3, <4>2
    <3> QED BY <3>1, <3>2
  <2>2. \E t \in S : Positive(f[t])
    <3>1. PICK t \in realized : TRUE
      OBVIOUS
    <3>2. t \in profitable /\ t \in S
      BY <3>1
    <3> QED BY <3>2
  <2>3. DOMAIN f = S
    OBVIOUS
  <2> HIDE DEF f, realized, profitable
  <2>4. AllFractions(f, S) /\ NoneNegative(f, S)
    BY <2>1 DEF AllFractions, NoneNegative
  <2>5. Positive(Sum(f))
    BY <2>2, <2>3, <2>4, SumSigns
  <2> QED BY <2>5 DEF f
<1> HIDE DEF realized, profitable
<1>5. IsFiniteSet(realized) /\ IsFiniteSet(profitable) /\ n \in Nat /\ c \in Nat
  BY <1>1, <1>2, FS_Subset, FS_CardinalityType
<1>6. \E m \in Nat \ {0} : wins[1] * m <= (m - 1) * wins[2]
  <2>1. CASE realized = {}
    <3>1. n = 0
      BY <2>1, FS_EmptySet
    <3>2. wins = Zero
      <4>1. ~ Positive(Whole(n))
        BY <3>1 DEF Positive, Whole
      <4> QED BY <4>1 DEF Share
    <3>3. wins[1] = 0 /\ wins[2] = 1
      BY <3>2 DEF Zero, Whole
    <3> HIDE DEF wins
    <3>4. wins[1] * 1 <= (1 - 1) * wins[2]
      BY <3>3
    <3> QED BY <3>4
  <2>2. CASE realized # {}
    <3>1. profitable # realized
      BY <1>4, <2>2
    <3>2. c < n
      <4>1. c <= n
        BY <1>2, <1>5, FS_Subset
      <4>2. c # n
        BY <1>2, <1>5, <3>1, FS_Subset
      <4> HIDE DEF c, n
      <4> QED BY <1>5, <4>1, <4>2
    <3> HIDE DEF c, n
    <3>3. n \in Nat \ {0} /\ c <= n - 1
      BY <1>5, <3>2
    <3>4. Is(Whole(c), c, 1) /\ Is(Whole(n), n, 1)
      BY <1>5, WholeIs
    <3>5. wins = Over(Whole(c), Whole(n))
      <4>1. Positive(Whole(n))
        BY <3>3 DEF Positive, Whole
      <4> QED BY <4>1 DEF Share
    <3>6. Is(Over(Whole(c), Whole(n)), c * 1, 1 * n)
      BY <1>5, <3>3, <3>4, OverIs
    <3>7. c * 1 = c /\ 1 * n = n
      BY <1>5
    <3>8. Is(wins, c, n)
      BY <3>5, <3>6, <3>7
    <3> HIDE DEF wins
    <3>9. wins[1] * n = c * wins[2] /\ wins[2] \in Nat
      BY <3>8 DEF Is
    <3>10. c * wins[2] <= (n - 1) * wins[2]
      <4>1. n - 1 \in Int
        BY <3>3
      <4> QED BY <1>5, <3>3, <3>9, <4>1, Monotone
    <3>11. wins[1] * n <= (n - 1) * wins[2]
      BY <3>9, <3>10
    <3> QED BY <3>3, <3>11
  <2> QED BY <2>1, <2>2
<1> QED BY <1>6 DEF realized, profitable

(* The most profitable position. *)
LEMMA TopIsSound ==
  ASSUME NEW p, NEW N \in Nat, NEW S \in SUBSET (0 .. N), SoundPositions(p, S)
  PROVE  LET realized == {t \in S : Positive(p[t].basis)}
             profitable == {t \in realized : Positive(p[t].realized)}
             first == {t \in profitable : \A u \in profitable : AtMost(p[u].realized, p[t].realized)}
             top == IF profitable = {} THEN NoPosition ELSE p[Min(first)]
         IN IsFraction(top.realized) /\ IsFraction(top.basis) /\ 0 <= top.realized[1]
<1> DEFINE realized == {t \in S : Positive(p[t].basis)}
           profitable == {t \in realized : Positive(p[t].realized)}
           first == {t \in profitable : \A u \in profitable : AtMost(p[u].realized, p[t].realized)}
           top == IF profitable = {} THEN NoPosition ELSE p[Min(first)]
<1>1. CASE profitable = {}
  <2>1. top.realized = Zero /\ top.basis = Zero
    BY <1>1 DEF NoPosition
  <2>2. IsFraction(Zero) /\ Zero[1] = 0
    BY DEF IsFraction, Zero, Whole
  <2> HIDE DEF top
  <2>3. IsFraction(top.realized) /\ IsFraction(top.basis) /\ 0 <= top.realized[1]
    BY <2>1, <2>2
  <2> QED BY <2>3 DEF top
<1>2. CASE profitable # {}
  <2> DEFINE f == [t \in S |-> p[t].realized]
  <2>1. \A t \in S : f[t] = p[t].realized
    OBVIOUS
  <2>2. AllFractions(f, profitable)
    BY <2>1 DEF AllFractions, SoundPositions, Sound
  <2>3. IsFiniteSet(profitable)
    <3>1. IsFiniteSet(0 .. N)
      BY FS_Interval
    <3>2. profitable \subseteq 0 .. N
      OBVIOUS
    <3> HIDE DEF profitable
    <3> QED BY <3>1, <3>2, FS_Subset
  <2>4. first = {t \in profitable : \A u \in profitable : AtMost(f[u], f[t])}
    BY <2>1
  <2> DEFINE most == {t \in profitable : \A u \in profitable : AtMost(f[u], f[t])}
  <2>5. most # {}
    <3> HIDE DEF profitable, f
    <3> QED BY <1>2, <2>2, <2>3, GreatestFraction
  <2>6. first \in SUBSET Nat /\ first # {}
    <3>1. first \in SUBSET Nat
      <4>1. S \subseteq Nat
        OBVIOUS
      <4>2. first \subseteq S
        OBVIOUS
      <4> HIDE DEF first
      <4> QED BY <4>1, <4>2
    <3> HIDE DEF first, most
    <3> QED BY <2>4, <2>5, <3>1 DEF most
  <2>7. Min(first) \in first
    <3> HIDE DEF first
    <3> QED BY <2>6, MinIsIn
  <2>8. Min(first) \in profitable
    <3> DEFINE m == Min(first)
    <3>1. m \in first
      BY <2>7
    <3> HIDE DEF m
    <3>2. m \in profitable
      BY <3>1
    <3> QED BY <3>2 DEF m
  <2> DEFINE m == Min(first)
  <2>9. m \in S /\ Positive(p[m].realized) /\ top = p[m]
    BY <1>2, <2>8
  <2> HIDE DEF m, top
  <2>10. IsFraction(p[m].realized) /\ IsFraction(p[m].basis)
    BY <2>9 DEF SoundPositions, Sound
  <2>11. p[m].realized[1] > 0 /\ p[m].realized[1] \in Int
    BY <2>9, <2>10 DEF Positive, IsFraction
  <2>12. IsFraction(top.realized) /\ IsFraction(top.basis) /\ 0 <= top.realized[1]
    BY <2>9, <2>10, <2>11
  <2> QED BY <2>12 DEF top
<1> QED BY <1>1, <1>2

(* What was realized is reported as Performance promises. *)
LEMMA PerformanceIs ==
  ASSUME NEW p, NEW N \in Nat, NEW S \in SUBSET (0 .. N), SoundPositions(p, S), NEW sold \in Int
  PROVE  PerformanceShape(Performance(p, sold))
<1> DEFINE realized == {t \in S : Positive(p[t].basis)}
           profitable == {t \in realized : Positive(p[t].realized)}
           pnls == [t \in S |-> p[t].realized]
           bases == [t \in S |-> p[t].basis]
           gains == [t \in profitable |-> p[t].realized]
           pnl == Sum(pnls)
           basis == Sum(bases)
           gross == Sum(gains)
           first == {t \in profitable : \A u \in profitable : AtMost(p[u].realized, p[t].realized)}
           top == IF profitable = {} THEN NoPosition ELSE p[Min(first)]
           exTop == Minus(pnl, top.realized)
           wins == Share(Whole(Cardinality(profitable)), Whole(Cardinality(realized)))
           missing == [t \in S |-> p[t].unmatched]
           g == [pnl |-> pnl, roi |-> Share(pnl, basis), gross |-> gross,
                 positions |-> Cardinality(realized), wins |-> wins,
                 concentration |-> Share(top.realized, gross),
                 pnlExTop |-> exTop, roiExTop |-> Share(exTop, Minus(basis, top.basis)),
                 unmatched |-> Share(Whole(SumFunction(missing)), Whole(sold))]
<1>1. DOMAIN p = S /\ \A t \in S : Sound(p[t])
  BY DEF SoundPositions
<1>2. Performance(p, sold) = g
  BY <1>1 DEF Performance
<1>3. IsFraction(pnl) /\ IsFraction(basis) /\ IsFraction(gross)
  <2>1. DOMAIN pnls = S /\ DOMAIN bases = S /\ AllFractions(pnls, S) /\ AllFractions(bases, S)
    BY <1>1 DEF AllFractions, Sound
  <2>2. DOMAIN gains = profitable /\ AllFractions(gains, profitable)
    BY <1>1 DEF AllFractions, Sound
  <2>3. profitable \in SUBSET (0 .. N)
    OBVIOUS
  <2> HIDE DEF pnls, bases, gains, profitable
  <2> QED BY <2>1, <2>2, <2>3, SumSigns
<1>4. IsFraction(top.realized) /\ IsFraction(top.basis) /\ 0 <= top.realized[1]
  BY TopIsSound
<1>5. ~ Positive(pnl) => \E n \in Nat \ {0} : wins[1] * n <= (n - 1) * wins[2]
  <2> SUFFICES ASSUME ~ Positive(pnl)
               PROVE  \E n \in Nat \ {0} : wins[1] * n <= (n - 1) * wins[2]
    OBVIOUS
  <2> QED BY WinsAre
<1>6. Cardinality(realized) \in Nat /\ Cardinality(profitable) \in Nat
  <2>1. IsFiniteSet(0 .. N)
    BY FS_Interval
  <2>2. realized \subseteq 0 .. N /\ profitable \subseteq 0 .. N
    OBVIOUS
  <2> HIDE DEF realized, profitable
  <2> QED BY <2>1, <2>2, FS_Subset, FS_CardinalityType
<1>7. SumFunction(missing) \in Nat
  <2>1. missing \in [S -> Nat]
    BY <1>1 DEF Sound
  <2> HIDE DEF missing
  <2> QED BY <2>1, SumIsNat
<1> HIDE DEF realized, profitable, pnls, bases, gains, missing, top, first
<1>8. IsFraction(wins)
  BY <1>6, WholeIsFraction, TimesIsFraction
<1>9. IsFraction(exTop) /\ IsFraction(Minus(basis, top.basis))
  BY <1>3, <1>4, PlusIsFraction
<1>10. IsFraction(Share(Whole(SumFunction(missing)), Whole(sold)))
  BY <1>7, WholeIsFraction, TimesIsFraction
<1> HIDE DEF pnl, basis, gross, wins
<1>11. IsFraction(Share(pnl, basis)) /\ IsFraction(Share(top.realized, gross))
  BY <1>3, <1>4, TimesIsFraction
<1>12. ~ Positive(pnl) => ~ Positive(exTop)
  BY <1>3, <1>4, LossWithoutGain
<1> HIDE DEF exTop
<1>13. IsFraction(Share(exTop, Minus(basis, top.basis)))
  BY <1>9, TimesIsFraction
<1>14. ~ Positive(pnl) => /\ ~ Positive(Share(pnl, basis))
                          /\ ~ Positive(Share(exTop, Minus(basis, top.basis)))
  BY <1>3, <1>9, <1>12, ShareOfLoss
<1>15. /\ IsFraction(g.pnl) /\ IsFraction(g.roi) /\ IsFraction(g.gross) /\ IsFraction(g.wins)
       /\ IsFraction(g.concentration) /\ IsFraction(g.pnlExTop) /\ IsFraction(g.roiExTop)
       /\ IsFraction(g.unmatched) /\ g.positions \in Nat
  BY <1>3, <1>6, <1>8, <1>9, <1>10, <1>11, <1>13
<1>16. Positive(g.pnl) \/ Unprofitable(g)
  <2>1. /\ g.pnl = pnl /\ g.roi = Share(pnl, basis) /\ g.wins = wins
        /\ g.roiExTop = Share(exTop, Minus(basis, top.basis))
    OBVIOUS
  <2> HIDE DEF g
  <2> QED BY <1>5, <1>14, <2>1 DEF Unprofitable
<1> HIDE DEF g
<1> QED BY <1>2, <1>15, <1>16 DEF PerformanceShape

-----------------------------------------------------------------------------
(* The score of a wallet *)

(* A score adds the points of its parts. *)
LEMMA PartsAddUp ==
  ASSUME NEW n \in Nat, NEW f, DOMAIN f = 1 .. n, NEW U \in [1 .. n -> Int], NEW E \in Nat \ {0},
         \A i \in 1 .. n : UpTo(f[i], U[i], E)
  PROVE  /\ n = 6 => UpTo(Sum(f), U[1] + U[2] + U[3] + U[4] + U[5] + U[6], E)
         /\ n = 7 => UpTo(Sum(f), U[1] + U[2] + U[3] + U[4] + U[5] + U[6] + U[7], E)
         /\ n = 8 => UpTo(Sum(f), U[1] + U[2] + U[3] + U[4] + U[5] + U[6] + U[7] + U[8], E)
<1>1. 1 .. n \in SUBSET (0 .. n) /\ DOMAIN U = 1 .. n
  OBVIOUS
<1>2. Bounded(f, U, 1 .. n, E)
  BY DEF Bounded
<1>3. UpTo(Sum(f), SumFunction(U), E)
  BY <1>1, <1>2, SumUpTo
<1> QED BY <1>3, SumOfFew

(* The grade A takes the highest bound, and none is reached with E. *)
LEMMA GradeIs ==
  ASSUME NEW score, NEW bounds
  PROVE  /\ Grade(score, bounds) = "A" => AtMost(Whole(bounds[1]), score)
         /\ (\A i \in 1 .. 4 : ~ AtMost(Whole(bounds[i]), score)) => Grade(score, bounds) = "E"
<1> DEFINE reached == {i \in 1 .. 4 : AtMost(Whole(bounds[i]), score)}
           least == Min(reached \cup {5})
<1>1. reached \cup {5} \in SUBSET Nat /\ reached \cup {5} # {}
  OBVIOUS
<1>2. reached \subseteq 1 .. 4
  OBVIOUS
<1>3. least \in reached \cup {5}
  <2> HIDE DEF reached
  <2> QED BY <1>1, MinIsIn
<1>4. Grade(score, bounds) = <<"A", "B", "C", "D", "E">>[least]
  BY DEF Grade
<1>5. ASSUME \A i \in 1 .. 4 : ~ AtMost(Whole(bounds[i]), score)
      PROVE  Grade(score, bounds) = "E"
  <2>1. reached = {}
    BY <1>5
  <2> HIDE DEF reached, least
  <2>2. least = 5
    BY <1>3, <2>1
  <2> QED BY <1>4, <2>2
<1>6. ASSUME Grade(score, bounds) = "A" PROVE AtMost(Whole(bounds[1]), score)
  <2>1. least = 1
    <3> HIDE DEF reached, least
    <3>1. least \in 1 .. 5
      BY <1>2, <1>3
    <3>2. least = 1 \/ least = 2 \/ least = 3 \/ least = 4 \/ least = 5
      BY <3>1
    <3> QED BY <1>4, <1>6, <3>2
  <2>2. 1 \in reached
    <3> HIDE DEF reached, least
    <3> QED BY <1>3, <2>1
  <2> QED BY <2>2
<1> QED BY <1>5, <1>6

(* What is measured of a wallet, and what is stored of it. *)
Measured(m) ==
  /\ m.trades \in Nat /\ m.tokens \in Nat /\ m.buys \in Nat /\ m.sells \in Int
  /\ m.priced \in Nat /\ m.sold \in Int

SnapshotShape(s) ==
  /\ IsFraction(s.pnl) /\ IsFraction(s.wins) /\ IsFraction(s.concentration)
  /\ IsFraction(s.pnlExTop) /\ IsFraction(s.roiExTop) /\ IsFraction(s.unmatched)
  /\ IsFraction(s.pricedRatio) /\ s.positions \in Nat

(* Parts of scores are fractions. *)
LEMMA FractionParts ==
  ASSUME NEW x, IsFraction(x)
  PROVE  IsFraction(Rest(x)) /\ IsFraction(Between0And1(x))
<1>1. IsFraction(Rest(x))
  <2>1. IsFraction(One)
    BY WholeIsFraction
  <2> QED BY <2>1, PlusIsFraction DEF Rest
<1>2. IsFraction(Between0And1(x))
  <2>1. 1 \in Nat \ {0} /\ Caps(x, 1, 1)
    BY DEF Caps
  <2>2. UpTo(Between0And1(x), 1, 1)
    BY <2>1, ClampedUpTo
  <2> QED BY <2>2 DEF UpTo
<1> QED BY <1>1, <1>2

(* All the points of a part, at most. *)
LEMMA FullPoints ==
  ASSUME NEW k \in Nat, NEW x, IsFraction(x), NEW E \in Nat \ {0}
  PROVE  UpTo(Points(k, x), k * E, E)
<1>1. Caps(x, E, E)
  BY DEF Caps
<1> QED BY <1>1, PointsUpTo

(* What is not positive gets no points. *)
LEMMA NoPoints ==
  ASSUME NEW x, IsFraction(x), ~ Positive(x), NEW E \in Nat \ {0}, NEW k \in Nat
  PROVE  UpTo(Points(10, Times(x, Whole(k))), 0, E)
<1> DEFINE y == Times(x, Whole(k))
<1>1. Is(x, x[1], x[2]) /\ x[1] \in Int /\ x[2] \in Nat \ {0} /\ x[1] <= 0
  BY DEF IsFraction, Is, Positive
<1>2. Is(Whole(k), k, 1)
  BY WholeIs
<1>3. Is(y, x[1] * k, x[2] * 1)
  BY <1>1, <1>2, TimesIs
<1>4. x[1] * k <= 0 * k /\ x[1] * k \in Int /\ x[2] * 1 = x[2]
  <2> DEFINE n == x[1]
  <2>1. n \in Int /\ n <= 0
    BY <1>1
  <2> HIDE DEF n
  <2>2. n * k <= 0 * k /\ n * k \in Int
    BY <2>1, Monotone
  <2> QED BY <1>1, <2>2 DEF n
<1> HIDE DEF y
<1>5. ~ Positive(y)
  <2> DEFINE n == x[1] * k
             d == x[2]
  <2>1. Is(y, n, d) /\ n \in Int /\ d \in Nat \ {0} /\ n <= 0
    BY <1>1, <1>3, <1>4
  <2> HIDE DEF n, d
  <2>2. Positive(y) <=> n > 0
    BY <2>1, PositiveIs
  <2> QED BY <2>1, <2>2
<1>6. IsFraction(y)
  <2>1. IsFraction(Whole(k))
    BY WholeIsFraction
  <2> QED BY <2>1, TimesIsFraction DEF y
<1>7. y[1] * E <= 0 * y[2]
  <2> DEFINE n == y[1]
             d == y[2]
  <2>1. n \in Int /\ n <= 0 /\ d \in Nat
    BY <1>5, <1>6 DEF IsFraction, Positive
  <2> HIDE DEF n, d
  <2>2. n * E <= 0 * E
    BY <2>1, Monotone
  <2>3. n * E <= 0 * d
    BY <2>1, <2>2
  <2> QED BY <2>3 DEF n, d
<1>8. Caps(y, 0, E)
  BY <1>7 DEF Caps
<1>9. UpTo(Points(10, y), 10 * 0, E)
  BY <1>6, <1>8, PointsUpTo
<1> QED BY <1>9 DEF y

(* The points a wallet gets for its return, its wins and its concentration. *)
LEMMA GainPoints ==
  ASSUME NEW f, PerformanceShape(f), NEW E \in Nat \ {0}
  PROVE  LET p == PerformancePoints(f)
         IN /\ UpTo(p[1], 10 * E, E) /\ UpTo(p[2], 10 * E, E)
            /\ UpTo(p[3], 5 * E, E) /\ UpTo(p[4], 10 * E, E)
<1>1. /\ IsFraction(f.roi) /\ IsFraction(f.wins) /\ IsFraction(f.concentration)
      /\ IsFraction(f.roiExTop)
  BY DEF PerformanceShape
<1>2. IsFraction(Whole(2)) /\ IsFraction(Frac(5, 4))
  BY WholeIsFraction, FracIsFraction
<1>3. IsFraction(Times(f.roi, Whole(2))) /\ IsFraction(Times(f.roiExTop, Whole(2)))
  BY <1>1, <1>2, TimesIsFraction
<1>4. IsFraction(Times(Rest(f.concentration), Frac(5, 4)))
  <2>1. IsFraction(Rest(f.concentration))
    BY <1>1, FractionParts
  <2> QED BY <1>2, <2>1, TimesIsFraction
<1>5. /\ UpTo(Points(10, Times(f.roi, Whole(2))), 10 * E, E)
      /\ UpTo(Points(10, f.wins), 10 * E, E)
      /\ UpTo(Points(5, Times(Rest(f.concentration), Frac(5, 4))), 5 * E, E)
      /\ UpTo(Points(10, Times(f.roiExTop, Whole(2))), 10 * E, E)
  BY <1>1, <1>3, <1>4, FullPoints
<1>6. UpTo(Zero, 5 * E, E)
  <2>1. 5 * E \in Nat
    OBVIOUS
  <2> QED BY <2>1, ZeroUpTo
<1> QED BY <1>5, <1>6 DEF PerformancePoints

(* Without a profit there are none for the return, and not all for the wins. *)
LEMMA LossPoints ==
  ASSUME NEW f, PerformanceShape(f), ~ Positive(f.pnl)
  PROVE  \E n \in Nat \ {0} :
           LET p == PerformancePoints(f)
           IN UpTo(p[1], 0, n) /\ UpTo(p[2], 10 * (n - 1), n) /\ UpTo(p[4], 0, n)
<1>1. /\ IsFraction(f.roi) /\ IsFraction(f.wins) /\ IsFraction(f.roiExTop)
      /\ ~ Positive(f.roi) /\ ~ Positive(f.roiExTop)
  BY DEF PerformanceShape, Unprofitable
<1>2. PICK n \in Nat \ {0} : f.wins[1] * n <= (n - 1) * f.wins[2]
  BY DEF PerformanceShape, Unprofitable
<1>3. UpTo(Points(10, Times(f.roi, Whole(2))), 0, n)
  BY <1>1, NoPoints
<1>4. UpTo(Points(10, Times(f.roiExTop, Whole(2))), 0, n)
  BY <1>1, NoPoints
<1>5. UpTo(Points(10, f.wins), 10 * (n - 1), n)
  <2>1. Caps(f.wins, n - 1, n)
    BY <1>2 DEF Caps
  <2> QED BY <1>1, <2>1, PointsUpTo
<1> QED BY <1>3, <1>4, <1>5 DEF PerformancePoints

(* The places of a list, one by one. *)
LEMMA OneOfEight ==
  \A i \in 1 .. 8 : i = 1 \/ i = 2 \/ i = 3 \/ i = 4 \/ i = 5 \/ i = 6 \/ i = 7 \/ i = 8
OBVIOUS

(* A list of four after a list of four is a list of eight. *)
LEMMA FourAndFour ==
  ASSUME NEW a1, NEW a2, NEW a3, NEW a4, NEW q, q = <<q[1], q[2], q[3], q[4]>>
  PROVE  << a1, a2, a3, a4 >> \o q = << a1, a2, a3, a4, q[1], q[2], q[3], q[4] >>
<1> DEFINE b1 == q[1]
           b2 == q[2]
           b3 == q[3]
           b4 == q[4]
           c == << a1, a2, a3, a4 >>
           d == << b1, b2, b3, b4 >>
           e == << a1, a2, a3, a4, b1, b2, b3, b4 >>
           S == {a1, a2, a3, a4, b1, b2, b3, b4}
<1>1. q = d
  OBVIOUS
<1> HIDE DEF b1, b2, b3, b4
<1>2. c \in Seq(S) /\ d \in Seq(S) /\ Len(c) = 4 /\ Len(d) = 4
  OBVIOUS
<1>3. /\ c[1] = a1 /\ c[2] = a2 /\ c[3] = a3 /\ c[4] = a4
      /\ d[1] = b1 /\ d[2] = b2 /\ d[3] = b3 /\ d[4] = b4
  OBVIOUS
<1>4. e \in Seq(S) /\ Len(e) = 8
  OBVIOUS
<1>5. /\ e[1] = a1 /\ e[2] = a2 /\ e[3] = a3 /\ e[4] = a4
      /\ e[5] = b1 /\ e[6] = b2 /\ e[7] = b3 /\ e[8] = b4
  OBVIOUS
<1> HIDE DEF c, d, e, S
<1> DEFINE g == c \o d
<1>6. /\ g \in Seq(S) /\ Len(g) = Len(c) + Len(d)
      /\ \A i \in 1 .. Len(c) + Len(d) :
           g[i] = IF i <= Len(c) THEN c[i] ELSE d[i - Len(c)]
  BY <1>2, ConcatProperties
<1> HIDE DEF g
<1>7. Len(g) = 8 /\ \A i \in 1 .. 8 : g[i] = IF i <= 4 THEN c[i] ELSE d[i - 4]
  BY <1>2, <1>6
<1>8. /\ g[1] = c[1] /\ g[2] = c[2] /\ g[3] = c[3] /\ g[4] = c[4]
      /\ g[5] = d[1] /\ g[6] = d[2] /\ g[7] = d[3] /\ g[8] = d[4]
  BY <1>7
<1>9. \A i \in 1 .. Len(g) : g[i] = e[i]
  BY <1>3, <1>5, <1>7, <1>8, OneOfEight
<1>10. g = e
  BY <1>4, <1>6, <1>7, <1>9, SeqEqual
<1> QED BY <1>1, <1>10 DEF b1, b2, b3, b4, c, d, e, g

(* A wallet is scored from 0 to 100.  Without a profit its returns bring none of
   their 20 points and not every position won, so less than the 80 points for an A
   are left. *)
LEMMA WalletScoreIs ==
  ASSUME NEW m, Measured(m), NEW positions, PerformanceShape(Performance(positions, m.sold))
  PROVE  LET w == WalletScore(m, positions)
         IN /\ SnapshotShape(w) /\ UpTo(w.score, 100, 1)
            /\ w.grade = "A" => Positive(w.pnl)
<1> DEFINE f == Performance(positions, m.sold)
           priced == Share(Whole(m.priced), Whole(m.trades))
           most == Max({m.buys, 1})
           x1 == Frac(m.trades, FullTrades)
           x2 == Frac(m.tokens, FullTokens)
           x3 == Frac(m.sells, most)
           x4 == Times(Rest(f.unmatched), priced)
           p == PerformancePoints(f)
           parts == << Points(20, x1), Points(15, x2), Points(20, x3), Points(10, x4),
                       p[1], p[2], p[3], p[4] >>
           score == Sum(parts)
           w == Snapshot(f, priced, score)
<1>1. WalletScore(m, positions) = w
  <2>1. << Points(20, x1), Points(15, x2), Points(20, x3), Points(10, x4) >> \o p = parts
    <3>1. p = <<p[1], p[2], p[3], p[4]>>
      BY DEF PerformancePoints
    <3> HIDE DEF p
    <3> QED BY <3>1, FourAndFour
  <2> HIDE DEF parts, x1, x2, x3, x4, priced, f, p
  <2>2. Sum(<< Points(20, x1), Points(15, x2), Points(20, x3), Points(10, x4) >> \o p) = score
    BY <2>1
  <2> HIDE DEF score
  <2> QED BY <2>2 DEF WalletScore, x1, x2, x3, x4, priced, f, p, most
<1>2. FullTrades \in Nat \ {0} /\ FullTokens \in Nat \ {0}
  BY ScoreAssumption
<1>3. most \in Nat \ {0}
  <2>1. most = IF m.buys <= 1 THEN 1 ELSE m.buys
    BY GreaterOf DEF Measured
  <2> HIDE DEF most
  <2> QED BY <2>1 DEF Measured
<1>4. IsFraction(priced)
  <2>1. IsFraction(Whole(m.priced)) /\ IsFraction(Whole(m.trades))
    BY WholeIsFraction DEF Measured
  <2> QED BY <2>1, TimesIsFraction
<1>5. PerformanceShape(f)
  OBVIOUS
<1> HIDE DEF f, priced, most
<1>6. IsFraction(x1) /\ IsFraction(x2) /\ IsFraction(x3)
  BY <1>2, <1>3, FracIsFraction DEF Measured
<1>7. IsFraction(x4)
  <2>1. IsFraction(Rest(f.unmatched))
    BY <1>5, FractionParts DEF PerformanceShape
  <2> QED BY <1>4, <2>1, TimesIsFraction
<1> HIDE DEF x1, x2, x3, x4
<1>8. ASSUME NEW E \in Nat \ {0}
      PROVE  /\ UpTo(Points(20, x1), 20 * E, E) /\ UpTo(Points(15, x2), 15 * E, E)
             /\ UpTo(Points(20, x3), 20 * E, E) /\ UpTo(Points(10, x4), 10 * E, E)
  BY <1>6, <1>7, FullPoints
<1>9. UpTo(score, 100, 1)
  <2> DEFINE a1 == Points(20, x1)
             a2 == Points(15, x2)
             a3 == Points(20, x3)
             a4 == Points(10, x4)
  <2>1. 1 \in Nat \ {0}
    OBVIOUS
  <2>2. UpTo(a1, 20, 1) /\ UpTo(a2, 15, 1) /\ UpTo(a3, 20, 1) /\ UpTo(a4, 10, 1)
    BY <1>8, <2>1
  <2>3. UpTo(p[1], 10, 1) /\ UpTo(p[2], 10, 1) /\ UpTo(p[3], 5, 1) /\ UpTo(p[4], 10, 1)
    BY <1>5, <2>1, GainPoints
  <2> DEFINE g == <<a1, a2, a3, a4, p[1], p[2], p[3], p[4]>>
             U == <<20, 15, 20, 10, 10, 10, 5, 10>>
  <2> HIDE DEF a1, a2, a3, a4, p
  <2>4. DOMAIN g = 1 .. 8 /\ U \in [1 .. 8 -> Int]
    OBVIOUS
  <2>5. U[1] + U[2] + U[3] + U[4] + U[5] + U[6] + U[7] + U[8] = 100
    OBVIOUS
  <2>6. \A i \in 1 .. 8 : UpTo(g[i], U[i], 1)
    <3>1. /\ UpTo(g[1], U[1], 1) /\ UpTo(g[2], U[2], 1) /\ UpTo(g[3], U[3], 1)
          /\ UpTo(g[4], U[4], 1) /\ UpTo(g[5], U[5], 1) /\ UpTo(g[6], U[6], 1)
          /\ UpTo(g[7], U[7], 1) /\ UpTo(g[8], U[8], 1)
      <4>1. /\ g[1] = a1 /\ g[2] = a2 /\ g[3] = a3 /\ g[4] = a4
            /\ g[5] = p[1] /\ g[6] = p[2] /\ g[7] = p[3] /\ g[8] = p[4]
        OBVIOUS
      <4>2. /\ U[1] = 20 /\ U[2] = 15 /\ U[3] = 20 /\ U[4] = 10
            /\ U[5] = 10 /\ U[6] = 10 /\ U[7] = 5 /\ U[8] = 10
        OBVIOUS
      <4> HIDE DEF g, U
      <4> QED BY <2>2, <2>3, <4>1, <4>2
    <3> HIDE DEF g, U
    <3> QED BY <3>1, OneOfEight
  <2> HIDE DEF g, U
  <2>7. UpTo(Sum(g), 100, 1)
    <3> DEFINE E == 1
               all == 100
    <3>1. /\ U[1] + U[2] + U[3] + U[4] + U[5] + U[6] + U[7] + U[8] = all
          /\ E \in Nat \ {0} /\ \A i \in 1 .. 8 : UpTo(g[i], U[i], E)
      BY <2>5, <2>6
    <3> HIDE DEF E, all
    <3>2. UpTo(Sum(g), all, E)
      BY <2>4, <3>1, PartsAddUp
    <3> QED BY <3>2 DEF E, all
  <2> QED BY <2>7 DEF g, a1, a2, a3, a4
<1>10. ASSUME ~ Positive(f.pnl) PROVE w.grade # "A"
  <2>1. PICK n \in Nat \ {0} : /\ UpTo(p[1], 0, n) /\ UpTo(p[2], 10 * (n - 1), n)
                               /\ UpTo(p[4], 0, n)
    BY <1>5, <1>10, LossPoints
  <2>2. UpTo(p[3], 5 * n, n)
    BY <1>5, GainPoints
  <2> DEFINE a1 == Points(20, x1)
             a2 == Points(15, x2)
             a3 == Points(20, x3)
             a4 == Points(10, x4)
             u1 == 20 * n
             u2 == 15 * n
             u3 == 20 * n
             u4 == 10 * n
             u6 == 10 * (n - 1)
             u7 == 5 * n
  <2>3. UpTo(a1, u1, n) /\ UpTo(a2, u2, n) /\ UpTo(a3, u3, n) /\ UpTo(a4, u4, n)
    BY <1>8
  <2>4. /\ u1 \in Int /\ u2 \in Int /\ u3 \in Int /\ u4 \in Int /\ u6 \in Int /\ u7 \in Int
        /\ u1 + u2 + u3 + u4 + 0 + u6 + u7 + 0 < 80 * n
        /\ u1 + u2 + u3 + u4 + 0 + u6 + u7 + 0 \in Int
    OBVIOUS
  <2>5. UpTo(p[2], u6, n) /\ UpTo(p[3], u7, n)
    BY <2>1, <2>2
  <2> DEFINE g == <<a1, a2, a3, a4, p[1], p[2], p[3], p[4]>>
             U == <<u1, u2, u3, u4, 0, u6, u7, 0>>
             all == u1 + u2 + u3 + u4 + 0 + u6 + u7 + 0
  <2> HIDE DEF a1, a2, a3, a4, p, u1, u2, u3, u4, u6, u7
  <2>6. /\ DOMAIN g = 1 .. 8 /\ U \in [1 .. 8 -> Int]
        /\ U[1] + U[2] + U[3] + U[4] + U[5] + U[6] + U[7] + U[8] = all
        /\ \A i \in 1 .. 8 : UpTo(g[i], U[i], n)
    <3>1. DOMAIN g = 1 .. 8 /\ U \in [1 .. 8 -> Int]
      BY <2>4
    <3>2. U[1] + U[2] + U[3] + U[4] + U[5] + U[6] + U[7] + U[8] = all
      OBVIOUS
    <3>3. \A i \in 1 .. 8 : UpTo(g[i], U[i], n)
      BY <2>1, <2>3, <2>5, OneOfEight
    <3> QED BY <3>1, <3>2, <3>3
  <2> HIDE DEF g, U
  <2>7. UpTo(score, all, n)
    <3>1. UpTo(Sum(g), all, n)
      BY <2>6, PartsAddUp
    <3> QED BY <3>1 DEF g, a1, a2, a3, a4
  <2>8. all < 80 * n /\ all \in Int
    BY <2>4
  <2> HIDE DEF all, score
  <2>9. ~ AtMost(Whole(80), score)
    BY <2>7, <2>8, CapIs
  <2>10. Grade(score, <<80, 65, 50, 35>>) # "A"
    BY <2>9, GradeIs
  <2> QED BY <2>10 DEF Snapshot
<1> HIDE DEF score
<1>11. SnapshotShape(w) /\ w.score = score /\ w.pnl = f.pnl
  <2>1. IsFraction(Between0And1(f.unmatched))
    BY <1>5, FractionParts DEF PerformanceShape
  <2> QED BY <1>4, <1>5, <2>1 DEF SnapshotShape, Snapshot, PerformanceShape
<1> HIDE DEF w
<1> QED BY <1>1, <1>9, <1>10, <1>11

(* The places of a shorter list. *)
LEMMA OneOfSix ==
  \A i \in 1 .. 6 : i = 1 \/ i = 2 \/ i = 3 \/ i = 4 \/ i = 5 \/ i = 6
OBVIOUS

(* Every reason has its factor. *)
LEMMA FactorIs ==
  ASSUME NEW s
  PROVE  IsFraction(StyleFactor[Reason(s)])
<1> DEFINE R == Reasons(s)
           Holding == {i \in DOMAIN R : R[i][1]}
           least == Min(Holding)
<1>1. DOMAIN R = 1 .. 6 /\ R[6][1] = TRUE
  BY DEF Reasons
<1>2. /\ R[1][2] = "insufficient_history" /\ R[2][2] = "multi_token_burst"
      /\ R[3][2] = "repeated_buy_sell_switching" /\ R[4][2] = "rapid_round_trip"
      /\ R[5][2] = "no_proven_long_hold" /\ R[6][2] = "none"
  BY DEF Reasons
<1>3. Reason(s) = R[least][2]
  BY DEF Reason
<1> HIDE DEF R
<1>4. Holding \in SUBSET Nat /\ Holding # {} /\ Holding \subseteq 1 .. 6
  <2>1. 6 \in Holding
    BY <1>1
  <2>2. Holding \subseteq 1 .. 6
    BY <1>1
  <2> HIDE DEF Holding
  <2> QED BY <2>1, <2>2
<1>5. least \in 1 .. 6
  <2> HIDE DEF Holding
  <2> QED BY <1>4, MinIsIn
<1> HIDE DEF least
<1> DEFINE r == Reason(s)
<1>6. r \in {"none", "no_proven_long_hold", "insufficient_history",
             "repeated_buy_sell_switching", "rapid_round_trip", "multi_token_burst"}
  <2>1. least = 1 \/ least = 2 \/ least = 3 \/ least = 4 \/ least = 5 \/ least = 6
    BY <1>5, OneOfSix
  <2> QED BY <1>2, <1>3, <2>1
<1> HIDE DEF r
<1>7. /\ IsFraction(One) /\ IsFraction(Zero) /\ IsFraction(Frac(6, 10)) /\ IsFraction(Frac(4, 10))
      /\ IsFraction(Frac(3, 10)) /\ IsFraction(Frac(1, 10))
  BY WholeIsFraction, FracIsFraction
<1>8. IsFraction(StyleFactor[r])
  BY <1>6, <1>7 DEF StyleFactor
<1> QED BY <1>8 DEF r

(* The points of a copy score come to 100 at most. *)
LEMMA CopyScoreIs ==
  ASSUME NEW s, SnapshotShape(s), NEW style, style.burst \in Int
  PROVE  UpTo(CopyScore(s, style), 100, 1)
<1> DEFINE x1 == s.pricedRatio
           x2 == Rest(s.unmatched)
           x3 == Frac(s.positions, 10)
           x4 == s.wins
           x5 == Rest(s.concentration)
           x6 == Times(Plus(s.roiExTop, Frac(1, 4)), Whole(2))
           x7 == StyleFactor[Reason(style)]
           x8 == Frac(10 - style.burst, 9)
           g == << Points(25, x1), Points(20, x2), Points(15, x3), Points(15, x4),
                   Points(10, x5), Points(5, x6), Points(5, x7), Points(5, x8) >>
           U == << 25, 20, 15, 15, 10, 5, 5, 5 >>
<1>1. CopyScore(s, style) = Sum(g)
  BY DEF CopyScore
<1>2. IsFraction(x1) /\ IsFraction(x2) /\ IsFraction(x4) /\ IsFraction(x5)
  BY FractionParts DEF SnapshotShape
<1>3. IsFraction(x3) /\ IsFraction(x8)
  <2>1. 10 - style.burst \in Int /\ s.positions \in Int
    BY DEF SnapshotShape
  <2> QED BY <2>1, FracIsFraction
<1>4. IsFraction(x6)
  <2>1. IsFraction(Frac(1, 4)) /\ IsFraction(Whole(2))
    BY FracIsFraction, WholeIsFraction
  <2>2. IsFraction(Plus(s.roiExTop, Frac(1, 4)))
    BY <2>1, PlusIsFraction DEF SnapshotShape
  <2> QED BY <2>1, <2>2, TimesIsFraction
<1>5. IsFraction(x7)
  BY FactorIs
<1> HIDE DEF x1, x2, x3, x4, x5, x6, x7, x8
<1> DEFINE E == 1
           all == 100
<1>6. /\ UpTo(g[1], U[1], E) /\ UpTo(g[2], U[2], E) /\ UpTo(g[3], U[3], E) /\ UpTo(g[4], U[4], E)
      /\ UpTo(g[5], U[5], E) /\ UpTo(g[6], U[6], E) /\ UpTo(g[7], U[7], E) /\ UpTo(g[8], U[8], E)
  <2>1. /\ g[1] = Points(25, x1) /\ g[2] = Points(20, x2) /\ g[3] = Points(15, x3)
        /\ g[4] = Points(15, x4) /\ g[5] = Points(10, x5) /\ g[6] = Points(5, x6)
        /\ g[7] = Points(5, x7) /\ g[8] = Points(5, x8)
    OBVIOUS
  <2>2. /\ U[1] = 25 * E /\ U[2] = 20 * E /\ U[3] = 15 * E /\ U[4] = 15 * E
        /\ U[5] = 10 * E /\ U[6] = 5 * E /\ U[7] = 5 * E /\ U[8] = 5 * E
    OBVIOUS
  <2>3. E \in Nat \ {0}
    OBVIOUS
  <2> HIDE DEF g, U, E
  <2>4. /\ UpTo(Points(25, x1), 25 * E, E) /\ UpTo(Points(20, x2), 20 * E, E)
        /\ UpTo(Points(15, x3), 15 * E, E) /\ UpTo(Points(15, x4), 15 * E, E)
        /\ UpTo(Points(10, x5), 10 * E, E) /\ UpTo(Points(5, x6), 5 * E, E)
        /\ UpTo(Points(5, x7), 5 * E, E) /\ UpTo(Points(5, x8), 5 * E, E)
    BY <1>2, <1>3, <1>4, <1>5, <2>3, FullPoints
  <2> QED BY <2>1, <2>2, <2>4
<1>7. /\ DOMAIN g = 1 .. 8 /\ U \in [1 .. 8 -> Int] /\ E \in Nat \ {0}
      /\ U[1] + U[2] + U[3] + U[4] + U[5] + U[6] + U[7] + U[8] = all
  OBVIOUS
<1> HIDE DEF g, U, E, all
<1>8. \A i \in 1 .. 8 : UpTo(g[i], U[i], E)
  BY <1>6, OneOfEight
<1>9. UpTo(Sum(g), all, E)
  BY <1>7, <1>8, PartsAddUp
<1> QED BY <1>1, <1>9 DEF E, all

(* Totals and counts of a history are natural numbers. *)
LEMMA TotalsAreNat ==
  ASSUME NEW h \in Seq(TradeType)
  PROVE  /\ Total(h, Sold) \in Nat /\ Total(h, Bought) \in Nat
         /\ Count(h, IsBuy) \in Nat /\ Count(h, Priced) \in Nat
         /\ Len(h) \in Nat /\ Cardinality(Tokens(h)) \in Nat
<1> DEFINE sold == [i \in DOMAIN h |-> Sold(h[i])]
           bought == [i \in DOMAIN h |-> Bought(h[i])]
<1>1. DOMAIN h = 1 .. Len(h) /\ Len(h) \in Nat
  OBVIOUS
<1>2. DOMAIN h \in SUBSET (0 .. Len(h))
  BY <1>1
<1>3. ASSUME NEW i \in DOMAIN h PROVE Sold(h[i]) \in Nat /\ Bought(h[i]) \in Nat
  <2>1. h[i] \in TradeType
    OBVIOUS
  <2> QED BY <2>1 DEF TradeType, Sold, Bought
<1>4. sold \in [DOMAIN h -> Nat] /\ bought \in [DOMAIN h -> Nat]
  BY <1>3
<1> HIDE DEF sold, bought
<1>5. SumFunction(sold) \in Nat /\ SumFunction(bought) \in Nat
  BY <1>1, <1>2, <1>4, SumIsNat
<1>6. \A S \in SUBSET (DOMAIN h) : Cardinality(S) \in Nat
  <2>1. IsFiniteSet(1 .. Len(h))
    BY <1>1, FS_Interval
  <2> QED BY <1>1, <2>1, FS_Subset, FS_CardinalityType
<1>7. Count(h, IsBuy) \in Nat /\ Count(h, Priced) \in Nat
  BY <1>6 DEF Count
<1>8. Cardinality(Tokens(h)) \in Nat
  <2>1. PICK N \in Nat : Tokens(h) \in SUBSET (0 .. N)
    BY TokensAreBounded
  <2>2. IsFiniteSet(0 .. N)
    BY FS_Interval
  <2> QED BY <2>1, <2>2, FS_Subset, FS_CardinalityType
<1> QED BY <1>1, <1>5, <1>7, <1>8 DEF Total, sold, bought

(* What is measured of a wallet. *)
LEMMA WalletMeasured ==
  ASSUME NEW h \in Seq(TradeType)
  PROVE  Measured(WalletMetrics(h))
<1>1. /\ Total(h, Sold) \in Nat /\ Count(h, IsBuy) \in Nat /\ Count(h, Priced) \in Nat
      /\ Len(h) \in Nat /\ Cardinality(Tokens(h)) \in Nat
  BY TotalsAreNat
<1>2. Len(h) - Count(h, IsBuy) \in Int
  BY <1>1
<1> QED BY <1>1, <1>2 DEF Measured, WalletMetrics

(* The busiest window has a number of trades. *)
LEMMA BurstIsNat ==
  ASSUME NEW h \in Seq(TradeType), NEW now
  PROVE  Style(h, now).burst \in Nat
<1> DEFINE g == Ordered(h)
<1>1. g \in Seq(TradeType) /\ InOrder(g)
  BY OrderedIs
<1>2. Style(h, now).burst = RollingTrades(g, Burst)
  BY DEF Style
<1>3. Burst \in Nat
  BY StyleAssumption
<1> HIDE DEF g
<1>4. PICK W : Rolls(W, g, Burst) /\ RollingTrades(g, Burst) = W[Len(g)].most
  BY <1>1, <1>3, RollingRuns
<1>5. RollingTrades(g, Burst) \in Nat
  BY <1>1, <1>3, <1>4, AllWindowsSeen DEF WindowsSeen
<1> QED BY <1>2, <1>5

(* What a wallet is given for its trades: no A without a profit, no score beyond its
   bounds, and no automatic copying without a profit. *)
LEMMA WalletRated ==
  ASSUME NEW h \in Seq(TradeType), MovesTokens(h), NEW now
  PROVE  RatedByProfit(ScoreWallet(h), Style(h, now))
<1> DEFINE m == WalletMetrics(h)
           p == WalletPositions(h, TRUE)
           w == WalletScore(m, p)
           style == Style(h, now)
<1>1. ScoreWallet(h) = w
  BY DEF ScoreWallet
<1>2. Measured(m)
  BY WalletMeasured
<1>3. PICK N \in Nat : Tokens(h) \in SUBSET (0 .. N)
  BY TokensAreBounded
<1>4. SoundPositions(p, Tokens(h))
  BY PositionsAreSound
<1>5. style.burst \in Nat
  BY BurstIsNat
<1> HIDE DEF m, p, style
<1>6. PerformanceShape(Performance(p, m.sold))
  <2>1. m.sold \in Int
    BY <1>2 DEF Measured
  <2> QED BY <1>3, <1>4, <2>1, PerformanceIs
<1>7. SnapshotShape(w) /\ UpTo(w.score, 100, 1) /\ (w.grade = "A" => Positive(w.pnl))
  BY <1>2, <1>6, WalletScoreIs
<1> HIDE DEF w
<1>8. UpTo(CopyScore(w, style), 100, 1)
  BY <1>5, <1>7, CopyScoreIs
<1>9. ASSUME NEW score, UpTo(score, 100, 1) PROVE Within0And100(score)
  BY <1>9, CapIs DEF Within0And100
<1>10. CopyMode(w, style) = "automatic" => Positive(w.pnl)
  BY DEF CopyMode, RobustHistory
<1>11. RatedByProfit(w, style)
  BY <1>7, <1>8, <1>9, <1>10 DEF RatedByProfit
<1> QED BY <1>1, <1>11 DEF style

-----------------------------------------------------------------------------
(* The scores of a token *)

(* Finitely many numbers are bounded. *)
LEMMA FewAreBounded ==
  ASSUME NEW S \in SUBSET Nat, IsFiniteSet(S)
  PROVE  \E N \in Nat : S \in SUBSET (0 .. N)
<1>1. CASE S = {}
  BY <1>1
<1>2. CASE S # {}
  <2> DEFINE f == [x \in S |-> Whole(x)]
  <2>1. \A x \in S : f[x] = Whole(x)
    OBVIOUS
  <2> HIDE DEF f
  <2>2. AllFractions(f, S)
    <3>1. ASSUME NEW x \in S PROVE IsFraction(f[x])
      <4>1. x \in Int
        OBVIOUS
      <4> QED BY <2>1, <4>1, WholeIsFraction
    <3> QED BY <3>1 DEF AllFractions
  <2>3. PICK N \in S : \A x \in S : AtMost(f[x], f[N])
    BY <1>2, <2>2, GreatestFraction
  <2>4. \A x \in S : x <= N
    BY <2>1, <2>3 DEF AtMost, Whole
  <2>5. N \in Nat /\ S \in SUBSET (0 .. N)
    BY <2>4
  <2> QED BY <2>5
<1> QED BY <1>1, <1>2

(* Who holds a token, as far as it is scored. *)
HolderShape(s) ==
  /\ s.observed \in Nat /\ s.active \in Nat
  /\ IsFraction(s.topShare) /\ IsFraction(s.incomplete)

(* What is summed up of the holders of a token. *)
LEMMA HoldersAre ==
  ASSUME NEW h \in Seq(TradeType), NEW t
  PROVE  HolderShape(HolderSummary(h, t))
<1> DEFINE k == OfToken(Ordered(h), t)
           T == Wallets(k)
           of == [w \in T |-> OfWallet(k, w)]
           active == {w \in T : Quantity(of[w]) > 0}
           held == [w \in active |-> Quantity(of[w])]
           incomplete == {w \in T : UnmatchedSells(of[w]) > 0}
           all == {held[w] : w \in active} \cup {0}
           s == [observed |-> Cardinality(T), active |-> Cardinality(active),
                 topShare |-> Share(Whole(Max(all)), Whole(SumFunction(held))),
                 incomplete |-> Share(Whole(Cardinality(incomplete)), Whole(Cardinality(T)))]
<1>1. HolderSummary(h, t) = s
  BY DEF HolderSummary, HolderAggregate, Active
<1>2. IsFiniteSet(T) /\ T \in SUBSET Nat
  <2>1. k \in Seq(TradeType)
    BY TokenTrades
  <2> HIDE DEF k
  <2> QED BY <2>1, WalletsAreFew
<1>3. held \in [active -> Nat]
  <2>1. ASSUME NEW w \in active PROVE Quantity(of[w]) \in Nat
    <3> DEFINE q == Quantity(of[w])
    <3>1. Quantity(OfWallet(k, w)) \in Int
      BY HeldIs
    <3>2. q \in Int /\ q > 0
      BY <3>1
    <3> HIDE DEF q
    <3>3. q \in Nat
      BY <3>2
    <3> QED BY <3>3 DEF q
  <2> HIDE DEF active, of
  <2> QED BY <2>1
<1>4. active \subseteq T /\ incomplete \subseteq T
  OBVIOUS
<1> HIDE DEF T, held, active, incomplete
<1>5. Cardinality(T) \in Nat /\ Cardinality(active) \in Nat /\ Cardinality(incomplete) \in Nat
  BY <1>2, <1>4, FS_Subset, FS_CardinalityType
<1>12. IsFiniteSet(active) /\ active \in SUBSET Nat
  BY <1>2, <1>4, FS_Subset
<1>6. SumFunction(held) \in Nat
  <2>1. PICK N \in Nat : active \in SUBSET (0 .. N)
    BY <1>12, FewAreBounded
  <2> QED BY <1>3, <2>1, SumIsNat
<1>7. Max(all) \in Nat
  <2>1. all \in SUBSET Nat /\ all # {}
    BY <1>3
  <2>2. IsFiniteSet(all)
    <3>1. IsFiniteSet({held[w] : w \in active})
      <4> DEFINE B == {held[w] : w \in active}
      <4>1. held \in [active -> B] /\ \A n \in B : \E w \in active : held[w] = n
        BY <1>3
      <4> HIDE DEF B
      <4>2. held \in Surjection(active, B)
        BY <4>1 DEF Surjection
      <4>3. IsFiniteSet(B)
        BY <1>12, <4>2, FS_Surjection
      <4> QED BY <4>3 DEF B
    <3>2. IsFiniteSet({0})
      BY FS_Singleton
    <3> QED BY <3>1, <3>2, FS_Union
  <2> HIDE DEF all
  <2>3. PICK N \in Nat : all \in SUBSET (0 .. N)
    BY <2>1, <2>2, FewAreBounded
  <2>4. Max(all) \in all
    BY <2>1, <2>3, MaxIsIn
  <2> QED BY <2>1, <2>4
<1> HIDE DEF all
<1>8. /\ IsFraction(Whole(Max(all))) /\ IsFraction(Whole(SumFunction(held)))
      /\ IsFraction(Whole(Cardinality(incomplete))) /\ IsFraction(Whole(Cardinality(T)))
  BY <1>5, <1>6, <1>7, WholeIsFraction
<1>9. IsFraction(s.topShare) /\ IsFraction(s.incomplete)
  BY <1>8, TimesIsFraction
<1>10. s.observed \in Nat /\ s.active \in Nat
  BY <1>5
<1> HIDE DEF s
<1> QED BY <1>1, <1>9, <1>10 DEF HolderShape

(* The sum of a single number. *)
LEMMA SumOfOne ==
  ASSUME NEW x \in Nat, NEW f \in [{x} -> Nat]
  PROVE  SumFunction(f) = f[x]
<1> DEFINE S == {x}
           it == CHOOSE j : SumsUp(j, f, S)
<1>1. DOMAIN f = S
  OBVIOUS
<1>2. SumsUp(it, f, S)
  <2>1. S \in SUBSET (0 .. x)
    OBVIOUS
  <2>2. \E j : SumsUp(j, f, S)
    <3> HIDE DEF S
    <3> QED BY <2>1, SumsExist
  <2> QED BY <2>2
<1>3. SumFunction(f) = it[S]
  BY <1>1, SumIsChosen
<1> HIDE DEF it
<1>4. \A s \in SUBSET S : it[s] = IF s = {} THEN 0 ELSE f[Chosen(s)] + it[s \ {Chosen(s)}]
  BY <1>2 DEF SumsUp
<1>5. Chosen(S) = x
  BY DEF Chosen
<1>6. S \in SUBSET S /\ {} \in SUBSET S /\ S # {} /\ S \ {x} = {}
  OBVIOUS
<1>7. it[{}] = 0
  BY <1>4, <1>6
<1>8. it[S] = f[x] + it[{}]
  BY <1>4, <1>5, <1>6
<1>9. f[x] \in Nat
  OBVIOUS
<1> QED BY <1>3, <1>7, <1>8, <1>9

(* A history of one trade: what is left of it by token. *)
LEMMA TheOnlyTrade ==
  ASSUME NEW h \in Seq(TradeType), Len(h) = 1, NEW t \in Tokens(h)
  PROVE  LET k == OfToken(Ordered(h), t)
         IN k \in Seq(TradeType) /\ Len(k) = 1 /\ k[1] = h[1] /\ Wallets(k) = {h[1].wallet}
<1> DEFINE k == OfToken(Ordered(h), t)
           D == DOMAIN h
           U == D \cap TradesOf(h, t)
<1>1. D = {1} /\ h[1] \in TradeType
  BY DEF D
<1>2. TradesOf(h, t) = {1}
  BY <1>1 DEF TradesOf, Tokens
<1>3. k \in Seq(TradeType) /\ Range(k) = {h[i] : i \in TradesOf(h, t)}
  BY TokenTrades
<1>4. k = Rows(h, U, Earlier(h))
  <2>1. D \in SUBSET (DOMAIN h)
    OBVIOUS
  <2>2. OfToken(Rows(h, D, Earlier(h)), t) = Rows(h, U, Earlier(h))
    BY <2>1, OfTokenInOrder
  <2> QED BY <2>2 DEF Ordered
<1>5. U = {1}
  BY <1>1, <1>2
<1>6. Len(k) = 1
  <2>1. U \in SUBSET (DOMAIN h) /\ Orders(Earlier(h), U)
    BY EarlierOrders
  <2> HIDE DEF k, U
  <2>2. Len(k) = Cardinality(U)
    BY <1>4, <2>1, RowsAre
  <2> QED BY <1>5, <2>2, FS_Singleton
<1> HIDE DEF k, U
<1>7. DOMAIN k = {1}
  BY <1>3, <1>6
<1>8. k[1] = h[1]
  <2>1. k[1] \in Range(k)
    BY <1>7 DEF Range
  <2> QED BY <1>2, <1>3, <2>1
<1>9. Wallets(k) = {h[1].wallet}
  BY <1>7, <1>8 DEF Wallets
<1> QED BY <1>3, <1>6, <1>8, <1>9 DEF k

(* After one trade, nobody else holds what its wallet holds. *)
LEMMA HoldersOfOne ==
  ASSUME NEW h \in Seq(TradeType), Len(h) = 1, NEW t \in Tokens(h)
  PROVE  LET s == HolderSummary(h, t)
         IN /\ s.observed = 1 /\ s.active \in {0, 1}
            /\ s.active = 0 \/ \E q \in Nat \ {0} : s.topShare = Share(Whole(q), Whole(q))
<1> DEFINE k == OfToken(Ordered(h), t)
           w0 == h[1].wallet
           T == Wallets(k)
           of == [w \in T |-> OfWallet(k, w)]
           active == {w \in T : Quantity(of[w]) > 0}
           held == [w \in active |-> Quantity(of[w])]
           incomplete == {w \in T : UnmatchedSells(of[w]) > 0}
           all == {held[w] : w \in active} \cup {0}
           q == Quantity(OfWallet(k, w0))
           s == [observed |-> Cardinality(T), active |-> Cardinality(active),
                 topShare |-> Share(Whole(Max(all)), Whole(SumFunction(held))),
                 incomplete |-> Share(Whole(Cardinality(incomplete)), Whole(Cardinality(T)))]
<1>1. HolderSummary(h, t) = s
  BY DEF HolderSummary, HolderAggregate, Active
<1>2. T = {w0}
  BY TheOnlyTrade
<1>3. w0 \in Nat
  <2>1. h[1] \in TradeType
    OBVIOUS
  <2> QED BY <2>1 DEF TradeType
<1>4. q \in Int
  BY HeldIs
<1>7. active = IF q > 0 THEN {w0} ELSE {}
  <2>1. of[w0] = OfWallet(k, w0)
    BY <1>2
  <2>2. Quantity(of[w0]) = q
    BY <2>1
  <2> HIDE DEF T, of, q, w0
  <2> QED BY <1>2, <2>2
<1>5. ASSUME q > 0 PROVE held \in [{w0} -> Nat] /\ held[w0] = q
  <2>1. of[w0] = OfWallet(k, w0)
    BY <1>2
  <2>2. active = {w0}
    <3> HIDE DEF active, w0, q
    <3> QED BY <1>5, <1>7
  <2>3. held = [w \in {w0} |-> Quantity(of[w])] /\ Quantity(of[w0]) = q
    BY <2>1, <2>2
  <2> HIDE DEF of, held, q, w0, active
  <2>4. held[w0] = q /\ q \in Nat
    BY <1>4, <1>5, <2>3
  <2> QED BY <2>3, <2>4
<1>6. ASSUME q > 0 PROVE SumFunction(held) = q
  <2> HIDE DEF held, w0, q
  <2>1. SumFunction(held) = held[w0]
    BY <1>3, <1>5, <1>6, SumOfOne
  <2> QED BY <1>5, <1>6, <2>1
<1>8. ASSUME q > 0 PROVE Max(all) = q
  <2> HIDE DEF held, active, q, w0
  <2>1. all = {q, 0}
    BY <1>5, <1>7, <1>8
  <2>2. q \in Nat
    BY <1>4, <1>8
  <2>3. Max({q, 0}) = IF q <= 0 THEN 0 ELSE q
    BY <2>2, GreaterOf
  <2> HIDE DEF all
  <2> QED BY <1>8, <2>1, <2>2, <2>3
<1>10. Cardinality(T) = 1
  BY <1>2, FS_Singleton
<1>11. Cardinality(active) \in {0, 1} /\ (Cardinality(active) = 0 \/ q > 0)
  <2> HIDE DEF active, q
  <2>1. Cardinality({w0}) = 1 /\ Cardinality({}) = 0
    BY FS_Singleton, FS_EmptySet
  <2>2. CASE q > 0
    BY <1>7, <2>1, <2>2
  <2>3. CASE ~ (q > 0)
    <3>1. active = {}
      BY <1>7, <2>3
    <3> QED BY <2>1, <3>1
  <2> QED BY <2>2, <2>3
<1> HIDE DEF T, active, all, held, q, incomplete
<1>12. /\ s.observed = 1 /\ s.active \in {0, 1}
       /\ s.active = 0 \/ q > 0
       /\ q > 0 => s.topShare = Share(Whole(q), Whole(q))
  BY <1>6, <1>8, <1>10, <1>11
<1> HIDE DEF s
<1> QED BY <1>1, <1>4, <1>12

(* What is measured of a token. *)
LEMMA MetricsAre ==
  ASSUME NEW k \in Seq(TradeType)
  PROVE  LET m == TokenMetrics(k)
         IN m.trades \in Nat /\ m.wallets \in Nat /\ m.bought \in Nat /\ m.sold \in Nat
BY TotalsAreNat, WalletsAreFew DEF TokenMetrics

(* As they are counted, trades are in the order of storing. *)
LEMMA StoredTrades ==
  ASSUME NEW h \in Seq(TradeType), NEW t
  PROVE  LET k == OfToken(h, t)
         IN /\ k \in Seq(TradeType)
            /\ Len(h) = 1 /\ t \in Tokens(h) => Len(k) = 1 /\ k[1] = h[1]
<1> DEFINE T == TradesOf(h, t)
           R == Sooner(T)
           k == Rows(h, T, R)
<1>1. OfToken(h, t) = k
  BY DEF OfToken, Kept, TradesOf
<1>2. T \in SUBSET (DOMAIN h)
  BY DEF TradesOf
<1>3. \A i \in DOMAIN h : i \in Nat
  OBVIOUS
<1>4. Orders(R, T)
  <2>1. T \in SUBSET Nat
    BY <1>2, <1>3
  <2> HIDE DEF T
  <2> QED BY <2>1, SoonerOrders
<1> HIDE DEF R
<1>5. /\ Lists(Listed(T, R), T, R)
      /\ k \in Seq(TradeType) /\ Len(k) = Cardinality(T)
      /\ \A n \in 1 .. Cardinality(T) : k[n] = h[Listed(T, R)[n]]
  <2> HIDE DEF T
  <2> QED BY <1>2, <1>4, RowsAre
<1>6. ASSUME Len(h) = 1, t \in Tokens(h) PROVE Len(k) = 1 /\ k[1] = h[1]
  <2>1. T = {1}
    BY <1>6 DEF TradesOf, Tokens
  <2>2. Cardinality(T) = 1
    BY <2>1, FS_Singleton
  <2> HIDE DEF T, k
  <2>3. Listed(T, R)[1] \in T
    BY <1>5, <2>2 DEF Lists
  <2> QED BY <1>5, <2>1, <2>2, <2>3
<1> HIDE DEF k
<1> QED BY <1>1, <1>5, <1>6

(* What is measured after one trade. *)
LEMMA MetricsOfOne ==
  ASSUME NEW h \in Seq(TradeType), Len(h) = 1, NEW t \in Tokens(h)
  PROVE  LET m == TokenMetrics(OfToken(h, t))
         IN m.trades = 1 /\ m.wallets = 1 /\ (m.bought = 0 \/ m.sold = 0)
<1> DEFINE k == OfToken(h, t)
           x == h[1]
           bought == [i \in DOMAIN k |-> Bought(k[i])]
           sold == [i \in DOMAIN k |-> Sold(k[i])]
<1>1. k \in Seq(TradeType) /\ Len(k) = 1 /\ k[1] = x
  BY StoredTrades
<1>2. x \in TradeType
  OBVIOUS
<1> HIDE DEF k, x
<1>3. DOMAIN k = {1} /\ Wallets(k) = {x.wallet}
  <2>1. DOMAIN k = {1}
    BY <1>1
  <2> QED BY <1>1, <2>1 DEF Wallets
<1>4. Sold(x) \in Nat /\ Bought(x) \in Nat /\ (Sold(x) = 0 \/ Bought(x) = 0)
  BY <1>2 DEF TradeType, Sold, Bought
<1>5. bought = [i \in {1} |-> Bought(x)] /\ sold = [i \in {1} |-> Sold(x)]
  BY <1>1, <1>3
<1>6. bought \in [{1} -> Nat] /\ sold \in [{1} -> Nat]
  BY <1>4, <1>5
<1>7. bought[1] = Bought(x) /\ sold[1] = Sold(x)
  BY <1>5
<1> HIDE DEF bought, sold
<1>8. SumFunction(bought) = bought[1] /\ SumFunction(sold) = sold[1]
  BY <1>6, SumOfOne
<1>9. Cardinality(Wallets(k)) = 1
  BY <1>3, FS_Singleton
<1> QED BY <1>1, <1>4, <1>7, <1>8, <1>9 DEF TokenMetrics, Total, bought, sold, k

(* A fraction is capped by its bound. *)
LEMMA CapsOf ==
  ASSUME NEW x, NEW u \in Nat, NEW E, UpTo(x, u, E)
  PROVE  IsFraction(x) /\ Caps(x, u, E)
BY DEF UpTo, Caps

(* A fraction of two numbers is bounded as they are. *)
LEMMA FracUpTo ==
  ASSUME NEW n \in Nat, NEW d \in Nat \ {0}, NEW u \in Nat, NEW E \in Nat \ {0}, n * E <= u * d
  PROVE  UpTo(Frac(n, d), u, E)
<1>1. Is(Frac(n, d), n, d)
  BY FracIs
<1> QED BY <1>1, UpToIs

(* A part of a whole is at most all of it, and all of it leaves no rest. *)
LEMMA PartUpTo ==
  ASSUME NEW p \in Nat, NEW q \in Nat, p <= q
  PROVE  UpTo(Share(Whole(p), Whole(q)), 1, 1)
<1> DEFINE E == 1
<1>1. E \in Nat \ {0} /\ 1 * 1 = E
  OBVIOUS
<1>2. UpTo(Zero, E, E)
  <2> HIDE DEF E
  <2> QED BY <1>1, ZeroUpTo
<1>3. CASE q = 0
  <2>1. ~ Positive(Whole(q))
    BY <1>3 DEF Positive, Whole
  <2> QED BY <1>2, <2>1 DEF Share
<1>4. CASE q # 0
  <2> DEFINE a == Over(Whole(p), Whole(q))
  <2>1. Is(Whole(p), p, 1) /\ Is(Whole(q), q, 1)
    BY WholeIs
  <2>2. Is(a, p * 1, 1 * q)
    BY <1>4, <2>1, OverIs
  <2>3. p * 1 = p /\ 1 * q = q
    OBVIOUS
  <2>4. Is(a, p, q)
    BY <2>2, <2>3
  <2>5. a = Share(Whole(p), Whole(q))
    <3>1. Positive(Whole(q))
      BY <1>4 DEF Positive, Whole
    <3> QED BY <3>1 DEF Share
  <2>6. p * E <= E * q
    OBVIOUS
  <2> HIDE DEF a, E
  <2>7. UpTo(a, E, E)
    BY <1>1, <1>4, <2>4, <2>6, UpToIs
  <2> QED BY <2>5, <2>7 DEF E
<1> QED BY <1>3, <1>4

(* All of a whole leaves no rest. *)
LEMMA NoRest ==
  ASSUME NEW q \in Nat \ {0}, NEW E \in Nat \ {0}
  PROVE  UpTo(Rest(Share(Whole(q), Whole(q))), 0, E)
<1> DEFINE a == Over(Whole(q), Whole(q))
<1>1. Is(Whole(q), q, 1)
  BY WholeIs
<1>2. Is(a, q * 1, 1 * q)
  BY <1>1, OverIs
<1>3. q * 1 = q /\ 1 * q = q
  OBVIOUS
<1>4. Is(a, q, q)
  BY <1>2, <1>3
<1>5. a = Share(Whole(q), Whole(q))
  <2>1. Positive(Whole(q))
    BY DEF Positive, Whole
  <2> QED BY <2>1 DEF Share
<1> HIDE DEF a
<1>6. Is(One, q, q)
  BY DEF Is, One, Whole
<1>7. Is(Minus(One, a), q - q, q)
  BY <1>4, <1>6, MinusIs
<1>8. q - q = 0 /\ 0 * E <= 0 * q
  OBVIOUS
<1>9. Is(Minus(One, a), 0, q)
  BY <1>7, <1>8
<1>10. UpTo(Minus(One, a), 0, E)
  BY <1>8, <1>9, UpToIs
<1> QED BY <1>5, <1>10 DEF Rest

(* A share of something is within its bound. *)
LEMMA TimesUpTo ==
  ASSUME NEW a, UpTo(a, 1, 1), NEW c, NEW u \in Nat, NEW E \in Nat \ {0}, UpTo(c, u, E)
  PROVE  UpTo(Times(a, c), u, E)
<1> DEFINE A == a[1]
           D == a[2]
           C == c[1]
           F == c[2]
<1>1. /\ A \in Nat /\ D \in Nat \ {0} /\ A <= D /\ Is(a, A, D)
      /\ C \in Nat /\ F \in Nat \ {0} /\ C * E <= u * F /\ Is(c, C, F)
  BY DEF UpTo, IsFraction, Is
<1> HIDE DEF A, D, C, F
<1>2. Is(Times(a, c), A * C, D * F)
  BY <1>1, TimesIs
<1>3. A * C \in Int /\ D * F \in Nat \ {0}
  BY <1>1, ProductIsPositive, ProductIsInt
<1>4. 0 <= A * C
  <2>1. 0 * C <= A * C
    BY <1>1, Monotone
  <2> QED BY <1>1, <2>1
<1>5. (A * C) * E <= u * (D * F)
  <2> DEFINE k == C * E
             n == u * F
  <2>1. k \in Nat /\ n \in Nat /\ k <= n
    BY <1>1
  <2>2. (A * C) * E = A * k /\ u * (D * F) = D * n
    BY <1>1
  <2> HIDE DEF k, n
  <2>3. A * k <= D * k
    BY <1>1, <2>1, Monotone
  <2>4. k * D <= n * D
    BY <1>1, <2>1, Monotone
  <2>5. k * D = D * k /\ n * D = D * n
    BY <1>1, <2>1
  <2>6. A * k \in Int /\ D * k \in Int /\ D * n \in Int
    BY <1>1, <2>1, ProductIsInt
  <2> QED BY <2>2, <2>3, <2>4, <2>5, <2>6
<1> QED BY <1>2, <1>3, <1>4, <1>5, UpToIs

(* The points for holders that are many, with the tokens spread among them. *)
LEMMA SpreadUpTo ==
  ASSUME NEW s, HolderShape(s), NEW few \in Nat \ {0}, NEW points \in Nat, NEW breadth \in Nat,
         NEW E \in Nat \ {0}, NEW u \in Nat, NEW v \in Nat,
         s.active = 0 \/ (Caps(Rest(s.topShare), u, E) /\ Caps(Frac(s.active, few), v, E))
  PROVE  UpTo(Spread(s, few, points, breadth), points * u + breadth * v, E)
<1> DEFINE k == points * u
           n == breadth * v
<1>1. k \in Nat /\ n \in Nat /\ k + n \in Nat
  OBVIOUS
<1>2. CASE s.active = 0
  <2>1. UpTo(Zero, k + n, E)
    BY <1>1, ZeroUpTo
  <2> QED BY <1>2, <2>1 DEF Spread
<1>3. CASE s.active # 0
  <2>1. IsFraction(Rest(s.topShare)) /\ IsFraction(Frac(s.active, few))
    BY FractionParts, FracIsFraction DEF HolderShape
  <2>2. UpTo(Points(points, Rest(s.topShare)), k, E) /\ UpTo(Points(breadth, Frac(s.active, few)), n, E)
    BY <1>3, <2>1, PointsUpTo
  <2> HIDE DEF k, n
  <2>3. UpTo(Plus(Points(points, Rest(s.topShare)), Points(breadth, Frac(s.active, few))), k + n, E)
    BY <1>1, <2>2, PlusUpTo
  <2> QED BY <1>3, <2>3 DEF Spread, k, n
<1> QED BY <1>2, <1>3

(* The points for holdings that are all accounted for. *)
LEMMA CompleteUpTo ==
  ASSUME NEW s, HolderShape(s), NEW points \in Nat, NEW E \in Nat \ {0}
  PROVE  UpTo(Complete(s, points), points * E, E)
<1>1. IsFraction(Rest(s.incomplete))
  BY FractionParts DEF HolderShape
<1>2. UpTo(Points(points, Rest(s.incomplete)), points * E, E)
  BY <1>1, FullPoints
<1>3. UpTo(Zero, points * E, E)
  <2>1. points * E \in Nat
    OBVIOUS
  <2> QED BY <2>1, ZeroUpTo
<1> QED BY <1>2, <1>3 DEF Complete

(* The points for what the creator created before. *)
LEMMA CreatorUpTo ==
  ASSUME NEW c, c.tokens \in Nat, c.traded \in Nat, NEW E \in Nat \ {0}
  PROVE  UpTo(CreatorHistory(c), 15 * E, E)
<1>1. CASE c.tokens = 0
  <2>1. 15 * E \in Nat
    OBVIOUS
  <2> QED BY <1>1, <2>1, ZeroUpTo DEF CreatorHistory
<1>2. CASE c.tokens # 0
  <2>1. IsFraction(Frac(c.tokens, 5)) /\ IsFraction(Frac(c.traded, c.tokens))
    BY <1>2, FracIsFraction
  <2> DEFINE k == 5 * E
             n == 10 * E
  <2>2. UpTo(Points(5, Frac(c.tokens, 5)), k, E) /\ UpTo(Points(10, Frac(c.traded, c.tokens)), n, E)
    BY <2>1, FullPoints
  <2>3. k \in Int /\ n \in Int /\ k + n = 15 * E
    OBVIOUS
  <2> HIDE DEF k, n
  <2>4. UpTo(Plus(Points(5, Frac(c.tokens, 5)), Points(10, Frac(c.traded, c.tokens))), k + n, E)
    BY <2>2, <2>3, PlusUpTo
  <2> QED BY <1>2, <2>3, <2>4 DEF CreatorHistory
<1> QED BY <1>1, <1>2

(* Where nothing was bought, or nothing sold, the balance is nothing. *)
LEMMA BalanceIs ==
  ASSUME NEW m, m.bought \in Nat, m.sold \in Nat
  PROVE  /\ IsFraction(Balance(m))
         /\ m.bought = 0 \/ m.sold = 0 => \A E \in Nat \ {0} : UpTo(Balance(m), 0, E)
<1> DEFINE b == m.bought
           s == m.sold
           all == b + s
           gap == Max({b - s, s - b})
<1>1. \A x, y \in Int : Max({x, y}) = IF x <= y THEN y ELSE x
  BY DEF Max
<1>2. b \in Nat /\ s \in Nat
  OBVIOUS
<1>3. gap \in Int /\ (b = 0 \/ s = 0 => gap = all)
  <2>1. b - s \in Int /\ s - b \in Int
    BY <1>2
  <2>2. gap = IF b - s <= s - b THEN s - b ELSE b - s
    BY <1>1, <2>1
  <2> HIDE DEF b, s, gap
  <2> QED BY <1>2, <2>2
<1>4. Balance(m) = IF all = 0 THEN Zero ELSE Rest(Frac(gap, all))
  BY DEF Balance
<1>5. IsFraction(Zero)
  BY WholeIsFraction
<1> HIDE DEF b, s, gap
<1>6. CASE all = 0
  <2>1. \A E \in Nat \ {0} : UpTo(Zero, 0, E)
    BY ZeroUpTo
  <2> QED BY <1>4, <1>5, <1>6, <2>1
<1>7. CASE all # 0
  <2>1. all \in Nat \ {0}
    BY <1>2, <1>7
  <2> HIDE DEF all
  <2>2. IsFraction(Rest(Frac(gap, all)))
    BY <1>3, <2>1, FracIsFraction, FractionParts
  <2>3. ASSUME gap = all, NEW E \in Nat \ {0} PROVE UpTo(Rest(Frac(gap, all)), 0, E)
    <3>1. Is(Frac(gap, all), all, all)
      BY <2>1, <2>3, FracIs
    <3>2. Is(One, all, all)
      BY <2>1 DEF Is, One, Whole
    <3>3. Is(Minus(One, Frac(gap, all)), all - all, all)
      BY <2>1, <3>1, <3>2, MinusIs
    <3>4. all - all = 0 /\ 0 * E <= 0 * all
      BY <2>1
    <3>5. Is(Minus(One, Frac(gap, all)), 0, all)
      BY <3>3, <3>4
    <3>6. UpTo(Minus(One, Frac(gap, all)), 0, E)
      BY <2>1, <3>4, <3>5, UpToIs
    <3> QED BY <3>6 DEF Rest
  <2> QED BY <1>3, <1>4, <1>7, <2>2, <2>3 DEF b, s
<1> QED BY <1>6, <1>7

(* Buys are a part of the flow. *)
LEMMA BuyRatioUpTo ==
  ASSUME NEW m, m.bought \in Nat, m.sold \in Nat
  PROVE  UpTo(BuyRatio(m), 1, 1)
<1>1. m.bought + m.sold \in Nat /\ m.bought <= m.bought + m.sold
  OBVIOUS
<1> QED BY <1>1, PartUpTo DEF BuyRatio

(* A score below every bound is graded E. *)
LEMMA GradedE ==
  ASSUME NEW score, NEW u \in Int, NEW E \in Nat \ {0}, UpTo(score, u, E), NEW bounds,
         \A i \in 1 .. 4 : bounds[i] \in Nat /\ u < bounds[i] * E
  PROVE  Grade(score, bounds) = "E"
<1>1. \A i \in 1 .. 4 : ~ AtMost(Whole(bounds[i]), score)
  BY CapIs
<1> QED BY <1>1, GradeIs

(* What is measured of a token and of its creator. *)
TokenShape(m) == m.trades \in Nat /\ m.wallets \in Nat /\ m.bought \in Nat /\ m.sold \in Nat
CreatorShape(c) == c.tokens \in Nat /\ c.traded \in Nat

(* The points of a token, from bounds of its parts. *)
LEMMA TokenPoints ==
  ASSUME NEW m, TokenShape(m), NEW s, HolderShape(s), NEW c, CreatorShape(c),
         NEW known \in BOOLEAN, NEW E \in Nat \ {0},
         NEW u1 \in Nat, NEW u2 \in Nat, NEW u3 \in Nat, NEW u4 \in Nat,
         Caps(Frac(m.trades, 50), u1, E), Caps(Frac(m.wallets, 20), u2, E),
         UpTo(Spread(s, 10, 20, 5), u3, E), Caps(Balance(m), u4, E)
  PROVE  UpTo(TokenScore(m, s, c, known), 20 * u1 + 15 * u2 + u3 + 15 * u4 + 25 * E, E)
<1> DEFINE x1 == Frac(m.trades, 50)
           x2 == Frac(m.wallets, 20)
           a1 == Points(20, x1)
           a2 == Points(15, x2)
           a3 == Spread(s, 10, 20, 5)
           a4 == Points(15, Balance(m))
           a5 == CreatorHistory(c)
           a6 == Complete(s, 7)
           a7 == Whole(IF known THEN 3 ELSE 0)
           v1 == 20 * u1
           v2 == 15 * u2
           v4 == 15 * u4
           v5 == 15 * E
           v6 == 7 * E
           v7 == 3 * E
           g == <<a1, a2, a3, a4, a5, a6, a7>>
           U == <<v1, v2, u3, v4, v5, v6, v7>>
           all == v1 + v2 + u3 + v4 + v5 + v6 + v7
<1>1. TokenScore(m, s, c, known) = Sum(g)
  BY DEF TokenScore
<1>2. UpTo(a1, v1, E) /\ UpTo(a2, v2, E)
  <2>1. IsFraction(x1) /\ IsFraction(x2)
    BY FracIsFraction DEF TokenShape
  <2> QED BY <2>1, PointsUpTo
<1>3. UpTo(a3, u3, E)
  OBVIOUS
<1>4. UpTo(a4, v4, E)
  <2>1. IsFraction(Balance(m))
    BY BalanceIs DEF TokenShape
  <2> QED BY <2>1, PointsUpTo
<1>5. UpTo(a5, v5, E) /\ UpTo(a6, v6, E)
  BY CreatorUpTo, CompleteUpTo DEF CreatorShape
<1>6. UpTo(a7, v7, E)
  <2> DEFINE n == IF known THEN 3 ELSE 0
  <2>1. n \in Nat /\ n * E <= v7 * 1 /\ v7 \in Int
    OBVIOUS
  <2> HIDE DEF n, v7
  <2>2. Is(Whole(n), n, 1)
    BY <2>1, WholeIs
  <2>3. UpTo(Whole(n), v7, E)
    BY <2>1, <2>2, UpToIs
  <2> QED BY <2>3 DEF n
<1>7. /\ v1 \in Int /\ v2 \in Int /\ v4 \in Int /\ v5 \in Int /\ v6 \in Int /\ v7 \in Int
      /\ all = 20 * u1 + 15 * u2 + u3 + 15 * u4 + 25 * E
  OBVIOUS
<1> HIDE DEF a1, a2, a3, a4, a5, a6, a7, v1, v2, v4, v5, v6, v7
<1>8. /\ DOMAIN g = 1 .. 7 /\ U \in [1 .. 7 -> Int]
      /\ U[1] + U[2] + U[3] + U[4] + U[5] + U[6] + U[7] = all
  BY <1>7
<1>9. /\ UpTo(g[1], U[1], E) /\ UpTo(g[2], U[2], E) /\ UpTo(g[3], U[3], E) /\ UpTo(g[4], U[4], E)
      /\ UpTo(g[5], U[5], E) /\ UpTo(g[6], U[6], E) /\ UpTo(g[7], U[7], E)
  BY <1>2, <1>3, <1>4, <1>5, <1>6
<1> HIDE DEF g, U, all
<1>10. \A i \in 1 .. 7 : UpTo(g[i], U[i], E)
  <2>1. \A i \in 1 .. 7 : i = 1 \/ i = 2 \/ i = 3 \/ i = 4 \/ i = 5 \/ i = 6 \/ i = 7
    OBVIOUS
  <2> QED BY <1>9, <2>1
<1>11. UpTo(Sum(g), all, E)
  BY <1>8, <1>10, PartsAddUp
<1> QED BY <1>1, <1>7, <1>11

(* The points of a token that is new. *)
LEMMA EarlyPoints ==
  ASSUME NEW m, TokenShape(m), NEW s, HolderShape(s), NEW E \in Nat \ {0},
         NEW u1 \in Nat, NEW u2 \in Nat, NEW u3 \in Nat, NEW u4 \in Nat, NEW u5 \in Nat,
         Caps(Frac(m.trades, 10), u1, E), Caps(Frac(m.wallets, 5), u2, E),
         Caps(Times(BuyRatio(m), Between0And1(Frac(m.trades, 5))), u3, E),
         UpTo(Spread(s, 5, 15, 5), u4, E), Caps(Frac(s.observed, 5), u5, E)
  PROVE  UpTo(EarlyTokenScore(m, s), 15 * u1 + 20 * u2 + 30 * u3 + u4 + 10 * E + 5 * u5, E)
<1> DEFINE x1 == Frac(m.trades, 10)
           x2 == Frac(m.wallets, 5)
           x3 == Times(BuyRatio(m), Between0And1(Frac(m.trades, 5)))
           x6 == Frac(s.observed, 5)
           a1 == Points(15, x1)
           a2 == Points(20, x2)
           a3 == Points(30, x3)
           a4 == Spread(s, 5, 15, 5)
           a5 == Complete(s, 10)
           a6 == Points(5, x6)
           v1 == 15 * u1
           v2 == 20 * u2
           v3 == 30 * u3
           v5 == 10 * E
           v6 == 5 * u5
           g == <<a1, a2, a3, a4, a5, a6>>
           U == <<v1, v2, v3, u4, v5, v6>>
           all == v1 + v2 + v3 + u4 + v5 + v6
<1>1. EarlyTokenScore(m, s) = Sum(g)
  BY DEF EarlyTokenScore
<1>2. IsFraction(x1) /\ IsFraction(x2) /\ IsFraction(x6) /\ IsFraction(Frac(m.trades, 5))
  BY FracIsFraction DEF TokenShape, HolderShape
<1>3. IsFraction(x3)
  <2>1. IsFraction(BuyRatio(m))
    BY BuyRatioUpTo DEF TokenShape, UpTo
  <2>2. IsFraction(Between0And1(Frac(m.trades, 5)))
    BY <1>2, FractionParts
  <2> QED BY <2>1, <2>2, TimesIsFraction
<1>4. UpTo(a1, v1, E) /\ UpTo(a2, v2, E) /\ UpTo(a3, v3, E) /\ UpTo(a6, v6, E)
  <2> HIDE DEF x1, x2, x3, x6
  <2>1. Caps(x1, u1, E) /\ Caps(x2, u2, E) /\ Caps(x3, u3, E) /\ Caps(x6, u5, E)
    BY DEF x1, x2, x3, x6
  <2> QED BY <1>2, <1>3, <2>1, PointsUpTo
<1>5. UpTo(a4, u4, E)
  OBVIOUS
<1>6. UpTo(a5, v5, E)
  BY CompleteUpTo
<1>7. /\ v1 \in Int /\ v2 \in Int /\ v3 \in Int /\ v5 \in Int /\ v6 \in Int
      /\ all = 15 * u1 + 20 * u2 + 30 * u3 + u4 + 10 * E + 5 * u5
  OBVIOUS
<1> HIDE DEF a1, a2, a3, a4, a5, a6, v1, v2, v3, v5, v6
<1>8. /\ DOMAIN g = 1 .. 6 /\ U \in [1 .. 6 -> Int]
      /\ U[1] + U[2] + U[3] + U[4] + U[5] + U[6] = all
  BY <1>7
<1>9. /\ UpTo(g[1], U[1], E) /\ UpTo(g[2], U[2], E) /\ UpTo(g[3], U[3], E)
      /\ UpTo(g[4], U[4], E) /\ UpTo(g[5], U[5], E) /\ UpTo(g[6], U[6], E)
  BY <1>4, <1>5, <1>6
<1> HIDE DEF g, U, all
<1>10. \A i \in 1 .. 6 : UpTo(g[i], U[i], E)
  BY <1>9, OneOfSix
<1>11. UpTo(Sum(g), all, E)
  BY <1>8, <1>10, PartsAddUp
<1> QED BY <1>1, <1>7, <1>11

(* Any part is capped by one. *)
LEMMA AllCaps ==
  ASSUME NEW x, NEW E \in Nat \ {0}
  PROVE  Caps(x, E, E)
BY DEF Caps

(* The points for holders, as the two scores give them. *)
LEMMA SpreadPoints ==
  ASSUME NEW s, HolderShape(s), NEW E \in Nat \ {0}, NEW u \in Nat, NEW v \in Nat, NEW w \in Nat,
         s.active = 0 \/ Caps(Rest(s.topShare), u, E),
         Caps(Frac(s.active, 10), v, E), Caps(Frac(s.active, 5), w, E)
  PROVE  UpTo(Spread(s, 10, 20, 5), 20 * u + 5 * v, E) /\ UpTo(Spread(s, 5, 15, 5), 15 * u + 5 * w, E)
<1> DEFINE ten == 10
           twenty == 20
           five == 5
           fifteen == 15
<1>1. ten \in Nat \ {0} /\ twenty \in Nat /\ five \in Nat \ {0} /\ fifteen \in Nat
  OBVIOUS
<1>2. Caps(Frac(s.active, ten), v, E) /\ Caps(Frac(s.active, five), w, E)
  OBVIOUS
<1> HIDE DEF ten, twenty, five, fifteen
<1>3. /\ UpTo(Spread(s, ten, twenty, five), twenty * u + five * v, E)
      /\ UpTo(Spread(s, five, fifteen, five), fifteen * u + five * w, E)
  BY <1>1, <1>2, SpreadUpTo
<1> QED BY <1>3 DEF ten, twenty, five, fifteen

(* Tokens, holders and creators have the numbers that scores are made of. *)
LEMMA TokenTypes ==
  ASSUME NEW h \in Seq(TradeType), NEW t
  PROVE  /\ TokenShape(TokenMetrics(OfToken(h, t))) /\ HolderShape(HolderSummary(h, t))
         /\ CreatorShape(CreatorMetrics(h, {1, 2}))
<1>1. OfToken(h, t) \in Seq(TradeType)
  BY StoredTrades
<1>2. TokenShape(TokenMetrics(OfToken(h, t)))
  <2> DEFINE k == OfToken(h, t)
  <2> HIDE DEF k
  <2>1. TokenShape(TokenMetrics(k))
    BY <1>1, MetricsAre DEF TokenShape, k
  <2> QED BY <2>1 DEF k
<1>3. HolderShape(HolderSummary(h, t))
  BY HoldersAre
<1>4. CreatorShape(CreatorMetrics(h, {1, 2}))
  <2> DEFINE S == {1, 2} \cap Tokens(h)
  <2>1. IsFiniteSet({1, 2})
    <3>1. {1, 2} = {1} \cup {2}
      OBVIOUS
    <3>2. IsFiniteSet({1}) /\ IsFiniteSet({2})
      BY FS_Singleton
    <3> QED BY <3>1, <3>2, FS_Union
  <2>2. IsFiniteSet(S)
    BY <2>1, FS_Subset
  <2> HIDE DEF S
  <2>3. Cardinality({1, 2}) \in Nat /\ Cardinality(S) \in Nat
    BY <2>1, <2>2, FS_CardinalityType
  <2> QED BY <2>3 DEF CreatorShape, CreatorMetrics, S
<1> QED BY <1>2, <1>3, <1>4

(* The scores of a token go from 0 to 100. *)
LEMMA TokenScores ==
  ASSUME NEW h \in Seq(TradeType), NEW t
  PROVE  Within0And100(ScoreToken(h, t, {1, 2})) /\ Within0And100(ScoreEarlyToken(h, t))
<1> DEFINE m == TokenMetrics(OfToken(h, t))
           s == HolderSummary(h, t)
           c == CreatorMetrics(h, {1, 2})
           known == {1, 2} # {}
           E == 1
<1>1. TokenShape(m) /\ HolderShape(s) /\ CreatorShape(c) /\ known \in BOOLEAN
  BY TokenTypes
<1>2. /\ ScoreToken(h, t, {1, 2}) = TokenScore(m, s, c, known)
      /\ ScoreEarlyToken(h, t) = EarlyTokenScore(m, s)
  BY DEF ScoreToken, ScoreEarlyToken
<1>3. E \in Nat \ {0}
  OBVIOUS
<1> HIDE DEF m, s, c, known, E
<1> DEFINE v == 20 * E + 5 * E
           w == 15 * E + 5 * E
<1>4. UpTo(Spread(s, 10, 20, 5), v, E) /\ UpTo(Spread(s, 5, 15, 5), w, E)
  <2>1. /\ Caps(Rest(s.topShare), E, E) /\ Caps(Frac(s.active, 10), E, E)
        /\ Caps(Frac(s.active, 5), E, E)
    BY <1>3, AllCaps
  <2>2. E \in Nat
    BY <1>3
  <2> QED BY <1>1, <1>3, <2>1, <2>2, SpreadPoints
<1>5. v \in Nat /\ w \in Nat /\ E \in Nat
  BY <1>3
<1> DEFINE all == 20 * E + 15 * E + v + 15 * E + 25 * E
           few == 15 * E + 20 * E + 30 * E + w + 10 * E + 5 * E
<1>6. all = 100 * E /\ few = 100 * E /\ all \in Int /\ few \in Int
  BY <1>3
<1> HIDE DEF v, w
<1>7. UpTo(TokenScore(m, s, c, known), all, E)
  <2>1. Caps(Frac(m.trades, 50), E, E) /\ Caps(Frac(m.wallets, 20), E, E) /\ Caps(Balance(m), E, E)
    BY <1>3, AllCaps
  <2> QED BY <1>1, <1>3, <1>4, <1>5, <2>1, TokenPoints
<1>8. UpTo(EarlyTokenScore(m, s), few, E)
  <2>1. /\ Caps(Frac(m.trades, 10), E, E) /\ Caps(Frac(m.wallets, 5), E, E)
        /\ Caps(Times(BuyRatio(m), Between0And1(Frac(m.trades, 5))), E, E)
        /\ Caps(Frac(s.observed, 5), E, E)
    BY <1>3, AllCaps
  <2> QED BY <1>1, <1>3, <1>4, <1>5, <2>1, EarlyPoints
<1> HIDE DEF all, few
<1>9. ASSUME NEW score, NEW u \in Int, u = 100 * E, UpTo(score, u, E) PROVE Within0And100(score)
  BY <1>3, <1>9, CapIs DEF Within0And100
<1> QED BY <1>2, <1>6, <1>7, <1>8, <1>9

(* One trade proves little: in hundredths, and in tenths, of a point. *)
LEMMA ScoresOfOne ==
  ASSUME NEW h \in Seq(TradeType), Len(h) = 1, NEW t \in Tokens(h)
  PROVE  /\ TokenGrade(ScoreToken(h, t, {1, 2})) = "E"
         /\ EarlyTokenGrade(ScoreEarlyToken(h, t)) = "E"
<1> DEFINE m == TokenMetrics(OfToken(h, t))
           s == HolderSummary(h, t)
           c == CreatorMetrics(h, {1, 2})
           known == {1, 2} # {}
<1>1. TokenShape(m) /\ HolderShape(s) /\ CreatorShape(c) /\ known \in BOOLEAN
  BY TokenTypes
<1>2. /\ ScoreToken(h, t, {1, 2}) = TokenScore(m, s, c, known)
      /\ ScoreEarlyToken(h, t) = EarlyTokenScore(m, s)
  BY DEF ScoreToken, ScoreEarlyToken
<1>3. m.trades = 1 /\ m.wallets = 1 /\ (m.bought = 0 \/ m.sold = 0)
  BY MetricsOfOne
<1>4. /\ s.observed = 1 /\ s.active \in {0, 1}
      /\ s.active = 0 \/ \E q \in Nat \ {0} : s.topShare = Share(Whole(q), Whole(q))
  BY HoldersOfOne
<1> HIDE DEF m, s, c, known
<1>5. ASSUME NEW E \in Nat \ {0}, NEW u \in Nat, u = 0, s.active # 0
      PROVE  Caps(Rest(s.topShare), u, E)
  <2>1. UpTo(Rest(s.topShare), u, E)
    BY <1>4, <1>5, NoRest
  <2> QED BY <2>1, CapsOf
<1>6. ASSUME NEW n \in {0, 1}, NEW d \in Nat \ {0}, NEW u \in Nat, NEW E \in Nat \ {0}, E <= u * d
      PROVE  UpTo(Frac(n, d), u, E) /\ Caps(Frac(n, d), u, E)
  <2>1. n \in Nat /\ n * E <= u * d
    <3>1. n * E = 0 \/ n * E = E
      OBVIOUS
    <3>2. u * d \in Nat
      OBVIOUS
    <3> QED BY <1>6, <3>1, <3>2
  <2>2. UpTo(Frac(n, d), u, E)
    BY <2>1, FracUpTo
  <2> QED BY <2>2, CapsOf
<1>7. TokenGrade(TokenScore(m, s, c, known)) = "E"
  <2> DEFINE E == 100
             u1 == 2
             u2 == 5
             u4 == 0
             v == 10
             u3 == 20 * u4 + 5 * v
             all == 20 * u1 + 15 * u2 + u3 + 15 * u4 + 25 * E
             bounds == <<80, 65, 50, 35>>
  <2>1. /\ E \in Nat \ {0} /\ u1 \in Nat /\ u2 \in Nat /\ u3 \in Nat /\ u4 \in Nat /\ v \in Nat
        /\ E <= u1 * 50 /\ E <= u2 * 20 /\ E <= v * 10 /\ u4 = 0 /\ all \in Int
    OBVIOUS
  <2>2. \A i \in 1 .. 4 : bounds[i] \in Nat /\ all < bounds[i] * E
    <3>1. /\ bounds[1] = 80 /\ bounds[2] = 65 /\ bounds[3] = 50 /\ bounds[4] = 35
          /\ all = 2665 /\ E = 100
      OBVIOUS
    <3> HIDE DEF bounds, all, E
    <3>2. \A i \in 1 .. 4 : i = 1 \/ i = 2 \/ i = 3 \/ i = 4
      OBVIOUS
    <3> QED BY <3>1, <3>2
  <2> HIDE DEF E, u1, u2, u4, v
  <2>3. /\ Caps(Frac(m.trades, 50), u1, E) /\ Caps(Frac(m.wallets, 20), u2, E)
        /\ Caps(Frac(s.active, 10), v, E) /\ Caps(Frac(s.active, 5), E, E)
    BY AllCaps, <1>3, <1>4, <1>6, <2>1
  <2>4. UpTo(Spread(s, 10, 20, 5), u3, E)
    <3>1. s.active = 0 \/ Caps(Rest(s.topShare), u4, E)
      BY <1>5, <2>1
    <3>2. E \in Nat
      BY <2>1
    <3> QED BY <1>1, <2>1, <2>3, <3>1, <3>2, SpreadPoints
  <2>5. Caps(Balance(m), u4, E)
    <3>1. UpTo(Balance(m), 0, E)
      BY <1>1, <1>3, <2>1, BalanceIs DEF TokenShape
    <3> QED BY <2>1, <3>1, CapsOf
  <2> HIDE DEF u3, bounds
  <2>6. UpTo(TokenScore(m, s, c, known), all, E)
    BY <1>1, <2>1, <2>3, <2>4, <2>5, TokenPoints
  <2> HIDE DEF all
  <2>7. Grade(TokenScore(m, s, c, known), bounds) = "E"
    BY <2>1, <2>2, <2>6, GradedE
  <2> QED BY <2>7 DEF TokenGrade, bounds
<1>8. EarlyTokenGrade(EarlyTokenScore(m, s)) = "E"
  <2> DEFINE E == 10
             u1 == 1
             u2 == 2
             u0 == 0
             u4 == 15 * u0 + 5 * u2
             all == 15 * u1 + 20 * u2 + 30 * u2 + u4 + 10 * E + 5 * u2
             bounds == <<75, 60, 45, 30>>
  <2>1. /\ E \in Nat \ {0} /\ u1 \in Nat /\ u2 \in Nat /\ u4 \in Nat
        /\ u0 \in Nat /\ u0 = 0 /\ E <= u1 * 10 /\ E <= u2 * 5 /\ all \in Int
    OBVIOUS
  <2>2. \A i \in 1 .. 4 : bounds[i] \in Nat /\ all < bounds[i] * E
    <3>1. /\ bounds[1] = 75 /\ bounds[2] = 60 /\ bounds[3] = 45 /\ bounds[4] = 30
          /\ all = 235 /\ E = 10
      OBVIOUS
    <3> HIDE DEF bounds, all, E
    <3>2. \A i \in 1 .. 4 : i = 1 \/ i = 2 \/ i = 3 \/ i = 4
      OBVIOUS
    <3> QED BY <3>1, <3>2
  <2> HIDE DEF E, u0, u1, u2
  <2>3. /\ Caps(Frac(m.trades, 10), u1, E) /\ Caps(Frac(m.wallets, 5), u2, E)
        /\ Caps(Frac(s.active, 5), u2, E) /\ Caps(Frac(s.observed, 5), u2, E)
        /\ UpTo(Frac(m.trades, 5), u2, E) /\ Caps(Frac(m.trades, 5), u2, E)
        /\ Caps(Frac(s.active, 10), E, E)
    BY AllCaps, <1>3, <1>4, <1>6, <2>1
  <2>4. UpTo(Spread(s, 5, 15, 5), u4, E)
    <3>1. s.active = 0 \/ Caps(Rest(s.topShare), u0, E)
      BY <1>5, <2>1
    <3>2. E \in Nat
      BY <2>1
    <3> QED BY <1>1, <2>1, <2>3, <3>1, <3>2, SpreadPoints
  <2>5. Caps(Times(BuyRatio(m), Between0And1(Frac(m.trades, 5))), u2, E)
    <3> DEFINE part == Between0And1(Frac(m.trades, 5))
    <3>1. IsFraction(Frac(m.trades, 5))
      BY <2>3 DEF UpTo
    <3>2. UpTo(part, u2, E)
      BY <2>1, <2>3, <3>1, ClampedUpTo
    <3>3. UpTo(BuyRatio(m), 1, 1)
      BY <1>1, BuyRatioUpTo DEF TokenShape
    <3> HIDE DEF part
    <3>4. UpTo(Times(BuyRatio(m), part), u2, E)
      BY <2>1, <3>2, <3>3, TimesUpTo
    <3> QED BY <2>1, <3>4, CapsOf DEF part
  <2> HIDE DEF u4, bounds
  <2>6. UpTo(EarlyTokenScore(m, s), all, E)
    BY <1>1, <2>1, <2>3, <2>4, <2>5, EarlyPoints
  <2> HIDE DEF all
  <2>7. Grade(EarlyTokenScore(m, s), bounds) = "E"
    BY <2>1, <2>2, <2>6, GradedE
  <2> QED BY <2>7 DEF EarlyTokenGrade, bounds
<1> QED BY <1>2, <1>7, <1>8

(* Whatever was traded: a wallet without a profit is never graded A nor copied
   automatically, one trade gives a token the grade E, and every score lies from 0 to
   100 without its total being clamped (WalletScoreCalculator, TokenScoreCalculator,
   EarlyTokenScoreCalculator, CopyTradingScoreCalculator). *)
THEOREM GradesOfAnyHistory ==
  ASSUME history \in Seq(TradeType), MovesTokens(history)
  PROVE  GradesNeedEvidence
<1> DEFINE h == history
<1>1. RatedByProfit(ScoreWallet(h), Style(h, Now))
  <2>1. h \in Seq(TradeType) /\ MovesTokens(h)
    OBVIOUS
  <2> HIDE DEF h
  <2> QED BY <2>1, WalletRated
<1>2. ASSUME NEW t \in Tokens(h)
      PROVE  RatedByTrades(Len(h), ScoreToken(h, t, {1, 2}), ScoreEarlyToken(h, t))
  <2>1. h \in Seq(TradeType) /\ t \in Tokens(h)
    OBVIOUS
  <2> HIDE DEF h
  <2>2. Within0And100(ScoreToken(h, t, {1, 2})) /\ Within0And100(ScoreEarlyToken(h, t))
    BY <2>1, TokenScores
  <2>3. Len(h) = 1 => /\ TokenGrade(ScoreToken(h, t, {1, 2})) = "E"
                      /\ EarlyTokenGrade(ScoreEarlyToken(h, t)) = "E"
    BY <2>1, ScoresOfOne
  <2> QED BY <2>2, <2>3 DEF RatedByTrades
<1> QED BY <1>1, <1>2 DEF GradesNeedEvidence, h

-----------------------------------------------------------------------------
(* The run *)

(* What is stored is a history of trades that move something; the books are looked at
   for one token. *)
Stored ==
  /\ aspect \in DOMAIN Samples
  /\ history \in Seq(TradeType)
  /\ MovesTokens(history)
  /\ aspect = "books" => OfOneToken(history)

LEMMA SamplesAreTrades ==
  ASSUME NEW a \in DOMAIN Samples, NEW x \in Samples[a]
  PROVE  x \in TradeType /\ x.amount > 0 /\ (a = "books" => x.token = 1)
<1>1. a \in {"style", "holders", "books", "grades"}
  BY DEF Samples
<1>2. CASE a = "style"
  BY <1>2 DEF Samples, Trade, TradeType
<1>3. CASE a = "holders"
  BY <1>3 DEF Samples, Trade, TradeType
<1>4. CASE a = "books"
  BY <1>4 DEF Samples, Trade, TradeType
<1>5. CASE a = "grades"
  BY <1>5 DEF Samples, Trade, TradeType
<1> QED BY <1>1, <1>2, <1>3, <1>4, <1>5

LEMMA StoredAlways == Spec => []Stored
<1>1. Init => Stored
  <2> SUFFICES ASSUME Init PROVE Stored
    OBVIOUS
  <2>1. DOMAIN <<>> = {} /\ <<>> \in Seq(TradeType)
    OBVIOUS
  <2> QED BY <2>1 DEF Init, Stored, MovesTokens, OfOneToken
<1>2. Stored /\ [Next]_vars => Stored'
  <2> SUFFICES ASSUME Stored, [Next]_vars PROVE Stored'
    OBVIOUS
  <2>1. CASE UNCHANGED vars
    BY <2>1 DEF vars, Stored, MovesTokens, OfOneToken
  <2>2. CASE Next
    <3>1. PICK x \in Samples[aspect] : history' = Append(history, x) /\ aspect' = aspect
      BY <2>2 DEF Next, Store
    <3>2. x \in TradeType /\ x.amount > 0 /\ (aspect = "books" => x.token = 1)
      BY SamplesAreTrades DEF Stored
    <3>3. history \in Seq(TradeType) /\ MovesTokens(history)
          /\ (aspect = "books" => OfOneToken(history)) /\ aspect \in DOMAIN Samples
      BY DEF Stored
    <3>4. /\ history' \in Seq(TradeType)
          /\ \A i \in DOMAIN history' : \/ i \in DOMAIN history /\ history'[i] = history[i]
                                        \/ history'[i] = x
      BY <3>1, <3>2, <3>3
    <3> QED BY <3>1, <3>2, <3>3, <3>4 DEF Stored, MovesTokens, OfOneToken
  <2> QED BY <2>1, <2>2
<1> QED BY <1>1, <1>2, PTL DEF Spec

(* In every state, the database finds held, but for the roundings of doubles, what the
   position calculator finds in decimals, and lists whoever holds more than they
   explain, once and by size (AnalyticsRepository._holder_expressions,
   PositionCalculator). *)
THEOREM HoldingsAlwaysAgree == Spec => []HoldingsAgree
<1>1. Stored => HoldingsAgree
  BY HoldersOfAnyHistory DEF Stored
<1> QED BY <1>1, StoredAlways, PTL

(* In every state, the style filter measures what its measures mean, its cycles as
   long as what rounding leaves is dust (TraderStyleService.evaluate_trades). *)
THEOREM StyleAlwaysByDefinition == Spec => []StyleIsByDefinition
<1>1. Stored => StyleIsByDefinition
  BY StyleOfAnyHistory DEF Stored
<1> QED BY <1>1, StoredAlways, PTL

(* In every state, the books of the position balance: nothing is lost or made up, the
   known cost stays within what was spent, and complete books give the profit
   (PositionCalculator._apply_sell). *)
THEOREM PositionsAlwaysKeepBooks == Spec => []PositionsKeepBooks
<1>1. Stored => PositionsKeepBooks
  <2>1. CASE aspect = "books"
    BY <2>1, BooksOfAnyHistory DEF Stored
  <2>2. CASE aspect # "books"
    BY <2>2 DEF PositionsKeepBooks
  <2> QED BY <2>1, <2>2
<1> QED BY <1>1, StoredAlways, PTL

(* In every state, no wallet without a profit is graded A, no single trade earns a token
   more than an E, and no score leaves 0 to 100 (WalletScoreCalculator,
   TokenScoreCalculator, EarlyTokenScoreCalculator, CopyTradingScoreCalculator). *)
THEOREM GradesAlwaysNeedEvidence == Spec => []GradesNeedEvidence
<1>1. Stored => GradesNeedEvidence
  BY GradesOfAnyHistory DEF Stored
<1> QED BY <1>1, StoredAlways, PTL
=============================================================================
