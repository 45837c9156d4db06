--------------------------- MODULE StyleByDefinition ---------------------------
(***************************************************************************)
(* What TraderStyle measures, by definition: windows as sets of trades,    *)
(* and cycles by the first trade after a buy at which no more is bought    *)
(* than sold since.  The style filter finds them in one pass.              *)
(***************************************************************************)
EXTENDS TraderStyle

(* The trades in the window that a trade begins, those at the same time included;
   the tokens traded in it. *)
Window(h, seconds, i) == {j \in DOMAIN h : h[j].at - h[i].at \in 0 .. seconds}
AtOnce(h, seconds, i) == {h[j].token : j \in Window(h, seconds, i)}

(* A cycle begins with a buy when all that was bought before is sold. *)
Net(h, i, j) == Total(SubSeq(h, i, j), Signed)
EndOf(h, i) == Min({j \in i .. Len(h) : Net(h, i, j) <= 0} \cup {Len(h) + 1})
Openings(h) == {i \in DOMAIN h : IsBuy(h[i]) /\ \A j \in 1 .. i - 1 : IsBuy(h[j]) => EndOf(h, j) < i}
Closed(h) == {i \in Openings(h) : EndOf(h, i) \in DOMAIN h}
HeldFor(h, i, now) == (IF i \in Closed(h) THEN h[EndOf(h, i)].at ELSE now) - h[i].at

(* Whether, over these trades, what rounding leaves of a closed position is dust and
   what is held is not. *)
Tolerated(h) ==
  LET residue == 2 * Len(h) * Error
  IN residue <= Dust /\ Dust + residue < Unit /\ InRange(Total(h, Traded), Len(h))

RapidOf(h, now) == Cardinality({i \in Closed(h) : HeldFor(h, i, now) <= RapidExit})
LongOf(h, now) == Cardinality({i \in Openings(h) : HeldFor(h, i, now) >= MinHold})
================================================================================
