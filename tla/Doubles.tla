--------------------------------- MODULE Doubles ---------------------------------
(***************************************************************************)
(* The floats that amounts are stored and added up in.  Decimal(str(x))    *)
(* gives back the decimal that was stored, so that Python counts amounts   *)
(* exactly, in the smallest unit of the token; the database and the style  *)
(* filter add doubles, and every sum is rounded.  What they compute is     *)
(* counted in fine units, of which each unit of the token has many.        *)
(***************************************************************************)
EXTENDS Integers

CONSTANTS
  Unit,        \* the fine units in the smallest unit of a token
  Largest,     \* the greatest number of them looked at
  Error,       \* how far from a number up to that the nearest double may be
  Rounded(_)   \* the nearest double

ASSUME DoublesAssumption ==
  /\ Unit \in Nat \ {0} /\ Largest \in Nat /\ Error \in Nat
  /\ \A x \in -Largest .. Largest : Rounded(x) \in Int /\ Rounded(x) - x \in -Error .. Error

(* Nothing is claimed of numbers beyond the greatest. *)
Nearest(x) == IF x \in -Largest .. Largest THEN Rounded(x) ELSE x

(* The double that an amount is stored as, and the sum of two doubles. *)
Double(amount) == Nearest(Unit * amount)
Add(a, b) == Nearest(a + b)

Near(a, b, distance) == a - b \in -distance .. distance

(* So many steps stay in range when so much is traded in them altogether. *)
InRange(traded, steps) == 2 * Unit * traded + 4 * (steps + 1) * Error <= Largest
==================================================================================
