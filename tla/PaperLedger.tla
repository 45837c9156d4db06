---------------------------- MODULE PaperLedger ----------------------------
(***************************************************************************)
(* What the paper-copy portfolio promises, whatever the schedule of the    *)
(* worker, the quotes it gets and the failures it meets: a book of orders  *)
(* each of which is accepted once and settled at most once, and one cash   *)
(* balance that moves only when an order fills, against the cost of what   *)
(* is held.  PaperCopy implements it.                                      *)
(***************************************************************************)
EXTENDS Integers

CONSTANT InitialCash    \* PaperCopyPortfolio.initial_balance_usd

VARIABLES
  book,       \* order key -> "pending", "filled" or "skipped"
  cash,       \* money not invested
  invested,   \* cost basis of everything held
  realized    \* profit (or loss) of everything sold

ledgerVars == <<book, cash, invested, realized>>

LedgerStatus == {"pending", "filled", "skipped"}

LedgerInit ==
  /\ book = [k \in {} |-> "pending"]
  /\ cash = InitialCash
  /\ invested = 0
  /\ realized = 0

(* A new entry k of the book, or the settlement of a pending one. *)
Enter(k, status) ==
  /\ k \notin DOMAIN book
  /\ book' = [x \in DOMAIN book \cup {k} |->
                IF x = k THEN status ELSE book[x]]

SettleEntry(k, status) ==
  /\ k \in DOMAIN book
  /\ book[k] = "pending"
  /\ book' = [book EXCEPT ![k] = status]

MoneyUnchanged == UNCHANGED <<cash, invested, realized>>

(* What is spent becomes cost basis: money is neither made nor lost. *)
MoneyBuys ==
  /\ cash' \in 0 .. cash
  /\ invested' = invested + (cash - cash')
  /\ realized' = realized

(* A sale releases some of the cost basis for its proceeds; the difference
   is the realized profit. *)
MoneySells ==
  /\ invested' \in Int /\ invested' <= invested
  /\ cash' \in Nat
  /\ cash' >= cash
  /\ realized' = realized + (cash' - cash) - (invested - invested')

Accept == /\ \E k \in DOMAIN book' : Enter(k, "pending")
          /\ MoneyUnchanged
Skip   == /\ \E k \in DOMAIN book : SettleEntry(k, "skipped")
          /\ MoneyUnchanged
Buy    == /\ \E k \in DOMAIN book : SettleEntry(k, "filled")
          /\ MoneyBuys
Sell   == /\ \/ \E k \in DOMAIN book : SettleEntry(k, "filled")
             \/ \E k \in DOMAIN book' : Enter(k, "filled")
          /\ MoneySells

LedgerNext == Accept \/ Skip \/ Buy \/ Sell

LedgerSpec == LedgerInit /\ [][LedgerNext]_ledgerVars

=============================================================================
