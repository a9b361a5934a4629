--------------------------- MODULE MCBudgetLedger ---------------------------
(* Small instances of BudgetLedger for TLC. *)
EXTENDS BudgetLedger, TLC

CONSTANTS food, home, unallocated, other

Ask(kind, from, to, amount, currency, treatment, expected) ==
  [kind |-> kind, from |-> from, to |-> to, amount |-> amount, currency |-> currency,
   treatment |-> treatment, expected |-> expected]

\* One entry of every kind and treatment; the salaries are more and less than the
\* six dollars expected, and half the cents they are worth are not whole.
SomeRequests ==
  {Ask("expense", food, External, 2, "EUR", {}, {}),
   Ask("income", External, food, 3, "USD", {}, {}),
   Ask("income", External, External, 4, "EUR", {"salary"}, {1}),
   Ask("income", External, External, 1, "EUR", {"unexpected"}, {}),
   Ask("income", External, food, 5, "EUR", {"refund"}, {}),
   Ask("reallocate", unallocated, food, 3, "EUR", {}, {})}

SixDollars == [amount |-> 6, currency |-> "USD"]
ThreeEuros == [amount |-> 3, currency |-> "EUR"]
SomePlans == {ThreeEuros}
\* What the server accepts as well: a member who expects nothing for a while.
Nothing == [amount |-> 0, currency |-> "EUR"]
NothingOrThree == {Nothing, ThreeEuros}
ImportedFood == [c \in {food} |-> 2]
OneSided == [c \in {food} |-> 1]
Balanced == [c \in {food, unallocated} |-> IF c = food THEN 1 ELSE -1]
SomeCorrections == {OneSided, Balanced}
DollarGains == [m \in Months |-> IF m = 2 THEN 1 ELSE 2]
=============================================================================
