----------------------------- MODULE SalesLedger -----------------------------
(***************************************************************************)
(* What the reporting facts promise about one order's headline figures,    *)
(* whatever queue carries the events and however often one is delivered:   *)
(* an order is booked once, at the total it was placed at and on the day   *)
(* it was placed; from then on value only moves from the sales column to   *)
(* the cancelled column, a payment is never taken back, and nothing books  *)
(* the order anew.                                                         *)
(***************************************************************************)
EXTENDS Integers, FiniteSetsExt

CONSTANTS
    Order, Line, Waiter, None, Unbooked,
    Amount,     \* [Line -> Nat], quantity * unit_price of a line
    Quantity,   \* [Line -> Nat]
    Day,        \* calendar days in Nairobi
    Historic    \* the orders that were placed before the reporting tables existed

VARIABLE book   \* [Order -> the order's headline row or Unbooked]

Value[items \in SUBSET Line] == MapThenSumSet(LAMBDA i : Amount[i], items)
Count[items \in SUBSET Line] == MapThenSumSet(LAMBDA i : Quantity[i], items)
Minus(a, b)  == IF a > b THEN a - b ELSE 0

NewFact(day) ==
    [day |-> day, waiter |-> None, paid |-> FALSE,
     gross |-> Value[Line], count |-> Count[Line], cancelled |-> 0, cancelledCount |-> 0]

Init ==
    /\ \A o \in Order : o \notin Historic => book[o] = Unbooked
    /\ \A o \in Historic : \E d \in Day, p \in BOOLEAN :
          book[o] = [NewFact(d) EXCEPT !.paid = p]
    /\ DOMAIN book = Order

Book(o) ==
    /\ book[o] = Unbooked
    /\ \E d \in Day : book' = [book EXCEPT ![o] = NewFact(d)]

Correct(o) ==
    /\ book[o] # Unbooked
    /\ \E items \in (SUBSET Line) \ {{}} :
          LET value == Value[items]
              count == Count[items] IN
          book' = [book EXCEPT ![o].gross = Minus(@, value),
                               ![o].count = Minus(@, count),
                               ![o].cancelled = @ + value,
                               ![o].cancelledCount = @ + count]

Attribute(o) ==
    /\ book[o] # Unbooked
    /\ \E w \in Waiter : book' = [book EXCEPT ![o].waiter = w]

Settle(o) ==
    /\ book[o] # Unbooked
    /\ book' = [book EXCEPT ![o].paid = TRUE]

Next == \E o \in Order : Book(o) \/ Correct(o) \/ Attribute(o) \/ Settle(o)

Spec == Init /\ [][Next]_book
=============================================================================
