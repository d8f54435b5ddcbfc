---------------------------- MODULE RoundOrders ----------------------------
(***************************************************************************)
(* What the planning half of the gateway promises the seats of a match:    *)
(* a playbook it told a seat it accepted is the one that seat's interpreter*)
(* runs in that round's Push; a Push opens with orders for every seat at   *)
(* once; and a match resumed from a save runs the rounds it had already    *)
(* opened with the orders they were opened with.                           *)
(***************************************************************************)
EXTENDS Integers

CONSTANTS Seats, Books, NoBook, RoundLimit

VARIABLES
  round,    \* the round the match is in
  open,     \* that round's Push has opened
  wish,     \* the playbook each seat was last told is accepted this round
  kept,     \* the wishes the save holds
  orders    \* what each seat's interpreter was given, by round

vars == <<round, open, wish, kept, orders>>

NoWishes == [s \in Seats |-> NoBook]
NoOrders == [r \in 1..RoundLimit |-> NoWishes]

Init ==
  /\ round = 1
  /\ open = FALSE
  /\ wish = NoWishes
  /\ kept = NoWishes
  /\ orders = NoOrders

(* A seat is told its playbook is accepted; the last one counts.           *)
Accept ==
  /\ ~open
  /\ wish' \in [Seats -> Books \union {NoBook}]
  /\ \A s \in Seats : wish'[s] = NoBook => wish[s] = NoBook
  /\ UNCHANGED <<round, open, kept, orders>>

(* The Push opens: an accepted playbook is honoured, a silent seat is      *)
(* given one.                                                              *)
Open ==
  /\ ~open
  /\ open' = TRUE
  /\ \E given \in [Seats -> Books] :
       /\ \A s \in Seats : wish[s] # NoBook => given[s] = wish[s]
       /\ orders' = [orders EXCEPT ![round] = given]
  /\ kept' = wish
  /\ UNCHANGED <<round, wish>>

Close ==
  /\ open
  /\ round < RoundLimit
  /\ round' = round + 1
  /\ open' = FALSE
  /\ wish' = NoWishes
  /\ UNCHANGED <<kept, orders>>

(* A Lull is saved on the way out, and resumed with what it held.          *)
Keep ==
  /\ ~open
  /\ kept' = wish
  /\ UNCHANGED <<round, open, wish, orders>>

Return ==
  /\ ~open
  /\ wish' = kept
  /\ UNCHANGED <<round, open, kept, orders>>

(* Any other resume goes back to a Push that had opened, with the orders   *)
(* it was opened with.                                                     *)
Replay ==
  \E r \in 1..round :
    /\ orders[r] # NoWishes
    /\ round' = r
    /\ open' = TRUE
    /\ wish' = kept
    /\ orders' = [q \in 1..RoundLimit |->
                    IF q <= r THEN orders[q] ELSE NoWishes]
    /\ UNCHANGED kept

Next == Accept \/ Open \/ Close \/ Keep \/ Return \/ Replay

Spec == Init /\ [][Next]_vars
=============================================================================
