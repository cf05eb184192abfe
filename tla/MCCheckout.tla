----------------------------- MODULE MCCheckout -----------------------------
(* Values for the constants of Checkout. *)
EXTENDS Checkout, TLC

CONSTANTS o1, o2, u1

\* One client placed every order.
MCOwner == [o \in Orders |-> u1]

\* One recharge pays one order exactly.
MCTotalAmount == [o \in Orders |-> 1]

\* Slots, row ids and orders (same owner, same price) are interchangeable.
Symmetry == Permutations(Workers) \cup Permutations(Txs) \cup Permutations(Orders)

=============================================================================
