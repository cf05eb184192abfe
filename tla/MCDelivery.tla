----------------------------- MODULE MCDelivery -----------------------------
(* Values for the constants of DeliveryService. *)
EXTENDS DeliveryService, TLC

CONSTANTS c1, c2

\* Slots and deliveries paid the same way are interchangeable.
Symmetry ==
    Permutations(Workers) \cup Permutations(CashOrders) \cup Permutations(Deliveries \ CashOrders)

=============================================================================
