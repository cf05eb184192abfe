---------------------------- MODULE PaymentLife ----------------------------
(***************************************************************************)
(* What the payment side promises whatever interleaves: an order is placed *)
(* before money moves for it; it counts as paid exactly from the step that *)
(* credits its restaurants, for good; restaurants are credited online once *)
(* the client's money is there, and from a wallet together with its debit. *)
(* How often an order may be settled is left open: redirects, webhooks and *)
(* administrators that overlap may settle it again.                        *)
(***************************************************************************)
EXTENDS Integers

CONSTANTS Orders, Users, Owner, TotalAmount, RechargeAmount

VARIABLES
    stage,      \* how far the payment of an order is
    taken,      \* orders a provider's payment counts for
    credits,    \* rounds of credits the restaurants of an order got, by origin
    account     \* what the rows of a wallet add up to

Init ==
    /\ stage = [o \in Orders |-> "absent"]
    /\ taken = {}
    /\ credits = [o \in Orders |-> [origin \in {"online", "wallet", "cod", "admin"} |-> 0]]
    /\ account = [u \in Users |-> 0]

Place(o) ==
    /\ stage[o] = "absent"
    /\ stage' = [stage EXCEPT ![o] = "due"]
    /\ UNCHANGED <<taken, credits, account>>

\* A payment at a provider counts for the order: the client pays, perhaps an order that
\* is settled already, or what he has paid is accepted for a second order.
Take(o) ==
    /\ stage[o] # "absent"
    /\ taken' = taken \cup {o}
    /\ UNCHANGED <<stage, credits, account>>

Recharge(u) ==
    /\ account' = [account EXCEPT ![u] = @ + RechargeAmount]
    /\ UNCHANGED <<stage, taken, credits>>

\* The order is paid from here on, and its restaurants are credited.
Settle(o, origin) ==
    /\ stage[o] # "absent"
    /\ stage' = [stage EXCEPT ![o] = "settled"]
    /\ credits' = [credits EXCEPT ![o][origin] = @ + 1]

\* Orange Money has the client's money ...
SettleTaken(o) == o \in taken /\ Settle(o, "online") /\ UNCHANGED <<taken, account>>

\* ... or a provider takes it at once ...
SettleAtOnce(o) == Settle(o, "online") /\ taken' = taken \cup {o} /\ UNCHANGED account

\* ... or the owner's wallet is debited ...
SettleFromWallet(o) ==
    /\ Settle(o, "wallet")
    /\ account' = [account EXCEPT ![Owner[o]] = @ - TotalAmount[o]]
    /\ UNCHANGED taken

\* ... or someone has the cash, or says that the payment went through.
SettleOnWord(o) ==
    /\ Settle(o, "cod") \/ Settle(o, "admin")
    /\ UNCHANGED <<taken, account>>

Next ==
    \/ \E o \in Orders : \/ Place(o) \/ Take(o) \/ SettleTaken(o) \/ SettleAtOnce(o)
                         \/ SettleFromWallet(o) \/ SettleOnWord(o)
    \/ \E u \in Users : Recharge(u)

Spec == Init /\ [][Next]_<<stage, taken, credits, account>>

=============================================================================
