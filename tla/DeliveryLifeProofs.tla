------------------------- MODULE DeliveryLifeProofs -------------------------
(* What the life of a delivery promises, for any deliveries and couriers. *)
EXTENDS DeliveryLife, TLAPS

Stage == [status : {"ABSENT", "SEARCHING", "ASSIGNED", "PICKED_UP", "DELIVERED"},
          courier : Couriers \cup {None}]

\* The inductive invariant: who carries what is read off a table of stages.
LifeInv == stage \in [Deliveries -> Stage] /\ OneActiveDelivery

\* A step that changes the stage of one delivery, and lets nobody carry it who
\* carries another, keeps the invariant.
LEMMA StageChange ==
    ASSUME LifeInv, NEW d \in Deliveries,
           stage' \in [Deliveries -> Stage],
           \A e \in Deliveries : e # d => stage'[e] = stage[e],
           \A c \in Couriers : Carries(c, d)' => \A e \in Deliveries : Carries(c, e) => e = d
    PROVE  LifeInv'
<1>1. OneActiveDelivery'
  <2> SUFFICES ASSUME NEW c \in Couriers, NEW e \in Deliveries, NEW f \in Deliveries,
                      Carries(c, e)', Carries(c, f)'
               PROVE  e = f
    BY DEF OneActiveDelivery
  <2>1. \A g \in Deliveries : g # d /\ Carries(c, g)' => Carries(c, g)
    BY DEF Carries
  <2>2. CASE e = d \/ f = d
    BY <2>1, <2>2
  <2>3. CASE e # d /\ f # d
    BY <2>1, <2>3 DEF LifeInv, OneActiveDelivery
  <2> QED BY <2>2, <2>3
<1> QED BY <1>1 DEF LifeInv

\* Every step of the life of a delivery keeps the invariant.
LEMMA NextLifeInv == LifeInv /\ [Next]_<<stage, balance>> => LifeInv'
<1> SUFFICES ASSUME LifeInv, [Next]_<<stage, balance>> PROVE LifeInv'
  OBVIOUS
<1>1. ASSUME NEW d \in Deliveries, Open(d) PROVE LifeInv'
  <2>1. stage' \in [Deliveries -> Stage] /\ \A e \in Deliveries : e # d => stage'[e] = stage[e]
    BY <1>1 DEF Open, LifeInv, Stage
  <2>2. \A c \in Couriers : ~Carries(c, d)'
    BY <1>1 DEF Open, LifeInv, Stage, Carries
  <2> QED BY <2>1, <2>2, StageChange
<1>2. ASSUME NEW d \in Deliveries, NEW c \in Couriers, Offer(d, c) PROVE LifeInv'
  <2>1. stage' \in [Deliveries -> Stage] /\ \A e \in Deliveries : e # d => stage'[e] = stage[e]
    BY <1>2 DEF Offer, LifeInv, Stage
  <2>2. \A b \in Couriers : Carries(b, d)' => b = c
    BY <1>2 DEF Offer, LifeInv, Stage, Carries
  <2>3. \A e \in Deliveries : ~Carries(c, e)
    BY <1>2 DEF Offer
  <2> QED BY <2>1, <2>2, <2>3, StageChange
<1>3. ASSUME NEW d \in Deliveries, Withdraw(d) PROVE LifeInv'
  <2>1. stage' \in [Deliveries -> Stage] /\ \A e \in Deliveries : e # d => stage'[e] = stage[e]
    BY <1>3 DEF Withdraw, LifeInv, Stage
  <2>2. \A c \in Couriers : ~Carries(c, d)'
    BY <1>3 DEF Withdraw, LifeInv, Stage, Carries
  <2> QED BY <2>1, <2>2, StageChange
<1>4. ASSUME NEW d \in Deliveries, PickUp(d) PROVE LifeInv'
  <2>1. stage' \in [Deliveries -> Stage] /\ \A e \in Deliveries : e # d => stage'[e] = stage[e]
    BY <1>4 DEF PickUp, LifeInv, Stage
  <2>2. \A c \in Couriers : Carries(c, d)' => Carries(c, d)
    BY <1>4 DEF PickUp, LifeInv, Stage, Carries
  <2> QED BY <2>1, <2>2, StageChange DEF LifeInv, OneActiveDelivery
<1>5. ASSUME NEW d \in Deliveries, Deliver(d) PROVE LifeInv'
  <2>1. stage' \in [Deliveries -> Stage] /\ \A e \in Deliveries : e # d => stage'[e] = stage[e]
    BY <1>5 DEF Deliver, LifeInv, Stage
  <2>2. \A c \in Couriers : ~Carries(c, d)'
    BY <1>5 DEF Deliver, LifeInv, Stage, Carries
  <2> QED BY <2>1, <2>2, StageChange
<1>6. ASSUME UNCHANGED stage PROVE LifeInv'
  BY <1>6 DEF LifeInv, OneActiveDelivery, Carries
<1>7. ASSUME NEW c \in Couriers, CashOut(c) PROVE LifeInv'
  BY <1>6, <1>7 DEF CashOut
<1> QED BY <1>1, <1>2, <1>3, <1>4, <1>5, <1>6, <1>7 DEF Next

\* A courier never carries two deliveries, however many there are of either.
THEOREM LifeOneActiveDelivery == Spec => []OneActiveDelivery
<1>1. Init => LifeInv
  BY DEF Init, LifeInv, Stage, OneActiveDelivery, Carries
<1>2. LifeInv => OneActiveDelivery
  BY DEF LifeInv
<1> QED BY <1>1, <1>2, NextLifeInv, PTL DEF Spec

=============================================================================
