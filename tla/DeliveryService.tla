-------------------------- MODULE DeliveryService --------------------------
(***************************************************************************)
(* DeliveryService and DispatchService: couriers sign up and go online, a  *)
(* delivery is offered to one of them, who carries it, is paid for it and  *)
(* cashes out.  Requests are handlers suspended at an await, as in Store;  *)
(* the deliveries touch no row of the payments but the order's status,     *)
(* which they overwrite beside the restaurant's owner, whose updateStatus  *)
(* is part of this module, and the payments, of which it has the writes    *)
(* only.  How far couriers are and how they score is not modelled: a       *)
(* search may prefer any candidate, or find none near enough.              *)
(***************************************************************************)
EXTENDS Integers, FiniteSets, OrderStatuses

CONSTANTS
    Deliveries,     \* one per order: orderId is unique
    CashOrders,     \* deliveries of orders to be paid in cash: nobody began to pay one otherwise
    Couriers,       \* users who may sign up as couriers
    Onboarded,      \* those who are verified, online and located from the start
    Accepted,       \* statuses an order may have when the model starts
    Workers,        \* slots for requests in flight
    CourierShare,   \* what a courier earns by a delivery: 80 % of its fee
    MinCashout,     \* the least balance paid out
    MaxRequests,    \* bound: requests that ever arrive
    Faulty,         \* whether requests may die between two awaits
    None

ASSUME DeliveryAssumption ==
    /\ CashOrders \subseteq Deliveries
    /\ Onboarded \subseteq Couriers
    /\ Accepted \subseteq {"PREPARING", "READY"}
    /\ CourierShare \in Nat \ {0}
    /\ MinCashout \in Nat \ {0}
    /\ MaxRequests \in Nat
    /\ Faulty \in BOOLEAN
    /\ None \notin Couriers \cup Deliveries \cup OrderStatus

VARIABLES
    delivery,       \* table deliveries: status, courier
    orderStatus,    \* table orders: status
    credited,       \* deliveries whose cash order has credited its restaurants
    courier,        \* tables users and couriers: role, profile, isVerified, isOnline, walletBalance, position
    paid,           \* table courier_transactions: CREDIT rows per delivery and courier
    ledger,         \* table courier_transactions: CREDIT less DEBIT rows per courier, summed
    rejected,       \* Redis: the keys delivery:d:rejected:c
    pending,        \* Redis: the value of delivery:d:pending_acceptance
    accepted,       \* history: offers accepted, which the code stores nowhere
    req,            \* requests in flight
    arrivals        \* requests that have arrived

tables == <<delivery, orderStatus, credited, courier, paid, ledger>>

redis == <<rejected, pending>>

vars == <<tables, redis, accepted, req, arrivals>>

-----------------------------------------------------------------------------

DeliveryRow == [status : {"ABSENT", "SEARCHING", "ASSIGNED", "PICKED_UP", "DELIVERED"},
                courier : Couriers \cup {None}]

CourierRow == [role : {"CLIENT", "COURIER"}, profile : BOOLEAN, isVerified : BOOLEAN,
               isOnline : BOOLEAN, walletBalance : Nat,
               located : BOOLEAN] \* currentLat and currentLng are not null

Active == {"ASSIGNED", "PICKED_UP"}

Radii == 3

Steps == {"idle", "registerRole", "registerProfile", "toggleCommit", "cashoutCommit",
          "locationCommit", "updateStatus", "updateCod",
          "dispatchRead", "findCouriers", "selectCourier", "assignCourier", "setPending",
          "acceptWrite", "acceptClear", "rejectMark", "rejectReset",
          "pickupCommit", "confirmCommit"}

Frame == [pc : Steps, d : Deliveries \cup {None}, c : Couriers \cup {None},
          n : Nat,                    \* radius tried, or balance read
          online : BOOLEAN,           \* isOnline read
          to : OrderStatus \cup {None}, \* status asked for by the owner
          couriers : SUBSET Couriers] \* couriers found by the last search

NewFrame(pc, d, c) ==
    [pc |-> pc, d |-> d, c |-> c, n |-> 0, online |-> FALSE, to |-> None, couriers |-> {}]

Idle == NewFrame("idle", None, None)

Init ==
    /\ delivery = [d \in Deliveries |-> [status |-> "ABSENT", courier |-> None]]
    /\ orderStatus \in [Deliveries -> Accepted]
    /\ credited = {}
    /\ courier = [c \in Couriers |->
         [role |-> IF c \in Onboarded THEN "COURIER" ELSE "CLIENT",
          profile |-> c \in Onboarded, isVerified |-> c \in Onboarded,
          isOnline |-> c \in Onboarded, walletBalance |-> 0, located |-> c \in Onboarded]]
    /\ paid = [d \in Deliveries |-> [c \in Couriers |-> 0]]
    /\ ledger = [c \in Couriers |-> 0]
    /\ rejected = {}
    /\ pending = [d \in Deliveries |-> None]
    /\ accepted = {}
    /\ req = [w \in Workers |-> Idle]
    /\ arrivals = 0

Begin(w, f) ==
    /\ req[w] = Idle
    /\ arrivals < MaxRequests
    /\ arrivals' = arrivals + 1
    /\ req' = [req EXCEPT ![w] = f]

Goto(w, pc) ==
    /\ req' = [req EXCEPT ![w].pc = pc]
    /\ UNCHANGED arrivals

Return(w) ==
    /\ req' = [req EXCEPT ![w] = Idle]
    /\ UNCHANGED arrivals

\* A request dies at an await; what it wrote stays.
Abort(w) ==
    /\ Faulty
    /\ req[w] # Idle
    /\ Return(w)
    /\ UNCHANGED <<tables, redis, accepted>>

-----------------------------------------------------------------------------
(* Couriers *)

\* registerCourier: a user without a profile signs up (a COURIER may do what a
\* CLIENT may, so that one whose request died here can try again) ...
RegisterCourier(w, c) ==
    /\ ~courier[c].profile
    /\ Begin(w, NewFrame("registerRole", None, c))
    /\ UNCHANGED <<tables, redis, accepted>>

\* ... his role changes first ...
RegisterRole(w) ==
    /\ req[w].pc = "registerRole"
    /\ courier' = [courier EXCEPT ![req[w].c].role = "COURIER"]
    /\ Goto(w, "registerProfile")
    /\ UNCHANGED <<delivery, orderStatus, credited, paid, ledger, redis, accepted>>

\* ... then the profile is inserted: userId is unique, a second insert throws.
RegisterProfile(w) ==
    /\ req[w].pc = "registerProfile"
    /\ courier' = [courier EXCEPT ![req[w].c].profile = TRUE]
    /\ Return(w)
    /\ UNCHANGED <<delivery, orderStatus, credited, paid, ledger, redis, accepted>>

\* verifyCourier: an administrator verifies a profile, by one write.
VerifyCourier(c) ==
    /\ courier[c].profile /\ ~courier[c].isVerified
    /\ courier' = [courier EXCEPT ![c].isVerified = TRUE]
    /\ UNCHANGED <<delivery, orderStatus, credited, paid, ledger, redis, accepted, req, arrivals>>

\* Mutated form of ToggleAvailability: an unverified profile may go online.
ToggleAvailabilityUnverified(w, c) ==
    /\ courier[c].profile
    /\ Begin(w, [NewFrame("toggleCommit", None, c) EXCEPT !.online = courier[c].isOnline])
    /\ UNCHANGED <<tables, redis, accepted>>

\* toggleAvailability reads the profile and writes the opposite of what it read.
ToggleAvailability(w, c) ==
    /\ courier[c].isVerified
    /\ Begin(w, [NewFrame("toggleCommit", None, c) EXCEPT !.online = courier[c].isOnline])
    /\ UNCHANGED <<tables, redis, accepted>>

ToggleCommit(w) ==
    /\ req[w].pc = "toggleCommit"
    /\ courier' = [courier EXCEPT ![req[w].c].isOnline = ~req[w].online]
    /\ Return(w)
    /\ UNCHANGED <<delivery, orderStatus, credited, paid, ledger, redis, accepted>>

\* updateCourierLocation reads the profile ...
UpdateCourierLocation(w, c) ==
    /\ courier[c].profile
    /\ Begin(w, NewFrame("locationCommit", None, c))
    /\ UNCHANGED <<tables, redis, accepted>>

\* ... and writes the position; the copy it then leaves in Redis is read by no code.
LocationCommit(w) ==
    /\ req[w].pc = "locationCommit"
    /\ courier' = [courier EXCEPT ![req[w].c].located = TRUE]
    /\ Return(w)
    /\ UNCHANGED <<delivery, orderStatus, credited, paid, ledger, redis, accepted>>

\* courierCashout reads the balance ...
CourierCashout(w, c) ==
    /\ courier[c].profile
    /\ courier[c].walletBalance >= MinCashout
    /\ Begin(w, [NewFrame("cashoutCommit", None, c) EXCEPT !.n = courier[c].walletBalance])
    /\ UNCHANGED <<tables, redis, accepted>>

\* Mutated form of CashoutCommit: the balance is not reset.
CashoutCommitKeeps(w) ==
    /\ req[w].pc = "cashoutCommit"
    /\ ledger' = [ledger EXCEPT ![req[w].c] = @ - req[w].n]
    /\ Return(w)
    /\ UNCHANGED <<delivery, orderStatus, credited, courier, paid, redis, accepted>>

\* ... and resets it to 0, whatever it has become, with a DEBIT row of what it read.
CashoutCommit(w) ==
    /\ req[w].pc = "cashoutCommit"
    /\ courier' = [courier EXCEPT ![req[w].c].walletBalance = 0]
    /\ ledger' = [ledger EXCEPT ![req[w].c] = @ - req[w].n]
    /\ Return(w)
    /\ UNCHANGED <<delivery, orderStatus, credited, paid, redis, accepted>>

-----------------------------------------------------------------------------
(* Dispatch *)

\* createDeliveryForOrder: the delivery is inserted and dispatched.
CreateDelivery(w, d) ==
    /\ delivery[d].status = "ABSENT"
    /\ delivery' = [delivery EXCEPT ![d].status = "SEARCHING"]
    /\ Begin(w, NewFrame("dispatchRead", d, None))
    /\ UNCHANGED <<orderStatus, credited, courier, paid, ledger, redis, accepted>>

\* dispatchDelivery goes on only if the delivery is still searching.
DispatchRead(w) ==
    /\ req[w].pc = "dispatchRead"
    /\ IF delivery[req[w].d].status = "SEARCHING"
       THEN req' = [req EXCEPT ![w].pc = "findCouriers", ![w].n = 1] /\ UNCHANGED arrivals
       ELSE Return(w)
    /\ UNCHANGED <<tables, redis, accepted>>

Busy(c) == \E d \in Deliveries : delivery[d].courier = c /\ delivery[d].status \in Active

\* Mutated form of FindCouriers: couriers with a delivery are found too.
FindCouriersBusy(w) ==
    /\ req[w].pc = "findCouriers"
    /\ req' = [req EXCEPT ![w].pc = "selectCourier",
                          ![w].couriers = {c \in Couriers : /\ courier[c].isVerified
                                                            /\ courier[c].isOnline
                                                            /\ courier[c].located}]
    /\ UNCHANGED <<tables, redis, accepted, arrivals>>

\* findBestCourier reads the verified couriers online, with a position, who carry nothing ...
FindCouriers(w) ==
    /\ req[w].pc = "findCouriers"
    /\ req' = [req EXCEPT ![w].pc = "selectCourier",
                          ![w].couriers = {c \in Couriers : /\ courier[c].isVerified
                                                            /\ courier[c].isOnline
                                                            /\ courier[c].located
                                                            /\ ~Busy(c)}]
    /\ UNCHANGED <<tables, redis, accepted, arrivals>>

\* Mutated form of NextRadius: one radius too many.
NextRadiusOffByOne(w) ==
    /\ req[w].n <= Radii
    /\ req' = [req EXCEPT ![w].pc = "findCouriers", ![w].n = @ + 1, ![w].couriers = {}]

\* Mutated form of NextRadius: the same radius again.
NextRadiusForever(w) ==
    /\ req[w].n <= Radii
    /\ req' = [req EXCEPT ![w].pc = "findCouriers", ![w].couriers = {}]

\* The search goes on with the next radius.
NextRadius(w) ==
    /\ req[w].n < Radii
    /\ req' = [req EXCEPT ![w].pc = "findCouriers", ![w].n = @ + 1, ![w].couriers = {}]

\* Mutated form of SelectCourier: the rejected keys are not looked at.
SelectCourierAgain(w) ==
    /\ req[w].pc = "selectCourier"
    /\ \/ \E c \in req[w].couriers :
            req' = [req EXCEPT ![w] = NewFrame("assignCourier", req[w].d, c)]
       \/ NextRadius(w)
       \/ req[w].n = Radii /\ req' = [req EXCEPT ![w] = Idle]
    /\ UNCHANGED <<tables, redis, accepted, arrivals>>

\* ... and takes the best of those near who have not rejected the delivery.  If
\* none is near, the next radius is searched; after the last the delivery is given up.
SelectCourier(w) ==
    /\ req[w].pc = "selectCourier"
    /\ \/ \E c \in req[w].couriers :
            /\ <<req[w].d, c>> \notin rejected
            /\ req' = [req EXCEPT ![w] = NewFrame("assignCourier", req[w].d, c)]
       \/ NextRadius(w)
       \/ req[w].n = Radii /\ req' = [req EXCEPT ![w] = Idle]
    /\ UNCHANGED <<tables, redis, accepted, arrivals>>

\* assignCourier: the delivery is his, whatever its status has become ...
AssignCourier(w) ==
    /\ req[w].pc = "assignCourier"
    /\ delivery' = [delivery EXCEPT ![req[w].d] = [status |-> "ASSIGNED", courier |-> req[w].c]]
    /\ Goto(w, "setPending")
    /\ UNCHANGED <<orderStatus, credited, courier, paid, ledger, redis, accepted>>

\* ... and a key of 60 s says that he has been asked.  No code ever reads it.
SetPending(w) ==
    /\ req[w].pc = "setPending"
    /\ pending' = [pending EXCEPT ![req[w].d] = req[w].c]
    /\ Return(w)
    /\ UNCHANGED <<tables, rejected, accepted>>

-----------------------------------------------------------------------------
(* The courier's answer, and the journey *)

\* The delivery is read: it is assigned to the courier who asks.
HoldsAssigned(c, d) == delivery[d].courier = c /\ delivery[d].status = "ASSIGNED"

AcceptDelivery(w, c, d) ==
    /\ HoldsAssigned(c, d)
    /\ Begin(w, NewFrame("acceptWrite", d, c))
    /\ UNCHANGED <<tables, redis, accepted>>

\* acceptDelivery writes the status it expects to be there already ...
AcceptWrite(w) ==
    /\ req[w].pc = "acceptWrite"
    /\ delivery' = [delivery EXCEPT ![req[w].d].status = "ASSIGNED"]
    /\ accepted' = accepted \cup {<<req[w].d, req[w].c>>}
    /\ Goto(w, "acceptClear")
    /\ UNCHANGED <<orderStatus, credited, courier, paid, ledger, redis>>

\* ... and clears the key.
AcceptClear(w) ==
    /\ req[w].pc = "acceptClear"
    /\ pending' = [pending EXCEPT ![req[w].d] = None]
    /\ Return(w)
    /\ UNCHANGED <<tables, rejected, accepted>>

RejectDelivery(w, c, d) ==
    /\ HoldsAssigned(c, d)
    /\ Begin(w, NewFrame("rejectMark", d, c))
    /\ UNCHANGED <<tables, redis, accepted>>

\* rejectDelivery leaves a key of one hour ...
RejectMark(w) ==
    /\ req[w].pc = "rejectMark"
    /\ rejected' = rejected \cup {<<req[w].d, req[w].c>>}
    /\ Goto(w, "rejectReset")
    /\ UNCHANGED <<tables, pending, accepted>>

\* ... then takes the delivery back, whoever has it by now, and dispatches it again.
RejectReset(w) ==
    /\ req[w].pc = "rejectReset"
    /\ delivery' = [delivery EXCEPT ![req[w].d] = [status |-> "SEARCHING", courier |-> None]]
    /\ Goto(w, "dispatchRead")
    /\ UNCHANGED <<orderStatus, credited, courier, paid, ledger, redis, accepted>>

PickupDelivery(w, c, d) ==
    /\ HoldsAssigned(c, d)
    /\ Begin(w, NewFrame("pickupCommit", d, c))
    /\ UNCHANGED <<tables, redis, accepted>>

\* Mutated form of PickupCommit: the order is not moved.
PickupCommitAlone(w) ==
    /\ req[w].pc = "pickupCommit"
    /\ delivery' = [delivery EXCEPT ![req[w].d].status = "PICKED_UP"]
    /\ Return(w)
    /\ UNCHANGED <<orderStatus, credited, courier, paid, ledger, redis, accepted>>

\* pickupDelivery moves the delivery and its order, whatever they have become.
PickupCommit(w) ==
    /\ req[w].pc = "pickupCommit"
    /\ delivery' = [delivery EXCEPT ![req[w].d].status = "PICKED_UP"]
    /\ orderStatus' = [orderStatus EXCEPT ![req[w].d] = "PICKED_UP"]
    /\ Return(w)
    /\ UNCHANGED <<credited, courier, paid, ledger, redis, accepted>>

\* Mutated form of ConfirmDelivery: the status is not checked.
ConfirmDeliveryAgain(w, c, d) ==
    /\ delivery[d].courier = c
    /\ delivery[d].status \in {"PICKED_UP", "DELIVERED"}
    /\ Begin(w, NewFrame("confirmCommit", d, c))
    /\ UNCHANGED <<tables, redis, accepted>>

\* confirmDelivery: the courier has the client's code.  IN_TRANSIT, the other
\* status it accepts, is written nowhere.
ConfirmDelivery(w, c, d) ==
    /\ delivery[d].courier = c
    /\ delivery[d].status = "PICKED_UP"
    /\ Begin(w, NewFrame("confirmCommit", d, c))
    /\ UNCHANGED <<tables, redis, accepted>>

\* Mutated form of ConfirmCommit: the courier is not paid.
ConfirmCommitUnpaid(w) ==
    /\ req[w].pc = "confirmCommit"
    /\ delivery' = [delivery EXCEPT ![req[w].d].status = "DELIVERED"]
    /\ orderStatus' = [orderStatus EXCEPT ![req[w].d] = "DELIVERED"]
    /\ Return(w)
    /\ UNCHANGED <<credited, courier, paid, ledger, redis, accepted>>

\* One transaction closes the delivery and its order and pays the courier.
ConfirmCommit(w) ==
    /\ req[w].pc = "confirmCommit"
    /\ delivery' = [delivery EXCEPT ![req[w].d].status = "DELIVERED"]
    /\ orderStatus' = [orderStatus EXCEPT ![req[w].d] = "DELIVERED"]
    /\ courier' = [courier EXCEPT ![req[w].c].walletBalance = @ + CourierShare]
    /\ paid' = [paid EXCEPT ![req[w].d][req[w].c] = @ + 1]
    /\ ledger' = [ledger EXCEPT ![req[w].c] = @ + CourierShare]
    /\ Return(w)
    /\ UNCHANGED <<credited, redis, accepted>>

-----------------------------------------------------------------------------
(* OrdersService.updateStatus: the owner moves the order along. *)

\* The order is read, and the transition checked against what was read ...
UpdateStatus(w, d, status) ==
    /\ status \in VALID_TRANSITIONS(orderStatus[d])
    /\ Begin(w, [NewFrame(IF status = "DELIVERED" /\ d \in CashOrders
                          THEN "updateCod" ELSE "updateStatus", d, None) EXCEPT !.to = status])
    /\ UNCHANGED <<tables, redis, accepted>>

\* ... and the status is written, whatever it has become ...
WriteStatus(w) ==
    /\ req[w].pc = "updateStatus"
    /\ orderStatus' = [orderStatus EXCEPT ![req[w].d] = req[w].to]
    /\ Return(w)
    /\ UNCHANGED <<delivery, credited, courier, paid, ledger, redis, accepted>>

\* ... with the credits of the restaurants, if a cash order is delivered.
DeliverCod(w) ==
    /\ req[w].pc = "updateCod"
    /\ orderStatus' = [orderStatus EXCEPT ![req[w].d] = "DELIVERED"]
    /\ credited' = credited \cup {req[w].d}
    /\ Return(w)
    /\ UNCHANGED <<delivery, courier, paid, ledger, redis, accepted>>

-----------------------------------------------------------------------------
(* The payments, as far as they write the status of an order. *)

\* An attempt to pay makes the order AWAITING_PAYMENT, a refusal PENDING, a settlement
\* PAID, whatever it has become: late notifications and stale requests do so at any
\* time.  No such handler starts without a row of a payment or an order that is payable,
\* and a cash order in PREPARING that nobody began to pay otherwise has neither.
PaymentWrites(d) ==
    /\ d \notin CashOrders
    /\ \E status \in {"PENDING", "AWAITING_PAYMENT", "PAID"} :
         orderStatus' = [orderStatus EXCEPT ![d] = status]
    /\ UNCHANGED <<delivery, credited, courier, paid, ledger, redis, accepted, req, arrivals>>

-----------------------------------------------------------------------------
(* Redis drops keys when their time is up. *)

ExpireRejected(d, c) ==
    /\ <<d, c>> \in rejected
    /\ rejected' = rejected \ {<<d, c>>}
    /\ UNCHANGED <<tables, pending, accepted, req, arrivals>>

ExpirePending(d) ==
    /\ pending[d] # None
    /\ pending' = [pending EXCEPT ![d] = None]
    /\ UNCHANGED <<tables, rejected, accepted, req, arrivals>>

-----------------------------------------------------------------------------

Arrive(w) ==
    \/ \E c \in Couriers : \/ RegisterCourier(w, c)
                           \/ ToggleAvailability(w, c)
                           \/ CourierCashout(w, c)
                           \/ UpdateCourierLocation(w, c)
    \/ \E d \in Deliveries : CreateDelivery(w, d)
    \/ \E d \in Deliveries, status \in OrderStatus : UpdateStatus(w, d, status)
    \/ \E c \in Couriers, d \in Deliveries : \/ AcceptDelivery(w, c, d)
                                             \/ RejectDelivery(w, c, d)
                                             \/ PickupDelivery(w, c, d)
                                             \/ ConfirmDelivery(w, c, d)

Step(w) ==
    \/ RegisterRole(w) \/ RegisterProfile(w) \/ ToggleCommit(w) \/ CashoutCommit(w)
    \/ LocationCommit(w) \/ WriteStatus(w) \/ DeliverCod(w)
    \/ DispatchRead(w) \/ FindCouriers(w) \/ SelectCourier(w) \/ AssignCourier(w)
    \/ SetPending(w) \/ AcceptWrite(w) \/ AcceptClear(w) \/ RejectMark(w) \/ RejectReset(w)
    \/ PickupCommit(w) \/ ConfirmCommit(w)

Expire == \/ \E d \in Deliveries, c \in Couriers : ExpireRejected(d, c)
          \/ \E d \in Deliveries : ExpirePending(d)

Next ==
    \/ \E c \in Couriers : VerifyCourier(c)
    \/ \E d \in Deliveries : PaymentWrites(d)
    \/ Expire
    \/ \E w \in Workers : Arrive(w) \/ Step(w) \/ Abort(w)

Spec == Init /\ [][Next]_vars

\* Node.js resumes every handler whose await is over, and Redis drops a key when
\* its time is up.  Nobody owes the system a request.
FairSpec ==
    /\ Spec
    /\ \A w \in Workers : WF_vars(Step(w))
    /\ \A d \in Deliveries : WF_vars(ExpirePending(d))

-----------------------------------------------------------------------------
(* Type invariant *)

\* Steps of requests about a courier only, and of the owner's.
CourierSteps == {"registerRole", "registerProfile", "toggleCommit", "cashoutCommit",
                 "locationCommit"}

OwnerSteps == {"updateStatus", "updateCod"}

\* A frame holds what the steps still to come need.
FrameOK(f) ==
    /\ f.pc \in Steps \ (CourierSteps \cup {"idle"}) => f.d \in Deliveries
    /\ f.pc \in Steps \ (OwnerSteps \cup {"idle", "dispatchRead", "findCouriers",
                                          "selectCourier", "rejectReset"}) => f.c \in Couriers
    /\ f.pc \in {"findCouriers", "selectCourier"} => f.n \in 1 .. Radii
    /\ f.pc \in OwnerSteps => f.to \in OrderStatus
    /\ f.pc = "updateCod" => f.d \in CashOrders

\* The tables, the keys and the frames hold values of their types; in particular
\* dispatchDelivery never searches beyond the last radius.
TypeOK ==
    /\ delivery \in [Deliveries -> DeliveryRow]
    /\ orderStatus \in [Deliveries -> OrderStatus]
    /\ credited \subseteq CashOrders
    /\ courier \in [Couriers -> CourierRow]
    /\ paid \in [Deliveries -> [Couriers -> Nat]]
    /\ ledger \in [Couriers -> Int]
    /\ rejected \subseteq Deliveries \X Couriers
    /\ pending \in [Deliveries -> Couriers \cup {None}]
    /\ accepted \subseteq Deliveries \X Couriers
    /\ req \in [Workers -> Frame]
    /\ arrivals \in Nat
    /\ \A w \in Workers : FrameOK(req[w])

-----------------------------------------------------------------------------
(* Safety, whatever the interleaving *)

\* Whoever a delivery was given to was verified and had a position, and whoever
\* is online is verified: neither a registration that died half-way nor two
\* crossing toggles lets an unverified courier be found.
CouriersVetted ==
    /\ \A c \in Couriers : courier[c].isOnline => courier[c].isVerified
    /\ \A d \in Deliveries : delivery[d].courier # None =>
         LET row == courier[delivery[d].courier]
         IN  row.isVerified /\ row.located /\ row.role = "COURIER"

\* A delivery that is over has paid a courier, though pick-ups, refusals and
\* searches in flight may undo what was decided after they read.
DeliveredPaid ==
    \A d \in Deliveries : delivery[d].status = "DELIVERED" =>
        \E c \in Couriers : paid[d][c] > 0

-----------------------------------------------------------------------------
(* Safety when requests do not interleave *)

Life == INSTANCE DeliveryLife WITH
    stage <- delivery, balance <- [c \in Couriers |-> courier[c].walletBalance]

\* The handlers, with their searches, keys, crashes and partial writes,
\* implement the life of a delivery that DeliveryLife describes.
ImplementsLife == Life!Spec

\* A courier carries one delivery at a time.
OneActiveDelivery == Life!OneActiveDelivery

\* A courier who refused a delivery is not given it again while the key lives.
RejectedNotReassigned ==
    [][\A d \in Deliveries : delivery'[d].courier \notin {delivery[d].courier, None}
          => <<d, delivery'[d].courier>> \notin rejected]_vars

\* A cash order follows its delivery, beside an owner who moves it too: the cash orders
\* missing from both of his lists are those a courier carries, and none is open whose
\* delivery is over.  Of an order paid online it is not so, even serially: a late
\* notification makes it PAID or PENDING again while the courier carries it.
OrderFollowsDelivery ==
    \A d \in CashOrders :
        /\ orderStatus[d] \notin ActiveList \cup HistoryList <=> delivery[d].status = "PICKED_UP"
        /\ delivery[d].status = "DELIVERED" => orderStatus[d] = "DELIVERED"

\* The balance of a courier is what his CREDIT and DEBIT rows add up to.
CourierLedger == \A c \in Couriers : courier[c].walletBalance = ledger[c]

-----------------------------------------------------------------------------
(* Liveness *)

\* Every request is answered; a search for a courier is given up after three radii.
RequestsEnd == \A w \in Workers : req[w] # Idle ~> req[w] = Idle

\* The steps a request has left at most, if no courier is found before the last radius.
StepsLeft(f) ==
    CASE f.pc = "idle" -> 0
      [] f.pc = "findCouriers" -> 2 * (Radii - f.n) + 4
      [] f.pc = "selectCourier" -> 2 * (Radii - f.n) + 3
      [] f.pc = "dispatchRead" -> 2 * Radii + 3
      [] f.pc = "rejectReset" -> 2 * Radii + 4
      [] f.pc = "rejectMark" -> 2 * Radii + 5
      [] f.pc \in {"registerRole", "assignCourier", "acceptWrite"} -> 2
      [] OTHER -> 1

\* Why requests end: every step leaves fewer of them, whatever the other requests do; a
\* refusal, with the search over three radii it starts, is over after eleven.
StepsRunOut ==
    [][\A w \in Workers : Step(w) => StepsLeft(req'[w]) \in 0 .. StepsLeft(req[w]) - 1]_vars

-----------------------------------------------------------------------------
(* What comments and messages claim, and the code does not keep *)

\* "Set acceptance timeout (60s)": an offer that is not accepted is withdrawn.
AcceptanceTimesOut ==
    \A d \in Deliveries, c \in Couriers :
        HoldsAssigned(c, d) ~> <<d, c>> \in accepted \/ ~HoldsAssigned(c, d)

\* "COD delivery: update status + credit restaurant wallets atomically": a cash
\* order that is delivered has credited its restaurants.
CashDeliveryCredited ==
    \A d \in CashOrders : orderStatus[d] = "DELIVERED" => d \in credited

=============================================================================
