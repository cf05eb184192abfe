--------------------------- MODULE DeliveryProofs ---------------------------
(***************************************************************************)
(* Deliveries and couriers, for any number of them: what holds however the *)
(* requests interleave and wherever they die, and what holds when they do  *)
(* not interleave, where the handlers implement DeliveryLife.              *)
(***************************************************************************)
EXTENDS DeliveryService, TLAPS

-----------------------------------------------------------------------------
(* Frames *)

FramesOK ==
    /\ req \in [Workers -> Frame] /\ arrivals \in Nat
    /\ \A w \in Workers : FrameOK(req[w])

TablesOK ==
    /\ delivery \in [Deliveries -> DeliveryRow]
    /\ orderStatus \in [Deliveries -> OrderStatus]
    /\ credited \subseteq CashOrders
    /\ courier \in [Couriers -> CourierRow]
    /\ paid \in [Deliveries -> [Couriers -> Nat]]
    /\ ledger \in [Couriers -> Int]

KeysOK ==
    /\ rejected \subseteq Deliveries \X Couriers
    /\ pending \in [Deliveries -> Couriers \cup {None}]
    /\ accepted \subseteq Deliveries \X Couriers

\* The other requests go on as they were.
OthersSame(w) == \A v \in Workers \ {w} : req'[v] = req[v]

LEMMA TypeParts == TypeOK <=> TablesOK /\ KeysOK /\ FramesOK
BY DEF TypeOK, TablesOK, KeysOK, FramesOK

LEMMA TypePartsNext == TypeOK' <=> TablesOK' /\ KeysOK' /\ FramesOK'
BY DEF TypeOK, TablesOK, KeysOK, FramesOK

LEMMA SlotUpdate ==
    ASSUME FramesOK, NEW w \in Workers, NEW f \in Frame, FrameOK(f), arrivals' \in Nat,
           req' = [req EXCEPT ![w] = f]
    PROVE  FramesOK' /\ OthersSame(w) /\ req'[w] = f
BY DEF FramesOK, OthersSame

LEMMA NewFrameTyped ==
    ASSUME NEW pc \in Steps, NEW d \in Deliveries \cup {None}, NEW c \in Couriers \cup {None}
    PROVE  /\ NewFrame(pc, d, c) \in Frame
           /\ NewFrame(pc, d, c).pc = pc /\ NewFrame(pc, d, c).d = d /\ NewFrame(pc, d, c).c = c
BY DEF NewFrame, Frame

LEMMA IdleFrame == Idle \in Frame /\ FrameOK(Idle) /\ Idle.pc = "idle"
BY DEF Idle, NewFrame, Frame, FrameOK, Steps, OwnerSteps, CourierSteps

\* A request arrives with a frame ...
LEMMA BeginFrames ==
    ASSUME FramesOK, NEW w \in Workers, NEW f \in Frame, FrameOK(f), Begin(w, f)
    PROVE  FramesOK' /\ OthersSame(w) /\ req'[w] = f
<1>1. req' = [req EXCEPT ![w] = f] /\ arrivals' \in Nat
    BY DEF Begin, FramesOK
<1> QED BY <1>1, SlotUpdate

\* ... goes on to its next step ...
LEMMA GotoFrames ==
    ASSUME FramesOK, NEW w \in Workers, NEW pc \in Steps, Goto(w, pc),
           FrameOK([req[w] EXCEPT !.pc = pc])
    PROVE  FramesOK' /\ OthersSame(w) /\ req'[w] = [req[w] EXCEPT !.pc = pc]
<1>1. [req[w] EXCEPT !.pc = pc] \in Frame
    BY DEF FramesOK, Frame
<1>2. req' = [req EXCEPT ![w] = [req[w] EXCEPT !.pc = pc]] /\ arrivals' \in Nat
    BY DEF Goto, FramesOK
<1> QED BY <1>1, <1>2, SlotUpdate

\* ... and is over.
LEMMA ReturnFrames ==
    ASSUME FramesOK, NEW w \in Workers, Return(w)
    PROVE  FramesOK' /\ OthersSame(w) /\ req'[w] = Idle
<1>1. req' = [req EXCEPT ![w] = Idle] /\ arrivals' \in Nat
    BY DEF Return, FramesOK
<1> QED BY <1>1, IdleFrame, SlotUpdate

-----------------------------------------------------------------------------
(* Couriers, however requests interleave *)

Vetted(c) == courier[c].isVerified /\ courier[c].located /\ courier[c].role = "COURIER"

\* What a request has read of couriers, none of which is ever taken back.
FrameVetted(f) ==
    /\ f.pc = "registerProfile" => courier[f.c].role = "COURIER"
    /\ f.pc = "toggleCommit" => courier[f.c].isVerified
    /\ f.pc = "selectCourier" => \A c \in f.couriers : Vetted(c)
    /\ f.pc = "assignCourier" => Vetted(f.c)

\* A courier is vetted step by step.
CourierOK(c) ==
    /\ courier[c].isOnline => courier[c].isVerified
    /\ courier[c].isVerified => courier[c].profile
    /\ courier[c].profile => courier[c].role = "COURIER"

\* The inductive invariant.
VetInv ==
    /\ TypeOK /\ DeliveredPaid
    /\ \A c \in Couriers : CourierOK(c)
    /\ \A d \in Deliveries : delivery[d].courier # None => Vetted(delivery[d].courier)
    /\ \A w \in Workers : FrameVetted(req[w])

\* Nothing a courier has got through is taken back.
CouriersGrow ==
    \A c \in Couriers :
        /\ courier[c].isVerified => courier'[c].isVerified
        /\ courier[c].located => courier'[c].located
        /\ courier[c].role = "COURIER" => courier'[c].role = "COURIER"

\* What a step has to show.
LEMMA VetKept ==
    ASSUME VetInv, TypeOK', NEW w \in Workers, OthersSame(w),
           CouriersGrow, \A c \in Couriers : CourierOK(c)',
           FrameVetted(req[w])',
           \A d \in Deliveries : \/ delivery'[d].courier \in {None, delivery[d].courier}
                                 \/ delivery'[d].courier \in Couriers /\ Vetted(delivery'[d].courier),
           \A d \in Deliveries :
               delivery'[d].status = "DELIVERED" => \E c \in Couriers : paid'[d][c] > 0
    PROVE  VetInv'
<1>1. \A c \in Couriers : Vetted(c) => courier'[c].isVerified /\ courier'[c].located
                                        /\ courier'[c].role = "COURIER"
    BY DEF CouriersGrow, Vetted
<1>2. ASSUME NEW d \in Deliveries, delivery'[d].courier # None
      PROVE  Vetted(delivery[d].courier)'
    <2>1. delivery'[d].courier \in Couriers
        BY <1>2 DEF TypeOK, DeliveryRow
    <2>2. delivery[d].courier # None => Vetted(delivery[d].courier)
        BY DEF VetInv
    <2> QED BY <1>1, <1>2, <2>1, <2>2 DEF Vetted
<1>3. ASSUME NEW v \in Workers, v # w PROVE FrameVetted(req[v])'
    <2>1. req'[v] = req[v] /\ FrameVetted(req[v]) /\ req[v] \in Frame /\ FrameOK(req[v])
        BY <1>3 DEF OthersSame, VetInv, TypeOK
    <2>2. /\ req[v].pc \in {"registerProfile", "toggleCommit", "assignCourier"} => req[v].c \in Couriers
          /\ req[v].couriers \subseteq Couriers
        BY <2>1 DEF FrameOK, Frame, Steps, OwnerSteps
    <2> QED BY <1>1, <2>1, <2>2 DEF FrameVetted, CouriersGrow, Vetted
<1> QED BY <1>2, <1>3 DEF VetInv, DeliveredPaid

\* A request that only reads, or whose writes touch neither deliveries nor couriers.
LEMMA VetUntouched ==
    ASSUME VetInv, TypeOK', NEW w \in Workers, OthersSame(w), UNCHANGED <<delivery, courier, paid>>,
           FrameVetted(req'[w])
    PROVE  VetInv'
<1>1. \A v \in Workers : FrameVetted(req'[v])
    BY DEF VetInv, OthersSame
<1>2. \A v \in Workers : FrameVetted(req[v])'
    BY <1>1 DEF FrameVetted, Vetted
<1> QED BY <1>2 DEF VetInv, DeliveredPaid, CourierOK, Vetted

LEMMA StatusWritten ==
    ASSUME TablesOK, NEW d \in Deliveries,
           NEW s \in {"ABSENT", "SEARCHING", "ASSIGNED", "PICKED_UP", "DELIVERED"},
           delivery' = [delivery EXCEPT ![d].status = s]
    PROVE  /\ delivery' \in [Deliveries -> DeliveryRow]
           /\ delivery'[d].status = s /\ delivery'[d].courier = delivery[d].courier
           /\ \A e \in Deliveries \ {d} : delivery'[e] = delivery[e]
BY DEF TablesOK, DeliveryRow

LEMMA RowWritten ==
    ASSUME TablesOK, NEW d \in Deliveries, NEW row \in DeliveryRow,
           delivery' = [delivery EXCEPT ![d] = row]
    PROVE  /\ delivery' \in [Deliveries -> DeliveryRow] /\ delivery'[d] = row
           /\ \A e \in Deliveries \ {d} : delivery'[e] = delivery[e]
BY DEF TablesOK

LEMMA CourierWritten ==
    ASSUME TablesOK, NEW c \in Couriers, NEW row \in CourierRow,
           courier' = [courier EXCEPT ![c] = row]
    PROVE  /\ courier' \in [Couriers -> CourierRow] /\ courier'[c] = row
           /\ \A b \in Couriers \ {c} : courier'[b] = courier[b]
BY DEF TablesOK

\* Signing up, going online, moving and being paid.
LEMMA CouriersStep ==
    ASSUME VetInv, NEW w \in Workers,
           RegisterRole(w) \/ RegisterProfile(w) \/ ToggleCommit(w) \/ LocationCommit(w) \/ CashoutCommit(w)
    PROVE  VetInv'
<1>1. TablesOK /\ KeysOK /\ FramesOK /\ (\A c \in Couriers : CourierOK(c)) /\ FrameVetted(req[w])
    BY TypeParts DEF VetInv
<1> DEFINE f == req[w]
           c == req[w].c
           row == courier[c]
<1>2. f \in Frame /\ FrameOK(f) /\ c \in Couriers /\ row \in CourierRow
    BY <1>1 DEF RegisterRole, RegisterProfile, ToggleCommit, LocationCommit, CashoutCommit,
       FramesOK, FrameOK, Steps, OwnerSteps, TablesOK
<1>3. PICK new \in CourierRow :
         /\ courier' = [courier EXCEPT ![c] = new]
         /\ row.isVerified => new.isVerified
         /\ row.located => new.located
         /\ row.role = "COURIER" => new.role = "COURIER"
         /\ new.isOnline => new.isVerified
         /\ new.isVerified => new.profile
         /\ new.profile => new.role = "COURIER"
         /\ f.pc = "registerRole" => new.role = "COURIER"
    <2>1. CASE RegisterRole(w)
        <3> DEFINE new == [row EXCEPT !.role = "COURIER"]
        <3>1. new \in CourierRow
            BY <1>2 DEF CourierRow
        <3> QED BY <1>1, <1>2, <2>1, <3>1 DEF RegisterRole, CourierOK, CourierRow, TablesOK
    <2>2. CASE RegisterProfile(w)
        <3> DEFINE new == [row EXCEPT !.profile = TRUE]
        <3>1. new \in CourierRow
            BY <1>2 DEF CourierRow
        <3> QED BY <1>1, <1>2, <2>2, <3>1 DEF RegisterProfile, CourierOK, CourierRow, TablesOK, FrameVetted
    <2>3. CASE ToggleCommit(w)
        <3> DEFINE new == [row EXCEPT !.isOnline = ~f.online]
        <3>1. new \in CourierRow
            BY <1>2 DEF CourierRow, Frame
        <3> QED BY <1>1, <1>2, <2>3, <3>1 DEF ToggleCommit, CourierOK, CourierRow, TablesOK, FrameVetted
    <2>4. CASE LocationCommit(w)
        <3> DEFINE new == [row EXCEPT !.located = TRUE]
        <3>1. new \in CourierRow
            BY <1>2 DEF CourierRow
        <3> QED BY <1>1, <1>2, <2>4, <3>1 DEF LocationCommit, CourierOK, CourierRow, TablesOK
    <2>5. CASE CashoutCommit(w)
        <3> DEFINE new == [row EXCEPT !.walletBalance = 0]
        <3>1. new \in CourierRow
            BY <1>2 DEF CourierRow
        <3> QED BY <1>1, <1>2, <2>5, <3>1 DEF CashoutCommit, CourierOK, CourierRow, TablesOK
    <2> QED BY <2>1, <2>2, <2>3, <2>4, <2>5
<1>4. /\ courier' \in [Couriers -> CourierRow] /\ courier'[c] = new
      /\ \A b \in Couriers \ {c} : courier'[b] = courier[b]
    BY <1>1, <1>2, <1>3, CourierWritten
<1>5. CouriersGrow /\ \A b \in Couriers : CourierOK(b)'
    BY <1>1, <1>2, <1>3, <1>4 DEF CouriersGrow, CourierOK
<1>6. /\ FramesOK' /\ OthersSame(w)
      /\ \/ req'[w] = Idle
         \/ f.pc = "registerRole" /\ req'[w] = [f EXCEPT !.pc = "registerProfile"]
    <2>1. CASE RegisterRole(w)
        <3>1. FrameOK([f EXCEPT !.pc = "registerProfile"])
            BY <1>2 DEF FrameOK, Frame, Steps, OwnerSteps, CourierSteps
        <3> QED BY <1>1, <2>1, <3>1, GotoFrames DEF RegisterRole, Steps
    <2>2. CASE ~RegisterRole(w)
        BY <1>1, <2>2, ReturnFrames
           DEF RegisterProfile, ToggleCommit, LocationCommit, CashoutCommit
    <2> QED BY <2>1, <2>2
<1>7. TablesOK' /\ KeysOK' /\ UNCHANGED <<delivery, paid>>
    <2>1. UNCHANGED <<delivery, orderStatus, credited, paid, redis, accepted>>
        BY DEF RegisterRole, RegisterProfile, ToggleCommit, LocationCommit, CashoutCommit
    <2>2. ledger' \in [Couriers -> Int]
        BY <1>1, <1>2 DEF RegisterRole, RegisterProfile, ToggleCommit, LocationCommit, CashoutCommit,
           TablesOK, Frame
    <2> QED BY <1>1, <1>4, <2>1, <2>2 DEF TablesOK, KeysOK, redis
<1>8. FrameVetted(req[w])'
    BY <1>2, <1>3, <1>4, <1>6, IdleFrame DEF FrameVetted, Frame
<1> QED BY <1>5, <1>6, <1>7, <1>8, TypePartsNext, VetKept DEF VetInv, DeliveredPaid, TypeOK

LEMMA VerifyStep == ASSUME VetInv, NEW c \in Couriers, VerifyCourier(c) PROVE VetInv'
<1>1. TablesOK /\ KeysOK /\ FramesOK /\ (\A b \in Couriers : CourierOK(b))
    BY TypeParts DEF VetInv
<1> DEFINE new == [courier[c] EXCEPT !.isVerified = TRUE]
<1>2. new \in CourierRow /\ courier' = [courier EXCEPT ![c] = new]
    BY <1>1 DEF TablesOK, CourierRow, VerifyCourier
<1>3. /\ courier' \in [Couriers -> CourierRow] /\ courier'[c] = new
      /\ \A b \in Couriers \ {c} : courier'[b] = courier[b]
    BY <1>1, <1>2, CourierWritten
<1>4. CouriersGrow /\ \A b \in Couriers : CourierOK(b)'
    BY <1>1, <1>3 DEF CouriersGrow, CourierOK, VerifyCourier, TablesOK, CourierRow
<1>5. TypeOK' /\ UNCHANGED <<delivery, paid, req>>
    BY <1>1, <1>3, TypePartsNext DEF TablesOK, KeysOK, FramesOK, VerifyCourier, redis
<1>6. ASSUME NEW w \in Workers PROVE VetInv'
    <2>1. \A b \in Couriers : Vetted(b) => Vetted(b)'
        BY <1>4 DEF CouriersGrow, Vetted
    <2>2. req[w] \in Frame /\ FrameOK(req[w]) /\ FrameVetted(req[w])
        BY <1>1 DEF FramesOK, VetInv
    <2>3. FrameVetted(req[w])'
        <3>1. /\ req[w].pc \in {"registerProfile", "toggleCommit", "assignCourier"} => req[w].c \in Couriers
              /\ req[w].couriers \subseteq Couriers
            BY <2>2 DEF FrameOK, Frame, Steps, OwnerSteps
        <3> QED BY <1>4, <1>5, <2>2, <3>1 DEF FrameVetted, CouriersGrow, Vetted
    <2> QED BY <1>4, <1>5, <2>3, VetKept DEF VetInv, DeliveredPaid, TypeOK, OthersSame
<1>7. CASE Workers = {}
    BY <1>4, <1>5, <1>7 DEF VetInv, DeliveredPaid, CouriersGrow, Vetted, TypeOK, DeliveryRow
<1> QED BY <1>6, <1>7

\* The search for a courier.
LEMMA DispatchStep ==
    ASSUME VetInv, NEW w \in Workers,
           DispatchRead(w) \/ FindCouriers(w) \/ SelectCourier(w) \/ AssignCourier(w) \/ SetPending(w)
    PROVE  VetInv'
<1>1. TablesOK /\ KeysOK /\ FramesOK /\ (\A c \in Couriers : CourierOK(c)) /\ FrameVetted(req[w])
    BY TypeParts DEF VetInv
<1> DEFINE f == req[w]
<1>2. f \in Frame /\ FrameOK(f)
    BY <1>1 DEF FramesOK
<1>3. Idle \in Frame /\ FrameOK(Idle) /\ Idle.pc = "idle" /\ FrameVetted(Idle)
    BY IdleFrame DEF FrameVetted
<1>4. ASSUME NEW g \in Frame, FrameOK(g), FrameVetted(g), req' = [req EXCEPT ![w] = g],
             UNCHANGED <<tables, redis, accepted, arrivals>>
      PROVE  VetInv'
    <2>1. FramesOK' /\ OthersSame(w) /\ req'[w] = g
        BY <1>1, <1>4, SlotUpdate DEF FramesOK
    <2>2. TablesOK' /\ KeysOK' /\ UNCHANGED <<delivery, courier, paid>>
        BY <1>1, <1>4 DEF TablesOK, KeysOK, tables, redis
    <2> QED BY <1>4, <2>1, <2>2, TypePartsNext, VetUntouched
<1>5. CASE DispatchRead(w)
    <2>1. CASE Return(w)
        BY <1>3, <1>4, <1>5, <2>1 DEF DispatchRead, Return
    <2>2. CASE ~Return(w)
        <3> DEFINE g == [f EXCEPT !.pc = "findCouriers", !.n = 1]
        <3>1. req' = [req EXCEPT ![w] = g] /\ UNCHANGED <<tables, redis, accepted, arrivals>>
            BY <1>1, <1>5, <2>2 DEF DispatchRead, FramesOK
        <3>2. g \in Frame /\ g.pc = "findCouriers" /\ g.d = f.d /\ g.n = 1
            BY <1>2 DEF Frame, Steps
        <3>3. FrameOK(g) /\ FrameVetted(g)
            BY <1>2, <1>5, <3>2 DEF DispatchRead, FrameOK, FrameVetted, Steps, CourierSteps, OwnerSteps, Radii
        <3> QED BY <1>4, <3>1, <3>2, <3>3
    <2> QED BY <2>1, <2>2
<1>6. CASE FindCouriers(w)
    <2> DEFINE found == {c \in Couriers : /\ courier[c].isVerified
                                          /\ courier[c].isOnline
                                          /\ courier[c].located
                                          /\ ~Busy(c)}
               g == [f EXCEPT !.pc = "selectCourier", !.couriers = found]
    <2>1. req' = [req EXCEPT ![w] = g] /\ UNCHANGED <<tables, redis, accepted, arrivals>>
        BY <1>1, <1>6 DEF FindCouriers, FramesOK
    <2>2. \A c \in found : Vetted(c)
        BY <1>1 DEF CourierOK, Vetted
    <2>3. found \in SUBSET Couriers
        OBVIOUS
    <2> HIDE DEF found
    <2>4. g \in Frame /\ g.pc = "selectCourier" /\ g.d = f.d /\ g.n = f.n /\ g.couriers = found
        BY <1>2, <2>3 DEF Frame, Steps
    <2>5. FrameOK(g) /\ FrameVetted(g)
        BY <1>2, <1>6, <2>2, <2>4 DEF FindCouriers, FrameOK, FrameVetted, Steps, CourierSteps, OwnerSteps
    <2> QED BY <1>4, <2>1, <2>4, <2>5
<1>7. CASE SelectCourier(w)
    <2>1. UNCHANGED <<tables, redis, accepted, arrivals>> /\ f.pc = "selectCourier" /\ f.d \in Deliveries
        BY <1>2, <1>7 DEF SelectCourier, FrameOK, Steps, CourierSteps
    <2>2. ASSUME NEW c \in f.couriers, req' = [req EXCEPT ![w] = NewFrame("assignCourier", f.d, c)]
          PROVE  VetInv'
        <3> DEFINE g == NewFrame("assignCourier", f.d, c)
        <3>1. c \in Couriers /\ Vetted(c)
            BY <1>1, <1>2, <2>1 DEF Frame, FrameVetted
        <3>2. g \in Frame /\ g.pc = "assignCourier" /\ g.d = f.d /\ g.c = c
            BY <2>1, <3>1, NewFrameTyped DEF Steps
        <3>3. FrameOK(g) /\ FrameVetted(g)
            BY <2>1, <3>1, <3>2 DEF FrameOK, FrameVetted, OwnerSteps
        <3> HIDE DEF g
        <3> QED BY <1>4, <2>1, <2>2, <3>2, <3>3 DEF g
    <2>3. CASE NextRadius(w)
        <3> DEFINE g == [f EXCEPT !.pc = "findCouriers", !.n = f.n + 1, !.couriers = {}]
        <3>1. req' = [req EXCEPT ![w] = g] /\ f.n < Radii
            BY <1>1, <2>3 DEF NextRadius, FramesOK
        <3>2. f.n \in 1 .. Radii /\ f.n + 1 \in Nat
            BY <1>2, <2>1 DEF FrameOK, Radii
        <3>3. g \in Frame /\ g.pc = "findCouriers" /\ g.d = f.d /\ g.n = f.n + 1
            BY <1>2, <3>2 DEF Frame, Steps
        <3>4. FrameOK(g) /\ FrameVetted(g)
            BY <2>1, <3>1, <3>2, <3>3 DEF FrameOK, FrameVetted, OwnerSteps, Radii
        <3> HIDE DEF g
        <3> QED BY <1>4, <2>1, <3>1, <3>3, <3>4
    <2>4. CASE req' = [req EXCEPT ![w] = Idle]
        BY <1>3, <1>4, <2>1, <2>4
    <2> QED BY <1>7, <2>2, <2>3, <2>4 DEF SelectCourier
<1>8. CASE AssignCourier(w)
    <2> DEFINE row == [status |-> "ASSIGNED", courier |-> f.c]
    <2>1. f.d \in Deliveries /\ f.c \in Couriers /\ row \in DeliveryRow /\ Vetted(f.c)
        BY <1>1, <1>2, <1>8 DEF AssignCourier, FrameOK, FrameVetted, Steps, CourierSteps, OwnerSteps, DeliveryRow
    <2>2. /\ delivery' \in [Deliveries -> DeliveryRow] /\ delivery'[f.d] = row
          /\ \A e \in Deliveries \ {f.d} : delivery'[e] = delivery[e]
        BY <1>1, <1>8, <2>1, RowWritten DEF AssignCourier
    <2>3. FrameOK([f EXCEPT !.pc = "setPending"]) /\ FrameVetted([f EXCEPT !.pc = "setPending"])
        BY <1>2, <2>1 DEF FrameOK, FrameVetted, Frame, OwnerSteps
    <2>4. FramesOK' /\ OthersSame(w) /\ req'[w] = [f EXCEPT !.pc = "setPending"]
        BY <1>1, <1>8, <2>3, GotoFrames DEF AssignCourier, Steps
    <2>5. UNCHANGED <<orderStatus, credited, courier, paid, ledger, redis, accepted>>
        BY <1>8 DEF AssignCourier
    <2>6. TablesOK' /\ KeysOK'
        BY <1>1, <2>2, <2>5 DEF TablesOK, KeysOK, redis
    <2>7. FrameVetted(req[w])'
        BY <1>2, <2>4 DEF FrameVetted, Frame
    <2>8. CouriersGrow /\ \A c \in Couriers : CourierOK(c)'
        BY <1>1, <2>5 DEF CouriersGrow, CourierOK
    <2> QED BY <2>1, <2>2, <2>4, <2>5, <2>6, <2>7, <2>8, TypePartsNext, VetKept DEF VetInv, DeliveredPaid
<1>9. CASE SetPending(w)
    <2>1. FramesOK' /\ OthersSame(w) /\ req'[w] = Idle
        BY <1>1, <1>9, ReturnFrames DEF SetPending
    <2>2. UNCHANGED <<tables, rejected, accepted>> /\ f.d \in Deliveries /\ f.c \in Couriers
        BY <1>2, <1>9 DEF SetPending, FrameOK, Steps, CourierSteps, OwnerSteps
    <2>3. TablesOK' /\ KeysOK' /\ UNCHANGED <<delivery, courier, paid>>
        BY <1>1, <1>9, <2>2 DEF SetPending, TablesOK, KeysOK, tables
    <2> QED BY <1>3, <2>1, <2>3, TypePartsNext, VetUntouched
<1> QED BY <1>5, <1>6, <1>7, <1>8, <1>9

\* A step that writes the delivery of the request, and gives it to nobody else.
LEMMA DeliveryWritten ==
    ASSUME VetInv, TypeOK', NEW w \in Workers, OthersSame(w), NEW d \in Deliveries,
           UNCHANGED courier, FrameVetted(req'[w]),
           \A e \in Deliveries \ {d} : delivery'[e] = delivery[e] /\ paid'[e] = paid[e],
           delivery'[d].courier \in {None, delivery[d].courier},
           delivery'[d].status = "DELIVERED" => \E c \in Couriers : paid'[d][c] > 0
    PROVE  VetInv'
<1>1. CouriersGrow /\ (\A c \in Couriers : CourierOK(c)') /\ FrameVetted(req[w])'
    BY DEF VetInv, CouriersGrow, CourierOK, FrameVetted, Vetted
<1>2. \A e \in Deliveries : delivery'[e].status = "DELIVERED" => \E c \in Couriers : paid'[e][c] > 0
    BY DEF VetInv, DeliveredPaid
<1> QED BY <1>1, <1>2, VetKept

\* The courier's answer, and the journey.
LEMMA JourneyStep ==
    ASSUME VetInv, NEW w \in Workers,
           AcceptWrite(w) \/ AcceptClear(w) \/ RejectMark(w) \/ RejectReset(w) \/ PickupCommit(w)
    PROVE  VetInv'
<1>1. TablesOK /\ KeysOK /\ FramesOK /\ FrameVetted(req[w])
    BY TypeParts DEF VetInv
<1> DEFINE f == req[w]
           d == req[w].d
<1>2. f \in Frame /\ FrameOK(f) /\ d \in Deliveries
    BY <1>1 DEF FramesOK, FrameOK, Steps, CourierSteps, AcceptWrite, AcceptClear, RejectMark,
       RejectReset, PickupCommit
<1>3. FrameVetted(Idle)
    BY IdleFrame DEF FrameVetted
<1>4. ASSUME NEW pc \in {"acceptClear", "rejectReset", "dispatchRead"}, Goto(w, pc),
             pc = "acceptClear" => f.c \in Couriers
      PROVE  FramesOK' /\ OthersSame(w) /\ FrameVetted(req'[w])
    <2>1. FrameOK([f EXCEPT !.pc = pc]) /\ FrameVetted([f EXCEPT !.pc = pc])
        BY <1>2, <1>4 DEF FrameOK, FrameVetted, Frame, OwnerSteps, CourierSteps, Steps
    <2> QED BY <1>1, <1>4, <2>1, GotoFrames DEF Steps
<1>5. CASE AcceptWrite(w)
    <2>1. f.c \in Couriers
        BY <1>2, <1>5 DEF AcceptWrite, FrameOK, Steps, OwnerSteps
    <2>2. UNCHANGED <<orderStatus, credited, courier, paid, ledger, redis>>
          /\ accepted' = accepted \cup {<<d, f.c>>} /\ Goto(w, "acceptClear")
          /\ delivery' = [delivery EXCEPT ![d].status = "ASSIGNED"]
        BY <1>5 DEF AcceptWrite
    <2>3. /\ delivery' \in [Deliveries -> DeliveryRow]
          /\ delivery'[d].status = "ASSIGNED" /\ delivery'[d].courier = delivery[d].courier
          /\ \A e \in Deliveries \ {d} : delivery'[e] = delivery[e]
        BY <1>1, <1>2, <2>2, StatusWritten
    <2>4. TablesOK' /\ KeysOK'
        BY <1>1, <1>2, <2>1, <2>2, <2>3 DEF TablesOK, KeysOK, redis
    <2> QED BY <1>2, <1>4, <2>1, <2>2, <2>3, <2>4, TypePartsNext, DeliveryWritten
<1>6. CASE AcceptClear(w)
    <2>1. FramesOK' /\ OthersSame(w) /\ req'[w] = Idle /\ UNCHANGED <<tables, rejected, accepted>>
        BY <1>1, <1>6, ReturnFrames DEF AcceptClear
    <2>2. TablesOK' /\ KeysOK' /\ UNCHANGED <<delivery, courier, paid>>
        BY <1>1, <1>6, <2>1 DEF AcceptClear, TablesOK, KeysOK, tables
    <2> QED BY <1>3, <2>1, <2>2, TypePartsNext, VetUntouched
<1>7. CASE RejectMark(w)
    <2>1. f.c \in Couriers
        BY <1>2, <1>7 DEF RejectMark, FrameOK, Steps, OwnerSteps
    <2>2. UNCHANGED <<tables, pending, accepted>> /\ rejected' = rejected \cup {<<d, f.c>>}
          /\ Goto(w, "rejectReset")
        BY <1>7 DEF RejectMark
    <2>3. TablesOK' /\ KeysOK' /\ UNCHANGED <<delivery, courier, paid>>
        BY <1>1, <1>2, <2>1, <2>2 DEF TablesOK, KeysOK, tables
    <2> QED BY <1>4, <2>2, <2>3, TypePartsNext, VetUntouched
<1>8. CASE RejectReset(w)
    <2> DEFINE row == [status |-> "SEARCHING", courier |-> None]
    <2>1. UNCHANGED <<orderStatus, credited, courier, paid, ledger, redis, accepted>>
          /\ Goto(w, "dispatchRead") /\ delivery' = [delivery EXCEPT ![d] = row] /\ row \in DeliveryRow
        BY <1>8 DEF RejectReset, DeliveryRow
    <2>2. /\ delivery' \in [Deliveries -> DeliveryRow] /\ delivery'[d] = row
          /\ \A e \in Deliveries \ {d} : delivery'[e] = delivery[e]
        BY <1>1, <1>2, <2>1, RowWritten
    <2>3. TablesOK' /\ KeysOK'
        BY <1>1, <2>1, <2>2 DEF TablesOK, KeysOK, redis
    <2> QED BY <1>2, <1>4, <2>1, <2>2, <2>3, TypePartsNext, DeliveryWritten
<1>9. CASE PickupCommit(w)
    <2>1. UNCHANGED <<credited, courier, paid, ledger, redis, accepted>> /\ Return(w)
          /\ delivery' = [delivery EXCEPT ![d].status = "PICKED_UP"]
          /\ orderStatus' = [orderStatus EXCEPT ![d] = "PICKED_UP"]
        BY <1>9 DEF PickupCommit
    <2>2. /\ delivery' \in [Deliveries -> DeliveryRow]
          /\ delivery'[d].status = "PICKED_UP" /\ delivery'[d].courier = delivery[d].courier
          /\ \A e \in Deliveries \ {d} : delivery'[e] = delivery[e]
        BY <1>1, <1>2, <2>1, StatusWritten
    <2>3. TablesOK' /\ KeysOK'
        BY <1>1, <2>1, <2>2 DEF TablesOK, KeysOK, redis, OrderStatus
    <2>4. FramesOK' /\ OthersSame(w) /\ req'[w] = Idle
        BY <1>1, <2>1, ReturnFrames
    <2> QED BY <1>2, <1>3, <2>1, <2>2, <2>3, <2>4, TypePartsNext, DeliveryWritten
<1> QED BY <1>5, <1>6, <1>7, <1>8, <1>9

\* The end of the journey pays the courier.
LEMMA ConfirmStep == ASSUME VetInv, NEW w \in Workers, ConfirmCommit(w) PROVE VetInv'
<1>1. TablesOK /\ KeysOK /\ FramesOK /\ \A b \in Couriers : CourierOK(b)
    BY TypeParts DEF VetInv
<1> DEFINE d == req[w].d
           c == req[w].c
           new == [courier[c] EXCEPT !.walletBalance = courier[c].walletBalance + CourierShare]
<1>2. d \in Deliveries /\ c \in Couriers
    BY <1>1 DEF ConfirmCommit, FramesOK, FrameOK, Steps, CourierSteps, OwnerSteps
<1>3. new \in CourierRow /\ courier' = [courier EXCEPT ![c] = new]
    <2>1. courier[c] \in CourierRow /\ courier[c].walletBalance + CourierShare \in Nat
        BY <1>1, <1>2, DeliveryAssumption DEF TablesOK, CourierRow
    <2>2. new \in CourierRow
        BY <2>1 DEF CourierRow
    <2>3. courier' = [courier EXCEPT ![c] = new]
        BY <1>1, <1>2 DEF ConfirmCommit, TablesOK
    <2> QED BY <2>2, <2>3
<1>4. /\ courier' \in [Couriers -> CourierRow] /\ courier'[c] = new
      /\ \A b \in Couriers \ {c} : courier'[b] = courier[b]
    BY <1>1, <1>2, <1>3, CourierWritten
<1>5. CouriersGrow /\ \A b \in Couriers : CourierOK(b)'
    <2>1. courier[c] \in CourierRow
        BY <1>1, <1>2 DEF TablesOK
    <2>2. /\ new.isVerified = courier[c].isVerified /\ new.located = courier[c].located
          /\ new.role = courier[c].role /\ new.isOnline = courier[c].isOnline
          /\ new.profile = courier[c].profile
        BY <2>1 DEF CourierRow
    <2> HIDE DEF new
    <2> QED BY <1>1, <1>2, <1>4, <2>2 DEF CouriersGrow, CourierOK
<1>6. /\ delivery' \in [Deliveries -> DeliveryRow]
      /\ delivery'[d].status = "DELIVERED" /\ delivery'[d].courier = delivery[d].courier
      /\ \A e \in Deliveries \ {d} : delivery'[e] = delivery[e]
    BY <1>1, <1>2, StatusWritten DEF ConfirmCommit
<1>7. /\ paid' \in [Deliveries -> [Couriers -> Nat]] /\ paid'[d][c] > 0
      /\ \A e \in Deliveries \ {d} : paid'[e] = paid[e]
    BY <1>1, <1>2 DEF ConfirmCommit, TablesOK
<1>8. FramesOK' /\ OthersSame(w) /\ req'[w] = Idle
    BY <1>1, ReturnFrames DEF ConfirmCommit
<1>12. ledger' \in [Couriers -> Int]
    BY <1>1, <1>2, DeliveryAssumption DEF ConfirmCommit, TablesOK
<1>9. TablesOK' /\ KeysOK'
    BY <1>1, <1>2, <1>4, <1>6, <1>7, <1>12 DEF ConfirmCommit, TablesOK, KeysOK, redis, OrderStatus
<1>10. FrameVetted(req[w])'
    BY <1>8, IdleFrame DEF FrameVetted
<1>11. \A e \in Deliveries : delivery'[e].status = "DELIVERED" => \E b \in Couriers : paid'[e][b] > 0
    BY <1>2, <1>6, <1>7 DEF VetInv, DeliveredPaid
<1> QED BY <1>2, <1>5, <1>6, <1>8, <1>9, <1>10, <1>11, TypePartsNext, VetKept

\* The owner's writes, a request that dies, a key whose time is up.
LEMMA OtherStep ==
    ASSUME VetInv, NEW w \in Workers, WriteStatus(w) \/ DeliverCod(w) \/ Abort(w)
    PROVE  VetInv'
<1>1. TablesOK /\ KeysOK /\ FramesOK
    BY TypeParts DEF VetInv
<1>2. FramesOK' /\ OthersSame(w) /\ FrameVetted(req'[w])
    BY <1>1, ReturnFrames, IdleFrame DEF WriteStatus, DeliverCod, Abort, FrameVetted
<1>3. CASE Abort(w)
    BY <1>1, <1>2, <1>3, TypePartsNext, VetUntouched DEF Abort, TablesOK, KeysOK, tables, redis
<1>4. CASE WriteStatus(w) \/ DeliverCod(w)
    <2>1. req[w].pc \in OwnerSteps /\ req[w].d \in Deliveries /\ req[w].to \in OrderStatus
          /\ (req[w].pc = "updateCod" => req[w].d \in CashOrders)
        BY <1>1, <1>4 DEF WriteStatus, DeliverCod, FramesOK, FrameOK, Steps, CourierSteps, OwnerSteps
    <2>2. UNCHANGED <<delivery, courier, paid, ledger, redis, accepted>>
        BY <1>4 DEF WriteStatus, DeliverCod
    <2>3. orderStatus' \in [Deliveries -> OrderStatus] /\ credited' \subseteq CashOrders
        BY <1>1, <1>4, <2>1 DEF WriteStatus, DeliverCod, TablesOK, OrderStatus
    <2>4. TablesOK' /\ KeysOK'
        BY <1>1, <2>2, <2>3 DEF TablesOK, KeysOK, redis
    <2> QED BY <1>2, <2>2, <2>4, TypePartsNext, VetUntouched
<1> QED BY <1>3, <1>4

LEMMA ExpireStep == ASSUME VetInv, Expire PROVE VetInv'
<1>1. TablesOK /\ KeysOK /\ FramesOK
    BY TypeParts DEF VetInv
<1>2. UNCHANGED <<tables, accepted, req, arrivals>>
    BY DEF Expire, ExpireRejected, ExpirePending
<1>3. rejected' \subseteq Deliveries \X Couriers /\ pending' \in [Deliveries -> Couriers \cup {None}]
    BY <1>1 DEF Expire, ExpireRejected, ExpirePending, KeysOK
<1>4. TypeOK'
    BY <1>1, <1>2, <1>3, TypePartsNext DEF TablesOK, KeysOK, FramesOK, tables
<1> QED BY <1>2, <1>4 DEF VetInv, DeliveredPaid, CourierOK, FrameVetted, Vetted, tables

LEMMA ArriveStep == ASSUME VetInv, NEW w \in Workers, Arrive(w) PROVE VetInv'
<1>1. TablesOK /\ KeysOK /\ FramesOK
    BY TypeParts DEF VetInv
<1>2. ASSUME NEW f \in Frame, FrameOK(f), FrameVetted(f), Begin(w, f),
             UNCHANGED <<tables, redis, accepted>>
      PROVE  VetInv'
    <2>1. FramesOK' /\ OthersSame(w) /\ req'[w] = f
        BY <1>1, <1>2, BeginFrames
    <2>2. TablesOK' /\ KeysOK' /\ UNCHANGED <<delivery, courier, paid>>
        BY <1>1, <1>2 DEF TablesOK, KeysOK, tables, redis
    <2> QED BY <1>2, <2>1, <2>2, TypePartsNext, VetUntouched
<1>4. ASSUME NEW c \in Couriers,
             \/ RegisterCourier(w, c) \/ ToggleAvailability(w, c)
             \/ CourierCashout(w, c) \/ UpdateCourierLocation(w, c)
      PROVE  VetInv'
    <2>1. PICK f : /\ f \in Frame /\ Begin(w, f) /\ f.c = c /\ f.pc \in CourierSteps \ {"registerProfile"}
                   /\ f.pc = "toggleCommit" => courier[c].isVerified
        <3>1. courier[c].isOnline \in BOOLEAN /\ courier[c].walletBalance \in Nat
            BY <1>1 DEF TablesOK, CourierRow
        <3>2. CASE RegisterCourier(w, c)
            <4> DEFINE g == NewFrame("registerRole", None, c)
            <4>1. g \in Frame /\ g.c = c /\ g.pc = "registerRole"
                BY <3>1 DEF NewFrame, Frame, Steps
            <4>2. Begin(w, g)
                BY <3>2 DEF RegisterCourier
            <4> HIDE DEF g
            <4> QED BY <3>2, <4>1, <4>2 DEF RegisterCourier, CourierSteps
        <3>3. CASE ToggleAvailability(w, c)
            <4> DEFINE g == [NewFrame("toggleCommit", None, c) EXCEPT !.online = courier[c].isOnline]
            <4>1. g \in Frame /\ g.c = c /\ g.pc = "toggleCommit"
                BY <3>1 DEF NewFrame, Frame, Steps
            <4>2. Begin(w, g)
                BY <3>3 DEF ToggleAvailability
            <4> HIDE DEF g
            <4> QED BY <3>3, <4>1, <4>2 DEF ToggleAvailability, CourierSteps
        <3>4. CASE CourierCashout(w, c)
            <4> DEFINE g == [NewFrame("cashoutCommit", None, c) EXCEPT !.n = courier[c].walletBalance]
            <4>1. g \in Frame /\ g.c = c /\ g.pc = "cashoutCommit"
                BY <3>1 DEF NewFrame, Frame, Steps
            <4>2. Begin(w, g)
                BY <3>4 DEF CourierCashout
            <4> HIDE DEF g
            <4> QED BY <3>4, <4>1, <4>2 DEF CourierCashout, CourierSteps
        <3>5. CASE UpdateCourierLocation(w, c)
            <4> DEFINE g == NewFrame("locationCommit", None, c)
            <4>1. g \in Frame /\ g.c = c /\ g.pc = "locationCommit"
                BY <3>1 DEF NewFrame, Frame, Steps
            <4>2. Begin(w, g)
                BY <3>5 DEF UpdateCourierLocation
            <4> HIDE DEF g
            <4> QED BY <3>5, <4>1, <4>2 DEF UpdateCourierLocation, CourierSteps
        <3> QED BY <1>4, <3>2, <3>3, <3>4, <3>5
    <2>2. UNCHANGED <<tables, redis, accepted>>
        BY <1>4 DEF RegisterCourier, ToggleAvailability, CourierCashout, UpdateCourierLocation
    <2>3. FrameOK(f) /\ FrameVetted(f)
        BY <2>1 DEF FrameOK, FrameVetted, CourierSteps, OwnerSteps
    <2> QED BY <1>2, <2>1, <2>2, <2>3
<1>5. ASSUME NEW d \in Deliveries, CreateDelivery(w, d) PROVE VetInv'
    <2> DEFINE f == NewFrame("dispatchRead", d, None)
    <2>1. f \in Frame /\ f.pc = "dispatchRead" /\ f.d = d
        BY NewFrameTyped DEF Steps
    <2>2. FrameOK(f) /\ FrameVetted(f)
        BY <2>1 DEF FrameOK, FrameVetted, OwnerSteps
    <2>3. /\ delivery' \in [Deliveries -> DeliveryRow]
          /\ delivery'[d].status = "SEARCHING" /\ delivery'[d].courier = delivery[d].courier
          /\ \A e \in Deliveries \ {d} : delivery'[e] = delivery[e]
        BY <1>1, <1>5, StatusWritten DEF CreateDelivery
    <2>4. UNCHANGED <<orderStatus, credited, courier, paid, ledger, redis, accepted>> /\ Begin(w, f)
        BY <1>5 DEF CreateDelivery
    <2> HIDE DEF f
    <2>5. FramesOK' /\ OthersSame(w) /\ req'[w] = f
        BY <1>1, <2>1, <2>2, <2>4, BeginFrames
    <2>6. TablesOK' /\ KeysOK'
        BY <1>1, <2>3, <2>4 DEF TablesOK, KeysOK, redis
    <2> QED BY <2>2, <2>3, <2>4, <2>5, <2>6, TypePartsNext, DeliveryWritten
<1>6. ASSUME NEW d \in Deliveries, NEW status \in OrderStatus, UpdateStatus(w, d, status)
      PROVE  VetInv'
    <2>1. PICK f : /\ f \in Frame /\ Begin(w, f) /\ f.d = d /\ f.to = status
                   /\ f.pc \in OwnerSteps /\ (f.pc = "updateCod" => d \in CashOrders)
        <3>1. PICK pc \in OwnerSteps :
                 /\ Begin(w, [NewFrame(pc, d, None) EXCEPT !.to = status])
                 /\ pc = "updateCod" => d \in CashOrders
            BY <1>6 DEF UpdateStatus, OwnerSteps
        <3> DEFINE f == [NewFrame(pc, d, None) EXCEPT !.to = status]
        <3>2. f \in Frame /\ f.pc = pc /\ f.d = d /\ f.to = status
            BY DEF NewFrame, Frame, Steps, OwnerSteps
        <3> QED BY <3>1, <3>2
    <2>2. UNCHANGED <<tables, redis, accepted>>
        BY <1>6 DEF UpdateStatus
    <2>3. FrameOK(f) /\ FrameVetted(f)
        BY <2>1 DEF FrameOK, FrameVetted, OwnerSteps
    <2> QED BY <1>2, <2>1, <2>2, <2>3
<1>7. ASSUME NEW c \in Couriers, NEW d \in Deliveries,
             \/ AcceptDelivery(w, c, d) \/ RejectDelivery(w, c, d)
             \/ PickupDelivery(w, c, d) \/ ConfirmDelivery(w, c, d)
      PROVE  VetInv'
    <2>1. PICK pc \in {"acceptWrite", "rejectMark", "pickupCommit", "confirmCommit"} :
               Begin(w, NewFrame(pc, d, c))
        BY <1>7 DEF AcceptDelivery, RejectDelivery, PickupDelivery, ConfirmDelivery
    <2> DEFINE f == NewFrame(pc, d, c)
    <2>2. f \in Frame /\ f.pc = pc /\ f.d = d /\ f.c = c
        BY NewFrameTyped DEF Steps
    <2>3. FrameOK(f) /\ FrameVetted(f)
        BY <2>1, <2>2 DEF FrameOK, FrameVetted, OwnerSteps
    <2>4. UNCHANGED <<tables, redis, accepted>>
        BY <1>7 DEF AcceptDelivery, RejectDelivery, PickupDelivery, ConfirmDelivery
    <2> HIDE DEF f
    <2> QED BY <1>2, <2>1, <2>2, <2>3, <2>4 DEF f
<1> QED BY <1>4, <1>5, <1>6, <1>7 DEF Arrive

LEMMA NextVet == VetInv /\ [Next]_vars => VetInv'
<1> SUFFICES ASSUME VetInv, [Next]_vars PROVE VetInv'
    OBVIOUS
<1>1. CASE UNCHANGED vars
    BY <1>1 DEF vars, tables, redis, VetInv, TypeOK, DeliveredPaid, CourierOK, FrameVetted, Vetted
<1>2. ASSUME NEW w \in Workers, Step(w) PROVE VetInv'
    BY <1>2, CouriersStep, DispatchStep, JourneyStep, ConfirmStep, OtherStep DEF Step
<1>3. ASSUME NEW d \in Deliveries, PaymentWrites(d) PROVE VetInv'
    <2>1. TypeOK'
        BY <1>3, TypeParts, TypePartsNext
           DEF VetInv, PaymentWrites, TablesOK, KeysOK, FramesOK, OrderStatus, redis
    <2> QED BY <1>3, <2>1
            DEF PaymentWrites, VetInv, DeliveredPaid, CourierOK, FrameVetted, Vetted
<1> QED BY <1>1, <1>2, <1>3, VerifyStep, ExpireStep, ArriveStep, OtherStep DEF Next

LEMMA InitVet == Init => VetInv
<1> SUFFICES ASSUME Init PROVE VetInv
    OBVIOUS
<1>4. Accepted \subseteq OrderStatus
    BY DeliveryAssumption DEF OrderStatus
<1>1. orderStatus \in [Deliveries -> OrderStatus]
    <2>1. orderStatus \in [Deliveries -> Accepted]
        BY DEF Init
    <2> QED BY <1>4, <2>1
<1> USE DEF Init
<1>2. delivery \in [Deliveries -> DeliveryRow] /\ courier \in [Couriers -> CourierRow]
    BY DEF DeliveryRow, CourierRow
<1>3. TypeOK
    BY <1>1, <1>2, IdleFrame DEF TypeOK
<1> QED BY <1>3, IdleFrame DEF VetInv, DeliveredPaid, CourierOK, FrameVetted

THEOREM VetInvariant == Spec => []VetInv
BY InitVet, NextVet, PTL DEF Spec

\* The tables, the keys and the frames of every request hold values of their types.
THEOREM DeliveryTyped == Spec => []TypeOK
<1>1. VetInv => TypeOK
    BY DEF VetInv
<1> QED BY <1>1, VetInvariant, PTL

\* Whoever is given a delivery was verified, whatever races or dies half-way.
THEOREM CouriersAreVetted == Spec => []CouriersVetted
<1>1. VetInv => CouriersVetted
    BY DEF VetInv, CouriersVetted, CourierOK, Vetted
<1> QED BY <1>1, VetInvariant, PTL

\* A delivery that is over has paid a courier.
THEOREM DeliveriesPaid == Spec => []DeliveredPaid
<1>1. VetInv => DeliveredPaid
    BY DEF VetInv
<1> QED BY <1>1, VetInvariant, PTL

-----------------------------------------------------------------------------
(* Requests that do not interleave *)

Serial == \A v, w \in Workers : v = w

\* What a request has read, while nobody else writes: it still holds when the
\* request writes, and so every write is a move of DeliveryLife.
ReadHolds(f) ==
    /\ f.pc \in {"findCouriers", "selectCourier", "assignCourier"} =>
         delivery[f.d].status = "SEARCHING"
    /\ f.pc = "selectCourier" => \A c \in f.couriers : ~Busy(c)
    /\ f.pc = "assignCourier" => ~Busy(f.c) /\ <<f.d, f.c>> \notin rejected
    /\ f.pc \in {"acceptWrite", "rejectMark", "rejectReset", "pickupCommit"} =>
         HoldsAssigned(f.c, f.d)
    /\ f.pc = "confirmCommit" =>
         delivery[f.d].courier = f.c /\ delivery[f.d].status = "PICKED_UP"
    /\ f.pc = "cashoutCommit" => f.n = courier[f.c].walletBalance /\ f.n >= MinCashout
    /\ f.pc \in OwnerSteps /\ f.d \in CashOrders => f.to \in VALID_TRANSITIONS(orderStatus[f.d])
    /\ f.pc = "updateCod" => f.to = "DELIVERED"

SerialInv ==
    /\ VetInv /\ OneActiveDelivery /\ OrderFollowsDelivery
    /\ \A w \in Workers : ReadHolds(req[w])

Balance == [c \in Couriers |-> courier[c].walletBalance]

LifeStep == Life!Next \/ UNCHANGED <<delivery, Balance>>

RejectedStep ==
    \A d \in Deliveries : delivery'[d].courier \notin {delivery[d].courier, None}
        => <<d, delivery'[d].courier>> \notin rejected

\* A step that moves neither deliveries nor orders nor balances ...
LEMMA StillLife ==
    ASSUME Serial, SerialInv, VetInv', NEW w \in Workers,
           UNCHANGED <<delivery, orderStatus>>, Balance' = Balance, ReadHolds(req[w])'
    PROVE  SerialInv' /\ LifeStep /\ RejectedStep
<1>1. \A v \in Workers : ReadHolds(req[v])'
    BY DEF Serial
<1>2. OneActiveDelivery' /\ OrderFollowsDelivery'
    BY DEF SerialInv, OneActiveDelivery, Life!OneActiveDelivery, Life!Carries, OrderFollowsDelivery
<1>3. LifeStep /\ RejectedStep
    BY DEF LifeStep, RejectedStep
<1> QED BY <1>1, <1>2, <1>3 DEF SerialInv

\* ... and among them one that writes nothing the frames have read.
LEMMA OnlyReads ==
    ASSUME Serial, SerialInv, VetInv', NEW w \in Workers,
           UNCHANGED <<delivery, orderStatus, courier, rejected>>, ReadHolds(req'[w])
    PROVE  SerialInv' /\ LifeStep /\ RejectedStep
<1>1. Balance' = Balance
    BY DEF Balance
<1>2. ReadHolds(req[w])'
    BY DEF ReadHolds, Busy, HoldsAssigned
<1> QED BY <1>1, <1>2, StillLife

\* A step that moves the delivery of the request by DeliveryLife, and is over or
\* goes on with nothing read.
LEMMA LifeMoves ==
    ASSUME Serial, SerialInv, VetInv', NEW w \in Workers, NEW d \in Deliveries,
           req'[w].pc \in {"idle", "dispatchRead", "setPending"},
           \A e \in Deliveries \ {d} : delivery'[e] = delivery[e] /\ orderStatus'[e] = orderStatus[e],
           \/ delivery'[d].status \notin Active
           \/ delivery'[d].courier = delivery[d].courier /\ delivery[d].status \in Active
           \/ ~Busy(delivery'[d].courier),
           d \in CashOrders =>
             /\ orderStatus'[d] \notin ActiveList \cup HistoryList <=> delivery'[d].status = "PICKED_UP"
             /\ delivery'[d].status = "DELIVERED" => orderStatus'[d] = "DELIVERED",
           Life!Next, RejectedStep
    PROVE  SerialInv' /\ LifeStep /\ RejectedStep
<1>1. \A v \in Workers : ReadHolds(req[v])'
    BY DEF Serial, ReadHolds, OwnerSteps
<1>2. OrderFollowsDelivery'
    BY DeliveryAssumption DEF SerialInv, OrderFollowsDelivery
<1>3. OneActiveDelivery'
    BY DEF SerialInv, OneActiveDelivery, Life!OneActiveDelivery, Life!Carries, Busy, Active
<1> QED BY <1>1, <1>2, <1>3 DEF SerialInv, LifeStep

\* A request that arrives has just read what it goes by.
LEMMA ArriveSerial ==
    ASSUME Serial, SerialInv, VetInv', NEW w \in Workers, Arrive(w)
    PROVE  SerialInv' /\ LifeStep /\ RejectedStep
<1>1. TablesOK /\ KeysOK /\ FramesOK
    BY TypeParts DEF SerialInv, VetInv
<1>2. ASSUME NEW f, Begin(w, f), ReadHolds(f), UNCHANGED <<tables, redis, accepted>>
      PROVE  SerialInv' /\ LifeStep /\ RejectedStep
    <2>1. req'[w] = f
        BY <1>1, <1>2 DEF Begin, FramesOK
    <2> QED BY <1>2, <2>1, OnlyReads DEF tables, redis
<1>3. ASSUME NEW c \in Couriers,
             \/ RegisterCourier(w, c) \/ ToggleAvailability(w, c)
             \/ CourierCashout(w, c) \/ UpdateCourierLocation(w, c)
      PROVE  SerialInv' /\ LifeStep /\ RejectedStep
    <2>1. PICK f : /\ Begin(w, f) /\ f.c = c /\ f.pc \in CourierSteps
                   /\ f.pc = "cashoutCommit" =>
                        f.n = courier[c].walletBalance /\ courier[c].walletBalance >= MinCashout
        <3>1. CASE RegisterCourier(w, c)
            BY <3>1 DEF RegisterCourier, NewFrame, CourierSteps
        <3>2. CASE ToggleAvailability(w, c)
            BY <3>2 DEF ToggleAvailability, NewFrame, CourierSteps
        <3>3. CASE CourierCashout(w, c)
            BY <3>3 DEF CourierCashout, NewFrame, CourierSteps
        <3>4. CASE UpdateCourierLocation(w, c)
            BY <3>4 DEF UpdateCourierLocation, NewFrame, CourierSteps
        <3> QED BY <1>3, <3>1, <3>2, <3>3, <3>4
    <2>2. ReadHolds(f)
        BY <2>1 DEF ReadHolds, CourierSteps, OwnerSteps
    <2> QED BY <1>2, <1>3, <2>1, <2>2
            DEF RegisterCourier, ToggleAvailability, CourierCashout, UpdateCourierLocation
<1>4. ASSUME NEW d \in Deliveries, CreateDelivery(w, d)
      PROVE  SerialInv' /\ LifeStep /\ RejectedStep
    <2>1. /\ delivery'[d].status = "SEARCHING" /\ delivery'[d].courier = delivery[d].courier
          /\ \A e \in Deliveries \ {d} : delivery'[e] = delivery[e]
        BY <1>1, <1>4, StatusWritten DEF CreateDelivery
    <2>2. UNCHANGED <<orderStatus, courier>> /\ req'[w].pc = "dispatchRead" /\ delivery[d].status = "ABSENT"
        BY <1>1, <1>4 DEF CreateDelivery, Begin, FramesOK, NewFrame
    <2>3. Life!Next
        <3>1. Life!Open(d)
            BY <1>4, <2>2 DEF CreateDelivery, Life!Open
        <3> QED BY <3>1 DEF Life!Next
    <2>4. RejectedStep
        BY <2>1 DEF RejectedStep
    <2> QED BY <2>1, <2>2, <2>3, <2>4, LifeMoves DEF SerialInv, OrderFollowsDelivery, Active
<1>5. ASSUME NEW d \in Deliveries, NEW status \in OrderStatus, UpdateStatus(w, d, status)
      PROVE  SerialInv' /\ LifeStep /\ RejectedStep
    <2>1. PICK f : /\ Begin(w, f) /\ f.d = d /\ f.to = status /\ f.pc \in OwnerSteps
                   /\ f.pc = "updateCod" => status = "DELIVERED"
        BY <1>5 DEF UpdateStatus, NewFrame, OwnerSteps
    <2>2. ReadHolds(f)
        BY <1>5, <2>1 DEF UpdateStatus, ReadHolds, OwnerSteps
    <2> QED BY <1>2, <1>5, <2>1, <2>2 DEF UpdateStatus
<1>6. ASSUME NEW c \in Couriers, NEW d \in Deliveries,
             \/ AcceptDelivery(w, c, d) \/ RejectDelivery(w, c, d)
             \/ PickupDelivery(w, c, d) \/ ConfirmDelivery(w, c, d)
      PROVE  SerialInv' /\ LifeStep /\ RejectedStep
    <2>1. PICK f : /\ Begin(w, f) /\ f.d = d /\ f.c = c
                   /\ \/ /\ f.pc \in {"acceptWrite", "rejectMark", "pickupCommit"}
                         /\ HoldsAssigned(c, d)
                      \/ /\ f.pc = "confirmCommit"
                         /\ delivery[d].courier = c /\ delivery[d].status = "PICKED_UP"
        BY <1>6 DEF AcceptDelivery, RejectDelivery, PickupDelivery, ConfirmDelivery, NewFrame
    <2>2. ReadHolds(f)
        BY <2>1 DEF ReadHolds, OwnerSteps
    <2> QED BY <1>2, <1>6, <2>1, <2>2
            DEF AcceptDelivery, RejectDelivery, PickupDelivery, ConfirmDelivery
<1> QED BY <1>3, <1>4, <1>5, <1>6 DEF Arrive

\* The steps that read, and those that write what DeliveryLife does not speak of.
LEMMA ReadSerial ==
    ASSUME Serial, SerialInv, VetInv', NEW w \in Workers,
           \/ DispatchRead(w) \/ FindCouriers(w) \/ SelectCourier(w) \/ SetPending(w)
           \/ AcceptClear(w) \/ Abort(w)
    PROVE  SerialInv' /\ LifeStep /\ RejectedStep
<1>1. TablesOK /\ KeysOK /\ FramesOK /\ ReadHolds(req[w])
    BY TypeParts DEF SerialInv, VetInv
<1> DEFINE f == req[w]
<1>2. f \in Frame
    BY <1>1 DEF FramesOK
<1>3. UNCHANGED <<delivery, orderStatus, courier, rejected>>
    BY DEF DispatchRead, FindCouriers, SelectCourier, SetPending, AcceptClear, Abort, tables, redis
<1>4. CASE req'[w] = Idle
    BY <1>3, <1>4, IdleFrame, OnlyReads DEF ReadHolds, OwnerSteps
<1>5. CASE DispatchRead(w) /\ ~Return(w)
    <2>1. req'[w].pc = "findCouriers" /\ req'[w].d = f.d /\ delivery[f.d].status = "SEARCHING"
        BY <1>1, <1>2, <1>5 DEF DispatchRead, FramesOK, Frame
    <2> QED BY <1>3, <2>1, OnlyReads DEF ReadHolds, OwnerSteps
<1>6. CASE FindCouriers(w)
    <2>1. /\ req'[w].pc = "selectCourier" /\ req'[w].d = f.d /\ f.pc = "findCouriers"
          /\ \A c \in req'[w].couriers : ~Busy(c)
        BY <1>1, <1>2, <1>6 DEF FindCouriers, FramesOK, Frame
    <2> QED BY <1>1, <1>3, <2>1, OnlyReads DEF ReadHolds, OwnerSteps
<1>7. CASE SelectCourier(w) /\ req'[w] # Idle
    <2>1. \/ /\ req'[w].pc = "assignCourier" /\ req'[w].d = f.d
             /\ req'[w].c \in f.couriers /\ <<f.d, req'[w].c>> \notin rejected
          \/ req'[w].pc = "findCouriers" /\ req'[w].d = f.d
        <3>1. ASSUME NEW c \in f.couriers, <<f.d, c>> \notin rejected,
                     req' = [req EXCEPT ![w] = NewFrame("assignCourier", f.d, c)]
              PROVE  /\ req'[w].pc = "assignCourier" /\ req'[w].d = f.d /\ req'[w].c = c
            BY <1>1, <3>1 DEF FramesOK, NewFrame
        <3>2. CASE NextRadius(w)
            BY <1>1, <1>2, <3>2 DEF NextRadius, FramesOK, Frame
        <3>3. CASE req' = [req EXCEPT ![w] = Idle]
            BY <1>1, <1>7, <3>3 DEF FramesOK
        <3> QED BY <1>7, <3>1, <3>2, <3>3 DEF SelectCourier
    <2>2. f.pc = "selectCourier"
        BY <1>7 DEF SelectCourier
    <2> QED BY <1>1, <1>3, <2>1, <2>2, OnlyReads DEF ReadHolds, OwnerSteps
<1>8. Return(w) => req'[w] = Idle
    BY <1>1 DEF Return, FramesOK
<1> QED BY <1>4, <1>5, <1>6, <1>7, <1>8 DEF SetPending, AcceptClear, Abort

\* Signing up, going online and moving; a cash-out.
LEMMA CourierSerial ==
    ASSUME Serial, SerialInv, VetInv', NEW w \in Workers,
           RegisterRole(w) \/ RegisterProfile(w) \/ ToggleCommit(w) \/ LocationCommit(w) \/ CashoutCommit(w)
    PROVE  SerialInv' /\ LifeStep /\ RejectedStep
<1>1. TablesOK /\ KeysOK /\ FramesOK /\ ReadHolds(req[w])
    BY TypeParts DEF SerialInv, VetInv
<1> DEFINE c == req[w].c
<1>2. req[w] \in Frame /\ c \in Couriers
    BY <1>1 DEF RegisterRole, RegisterProfile, ToggleCommit, LocationCommit, CashoutCommit,
       FramesOK, FrameOK, Steps, OwnerSteps
<1>3. /\ UNCHANGED <<delivery, orderStatus, rejected>>
      /\ req'[w].pc \in {"idle", "registerProfile"}
    BY <1>1, <1>2, IdleFrame DEF RegisterRole, RegisterProfile, ToggleCommit, LocationCommit, CashoutCommit,
       redis, Goto, Return, FramesOK, Frame
<1>4. ReadHolds(req[w])'
    BY <1>3 DEF ReadHolds, OwnerSteps
<1>5. CASE ~CashoutCommit(w)
    <2>1. \A b \in Couriers : courier'[b].walletBalance = courier[b].walletBalance
        <3>1. courier[c] \in CourierRow
            BY <1>1, <1>2 DEF TablesOK
        <3>2. CASE RegisterRole(w)
            BY <1>1, <1>2, <3>1, <3>2 DEF RegisterRole, TablesOK, CourierRow
        <3>3. CASE RegisterProfile(w)
            BY <1>1, <1>2, <3>1, <3>3 DEF RegisterProfile, TablesOK, CourierRow
        <3>4. CASE ToggleCommit(w)
            BY <1>1, <1>2, <3>1, <3>4 DEF ToggleCommit, TablesOK, CourierRow
        <3>5. CASE LocationCommit(w)
            BY <1>1, <1>2, <3>1, <3>5 DEF LocationCommit, TablesOK, CourierRow
        <3> QED BY <1>5, <3>2, <3>3, <3>4, <3>5
    <2>2. Balance' = Balance
        BY <2>1 DEF Balance
    <2> QED BY <1>3, <1>4, <2>2, StillLife
<1>6. CASE CashoutCommit(w)
    <2>1. courier[c].walletBalance >= MinCashout /\ req[w].pc = "cashoutCommit"
        BY <1>1, <1>6 DEF ReadHolds, CashoutCommit
    <2>2. \A b \in Couriers : courier'[b].walletBalance = IF b = c THEN 0 ELSE courier[b].walletBalance
        BY <1>1, <1>2, <1>6 DEF CashoutCommit, TablesOK, CourierRow
    <2>3. Life!Next
        <3>1. Balance' = [Balance EXCEPT ![c] = 0] /\ Balance[c] >= MinCashout
            BY <1>2, <2>1, <2>2 DEF Balance
        <3>2. PICK b \in Couriers : b = c
            BY <1>2
        <3>3. Life!CashOut(b)
            BY <1>3, <3>1, <3>2 DEF Life!CashOut, Balance
        <3> QED BY <3>3 DEF Life!Next
    <2>4. RejectedStep
        BY <1>3 DEF RejectedStep
    <2>5. \A v \in Workers : ReadHolds(req[v])'
        BY <1>4 DEF Serial
    <2>6. OneActiveDelivery' /\ OrderFollowsDelivery'
        BY <1>3 DEF SerialInv, OneActiveDelivery, Life!OneActiveDelivery, Life!Carries, OrderFollowsDelivery
    <2> QED BY <2>3, <2>4, <2>5, <2>6 DEF SerialInv, LifeStep
<1> QED BY <1>5, <1>6

\* An offer, its answer and the journey.
LEMMA AssignSerial ==
    ASSUME Serial, SerialInv, VetInv', NEW w \in Workers, AssignCourier(w)
    PROVE  SerialInv' /\ LifeStep /\ RejectedStep
<1>1. TablesOK /\ KeysOK /\ FramesOK /\ ReadHolds(req[w])
    BY TypeParts DEF SerialInv, VetInv
<1>2. PICK d \in Deliveries, c \in Couriers :
           d = req[w].d /\ c = req[w].c /\ delivery[d].status = "SEARCHING" /\ ~Busy(c)
           /\ <<d, c>> \notin rejected
    BY <1>1 DEF AssignCourier, FramesOK, FrameOK, Steps, CourierSteps, OwnerSteps, ReadHolds
<1>3. /\ delivery' = [delivery EXCEPT ![d] = [status |-> "ASSIGNED", courier |-> c]]
      /\ UNCHANGED <<orderStatus, courier>>
    BY <1>2 DEF AssignCourier
<1>4. /\ delivery'[d].status = "ASSIGNED" /\ delivery'[d].courier = c
      /\ \A e \in Deliveries \ {d} : delivery'[e] = delivery[e]
    BY <1>1, <1>3 DEF TablesOK
<1>5. Life!Next
    <2>1. Life!Offer(d, c)
        BY <1>2, <1>3 DEF Life!Offer, Life!Carries, Busy, Active
    <2> QED BY <2>1 DEF Life!Next
<1>6. RejectedStep
    BY <1>2, <1>4 DEF RejectedStep
<1>7. req'[w].pc = "setPending"
    BY <1>1 DEF AssignCourier, Goto, FramesOK, Frame
<1>8. delivery'[d].courier = c /\ ~Busy(delivery'[d].courier)
    BY <1>2, <1>4
<1> QED BY <1>2, <1>3, <1>4, <1>5, <1>6, <1>7, <1>8, LifeMoves DEF SerialInv, OrderFollowsDelivery

LEMMA AnswerSerial ==
    ASSUME Serial, SerialInv, VetInv', NEW w \in Workers,
           AcceptWrite(w) \/ RejectMark(w) \/ RejectReset(w)
    PROVE  SerialInv' /\ LifeStep /\ RejectedStep
<1>1. TablesOK /\ KeysOK /\ FramesOK /\ ReadHolds(req[w])
    BY TypeParts DEF SerialInv, VetInv
<1>2. PICK d \in Deliveries : d = req[w].d
    BY <1>1 DEF AcceptWrite, RejectMark, RejectReset, FramesOK, FrameOK, Steps, CourierSteps
<1>3. HoldsAssigned(req[w].c, d)
    BY <1>1, <1>2 DEF AcceptWrite, RejectMark, RejectReset, ReadHolds
<1>4. CASE AcceptWrite(w)
    <2>1. delivery' = [delivery EXCEPT ![d].status = "ASSIGNED"]
          /\ UNCHANGED <<orderStatus, courier, rejected>>
        BY <1>2, <1>4 DEF AcceptWrite, redis
    <2>2. delivery' = delivery
        <3>1. delivery[d] \in DeliveryRow /\ delivery[d].status = "ASSIGNED"
            BY <1>1, <1>3 DEF TablesOK, HoldsAssigned
        <3>2. [delivery[d] EXCEPT !.status = "ASSIGNED"] = delivery[d]
            BY <3>1 DEF DeliveryRow
        <3> QED BY <1>1, <2>1, <3>2 DEF TablesOK
    <2>3. req'[w].pc = "acceptClear"
        BY <1>1, <1>4 DEF AcceptWrite, Goto, FramesOK, Frame
    <2>4. ReadHolds(req'[w])
        BY <2>3 DEF ReadHolds, OwnerSteps
    <2> QED BY <2>1, <2>2, <2>4, OnlyReads
<1>5. CASE RejectMark(w)
    <2>1. UNCHANGED <<delivery, orderStatus, courier>>
        BY <1>5 DEF RejectMark, tables
    <2>2. req'[w].pc = "rejectReset" /\ req'[w].d = d /\ req'[w].c = req[w].c
        BY <1>1, <1>2, <1>5 DEF RejectMark, Goto, FramesOK, Frame
    <2>3. ReadHolds(req[w])'
        BY <1>3, <2>1, <2>2 DEF ReadHolds, OwnerSteps, HoldsAssigned
    <2>4. Balance' = Balance
        BY <2>1 DEF Balance
    <2> QED BY <2>1, <2>3, <2>4, StillLife
<1>6. CASE RejectReset(w)
    <2>1. /\ delivery' = [delivery EXCEPT ![d] = [status |-> "SEARCHING", courier |-> None]]
          /\ UNCHANGED <<orderStatus, courier>> /\ delivery[d].status = "ASSIGNED"
        BY <1>2, <1>3, <1>6 DEF RejectReset, HoldsAssigned
    <2>2. /\ delivery'[d].status = "SEARCHING" /\ delivery'[d].courier = None
          /\ \A e \in Deliveries \ {d} : delivery'[e] = delivery[e]
        BY <1>1, <2>1 DEF TablesOK
    <2>3. Life!Next
        <3>1. Life!Withdraw(d)
            BY <2>1 DEF Life!Withdraw
        <3> QED BY <3>1 DEF Life!Next
    <2>4. RejectedStep
        BY <2>2 DEF RejectedStep
    <2>5. req'[w].pc = "dispatchRead"
        BY <1>1, <1>6 DEF RejectReset, Goto, FramesOK, Frame
    <2> QED BY <2>1, <2>2, <2>3, <2>4, <2>5, LifeMoves DEF SerialInv, OrderFollowsDelivery, Active
<1> QED BY <1>4, <1>5, <1>6

LEMMA JourneySerial ==
    ASSUME Serial, SerialInv, VetInv', NEW w \in Workers, PickupCommit(w) \/ ConfirmCommit(w)
    PROVE  SerialInv' /\ LifeStep /\ RejectedStep
<1>1. TablesOK /\ KeysOK /\ FramesOK /\ ReadHolds(req[w])
    BY TypeParts DEF SerialInv, VetInv
<1>2. PICK d \in Deliveries, c \in Couriers : d = req[w].d /\ c = req[w].c
    BY <1>1 DEF PickupCommit, ConfirmCommit, FramesOK, FrameOK, Steps, CourierSteps, OwnerSteps
<1>3. req'[w].pc = "idle"
    BY <1>1, IdleFrame, ReturnFrames DEF PickupCommit, ConfirmCommit
<1>4. CASE PickupCommit(w)
    <2>1. /\ delivery' = [delivery EXCEPT ![d].status = "PICKED_UP"]
          /\ orderStatus' = [orderStatus EXCEPT ![d] = "PICKED_UP"]
          /\ UNCHANGED courier /\ HoldsAssigned(c, d)
        BY <1>1, <1>2, <1>4 DEF PickupCommit, ReadHolds
    <2>2. /\ delivery'[d].status = "PICKED_UP" /\ delivery'[d].courier = delivery[d].courier
          /\ \A e \in Deliveries \ {d} : delivery'[e] = delivery[e]
        BY <1>1, <2>1, StatusWritten
    <2>3. /\ orderStatus'[d] = "PICKED_UP"
          /\ \A e \in Deliveries \ {d} : orderStatus'[e] = orderStatus[e]
        BY <1>1, <2>1 DEF TablesOK
    <2>4. Life!Next
        <3>1. Life!PickUp(d)
            BY <2>1 DEF Life!PickUp, HoldsAssigned
        <3> QED BY <3>1 DEF Life!Next
    <2>5. RejectedStep
        BY <2>2 DEF RejectedStep
    <2>6. "PICKED_UP" \notin ActiveList \cup HistoryList
        BY DEF ActiveList, HistoryList
    <2>7. delivery[d].status \in Active
        BY <2>1 DEF HoldsAssigned, Active
    <2> QED BY <1>3, <2>2, <2>3, <2>4, <2>5, <2>6, <2>7, LifeMoves
<1>5. CASE ConfirmCommit(w)
    <2>1. /\ delivery' = [delivery EXCEPT ![d].status = "DELIVERED"]
          /\ orderStatus' = [orderStatus EXCEPT ![d] = "DELIVERED"]
          /\ courier' = [courier EXCEPT ![c].walletBalance = @ + CourierShare]
          /\ delivery[d].courier = c /\ delivery[d].status = "PICKED_UP"
        BY <1>1, <1>2, <1>5 DEF ConfirmCommit, ReadHolds
    <2>2. /\ delivery'[d].status = "DELIVERED" /\ delivery'[d].courier = delivery[d].courier
          /\ \A e \in Deliveries \ {d} : delivery'[e] = delivery[e]
        BY <1>1, <2>1, StatusWritten
    <2>3. /\ orderStatus'[d] = "DELIVERED"
          /\ \A e \in Deliveries \ {d} : orderStatus'[e] = orderStatus[e]
        BY <1>1, <2>1 DEF TablesOK
    <2>4. Life!Next
        <3>1. \A b \in Couriers : courier'[b].walletBalance =
                  IF b = c THEN courier[b].walletBalance + CourierShare ELSE courier[b].walletBalance
            BY <1>1, <2>1 DEF TablesOK, CourierRow
        <3>2. Balance' = [Balance EXCEPT ![c] = Balance[c] + CourierShare]
            BY <3>1 DEF Balance
        <3>3. Life!Deliver(d)
            BY <2>1, <3>2 DEF Life!Deliver, Balance
        <3> QED BY <3>3 DEF Life!Next
    <2>5. RejectedStep
        BY <2>2 DEF RejectedStep
    <2>6. "DELIVERED" \in HistoryList
        BY DEF HistoryList
    <2> QED BY <1>3, <2>2, <2>3, <2>4, <2>5, <2>6, LifeMoves DEF Active
<1> QED BY <1>4, <1>5

\* The owner's writes: a cash order whose owner may move it is carried by nobody.
LEMMA OwnerSerial ==
    ASSUME Serial, SerialInv, VetInv', NEW w \in Workers, WriteStatus(w) \/ DeliverCod(w)
    PROVE  SerialInv' /\ LifeStep /\ RejectedStep
<1>1. TablesOK /\ KeysOK /\ FramesOK /\ ReadHolds(req[w])
    BY TypeParts DEF SerialInv, VetInv
<1>2. PICK d \in Deliveries, to \in OrderStatus :
           /\ d = req[w].d /\ (d \in CashOrders => to \in VALID_TRANSITIONS(orderStatus[d]))
           /\ orderStatus' = [orderStatus EXCEPT ![d] = to]
    BY <1>1 DEF WriteStatus, DeliverCod, FramesOK, FrameOK, Steps, CourierSteps, OwnerSteps, ReadHolds
<1>3. UNCHANGED <<delivery, courier, rejected>>
    BY DEF WriteStatus, DeliverCod, redis
<1>4. d \in CashOrders =>
          orderStatus[d] \in ActiveList \ {"DELIVERED"} /\ to \in ActiveList \cup HistoryList
    BY <1>2 DEF VALID_TRANSITIONS, ActiveList, HistoryList
<1>5. OrderFollowsDelivery'
    BY <1>1, <1>2, <1>3, <1>4, DeliveryAssumption DEF SerialInv, OrderFollowsDelivery, TablesOK
<1>6. req'[w].pc = "idle"
    BY <1>1, IdleFrame, ReturnFrames DEF WriteStatus, DeliverCod
<1>7. \A v \in Workers : ReadHolds(req[v])'
    BY <1>6 DEF Serial, ReadHolds, OwnerSteps
<1>8. OneActiveDelivery'
    BY <1>3 DEF SerialInv, OneActiveDelivery, Life!OneActiveDelivery, Life!Carries
<1>9. LifeStep /\ RejectedStep
    BY <1>3 DEF LifeStep, RejectedStep, Balance
<1> QED BY <1>5, <1>7, <1>8, <1>9 DEF SerialInv

\* What moves beside the requests: a verification, and the keys of Redis.
LEMMA BesideSerial ==
    ASSUME SerialInv, VetInv', Expire \/ \E c \in Couriers : VerifyCourier(c)
    PROVE  SerialInv' /\ LifeStep /\ RejectedStep
<1>1. TablesOK
    BY TypeParts DEF SerialInv, VetInv
<1>2. /\ UNCHANGED <<delivery, orderStatus, req>> /\ rejected' \subseteq rejected
      /\ \A c \in Couriers : courier'[c].walletBalance = courier[c].walletBalance
    <2>1. CASE Expire
        BY <2>1 DEF Expire, ExpireRejected, ExpirePending, tables
    <2>2. ASSUME NEW c \in Couriers, VerifyCourier(c)
          PROVE  /\ UNCHANGED <<delivery, orderStatus, req>> /\ rejected' \subseteq rejected
                 /\ \A b \in Couriers : courier'[b].walletBalance = courier[b].walletBalance
        BY <1>1, <2>2 DEF VerifyCourier, TablesOK, CourierRow, redis
    <2> QED BY <2>1, <2>2
<1>3. ASSUME NEW w \in Workers PROVE ReadHolds(req[w])'
    <2>1. ReadHolds(req[w]) /\ (req[w].pc = "cashoutCommit" => req[w].c \in Couriers)
        BY DEF SerialInv, VetInv, TypeOK, FrameOK, Steps, OwnerSteps
    <2> QED BY <1>2, <2>1 DEF ReadHolds, Busy, HoldsAssigned
<1>4. OneActiveDelivery' /\ OrderFollowsDelivery'
    BY <1>2 DEF SerialInv, OneActiveDelivery, Life!OneActiveDelivery, Life!Carries, OrderFollowsDelivery
<1>5. LifeStep /\ RejectedStep
    BY <1>2 DEF LifeStep, RejectedStep, Balance
<1> QED BY <1>3, <1>4, <1>5 DEF SerialInv

\* The payments write the status of orders that are not paid in cash.
LEMMA PaymentSerial ==
    ASSUME SerialInv, VetInv', NEW d \in Deliveries, PaymentWrites(d)
    PROVE  SerialInv' /\ LifeStep /\ RejectedStep
<1>1. orderStatus \in [Deliveries -> OrderStatus]
    BY DEF SerialInv, VetInv, TypeOK
<1>2. /\ UNCHANGED <<delivery, courier, rejected, req>>
      /\ \A x \in CashOrders : orderStatus'[x] = orderStatus[x]
    BY <1>1, DeliveryAssumption DEF PaymentWrites, redis
<1>3. \A w \in Workers : ReadHolds(req[w])'
    BY <1>2 DEF SerialInv, ReadHolds, Busy, HoldsAssigned
<1>4. OneActiveDelivery' /\ OrderFollowsDelivery'
    BY <1>2 DEF SerialInv, OneActiveDelivery, Life!OneActiveDelivery, Life!Carries, OrderFollowsDelivery
<1>5. LifeStep /\ RejectedStep
    BY <1>2 DEF LifeStep, RejectedStep, Balance
<1> QED BY <1>3, <1>4, <1>5 DEF SerialInv

LEMMA NextSerial ==
    ASSUME Serial
    PROVE  SerialInv /\ [Next]_vars => SerialInv' /\ LifeStep /\ RejectedStep
<1> SUFFICES ASSUME SerialInv, [Next]_vars PROVE SerialInv' /\ LifeStep /\ RejectedStep
    OBVIOUS
<1>1. VetInv'
    BY NextVet DEF SerialInv
<1>2. CASE UNCHANGED vars
    BY <1>1, <1>2 DEF vars, tables, redis, SerialInv, ReadHolds, Busy, HoldsAssigned, OneActiveDelivery,
       Life!OneActiveDelivery, Life!Carries, OrderFollowsDelivery, LifeStep, RejectedStep, Balance
<1>3. ASSUME NEW w \in Workers, Step(w) PROVE SerialInv' /\ LifeStep /\ RejectedStep
    BY <1>1, <1>3, ReadSerial, CourierSerial, AssignSerial, AnswerSerial, JourneySerial, OwnerSerial
       DEF Step
<1> QED BY <1>1, <1>2, <1>3, ArriveSerial, ReadSerial, BesideSerial, PaymentSerial DEF Next

LEMMA InitSerial == Init => SerialInv /\ Life!Init
<1> SUFFICES ASSUME Init PROVE SerialInv /\ Life!Init
    OBVIOUS
<1>1. VetInv
    BY InitVet
<1>2. \A d \in Deliveries :
          delivery[d].status = "ABSENT" /\ orderStatus[d] \in {"PREPARING", "READY"}
    BY DeliveryAssumption DEF Init
<1>3. OneActiveDelivery /\ OrderFollowsDelivery
    BY <1>2, DeliveryAssumption
       DEF OneActiveDelivery, Life!OneActiveDelivery, Life!Carries, OrderFollowsDelivery, ActiveList
<1>4. \A w \in Workers : ReadHolds(req[w])
    BY DEF Init, ReadHolds, Idle, NewFrame, OwnerSteps
<1>5. Life!Init
    BY DEF Init, Life!Init
<1> QED BY <1>1, <1>3, <1>4, <1>5 DEF SerialInv

\* Requests that do not interleave implement the life of a delivery: any search,
\* refusal, crash or expired key is a move of DeliveryLife or none.
THEOREM SerialImplementsLife == ASSUME Serial PROVE Spec => ImplementsLife
<1>1. SerialInv /\ [Next]_vars => SerialInv' /\ [Life!Next]_<<delivery, Balance>>
    BY NextSerial DEF LifeStep
<1> QED BY <1>1, InitSerial, PTL DEF Spec, ImplementsLife, Life!Spec, Balance

\* A courier carries one delivery at a time, if requests do not interleave.
THEOREM SerialOneActive == ASSUME Serial PROVE Spec => []OneActiveDelivery
<1>1. SerialInv /\ [Next]_vars => SerialInv'
    BY NextSerial
<1>2. SerialInv => OneActiveDelivery
    BY DEF SerialInv
<1> QED BY <1>1, <1>2, InitSerial, PTL DEF Spec

\* A cash order follows its delivery, if owners and couriers do not interleave.
THEOREM SerialOrderFollows == ASSUME Serial PROVE Spec => []OrderFollowsDelivery
<1>1. SerialInv /\ [Next]_vars => SerialInv'
    BY NextSerial
<1>2. SerialInv => OrderFollowsDelivery
    BY DEF SerialInv
<1> QED BY <1>1, <1>2, InitSerial, PTL DEF Spec

\* A courier who refused a delivery is not given it while the key lives, if
\* requests do not interleave.
THEOREM SerialRejections == ASSUME Serial PROVE Spec => RejectedNotReassigned
<1>1. SerialInv /\ [Next]_vars => SerialInv' /\ [RejectedStep]_vars
    BY NextSerial
<1> QED BY <1>1, InitSerial, PTL DEF Spec, RejectedNotReassigned, RejectedStep

-----------------------------------------------------------------------------
(* What couriers are owed *)

\* Of all the steps a cash-out and the end of a journey move money, each by what its row says.
LEMMA BalanceBooked ==
    ASSUME SerialInv, CourierLedger, NEW w \in Workers, CashoutCommit(w) \/ ConfirmCommit(w)
    PROVE  CourierLedger'
<1>1. /\ courier \in [Couriers -> CourierRow] /\ ledger \in [Couriers -> Int]
      /\ FramesOK /\ ReadHolds(req[w])
    BY TypeParts DEF SerialInv, VetInv, TablesOK
<1>2. PICK c \in Couriers : c = req[w].c
    BY <1>1 DEF CashoutCommit, ConfirmCommit, FramesOK, FrameOK, Steps, OwnerSteps
<1>3. CASE CashoutCommit(w)
    <2>1. req[w].n = courier[c].walletBalance
        BY <1>1, <1>2, <1>3 DEF CashoutCommit, ReadHolds
    <2>2. \A b \in Couriers :
              /\ courier'[b].walletBalance = IF b = c THEN 0 ELSE courier[b].walletBalance
              /\ ledger'[b] = IF b = c THEN ledger[b] - req[w].n ELSE ledger[b]
        BY <1>1, <1>2, <1>3 DEF CashoutCommit, CourierRow
    <2> QED BY <1>1, <1>2, <2>1, <2>2 DEF CourierLedger
<1>4. CASE ConfirmCommit(w)
    <2>1. \A b \in Couriers :
              /\ courier'[b].walletBalance = IF b = c THEN courier[b].walletBalance + CourierShare
                                                      ELSE courier[b].walletBalance
              /\ ledger'[b] = IF b = c THEN ledger[b] + CourierShare ELSE ledger[b]
        BY <1>1, <1>2, <1>4 DEF ConfirmCommit, CourierRow
    <2> QED BY <2>1 DEF CourierLedger
<1> QED BY <1>3, <1>4

\* No other step of a request, nor a verification, writes a balance or a row of money.
LEMMA BalanceLeft ==
    ASSUME SerialInv, [Next]_vars, \A w \in Workers : ~CashoutCommit(w) /\ ~ConfirmCommit(w)
    PROVE  /\ UNCHANGED ledger
           /\ \A c \in Couriers : courier'[c].walletBalance = courier[c].walletBalance
<1>1. courier \in [Couriers -> CourierRow]
    BY TypeParts DEF SerialInv, VetInv, TablesOK
<1>2. ASSUME UNCHANGED <<courier, ledger>>
      PROVE  /\ UNCHANGED ledger
             /\ \A c \in Couriers : courier'[c].walletBalance = courier[c].walletBalance
    BY <1>2
<1>3. ASSUME NEW w \in Workers, Arrive(w) PROVE UNCHANGED <<courier, ledger>>
    BY <1>3 DEF Arrive, RegisterCourier, ToggleAvailability, CourierCashout, UpdateCourierLocation,
       CreateDelivery, UpdateStatus, AcceptDelivery, RejectDelivery, PickupDelivery,
       ConfirmDelivery, tables
<1>4. ASSUME NEW w \in Workers,
             RegisterRole(w) \/ RegisterProfile(w) \/ ToggleCommit(w) \/ LocationCommit(w)
      PROVE  /\ UNCHANGED ledger
             /\ \A c \in Couriers : courier'[c].walletBalance = courier[c].walletBalance
    BY <1>1, <1>4 DEF RegisterRole, RegisterProfile, ToggleCommit, LocationCommit, CourierRow
<1>5. ASSUME NEW w \in Workers,
             \/ WriteStatus(w) \/ DeliverCod(w) \/ DispatchRead(w) \/ FindCouriers(w)
             \/ SelectCourier(w) \/ AssignCourier(w) \/ SetPending(w) \/ AcceptWrite(w)
             \/ AcceptClear(w) \/ RejectMark(w) \/ RejectReset(w) \/ PickupCommit(w) \/ Abort(w)
      PROVE  UNCHANGED <<courier, ledger>>
    BY <1>5 DEF WriteStatus, DeliverCod, DispatchRead, FindCouriers, SelectCourier, AssignCourier,
       SetPending, AcceptWrite, AcceptClear, RejectMark, RejectReset, PickupCommit, Abort, tables
<1>6. ASSUME NEW c \in Couriers, VerifyCourier(c)
      PROVE  /\ UNCHANGED ledger
             /\ \A b \in Couriers : courier'[b].walletBalance = courier[b].walletBalance
    BY <1>1, <1>6 DEF VerifyCourier, CourierRow
<1>7. CASE Expire \/ UNCHANGED vars
    BY <1>2, <1>7 DEF Expire, ExpireRejected, ExpirePending, vars, tables
<1>8. ASSUME NEW d \in Deliveries, PaymentWrites(d) PROVE UNCHANGED <<courier, ledger>>
    BY <1>8 DEF PaymentWrites
<1> QED BY <1>2, <1>3, <1>4, <1>5, <1>6, <1>7, <1>8 DEF Next, Step

\* The balance of a courier, which a cash-out resets whatever it has become, is what his
\* rows add up to when requests do not interleave: he is paid out what he earned, once.
THEOREM SerialCourierLedger == ASSUME Serial PROVE Spec => []CourierLedger
<1>1. Init => CourierLedger
    BY DEF Init, CourierLedger
<1>2. SerialInv /\ CourierLedger /\ [Next]_vars => CourierLedger'
    BY BalanceBooked, BalanceLeft DEF CourierLedger
<1>3. SerialInv /\ [Next]_vars => SerialInv'
    BY NextSerial
<1> QED BY <1>1, <1>2, <1>3, InitSerial, PTL DEF Spec

-----------------------------------------------------------------------------
(* Requests end *)

\* Steps that end a request whatever they find.
LastSteps == {"registerProfile", "toggleCommit", "cashoutCommit", "locationCommit",
              "updateStatus", "updateCod", "setPending", "acceptClear", "pickupCommit",
              "confirmCommit"}

\* StepsLeft, read step by step.
LEMMA StepsLeftAt ==
    ASSUME NEW f
    PROVE  /\ f.pc = "idle" => StepsLeft(f) = 0
           /\ f.pc = "findCouriers" => StepsLeft(f) = 2 * (Radii - f.n) + 4
           /\ f.pc = "selectCourier" => StepsLeft(f) = 2 * (Radii - f.n) + 3
           /\ f.pc = "dispatchRead" => StepsLeft(f) = 2 * Radii + 3
           /\ f.pc = "rejectReset" => StepsLeft(f) = 2 * Radii + 4
           /\ f.pc = "rejectMark" => StepsLeft(f) = 2 * Radii + 5
           /\ f.pc \in {"registerRole", "assignCourier", "acceptWrite"} => StepsLeft(f) = 2
           /\ f.pc \in LastSteps => StepsLeft(f) = 1
BY DEF StepsLeft, LastSteps

LEMMA StepRunsOut ==
    ASSUME TypeOK, NEW w \in Workers, Step(w)
    PROVE  StepsLeft(req'[w]) \in 0 .. StepsLeft(req[w]) - 1
<1> DEFINE f == req[w]
           g == req'[w]
<1>1. /\ req \in [Workers -> Frame] /\ f \in Frame /\ FrameOK(f) /\ Radii = 3
      /\ f.pc \in {"findCouriers", "selectCourier"} => f.n \in 1 .. Radii
    BY DEF TypeOK, FrameOK, Radii
<1>2. ASSUME g = Idle, f.pc # "idle" PROVE StepsLeft(g) \in 0 .. StepsLeft(f) - 1
    <2>1. StepsLeft(g) = 0
        BY <1>2, IdleFrame, StepsLeftAt
    <2>2. StepsLeft(f) \in Nat \ {0}
        <3>1. f.pc \in Steps
            BY <1>1 DEF Frame
        <3> QED BY <1>1, <1>2, <3>1, StepsLeftAt DEF Steps, LastSteps
    <2> QED BY <2>1, <2>2
<1>3. \A pc : Goto(w, pc) => g.pc = pc
    BY <1>1 DEF Goto, Frame
<1>4. Return(w) => g = Idle
    BY <1>1 DEF Return
<1>5. CASE RegisterRole(w) \/ AssignCourier(w) \/ AcceptWrite(w) \/ RejectMark(w) \/ RejectReset(w)
    <2>1. \/ f.pc = "registerRole" /\ g.pc = "registerProfile"
          \/ f.pc = "assignCourier" /\ g.pc = "setPending"
          \/ f.pc = "acceptWrite" /\ g.pc = "acceptClear"
          \/ f.pc = "rejectMark" /\ g.pc = "rejectReset"
          \/ f.pc = "rejectReset" /\ g.pc = "dispatchRead"
        BY <1>3, <1>5 DEF RegisterRole, AssignCourier, AcceptWrite, RejectMark, RejectReset
    <2> QED BY <1>1, <2>1, StepsLeftAt DEF LastSteps
<1>6. CASE DispatchRead(w)
    <2>1. f.pc = "dispatchRead" /\ (g = Idle \/ (g.pc = "findCouriers" /\ g.n = 1))
        BY <1>1, <1>4, <1>6 DEF DispatchRead, Frame
    <2> QED BY <1>1, <1>2, <2>1, StepsLeftAt
<1>7. CASE FindCouriers(w)
    <2>1. f.pc = "findCouriers" /\ g.pc = "selectCourier" /\ g.n = f.n
        BY <1>1, <1>7 DEF FindCouriers, Frame
    <2> QED BY <1>1, <2>1, StepsLeftAt
<1>8. CASE SelectCourier(w)
    <2>1. /\ f.pc = "selectCourier"
          /\ \/ g.pc = "assignCourier"
             \/ f.n < Radii /\ g.pc = "findCouriers" /\ g.n = f.n + 1
             \/ g = Idle
        <3>1. ASSUME NEW c, req' = [req EXCEPT ![w] = NewFrame("assignCourier", f.d, c)]
              PROVE  g.pc = "assignCourier"
            BY <1>1, <3>1 DEF NewFrame
        <3>2. NextRadius(w) => f.n < Radii /\ g.pc = "findCouriers" /\ g.n = f.n + 1
            BY <1>1 DEF NextRadius, Frame
        <3>3. req' = [req EXCEPT ![w] = Idle] => g = Idle
            BY <1>1
        <3> QED BY <1>8, <3>1, <3>2, <3>3 DEF SelectCourier
    <2>2. StepsLeft(f) = 2 * (Radii - f.n) + 3
        BY <2>1, StepsLeftAt
    <2>3. g.pc = "assignCourier" => StepsLeft(g) = 2
        BY StepsLeftAt
    <2>4. g.pc = "findCouriers" => StepsLeft(g) = 2 * (Radii - g.n) + 4
        BY StepsLeftAt
    <2>5. CASE g = Idle
        BY <1>2, <2>1, <2>5
    <2>6. CASE g.pc = "assignCourier"
        BY <1>1, <2>1, <2>2, <2>3, <2>6
    <2>7. CASE f.n < Radii /\ g.pc = "findCouriers" /\ g.n = f.n + 1
        BY <1>1, <2>1, <2>2, <2>4, <2>7
    <2> QED BY <2>1, <2>5, <2>6, <2>7
<1>9. CASE \/ RegisterProfile(w) \/ ToggleCommit(w) \/ CashoutCommit(w) \/ LocationCommit(w)
           \/ WriteStatus(w) \/ DeliverCod(w) \/ SetPending(w) \/ AcceptClear(w)
           \/ PickupCommit(w) \/ ConfirmCommit(w)
    BY <1>2, <1>4, <1>9 DEF RegisterProfile, ToggleCommit, CashoutCommit, LocationCommit,
       WriteStatus, DeliverCod, SetPending, AcceptClear, PickupCommit, ConfirmCommit
<1> QED BY <1>5, <1>6, <1>7, <1>8, <1>9 DEF Step

\* Every step of a request brings it nearer its end, whatever the other requests do: that
\* is what TLAPS can check of RequestsEnd, beside which it needs that steps are enabled.
THEOREM RequestsRunOut == Spec => StepsRunOut
<1>1. TypeOK /\ [Next]_vars =>
          [\A w \in Workers : Step(w) => StepsLeft(req'[w]) \in 0 .. StepsLeft(req[w]) - 1]_vars
    BY StepRunsOut
<1> QED BY <1>1, DeliveryTyped, PTL DEF Spec, StepsRunOut

=============================================================================
