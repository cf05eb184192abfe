--------------------------- MODULE RatingsService ---------------------------
(***************************************************************************)
(* The two running averages of the backend: RatingsService.create rates    *)
(* the restaurant of an order, once; DeliveryService.rateDelivery rates a  *)
(* courier, as often as the client asks.  Neither sums the ratings: each   *)
(* updates an average that it rounds, from values it read earlier.         *)
(* Averages are kept in units of 1/100 and 1/10 star, the precision they   *)
(* are rounded to; floating point only matters half-way between two units.  *)
(***************************************************************************)
EXTENDS Integers, FiniteSets

CONSTANTS
    Orders,         \* delivered orders of one restaurant, carried by one courier
    Stars,          \* the stars the clients give, of 1 .. 5
    Workers,        \* slots for requests in flight
    MaxRequests,    \* bound: requests that ever arrive
    None

ASSUME RatingsAssumption ==
    /\ Stars \subseteq 1 .. 5
    /\ MaxRequests \in Nat
    /\ None \notin Orders

VARIABLES
    rating,         \* table ratings: the stars of an order, 0 where there is no row
    restaurant,     \* table restaurants: avgRating, totalRatings
    courier,        \* table couriers: avgRating, totalRatings
    given,          \* history: how often the courier was given each number of stars
    req,            \* requests in flight
    arrivals        \* requests that have arrived

vars == <<rating, restaurant, courier, given, req, arrivals>>

RestaurantScale == 100

CourierScale == 10

Average == [avg : Nat, total : Nat]

NoAverage == [avg |-> 0, total |-> 0]

Frame == [pc : {"idle", "insertRating", "restaurantUpdate", "courierUpdate"},
          o : Orders \cup {None}, stars : 0 .. 5, read : Average]

NewFrame(pc, o, stars, read) == [pc |-> pc, o |-> o, stars |-> stars, read |-> read]

Idle == NewFrame("idle", None, 0, NoAverage)

Init ==
    /\ rating = [o \in Orders |-> 0]
    /\ restaurant = NoAverage
    /\ courier = NoAverage
    /\ given = [s \in 1 .. 5 |-> 0]
    /\ req = [w \in Workers |-> Idle]
    /\ arrivals = 0

Begin(w, f) ==
    /\ req[w] = Idle
    /\ arrivals < MaxRequests
    /\ arrivals' = arrivals + 1
    /\ req' = [req EXCEPT ![w] = f]

Return(w) ==
    /\ req' = [req EXCEPT ![w] = Idle]
    /\ UNCHANGED arrivals

-----------------------------------------------------------------------------

\* Math.round(p / q): the nearest integer.  Between two of them floating point
\* may have fallen on either side.
Rounded(p, q) == {k \in {p \div q, p \div q + 1} : 2 * k * q - q <= 2 * p /\ 2 * p <= 2 * k * q + q}

\* Mutated form of Rated: the old average weighs what the new one will.
RatedOverweight(a, stars, scale) ==
    [avg : Rounded(a.avg * (a.total + 1) + scale * stars, a.total + 1), total : {a.total + 1}]

\* What the average may be once one more rating is in: rounded, and computed
\* from the old average, never from a sum.
Rated(a, stars, scale) ==
    [avg : Rounded(a.avg * a.total + scale * stars, a.total + 1), total : {a.total + 1}]

-----------------------------------------------------------------------------

\* create: the order is delivered and not rated yet.
Create(w, o, stars) ==
    /\ rating[o] = 0
    /\ Begin(w, NewFrame("insertRating", o, stars, NoAverage))
    /\ UNCHANGED <<rating, restaurant, courier, given>>

\* Mutated form of InsertRating: orderId is not unique.
InsertRatingAgain(w) ==
    /\ req[w].pc = "insertRating"
    /\ req' = [req EXCEPT ![w].pc = "restaurantUpdate", ![w].read = restaurant]
    /\ UNCHANGED <<rating, restaurant, courier, given, arrivals>>

\* A transaction inserts the row (orderId is unique: it waits for another insert
\* of the order to commit, and then throws) and reads the restaurant's average ...
InsertRating(w) ==
    /\ req[w].pc = "insertRating"
    /\ \A v \in Workers : req[v].pc = "restaurantUpdate" => req[v].o # req[w].o
    /\ IF rating[req[w].o] = 0
       THEN /\ req' = [req EXCEPT ![w].pc = "restaurantUpdate", ![w].read = restaurant]
            /\ UNCHANGED arrivals
       ELSE Return(w)
    /\ UNCHANGED <<rating, restaurant, courier, given>>

\* ... and commits the row and the new average, from the average it read.
UpdateRestaurant(w) ==
    /\ req[w].pc = "restaurantUpdate"
    /\ rating' = [rating EXCEPT ![req[w].o] = req[w].stars]
    /\ restaurant' \in Rated(req[w].read, req[w].stars, RestaurantScale)
    /\ Return(w)
    /\ UNCHANGED <<courier, given>>

\* rateDelivery reads the delivery and its courier ...
RateDelivery(w, o, stars) ==
    /\ Begin(w, NewFrame("courierUpdate", o, stars, courier))
    /\ UNCHANGED <<rating, restaurant, courier, given>>

\* ... and writes the new average, from the average it read.
UpdateCourier(w) ==
    /\ req[w].pc = "courierUpdate"
    /\ courier' \in Rated(req[w].read, req[w].stars, CourierScale)
    /\ given' = [given EXCEPT ![req[w].stars] = @ + 1]
    /\ Return(w)
    /\ UNCHANGED <<rating, restaurant>>

Arrive(w) ==
    \E o \in Orders, stars \in Stars : Create(w, o, stars) \/ RateDelivery(w, o, stars)

Step(w) == InsertRating(w) \/ UpdateRestaurant(w) \/ UpdateCourier(w)

Next == \E w \in Workers : Arrive(w) \/ Step(w)

Spec == Init /\ [][Next]_vars

-----------------------------------------------------------------------------
(* Safety, whatever the interleaving *)

InRange(a, scale) ==
    IF a.total = 0 THEN a.avg = 0 ELSE a.avg \in scale .. 5 * scale

\* The tables and the frames hold values of their types, and an average that
\* counts a rating is one of 1 to 5 stars, however often it was rounded and
\* whichever ratings were lost between its read and its write.
TypeOK ==
    /\ rating \in [Orders -> 0 .. 5]
    /\ restaurant \in Average /\ InRange(restaurant, RestaurantScale)
    /\ courier \in Average /\ InRange(courier, CourierScale)
    /\ given \in [1 .. 5 -> Nat]
    /\ req \in [Workers -> Frame]
    /\ arrivals \in Nat

\* How far rounding may have moved the sum an average stands for: each update
\* moves it by at most half of the new total.
Near(a, sum, scale) ==
    LET drift == a.avg * a.total - scale * sum
    IN  -a.total * (a.total + 1) <= 4 * drift /\ 4 * drift <= a.total * (a.total + 1)

\* The average a is the mean of some of the ratings, as many as it counts, but
\* for rounding; n of them give each number of stars.
MeanOfSome(a, ratings, scale) ==
    \E n1 \in 0 .. ratings[1], n2 \in 0 .. ratings[2], n3 \in 0 .. ratings[3],
       n4 \in 0 .. ratings[4], n5 \in 0 .. ratings[5] :
        /\ n1 + n2 + n3 + n4 + n5 = a.total
        /\ Near(a, n1 + 2 * n2 + 3 * n3 + 4 * n4 + 5 * n5, scale)

\* How many rows of the restaurant give each number of stars.
RestaurantRatings == [s \in 1 .. 5 |-> Cardinality({o \in Orders : rating[o] = s})]

\* Ratings that overlap may be lost, but none is invented or counted twice: an
\* average is the mean of as many of the ratings given as it counts, and drifts
\* from it no further than its roundings add up to.
AveragesStandForRatings ==
    /\ MeanOfSome(restaurant, RestaurantRatings, RestaurantScale)
    /\ MeanOfSome(courier, given, CourierScale)

=============================================================================
