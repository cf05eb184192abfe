---------------------------- MODULE RatingsProofs ----------------------------
(***************************************************************************)
(* The running averages, for any orders, stars and requests in flight:     *)
(* however often an average is rounded, and from however old a value it is *)
(* computed, it stays within the stars there are, and is the mean of       *)
(* ratings that were given.                                                *)
(***************************************************************************)
EXTENDS RatingsService, FiniteSetTheorems, TLAPS

-----------------------------------------------------------------------------
(* Rounding *)

LEMMA Product ==
    ASSUME NEW i \in Int, NEW j \in Int, NEW q \in Nat, i <= j
    PROVE  i * q <= j * q
OBVIOUS

LEMMA Distributed ==
    ASSUME NEW i \in Int, NEW q \in Int
    PROVE  (i + 1) * q = i * q + q
OBVIOUS

\* Rounding a quotient leaves it between the bounds it has.
LEMMA RoundedBetween ==
    ASSUME NEW p \in Nat, NEW q \in Nat \ {0}, NEW lo \in Nat, NEW hi \in Nat,
           lo * q <= p, p <= hi * q, NEW k \in Rounded(p, q)
    PROVE  k \in lo .. hi
<1>1. /\ k \in Int /\ 2 * k * q - q <= 2 * p /\ 2 * p <= 2 * k * q + q
    BY DEF Rounded
<1>2. /\ k * q \in Int /\ lo * q \in Int /\ hi * q \in Int
      /\ 2 * k * q = 2 * (k * q)
    BY <1>1
<1>3. k <= hi
    <2>1. SUFFICES ASSUME hi + 1 <= k PROVE FALSE
        BY <1>1
    <2>2. hi * q + q <= k * q
        BY <1>1, <2>1, Product, Distributed
    <2> QED BY <1>1, <1>2, <2>2
<1>4. lo <= k
    <2>1. SUFFICES ASSUME k + 1 <= lo PROVE FALSE
        BY <1>1
    <2>2. k * q + q <= lo * q
        BY <1>1, <2>1, Product, Distributed
    <2> QED BY <1>1, <1>2, <2>2
<1> QED BY <1>1, <1>3, <1>4

\* One more rating leaves an average between the least and the most stars.
LEMMA RatedInRange ==
    ASSUME NEW a \in Average, NEW scale \in Nat \ {0}, InRange(a, scale), NEW stars \in 1 .. 5,
           NEW b \in Rated(a, stars, scale)
    PROVE  b \in Average /\ b.total # 0 /\ InRange(b, scale)
<1>1. a.avg \in Nat /\ a.total \in Nat
    BY DEF Average
<1> DEFINE p == a.avg * a.total + scale * stars
           q == a.total + 1
<1>2. /\ b.avg \in Rounded(p, q) /\ b.total = q
      /\ b = [avg |-> b.avg, total |-> b.total]
    BY DEF Rated
<1>3. scale * a.total <= a.avg * a.total /\ a.avg * a.total <= (5 * scale) * a.total
    <2>1. CASE a.total = 0
        BY <1>1, <2>1
    <2>2. CASE a.total # 0
        BY <1>1, <2>2, Product DEF InRange
    <2> QED BY <2>1, <2>2
<1>4. scale <= scale * stars /\ scale * stars <= 5 * scale
    BY Product
<1>5. /\ scale * q = scale * a.total + scale
      /\ (5 * scale) * q = (5 * scale) * a.total + 5 * scale
    BY <1>1
<1>6. a.avg * a.total \in Nat /\ scale * stars \in Nat /\ scale * a.total \in Nat
    BY <1>1, <1>3
<1>7. /\ p \in Nat /\ q \in Nat \ {0} /\ scale * q <= p /\ p <= (5 * scale) * q
    BY <1>1, <1>3, <1>4, <1>5, <1>6
<1> HIDE DEF p, q
<1>8. b.avg \in scale .. 5 * scale
    BY <1>2, <1>7, RoundedBetween
<1> QED BY <1>2, <1>7, <1>8 DEF Average, InRange

-----------------------------------------------------------------------------
(* Steps *)

Scale(pc) == IF pc = "courierUpdate" THEN CourierScale ELSE RestaurantScale

\* The inductive invariant: what a request has read is in range, too.
RatingsInv ==
    /\ TypeOK
    /\ \A w \in Workers : req[w].pc # "idle" =>
         /\ req[w].o \in Orders /\ req[w].stars \in 1 .. 5
         /\ InRange(req[w].read, Scale(req[w].pc))

LEMMA NextRatings == RatingsInv /\ [Next]_vars => RatingsInv'
<1> SUFFICES ASSUME RatingsInv, [Next]_vars PROVE RatingsInv'
    OBVIOUS
<1> USE DEF RatingsInv, TypeOK
<1>1. \A w \in Workers : req[w] \in Frame /\ req[w].read \in Average /\ req[w].stars \in 0 .. 5
    BY DEF Frame
<1>2. Idle \in Frame /\ Idle.pc = "idle"
    BY DEF Idle, NewFrame, NoAverage, Average, Frame
<1>3. /\ RestaurantScale \in Nat \ {0} /\ CourierScale \in Nat \ {0}
      /\ NoAverage \in Average /\ InRange(NoAverage, RestaurantScale)
    BY DEF RestaurantScale, CourierScale, NoAverage, Average, InRange
<1>4. ASSUME NEW w \in Workers, Arrive(w) PROVE RatingsInv'
    <2>1. PICK o \in Orders, stars \in Stars : Create(w, o, stars) \/ RateDelivery(w, o, stars)
        BY <1>4 DEF Arrive
    <2>2. PICK f \in Frame :
             /\ Begin(w, f) /\ f.o = o /\ f.stars = stars
             /\ \/ f.pc = "insertRating" /\ f.read = NoAverage
                \/ f.pc = "courierUpdate" /\ f.read = courier
        <3>1. stars \in 0 .. 5
            BY RatingsAssumption
        <3> QED BY <1>3, <2>1, <3>1 DEF Create, RateDelivery, NewFrame, Frame
    <2>3. UNCHANGED <<rating, restaurant, courier, given>> /\ stars \in 1 .. 5
        BY <2>1, RatingsAssumption DEF Create, RateDelivery
    <2> QED BY <1>3, <2>2, <2>3 DEF Begin, Scale
<1>5. ASSUME NEW w \in Workers, InsertRating(w) PROVE RatingsInv'
    <2>1. UNCHANGED <<rating, restaurant, courier, given, arrivals>>
        BY <1>5 DEF InsertRating, Return
    <2>2. CASE req' = [req EXCEPT ![w].pc = "restaurantUpdate", ![w].read = restaurant]
        BY <1>1, <1>5, <2>1, <2>2 DEF InsertRating, Frame, Scale
    <2>3. CASE Return(w)
        BY <1>2, <2>1, <2>3 DEF Return
    <2> QED BY <1>5, <2>2, <2>3 DEF InsertRating
<1>6. ASSUME NEW w \in Workers, UpdateRestaurant(w) PROVE RatingsInv'
    <2>1. restaurant' \in Average /\ InRange(restaurant', RestaurantScale)
        BY <1>1, <1>3, <1>6, RatedInRange DEF UpdateRestaurant, Scale
    <2>2. req[w].o \in Orders /\ req[w].stars \in 1 .. 5 /\ UNCHANGED <<courier, given>>
        BY <1>6 DEF UpdateRestaurant
    <2> QED BY <1>2, <1>6, <2>1, <2>2 DEF UpdateRestaurant, Return
<1>7. ASSUME NEW w \in Workers, UpdateCourier(w) PROVE RatingsInv'
    <2>1. courier' \in Average /\ InRange(courier', CourierScale)
        BY <1>1, <1>3, <1>7, RatedInRange DEF UpdateCourier, Scale
    <2>2. given' \in [1 .. 5 -> Nat] /\ UNCHANGED <<rating, restaurant>>
        BY <1>7 DEF UpdateCourier
    <2> QED BY <1>2, <1>7, <2>1, <2>2 DEF UpdateCourier, Return
<1>8. CASE UNCHANGED vars
    BY <1>8 DEF vars, InRange
<1> QED BY <1>4, <1>5, <1>6, <1>7, <1>8 DEF Next, Step

LEMMA InitRatings == Init => RatingsInv
BY DEF Init, RatingsInv, TypeOK, InRange, NoAverage, Average, Idle, NewFrame, Frame

\* However many ratings overlap, and however the averages are rounded, an average
\* that counts a rating is one of 1 to 5 stars.
THEOREM AveragesInRange == Spec => []TypeOK
<1>1. RatingsInv => TypeOK
    BY DEF RatingsInv
<1> QED BY <1>1, InitRatings, NextRatings, PTL DEF Spec

-----------------------------------------------------------------------------
(* What an average stands for *)

Counts == [1 .. 5 -> Nat]

\* An average is still the mean of some ratings when more have been given.
LEMMA MeanGrows ==
    ASSUME NEW a, NEW g \in Counts, NEW h \in Counts, NEW scale, MeanOfSome(a, g, scale),
           \A s \in 1 .. 5 : g[s] <= h[s]
    PROVE  MeanOfSome(a, h, scale)
<1>1. PICK n1 \in 0 .. g[1], n2 \in 0 .. g[2], n3 \in 0 .. g[3], n4 \in 0 .. g[4],
           n5 \in 0 .. g[5] :
             /\ n1 + n2 + n3 + n4 + n5 = a.total
             /\ Near(a, n1 + 2 * n2 + 3 * n3 + 4 * n4 + 5 * n5, scale)
    BY DEF MeanOfSome
<1>2. /\ n1 \in 0 .. h[1] /\ n2 \in 0 .. h[2] /\ n3 \in 0 .. h[3] /\ n4 \in 0 .. h[4]
      /\ n5 \in 0 .. h[5]
    BY DEF Counts
<1> QED BY <1>1, <1>2 DEF MeanOfSome

\* One more rating, and the roundings have moved the sum by half of the new total more.
LEMMA NearGrows ==
    ASSUME NEW a \in Average, NEW sum \in Nat, NEW scale \in Nat \ {0}, Near(a, sum, scale),
           NEW stars \in 1 .. 5, NEW b \in Rated(a, stars, scale)
    PROVE  Near(b, sum + stars, scale)
<1> DEFINE t == a.total
           q == a.total + 1
           p == a.avg * a.total + scale * stars
           k == b.avg
<1>1. a.avg \in Nat /\ t \in Nat /\ q \in Nat \ {0}
    BY DEF Average
<1>2. b.total = q /\ k \in Rounded(p, q)
    BY DEF Rated
<1>3. a.avg * t \in Int /\ scale * stars \in Int /\ scale * sum \in Int /\ p \in Int
    BY <1>1
<1>4. k \in Int /\ 2 * k * q - q <= 2 * p /\ 2 * p <= 2 * k * q + q
    BY <1>1, <1>2, <1>3 DEF Rounded
<1>5. k * q \in Int /\ 2 * k * q = 2 * (k * q)
    BY <1>1, <1>4
<1>6. scale * (sum + stars) = scale * sum + scale * stars
    OBVIOUS
<1>7. /\ t * q \in Int /\ q * (q + 1) = t * q + 2 * q
      /\ -t * (t + 1) = -(t * q) /\ -q * (q + 1) = -(q * (q + 1))
    BY <1>1
<1>8. -(t * q) <= 4 * (a.avg * t - scale * sum) /\ 4 * (a.avg * t - scale * sum) <= t * q
    BY <1>1, <1>3, <1>7 DEF Near
<1>9. /\ -(q * (q + 1)) <= 4 * (k * q - scale * (sum + stars))
      /\ 4 * (k * q - scale * (sum + stars)) <= q * (q + 1)
    <2> DEFINE kq == k * q
               tq == t * q
               at == a.avg * t
               su == scale * sum
               st == scale * stars
    <2>1. /\ kq \in Int /\ tq \in Int /\ at \in Int /\ su \in Int /\ st \in Int
          /\ 2 * kq - q <= 2 * (at + st) /\ 2 * (at + st) <= 2 * kq + q
          /\ -tq <= 4 * (at - su) /\ 4 * (at - su) <= tq
        BY <1>3, <1>4, <1>5, <1>7, <1>8
    <2> HIDE DEF kq, tq, at, su, st, q
    <2>2. /\ -(tq + 2 * q) <= 4 * (kq - (su + st))
          /\ 4 * (kq - (su + st)) <= tq + 2 * q
        BY <1>1, <2>1
    <2> QED BY <1>6, <1>7, <2>2 DEF kq, tq, su, st
<1> QED BY <1>2, <1>7, <1>9 DEF Near

\* Once a rating is given, the average computed with it is the mean of some.
LEMMA RatedMeans ==
    ASSUME NEW a \in Average, NEW g \in Counts, NEW h \in Counts, NEW scale \in Nat \ {0},
           MeanOfSome(a, g, scale), NEW stars \in 1 .. 5, NEW b \in Rated(a, stars, scale),
           \A s \in 1 .. 5 : g[s] <= h[s], h[stars] = g[stars] + 1
    PROVE  MeanOfSome(b, h, scale)
<1>1. PICK n1 \in 0 .. g[1], n2 \in 0 .. g[2], n3 \in 0 .. g[3], n4 \in 0 .. g[4],
           n5 \in 0 .. g[5] :
             /\ n1 + n2 + n3 + n4 + n5 = a.total
             /\ Near(a, n1 + 2 * n2 + 3 * n3 + 4 * n4 + 5 * n5, scale)
    BY DEF MeanOfSome
<1> DEFINE One(s) == IF stars = s THEN 1 ELSE 0
<1>2. /\ n1 + One(1) \in 0 .. h[1] /\ n2 + One(2) \in 0 .. h[2] /\ n3 + One(3) \in 0 .. h[3]
      /\ n4 + One(4) \in 0 .. h[4] /\ n5 + One(5) \in 0 .. h[5]
    BY DEF Counts
<1>3. /\ n1 \in Nat /\ n2 \in Nat /\ n3 \in Nat /\ n4 \in Nat /\ n5 \in Nat
      /\ b.total = a.total + 1 /\ a.total \in Nat
    BY DEF Counts, Rated, Average
<1>4. (n1 + One(1)) + (n2 + One(2)) + (n3 + One(3)) + (n4 + One(4)) + (n5 + One(5)) = b.total
    BY <1>1, <1>3
<1>5. (n1 + One(1)) + 2 * (n2 + One(2)) + 3 * (n3 + One(3)) + 4 * (n4 + One(4))
         + 5 * (n5 + One(5)) = (n1 + 2 * n2 + 3 * n3 + 4 * n4 + 5 * n5) + stars
    BY <1>3
<1>6. n1 + 2 * n2 + 3 * n3 + 4 * n4 + 5 * n5 \in Nat
    BY <1>3
<1>7. Near(b, (n1 + 2 * n2 + 3 * n3 + 4 * n4 + 5 * n5) + stars, scale)
    BY <1>1, <1>6, NearGrows
<1> HIDE DEF One
<1> QED BY <1>2, <1>4, <1>5, <1>7 DEF MeanOfSome

LEMMA RatingsCounted ==
    ASSUME IsFiniteSet(Orders), NEW o \in Orders, NEW s \in 1 .. 5, TypeOK, rating[o] = 0,
           rating' = [rating EXCEPT ![o] = s]
    PROVE  /\ RestaurantRatings \in Counts /\ RestaurantRatings' \in Counts
           /\ \A r \in 1 .. 5 : RestaurantRatings[r] <= RestaurantRatings'[r]
           /\ RestaurantRatings'[s] = RestaurantRatings[s] + 1
<1> DEFINE Rows(r) == {p \in Orders : rating[p] = r}
<1>1. ASSUME NEW r \in 1 .. 5 PROVE IsFiniteSet(Rows(r)) /\ Cardinality(Rows(r)) \in Nat
    <2>1. Rows(r) \subseteq Orders
        OBVIOUS
    <2> QED BY <2>1, FS_Subset, FS_CardinalityType
<1>2. \A r \in (1 .. 5) \ {s} : Rows(r)' = Rows(r)
    BY DEF TypeOK
<1>3. Rows(s)' = Rows(s) \cup {o} /\ o \notin Rows(s)
    BY DEF TypeOK
<1>4. Cardinality(Rows(s)') = Cardinality(Rows(s)) + 1
    BY <1>1, <1>3, FS_AddElement
<1>5. /\ RestaurantRatings = [r \in 1 .. 5 |-> Cardinality(Rows(r))]
      /\ RestaurantRatings' = [r \in 1 .. 5 |-> Cardinality(Rows(r)')]
    BY DEF RestaurantRatings
<1> HIDE DEF Rows
<1>6. \A r \in 1 .. 5 : Cardinality(Rows(r)') \in Nat /\ Cardinality(Rows(r)) <= Cardinality(Rows(r)')
    BY <1>1, <1>2, <1>4
<1> QED BY <1>1, <1>4, <1>5, <1>6 DEF Counts

\* The inductive invariant: what a request has read stands for ratings, too; the row
\* it is about to commit is not there yet, and no other request is about to commit it.
MeansInv ==
    /\ AveragesStandForRatings
    /\ \A w \in Workers :
         /\ req[w].pc = "courierUpdate" => MeanOfSome(req[w].read, given, CourierScale)
         /\ req[w].pc = "restaurantUpdate" =>
              /\ MeanOfSome(req[w].read, RestaurantRatings, RestaurantScale)
              /\ rating[req[w].o] = 0
              /\ \A v \in Workers : req[v].pc = "restaurantUpdate" /\ req[v].o = req[w].o => v = w

LEMMA NextMeans ==
    ASSUME IsFiniteSet(Orders)
    PROVE  RatingsInv /\ MeansInv /\ [Next]_vars => MeansInv'
<1> SUFFICES ASSUME RatingsInv, MeansInv, [Next]_vars PROVE MeansInv'
    OBVIOUS
<1>1. /\ req \in [Workers -> Frame] /\ TypeOK /\ given \in Counts
      /\ \A w \in Workers : /\ req[w].read \in Average
                            /\ req[w].pc # "idle" => req[w].o \in Orders /\ req[w].stars \in 1 .. 5
      /\ CourierScale \in Nat \ {0} /\ RestaurantScale \in Nat \ {0}
    BY DEF RatingsInv, TypeOK, Counts, Frame, CourierScale, RestaurantScale
<1>2. Idle.pc = "idle"
    BY DEF Idle, NewFrame
<1>3. ASSUME UNCHANGED <<rating, restaurant, courier, given>>
      PROVE  UNCHANGED RestaurantRatings /\ AveragesStandForRatings'
    BY <1>3 DEF RestaurantRatings, MeansInv, AveragesStandForRatings
<1>4. ASSUME NEW w \in Workers, Arrive(w) PROVE MeansInv'
    <2>1. PICK o \in Orders, stars \in Stars : Create(w, o, stars) \/ RateDelivery(w, o, stars)
        BY <1>4 DEF Arrive
    <2>2. UNCHANGED <<rating, restaurant, courier, given>>
        BY <2>1 DEF Create, RateDelivery
    <2>3. /\ \A v \in Workers \ {w} : req'[v] = req[v]
          /\ req'[w].pc = "insertRating" \/ (req'[w].pc = "courierUpdate" /\ req'[w].read = courier)
        BY <1>1, <2>1 DEF Create, RateDelivery, Begin, NewFrame
    <2>4. MeanOfSome(courier, given, CourierScale)
        BY DEF MeansInv, AveragesStandForRatings
    <2> QED BY <1>3, <2>2, <2>3, <2>4 DEF MeansInv
<1>5. ASSUME NEW w \in Workers, InsertRating(w) PROVE MeansInv'
    <2>1. UNCHANGED <<rating, restaurant, courier, given>>
        BY <1>5 DEF InsertRating
    <2>2. CASE req' = [req EXCEPT ![w].pc = "restaurantUpdate", ![w].read = restaurant]
               /\ rating[req[w].o] = 0
        <3>1. /\ \A v \in Workers \ {w} : req'[v] = req[v]
              /\ req'[w].pc = "restaurantUpdate" /\ req'[w].read = restaurant
              /\ req'[w].o = req[w].o
            BY <1>1, <2>2 DEF Frame
        <3>2. MeanOfSome(restaurant, RestaurantRatings, RestaurantScale)
            BY DEF MeansInv, AveragesStandForRatings
        <3>3. \A v \in Workers : req[v].pc = "restaurantUpdate" => req[v].o # req[w].o
            BY <1>5 DEF InsertRating
        <3>4. ASSUME NEW v \in Workers, req'[v].pc = "restaurantUpdate"
              PROVE  /\ MeanOfSome(req'[v].read, RestaurantRatings, RestaurantScale)
                     /\ rating[req'[v].o] = 0
                     /\ \A x \in Workers :
                          req'[x].pc = "restaurantUpdate" /\ req'[x].o = req'[v].o => x = v
            <4>1. CASE v = w
                BY <2>2, <3>1, <3>2, <3>3, <4>1
            <4>2. CASE v # w
                BY <3>1, <3>3, <3>4, <4>2 DEF MeansInv
            <4> QED BY <4>1, <4>2
        <3>5. \A v \in Workers : req'[v].pc = "courierUpdate" => req'[v] = req[v]
            BY <3>1
        <3> QED BY <1>3, <2>1, <3>4, <3>5 DEF MeansInv
    <2>3. CASE Return(w)
        BY <1>1, <1>2, <1>3, <2>1, <2>3 DEF Return, MeansInv
    <2> QED BY <1>5, <2>2, <2>3 DEF InsertRating
<1>6. ASSUME NEW w \in Workers, UpdateRestaurant(w) PROVE MeansInv'
    <2>1. /\ req[w].pc = "restaurantUpdate" /\ req[w].o \in Orders /\ req[w].stars \in 1 .. 5
          /\ rating[req[w].o] = 0 /\ rating' = [rating EXCEPT ![req[w].o] = req[w].stars]
          /\ MeanOfSome(req[w].read, RestaurantRatings, RestaurantScale)
          /\ UNCHANGED <<courier, given>>
        BY <1>1, <1>6 DEF UpdateRestaurant, MeansInv
    <2>2. PICK g, h : g = RestaurantRatings /\ h = RestaurantRatings'
        OBVIOUS
    <2>3. /\ g \in Counts /\ h \in Counts /\ (\A s \in 1 .. 5 : g[s] <= h[s])
          /\ h[req[w].stars] = g[req[w].stars] + 1
        BY <1>1, <2>1, <2>2, RatingsCounted
    <2>4. MeanOfSome(restaurant', h, RestaurantScale)
        BY <1>1, <1>6, <2>1, <2>2, <2>3, RatedMeans DEF UpdateRestaurant
    <2>5. ASSUME NEW a, MeanOfSome(a, g, RestaurantScale) PROVE MeanOfSome(a, h, RestaurantScale)
        BY <2>3, <2>5, MeanGrows
    <2>6. /\ \A v \in Workers \ {w} : req'[v] = req[v]
          /\ req'[w].pc = "idle"
        BY <1>1, <1>2, <1>6 DEF UpdateRestaurant, Return
    <2>7. AveragesStandForRatings'
        BY <2>1, <2>2, <2>4 DEF MeansInv, AveragesStandForRatings
    <2>8. ASSUME NEW v \in Workers, req'[v].pc = "restaurantUpdate"
          PROVE  /\ req'[v] = req[v] /\ rating'[req[v].o] = 0
                 /\ MeanOfSome(req[v].read, h, RestaurantScale)
        <3>1. v # w /\ req'[v] = req[v]
            BY <2>6, <2>8
        <3>2. /\ req[v].o # req[w].o /\ rating[req[v].o] = 0
              /\ MeanOfSome(req[v].read, g, RestaurantScale)
            BY <2>1, <2>2, <2>8, <3>1 DEF MeansInv
        <3> QED BY <1>1, <2>1, <2>5, <2>8, <3>1, <3>2 DEF TypeOK
    <2>9. \A v \in Workers : req'[v].pc = "courierUpdate" => req'[v] = req[v]
        BY <2>6
    <2> QED BY <2>1, <2>2, <2>7, <2>8, <2>9 DEF MeansInv
<1>7. ASSUME NEW w \in Workers, UpdateCourier(w) PROVE MeansInv'
    <2>1. /\ req[w].pc = "courierUpdate" /\ req[w].stars \in 1 .. 5
          /\ given' = [given EXCEPT ![req[w].stars] = @ + 1]
          /\ MeanOfSome(req[w].read, given, CourierScale)
          /\ UNCHANGED <<rating, restaurant>>
        BY <1>1, <1>7 DEF UpdateCourier, MeansInv
    <2>2. /\ given' \in Counts /\ (\A s \in 1 .. 5 : given[s] <= given'[s])
          /\ given'[req[w].stars] = given[req[w].stars] + 1
        BY <1>1, <2>1 DEF Counts
    <2>3. MeanOfSome(courier', given', CourierScale)
        BY <1>1, <1>7, <2>1, <2>2, RatedMeans DEF UpdateCourier
    <2>4. ASSUME NEW a, MeanOfSome(a, given, CourierScale) PROVE MeanOfSome(a, given', CourierScale)
        BY <1>1, <2>2, <2>4, MeanGrows
    <2>5. /\ \A v \in Workers \ {w} : req'[v] = req[v]
          /\ req'[w].pc = "idle"
        BY <1>1, <1>2, <1>7 DEF UpdateCourier, Return
    <2>6. UNCHANGED RestaurantRatings
        BY <2>1 DEF RestaurantRatings
    <2> QED BY <2>1, <2>3, <2>4, <2>5, <2>6 DEF MeansInv, AveragesStandForRatings
<1>8. CASE UNCHANGED vars
    BY <1>3, <1>8 DEF vars, MeansInv
<1> QED BY <1>4, <1>5, <1>6, <1>7, <1>8 DEF Next, Step

LEMMA InitMeans == ASSUME IsFiniteSet(Orders) PROVE Init => MeansInv
<1> SUFFICES ASSUME Init PROVE MeansInv
    OBVIOUS
<1>1. ASSUME NEW g \in Counts, NEW scale \in Nat PROVE MeanOfSome(NoAverage, g, scale)
    <2>1. /\ 0 \in 0 .. g[1] /\ 0 \in 0 .. g[2] /\ 0 \in 0 .. g[3] /\ 0 \in 0 .. g[4]
          /\ 0 \in 0 .. g[5]
        BY DEF Counts
    <2>2. NoAverage.total = 0 /\ NoAverage.avg = 0
        BY DEF NoAverage
    <2>3. Near(NoAverage, 0 + 2 * 0 + 3 * 0 + 4 * 0 + 5 * 0, scale)
        BY <2>2 DEF Near
    <2> QED BY <2>1, <2>2, <2>3 DEF MeanOfSome
<1>2. RestaurantRatings \in Counts
    <2>1. \A s \in 1 .. 5 : {o \in Orders : rating[o] = s} \subseteq Orders
        OBVIOUS
    <2>2. \A s \in 1 .. 5 : Cardinality({o \in Orders : rating[o] = s}) \in Nat
        BY <2>1, FS_Subset, FS_CardinalityType
    <2> QED BY <2>2 DEF RestaurantRatings, Counts
<1>3. AveragesStandForRatings
    BY <1>1, <1>2 DEF Init, Counts, AveragesStandForRatings, CourierScale, RestaurantScale
<1>4. \A w \in Workers : req[w].pc = "idle"
    BY DEF Init, Idle, NewFrame
<1> QED BY <1>3, <1>4 DEF MeansInv

\* Of any number of orders and of ratings that overlap: an average is the mean of as many
\* of the ratings given as it counts, within half a unit for each update.
THEOREM AveragesAreMeans ==
    ASSUME IsFiniteSet(Orders) PROVE Spec => []AveragesStandForRatings
<1>1. MeansInv => AveragesStandForRatings
    BY DEF MeansInv
<1> QED BY <1>1, InitRatings, NextRatings, InitMeans, NextMeans, PTL DEF Spec

=============================================================================
