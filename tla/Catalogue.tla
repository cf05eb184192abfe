----------------------------- MODULE Catalogue -----------------------------
(***************************************************************************)
(* The catalogue: the requests of owners and administrators on             *)
(* restaurants, dishes and weekly menus, and the orders that are placed on *)
(* dishes, interleaved at every await.                                     *)
(***************************************************************************)
EXTENDS RestaurantsService, MenusService

Init == CatalogueInit

-----------------------------------------------------------------------------
(* OrdersService.create *)

\* Every dish is found and available, and its restaurant is open.
PlaceOrder(w, cart) ==
    /\ cart # {}
    /\ \A d \in cart : Present(d) /\ dish[d].isAvailable /\ restaurant[Home[d]].isOpen
    /\ Begin(w, [Idle EXCEPT !.pc = "insertOrder", !.cart = cart])

\* The order is inserted with its items; with a dish that is gone, the insert throws.
InsertOrder(w) ==
    /\ req[w].pc = "insertOrder"
    /\ IF \A d \in req[w].cart : Present(d)
       THEN /\ orderItems' = [d \in Dishes |->
                                IF d \in req[w].cart THEN orderItems[d] + 1 ELSE orderItems[d]]
            /\ Return(w)
            /\ UNCHANGED <<restaurant, dish, menus, items, offered, files, overlapped>>
       ELSE Fail(w)

-----------------------------------------------------------------------------

Arrive(w) ==
    \/ RestaurantsBegin(w) \/ DishesBegin(w) \/ MenusBegin(w)
    \/ \E cart \in SUBSET Dishes : PlaceOrder(w, cart)

Step(w) ==
    StorageStep(w) \/ RestaurantsStep(w) \/ DishesStep(w) \/ MenusStep(w) \/ InsertOrder(w)

Next == \E w \in Workers : Arrive(w) \/ Step(w) \/ Abort(w)

Spec == Init /\ [][Next]_vars

\* An await is answered, by the database, which grants its locks, or the storage.
FairSpec == Spec /\ \A w \in Workers : WF_vars(Step(w))

-----------------------------------------------------------------------------

MenuSteps == {"deleteMenus", "waitMenus", "createMenus"}

FileSteps == {"deleteFile", "upload", "writePhoto", "deleteDish"}

\* A frame holds what the steps still to come need: the row to write, the step
\* that writes it once the files are dealt with, the weekly menu.
FrameOK(f) ==
    /\ f.pc \in RowSteps => f.x # None
    /\ f.pc = "deleteFile" => f.write \in {"writePhoto", "deleteDish"}
    /\ f.pc = "upload" => f.write \in {"writePhoto", "insertDish", "insertRestaurant"}
    /\ f.old # None => f.pc \in FileSteps /\ f.write \in {"writePhoto", "deleteDish"}
    /\ f.pc \in MenuSteps =>
         /\ f.x \in Restaurants /\ f.plan \in Plans
         /\ \A day \in DOMAIN f.plan : \A d \in f.plan[day] : Home[d] = f.x

\* The tables and the frames hold values of their types; what is offered is an item.
TypeOK ==
    /\ restaurant \in [Restaurants -> RestaurantRow]
    /\ dish \in [Dishes -> DishRow]
    /\ photo \in [Restaurants \cup Dishes -> Photos \cup {None}]
    /\ menus \subseteq MenuRow
    /\ items \subseteq Item /\ offered \subseteq items
    /\ orderItems \in [Dishes -> Nat]
    /\ storage \subseteq named /\ named \subseteq Photos /\ forsaken \subseteq Photos
    /\ overlapped \subseteq Restaurants
    /\ req \in [Workers -> Frame]
    /\ arrivals \in Nat
    /\ \A w \in Workers : FrameOK(req[w])

\* Whatever is replaced, removed and rolled back at the same time, what a weekly
\* menu shows is a dish of that restaurant which is there, in a menu that is there.
MenuDishesOwned ==
    \A i \in items : i.menu \in menus /\ Present(i.dish) /\ Home[i.dish] = i.menu.restaurant

\* A dish that was ordered stays, for the history of its orders and their ratings,
\* though it is looked up well before the order is inserted.
OrderedDishKept == \A d \in Dishes : orderItems[d] > 0 => Present(d)

\* An owner has one restaurant, however many he opens at once.
OneRestaurantPerOwner ==
    \A r, s \in Restaurants : Exists(r) /\ restaurant[r].owner = restaurant[s].owner => r = s

\* setWeeklyMenu replaces the whole week: unless two submissions overlapped, what a
\* restaurant shows comes from one of them, none of it from one before.
WeekOfOneSubmission ==
    \A row, other \in menus :
        row.restaurant = other.restaurant /\ row.restaurant \notin overlapped
            => row.by = other.by

AtRest(x) == \A w \in Workers : req[w].x # x

\* A restaurant or a dish that nobody is writing shows a photo the storage does not
\* have only after a request that deleted it went on to fail; updates that race
\* never leave the row with the photo another one of them has deleted.
PhotoMissingOnlyAfterFailure ==
    \A x \in Restaurants \cup Dishes :
        AtRest(x) /\ photo[x] # None => photo[x] \in storage \cup forsaken

\* Why it holds.  A file belongs to one row, and who is to delete it read it there;
\* a file just uploaded is known to nobody else until it is written ...
PhotoNames ==
    /\ \A x \in Restaurants \cup Dishes :
         /\ photo[x] \in named \cup {None}
         /\ \A y \in Restaurants \cup Dishes : photo[x] = photo[y] /\ photo[x] # None => x = y
    /\ \A w \in Workers :
         /\ {req[w].old, req[w].new} \subseteq named \cup {None}
         /\ \A x \in Restaurants \cup Dishes :
              photo[x] = req[w].old /\ photo[x] # None => x = req[w].x
         /\ req[w].new # None =>
              /\ req[w].new \in storage
              /\ \A x \in Restaurants \cup Dishes : photo[x] # req[w].new
              /\ \A v \in Workers : req[v].old # req[w].new
              /\ \A v \in Workers : req[v].new = req[w].new => v = w

\* ... and a photo that is missing is that of a request which failed, or of one that
\* is to replace it.
PhotoAnswered(x) ==
    photo[x] # None =>
        \/ photo[x] \in storage \cup forsaken
        \/ \E w \in Workers : req[w].x = x /\ photo[x] \in Forsaken(req[w])

\* The inductive invariant behind the properties above, but WeekOfOneSubmission.
CatalogueInv ==
    /\ TypeOK /\ MenuDishesOwned /\ OrderedDishKept /\ OneRestaurantPerOwner
    /\ PhotoNames
    /\ \A x \in Restaurants \cup Dishes : PhotoAnswered(x)

\* Every request ends, those that wait for another's transaction, too.
RequestsEnd == \A w \in Workers : req[w] # Idle ~> req[w] = Idle

\* The steps a request has left at most: a weekly menu that has to wait for another one
\* goes on with what it had found, and does not look again.
StepsLeft(f) ==
    CASE f.pc = "idle" -> 0
      [] f.pc \in {"upload", "waitMenus"} -> 2
      [] f.pc \in {"deleteFile", "deleteMenus"} -> 3
      [] OTHER -> 1

\* Why requests end that are granted their locks: every step leaves fewer of them,
\* whatever the other requests do and whatever is rolled back.
StepsRunOut ==
    [][\A w \in Workers : Step(w) => StepsLeft(req'[w]) \in 0 .. StepsLeft(req[w]) - 1]_vars

=============================================================================
