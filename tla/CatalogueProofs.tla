--------------------------- MODULE CatalogueProofs ---------------------------
(***************************************************************************)
(* The catalogue, for every value of the constants: any owners, dishes,    *)
(* weekly menus, photos and requests in flight, and with faults.           *)
(***************************************************************************)
EXTENDS Catalogue, TLAPS

Rows == Restaurants \cup Dishes

FramesOK == req \in [Workers -> Frame] /\ \A w \in Workers : FrameOK(req[w])

-----------------------------------------------------------------------------
(* Weekly menus that are submitted *)

LEMMA PlanFacts ==
    ASSUME NEW plan \in Plans
    PROVE  DOMAIN plan \subseteq Days /\ \A day \in DOMAIN plan : plan[day] \subseteq Dishes
<1>1. PICK D \in SUBSET Days : plan \in [D -> SUBSET Dishes]
    BY CatalogueAssumption
<1> QED BY <1>1

\* The rows and items a submission inserts are its own.
LEMMA InsertedFacts ==
    ASSUME NEW r \in Restaurants, NEW plan \in Plans, NEW by \in Nat
    PROVE  /\ NewMenus(r, plan, by) \subseteq MenuRow
           /\ \A row \in NewMenus(r, plan, by) : row.restaurant = r /\ row.by = by
           /\ NewItems(r, plan, by) \subseteq Item
           /\ \A i \in NewItems(r, plan, by) :
                /\ i.menu \in NewMenus(r, plan, by)
                /\ \E day \in DOMAIN plan : i.dish \in plan[day]
<1>1. /\ NewMenus(r, plan, by) \subseteq MenuRow
      /\ \A row \in NewMenus(r, plan, by) : row.restaurant = r /\ row.by = by /\ row.day \in DOMAIN plan
    BY PlanFacts DEF NewMenus, MenuRow
<1>2. ASSUME NEW i \in NewItems(r, plan, by)
      PROVE  /\ i \in Item /\ i.menu \in NewMenus(r, plan, by)
             /\ \E day \in DOMAIN plan : i.dish \in plan[day]
    <2>1. PICK row \in NewMenus(r, plan, by) : \E d \in plan[row.day] : i = [menu |-> row, dish |-> d]
        BY DEF NewItems
    <2>2. PICK d \in plan[row.day] : i = [menu |-> row, dish |-> d]
        BY <2>1
    <2>3. row \in MenuRow /\ row.day \in DOMAIN plan /\ d \in Dishes
        BY <1>1, PlanFacts
    <2> QED BY <2>2, <2>3 DEF Item
<1> QED BY <1>1, <1>2

-----------------------------------------------------------------------------
(* Frames *)

LEMMA IdleFrame == Idle \in Frame /\ FrameOK(Idle) /\ Forsaken(Idle) = {}
BY DEF Idle, Frame, FrameOK, Steps, RowSteps, MenuSteps, Forsaken

LEMMA FrameStored ==
    ASSUME FramesOK, NEW w \in Workers, NEW f \in Frame, FrameOK(f), req' = [req EXCEPT ![w] = f]
    PROVE  FramesOK' /\ req'[w] = f /\ \A v \in Workers \ {w} : req'[v] = req[v]
BY DEF FramesOK

LEMMA ReturnStored ==
    ASSUME FramesOK, NEW w \in Workers, Return(w)
    PROVE  /\ FramesOK' /\ arrivals' = arrivals
           /\ req'[w] = Idle /\ \A v \in Workers \ {w} : req'[v] = req[v]
BY IdleFrame, FrameStored DEF Return

\* A request that goes on from one step about a row to another.
LEMMA GotoStored ==
    ASSUME FramesOK, NEW w \in Workers, NEW pc \in Steps, Goto(w, pc),
           FrameOK([req[w] EXCEPT !.pc = pc])
    PROVE  /\ FramesOK' /\ arrivals' = arrivals
           /\ req'[w] = [req[w] EXCEPT !.pc = pc]
           /\ \A v \in Workers \ {w} : req'[v] = req[v]
<1>1. req[w] \in Frame
    BY DEF FramesOK
<1>2. [req[w] EXCEPT !.pc = pc] \in Frame
    BY <1>1 DEF Frame
<1>3. req' = [req EXCEPT ![w] = [req[w] EXCEPT !.pc = pc]] /\ arrivals' = arrivals
    BY DEF Goto, FramesOK
<1> QED BY <1>2, <1>3, FrameStored

\* The frame of a request that arrives.
Arrived(f) == f \in Frame /\ FrameOK(f) /\ f.new = None /\ Forsaken(f) = {}
              /\ (f.old # None => f.x \in Rows /\ f.old = photo[f.x])
              /\ (f.pc \in MenuSteps <=> f.by # 0) /\ (f.pc \in MenuSteps => f.pc = "deleteMenus")

LEMMA RowFrameArrives ==
    ASSUME NEW pc \in RowSteps \ FileSteps, NEW x \in Rows, NEW flag \in BOOLEAN
    PROVE  Arrived(RowFrame(pc, x, flag))
<1>1. x # None
    BY CatalogueAssumption DEF Rows
<1> QED BY <1>1 DEF Arrived, RowFrame, Idle, Frame, FrameOK, Steps, RowSteps, FileSteps, MenuSteps, Forsaken, Rows

LEMMA InsertFrameArrives ==
    ASSUME NEW write \in {"insertDish", "insertRestaurant"}, NEW x \in Rows,
           NEW withFile \in BOOLEAN, NEW owner \in Owners \cup {None}
    PROVE  /\ Arrived(InsertFrame(x, write, withFile))
           /\ Arrived([InsertFrame(x, write, withFile) EXCEPT !.owner = owner])
<1>1. x # None
    BY CatalogueAssumption DEF Rows
<1> QED BY <1>1 DEF Arrived, InsertFrame, Idle, Frame, FrameOK, Steps, RowSteps, MenuSteps, Forsaken, Rows

LEMMA FileFrameArrives ==
    ASSUME TypeOK, NEW x \in Rows,
           NEW pc, NEW write,
           \/ write = "writePhoto" /\ pc = ReplaceFile(x)
           \/ write = "deleteDish" /\ pc = IF photo[x] = None THEN "deleteDish" ELSE "deleteFile"
    PROVE  Arrived(FileFrame(pc, x, write))
<1>1. x # None /\ photo[x] \in Photos \cup {None}
    BY CatalogueAssumption DEF Rows, TypeOK
<1>2. /\ FileFrame(pc, x, write) \in Frame /\ FrameOK(FileFrame(pc, x, write))
    BY <1>1 DEF FileFrame, ReplaceFile, Idle, Frame, FrameOK, Steps, RowSteps, FileSteps, MenuSteps, Rows
<1>3. /\ FileFrame(pc, x, write).x = x /\ FileFrame(pc, x, write).old = photo[x]
      /\ FileFrame(pc, x, write).new = None /\ FileFrame(pc, x, write).pc = pc
      /\ FileFrame(pc, x, write).by = 0
    BY DEF FileFrame, Idle
<1>4. Forsaken(FileFrame(pc, x, write)) = {}
    BY <1>3 DEF Forsaken, ReplaceFile
<1> QED BY <1>2, <1>3, <1>4 DEF Arrived, ReplaceFile, MenuSteps

\* Every request that arrives brings such a frame.
LEMMA ArriveStored ==
    ASSUME TypeOK, NEW w \in Workers, Arrive(w)
    PROVE  \E f : Arrived(f) /\ Begin(w, f)
<1>1. CASE RestaurantsBegin(w)
    <2>1. ASSUME NEW r \in Restaurants, NEW owner \in Owners, NEW withLogo \in BOOLEAN,
                 CreateRestaurant(w, r, owner, withLogo)
          PROVE  \E f : Arrived(f) /\ Begin(w, f)
        BY <2>1, InsertFrameArrives DEF CreateRestaurant, Rows
    <2>2. ASSUME NEW r \in Restaurants, UpdateRestaurantLogo(w, r)
          PROVE  \E f : Arrived(f) /\ Begin(w, f)
        BY <2>2, FileFrameArrives DEF UpdateRestaurantLogo, Rows
    <2>3. ASSUME NEW r \in Restaurants, NEW isOpen \in BOOLEAN, UpdateRestaurantOpen(w, r, isOpen)
          PROVE  \E f : Arrived(f) /\ Begin(w, f)
        BY <2>3, RowFrameArrives DEF UpdateRestaurantOpen, Rows, RowSteps, FileSteps
    <2>4. ASSUME NEW r \in Restaurants, ToggleRestaurantActive(w, r) \/ ToggleVerifyRestaurant(w, r)
          PROVE  \E f : Arrived(f) /\ Begin(w, f)
        <3>1. restaurant[r].isOpen \in BOOLEAN /\ restaurant[r].isVerified \in BOOLEAN
            BY DEF TypeOK, RestaurantRow
        <3> QED BY <2>4, <3>1, RowFrameArrives
               DEF ToggleRestaurantActive, ToggleVerifyRestaurant, Rows, RowSteps, FileSteps
    <2> QED BY <1>1, <2>1, <2>2, <2>3, <2>4 DEF RestaurantsBegin
<1>2. CASE DishesBegin(w)
    <2>1. ASSUME NEW d \in Dishes, NEW withPhoto \in BOOLEAN, CreateDish(w, d, withPhoto)
          PROVE  \E f : Arrived(f) /\ Begin(w, f)
        BY <2>1, InsertFrameArrives DEF CreateDish, Rows
    <2>2. ASSUME NEW d \in Dishes, UpdateDishPhoto(w, d) \/ RemoveDish(w, d)
          PROVE  \E f : Arrived(f) /\ Begin(w, f)
        BY <2>2, FileFrameArrives DEF UpdateDishPhoto, RemoveDish, Rows
    <2>3. ASSUME NEW d \in Dishes, NEW isAvailable \in BOOLEAN, UpdateDishAvailable(w, d, isAvailable)
          PROVE  \E f : Arrived(f) /\ Begin(w, f)
        BY <2>3, RowFrameArrives DEF UpdateDishAvailable, Rows, RowSteps, FileSteps
    <2> QED BY <1>2, <2>1, <2>2, <2>3 DEF DishesBegin
<1>3. ASSUME NEW r \in Restaurants, NEW plan \in Plans, SetWeeklyMenu(w, r, plan)
      PROVE  \E f : Arrived(f) /\ Begin(w, f)
    <2> DEFINE f == [RowFrame("deleteMenus", r, FALSE) EXCEPT !.plan = plan, !.by = arrivals + 1]
    <2>1. arrivals + 1 \in Nat /\ arrivals + 1 # 0
        BY DEF TypeOK
    <2>2. f \in Frame
        BY <2>1 DEF RowFrame, Idle, Frame, Steps
    <2>3. /\ f.pc = "deleteMenus" /\ f.x = r /\ f.plan = plan /\ f.by # 0
          /\ f.old = None /\ f.new = None
        BY <2>1 DEF RowFrame, Idle
    <2>4. \A day \in DOMAIN plan : \A d \in plan[day] : Home[d] = r
        BY <1>3 DEF SetWeeklyMenu
    <2> HIDE DEF f
    <2>5. Arrived(f)
        BY <2>2, <2>3, <2>4 DEF Arrived, FrameOK, RowSteps, MenuSteps, Forsaken
    <2> QED BY <1>3, <2>5 DEF SetWeeklyMenu, f
<1>4. ASSUME NEW i \in items, ToggleMenuItem(w, i)
      PROVE  \E f : Arrived(f) /\ Begin(w, f)
    <2> DEFINE f == [Idle EXCEPT !.pc = "toggleItem", !.item = i, !.flag = i \notin offered]
    <2>1. i \in Item
        BY DEF TypeOK
    <2>2. f \in Frame /\ f.pc = "toggleItem" /\ f.by = 0 /\ f.old = None /\ f.new = None
        BY <2>1 DEF Idle, Frame, Steps
    <2>3. Arrived(f)
        BY <2>2 DEF Arrived, FrameOK, RowSteps, MenuSteps, Forsaken
    <2> QED BY <1>4, <2>3 DEF ToggleMenuItem
<1>5. ASSUME NEW cart \in SUBSET Dishes, PlaceOrder(w, cart)
      PROVE  \E f : Arrived(f) /\ Begin(w, f)
    <2> DEFINE f == [Idle EXCEPT !.pc = "insertOrder", !.cart = cart]
    <2>1. f \in Frame /\ f.pc = "insertOrder" /\ f.by = 0 /\ f.old = None /\ f.new = None
        BY DEF Idle, Frame, Steps
    <2>2. Arrived(f)
        BY <2>1 DEF Arrived, FrameOK, RowSteps, MenuSteps, Forsaken
    <2> QED BY <1>5, <2>2 DEF PlaceOrder
<1> QED BY <1>1, <1>2, <1>3, <1>4, <1>5 DEF Arrive, MenusBegin

-----------------------------------------------------------------------------
(* Rows *)

RowsTyped ==
    /\ restaurant \in [Restaurants -> RestaurantRow]
    /\ dish \in [Dishes -> DishRow]
    /\ menus \subseteq MenuRow
    /\ items \subseteq Item /\ offered \subseteq items
    /\ orderItems \in [Dishes -> Nat]

RowsInv == RowsTyped /\ MenuDishesOwned /\ OrderedDishKept /\ OneRestaurantPerOwner

LEMMA RowsUnchanged == ASSUME RowsInv, UNCHANGED rows PROVE RowsInv'
BY DEF RowsInv, RowsTyped, MenuDishesOwned, OrderedDishKept, OneRestaurantPerOwner, rows,
   Present, Exists

\* A write that leaves the state of every dish alone, or puts one on sale.
LEMMA DishesWritten ==
    ASSUME RowsInv, UNCHANGED <<restaurant, menus, items, offered, orderItems>>,
           dish' \in [Dishes -> DishRow], \A d \in Dishes : Present(d) => Present(d)'
    PROVE  RowsInv'
<1>1. MenuDishesOwned'
    BY DEF RowsInv, RowsTyped, Item, MenuDishesOwned, Present
<1>2. OrderedDishKept'
    BY DEF RowsInv, OrderedDishKept
<1> QED BY <1>1, <1>2 DEF RowsInv, RowsTyped, OneRestaurantPerOwner, Exists

LEMMA RestaurantsRows ==
    ASSUME RowsInv, FramesOK, NEW w \in Workers, RestaurantsStep(w)
    PROVE  RowsInv'
<1>1. CASE UNCHANGED rows
    BY <1>1, RowsUnchanged
<1>2. req[w] \in Frame
    BY DEF FramesOK
<1>3. ASSUME UNCHANGED <<dish, menus, items, offered, orderItems>>,
             restaurant' \in [Restaurants -> RestaurantRow], OneRestaurantPerOwner'
      PROVE  RowsInv'
    BY <1>3 DEF RowsInv, RowsTyped, MenuDishesOwned, OrderedDishKept, Present
<1>4. CASE InsertRestaurant(w) /\ ~UNCHANGED rows
    <2> DEFINE x == req[w].x  owner == req[w].owner
    <2>1. /\ restaurant' = [restaurant EXCEPT ![x].owner = owner]
          /\ \A s \in Restaurants : restaurant[s].owner # owner
          /\ UNCHANGED <<dish, menus, items, offered, orderItems>>
        BY <1>4 DEF InsertRestaurant, Fail, rows
    <2>2. owner \in Owners \cup {None}
        BY <1>2 DEF Frame
    <2>3. restaurant' \in [Restaurants -> RestaurantRow]
        BY <2>1, <2>2 DEF RowsInv, RowsTyped, RestaurantRow
    <2>4. \A s \in Restaurants : restaurant'[s].owner = IF s = x THEN owner ELSE restaurant[s].owner
        BY <2>1 DEF RowsInv, RowsTyped, RestaurantRow
    <2>5. OneRestaurantPerOwner'
        BY <2>1, <2>4 DEF RowsInv, OneRestaurantPerOwner, Exists
    <2> QED BY <1>3, <2>1, <2>3, <2>5
<1>5. CASE WriteRestaurant(w)
    <2> DEFINE x == req[w].x  flag == req[w].flag
    <2>1. /\ \/ restaurant' = [restaurant EXCEPT ![x].isOpen = flag]
             \/ restaurant' = [restaurant EXCEPT ![x].isVerified = flag]
          /\ UNCHANGED <<dish, menus, items, offered, orderItems>>
        BY <1>5 DEF WriteRestaurant
    <2>2. flag \in BOOLEAN
        BY <1>2 DEF Frame
    <2>3. /\ restaurant' \in [Restaurants -> RestaurantRow]
          /\ \A s \in Restaurants : restaurant'[s].owner = restaurant[s].owner
        BY <2>1, <2>2 DEF RowsInv, RowsTyped, RestaurantRow
    <2>4. OneRestaurantPerOwner'
        BY <2>3 DEF RowsInv, OneRestaurantPerOwner, Exists
    <2> QED BY <1>3, <2>1, <2>3, <2>4
<1> QED BY <1>1, <1>4, <1>5 DEF RestaurantsStep, GeocodingRefused, Fail, rows

LEMMA DishesRows ==
    ASSUME RowsInv, FramesOK, NEW w \in Workers, DishesStep(w)
    PROVE  RowsInv'
<1>1. CASE UNCHANGED rows
    BY <1>1, RowsUnchanged
<1>2. req[w] \in Frame
    BY DEF FramesOK
<1>3. CASE InsertDish(w)
    <2>1. dish' = [dish EXCEPT ![req[w].x].state = "PRESENT"]
        BY <1>3 DEF InsertDish
    <2>2. /\ dish' \in [Dishes -> DishRow]
          /\ \A d \in Dishes : dish'[d].state = IF d = req[w].x THEN "PRESENT" ELSE dish[d].state
        BY <2>1 DEF RowsInv, RowsTyped, DishRow
    <2> QED BY <1>3, <2>2, DishesWritten DEF InsertDish, Present
<1>4. CASE WriteDish(w)
    <2>1. \/ dish' = [dish EXCEPT ![req[w].x].isAvailable = req[w].flag]
          \/ dish' = dish
        BY <1>4 DEF WriteDish
    <2>2. req[w].flag \in BOOLEAN
        BY <1>2 DEF Frame
    <2>3. /\ dish' \in [Dishes -> DishRow]
          /\ \A d \in Dishes : dish'[d].state = dish[d].state
        BY <2>1, <2>2 DEF RowsInv, RowsTyped, DishRow
    <2> QED BY <1>4, <2>3, DishesWritten DEF WriteDish, Present
<1>5. CASE DeleteDish(w) /\ DeleteRow(w) /\ orderItems[req[w].x] = 0
    <2> DEFINE x == req[w].x
    <2>1. /\ dish' = [dish EXCEPT ![x].state = "DELETED"]
          /\ items' = items \ ItemsOf(x) /\ offered' = offered \ ItemsOf(x)
          /\ UNCHANGED <<restaurant, menus, orderItems>>
        BY <1>5 DEF DeleteRow
    <2>2. /\ dish' \in [Dishes -> DishRow]
          /\ \A d \in Dishes : dish'[d].state = IF d = x THEN "DELETED" ELSE dish[d].state
        BY <2>1 DEF RowsInv, RowsTyped, DishRow
    <2>3. MenuDishesOwned'
        BY <2>1, <2>2 DEF RowsInv, RowsTyped, Item, MenuDishesOwned, Present, ItemsOf
    <2>4. OrderedDishKept'
        BY <1>5, <2>1, <2>2 DEF RowsInv, RowsTyped, OrderedDishKept, Present
    <2>5. RowsTyped' /\ OneRestaurantPerOwner'
        BY <2>1, <2>2 DEF RowsInv, RowsTyped, OneRestaurantPerOwner, Exists
    <2> QED BY <2>3, <2>4, <2>5 DEF RowsInv
<1> QED BY <1>1, <1>3, <1>4, <1>5 DEF DishesStep, DeleteDish, Fail, rows

LEMMA MenusRows ==
    ASSUME RowsInv, FramesOK, NEW w \in Workers, MenusStep(w)
    PROVE  RowsInv'
<1>1. CASE UNCHANGED rows
    BY <1>1, RowsUnchanged
<1>2. req[w] \in Frame /\ FrameOK(req[w])
    BY DEF FramesOK
<1>3. CASE WriteItem(w)
    <2>1. /\ offered' \subseteq items
          /\ UNCHANGED <<restaurant, dish, menus, items, orderItems>>
        BY <1>3 DEF WriteItem, RowsInv, RowsTyped
    <2> QED BY <2>1 DEF RowsInv, RowsTyped, MenuDishesOwned, OrderedDishKept,
            OneRestaurantPerOwner, Present, Exists
<1>4. CASE CreateMenus(w) /\ ReplaceMenus(w, menus \ req[w].seen) /\ ~DishGone(req[w])
    <2> DEFINE f == req[w]  kept == menus \ f.seen
    <2>1. /\ menus' = kept \cup MenusInserted(f)
          /\ items' = {i \in items : i.menu \in kept} \cup ItemsInserted(f)
          /\ offered' = {i \in offered : i.menu \in kept} \cup ItemsInserted(f)
          /\ UNCHANGED <<restaurant, dish, orderItems>>
        BY <1>4 DEF ReplaceMenus
    <2>2. /\ f.x \in Restaurants /\ f.plan \in Plans /\ f.by \in Nat
          /\ \A day \in DOMAIN f.plan : \A d \in f.plan[day] : Home[d] = f.x
        BY <1>2, <1>4 DEF CreateMenus, FrameOK, MenuSteps, Frame
    <2>3. /\ MenusInserted(f) \subseteq MenuRow /\ ItemsInserted(f) \subseteq Item
          /\ \A i \in ItemsInserted(f) : /\ i.menu \in MenusInserted(f)
                                         /\ i.menu.restaurant = f.x
                                         /\ Home[i.dish] = f.x
        BY <2>2, InsertedFacts DEF MenusInserted, ItemsInserted
    <2>4. \A i \in ItemsInserted(f) : Present(i.dish)
        BY <1>4 DEF DishGone
    <2>5. RowsTyped'
        BY <2>1, <2>3 DEF RowsInv, RowsTyped
    <2>6. MenuDishesOwned'
        BY <2>1, <2>3, <2>4 DEF RowsInv, MenuDishesOwned, Present
    <2> QED BY <2>1, <2>5, <2>6 DEF RowsInv, OrderedDishKept, OneRestaurantPerOwner, Present, Exists
<1> QED BY <1>1, <1>3, <1>4
       DEF MenusStep, DeleteMenus, WaitMenus, CreateMenus, Deadlock, Fail, rows

LEMMA StepRows ==
    ASSUME RowsInv, FramesOK, NEW w \in Workers, Step(w) \/ Abort(w)
    PROVE  RowsInv'
<1>1. CASE StorageStep(w) \/ Abort(w)
    BY <1>1, RowsUnchanged DEF StorageStep, DeleteFile, Upload, UploadRefused, WritePhoto, Abort,
       Fail, rows
<1>2. CASE InsertOrder(w) /\ ~UNCHANGED rows
    <2>1. /\ orderItems' = [d \in Dishes |-> IF d \in req[w].cart THEN orderItems[d] + 1
                                                                ELSE orderItems[d]]
          /\ \A d \in req[w].cart : Present(d)
          /\ UNCHANGED <<restaurant, dish, menus, items, offered>>
        BY <1>2 DEF InsertOrder, Fail, rows
    <2>2. orderItems' \in [Dishes -> Nat] /\ OrderedDishKept'
        BY <2>1 DEF RowsInv, RowsTyped, OrderedDishKept, Present
    <2> QED BY <2>1, <2>2 DEF RowsInv, RowsTyped, MenuDishesOwned, OneRestaurantPerOwner, Present,
            Exists
<1>3. CASE InsertOrder(w) /\ UNCHANGED rows
    BY <1>3, RowsUnchanged
<1> QED BY <1>1, <1>2, <1>3, RestaurantsRows, DishesRows, MenusRows DEF Step

-----------------------------------------------------------------------------
(* Files *)

FilesTyped ==
    /\ photo \in [Rows -> Photos \cup {None}]
    /\ storage \subseteq named /\ named \subseteq Photos /\ forsaken \subseteq Photos

FilesInv == FilesTyped /\ PhotoNames /\ \A x \in Rows : PhotoAnswered(x)

\* What a request knows of files.
SameFiles(f, g) == f.x = g.x /\ f.old = g.old /\ f.new = g.new

\* The other requests go on as they were.
OthersSame(w) == \A v \in Workers \ {w} : req'[v] = req[v]

\* A request that comes, goes, or goes on with the same files changes nothing to them,
\* as long as it has deleted none, or keeps on knowing which.
LEMMA FilesUnchanged ==
    ASSUME FilesInv, UNCHANGED files, NEW w \in Workers, OthersSame(w),
           \/ Arrived(req'[w]) /\ req[w] = Idle
           \/ req'[w] = Idle /\ Forsaken(req[w]) = {}
           \/ SameFiles(req'[w], req[w]) /\ Forsaken(req[w]) = {}
    PROVE  FilesInv'
<1>1. \A v \in Workers \ {w} : req'[v] = req[v]
    BY DEF OthersSame
<1>2. Idle.old = None /\ Idle.new = None /\ Forsaken(Idle) = {}
    BY IdleFrame DEF Idle
<1>3. PhotoNames'
    <2>1. CASE Arrived(req'[w]) /\ req[w] = Idle
        BY <1>1, <2>1 DEF FilesInv, PhotoNames, Arrived, files, Rows
    <2>2. CASE req'[w] = Idle
        BY <1>1, <1>2, <2>2 DEF FilesInv, PhotoNames, files, Rows
    <2>3. CASE SameFiles(req'[w], req[w])
        BY <1>1, <2>3 DEF FilesInv, PhotoNames, SameFiles, files, Rows
    <2> QED BY <2>1, <2>2, <2>3
<1>4. ASSUME NEW x \in Rows, photo[x] # None, photo[x] \notin storage \cup forsaken
      PROVE  \E v \in Workers : req'[v].x = x /\ photo[x] \in Forsaken(req'[v])
    <2>1. PICK v \in Workers : req[v].x = x /\ photo[x] \in Forsaken(req[v])
        BY <1>4 DEF FilesInv, PhotoAnswered
    <2>2. v # w
        BY <1>2, <2>1
    <2> QED BY <1>1, <2>1, <2>2
<1> QED BY <1>3, <1>4 DEF FilesInv, FilesTyped, PhotoAnswered, Forsaken, files

\* A request that fails leaves word of the file it deleted.
LEMMA FilesFailed ==
    ASSUME FilesInv, FramesOK, NEW w \in Workers, Fail(w)
    PROVE  FilesInv'
<1>1. /\ req'[w] = Idle /\ \A v \in Workers \ {w} : req'[v] = req[v]
      /\ forsaken' = forsaken \cup Forsaken(req[w])
      /\ UNCHANGED <<photo, storage, named>>
    BY ReturnStored DEF Fail
<1>2. Idle.old = None /\ Idle.new = None
    BY DEF Idle
<1>3. req[w] \in Frame
    BY DEF FramesOK
<1>4. Forsaken(req[w]) \subseteq Photos
    BY <1>3 DEF Forsaken, Frame
<1>5. PhotoNames'
    BY <1>1, <1>2 DEF FilesInv, PhotoNames, Rows
<1>6. ASSUME NEW x \in Rows, photo[x] # None, photo[x] \notin storage \cup forsaken'
      PROVE  \E v \in Workers : req'[v].x = x /\ photo[x] \in Forsaken(req'[v])
    <2>1. PICK v \in Workers : req[v].x = x /\ photo[x] \in Forsaken(req[v])
        BY <1>1, <1>6 DEF FilesInv, PhotoAnswered
    <2> QED BY <1>1, <1>6, <2>1
<1> QED BY <1>1, <1>4, <1>5, <1>6 DEF FilesInv, FilesTyped, PhotoAnswered, Forsaken

\* A request writes the file of its row, be it the one it uploaded or none.
LEMMA FilesWritten ==
    ASSUME FilesInv, FramesOK, NEW w \in Workers, Return(w),
           NEW p \in {None, req[w].new}, photo' = [photo EXCEPT ![req[w].x] = p],
           UNCHANGED <<storage, named, forsaken>>
    PROVE  FilesInv'
<1> DEFINE x == req[w].x
<1>1. req'[w] = Idle /\ \A v \in Workers \ {w} : req'[v] = req[v]
    BY ReturnStored
<1>2. Idle.old = None /\ Idle.new = None
    BY DEF Idle
<1>3. p \in Photos \cup {None}
    BY DEF FramesOK, Frame
<1>4. \A y \in Rows : photo'[y] = IF y = x THEN p ELSE photo[y]
    BY DEF FilesInv, FilesTyped
<1>5. FilesTyped'
    BY <1>3 DEF FilesInv, FilesTyped
<1>6. p # None =>
        /\ p \in named /\ p \in storage
        /\ \A y \in Rows : photo[y] # p
        /\ \A v \in Workers : req[v].old # p
        /\ \A v \in Workers \ {w} : req[v].new # p
    BY DEF FilesInv, FilesTyped, PhotoNames, Rows
<1>7. PhotoNames'
    <2>1. ASSUME NEW y \in Rows
          PROVE  /\ photo'[y] \in named \cup {None}
                 /\ \A z \in Rows : photo'[y] = photo'[z] /\ photo'[y] # None => y = z
        BY <1>4, <1>6 DEF FilesInv, PhotoNames, Rows
    <2>2. ASSUME NEW v \in Workers
          PROVE  /\ {req'[v].old, req'[v].new} \subseteq named \cup {None}
                 /\ \A y \in Rows : photo'[y] = req'[v].old /\ photo'[y] # None => y = req'[v].x
        BY <1>1, <1>2, <1>4, <1>6 DEF FilesInv, PhotoNames, Rows
    <2>3. ASSUME NEW v \in Workers, req'[v].new # None
          PROVE  /\ req'[v].new \in storage
                 /\ \A y \in Rows : photo'[y] # req'[v].new
                 /\ \A u \in Workers : req'[u].old # req'[v].new
                 /\ \A u \in Workers : req'[u].new = req'[v].new => u = v
        <3>1. v # w /\ req'[v] = req[v]
            BY <1>1, <1>2, <2>3
        <3>2. req[v].new # p
            BY <1>6, <2>3, <3>1
        <3> QED BY <1>1, <1>2, <1>4, <2>3, <3>1, <3>2 DEF FilesInv, PhotoNames, Rows
    <2> QED BY <2>1, <2>2, <2>3 DEF PhotoNames, Rows
<1>8. ASSUME NEW y \in Rows, photo'[y] # None, photo'[y] \notin storage \cup forsaken
      PROVE  \E v \in Workers : req'[v].x = y /\ photo'[y] \in Forsaken(req'[v])
    <2>1. y # x /\ photo'[y] = photo[y]
        BY <1>4, <1>6, <1>8
    <2>2. PICK v \in Workers : req[v].x = y /\ photo[y] \in Forsaken(req[v])
        BY <1>8, <2>1 DEF FilesInv, PhotoAnswered
    <2> QED BY <1>1, <2>1, <2>2
<1> QED BY <1>5, <1>7, <1>8 DEF FilesInv, PhotoAnswered, Forsaken

\* The storage gives a new file a name that nothing knows.
LEMMA FilesUploaded ==
    ASSUME FilesInv, FramesOK, NEW w \in Workers, Upload(w)
    PROVE  FilesInv' /\ FramesOK'
<1>1. PICK p \in Photos \ named :
        /\ storage' = storage \cup {p} /\ named' = named \cup {p}
        /\ req' = [req EXCEPT ![w].pc = req[w].write, ![w].new = p]
        /\ UNCHANGED <<photo, forsaken>>
    BY DEF Upload
<1>2. req[w] \in Frame /\ FrameOK(req[w]) /\ req[w].pc = "upload"
    BY DEF FramesOK, Upload
<1>3. req[w].write \in {"writePhoto", "insertDish", "insertRestaurant"} /\ req[w].x # None
    BY <1>2 DEF FrameOK, RowSteps
<1> DEFINE f == [req[w] EXCEPT !.pc = req[w].write, !.new = p]
<1>4. f \in Frame /\ req' = [req EXCEPT ![w] = f]
    BY <1>1, <1>2, <1>3 DEF FramesOK, Frame, Steps, RowSteps
<1>5. /\ f.pc = req[w].write /\ f.new = p /\ f.x = req[w].x /\ f.old = req[w].old
      /\ f.write = req[w].write
    BY <1>2 DEF Frame
<1>6. FrameOK(f)
    BY <1>2, <1>3, <1>5 DEF FrameOK, RowSteps, FileSteps, MenuSteps
<1> HIDE DEF f
<1>7. FramesOK' /\ req'[w] = f /\ \A v \in Workers \ {w} : req'[v] = req[v]
    BY <1>4, <1>6, FrameStored
<1>8. /\ \A v \in Workers : req[v].old # p /\ req[v].new # p
      /\ \A y \in Rows : photo[y] # p
      /\ p # None
    BY CatalogueAssumption DEF FilesInv, PhotoNames, Rows
<1>9. PhotoNames'
    <2>1. ASSUME NEW y \in Rows
          PROVE  /\ photo'[y] \in named' \cup {None}
                 /\ \A z \in Rows : photo'[y] = photo'[z] /\ photo'[y] # None => y = z
        BY <1>1 DEF FilesInv, PhotoNames, Rows
    <2>2. ASSUME NEW v \in Workers
          PROVE  /\ {req'[v].old, req'[v].new} \subseteq named' \cup {None}
                 /\ \A y \in Rows : photo'[y] = req'[v].old /\ photo'[y] # None => y = req'[v].x
        <3>1. /\ {req[v].old, req[v].new} \subseteq named \cup {None}
              /\ \A y \in Rows : photo[y] = req[v].old /\ photo[y] # None => y = req[v].x
            BY DEF FilesInv, PhotoNames, Rows
        <3>2. CASE v = w
            BY <1>1, <1>5, <1>7, <3>1, <3>2
        <3>3. CASE v # w
            BY <1>1, <1>7, <3>1, <3>3
        <3> QED BY <3>2, <3>3
    <2>3. ASSUME NEW v \in Workers, req'[v].new # None
          PROVE  /\ req'[v].new \in storage'
                 /\ \A y \in Rows : photo'[y] # req'[v].new
                 /\ \A u \in Workers : req'[u].old # req'[v].new
                 /\ \A u \in Workers : req'[u].new = req'[v].new => u = v
        <3>1. /\ req'[w].new = p /\ \A u \in Workers : req'[u].old = req[u].old
              /\ \A u \in Workers \ {w} : req'[u].new = req[u].new
              /\ p \in storage' /\ storage \subseteq storage' /\ photo' = photo
            BY <1>1, <1>5, <1>7
        <3>2. CASE v = w
            BY <1>8, <3>1, <3>2
        <3>3. CASE v # w
            <4>1. /\ req'[v] = req[v] /\ req[v].new \in storage /\ req[v].new # p
                  /\ \A y \in Rows : photo[y] # req[v].new
                  /\ \A u \in Workers : req[u].old # req[v].new
                  /\ \A u \in Workers : req[u].new = req[v].new => u = v
                BY <1>7, <1>8, <2>3, <3>3 DEF FilesInv, PhotoNames, Rows
            <4> QED BY <1>8, <3>1, <3>3, <4>1
        <3> QED BY <3>2, <3>3
    <2> QED BY <2>1, <2>2, <2>3 DEF PhotoNames, Rows
<1>10. ASSUME NEW y \in Rows, photo[y] # None, photo[y] \notin storage' \cup forsaken
       PROVE  \E v \in Workers : req'[v].x = y /\ photo[y] \in Forsaken(req'[v])
    <2>1. PICK v \in Workers : req[v].x = y /\ photo[y] \in Forsaken(req[v])
        BY <1>1, <1>10 DEF FilesInv, PhotoAnswered
    <2>2. Forsaken(req[w]) \subseteq Forsaken(f)
        BY <1>2, <1>3, <1>5 DEF Forsaken, FrameOK
    <2> QED BY <1>5, <1>7, <2>1, <2>2
<1>11. FilesTyped'
    BY <1>1 DEF FilesInv, FilesTyped
<1>12. \A y \in Rows : PhotoAnswered(y)'
    BY <1>1, <1>10 DEF PhotoAnswered, Forsaken
<1> QED BY <1>7, <1>9, <1>11, <1>12 DEF FilesInv

\* A file that is deleted is that of the row of whoever deletes it.
LEMMA FilesDeleted ==
    ASSUME FilesInv, FramesOK, NEW w \in Workers, DeleteFile(w)
    PROVE  FilesInv' /\ FramesOK'
<1>1. req[w] \in Frame /\ FrameOK(req[w]) /\ req[w].pc = "deleteFile"
    BY DEF FramesOK, DeleteFile
<1> DEFINE pc == IF req[w].write = "deleteDish" THEN "deleteDish" ELSE "upload"
           f == [req[w] EXCEPT !.pc = pc]
<1>2. /\ pc \in Steps /\ Goto(w, pc)
      /\ storage' \in {storage, storage \ {req[w].old}}
      /\ UNCHANGED <<photo, named, forsaken>>
    BY DEF DeleteFile, Steps, RowSteps
<1>3. req[w].write \in {"writePhoto", "deleteDish"} /\ req[w].x # None
    BY <1>1 DEF FrameOK, RowSteps
<1>4. /\ f.pc = pc /\ f.x = req[w].x /\ f.old = req[w].old /\ f.new = req[w].new
      /\ f.write = req[w].write
    BY <1>1 DEF Frame
<1>5. FrameOK(f)
    BY <1>1, <1>3, <1>4 DEF FrameOK, RowSteps, FileSteps, MenuSteps
<1>6. FramesOK' /\ req'[w] = f /\ \A v \in Workers \ {w} : req'[v] = req[v]
    BY <1>2, <1>5, GotoStored
<1> HIDE DEF f
<1>7. PhotoNames'
    <2>1. ASSUME NEW v \in Workers, req[v].new # None
          PROVE  req[v].new \in storage'
        BY <1>2, <2>1 DEF FilesInv, PhotoNames
    <2> QED BY <1>2, <1>4, <1>6, <2>1 DEF FilesInv, PhotoNames, Rows
<1>8. ASSUME NEW y \in Rows, photo[y] # None, photo[y] \notin storage' \cup forsaken
      PROVE  \E v \in Workers : req'[v].x = y /\ photo[y] \in Forsaken(req'[v])
    <2>1. CASE photo[y] = req[w].old
        <3>1. y = req[w].x
            BY <1>8, <2>1 DEF FilesInv, PhotoNames, Rows
        <3>2. photo[y] \in Forsaken(f)
            BY <1>4, <1>8, <2>1 DEF Forsaken
        <3> QED BY <1>4, <1>6, <3>1, <3>2
    <2>2. CASE photo[y] # req[w].old
        <3>1. PICK v \in Workers : req[v].x = y /\ photo[y] \in Forsaken(req[v])
            BY <1>2, <1>8, <2>2 DEF FilesInv, PhotoAnswered
        <3>2. v # w
            BY <1>1, <3>1 DEF Forsaken
        <3> QED BY <1>6, <3>1, <3>2
    <2> QED BY <2>1, <2>2
<1>9. FilesTyped' /\ photo' = photo
    BY <1>2 DEF FilesInv, FilesTyped
<1>10. \A y \in Rows : PhotoAnswered(y)'
    BY <1>2, <1>8 DEF PhotoAnswered, Forsaken
<1> QED BY <1>6, <1>7, <1>9, <1>10 DEF FilesInv

\* A request that ends without having deleted a file.
LEMMA FilesReturned ==
    ASSUME FilesInv, FramesOK, NEW w \in Workers, Return(w), UNCHANGED files,
           req[w].pc \notin FileSteps
    PROVE  FilesInv'
<1>1. req'[w] = Idle /\ OthersSame(w)
    BY ReturnStored DEF OthersSame
<1>2. Forsaken(req[w]) = {}
    BY DEF Forsaken, FileSteps
<1> QED BY <1>1, <1>2, FilesUnchanged

LEMMA StorageFiles ==
    ASSUME FilesInv, FramesOK, NEW w \in Workers, StorageStep(w) \/ Abort(w)
    PROVE  FilesInv' /\ FramesOK'
<1>1. CASE WritePhoto(w) /\ Return(w) /\ photo' = [photo EXCEPT ![req[w].x] = req[w].new]
           /\ UNCHANGED <<storage, named, forsaken>>
    BY <1>1, FilesWritten, ReturnStored
<1>2. CASE Fail(w)
    BY <1>2, FilesFailed, ReturnStored DEF Fail
<1> QED BY <1>1, <1>2, FilesDeleted, FilesUploaded DEF StorageStep, UploadRefused, WritePhoto, Abort

LEMMA RestaurantsFiles ==
    ASSUME FilesInv, FramesOK, NEW w \in Workers, RestaurantsStep(w)
    PROVE  FilesInv' /\ FramesOK'
<1>1. CASE InsertRestaurant(w) /\ Return(w) /\ photo' = [photo EXCEPT ![req[w].x] = req[w].new]
           /\ UNCHANGED <<storage, named, forsaken>>
    BY <1>1, FilesWritten, ReturnStored
<1>2. CASE Fail(w)
    BY <1>2, FilesFailed, ReturnStored DEF Fail
<1>3. CASE WriteRestaurant(w)
    BY <1>3, FilesReturned, ReturnStored DEF WriteRestaurant, FileSteps
<1> QED BY <1>1, <1>2, <1>3 DEF RestaurantsStep, InsertRestaurant, GeocodingRefused

LEMMA DishesFiles ==
    ASSUME FilesInv, FramesOK, NEW w \in Workers, DishesStep(w)
    PROVE  FilesInv' /\ FramesOK'
<1>1. CASE InsertDish(w)
    BY <1>1, FilesWritten, ReturnStored DEF InsertDish
<1>2. CASE WriteDish(w)
    BY <1>2, FilesReturned, ReturnStored DEF WriteDish, FileSteps
<1>3. CASE DeleteRow(w)
    BY <1>3, FilesWritten, ReturnStored DEF DeleteRow
<1>4. CASE Fail(w)
    BY <1>4, FilesFailed, ReturnStored DEF Fail
<1> QED BY <1>1, <1>2, <1>3, <1>4 DEF DishesStep, DeleteDish

LEMMA MenusFiles ==
    ASSUME FilesInv, FramesOK, menus \subseteq MenuRow, NEW w \in Workers, MenusStep(w)
    PROVE  FilesInv' /\ FramesOK'
<1>1. req[w] \in Frame /\ FrameOK(req[w])
    BY DEF FramesOK
<1>2. ASSUME NEW f \in Frame, req' = [req EXCEPT ![w] = f], SameFiles(f, req[w]),
             req[w].pc \in MenuSteps, f.pc \in MenuSteps, f.plan = req[w].plan, UNCHANGED files
      PROVE  FilesInv' /\ FramesOK'
    <2>1. FrameOK(f) /\ Forsaken(req[w]) = {}
        BY <1>1, <1>2 DEF FrameOK, SameFiles, MenuSteps, RowSteps, FileSteps, Forsaken
    <2>2. FramesOK' /\ req'[w] = f /\ OthersSame(w)
        BY <1>2, <2>1, FrameStored DEF OthersSame
    <2> QED BY <1>2, <2>1, <2>2, FilesUnchanged
<1>3. CASE DeleteMenus(w)
    <2> DEFINE found == MenusOf(req[w].x)
    <2>0. PICK pc \in {"waitMenus", "createMenus"} :
               pc = IF \E row \in found : Held(row) THEN "waitMenus" ELSE "createMenus"
        OBVIOUS
    <2> DEFINE f == [req[w] EXCEPT !.seen = found, !.pc = pc]
    <2>1. req' = [req EXCEPT ![w] = f] /\ UNCHANGED files /\ req[w].pc = "deleteMenus"
        BY <1>3, <2>0 DEF DeleteMenus, FramesOK
    <2>2. found \in SUBSET MenuRow
        BY DEF MenusOf
    <2> HIDE DEF found
    <2>3. [req[w] EXCEPT !.seen = found] \in Frame
        BY <1>1, <2>2 DEF Frame
    <2>4. f = [[req[w] EXCEPT !.seen = found] EXCEPT !.pc = pc] /\ pc \in Steps
        BY <1>1, <2>0 DEF Frame, Steps
    <2>5. f \in Frame
        BY <2>3, <2>4 DEF Frame
    <2>6. SameFiles(f, req[w]) /\ f.plan = req[w].plan /\ f.pc \in {"waitMenus", "createMenus"}
        BY <1>1 DEF Frame, SameFiles
    <2> HIDE DEF f
    <2> QED BY <1>2, <2>1, <2>5, <2>6 DEF MenuSteps
<1>4. CASE WaitMenus(w)
    <2> DEFINE f == [req[w] EXCEPT !.pc = "createMenus"]
    <2>1. req' = [req EXCEPT ![w] = f] /\ UNCHANGED files /\ req[w].pc = "waitMenus"
        BY <1>4 DEF WaitMenus, Goto, FramesOK
    <2>2. f \in Frame /\ SameFiles(f, req[w]) /\ f.plan = req[w].plan /\ f.pc = "createMenus"
        BY <1>1 DEF Frame, Steps, SameFiles
    <2> HIDE DEF f
    <2> QED BY <1>2, <2>1, <2>2 DEF MenuSteps
<1>5. CASE CreateMenus(w) /\ ReplaceMenus(w, menus \ req[w].seen)
    BY <1>5, FilesReturned, ReturnStored DEF CreateMenus, ReplaceMenus, FileSteps
<1>6. CASE WriteItem(w)
    BY <1>6, FilesReturned, ReturnStored DEF WriteItem, FileSteps
<1>7. CASE Fail(w)
    BY <1>7, FilesFailed, ReturnStored DEF Fail
<1> QED BY <1>3, <1>4, <1>5, <1>6, <1>7 DEF MenusStep, CreateMenus, Deadlock

LEMMA StepFiles ==
    ASSUME FilesInv, FramesOK, menus \subseteq MenuRow, NEW w \in Workers, Step(w) \/ Abort(w)
    PROVE  FilesInv' /\ FramesOK'
<1>1. CASE InsertOrder(w) /\ ~Fail(w)
    BY <1>1, FilesReturned, ReturnStored DEF InsertOrder, FileSteps
<1>2. CASE Fail(w)
    BY <1>2, FilesFailed, ReturnStored DEF Fail
<1> QED BY <1>1, <1>2, StorageFiles, RestaurantsFiles, DishesFiles, MenusFiles DEF Step

-----------------------------------------------------------------------------
(* All together *)

\* A step of a request in flight counts no arrival and no overlap.
LEMMA StepCounts ==
    ASSUME FramesOK, NEW w \in Workers, Step(w) \/ Abort(w)
    PROVE  UNCHANGED <<arrivals, overlapped>>
BY DEF Step, Abort, Fail, StorageStep, DeleteFile, Upload, UploadRefused, WritePhoto,
   RestaurantsStep, InsertRestaurant, GeocodingRefused, WriteRestaurant, DishesStep, InsertDish,
   WriteDish, DeleteDish, DeleteRow, MenusStep, DeleteMenus, WaitMenus, CreateMenus, ReplaceMenus,
   Deadlock, WriteItem, InsertOrder, Return, Goto

LEMMA InvParts ==
    CatalogueInv <=> /\ RowsInv /\ FilesInv /\ FramesOK
                     /\ arrivals \in Nat /\ overlapped \subseteq Restaurants
BY DEF CatalogueInv, TypeOK, RowsInv, RowsTyped, FilesInv, FilesTyped, FramesOK, Rows

LEMMA InvPartsNext ==
    CatalogueInv' <=> /\ RowsInv' /\ FilesInv' /\ FramesOK'
                      /\ arrivals' \in Nat /\ overlapped' \subseteq Restaurants
BY DEF CatalogueInv, TypeOK, RowsInv, RowsTyped, FilesInv, FilesTyped, FramesOK, Rows

LEMMA NextInv == CatalogueInv /\ [Next]_vars => CatalogueInv'
<1> SUFFICES ASSUME CatalogueInv, [Next]_vars PROVE CatalogueInv'
    OBVIOUS
<1>1. TypeOK /\ RowsInv /\ FilesInv /\ FramesOK /\ arrivals \in Nat /\ overlapped \subseteq Restaurants
    BY InvParts DEF CatalogueInv
<1>2. ASSUME NEW w \in Workers, Arrive(w) PROVE CatalogueInv'
    <2>1. PICK f : Arrived(f) /\ Begin(w, f)
        BY <1>1, <1>2, ArriveStored
    <2>2. /\ req' = [req EXCEPT ![w] = f] /\ req[w] = Idle
          /\ arrivals' = arrivals + 1 /\ UNCHANGED <<rows, files>>
          /\ overlapped' = overlapped \/ (overlapped' = overlapped \cup {f.x} /\ f.pc = "deleteMenus")
        BY <2>1 DEF Begin
    <2>3. FramesOK' /\ req'[w] = f /\ OthersSame(w)
        BY <1>1, <2>1, <2>2, FrameStored DEF Arrived, OthersSame
    <2>4. FilesInv'
        BY <1>1, <2>1, <2>2, <2>3, FilesUnchanged
    <2>5. RowsInv'
        BY <1>1, <2>2, RowsUnchanged
    <2>6. overlapped' \subseteq Restaurants
        BY <1>1, <2>1, <2>2 DEF Arrived, FrameOK, MenuSteps
    <2> QED BY <1>1, <2>2, <2>3, <2>4, <2>5, <2>6, InvPartsNext
<1>3. ASSUME NEW w \in Workers, Step(w) \/ Abort(w) PROVE CatalogueInv'
    <2>1. menus \subseteq MenuRow
        BY <1>1 DEF RowsInv, RowsTyped
    <2>2. RowsInv' /\ FilesInv' /\ FramesOK'
        BY <1>1, <1>3, <2>1, StepRows, StepFiles
    <2> QED BY <1>1, <1>3, <2>2, StepCounts, InvPartsNext
<1>4. CASE UNCHANGED vars
    BY <1>4 DEF vars, rows, files, CatalogueInv, TypeOK, MenuDishesOwned, OrderedDishKept,
       OneRestaurantPerOwner, PhotoNames, PhotoAnswered, Present, Exists
<1> QED BY <1>2, <1>3, <1>4 DEF Next

LEMMA InitInv == Init => CatalogueInv
<1> SUFFICES ASSUME Init PROVE CatalogueInv
    OBVIOUS
<1> USE DEF Init, CatalogueInit
<1>1. FramesOK
    BY IdleFrame DEF FramesOK
<1>2. ASSUME NEW r \in Restaurants, FirstWeek[r] # None
      PROVE  /\ FirstWeek[r] \in Plans /\ Founder[r] # None
             /\ NewMenus(r, Week(r), 0) \subseteq MenuRow
             /\ NewItems(r, Week(r), 0) \subseteq Item
             /\ \A i \in NewItems(r, Week(r), 0) : /\ i.menu \in NewMenus(r, Week(r), 0)
                                                   /\ i.menu.restaurant = r
                                                   /\ i.dish \in Served /\ Home[i.dish] = r
    <2>1. FirstWeek[r] \in Plans /\ Founder[r] # None /\ Week(r) = FirstWeek[r]
        BY <1>2, CatalogueAssumption DEF Week
    <2>2. \A day \in DOMAIN FirstWeek[r] : FirstWeek[r][day] \subseteq {d \in Served : Home[d] = r}
        BY <1>2, CatalogueAssumption
    <2> QED BY <2>1, <2>2, InsertedFacts
<1>3. ASSUME NEW r \in Restaurants, FirstWeek[r] = None
      PROVE  NewMenus(r, Week(r), 0) = {} /\ NewItems(r, Week(r), 0) = {}
    BY <1>3 DEF Week, NewMenus, NewItems
<1>4. RowsTyped
    <2>1. restaurant \in [Restaurants -> RestaurantRow] /\ dish \in [Dishes -> DishRow]
        BY CatalogueAssumption DEF RestaurantRow, DishRow
    <2>2. menus \subseteq MenuRow
        BY <1>2, <1>3
    <2>3. items \subseteq Item
        BY <1>2, <1>3
    <2> QED BY <2>1, <2>2, <2>3 DEF RowsTyped
<1>5. MenuDishesOwned
    <2> SUFFICES ASSUME NEW i \in items
                 PROVE  i.menu \in menus /\ Present(i.dish) /\ Home[i.dish] = i.menu.restaurant
        BY DEF MenuDishesOwned
    <2>1. PICK r \in Restaurants : i \in NewItems(r, Week(r), 0)
        OBVIOUS
    <2>2. FirstWeek[r] # None
        BY <1>3, <2>1
    <2>3. i.menu \in NewMenus(r, Week(r), 0) /\ i.dish \in Served /\ Home[i.dish] = i.menu.restaurant
        BY <1>2, <2>1, <2>2
    <2>4. i.dish \in Dishes
        BY <2>3, CatalogueAssumption
    <2> QED BY <2>3, <2>4 DEF Present
<1>6. OrderedDishKept /\ OneRestaurantPerOwner
    BY CatalogueAssumption DEF OrderedDishKept, OneRestaurantPerOwner, Exists
<1>7. FilesTyped /\ \A x \in Rows : PhotoAnswered(x)
    BY CatalogueAssumption DEF FilesTyped, PhotoAnswered, Rows
<1>8. PhotoNames
    BY CatalogueAssumption DEF PhotoNames, Idle
<1> QED BY <1>1, <1>4, <1>5, <1>6, <1>7, <1>8, InvParts DEF RowsInv, FilesInv

\* The inductive invariant of the catalogue: types, rows that refer to each other,
\* and whose a file is while requests replace it.
THEOREM CatalogueInvariant == Spec => []CatalogueInv
BY InitInv, NextInv, PTL DEF Spec

\* The tables, the files and the frames of every request hold values of their types.
THEOREM CatalogueTyped == Spec => []TypeOK
<1>1. CatalogueInv => TypeOK
    BY DEF CatalogueInv
<1> QED BY <1>1, CatalogueInvariant, PTL

\* Weekly menus that are replaced while dishes are removed show dishes of their
\* restaurant that are there, for any number of requests at once.
THEOREM MenusShowDishes == Spec => []MenuDishesOwned
<1>1. CatalogueInv => MenuDishesOwned
    BY DEF CatalogueInv
<1> QED BY <1>1, CatalogueInvariant, PTL

\* No interleaving of orders and removals deletes a dish that was ordered.
THEOREM OrderedDishesKept == Spec => []OrderedDishKept
<1>1. CatalogueInv => OrderedDishKept
    BY DEF CatalogueInv
<1> QED BY <1>1, CatalogueInvariant, PTL

\* However many restaurants an owner opens at once, he has one.
THEOREM OwnersHaveOne == Spec => []OneRestaurantPerOwner
<1>1. CatalogueInv => OneRestaurantPerOwner
    BY DEF CatalogueInv
<1> QED BY <1>1, CatalogueInvariant, PTL

\* Updates that race leave no row with a photo that another deleted: a row at rest
\* misses its photo only after a request failed that had deleted it.
THEOREM PhotosMissingExplained == Spec => []PhotoMissingOnlyAfterFailure
<1>1. CatalogueInv => PhotoMissingOnlyAfterFailure
    BY DEF CatalogueInv, PhotoMissingOnlyAfterFailure, PhotoAnswered, AtRest, Rows
<1> QED BY <1>1, CatalogueInvariant, PTL

-----------------------------------------------------------------------------
(* Weekly menus of one submission *)

\* The inductive invariant: as long as no two submissions for a restaurant overlap,
\* the one that is about to insert its rows has found all the others.
Submissions ==
    /\ \A w \in Workers : req[w].pc \in MenuSteps <=> req[w].by # 0
    /\ \A w, v \in Workers :
         {req[w].pc, req[v].pc} \subseteq MenuSteps /\ req[w].x = req[v].x
             => w = v \/ req[w].x \in overlapped
    /\ \A w \in Workers :
         req[w].pc \in {"waitMenus", "createMenus"} /\ req[w].x \notin overlapped
             => MenusOf(req[w].x) \subseteq req[w].seen

\* What a step does to weekly menus.
LEMMA StepMenus ==
    ASSUME FramesOK, NEW w \in Workers, Step(w) \/ Abort(w)
    PROVE  /\ OthersSame(w)
           /\ \/ req'[w] = Idle /\ menus' = menus
              \/ req[w].pc = "createMenus" /\ ReplaceMenus(w, menus \ req[w].seen)
              \/ DeleteMenus(w) \/ WaitMenus(w)
              \/ /\ {req[w].pc, req'[w].pc} \cap MenuSteps = {} /\ req'[w].by = req[w].by
                 /\ menus' = menus
<1> USE DEF OthersSame
<1>1. req[w] \in Frame /\ FrameOK(req[w])
    BY DEF FramesOK
<1>2. CASE Fail(w)
    BY <1>2, ReturnStored DEF Fail, rows
<1>3. CASE StorageStep(w)
    <2>1. CASE DeleteFile(w)
        BY <1>1, <2>1 DEF DeleteFile, Goto, FramesOK, Frame, rows, MenuSteps
    <2>2. CASE Upload(w)
        BY <1>1, <2>2 DEF Upload, FramesOK, Frame, FrameOK, rows, MenuSteps
    <2>3. CASE WritePhoto(w)
        BY <1>2, <2>3, ReturnStored DEF WritePhoto, rows
    <2> QED BY <1>2, <1>3, <2>1, <2>2, <2>3 DEF StorageStep, UploadRefused
<1>4. CASE RestaurantsStep(w)
    BY <1>2, <1>4, ReturnStored
       DEF RestaurantsStep, InsertRestaurant, GeocodingRefused, WriteRestaurant
<1>5. CASE DishesStep(w)
    BY <1>2, <1>5, ReturnStored DEF DishesStep, InsertDish, WriteDish, DeleteDish, DeleteRow
<1>6. CASE MenusStep(w)
    <2>1. CASE DeleteMenus(w)
        BY <1>1, <2>1 DEF DeleteMenus, FramesOK
    <2>2. CASE WaitMenus(w)
        BY <1>1, <2>2 DEF WaitMenus, Goto, FramesOK
    <2>3. CASE CreateMenus(w)
        BY <1>2, <2>3, ReturnStored DEF CreateMenus, ReplaceMenus
    <2>4. CASE WriteItem(w)
        BY <2>4, ReturnStored DEF WriteItem
    <2> QED BY <1>2, <1>6, <2>1, <2>2, <2>3, <2>4 DEF MenusStep, Deadlock
<1>7. CASE InsertOrder(w)
    BY <1>2, <1>7, ReturnStored DEF InsertOrder
<1> QED BY <1>2, <1>3, <1>4, <1>5, <1>6, <1>7 DEF Step, Abort

\* The commit of a weekly menu leaves its rows alone, if no other submission for
\* the restaurant overlapped.
LEMMA WeekReplaced ==
    ASSUME CatalogueInv, Submissions, WeekOfOneSubmission, UNCHANGED overlapped,
           NEW w \in Workers, OthersSame(w), req[w].pc = "createMenus",
           ReplaceMenus(w, menus \ req[w].seen)
    PROVE  Submissions' /\ WeekOfOneSubmission'
<1>1. /\ req[w] \in Frame /\ req[w].x \in Restaurants /\ req[w].plan \in Plans /\ req[w].by \in Nat
      /\ req'[w] = Idle
    BY DEF CatalogueInv, TypeOK, FrameOK, MenuSteps, Frame, ReplaceMenus, Return
<1>2. /\ menus' = (menus \ req[w].seen) \cup MenusInserted(req[w])
      /\ \A row \in MenusInserted(req[w]) : row.restaurant = req[w].x /\ row.by = req[w].by
    BY <1>1, InsertedFacts DEF ReplaceMenus, MenusInserted
<1>3. Idle.pc = "idle" /\ Idle.by = 0
    BY DEF Idle
<1>4. req[w].x \notin overlapped => \A row \in menus \ req[w].seen : row.restaurant # req[w].x
    BY DEF Submissions, MenusOf
<1>5. WeekOfOneSubmission'
    BY <1>2, <1>4 DEF WeekOfOneSubmission
<1>6. ASSUME NEW v \in Workers, req'[v].pc \in {"waitMenus", "createMenus"},
             req'[v].x \notin overlapped
      PROVE  {row \in menus' : row.restaurant = req'[v].x} \subseteq req'[v].seen
    <2>1. v # w /\ req'[v] = req[v]
        BY <1>1, <1>3, <1>6 DEF OthersSame
    <2>2. req[v].x # req[w].x
        BY <1>6, <2>1 DEF Submissions, MenuSteps
    <2> QED BY <1>2, <1>6, <2>1, <2>2 DEF Submissions, MenusOf
<1>7. \A v \in Workers : req'[v].pc \in MenuSteps => v # w
    BY <1>1, <1>3 DEF MenuSteps
<1>8. \A v \in Workers : req'[v].pc \in MenuSteps <=> req'[v].by # 0
    BY <1>1, <1>3 DEF Submissions, OthersSame, MenuSteps
<1>9. \A u, v \in Workers :
         {req'[u].pc, req'[v].pc} \subseteq MenuSteps /\ req'[u].x = req'[v].x
             => u = v \/ req'[u].x \in overlapped
    BY <1>7 DEF Submissions, OthersSame
<1> QED BY <1>5, <1>6, <1>8, <1>9 DEF Submissions, MenusOf

LEMMA NextWeek ==
    CatalogueInv /\ Submissions /\ WeekOfOneSubmission /\ [Next]_vars
        => Submissions' /\ WeekOfOneSubmission'
<1> SUFFICES ASSUME CatalogueInv, Submissions, WeekOfOneSubmission, [Next]_vars
             PROVE  Submissions' /\ WeekOfOneSubmission'
    OBVIOUS
<1>1. TypeOK /\ FramesOK /\ Idle.pc = "idle" /\ Idle.by = 0
    BY DEF CatalogueInv, TypeOK, FramesOK, Idle
<1>2. ASSUME NEW w \in Workers, Arrive(w) PROVE Submissions' /\ WeekOfOneSubmission'
    <2>1. PICK f : Arrived(f) /\ Begin(w, f)
        BY <1>1, <1>2, ArriveStored
    <2>2. /\ req'[w] = f /\ OthersSame(w) /\ menus' = menus
          /\ overlapped' = IF f.pc = "deleteMenus" /\ \E v \in Workers : req[v].by # 0 /\ req[v].x = f.x
                           THEN overlapped \cup {f.x} ELSE overlapped
        BY <1>1, <2>1 DEF Begin, OthersSame, FramesOK, rows
    <2>3. f.pc \in MenuSteps => \A v \in Workers \ {w} :
              req[v].pc \in MenuSteps /\ req[v].x = f.x => f.x \in overlapped'
        BY <2>1, <2>2 DEF Arrived, Submissions
    <2>4. overlapped \subseteq overlapped'
        BY <2>2
    <2> QED BY <2>1, <2>2, <2>3, <2>4
            DEF Arrived, OthersSame, Submissions, MenuSteps, MenusOf, WeekOfOneSubmission
<1>3. ASSUME NEW w \in Workers, Step(w) \/ Abort(w) PROVE Submissions' /\ WeekOfOneSubmission'
    <2>1. OthersSame(w) /\ UNCHANGED overlapped
        BY <1>1, <1>3, StepMenus, StepCounts
    <2>2. CASE req'[w] = Idle /\ menus' = menus
        BY <1>1, <2>1, <2>2 DEF OthersSame, Submissions, MenuSteps, MenusOf, WeekOfOneSubmission
    <2>3. CASE req[w].pc = "createMenus" /\ ReplaceMenus(w, menus \ req[w].seen)
        BY <2>1, <2>3, WeekReplaced
    <2>4. CASE DeleteMenus(w) \/ WaitMenus(w)
        <3>1. /\ {req[w].pc, req'[w].pc} \subseteq MenuSteps /\ menus' = menus
              /\ req'[w].x = req[w].x /\ req'[w].by = req[w].by
              /\ req'[w].seen = IF DeleteMenus(w) THEN MenusOf(req[w].x) ELSE req[w].seen
              /\ DeleteMenus(w) \/ req[w].pc = "waitMenus"
            BY <1>1, <2>4 DEF DeleteMenus, WaitMenus, Goto, FramesOK, MenuSteps, rows, Frame
        <3> QED BY <2>1, <3>1 DEF OthersSame, Submissions, MenusOf, WeekOfOneSubmission
    <2>5. CASE /\ {req[w].pc, req'[w].pc} \cap MenuSteps = {} /\ req'[w].by = req[w].by
               /\ menus' = menus
        BY <2>1, <2>5 DEF OthersSame, Submissions, MenuSteps, MenusOf, WeekOfOneSubmission
    <2> QED BY <1>1, <1>3, <2>2, <2>3, <2>4, <2>5, StepMenus
<1>4. CASE UNCHANGED vars
    BY <1>4 DEF vars, rows, Submissions, MenusOf, WeekOfOneSubmission
<1> QED BY <1>2, <1>3, <1>4 DEF Next

LEMMA InitWeek == Init => Submissions /\ WeekOfOneSubmission
<1> SUFFICES ASSUME Init PROVE Submissions /\ WeekOfOneSubmission
    OBVIOUS
<1>1. \A w \in Workers : req[w].pc = "idle" /\ req[w].by = 0
    BY DEF Init, CatalogueInit, Idle
<1>2. \A row \in menus : row.by = 0
    BY DEF Init, CatalogueInit, NewMenus
<1> QED BY <1>1, <1>2 DEF Submissions, MenuSteps, WeekOfOneSubmission

\* A weekly menu is that of one submission, rows of an earlier one are never left
\* among it, unless two submissions for the restaurant overlapped.
THEOREM WeeksReplaced == Spec => []WeekOfOneSubmission
<1>1. CatalogueInv /\ Submissions /\ WeekOfOneSubmission /\ [Next]_vars
          => (CatalogueInv /\ Submissions /\ WeekOfOneSubmission)'
    BY NextInv, NextWeek
<1> QED BY <1>1, InitInv, InitWeek, PTL DEF Spec

-----------------------------------------------------------------------------
(* Requests end *)

\* Steps that end a request whatever they find.
LastSteps == {"insertDish", "insertRestaurant", "writePhoto", "writeFlag", "deleteDish",
              "toggleOpen", "toggleVerified", "toggleItem", "createMenus", "insertOrder"}

\* StepsLeft, read step by step.
LEMMA StepsLeftAt ==
    ASSUME NEW f
    PROVE  /\ f.pc = "idle" => StepsLeft(f) = 0
           /\ f.pc \in {"upload", "waitMenus"} => StepsLeft(f) = 2
           /\ f.pc \in {"deleteFile", "deleteMenus"} => StepsLeft(f) = 3
           /\ f.pc \in LastSteps => StepsLeft(f) = 1
BY DEF StepsLeft, LastSteps

\* A step of a request ends it, or brings it from its files or its wait to a later step.
LEMMA StepForward ==
    ASSUME TypeOK, NEW w \in Workers, Step(w)
    PROVE  \/ req'[w] = Idle /\ req[w].pc \in LastSteps \cup {"upload"}
           \/ req[w].pc = "deleteFile" /\ req'[w].pc \in {"deleteDish", "upload"}
           \/ req[w].pc = "upload" /\ req'[w].pc \in LastSteps
           \/ req[w].pc = "deleteMenus" /\ req'[w].pc \in {"waitMenus", "createMenus"}
           \/ req[w].pc = "waitMenus" /\ req'[w].pc = "createMenus"
<1>1. req \in [Workers -> Frame] /\ FrameOK(req[w])
    BY DEF TypeOK
<1>2. ASSUME Return(w) \/ Fail(w) PROVE req'[w] = Idle
    BY <1>1, <1>2 DEF Return, Fail
<1>3. CASE StorageStep(w)
    <2>1. CASE DeleteFile(w)
        BY <1>1, <2>1 DEF DeleteFile, Goto, Frame
    <2>2. CASE Upload(w)
        BY <1>1, <2>2 DEF Upload, FrameOK, Frame, LastSteps
    <2>3. CASE UploadRefused(w) \/ WritePhoto(w)
        BY <1>2, <2>3 DEF UploadRefused, WritePhoto, LastSteps
    <2> QED BY <1>3, <2>1, <2>2, <2>3 DEF StorageStep
<1>4. CASE RestaurantsStep(w) \/ DishesStep(w) \/ InsertOrder(w)
    BY <1>2, <1>4 DEF RestaurantsStep, InsertRestaurant, GeocodingRefused, WriteRestaurant,
       DishesStep, InsertDish, WriteDish, DeleteDish, DeleteRow, InsertOrder, LastSteps
<1>5. CASE MenusStep(w)
    <2>1. CASE DeleteMenus(w) \/ WaitMenus(w)
        BY <1>1, <2>1 DEF DeleteMenus, WaitMenus, Goto, Frame
    <2>2. CASE CreateMenus(w) \/ Deadlock(w) \/ WriteItem(w)
        BY <1>2, <2>2 DEF CreateMenus, ReplaceMenus, Deadlock, WriteItem, LastSteps
    <2> QED BY <1>5, <2>1, <2>2 DEF MenusStep
<1> QED BY <1>3, <1>4, <1>5 DEF Step

\* Whatever the others delete, hold or roll back, every step of a request leaves it fewer:
\* once it is granted its locks it is over in three.
THEOREM RequestsRunOut == Spec => StepsRunOut
<1>1. ASSUME TypeOK, NEW w \in Workers, Step(w)
      PROVE  StepsLeft(req'[w]) \in 0 .. StepsLeft(req[w]) - 1
    <2>1. Idle.pc = "idle"
        BY DEF Idle
    <2> QED BY <1>1, <2>1, StepForward, StepsLeftAt DEF LastSteps
<1>2. TypeOK /\ [Next]_vars
          => [\A w \in Workers : Step(w) => StepsLeft(req'[w]) \in 0 .. StepsLeft(req[w]) - 1]_vars
    BY <1>1
<1> QED BY <1>2, CatalogueTyped, PTL DEF Spec, StepsRunOut

=============================================================================
