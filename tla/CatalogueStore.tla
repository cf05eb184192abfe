--------------------------- MODULE CatalogueStore ---------------------------
(***************************************************************************)
(* What the catalogue shares: the rows of restaurants, dishes and weekly   *)
(* menus, the dishes orders refer to, and the photos in the storage.       *)
(* Requests are handlers suspended at an await, as in Store; each writes   *)
(* its row last, by one statement or by the commit of a transaction, and   *)
(* whatever it checked it checked before.                                  *)
(***************************************************************************)
EXTENDS Integers, FiniteSets

CONSTANTS
    Owners,         \* users who may own a restaurant
    Restaurants,    \* ids of restaurant rows
    Dishes,         \* ids of dish rows
    Home,           \* Home[d]: the restaurant dish d is created in
    Founder,        \* Founder[r]: who owns restaurant r from the start, or None
    Served,         \* dishes on sale from the start
    FirstPhoto,     \* FirstPhoto[x]: the file row x has at the start, or None
    FirstWeek,      \* FirstWeek[r]: the weekly menu restaurant r has at the start, or None
    Days,           \* days of the week
    Plans,          \* weekly menus that are submitted: the dishes of some days
    Photos,         \* names of files, never used twice (bound)
    Workers,        \* slots for requests in flight
    MaxRequests,    \* bound: requests that ever arrive
    Faulty,         \* whether requests may die between two awaits
    None            \* no value

ASSUME CatalogueAssumption ==
    /\ Home \in [Dishes -> Restaurants]
    /\ Founder \in [Restaurants -> Owners \cup {None}]
    /\ \A r, s \in Restaurants : Founder[r] = Founder[s] /\ Founder[r] # None => r = s
    /\ Served \subseteq {d \in Dishes : Founder[Home[d]] # None}
    /\ FirstPhoto \in [Restaurants \cup Dishes -> Photos \cup {None}]
    /\ \A x, y \in Restaurants \cup Dishes :
         FirstPhoto[x] = FirstPhoto[y] /\ FirstPhoto[x] # None => x = y
    /\ FirstWeek \in [Restaurants -> Plans \cup {None}]
    /\ \A r \in Restaurants : FirstWeek[r] # None =>
         /\ Founder[r] # None
         /\ \A day \in DOMAIN FirstWeek[r] :
              FirstWeek[r][day] \subseteq {d \in Served : Home[d] = r}
    /\ Plans \subseteq UNION {[D -> SUBSET Dishes] : D \in SUBSET Days}
    /\ MaxRequests \in Nat
    /\ Faulty \in BOOLEAN
    /\ None \notin Owners \cup Restaurants \cup Dishes \cup Photos \cup Plans
    /\ Restaurants \cap Dishes = {}

VARIABLES
    restaurant, \* table restaurants: owner (None: no row), isOpen, isVerified
    dish,       \* table dishes: state, isAvailable
    photo,      \* columns logoUrl of restaurants and photoUrl of dishes
    menus,      \* table menus: the rows of the weekly menus
    items,      \* table menu_items: a menu row and a dish
    offered,    \* the menu items that are available
    orderItems, \* table order_items: how many rows refer to a dish
    storage,    \* the files in the storage
    named,      \* the names that were given to files
    forsaken,   \* history: photos deleted by requests that then failed
    overlapped, \* history: restaurants two of whose weekly menus were submitted at once
    req,        \* requests in flight
    arrivals    \* requests that have arrived

rows == <<restaurant, dish, menus, items, offered, orderItems>>

files == <<photo, storage, named, forsaken>>

vars == <<rows, files, overlapped, req, arrivals>>

\* A weekly menu replaces its rows by new ones: by is the submission (0: none
\* here) that inserted a row, and tells it from the row of another submission.
MenuRow == [restaurant : Restaurants, day : Days, by : Nat]

Item == [menu : MenuRow, dish : Dishes]

RestaurantRow == [owner : Owners \cup {None}, isOpen : BOOLEAN, isVerified : BOOLEAN]

DishRow == [state : {"ABSENT", "PRESENT", "DELETED"}, isAvailable : BOOLEAN]

\* Steps of requests about one row, and all of them.
RowSteps == {"deleteFile", "upload", "insertDish", "insertRestaurant", "writePhoto",
             "writeFlag", "deleteDish", "toggleOpen", "toggleVerified"}

Steps == RowSteps \cup {"idle", "toggleItem", "deleteMenus", "waitMenus", "createMenus",
                        "insertOrder"}

Frame == [pc : Steps,
          x : Restaurants \cup Dishes \cup {None}, owner : Owners \cup {None},
          write : Steps,                      \* the step that writes row x
          old : Photos \cup {None},           \* file the row had when it was read
          new : Photos \cup {None},           \* file uploaded for it
          flag : BOOLEAN,                     \* value read, or to be written
          plan : Plans \cup {None}, by : Nat, \* weekly menu submitted
          seen : SUBSET MenuRow,              \* menu rows its delete statement found
          item : Item \cup {None},            \* menu item to toggle
          cart : SUBSET Dishes]               \* dishes to order

Idle == [pc |-> "idle", x |-> None, owner |-> None, write |-> "idle", old |-> None, new |-> None,
         flag |-> FALSE, plan |-> None, by |-> 0, seen |-> {}, item |-> None, cart |-> {}]

\* A request that writes row x by one statement ...
RowFrame(pc, x, flag) == [Idle EXCEPT !.pc = pc, !.x = x, !.write = pc, !.flag = flag]

\* ... one that inserts row x, after the upload of its file if there is one ...
InsertFrame(x, write, withFile) ==
    [Idle EXCEPT !.pc = IF withFile THEN "upload" ELSE write, !.x = x, !.write = write]

\* ... and one that first replaces the file of the row it has read, or removes it.
FileFrame(pc, x, write) ==
    [Idle EXCEPT !.pc = pc, !.x = x, !.write = write, !.old = photo[x]]

\* The menu rows of a submission, and their items.
NewMenus(r, plan, by) == {[restaurant |-> r, day |-> day, by |-> by] : day \in DOMAIN plan}

NewItems(r, plan, by) ==
    UNION {{[menu |-> row, dish |-> d] : d \in plan[row.day]} : row \in NewMenus(r, plan, by)}

Week(r) == IF FirstWeek[r] = None THEN <<>> ELSE FirstWeek[r]

CatalogueInit ==
    /\ restaurant = [r \in Restaurants |->
                      [owner |-> Founder[r], isOpen |-> TRUE, isVerified |-> FALSE]]
    /\ dish = [d \in Dishes |-> [state |-> IF d \in Served THEN "PRESENT" ELSE "ABSENT",
                                 isAvailable |-> TRUE]]
    /\ photo = FirstPhoto
    /\ menus = UNION {NewMenus(r, Week(r), 0) : r \in Restaurants}
    /\ items = UNION {NewItems(r, Week(r), 0) : r \in Restaurants}
    /\ offered = items
    /\ orderItems = [d \in Dishes |-> 0]
    /\ storage = {FirstPhoto[x] : x \in Restaurants \cup Dishes} \ {None} /\ named = storage
    /\ forsaken = {} /\ overlapped = {}
    /\ req = [w \in Workers |-> Idle]
    /\ arrivals = 0

-----------------------------------------------------------------------------
(* Requests *)

Begin(w, f) ==
    /\ req[w] = Idle
    /\ arrivals < MaxRequests
    /\ arrivals' = arrivals + 1
    /\ req' = [req EXCEPT ![w] = f]
    /\ overlapped' = IF f.pc = "deleteMenus" /\ \E v \in Workers : req[v].by # 0 /\ req[v].x = f.x
                     THEN overlapped \cup {f.x} ELSE overlapped
    /\ UNCHANGED <<rows, files>>

Goto(w, pc) ==
    /\ req' = [req EXCEPT ![w].pc = pc]
    /\ UNCHANGED arrivals

Return(w) ==
    /\ req' = [req EXCEPT ![w] = Idle]
    /\ UNCHANGED arrivals

Exists(r) == restaurant[r].owner # None

Present(d) == dish[d].state = "PRESENT"

-----------------------------------------------------------------------------
(* StorageService: the file of a row is replaced or removed *)

\* The file the request has deleted, while its row still refers to it.
Forsaken(f) ==
    IF f.pc \in {"upload", "writePhoto", "deleteDish"} /\ f.old # None THEN {f.old} ELSE {}

\* The request in slot w throws or dies: what it wrote stays, what it deleted is gone.
Fail(w) ==
    /\ forsaken' = forsaken \cup Forsaken(req[w])
    /\ Return(w)
    /\ UNCHANGED <<rows, photo, storage, named, overlapped>>

Abort(w) == Faulty /\ req[w] # Idle /\ Fail(w)

\* delete: what the storage answers is not looked at, so that the file may stay.
DeleteFile(w) ==
    /\ req[w].pc = "deleteFile"
    /\ storage' \in {storage, storage \ {req[w].old}}
    /\ Goto(w, IF req[w].write = "deleteDish" THEN "deleteDish" ELSE "upload")
    /\ UNCHANGED <<rows, photo, named, forsaken, overlapped>>

\* upload: under a name of its own ...
Upload(w) ==
    /\ req[w].pc = "upload"
    /\ \E p \in Photos \ named :
         /\ storage' = storage \cup {p}
         /\ named' = named \cup {p}
         /\ req' = [req EXCEPT ![w].pc = req[w].write, ![w].new = p]
    /\ UNCHANGED <<rows, photo, forsaken, overlapped, arrivals>>

\* ... or not at all: a file that is neither jpg, png nor webp is refused.
UploadRefused(w) == req[w].pc = "upload" /\ Fail(w)

\* The first step of an update with a file: the old one goes first.
ReplaceFile(x) == IF photo[x] = None THEN "upload" ELSE "deleteFile"

\* Mutated form of WritePhoto: the new name is not written.
WritePhotoForgotten(w) ==
    /\ req[w].pc = "writePhoto"
    /\ Return(w)
    /\ UNCHANGED <<rows, files, overlapped>>

\* update with a file writes the new name, if the row is still there.
WritePhoto(w) ==
    /\ req[w].pc = "writePhoto"
    /\ IF req[w].x \in Dishes => Present(req[w].x)
       THEN /\ photo' = [photo EXCEPT ![req[w].x] = req[w].new]
            /\ Return(w)
            /\ UNCHANGED <<rows, storage, named, forsaken, overlapped>>
       ELSE Fail(w)

StorageStep(w) == DeleteFile(w) \/ Upload(w) \/ UploadRefused(w) \/ WritePhoto(w)

=============================================================================
