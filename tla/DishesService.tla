--------------------------- MODULE DishesService ---------------------------
(***************************************************************************)
(* DishesService: an owner adds dishes to his restaurant, changes them and *)
(* removes them.  A dish takes its menu items with it (onDelete: Cascade), *)
(* but cannot be deleted once an order refers to it.                       *)
(***************************************************************************)
EXTENDS CatalogueStore

\* Mutated form of Held: a transaction that waits holds what it has found, too.
HeldWaiting(row) ==
    \E w \in Workers : req[w].pc \in {"createMenus", "waitMenus"} /\ row \in req[w].seen

\* Menu rows that a transaction has deleted and not committed: PostgreSQL makes
\* whoever writes them, or items of theirs, wait.
Held(row) == \E w \in Workers : req[w].pc = "createMenus" /\ row \in req[w].seen

ItemsOf(d) == {i \in items : i.dish = d}

\* create: the restaurant is there; the id is new.
CreateDish(w, d, withPhoto) ==
    /\ Exists(Home[d])
    /\ dish[d].state = "ABSENT"
    /\ \A v \in Workers : req[v].x # d
    /\ Begin(w, InsertFrame(d, "insertDish", withPhoto))

InsertDish(w) ==
    /\ req[w].pc = "insertDish"
    /\ dish' = [dish EXCEPT ![req[w].x].state = "PRESENT"]
    /\ photo' = [photo EXCEPT ![req[w].x] = req[w].new]
    /\ Return(w)
    /\ UNCHANGED <<restaurant, menus, items, offered, orderItems, storage, named, forsaken, overlapped>>

\* update: with a photo, or of isAvailable.
UpdateDishPhoto(w, d) ==
    Present(d) /\ Begin(w, FileFrame(ReplaceFile(d), d, "writePhoto"))

UpdateDishAvailable(w, d, isAvailable) ==
    Present(d) /\ Begin(w, RowFrame("writeFlag", d, isAvailable))

\* The row is written, if it is still there.
WriteDish(w) ==
    /\ req[w].pc = "writeFlag" /\ req[w].x \in Dishes
    /\ dish' = IF Present(req[w].x)
               THEN [dish EXCEPT ![req[w].x].isAvailable = req[w].flag] ELSE dish
    /\ Return(w)
    /\ UNCHANGED <<restaurant, menus, items, offered, orderItems, files, overlapped>>

\* remove: the photo goes first ...
RemoveDish(w, d) ==
    /\ Present(d)
    /\ Begin(w, FileFrame(IF photo[d] = None THEN "deleteDish" ELSE "deleteFile", d, "deleteDish"))

DeleteRow(w) ==
    LET d == req[w].x
    IN  /\ dish' = [dish EXCEPT ![d].state = "DELETED"]
        /\ photo' = [photo EXCEPT ![d] = None]
        /\ items' = items \ ItemsOf(d)
        /\ offered' = offered \ ItemsOf(d)
        /\ Return(w)
        /\ UNCHANGED <<restaurant, menus, orderItems, storage, named, forsaken, overlapped>>

\* Mutated form of DeleteDish: order items do not keep the dish they refer to.
DeleteDishOrdered(w) ==
    /\ req[w].pc = "deleteDish"
    /\ \A i \in ItemsOf(req[w].x) : ~Held(i.menu)
    /\ IF Present(req[w].x) THEN DeleteRow(w) ELSE Fail(w)

\* ... then the row, with its menu items, unless an order refers to it.
DeleteDish(w) ==
    /\ req[w].pc = "deleteDish"
    /\ \A i \in ItemsOf(req[w].x) : ~Held(i.menu)
    /\ IF Present(req[w].x) /\ orderItems[req[w].x] = 0 THEN DeleteRow(w) ELSE Fail(w)

DishesBegin(w) ==
    \E d \in Dishes :
        \/ \E withPhoto \in BOOLEAN : CreateDish(w, d, withPhoto)
        \/ UpdateDishPhoto(w, d)
        \/ \E isAvailable \in BOOLEAN : UpdateDishAvailable(w, d, isAvailable)
        \/ RemoveDish(w, d)

DishesStep(w) == InsertDish(w) \/ WriteDish(w) \/ DeleteDish(w)

=============================================================================
