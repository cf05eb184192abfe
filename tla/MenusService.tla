---------------------------- MODULE MenusService ----------------------------
(***************************************************************************)
(* MenusService: an owner replaces the weekly menu of his restaurant in a  *)
(* transaction, and withdraws or offers one of its items.                  *)
(***************************************************************************)
EXTENDS DishesService

MenusOf(r) == {row \in menus : row.restaurant = r}

\* setWeeklyMenu: every dish of the plan is one of the restaurant's.
SetWeeklyMenu(w, r, plan) ==
    /\ Exists(r)
    /\ \A day \in DOMAIN plan : \A d \in plan[day] : Present(d) /\ Home[d] = r
    /\ Begin(w, [RowFrame("deleteMenus", r, FALSE) EXCEPT !.plan = plan, !.by = arrivals + 1])

\* The transaction deletes the rows its statement finds, and keeps them locked ...
DeleteMenus(w) ==
    /\ req[w].pc = "deleteMenus"
    /\ req' = [req EXCEPT ![w].seen = MenusOf(req[w].x),
                          ![w].pc = IF \E row \in MenusOf(req[w].x) : Held(row)
                                    THEN "waitMenus" ELSE "createMenus"]
    /\ UNCHANGED <<rows, files, overlapped, arrivals>>

\* Mutated form of WaitMenus: the rows are looked for again.
WaitMenusAgain(w) ==
    /\ req[w].pc = "waitMenus"
    /\ \A row \in req[w].seen : ~Held(row)
    /\ Goto(w, "deleteMenus")
    /\ UNCHANGED <<rows, files, overlapped>>

\* ... once another transaction that deleted some of them is over; the rows that
\* one has inserted are not among them.
WaitMenus(w) ==
    /\ req[w].pc = "waitMenus"
    /\ \A row \in req[w].seen : ~Held(row)
    /\ Goto(w, "createMenus")
    /\ UNCHANGED <<rows, files, overlapped>>

MenusInserted(f) == NewMenus(f.x, f.plan, f.by)

ItemsInserted(f) == NewItems(f.x, f.plan, f.by)

\* The transaction commits: the rows found are gone, with their items ...
ReplaceMenus(w, kept) ==
    /\ menus' = kept \cup MenusInserted(req[w])
    /\ items' = {i \in items : i.menu \in kept} \cup ItemsInserted(req[w])
    /\ offered' = {i \in offered : i.menu \in kept} \cup ItemsInserted(req[w])
    /\ Return(w)
    /\ UNCHANGED <<restaurant, dish, orderItems, files, overlapped>>

\* A row of a day is unique: with a row that is kept, the insert throws.
Clash(f, kept) == \E row \in kept, new \in MenusInserted(f) :
                      row.restaurant = new.restaurant /\ row.day = new.day

\* A dish of the plan was deleted since it was found.
DishGone(f) == \E i \in ItemsInserted(f) : ~Present(i.dish)

\* Mutated form of CreateMenus: only the days submitted are replaced.
CreateMenusOfPlan(w) ==
    /\ req[w].pc = "createMenus"
    /\ LET kept == {row \in menus : row \notin req[w].seen \/ row.day \notin DOMAIN req[w].plan}
       IN  IF Clash(req[w], kept) \/ DishGone(req[w])
           THEN Fail(w) ELSE ReplaceMenus(w, kept)

\* Mutated form of CreateMenus: items need no dish.
CreateMenusGone(w) ==
    /\ req[w].pc = "createMenus"
    /\ IF Clash(req[w], menus \ req[w].seen)
       THEN Fail(w) ELSE ReplaceMenus(w, menus \ req[w].seen)

\* ... and those of the plan are there; or the transaction is rolled back.
CreateMenus(w) ==
    /\ req[w].pc = "createMenus"
    /\ IF Clash(req[w], menus \ req[w].seen) \/ DishGone(req[w])
       THEN Fail(w) ELSE ReplaceMenus(w, menus \ req[w].seen)

\* A deletion of a dish that waits for the menu items deleted by a transaction
\* which is to insert that dish again: PostgreSQL ends one of the two.
Deadlock(w) ==
    /\ \E u, v \in Workers :
         /\ req[u].pc = "createMenus" /\ req[v].pc = "deleteDish"
         /\ \E i \in ItemsOf(req[v].x) : i.menu \in req[u].seen
         /\ \E i \in ItemsInserted(req[u]) : i.dish = req[v].x
         /\ w \in {u, v}
    /\ Fail(w)

\* toggleMenuItem reads the item ...
ToggleMenuItem(w, i) ==
    /\ i \in items
    /\ Begin(w, [Idle EXCEPT !.pc = "toggleItem", !.item = i, !.flag = i \notin offered])

\* Mutated form of WriteItem: an item that is gone is written.
WriteItemGone(w) ==
    /\ req[w].pc = "toggleItem"
    /\ ~Held(req[w].item.menu)
    /\ offered' = IF req[w].flag THEN offered \cup {req[w].item} ELSE offered \ {req[w].item}
    /\ Return(w)
    /\ UNCHANGED <<restaurant, dish, menus, items, orderItems, files, overlapped>>

\* ... and writes the opposite of what it read, if the item is still there.
WriteItem(w) ==
    /\ req[w].pc = "toggleItem"
    /\ ~Held(req[w].item.menu)
    /\ offered' = IF req[w].item \in items /\ req[w].flag
                  THEN offered \cup {req[w].item} ELSE offered \ {req[w].item}
    /\ Return(w)
    /\ UNCHANGED <<restaurant, dish, menus, items, orderItems, files, overlapped>>

MenusBegin(w) ==
    \/ \E r \in Restaurants, plan \in Plans : SetWeeklyMenu(w, r, plan)
    \/ \E i \in items : ToggleMenuItem(w, i)

MenusStep(w) == DeleteMenus(w) \/ WaitMenus(w) \/ CreateMenus(w) \/ Deadlock(w) \/ WriteItem(w)

=============================================================================
