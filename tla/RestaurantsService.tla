------------------------- MODULE RestaurantsService -------------------------
(***************************************************************************)
(* RestaurantsService, and the toggles of AdminService on the same rows:   *)
(* an owner opens one restaurant, with a logo, and may close it; so may an *)
(* administrator, who also verifies it.                                    *)
(***************************************************************************)
EXTENDS CatalogueStore

\* create: the owner has no restaurant yet; the id is new.
CreateRestaurant(w, r, owner, withLogo) ==
    /\ \A s \in Restaurants : restaurant[s].owner # owner
    /\ ~Exists(r)
    /\ \A v \in Workers : req[v].x # r
    /\ Begin(w, [InsertFrame(r, "insertRestaurant", withLogo) EXCEPT !.owner = owner])

\* Mutated form of InsertRestaurant: ownerId is not unique.
InsertRestaurantAgain(w) ==
    /\ req[w].pc = "insertRestaurant"
    /\ restaurant' = [restaurant EXCEPT ![req[w].x].owner = req[w].owner]
    /\ photo' = [photo EXCEPT ![req[w].x] = req[w].new]
    /\ Return(w)
    /\ UNCHANGED <<dish, menus, items, offered, orderItems, storage, named, forsaken, overlapped>>

\* The row is inserted; ownerId is unique, a second insert throws.
InsertRestaurant(w) ==
    /\ req[w].pc = "insertRestaurant"
    /\ IF \A s \in Restaurants : restaurant[s].owner # req[w].owner
       THEN /\ restaurant' = [restaurant EXCEPT ![req[w].x].owner = req[w].owner]
            /\ photo' = [photo EXCEPT ![req[w].x] = req[w].new]
            /\ Return(w)
            /\ UNCHANGED <<dish, menus, items, offered, orderItems, storage, named, forsaken, overlapped>>
       ELSE Fail(w)

\* create, once the logo is there: an address that cannot be located is refused.
GeocodingRefused(w) == req[w].pc = "insertRestaurant" /\ Fail(w)

\* update: with a logo, or of isOpen.
UpdateRestaurantLogo(w, r) ==
    Exists(r) /\ Begin(w, FileFrame(ReplaceFile(r), r, "writePhoto"))

UpdateRestaurantOpen(w, r, isOpen) == Exists(r) /\ Begin(w, RowFrame("writeFlag", r, isOpen))

\* AdminService.toggleRestaurantActive, toggleVerifyRestaurant: the row is read ...
ToggleRestaurantActive(w, r) ==
    Exists(r) /\ Begin(w, RowFrame("toggleOpen", r, ~restaurant[r].isOpen))

ToggleVerifyRestaurant(w, r) ==
    Exists(r) /\ Begin(w, RowFrame("toggleVerified", r, ~restaurant[r].isVerified))

\* ... and the opposite of what was read is written.
WriteRestaurant(w) ==
    /\ \/ /\ req[w].pc = "toggleOpen" \/ (req[w].pc = "writeFlag" /\ req[w].x \in Restaurants)
          /\ restaurant' = [restaurant EXCEPT ![req[w].x].isOpen = req[w].flag]
       \/ /\ req[w].pc = "toggleVerified"
          /\ restaurant' = [restaurant EXCEPT ![req[w].x].isVerified = req[w].flag]
    /\ Return(w)
    /\ UNCHANGED <<dish, menus, items, offered, orderItems, files, overlapped>>

RestaurantsBegin(w) ==
    \E r \in Restaurants :
        \/ \E owner \in Owners, withLogo \in BOOLEAN : CreateRestaurant(w, r, owner, withLogo)
        \/ UpdateRestaurantLogo(w, r)
        \/ \E isOpen \in BOOLEAN : UpdateRestaurantOpen(w, r, isOpen)
        \/ ToggleRestaurantActive(w, r)
        \/ ToggleVerifyRestaurant(w, r)

RestaurantsStep(w) == InsertRestaurant(w) \/ GeocodingRefused(w) \/ WriteRestaurant(w)

=============================================================================
