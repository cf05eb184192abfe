---------------------------- MODULE MCCatalogue ----------------------------
(* Values for the constants of Catalogue. *)
EXTENDS Catalogue, TLC

CONSTANTS a, b, r1, r2, r3, d1, d2, f0, mon, tue

\* One restaurant is there from the start, with one dish on sale; an owner without
\* one may open the other.
MCHome == d1 :> r1 @@ d2 :> r1
MCFounder == r1 :> a @@ r2 :> None @@ r3 :> None

\* The dish has a photo, and is on the menu.
MCFirstPhoto == d1 :> f0 @@ [x \in {r1, r2, r3, d2} |-> None]
MCFirstWeek == r1 :> (mon :> {d1}) @@ r2 :> None @@ r3 :> None

\* A week of one day, of the other, and of both.
MCPlans == {mon :> {d1}, tue :> {d1, d2}}

=============================================================================
