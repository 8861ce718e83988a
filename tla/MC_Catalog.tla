---------------------------- MODULE MC_Catalog -----------------------------
(***************************************************************************)
(* TLC instance of Featured with Creation, catalog.cfg: a database on its  *)
(* own instance, a second one on that instance, and one asked for by a     *)
(* title, whose instance has the hostname of the first; edits of a list    *)
(* of two databases and a third.                                           *)
(***************************************************************************)
EXTENDS Featured
CONSTANTS w1, w2, p, q, z

MCCleaned == "C" :> "c"

Ask(org, db, instance) == [org |-> org, db |-> db, instance |-> instance]
MCAsked == {Ask(<<"a">>, <<"b", "c">>, Nobody), Ask(<<"a">>, <<"d">>, <<"b", "c">>),
            Ask(<<"a", "b">>, <<"C">>, Nobody)}

Edit(edit, db, at) == [edit |-> edit, db |-> db, at |-> at]
MCEdits == {Edit("add", p, 0), Edit("add", q, 2), Edit("add", z, 1), Edit("remove", p, 0)}
MCListed == {<<p, q>>}

\* The workers are alike.
MCSymmetry == Permutations({w1, w2})
=============================================================================
