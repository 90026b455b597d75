----------------------------- MODULE BackOffice -----------------------------
(***************************************************************************)
(* The back office: the menu and the accounts.  They meet in the order     *)
(* history: placing adds to it, and a reset takes it away, which frees the *)
(* items that had been ordered.                                            *)
(***************************************************************************)
EXTENDS Menu, Accounts

vars == <<menuVars, accountsVars>>

Init == MenuInit /\ AccountsInit

(* insertOrder makes the order and its lines in one transaction.            *)
Placed == page.at # "placed" /\ page'.at = "placed"

(* restaurantReset.repository deletes the orders, and their lines go too.   *)
ResetClearsLines ==
    /\ IF page.at = "placed" THEN lines' = {} /\ page' = Away ELSE UNCHANGED pageVars
    /\ UNCHANGED <<used, parent, dish, had, job, torn, doubled, repriced, edits>>

Next ==
    \/ MenuNext /\ IF Placed THEN Trade ELSE UNCHANGED accountsVars
    \/ AccountsNext /\ IF orders' < orders THEN ResetClearsLines ELSE UNCHANGED menuVars

Spec == Init /\ [][Next]_vars

-----------------------------------------------------------------------------

(* Every variable of both has its type, and an order that was placed is in  *)
(* the history.                                                             *)
TypeOK == MenuTypeOK /\ AccountsTypeOK /\ (page.at = "placed" => orders > 0)
=============================================================================
