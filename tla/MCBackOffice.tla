---------------------------- MODULE MCBackOffice ----------------------------
(* BackOffice on a small instance for TLC.                                  *)
EXTENDS BackOffice, TLC

CONSTANTS c1, c2, c3, m1, m2, e1, e2, h1, h2, n1, a1, a2, t1, op, right, wrong

(* Bounds: which part of the back office is at work is chosen at first.     *)
(* With categories, there is one price, at most one item to begin with and  *)
(* a second one from an import only; items are not edited unless by an      *)
(* import, the page is only loaded, with at most one request under way,     *)
(* and one regrouping is under way at a time, of at most two categories and *)
(* with at most one new main one; nothing follows once a third level has    *)
(* been made.  With items, there is one category, no import and no change   *)
(* of mode or staff, and an order once placed may be reset.  With accounts, *)
(* the menu is empty.                                                       *)
VARIABLE part

CategoriesInit ==
    /\ DOMAIN role = Staff /\ Admins = Staff /\ orders = 0 /\ mode = "live"
    /\ Cardinality(DOMAIN dish) <= 1 /\ \A i \in DOMAIN dish : dish[i].price = 1
Regrouping == {e \in Editor : job'[e].at = "regroup"}
CategoriesOnly ==
    /\ \A i \in DOMAIN dish' : dish'[i].price = 1 /\ dish'[i].open
    /\ m2 \in DOMAIN dish' => \E i \in DOMAIN dish' : dish'[i].listed # None
    /\ Cardinality(Regrouping) <= 1 /\ \A e \in Regrouping : Cardinality(job'[e].new) <= 1
    /\ page.at = "away" /\ dish' # dish => parent' # parent
    /\ page'.at # "away" => Cardinality({e \in Editor : job'[e] # Idle}) <= 1
    /\ \A e \in Regrouping : Cardinality(DOMAIN job'[e].plan) <= 2

ItemsInit ==
    /\ DOMAIN role = Staff /\ Admins = Staff /\ orders = 0 /\ mode = "test"
    /\ Cardinality(DOMAIN parent) = 1
ItemsOnly ==
    /\ UNCHANGED <<parent, job, role, staffTab, clock, mode>>
    /\ page.at # "placed" => UNCHANGED <<at, opTab, sent>>
    /\ \A t \in Tab : sent'[t].kind # "view"

MCInit ==
    /\ Init
    /\ \/ part = "categories" /\ CategoriesInit
       \/ part = "items" /\ ItemsInit
       \/ part = "accounts" /\ DOMAIN parent = {} /\ orders = 1 /\ mode = "test"

MCNext ==
    /\ \/ part = "categories" /\ ~torn /\ page.at # "open"
          /\ (IF edits < MaxEdits THEN MenuNext ELSE PageNext) /\ UNCHANGED accountsVars
          /\ CategoriesOnly
       \/ part = "items" /\ Next /\ ItemsOnly
       \/ part = "accounts" /\ AccountsNext /\ UNCHANGED menuVars
    /\ UNCHANGED part

MCSpec == MCInit /\ [][MCNext]_<<vars, part>>

Symmetry ==
    Permutations(Category) \union Permutations(Editor) \union Permutations(Heading) \union Permutations(Staff)
=============================================================================
