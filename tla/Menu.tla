-------------------------------- MODULE Menu --------------------------------
(***************************************************************************)
(* The menu: its categories, two levels deep, and its items; the admin's   *)
(* menu pages that edit them from what they loaded earlier; the bulk        *)
(* import and the regrouping that an operator runs; and the customer's     *)
(* ordering page with its cart.                                            *)
(*   src/src/modules/admin/menuCategories.service.ts and admin.repository, *)
(*   src/src/modules/menu/, src/scripts/import-price-list.ts,              *)
(*   src/frontend/src/pages/admin/AdminMenuTab.tsx,                        *)
(*   src/frontend/src/components/MenuBrowser.tsx, pages/customer/OrderPage. *)
(* Each statement of a request is a step, because none of the checks locks *)
(* what it has read; a transaction writes in one step, when it commits.    *)
(* Foreign keys and CHECK constraints are part of the statement that they  *)
(* guard.                                                                  *)
(***************************************************************************)
EXTENDS Integers, FiniteSets, FiniteSetsExt

CONSTANTS
    Category, Item,  \* ids, of which some are still free
    Editor,          \* admin tabs and operator's scripts, one request each
    Price,
    None,            \* no parent, no category, not from a list
    Row,             \* numbers of the rows of a price list
    Heading, Name,   \* its headings, and names of products, as compared
    MaxEdits         \* bound: statements that change the menu

ASSUME MenuAssumption ==
    /\ None \notin Category \union Item \union (Heading \X Name)
    /\ Row \subseteq Nat /\ Price \subseteq Nat \ {0} /\ MaxEdits \in Nat

VARIABLES
    used,    \* ids in use or used before: ids do not come back
    parent,  \* category that exists -> parent_id
    dish,    \* item that exists -> its row
    had,     \* every tree so far: an admin's open page shows one of them
    job,     \* editor -> its request
    page,    \* the customer's page
    lines,   \* order_item rows of the customer's order: item and unit_price
    torn,    \* history: a third level was made by a request that another edit
             \* had overtaken after its checks, or by a regrouping
    doubled, \* history: two imports overlapped
    repriced,\* history: the price of an item changed while the page was open
    edits

menuVars == <<used, parent, dish, had, job, page, lines, torn, doubled, repriced, edits>>
pageVars == <<page, lines>>

Exists(c) == c \in DOMAIN parent
OnMenu(i) == i \in DOMAIN dish

Without(f, x) == [y \in DOMAIN f \ {x} |-> f[y]]
With(f, x, v) == [y \in DOMAIN f \union {x} |-> IF y = x THEN v ELSE f[y]]

NewDish(c, p, product) == [in |-> c, price |-> p, open |-> TRUE, listed |-> product]

-----------------------------------------------------------------------------
(* What the pages make of the menu *)

Mains(tree) == {c \in DOMAIN tree : tree[c] = None}
SubsOf(tree, c) == {s \in DOMAIN tree : tree[s] = c}

(* The admin's form offers the main categories that it knows of.            *)
ParentOptions(tree, c) == Mains(tree) \ {c}

(* Mains, and under each its subs: a category below that is shown nowhere.  *)
Grouped(tree) == UNION {{main} \union SubsOf(tree, main) : main \in Mains(tree)}

(* The customer's tabs: the same tree, without what is empty.  What is not  *)
(* on them can still be found by its name.                                  *)
Browsed(tree, rows) == {i \in DOMAIN rows : rows[i].in \in Grouped(tree)}

(* What an order is placed against: the rows of the moment, never what the  *)
(* customer sent.                                                           *)
Found(cart) == [i \in cart \intersect DOMAIN dish |-> dish[i]]

-----------------------------------------------------------------------------
(* The server's checks *)

(* Mutant: it only asks whether the parent is there.                        *)
AnyParent(p, c) == Exists(p)
UsableParent(p, c) == Exists(p) /\ p # c /\ parent[p] = None

Childless(c) == SubsOf(parent, c) = {}

(* Mutant: it does not look whether the menu is empty.                      *)
LoadAnyway == TRUE
MenuIsEmpty == DOMAIN dish = {}

(* The importer takes a row with a price (0 stands for none, for what is no *)
(* number, and for what is not above zero) unless an earlier row it has     *)
(* taken has the same name under the same heading.                          *)
Sheets == [Row -> [under: Heading, name: Name, price: Price \union {0}]]
Product(row) == <<row.under, row.name>>
KeptRows(sheet) ==
    {r \in Row : /\ sheet[r].price > 0
                 /\ \A q \in Row : q < r /\ sheet[q].price > 0 => Product(sheet[q]) # Product(sheet[r])}

TwoDeep(tree) == \A c \in DOMAIN tree : tree[c] # None => tree[tree[c]] = None

-----------------------------------------------------------------------------

Idle == [at |-> "idle", cat |-> None, to |-> None, mixed |-> FALSE, plan |-> <<>>, new |-> {}]

Away == [at |-> "away", tree |-> <<>>, seen |-> <<>>, shown |-> <<>>, cart |-> {}]

MenuInit ==
    /\ \E tops \in SUBSET Category :
          /\ parent \in [tops -> tops \union {None}]
          /\ TwoDeep(parent)
          /\ dish \in UNION {[here -> [in : tops, price : Price, open : {TRUE}, listed : {None}]] : here \in SUBSET Item}
          /\ used = tops \union DOMAIN dish
    /\ had = {parent}
    /\ job = [e \in Editor |-> Idle]
    /\ page = Away
    /\ lines = {} /\ torn = FALSE /\ doubled = FALSE /\ repriced = {}
    /\ edits = 0

(* Every statement that changes categories or items.                        *)
Edits == edits < MaxEdits /\ edits' = edits + 1
Changed(e, at) == [x \in Editor |-> IF x = e THEN Idle ELSE
                                    IF job[x].at \in at THEN [job[x] EXCEPT !.mixed = TRUE] ELSE job[x]]

(* A page loads the menu when it is opened and after each of its own edits; *)
(* until then it goes on with the tree of that moment.                      *)
LoadMenu == had' = had \union {parent'}

(* A category edit commits: the requests that have already checked go on    *)
(* with what they found.                                                    *)
Checked == {"children", "create", "move"}
TreeEdit(e) ==
    /\ Edits
    /\ job' = Changed(e, Checked)
    /\ LoadMenu
    /\ UNCHANGED <<dish, pageVars, doubled, repriced>>

-----------------------------------------------------------------------------
(* The admin's categories *)

Ask(e, at, c, p) ==
    /\ job[e].at = "idle"
    /\ job' = [job EXCEPT ![e] = [Idle EXCEPT !.at = at, !.cat = c, !.to = p]]
    /\ UNCHANGED <<used, parent, dish, had, pageVars, torn, doubled, repriced, edits>>

AddCategory(e) ==
    \E tree \in had : \E p \in ParentOptions(tree, None) \union {None} :
        Ask(e, IF p = None THEN "create" ELSE "parentNew", None, p)

(* The dialog always sends a parent: as it was loaded when only the name    *)
(* has been edited.                                                         *)
SaveCategory(e) ==
    \E tree \in had : \E c \in DOMAIN tree : \E p \in ParentOptions(tree, c) \union {None, tree[c]} :
        Ask(e, IF p = None THEN "move" ELSE "parentOld", c, p)

Refuse(e) == job' = [job EXCEPT ![e] = Idle]

AssertUsableParent(e) ==
    /\ job[e].at \in {"parentNew", "parentOld"}
    /\ IF UsableParent(job[e].to, job[e].cat)
         THEN job' = [job EXCEPT ![e].at = IF @ = "parentNew" THEN "create" ELSE "children"]
         ELSE Refuse(e)
    /\ UNCHANGED <<used, parent, dish, had, pageVars, torn, doubled, repriced, edits>>

CountChildren(e) ==
    /\ job[e].at = "children"
    /\ IF Childless(job[e].cat) THEN job' = [job EXCEPT ![e].at = "move"] ELSE Refuse(e)
    /\ UNCHANGED <<used, parent, dish, had, pageVars, torn, doubled, repriced, edits>>

MayPoint(p) == p = None \/ Exists(p)

(* Whether an overtaken request, or a regrouping, makes a third level.      *)
Tears(blamed) == torn' = (torn \/ (blamed /\ ~TwoDeep(parent')))

InsertCategory(e) ==
    /\ job[e].at = "create" /\ MayPoint(job[e].to)
    /\ \E c \in Category \ used :
          /\ parent' = With(parent, c, job[e].to)
          /\ used' = used \union {c}
    /\ Tears(job[e].mixed)
    /\ TreeEdit(e)

UpdateCategory(e) ==
    /\ job[e].at = "move" /\ Exists(job[e].cat) /\ MayPoint(job[e].to) /\ job[e].to # job[e].cat
    /\ parent' = [parent EXCEPT ![job[e].cat] = job[e].to]
    /\ Tears(job[e].mixed)
    /\ UNCHANGED used
    /\ TreeEdit(e)

(* The row to change, or the one it refers to, has gone.  A regrouping also *)
(* rolls everything back when one of the names it was given is not there.   *)
StatementFails(e) ==
    /\ \/ job[e].at \in {"create", "move"} /\ ~MayPoint(job[e].to)
       \/ job[e].at = "move" /\ ~Exists(job[e].cat)
       \/ job[e].at = "regroup"
    /\ Refuse(e)
    /\ UNCHANGED <<used, parent, dish, had, pageVars, torn, doubled, repriced, edits>>

(* ON DELETE RESTRICT, from sub-categories and from items.                  *)
DeleteCategory(c) ==
    /\ Exists(c) /\ Childless(c) /\ \A i \in DOMAIN dish : dish[i].in # c
    /\ parent' = Without(parent, c)
    /\ UNCHANGED <<used, torn>>
    /\ TreeEdit(None)

-----------------------------------------------------------------------------
(* The operator's scripts *)

ImportCount(e) ==
    /\ job[e].at = "idle" /\ MenuIsEmpty
    /\ job' = [job EXCEPT ![e] = [Idle EXCEPT !.at = "import"]]
    /\ UNCHANGED <<used, parent, dish, had, pageVars, torn, doubled, repriced, edits>>

(* One transaction: a new category for each heading, with its rows.         *)
ImportWrite(e) ==
    /\ job[e].at = "import" /\ Edits
    /\ \E sheet \in Sheets :
          LET kept == KeptRows(sheet)
              heads == {sheet[r].under : r \in kept} IN
          \E cat \in [heads -> Category \ used], id \in [kept -> Item \ used] :
             /\ IsInjective(cat) /\ IsInjective(id)
             /\ parent' = [c \in DOMAIN parent \union Range(cat) |-> IF Exists(c) THEN parent[c] ELSE None]
             /\ dish' = [i \in DOMAIN dish \union Range(id) |->
                           IF OnMenu(i) THEN dish[i]
                           ELSE LET r == CHOOSE q \in kept : id[q] = i
                                IN  NewDish(cat[sheet[r].under], sheet[r].price, Product(sheet[r]))]
             /\ used' = used \union Range(cat) \union Range(id)
    /\ doubled' = (doubled \/ job[e].mixed)
    /\ job' = Changed(e, Checked \union {"import"})
    /\ LoadMenu
    /\ UNCHANGED <<pageVars, torn, repriced>>

(* It reads the categories once and goes by what it finds: main categories  *)
(* that are not there are to be created (nobody else will have their ids),  *)
(* and what is where it belongs is skipped.                                 *)
RegroupRead(e) ==
    /\ job[e].at = "idle"
    /\ \E new \in SUBSET (Category \ used) : \E subs \in SUBSET (DOMAIN parent \union new) :
       \E plan \in [subs -> DOMAIN parent \union new] :
          /\ \A s \in subs : plan[s] # s /\ (Exists(s) => parent[s] # plan[s])
          /\ job' = [job EXCEPT ![e] = [Idle EXCEPT !.at = "regroup", !.plan = plan, !.new = new]]
          /\ used' = used \union new
    /\ UNCHANGED <<parent, dish, had, pageVars, torn, doubled, repriced, edits>>

(* One transaction.  A sub-category that has been deleted since is updated  *)
(* in no row; a main one that has been fails it, as above.                  *)
RegroupWrite(e) ==
    /\ job[e].at = "regroup"
    /\ LET plan == job[e].plan
           after == DOMAIN parent \union job[e].new IN
       /\ \A s \in DOMAIN plan \intersect after : plan[s] \in after
       /\ parent' = [c \in after |-> IF c \in DOMAIN plan THEN plan[c] ELSE IF Exists(c) THEN parent[c] ELSE None]
    /\ Tears(TRUE)
    /\ UNCHANGED used
    /\ TreeEdit(e)

-----------------------------------------------------------------------------
(* The admin's items *)

ItemEdit ==
    /\ Edits
    /\ UNCHANGED <<parent, had, pageVars, torn, doubled>>
Late == {"import"}

(* categoryBelongsToRestaurant, then the insertion: it fails the same way   *)
(* when the category has gone in between.                                   *)
AddItem(i, c, p) ==
    /\ i \notin used /\ Exists(c)
    /\ dish' = With(dish, i, NewDish(c, p, None))
    /\ used' = used \union {i}
    /\ job' = Changed(None, Late)
    /\ UNCHANGED repriced
    /\ ItemEdit

(* What is not sent stays: COALESCE.  A row that has gone is not found.     *)
UpdateItem(i, patch) ==
    /\ OnMenu(i)
    /\ dish' = [dish EXCEPT ![i] = [f \in DOMAIN @ |-> IF f \in DOMAIN patch THEN patch[f] ELSE @[f]]]

(* The dialog sends all its fields.                                         *)
SaveItem(i, c, p) ==
    /\ Exists(c)
    /\ UpdateItem(i, [in |-> c, price |-> p])
    /\ repriced' = IF p # dish[i].price /\ page.at \in {"items", "open", "sent"} THEN repriced \union {i} ELSE repriced
    /\ UNCHANGED <<used, job>>
    /\ ItemEdit

ToggleAvailability(i) ==
    /\ OnMenu(i) /\ UpdateItem(i, [open |-> ~dish[i].open])
    /\ UNCHANGED <<used, job, repriced>>
    /\ ItemEdit

(* ON DELETE RESTRICT, from the order's lines.                              *)
DeleteItem(i) ==
    /\ OnMenu(i) /\ \A l \in lines : l.placed => l.item # i
    /\ dish' = Without(dish, i)
    /\ UNCHANGED <<used, job, repriced>>
    /\ ItemEdit

-----------------------------------------------------------------------------
(* The customer's page *)

PageStep == UNCHANGED <<used, parent, dish, had, job, torn, doubled, edits>>

(* listMenuForRestaurant: two queries, on connections of their own and in   *)
(* either order.                                                            *)
ReadCategories ==
    /\ page.at \in {"away", "items"} /\ lines = {}
    /\ page' = [page EXCEPT !.at = IF @ = "away" THEN "tree" ELSE "open", !.tree = parent]
    /\ UNCHANGED <<lines, repriced>> /\ PageStep

ReadItems ==
    /\ page.at \in {"away", "tree"} /\ lines = {}
    /\ page' = [page EXCEPT !.at = IF @ = "away" THEN "items" ELSE "open", !.shown = dish, !.seen = parent]
    /\ repriced' = {}
    /\ UNCHANGED lines /\ PageStep

Pick(i) ==
    /\ page.at = "open" /\ i \in DOMAIN page.shown /\ page.shown[i].open
    /\ page' = [page EXCEPT !.cart = SymDiff(@, {i})]
    /\ UNCHANGED <<lines, repriced>> /\ PageStep

Submit ==
    /\ page.at = "open" /\ page.cart # {}
    /\ page' = [page EXCEPT !.at = "sent"]
    /\ UNCHANGED <<lines, repriced>> /\ PageStep

(* The page shows the reason and keeps the cart.                            *)
Rejected == page' = [page EXCEPT !.at = "open"] /\ UNCHANGED lines

(* findMenuItemsByIds: the order's prices are taken here.                   *)
PriceOrder ==
    /\ page.at = "sent"
    /\ LET found == Found(page.cart) IN
       IF DOMAIN found = page.cart /\ \A i \in page.cart : found[i].open
         THEN /\ page' = [page EXCEPT !.at = "priced"]
              /\ lines' = {[item |-> i, price |-> found[i].price, placed |-> FALSE] : i \in page.cart}
         ELSE Rejected
    /\ UNCHANGED repriced /\ PageStep

(* An item that has been deleted since fails it, and the customer may send  *)
(* the cart again: what was repriced meanwhile is marked.                   *)
InsertOrder ==
    /\ page.at = "priced"
    /\ IF \A i \in page.cart : OnMenu(i)
         THEN /\ page' = [page EXCEPT !.at = "placed"]
              /\ lines' = {[l EXCEPT !.placed = TRUE] : l \in lines}
              /\ UNCHANGED repriced
         ELSE /\ page' = [page EXCEPT !.at = "open"]
              /\ lines' = {}
              /\ repriced' = repriced \union
                     {i \in DOMAIN page.shown \intersect DOMAIN dish : dish[i].price # page.shown[i].price}
    /\ PageStep

-----------------------------------------------------------------------------
(* Totals *)

Total(set) == FoldSet(LAMBDA l, sum : l.price + sum, 0, set)

Confirmed == Total({[item |-> i, price |-> page.shown[i].price] : i \in page.cart})

(* Mutant: the menu's price of the day.                                     *)
AtMenuPrice == FoldSet(LAMBDA l, sum : dish[l.item].price + sum, 0, lines)
OrderTotal == Total({[item |-> l.item, price |-> l.price] : l \in lines})

TreeNext ==
    \/ \E e \in Editor :
          \/ AddCategory(e) \/ SaveCategory(e) \/ AssertUsableParent(e) \/ CountChildren(e)
          \/ InsertCategory(e) \/ UpdateCategory(e) \/ StatementFails(e)
          \/ RegroupRead(e) \/ RegroupWrite(e)
    \/ \E c \in Category : DeleteCategory(c)

ImportNext == \E e \in Editor : ImportCount(e) \/ ImportWrite(e)

ItemNext ==
    \E i \in Item :
        \/ \E c \in Category, p \in Price : AddItem(i, c, p) \/ SaveItem(i, c, p)
        \/ ToggleAvailability(i) \/ DeleteItem(i)

PageNext == ReadCategories \/ ReadItems \/ (\E i \in Item : Pick(i)) \/ Submit \/ PriceOrder \/ InsertOrder

MenuNext == TreeNext \/ ImportNext \/ ItemNext \/ PageNext

-----------------------------------------------------------------------------
(* Properties *)

(* The menu's variables have their types; every item is in a category that  *)
(* exists and every parent exists.                                          *)
MenuTypeOK ==
    /\ DOMAIN parent \subseteq Category /\ \A c \in DOMAIN parent : MayPoint(parent[c])
    /\ DOMAIN dish \subseteq Item /\ \A i \in DOMAIN dish : Exists(dish[i].in) /\ dish[i].price \in Price
    /\ DOMAIN parent \union DOMAIN dish \subseteq used
    /\ page.at \in {"away", "tree", "items", "open", "sent", "priced", "placed"}
    /\ page.at = "placed" => lines # {} /\ \A l \in lines : OnMenu(l.item)

(* The ordering page draws two levels.  Whatever sequence of edits admins   *)
(* make, from pages as old as they like, and whatever is imported and       *)
(* regrouped, every item that the customer's page has loaded is under one   *)
(* of its tabs, and no product of a price list is on the menu twice.        *)
(* Excepted are: a third level made by a request that another edit had      *)
(* overtaken between its checks and its write, or by a regrouping, which    *)
(* checks nothing; categories that changed between the page's two queries;  *)
(* and two imports that overlapped.                                         *)
MenuIsWhole ==
    /\ page.at \in {"open", "sent", "priced", "placed"} /\ page.tree = page.seen /\ ~torn =>
          Browsed(page.tree, page.shown) = DOMAIN page.shown
    /\ ~doubled =>
          \A i, j \in DOMAIN dish : dish[i].listed # None /\ dish[i].listed = dish[j].listed => i = j

(* An order costs what the customer's page showed when they confirmed it,   *)
(* and goes on doing so whatever happens to the menu afterwards, unless the *)
(* price of something in it was changed while the page was open.            *)
ChargedAsShown ==
    page.at = "placed" /\ page.cart \intersect repriced = {} => OrderTotal = Confirmed
=============================================================================
