------------------------------ MODULE MenuProofs ------------------------------
(***************************************************************************)
(* What holds of the menu and of an order's prices for any number of       *)
(* categories, items, editors, rows and prices, and beside any change of   *)
(* the accounts.                                                           *)
(***************************************************************************)
EXTENDS AccountsProofs

-----------------------------------------------------------------------------
(* The inductive invariant *)

Parent == Category \union {None}
Trees == UNION {[tops -> Parent] : tops \in SUBSET Category}
Plans == UNION {[subs -> Category] : subs \in SUBSET Category}
DishRow == [in: Category, price: Price, open: BOOLEAN, listed: (Heading \X Name) \union {None}]
Menus == UNION {[here -> DishRow] : here \in SUBSET Item}
Stage == {"idle", "parentNew", "parentOld", "children", "create", "move", "import", "regroup"}
Job == [at: Stage, cat: Parent, to: Parent, mixed: BOOLEAN, plan: {<<>>} \union Plans, new: SUBSET Category]

CategoriesOK ==
    /\ parent \in Trees /\ \A c \in DOMAIN parent : MayPoint(parent[c])
    /\ had \subseteq Trees
    /\ job \in [Editor -> Job]
    /\ torn \in BOOLEAN /\ doubled \in BOOLEAN

DishesOK ==
    /\ dish \in Menus
    /\ \A i \in DOMAIN dish : Exists(dish[i].in)
    /\ DOMAIN parent \union DOMAIN dish \subseteq used

(* What the checks that a request has passed have found still stands,       *)
(* unless another edit has come in between.                                 *)
JobFits(j) ==
    /\ j.at = "regroup" => j.plan \in Plans /\ j.new \subseteq used
    /\ ~j.mixed =>
          /\ j.at = "create" => j.to = None \/ UsableParent(j.to, None)
          /\ j.at = "children" => UsableParent(j.to, j.cat)
          /\ j.at = "move" => j.to = None \/ (UsableParent(j.to, j.cat) /\ Childless(j.cat))
          /\ j.at = "import" => MenuIsEmpty
JobsFit == \A e \in Editor : JobFits(job[e])

ListedOnce == \A i, j \in DOMAIN dish : dish[i].listed # None /\ dish[i].listed = dish[j].listed => i = j

(* What the customer's page shows is the menu's, but for what has been      *)
(* repriced, and every item of it is in a category of the tree that was     *)
(* there when the items were read; the order's lines are what is in the     *)
(* cart.                                                                    *)
PageRow == [at: {"away", "tree", "items", "open", "sent", "priced", "placed"},
            tree: {<<>>} \union Trees, seen: {<<>>} \union Trees, shown: {<<>>} \union Menus, cart: SUBSET Item]
Loaded == page.at \notin {"away", "tree"}
Line == [item: Item, price: Price, placed: BOOLEAN]
PageTypes == page \in PageRow /\ lines \in SUBSET Line
ShownOK ==
    /\ Loaded => page.shown \in Menus /\ page.cart \subseteq DOMAIN page.shown /\ DOMAIN page.shown \subseteq used
    /\ ~Loaded => page.cart = {}
SeenWhole == Loaded /\ ~torn => \A i \in DOMAIN page.shown : page.shown[i].in \in Grouped(page.seen)
Current ==
    page.at \in {"items", "open", "sent"} =>
        \A i \in DOMAIN page.shown : OnMenu(i) /\ i \notin repriced => dish[i].price = page.shown[i].price
LinesFit ==
    page.at \in {"priced", "placed"} =>
        /\ \A l \in lines : l.item \in page.cart /\ l.placed = (page.at = "placed")
        /\ \A i \in page.cart : \E l \in lines : l.item = i
        /\ \A l \in lines : l.item \notin repriced => l.price = page.shown[l.item].price
PageOK ==
    /\ PageTypes /\ ShownOK /\ SeenWhole /\ Current /\ LinesFit
    /\ page.at \in {"sent", "priced", "placed"} => page.cart # {}
    /\ page.at = "placed" => \A l \in lines : OnMenu(l.item)

MenuInv ==
    /\ CategoriesOK /\ DishesOK /\ JobsFit /\ PageOK
    /\ torn \/ TwoDeep(parent)
    /\ doubled \/ ListedOnce

-----------------------------------------------------------------------------
(* What functions are *)

LEMMA TreeFacts ==
    /\ \A tree \in Trees : /\ DOMAIN tree \subseteq Category /\ tree \in [DOMAIN tree -> Parent]
                           /\ \A c \in DOMAIN tree : tree[c] \in Parent
    /\ \A plan \in Plans : DOMAIN plan \subseteq Category /\ \A c \in DOMAIN plan : plan[c] \in Category
    /\ \A menu \in Menus : DOMAIN menu \subseteq Item /\ menu \in [DOMAIN menu -> DishRow]
  BY DEF Trees, Plans, Menus

LEMMA FunctionFacts ==
    /\ \A tops \in SUBSET Category : [tops -> Parent] \subseteq Trees
    /\ \A subs \in SUBSET Category : [subs -> Category] \subseteq Plans
    /\ \A here \in SUBSET Item : [here -> DishRow] \subseteq Menus
  BY DEF Trees, Plans, Menus

-----------------------------------------------------------------------------
(* Steps of the menu *)

LEMMA MenuSteps ==
    ASSUME [Next]_vars
    PROVE  \/ UNCHANGED menuVars
           \/ \E e \in Editor :
                \/ AddCategory(e) \/ SaveCategory(e) \/ AssertUsableParent(e) \/ CountChildren(e)
                \/ InsertCategory(e) \/ UpdateCategory(e) \/ StatementFails(e)
                \/ RegroupRead(e) \/ RegroupWrite(e) \/ ImportCount(e) \/ ImportWrite(e)
           \/ \E c \in Category : DeleteCategory(c)
           \/ \E i \in Item :
                \/ \E c \in Category, p \in Price : AddItem(i, c, p) \/ SaveItem(i, c, p)
                \/ ToggleAvailability(i) \/ DeleteItem(i)
           \/ PageNext \/ ResetClearsLines
  BY DEF Next, MenuNext, TreeNext, ImportNext, ItemNext, vars

(* A request that has asked for nothing.                                    *)
LEMMA IdleFits == Idle \in Job /\ JobFits(Idle) /\ JobFits(Idle)' /\ Idle.at = "idle"
  BY DEF Idle, Job, Stage, Parent, JobFits

(* A page looks at the menu's items only: nothing else of the menu matters  *)
(* to it.                                                                   *)
LEMMA PageKept ==
    ASSUME PageOK, UNCHANGED <<dish, page, lines, repriced>>, used \subseteq used', torn => torn'
    PROVE  PageOK'
<1>1. PageTypes' /\ Current' /\ LinesFit'
  BY DEF PageOK, PageTypes, Current, LinesFit, OnMenu
<1>2. ShownOK' /\ SeenWhole'
  BY DEF PageOK, ShownOK, SeenWhole, Loaded
<1> QED
  BY <1>1, <1>2 DEF PageOK, OnMenu

-----------------------------------------------------------------------------
(* Checks, which change a request only *)

LEMMA OneJob ==
    ASSUME MenuInv, NEW e \in Editor, NEW j \in Job, JobFits(j)', job' = [job EXCEPT ![e] = j],
           DOMAIN parent \subseteq used', used \subseteq used',
           UNCHANGED <<parent, dish, had, page, lines, torn, doubled, repriced>>
    PROVE  MenuInv'
<1>1. job' \in [Editor -> Job]
  BY DEF MenuInv, CategoriesOK
<1>2. JobsFit'
  <2>1. ASSUME NEW k \in Job, JobFits(k)
        PROVE  JobFits(k)'
    BY <2>1 DEF JobFits, UsableParent, Exists, Childless, SubsOf, MenuIsEmpty
  <2> QED
    BY <2>1 DEF MenuInv, CategoriesOK, JobsFit
<1>3. CategoriesOK' /\ DishesOK'
  BY <1>1 DEF MenuInv, CategoriesOK, DishesOK, MayPoint, Exists
<1>4. PageOK'
  BY PageKept DEF MenuInv
<1> QED
  BY <1>2, <1>3, <1>4 DEF MenuInv, ListedOnce

LEMMA Asking ==
    ASSUME MenuInv, NEW e \in Editor, NEW stage \in {"create", "parentNew", "parentOld", "move"},
           NEW c \in Parent, NEW p \in Parent,
           stage \in {"create", "move"} => p = None,
           Ask(e, stage, c, p)
    PROVE  MenuInv'
<1> DEFINE j == [Idle EXCEPT !.at = stage, !.cat = c, !.to = p]
<1>1. j \in Job /\ j.at = stage /\ j.to = p
  BY DEF Job, Stage, Idle
<1>2. job' = [job EXCEPT ![e] = j] /\ UNCHANGED <<used, parent, dish, had, page, lines, torn, doubled, repriced>>
  BY DEF Ask, pageVars
<1> HIDE DEF j
<1>3. JobFits(j)'
  BY <1>1 DEF JobFits
<1>4. DOMAIN parent \subseteq used
  BY DEF MenuInv, DishesOK
<1> QED
  BY <1>1, <1>2, <1>3, <1>4, OneJob

(* What a regrouping is going to do is made up of what it has read.         *)
LEMMA PlanKeeps ==
    ASSUME MenuInv, NEW e \in Editor, RegroupRead(e)
    PROVE  MenuInv'
<1>1. PICK new \in SUBSET (Category \ used) : \E subs \in SUBSET (DOMAIN parent \union new) :
           \E plan \in [subs -> DOMAIN parent \union new] :
              /\ job' = [job EXCEPT ![e] = [Idle EXCEPT !.at = "regroup", !.plan = plan, !.new = new]]
              /\ used' = used \union new
  BY DEF RegroupRead
<1>2. PICK subs \in SUBSET (DOMAIN parent \union new) : \E plan \in [subs -> DOMAIN parent \union new] :
              /\ job' = [job EXCEPT ![e] = [Idle EXCEPT !.at = "regroup", !.plan = plan, !.new = new]]
              /\ used' = used \union new
  BY <1>1
<1>3. PICK plan \in [subs -> DOMAIN parent \union new] :
              /\ job' = [job EXCEPT ![e] = [Idle EXCEPT !.at = "regroup", !.plan = plan, !.new = new]]
              /\ used' = used \union new
  BY <1>2
<1>4. DOMAIN parent \subseteq Category /\ DOMAIN parent \subseteq used
  BY TreeFacts DEF MenuInv, CategoriesOK, DishesOK
<1>5. plan \in Plans
  <2>1. subs \in SUBSET Category /\ plan \in [subs -> Category]
    BY <1>4
  <2> QED
    BY <2>1, FunctionFacts
<1> DEFINE j == [Idle EXCEPT !.at = "regroup", !.plan = plan, !.new = new]
<1>6. j \in Job /\ j.at = "regroup" /\ j.plan = plan /\ j.new = new
  BY <1>5 DEF Job, Stage, Idle, Parent
<1>7. job' = [job EXCEPT ![e] = j]
  BY <1>3
<1>8. UNCHANGED <<parent, dish, had, page, lines, torn, doubled, repriced>>
  BY DEF RegroupRead, pageVars
<1> HIDE DEF j
<1>9. JobFits(j)'
  BY <1>3, <1>5, <1>6 DEF JobFits
<1> QED
  BY <1>3, <1>4, <1>6, <1>7, <1>8, <1>9, OneJob

LEMMA AskSteps ==
    ASSUME MenuInv, NEW e \in Editor, AddCategory(e) \/ SaveCategory(e)
    PROVE  MenuInv'
<1>1. CASE AddCategory(e)
  <2>1. PICK tree \in had : \E p \in ParentOptions(tree, None) \union {None} :
            Ask(e, IF p = None THEN "create" ELSE "parentNew", None, p)
    BY <1>1 DEF AddCategory
  <2>2. PICK p \in ParentOptions(tree, None) \union {None} :
            Ask(e, IF p = None THEN "create" ELSE "parentNew", None, p)
    BY <2>1
  <2>3. p \in Parent
    BY <2>2, TreeFacts DEF MenuInv, CategoriesOK, ParentOptions, Mains, Parent
  <2>4. None \in Parent
    BY DEF Parent
  <2> QED
    BY <2>2, <2>3, <2>4, Asking
<1>2. CASE SaveCategory(e)
  <2>1. PICK tree \in had : \E c \in DOMAIN tree : \E p \in ParentOptions(tree, c) \union {None, tree[c]} :
            Ask(e, IF p = None THEN "move" ELSE "parentOld", c, p)
    BY <1>2 DEF SaveCategory
  <2>2. PICK c \in DOMAIN tree : \E p \in ParentOptions(tree, c) \union {None, tree[c]} :
            Ask(e, IF p = None THEN "move" ELSE "parentOld", c, p)
    BY <2>1
  <2>3. PICK p \in ParentOptions(tree, c) \union {None, tree[c]} :
            Ask(e, IF p = None THEN "move" ELSE "parentOld", c, p)
    BY <2>2
  <2>4. p \in Parent /\ c \in Parent
    BY <2>2, <2>3, TreeFacts DEF MenuInv, CategoriesOK, ParentOptions, Mains, Parent
  <2> QED
    BY <2>3, <2>4, Asking
<1> QED
  BY <1>1, <1>2

(* The checks find what the write relies on; an empty menu is found empty.  *)
LEMMA CheckSteps ==
    ASSUME MenuInv, NEW e \in Editor,
           AssertUsableParent(e) \/ CountChildren(e) \/ StatementFails(e) \/ ImportCount(e)
    PROVE  MenuInv'
<1>1. /\ job[e] \in Job /\ JobFits(job[e]) /\ job \in [Editor -> Job]
      /\ UNCHANGED <<used, parent, dish, had, page, lines, torn, doubled, repriced>>
      /\ DOMAIN parent \subseteq used
  BY DEF AssertUsableParent, CountChildren, StatementFails, ImportCount, pageVars, MenuInv, CategoriesOK, JobsFit, DishesOK
<1>2. ASSUME NEW k \in Job, JobFits(k), job' = [job EXCEPT ![e] = k]
      PROVE  MenuInv'
  <2>1. JobFits(k)'
    BY <1>1, <1>2 DEF JobFits, UsableParent, Exists, Childless, SubsOf, MenuIsEmpty
  <2> QED
    BY <2>1, <1>1, <1>2, OneJob
<1>3. PICK j \in Job : j = job[e]
  BY <1>1
<1>4. CASE Refuse(e)
  BY <1>2, <1>4, IdleFits DEF Refuse
<1>5. CASE AssertUsableParent(e) /\ UsableParent(j.to, j.cat)
  <2> DEFINE stage == IF j.at = "parentNew" THEN "create" ELSE "children"
             k == [j EXCEPT !.at = stage]
  <2>1. j.at \in {"parentNew", "parentOld"} /\ job' = [job EXCEPT ![e] = k]
    BY <1>1, <1>3, <1>5 DEF AssertUsableParent
  <2>2. UsableParent(j.to, None)
    BY <1>5, MenuAssumption, TreeFacts DEF UsableParent, Exists, MenuInv, CategoriesOK
  <2>3. k \in Job /\ JobFits(k)
    BY <1>5, <2>2 DEF Job, Stage, JobFits
  <2> HIDE DEF k
  <2> QED
    BY <2>1, <2>3, <1>2
<1>6. CASE CountChildren(e) /\ Childless(j.cat)
  <2> DEFINE k == [j EXCEPT !.at = "move"]
  <2>1. j.at = "children" /\ job' = [job EXCEPT ![e] = k]
    BY <1>1, <1>3, <1>6 DEF CountChildren
  <2>2. k \in Job /\ k.at = "move" /\ k.to = j.to /\ k.cat = j.cat /\ k.mixed = j.mixed
    BY DEF Job, Stage
  <2> HIDE DEF k
  <2>3. JobFits(k)
    BY <1>1, <1>3, <1>6, <2>1, <2>2 DEF JobFits
  <2> QED
    BY <2>1, <2>2, <2>3, <1>2
<1>7. CASE ImportCount(e)
  <2> DEFINE k == [Idle EXCEPT !.at = "import"]
  <2>1. MenuIsEmpty /\ job' = [job EXCEPT ![e] = k]
    BY <1>7 DEF ImportCount
  <2>2. k \in Job /\ k.at = "import"
    BY IdleFits DEF Job, Stage, Idle, Parent
  <2> HIDE DEF k
  <2>3. JobFits(k)
    BY <2>1, <2>2 DEF JobFits
  <2> QED
    BY <2>1, <2>2, <2>3, <1>2
<1> QED
  BY <1>3, <1>4, <1>5, <1>6, <1>7 DEF AssertUsableParent, CountChildren, StatementFails

-----------------------------------------------------------------------------
(* Edits of the tree *)

(* A request whose checks are overtaken is marked, one that has not checked *)
(* anything yet is not concerned.                                           *)
LEMMA Overtaken ==
    ASSUME MenuInv, NEW e, NEW stages \in {Checked, Checked \union {"import"}}, job' = Changed(e, stages),
           used \subseteq used', dish' = dish \/ "import" \in stages
    PROVE  job' \in [Editor -> Job] /\ JobsFit'
<1>1. ASSUME NEW x \in Editor
      PROVE  job'[x] \in Job /\ JobFits(job[x])'
  <2>1. job[x] \in Job /\ JobFits(job[x])
    BY DEF MenuInv, CategoriesOK, JobsFit
  <2>2. PICK j \in Job : j = job[x] /\ JobFits(j)
    BY <2>1
  <2>3. PICK k : k = job'[x]
    OBVIOUS
  <2>4. \/ k = Idle
        \/ j.at \in stages /\ k = [j EXCEPT !.mixed = TRUE]
        \/ j.at \notin stages /\ k = j
    BY <2>2, <2>3 DEF Changed
  <2>5. CASE k = Idle
    BY <2>3, <2>5, IdleFits
  <2>6. CASE j.at \in stages /\ k = [j EXCEPT !.mixed = TRUE]
    <3>1. k \in Job /\ k.mixed /\ k.at = j.at /\ k.plan = j.plan /\ k.new = j.new
      BY <2>6 DEF Job
    <3>2. JobFits(k)'
      BY <3>1, <2>2 DEF JobFits
    <3> QED
      BY <3>1, <3>2, <2>3
  <2>7. CASE j.at \notin stages /\ k = j
    <3>1. /\ j.at \notin {"create", "children", "move"}
          /\ j.at = "import" => dish' = dish
      BY <2>7 DEF Checked
    <3>2. JobFits(j)'
      BY <3>1, <2>2 DEF JobFits, MenuIsEmpty
    <3> QED
      BY <3>2, <2>3, <2>7
  <2> QED
    BY <2>4, <2>5, <2>6, <2>7
<1> QED
  BY <1>1 DEF JobsFit, Changed

(* What an edit of the tree has to respect.                                 *)
LEMMA Edited ==
    ASSUME MenuInv, NEW e, TreeEdit(e), parent' \in Trees, \A c \in DOMAIN parent' : MayPoint(parent[c])',
           \A i \in DOMAIN dish : dish[i].in \in DOMAIN parent',
           used \subseteq used', DOMAIN parent' \subseteq used',
           torn' \in BOOLEAN, torn' \/ TwoDeep(parent'), torn => torn'
    PROVE  MenuInv'
<1>1. job' = Changed(e, Checked) /\ had' = had \union {parent'} /\ UNCHANGED <<dish, page, lines, doubled, repriced>>
  BY DEF TreeEdit, LoadMenu, pageVars
<1>2. job' \in [Editor -> Job] /\ JobsFit'
  BY <1>1, Overtaken
<1>3. CategoriesOK'
  BY <1>1, <1>2 DEF MenuInv, CategoriesOK
<1>4. DishesOK'
  BY <1>1 DEF MenuInv, DishesOK, Exists
<1>5. PageOK'
  BY <1>1, PageKept DEF MenuInv
<1>6. (doubled \/ ListedOnce)'
  BY <1>1 DEF MenuInv, ListedOnce
<1> QED
  BY <1>2, <1>3, <1>4, <1>5, <1>6 DEF MenuInv

(* A new category hangs under none, or under a main one that the request    *)
(* found there.                                                             *)
LEMMA InsertKeeps ==
    ASSUME MenuInv, NEW e \in Editor, InsertCategory(e)
    PROVE  MenuInv'
<1>1. PICK c \in Category \ used : parent' = With(parent, c, job[e].to) /\ used' = used \union {c}
  BY DEF InsertCategory
<1>2. PICK j \in Job : j = job[e] /\ JobFits(j)
  BY DEF MenuInv, CategoriesOK, JobsFit
<1>3. j.at = "create" /\ MayPoint(j.to) /\ torn' = (torn \/ (j.mixed /\ ~TwoDeep(parent'))) /\ TreeEdit(e)
  BY <1>2 DEF InsertCategory, Tears
<1>4. c \notin DOMAIN parent /\ DOMAIN parent \subseteq used
  BY DEF MenuInv, DishesOK
<1>5. /\ DOMAIN parent' = DOMAIN parent \union {c} /\ parent'[c] = j.to
      /\ \A d \in DOMAIN parent : parent'[d] = parent[d]
      /\ parent' \in [DOMAIN parent' -> {parent'[d] : d \in DOMAIN parent'}]
  BY <1>1, <1>2, <1>4 DEF With
<1>6. /\ DOMAIN parent \subseteq Category /\ \A d \in DOMAIN parent : MayPoint(parent[d]) /\ parent[d] \in Parent
      /\ j.to \in Parent
  BY TreeFacts DEF MenuInv, CategoriesOK, Job
<1>7. \A d \in DOMAIN parent' : MayPoint(parent[d])'
  BY <1>3, <1>5, <1>6 DEF MayPoint, Exists
<1>8. parent' \in Trees
  <2>1. parent' \in [DOMAIN parent' -> Parent] /\ DOMAIN parent' \in SUBSET Category
    BY <1>5, <1>6
  <2> QED
    BY <2>1, FunctionFacts
<1>9. ASSUME ~torn'
      PROVE  TwoDeep(parent')
  <2>1. CASE j.mixed
    BY <2>1, <1>3, <1>9
  <2>2. CASE ~j.mixed
    <3>1. j.to = None \/ (j.to \in DOMAIN parent /\ parent[j.to] = None)
      BY <1>2, <1>3, <2>2 DEF JobFits, UsableParent, Exists
    <3>2. TwoDeep(parent)
      BY <1>3, <1>9 DEF MenuInv
    <3> QED
      BY <1>4, <1>5, <1>6, <3>1, <3>2 DEF TwoDeep, MayPoint, Exists
  <2> QED
    BY <2>1, <2>2
<1>10. torn' \in BOOLEAN /\ (torn => torn')
  BY <1>3 DEF MenuInv, CategoriesOK, Job
<1>11. \A i \in DOMAIN dish : dish[i].in \in DOMAIN parent'
  BY <1>5 DEF MenuInv, DishesOK, Exists
<1> QED
  BY <1>1, <1>3, <1>4, <1>5, <1>7, <1>8, <1>9, <1>10, <1>11, Edited

(* A category is moved under a main one only if nothing hangs under it.     *)
LEMMA UpdateKeeps ==
    ASSUME MenuInv, NEW e \in Editor, UpdateCategory(e)
    PROVE  MenuInv'
<1>1. PICK j \in Job : j = job[e] /\ JobFits(j)
  BY DEF MenuInv, CategoriesOK, JobsFit
<1>2. /\ j.at = "move" /\ j.cat \in DOMAIN parent /\ MayPoint(j.to) /\ j.to # j.cat
      /\ parent' = [parent EXCEPT ![j.cat] = j.to] /\ torn' = (torn \/ (j.mixed /\ ~TwoDeep(parent')))
      /\ TreeEdit(e) /\ used' = used
  BY <1>1 DEF UpdateCategory, Exists, Tears
<1>3. /\ DOMAIN parent \subseteq Category /\ \A d \in DOMAIN parent : MayPoint(parent[d]) /\ parent[d] \in Parent
      /\ j.to \in Parent
  BY TreeFacts DEF MenuInv, CategoriesOK, Job
<1>4. /\ DOMAIN parent' = DOMAIN parent
      /\ \A d \in DOMAIN parent : parent'[d] = IF d = j.cat THEN j.to ELSE parent[d]
      /\ parent' \in [DOMAIN parent' -> {parent'[d] : d \in DOMAIN parent'}]
  BY <1>2
<1>5. \A d \in DOMAIN parent' : MayPoint(parent[d])'
  BY <1>2, <1>3, <1>4 DEF MayPoint, Exists
<1>6. parent' \in Trees
  <2>1. parent' \in [DOMAIN parent' -> Parent] /\ DOMAIN parent' \in SUBSET Category
    BY <1>3, <1>4
  <2> QED
    BY <2>1, FunctionFacts
<1>7. ASSUME ~torn'
      PROVE  TwoDeep(parent')
  <2>1. CASE j.mixed
    BY <2>1, <1>2, <1>7
  <2>2. CASE ~j.mixed
    <3>1. j.to = None \/ (/\ j.to \in DOMAIN parent /\ parent[j.to] = None
                           /\ \A d \in DOMAIN parent : parent[d] # j.cat)
      BY <1>1, <1>2, <2>2 DEF JobFits, UsableParent, Exists, Childless, SubsOf
    <3>2. TwoDeep(parent)
      BY <1>2, <1>7 DEF MenuInv
    <3> QED
      BY <1>2, <1>3, <1>4, <3>1, <3>2 DEF TwoDeep, MayPoint, Exists
  <2> QED
    BY <2>1, <2>2
<1>8. torn' \in BOOLEAN /\ (torn => torn')
  BY <1>2 DEF MenuInv, CategoriesOK, Job
<1>9. \A i \in DOMAIN dish : dish[i].in \in DOMAIN parent'
  BY <1>4 DEF MenuInv, DishesOK, Exists
<1>10. DOMAIN parent' \subseteq used'
  BY <1>2, <1>4 DEF MenuInv, DishesOK
<1> QED
  BY <1>2, <1>5, <1>6, <1>7, <1>8, <1>9, <1>10, Edited

(* A regrouping that would deepen the tree is recorded as such.             *)
LEMMA RegroupKeeps ==
    ASSUME MenuInv, NEW e \in Editor, RegroupWrite(e)
    PROVE  MenuInv'
<1>1. PICK j \in Job : j = job[e] /\ JobFits(j)
  BY DEF MenuInv, CategoriesOK, JobsFit
<1> DEFINE after == DOMAIN parent \union j.new
<1>2. /\ j.at = "regroup" /\ \A s \in DOMAIN j.plan \intersect after : j.plan[s] \in after
      /\ parent' = [c \in after |-> IF c \in DOMAIN j.plan THEN j.plan[c] ELSE IF Exists(c) THEN parent[c] ELSE None]
      /\ torn' = (torn \/ ~TwoDeep(parent')) /\ TreeEdit(e) /\ used' = used
  BY <1>1 DEF RegroupWrite, Tears
<1>3. /\ DOMAIN parent \subseteq Category /\ \A d \in DOMAIN parent : MayPoint(parent[d]) /\ parent[d] \in Parent
      /\ j.new \subseteq Category /\ j.new \subseteq used
      /\ \A c \in DOMAIN j.plan : j.plan[c] \in Category
  BY <1>1, <1>2, TreeFacts DEF MenuInv, CategoriesOK, Job, JobFits
<1>4. /\ DOMAIN parent' = after
      /\ \A d \in after : parent'[d] = IF d \in DOMAIN j.plan THEN j.plan[d] ELSE IF d \in DOMAIN parent THEN parent[d] ELSE None
      /\ parent' \in [DOMAIN parent' -> {parent'[d] : d \in DOMAIN parent'}]
  BY <1>2 DEF Exists
<1>5. \A d \in DOMAIN parent' : MayPoint(parent[d])'
  BY <1>2, <1>3, <1>4 DEF MayPoint, Exists
<1>6. parent' \in Trees
  <2>1. parent' \in [DOMAIN parent' -> Parent] /\ DOMAIN parent' \in SUBSET Category
    BY <1>3, <1>4 DEF Parent
  <2> QED
    BY <2>1, FunctionFacts
<1>7. torn' \in BOOLEAN /\ (torn => torn')
  BY <1>2 DEF MenuInv, CategoriesOK
<1>8. \A i \in DOMAIN dish : dish[i].in \in DOMAIN parent'
  BY <1>4 DEF MenuInv, DishesOK, Exists
<1>9. DOMAIN parent' \subseteq used'
  BY <1>2, <1>3, <1>4 DEF MenuInv, DishesOK
<1> QED
  BY <1>2, <1>5, <1>6, <1>7, <1>8, <1>9, Edited

(* The foreign keys keep a category that something refers to.               *)
LEMMA DeleteKeeps ==
    ASSUME MenuInv, NEW c \in Category, DeleteCategory(c)
    PROVE  MenuInv'
<1>1. /\ c \in DOMAIN parent /\ (\A d \in DOMAIN parent : parent[d] # c)
      /\ (\A i \in DOMAIN dish : dish[i].in # c)
      /\ parent' = Without(parent, c) /\ used' = used /\ torn' = torn /\ TreeEdit(None)
  BY DEF DeleteCategory, Exists, Childless, SubsOf
<1>2. /\ DOMAIN parent' = DOMAIN parent \ {c}
      /\ \A d \in DOMAIN parent' : parent'[d] = parent[d]
      /\ parent' \in [DOMAIN parent' -> {parent'[d] : d \in DOMAIN parent'}]
  BY <1>1 DEF Without
<1>3. DOMAIN parent \subseteq Category /\ \A d \in DOMAIN parent : MayPoint(parent[d]) /\ parent[d] \in Parent
  BY TreeFacts DEF MenuInv, CategoriesOK
<1>4. \A d \in DOMAIN parent' : MayPoint(parent[d])'
  BY <1>1, <1>2, <1>3 DEF MayPoint, Exists
<1>5. parent' \in Trees
  <2>1. parent' \in [DOMAIN parent' -> Parent] /\ DOMAIN parent' \in SUBSET Category
    BY <1>2, <1>3
  <2> QED
    BY <2>1, FunctionFacts
<1>6. torn' \/ TwoDeep(parent')
  BY <1>1, <1>2, <1>3 DEF TwoDeep, MayPoint, Exists, MenuInv
<1>7. torn' \in BOOLEAN /\ (torn => torn')
  BY <1>1 DEF MenuInv, CategoriesOK
<1>8. \A i \in DOMAIN dish : dish[i].in \in DOMAIN parent'
  BY <1>1, <1>2 DEF MenuInv, DishesOK, Exists
<1>9. DOMAIN parent' \subseteq used' /\ used \subseteq used'
  BY <1>1, <1>2 DEF MenuInv, DishesOK
<1> QED
  BY <1>1, <1>4, <1>5, <1>6, <1>7, <1>8, <1>9, Edited

-----------------------------------------------------------------------------
(* The import and the edits of items *)

(* What an edit of the items has to respect as to the customer's page.      *)
LEMMA PageAndDishes ==
    ASSUME PageOK, UNCHANGED <<page, lines, torn>>, used \subseteq used', DOMAIN dish \subseteq used,
           repriced' = repriced \/ (page.at \in {"items", "open", "sent"} /\ repriced \subseteq repriced'),
           page.at = "placed" => \A i \in DOMAIN dish \ DOMAIN dish' : \A l \in lines : l.item # i,
           \A i \in DOMAIN dish' : \/ i \notin used
                                   \/ i \in DOMAIN dish /\ dish'[i].price = dish[i].price
                                   \/ i \in DOMAIN dish /\ (page.at \in {"items", "open", "sent"} => i \in repriced')
    PROVE  PageOK'
<1>1. PageTypes' /\ ShownOK' /\ SeenWhole'
  BY DEF PageOK, PageTypes, ShownOK, SeenWhole, Loaded
<1>2. Current'
  BY DEF PageOK, Current, ShownOK, OnMenu, Loaded
<1>3. LinesFit'
  BY DEF PageOK, LinesFit
<1>4. page'.at = "placed" => \A l \in lines' : OnMenu(l.item)'
  BY DEF PageOK, OnMenu
<1> QED
  BY <1>1, <1>2, <1>3, <1>4 DEF PageOK

(* Of the rows of a sheet no two that are kept are for one product.         *)
LEMMA KeptOnce ==
    ASSUME NEW sheet \in Sheets, NEW r \in KeptRows(sheet), NEW q \in KeptRows(sheet),
           Product(sheet[r]) = Product(sheet[q])
    PROVE  r = q
<1>1. r \in Row /\ q \in Row /\ r \in Nat /\ q \in Nat
  BY MenuAssumption DEF KeptRows
<1>2. CASE r < q
  BY <1>2 DEF KeptRows
<1>3. CASE q < r
  BY <1>3 DEF KeptRows
<1> QED
  BY <1>1, <1>2, <1>3

LEMMA KeptIsPriced ==
    ASSUME NEW sheet \in Sheets, NEW r \in KeptRows(sheet)
    PROVE  /\ r \in Row /\ sheet[r].under \in Heading /\ sheet[r].price \in Price
           /\ Product(sheet[r]) \in Heading \X Name
  BY DEF KeptRows, Sheets, Product

(* An import into a menu that was empty when it was asked for, and still is *)
(* unless something has come in between.                                    *)
LEMMA ImportKeeps ==
    ASSUME MenuInv, NEW e \in Editor, ImportWrite(e)
    PROVE  MenuInv'
<1>1. PICK sheet \in Sheets :
          LET kept == KeptRows(sheet)
              heads == {sheet[r].under : r \in kept} IN
          \E cat \in [heads -> Category \ used], id \in [kept -> Item \ used] :
             /\ IsInjective(cat) /\ IsInjective(id)
             /\ parent' = [c \in DOMAIN parent \union Range(cat) |-> IF Exists(c) THEN parent[c] ELSE None]
             /\ dish' = [i \in DOMAIN dish \union Range(id) |->
                           IF OnMenu(i) THEN dish[i]
                           ELSE LET r == CHOOSE q \in kept : id[q] = i
                                IN  NewDish(cat[sheet[r].under], sheet[r].price, Product(sheet[r]))]
             /\ used' = used \union Range(cat) \union Range(id)
  BY DEF ImportWrite
<1> DEFINE kept == KeptRows(sheet)
           heads == {sheet[r].under : r \in kept}
<1>2. PICK cat \in [heads -> Category \ used], id \in [kept -> Item \ used] :
             /\ IsInjective(cat) /\ IsInjective(id)
             /\ parent' = [c \in DOMAIN parent \union Range(cat) |-> IF Exists(c) THEN parent[c] ELSE None]
             /\ dish' = [i \in DOMAIN dish \union Range(id) |->
                           IF OnMenu(i) THEN dish[i]
                           ELSE LET r == CHOOSE q \in kept : id[q] = i
                                IN  NewDish(cat[sheet[r].under], sheet[r].price, Product(sheet[r]))]
             /\ used' = used \union Range(cat) \union Range(id)
  BY <1>1, Zenon
<1>3. /\ job[e].at = "import" /\ doubled' = (doubled \/ job[e].mixed)
      /\ job' = Changed(e, Checked \union {"import"}) /\ had' = had \union {parent'}
      /\ UNCHANGED <<page, lines, torn, repriced>>
  BY DEF ImportWrite, LoadMenu, pageVars
<1>4. job[e] \in Job /\ JobFits(job[e])
  BY DEF MenuInv, CategoriesOK, JobsFit
<1>5. /\ DOMAIN parent \subseteq used /\ DOMAIN dish \subseteq used /\ DOMAIN dish \subseteq Item
      /\ dish \in [DOMAIN dish -> DishRow]
      /\ DOMAIN parent \subseteq Category /\ \A d \in DOMAIN parent : MayPoint(parent[d]) /\ parent[d] \in Parent
  BY TreeFacts DEF MenuInv, DishesOK, CategoriesOK
<1> DEFINE born(r) == NewDish(cat[sheet[r].under], sheet[r].price, Product(sheet[r]))
<1>6. /\ \A h \in heads : cat[h] \in Category \ used
      /\ \A r \in kept : id[r] \in Item \ used
      /\ \A r, q \in kept : id[r] = id[q] => r = q
      /\ Range(cat) = {cat[h] : h \in heads} /\ Range(id) = {id[r] : r \in kept}
  BY <1>2 DEF IsInjective, Range
<1>7. ASSUME NEW r \in kept
      PROVE  /\ born(r) \in DishRow /\ born(r).in = cat[sheet[r].under] /\ born(r).in \in Range(cat)
             /\ born(r).listed = Product(sheet[r]) /\ (CHOOSE q \in kept : id[q] = id[r]) = r
  <2>1. sheet[r].price \in Price /\ Product(sheet[r]) \in Heading \X Name
    BY KeptIsPriced
  <2>2. cat[sheet[r].under] \in Category \ used
    BY <1>6
  <2>3. (CHOOSE q \in kept : id[q] = id[r]) = r
    <3> DEFINE z == CHOOSE q \in kept : id[q] = id[r]
    <3>1. z \in kept /\ id[z] = id[r]
      OBVIOUS
    <3> HIDE DEF z
    <3> QED
      BY <3>1, <1>6 DEF z
  <2> HIDE DEF kept
  <2> QED
    BY <2>1, <2>2, <2>3, <1>6 DEF NewDish, DishRow
<1> HIDE DEF kept, heads, born
<1>8. /\ DOMAIN parent' = DOMAIN parent \union Range(cat)
      /\ \A d \in DOMAIN parent : parent'[d] = parent[d]
      /\ \A d \in Range(cat) : parent'[d] = None
      /\ parent' \in [DOMAIN parent' -> {parent'[d] : d \in DOMAIN parent'}]
  BY <1>2, <1>5, <1>6 DEF Exists
<1>9. parent' \in Trees
  <2>1. parent' \in [DOMAIN parent' -> Parent] /\ DOMAIN parent' \in SUBSET Category
    BY <1>5, <1>6, <1>8 DEF Parent
  <2> QED
    BY <2>1, FunctionFacts
<1>10. /\ \A d \in DOMAIN parent' : MayPoint(parent[d])'
       /\ TwoDeep(parent) => TwoDeep(parent')
  BY <1>5, <1>6, <1>8 DEF TwoDeep, MayPoint, Exists
<1>11. used \subseteq used' /\ Range(cat) \subseteq used' /\ Range(id) \subseteq used'
  BY <1>2
<1>12. job' \in [Editor -> Job] /\ JobsFit'
  BY <1>3, <1>11, Overtaken
<1>13. CategoriesOK'
  BY <1>3, <1>4, <1>9, <1>10, <1>12 DEF MenuInv, CategoriesOK, Job
<1>14. /\ DOMAIN dish' = DOMAIN dish \union Range(id)
       /\ \A i \in DOMAIN dish : dish'[i] = dish[i]
       /\ dish' \in [DOMAIN dish' -> {dish'[d] : d \in DOMAIN dish'}]
       /\ \A i \in Range(id) : i \notin DOMAIN dish => dish'[i] = born(CHOOSE q \in kept : id[q] = i)
  BY <1>2 DEF OnMenu, born
<1>15. ASSUME NEW i \in DOMAIN dish', i \notin DOMAIN dish
       PROVE  i \in Item \ used /\ \E r \in kept : i = id[r] /\ dish'[i] = born(r)
  BY <1>6, <1>7, <1>14, <1>15
<1>16. DishesOK'
  <2>1. ASSUME NEW i \in DOMAIN dish'
        PROVE  dish'[i] \in DishRow /\ dish'[i].in \in DOMAIN parent' /\ i \in Item
    <3>1. CASE i \in DOMAIN dish
      BY <3>1, <1>5, <1>8, <1>14 DEF MenuInv, DishesOK, Exists
    <3>2. CASE i \notin DOMAIN dish
      BY <3>2, <1>7, <1>8, <1>15
    <3> QED
      BY <3>1, <3>2
  <2>2. dish' \in [DOMAIN dish' -> DishRow] /\ DOMAIN dish' \in SUBSET Item
    BY <2>1, <1>14
  <2>3. dish' \in Menus
    BY <2>2, FunctionFacts
  <2> QED
    BY <2>1, <2>3, <1>5, <1>8, <1>11, <1>14 DEF DishesOK, Exists
<1>17. ASSUME ~doubled'
       PROVE  ListedOnce'
  <2>1. DOMAIN dish = {}
    BY <1>3, <1>4, <1>17 DEF JobFits, MenuIsEmpty
  <2>2. ASSUME NEW i \in DOMAIN dish', NEW k \in DOMAIN dish', dish'[i].listed = dish'[k].listed
        PROVE  i = k
    <3>1. PICK r \in kept : i = id[r] /\ dish'[i] = born(r)
      BY <2>1, <1>15
    <3>2. PICK q \in kept : k = id[q] /\ dish'[k] = born(q)
      BY <2>1, <1>15
    <3>3. Product(sheet[r]) = Product(sheet[q])
      BY <2>2, <3>1, <3>2, <1>7
    <3> QED
      BY <3>1, <3>2, <3>3, KeptOnce DEF kept
  <2> QED
    BY <2>2 DEF ListedOnce
<1>18. PageOK'
  <2>1. \A i \in DOMAIN dish' : i \notin used \/ (i \in DOMAIN dish /\ dish'[i].price = dish[i].price)
    BY <1>14, <1>15
  <2>2. DOMAIN dish \ DOMAIN dish' = {}
    BY <1>14
  <2> QED
    BY <2>1, <2>2, <1>3, <1>5, <1>11, PageAndDishes DEF MenuInv
<1>19. (torn \/ TwoDeep(parent))' /\ (doubled \/ ListedOnce)'
  BY <1>3, <1>10, <1>17 DEF MenuInv
<1> QED
  BY <1>12, <1>13, <1>16, <1>18, <1>19 DEF MenuInv

(* An edit of one item.                                                     *)
LEMMA ItemEdited ==
    ASSUME MenuInv, ItemEdit, DishesOK', PageOK', ListedOnce => ListedOnce', job' \in [Editor -> Job], JobsFit'
    PROVE  MenuInv'
<1>1. UNCHANGED <<parent, had, page, lines, torn, doubled>>
  BY DEF ItemEdit, pageVars
<1>2. CategoriesOK'
  BY <1>1 DEF MenuInv, CategoriesOK, MayPoint, Exists
<1>3. (torn \/ TwoDeep(parent))' /\ (doubled \/ ListedOnce)'
  BY <1>1 DEF MenuInv
<1> QED
  BY <1>2, <1>3 DEF MenuInv

LEMMA AddKeeps ==
    ASSUME MenuInv, NEW i \in Item, NEW c \in Category, NEW p \in Price, AddItem(i, c, p)
    PROVE  MenuInv'
<1>1. /\ i \notin used /\ Exists(c) /\ dish' = With(dish, i, NewDish(c, p, None)) /\ used' = used \union {i}
      /\ job' = Changed(None, Late) /\ repriced' = repriced /\ ItemEdit
      /\ UNCHANGED <<parent, had, page, lines, torn, doubled>>
  BY DEF AddItem, ItemEdit, pageVars
<1>2. i \notin DOMAIN dish /\ DOMAIN dish \subseteq used /\ DOMAIN parent \subseteq used
  BY <1>1 DEF MenuInv, DishesOK
<1>3. /\ DOMAIN dish' = DOMAIN dish \union {i} /\ dish'[i] = NewDish(c, p, None)
      /\ \A d \in DOMAIN dish : dish'[d] = dish[d]
      /\ dish' \in [DOMAIN dish' -> {dish'[d] : d \in DOMAIN dish'}]
  BY <1>1, <1>2 DEF With
<1>4. NewDish(c, p, None) \in DishRow /\ NewDish(c, p, None).in = c /\ NewDish(c, p, None).listed = None
  BY DEF NewDish, DishRow
<1>5. DishesOK'
  <2>1. dish' \in [DOMAIN dish' -> DishRow] /\ DOMAIN dish' \in SUBSET Item
    BY <1>3, <1>4, TreeFacts DEF MenuInv, DishesOK
  <2>2. dish' \in Menus
    BY <2>1, FunctionFacts
  <2> QED
    BY <2>2, <1>1, <1>2, <1>3, <1>4 DEF MenuInv, DishesOK, Exists
<1>6. ListedOnce => ListedOnce'
  BY <1>2, <1>3, <1>4 DEF ListedOnce
<1>7. PageOK'
  BY <1>1, <1>2, <1>3, PageAndDishes DEF MenuInv
<1>8. ASSUME NEW x \in Editor
      PROVE  job'[x] \in Job /\ JobFits(job[x])'
  <2>1. PICK j \in Job : j = job[x] /\ JobFits(j)
    BY DEF MenuInv, CategoriesOK, JobsFit
  <2>2. PICK k : k = job'[x]
    OBVIOUS
  <2>3. \/ k = Idle
        \/ j.at = "import" /\ k = [j EXCEPT !.mixed = TRUE]
        \/ j.at # "import" /\ k = j
    BY <1>1, <2>1, <2>2 DEF Changed, Late
  <2>4. CASE k = Idle
    BY <2>2, <2>4, IdleFits
  <2>5. CASE j.at = "import" /\ k = [j EXCEPT !.mixed = TRUE]
    <3>1. k \in Job /\ k.mixed /\ k.at = "import"
      BY <2>5 DEF Job
    <3> QED
      BY <3>1, <2>2 DEF JobFits
  <2>6. CASE j.at # "import" /\ k = j
    <3>1. JobFits(j)'
      BY <2>1, <2>6, <1>1 DEF JobFits, UsableParent, Exists, Childless, SubsOf
    <3> QED
      BY <3>1, <2>2, <2>6
  <2> QED
    BY <2>3, <2>4, <2>5, <2>6
<1>9. job' \in [Editor -> Job] /\ JobsFit'
  BY <1>1, <1>8 DEF JobsFit, Changed
<1> QED
  BY <1>1, <1>5, <1>6, <1>7, <1>9, ItemEdited

(* No other edit adds an item.                                              *)
LEMMA JobsKept ==
    ASSUME MenuInv, UNCHANGED <<job, parent, used>>, DOMAIN dish' \subseteq DOMAIN dish
    PROVE  job' \in [Editor -> Job] /\ JobsFit'
<1>1. \A j \in Job : JobFits(j) => JobFits(j)'
  BY DEF JobFits, UsableParent, Exists, Childless, SubsOf, MenuIsEmpty
<1> QED
  BY <1>1 DEF MenuInv, CategoriesOK, JobsFit

(* A patch leaves what it does not name.                                    *)
LEMMA Patched ==
    ASSUME DishesOK, NEW i \in DOMAIN dish, NEW c \in Category, NEW p \in Price, NEW open \in BOOLEAN
    PROVE  /\ UpdateItem(i, [in |-> c, price |-> p]) => dish' = [dish EXCEPT ![i] = [in |-> c, price |-> p, open |-> dish[i].open, listed |-> dish[i].listed]]
           /\ UpdateItem(i, [open |-> open]) => dish' = [dish EXCEPT ![i] = [in |-> dish[i].in, price |-> dish[i].price, open |-> open, listed |-> dish[i].listed]]
<1>1. PICK d \in DishRow : d = dish[i]
  BY TreeFacts DEF DishesOK
<1>2. [f \in DOMAIN d |-> IF f \in DOMAIN [in |-> c, price |-> p] THEN [in |-> c, price |-> p][f] ELSE d[f]]
        = [in |-> c, price |-> p, open |-> d.open, listed |-> d.listed]
  BY DEF DishRow
<1>3. [f \in DOMAIN d |-> IF f \in DOMAIN [open |-> open] THEN [open |-> open][f] ELSE d[f]]
        = [in |-> d.in, price |-> d.price, open |-> open, listed |-> d.listed]
  BY DEF DishRow
<1> QED
  BY <1>1, <1>2, <1>3 DEF UpdateItem

LEMMA DishKept ==
    ASSUME dish \in Menus, NEW i \in DOMAIN dish, NEW q \in DishRow
    PROVE  [dish EXCEPT ![i] = q] \in Menus
<1>1. [dish EXCEPT ![i] = q] \in [DOMAIN dish -> DishRow] /\ DOMAIN dish \in SUBSET Item
  BY TreeFacts
<1> QED
  BY <1>1, FunctionFacts

LEMMA SaveKeeps ==
    ASSUME MenuInv, NEW i \in Item, NEW c \in Category, NEW p \in Price, SaveItem(i, c, p)
    PROVE  MenuInv'
<1>1. /\ Exists(c) /\ i \in DOMAIN dish /\ UpdateItem(i, [in |-> c, price |-> p])
      /\ repriced' = IF p # dish[i].price /\ page.at \in {"items", "open", "sent"} THEN repriced \union {i} ELSE repriced
      /\ ItemEdit /\ UNCHANGED <<used, job, parent, page, lines, torn>>
  BY DEF SaveItem, UpdateItem, OnMenu, ItemEdit, pageVars
<1>2. DishesOK
  BY DEF MenuInv
<1>3. PICK d \in DishRow : d = dish[i]
  BY <1>1, <1>2, TreeFacts DEF DishesOK
<1>4. PICK q : q = [in |-> c, price |-> p, open |-> d.open, listed |-> d.listed]
  OBVIOUS
<1>5. q \in DishRow /\ q.in = c /\ q.price = p /\ q.listed = d.listed
  BY <1>4 DEF DishRow
<1>6. dish' = [dish EXCEPT ![i] = q]
  BY <1>1, <1>2, <1>3, <1>4, Patched
<1>7. DishesOK'
  BY <1>1, <1>2, <1>5, <1>6, DishKept DEF DishesOK, Exists
<1>8. ListedOnce => ListedOnce'
  BY <1>3, <1>5, <1>6 DEF ListedOnce
<1>9. \A x \in DOMAIN dish' : x \in DOMAIN dish /\ (dish'[x].price = dish[x].price \/ (x = i /\ p # dish[i].price))
  BY <1>3, <1>5, <1>6
<1>10. repriced' = repriced \/ (page.at \in {"items", "open", "sent"} /\ repriced \subseteq repriced')
  BY <1>1
<1>11. DOMAIN dish' = DOMAIN dish /\ DOMAIN dish \subseteq used
  BY <1>2, <1>6 DEF DishesOK
<1>12. PageOK'
  BY <1>1, <1>9, <1>10, <1>11, PageAndDishes DEF MenuInv
<1>13. job' \in [Editor -> Job] /\ JobsFit'
  BY <1>1, <1>11, JobsKept
<1> QED
  BY <1>1, <1>7, <1>8, <1>12, <1>13, ItemEdited

LEMMA ToggleKeeps ==
    ASSUME MenuInv, NEW i \in Item, ToggleAvailability(i)
    PROVE  MenuInv'
<1>1. /\ i \in DOMAIN dish /\ UpdateItem(i, [open |-> ~dish[i].open])
      /\ ItemEdit /\ UNCHANGED <<used, job, parent, page, lines, torn, repriced>>
  BY DEF ToggleAvailability, OnMenu, ItemEdit, pageVars
<1>2. DishesOK
  BY DEF MenuInv
<1>3. PICK d \in DishRow : d = dish[i]
  BY <1>1, <1>2, TreeFacts DEF DishesOK
<1>4. PICK q : q = [in |-> d.in, price |-> d.price, open |-> ~d.open, listed |-> d.listed]
  OBVIOUS
<1>5. q \in DishRow /\ q.in = d.in /\ q.price = d.price /\ q.listed = d.listed
  BY <1>4 DEF DishRow
<1>6. dish' = [dish EXCEPT ![i] = q]
  <2>1. d.in \in Category /\ d.price \in Price
    BY DEF DishRow
  <2> QED
    BY <2>1, <1>1, <1>2, <1>3, <1>4, Patched
<1>7. DishesOK'
  BY <1>1, <1>2, <1>3, <1>5, <1>6, DishKept DEF DishesOK, Exists
<1>8. ListedOnce => ListedOnce'
  BY <1>3, <1>5, <1>6 DEF ListedOnce
<1>9. \A x \in DOMAIN dish' : x \in DOMAIN dish /\ dish'[x].price = dish[x].price
  BY <1>3, <1>5, <1>6
<1>10. DOMAIN dish' = DOMAIN dish /\ DOMAIN dish \subseteq used
  BY <1>2, <1>6 DEF DishesOK
<1>11. PageOK'
  BY <1>1, <1>9, <1>10, PageAndDishes DEF MenuInv
<1>12. job' \in [Editor -> Job] /\ JobsFit'
  BY <1>1, <1>10, JobsKept
<1> QED
  BY <1>1, <1>7, <1>8, <1>11, <1>12, ItemEdited

(* The lines of a placed order keep their items.                            *)
LEMMA RemoveKeeps ==
    ASSUME MenuInv, NEW i \in Item, DeleteItem(i)
    PROVE  MenuInv'
<1>1. /\ i \in DOMAIN dish /\ (\A l \in lines : l.placed => l.item # i) /\ dish' = Without(dish, i)
      /\ ItemEdit /\ UNCHANGED <<used, job, parent, page, lines, torn, repriced>>
  BY DEF DeleteItem, OnMenu, ItemEdit, pageVars
<1>2. DishesOK
  BY DEF MenuInv
<1>3. /\ DOMAIN dish' = DOMAIN dish \ {i} /\ \A d \in DOMAIN dish' : dish'[d] = dish[d]
      /\ dish' \in [DOMAIN dish' -> {dish'[d] : d \in DOMAIN dish'}]
  BY <1>1 DEF Without
<1>4. DishesOK'
  <2>1. dish' \in [DOMAIN dish' -> DishRow] /\ DOMAIN dish' \in SUBSET Item
    BY <1>2, <1>3, TreeFacts DEF DishesOK
  <2>2. dish' \in Menus
    BY <2>1, FunctionFacts
  <2> QED
    BY <2>2, <1>1, <1>2, <1>3 DEF DishesOK, Exists
<1>5. ListedOnce => ListedOnce'
  BY <1>3 DEF ListedOnce
<1>6. page.at = "placed" => \A l \in lines : l.item # i
  BY <1>1 DEF MenuInv, PageOK, LinesFit
<1>7. DOMAIN dish \subseteq used
  BY <1>2 DEF DishesOK
<1>8. PageOK'
  BY <1>1, <1>3, <1>6, <1>7, PageAndDishes DEF MenuInv
<1>9. job' \in [Editor -> Job] /\ JobsFit'
  BY <1>1, <1>3, JobsKept
<1> QED
  BY <1>1, <1>4, <1>5, <1>8, <1>9, ItemEdited

-----------------------------------------------------------------------------
(* The customer's page *)

(* The steps of the page leave the menu alone.                              *)
LEMMA PageMoved ==
    ASSUME MenuInv, UNCHANGED <<used, parent, dish, had, job, torn, doubled>>, PageOK'
    PROVE  MenuInv'
<1>1. CategoriesOK'
  BY DEF MenuInv, CategoriesOK, MayPoint, Exists
<1>2. DishesOK'
  BY DEF MenuInv, DishesOK, Exists
<1>3. JobsFit'
  BY DEF MenuInv, JobsFit, JobFits, UsableParent, Exists, Childless, SubsOf, MenuIsEmpty
<1>4. (torn \/ TwoDeep(parent))' /\ (doubled \/ ListedOnce)'
  BY DEF MenuInv, ListedOnce
<1> QED
  BY <1>1, <1>2, <1>3, <1>4 DEF MenuInv

(* In a tree two levels deep the two levels that pages draw are everything. *)
LEMMA AllGrouped ==
    ASSUME MenuInv, TwoDeep(parent), NEW c \in DOMAIN parent
    PROVE  c \in Grouped(parent)
<1>1. CASE parent[c] = None
  BY <1>1 DEF Grouped, Mains
<1>2. CASE parent[c] # None
  <2>1. parent[c] \in Mains(parent)
    BY <1>2 DEF TwoDeep, Mains, MenuInv, CategoriesOK, MayPoint, Exists
  <2>2. c \in SubsOf(parent, parent[c])
    BY DEF SubsOf
  <2> QED
    BY <2>1, <2>2 DEF Grouped
<1> QED
  BY <1>1, <1>2

(* What the categories' query brings is not looked at by any check.         *)
LEMMA CategoriesRead ==
    ASSUME MenuInv, ReadCategories
    PROVE  MenuInv'
<1>1. /\ page.at \in {"away", "items"} /\ lines = {} /\ lines' = lines /\ repriced' = repriced
      /\ page' = [page EXCEPT !.at = IF page.at = "away" THEN "tree" ELSE "open", !.tree = parent]
      /\ UNCHANGED <<used, parent, dish, had, job, torn, doubled>>
  BY DEF ReadCategories, PageStep
<1>2. page \in PageRow /\ ShownOK /\ SeenWhole /\ Current /\ parent \in Trees
  BY DEF MenuInv, PageOK, PageTypes, CategoriesOK
<1>3. /\ page' \in PageRow /\ page'.at = IF page.at = "away" THEN "tree" ELSE "open"
      /\ page'.shown = page.shown /\ page'.cart = page.cart /\ page'.seen = page.seen
  BY <1>1, <1>2 DEF PageRow
<1>4. PageTypes'
  BY <1>1, <1>3 DEF PageTypes
<1>5. ShownOK' /\ SeenWhole' /\ Current' /\ LinesFit'
  BY <1>1, <1>2, <1>3 DEF ShownOK, SeenWhole, Loaded, Current, LinesFit, OnMenu
<1>6. PageOK'
  BY <1>1, <1>3, <1>4, <1>5 DEF PageOK
<1> QED
  BY <1>1, <1>6, PageMoved

(* What the items' query brings is the menu of that moment.                 *)
LEMMA ItemsRead ==
    ASSUME MenuInv, ReadItems
    PROVE  MenuInv'
<1>1. /\ page.at \in {"away", "tree"} /\ lines = {} /\ lines' = lines
      /\ page' = [page EXCEPT !.at = IF page.at = "away" THEN "items" ELSE "open", !.shown = dish, !.seen = parent]
      /\ UNCHANGED <<used, parent, dish, had, job, torn, doubled>>
  BY DEF ReadItems, PageStep
<1>2. page \in PageRow /\ ShownOK /\ parent \in Trees /\ dish \in Menus /\ DOMAIN dish \subseteq used
  BY DEF MenuInv, PageOK, PageTypes, CategoriesOK, DishesOK
<1>3. /\ page' \in PageRow /\ page'.at = IF page.at = "away" THEN "items" ELSE "open"
      /\ page'.shown = dish /\ page'.cart = page.cart /\ page'.seen = parent
  BY <1>1, <1>2 DEF PageRow
<1>4. PageTypes'
  BY <1>1, <1>3 DEF PageTypes
<1>5. page.cart = {}
  BY <1>1, <1>2 DEF ShownOK, Loaded
<1>6. SeenWhole'
  <2>1. ~torn => \A i \in DOMAIN dish : dish[i].in \in Grouped(parent)
    BY AllGrouped DEF MenuInv, DishesOK, Exists
  <2> QED
    BY <1>1, <1>3, <2>1 DEF SeenWhole
<1>7. ShownOK' /\ Current' /\ LinesFit'
  BY <1>1, <1>2, <1>3, <1>5 DEF ShownOK, Loaded, Current, LinesFit
<1>8. PageOK'
  BY <1>1, <1>3, <1>4, <1>6, <1>7 DEF PageOK
<1> QED
  BY <1>1, <1>8, PageMoved

LEMMA PickKeeps ==
    ASSUME MenuInv, NEW i \in Item, Pick(i)
    PROVE  MenuInv'
<1>1. /\ page.at = "open" /\ i \in DOMAIN page.shown
      /\ page' = [page EXCEPT !.cart = SymDiff(page.cart, {i})]
      /\ UNCHANGED <<lines, repriced, used, parent, dish, had, job, torn, doubled>>
  BY DEF Pick, PageStep
<1>2. PageTypes /\ ShownOK /\ SeenWhole /\ Current /\ LinesFit
  BY DEF MenuInv, PageOK
<1>3. PICK cart : cart = SymDiff(page.cart, {i})
  OBVIOUS
<1>4. cart \subseteq page.cart \union {i}
  BY <1>3 DEF SymDiff
<1>5. /\ page' \in PageRow /\ page'.at = "open" /\ page'.shown = page.shown
      /\ page'.cart = cart /\ page'.seen = page.seen
  BY <1>1, <1>2, <1>3, <1>4 DEF PageTypes, PageRow
<1>6. PageTypes'
  BY <1>1, <1>2, <1>5 DEF PageTypes
<1>7. ShownOK' /\ SeenWhole' /\ Current' /\ LinesFit'
  BY <1>1, <1>2, <1>4, <1>5 DEF ShownOK, SeenWhole, Loaded, Current, LinesFit, OnMenu
<1>8. PageOK'
  BY <1>5, <1>6, <1>7 DEF PageOK
<1> QED
  BY <1>1, <1>8, PageMoved

LEMMA SubmitKeeps ==
    ASSUME MenuInv, Submit
    PROVE  MenuInv'
<1>1. /\ page.at = "open" /\ page.cart # {} /\ page' = [page EXCEPT !.at = "sent"]
      /\ UNCHANGED <<lines, repriced, used, parent, dish, had, job, torn, doubled>>
  BY DEF Submit, PageStep
<1>2. PageTypes /\ ShownOK /\ SeenWhole /\ Current /\ LinesFit
  BY DEF MenuInv, PageOK
<1>3. /\ page' \in PageRow /\ page'.at = "sent" /\ page'.shown = page.shown
      /\ page'.cart = page.cart /\ page'.seen = page.seen
  BY <1>1, <1>2 DEF PageTypes, PageRow
<1>4. PageTypes'
  BY <1>1, <1>2, <1>3 DEF PageTypes
<1>5. ShownOK' /\ SeenWhole' /\ Current' /\ LinesFit'
  BY <1>1, <1>2, <1>3 DEF ShownOK, SeenWhole, Loaded, Current, LinesFit, OnMenu
<1>6. PageOK'
  BY <1>1, <1>3, <1>4, <1>5 DEF PageOK
<1> QED
  BY <1>1, <1>6, PageMoved

(* The lines take the prices of the moment, which are the ones shown unless *)
(* the item has been repriced.                                              *)
LEMMA PriceKeeps ==
    ASSUME MenuInv, PriceOrder
    PROVE  MenuInv'
<1> DEFINE found == Found(page.cart)
<1>1. /\ page.at = "sent" /\ repriced' = repriced /\ UNCHANGED <<used, parent, dish, had, job, torn, doubled>>
      /\ \/ /\ DOMAIN found = page.cart /\ page' = [page EXCEPT !.at = "priced"]
            /\ lines' = {[item |-> i, price |-> found[i].price, placed |-> FALSE] : i \in page.cart}
         \/ Rejected
  BY DEF PriceOrder, PageStep
<1>2. PageTypes /\ ShownOK /\ SeenWhole /\ Current /\ page.cart # {} /\ DishesOK
  BY <1>1 DEF MenuInv, PageOK
<1>3. page \in PageRow
  BY <1>2 DEF PageTypes
<1>4. CASE Rejected
  <2>1. /\ page' \in PageRow /\ page'.at = "open" /\ page'.shown = page.shown
        /\ page'.cart = page.cart /\ page'.seen = page.seen
    BY <1>3, <1>4 DEF Rejected, PageRow
  <2>2. PageTypes'
    BY <1>2, <1>4, <2>1 DEF Rejected, PageTypes
  <2>3. ShownOK' /\ SeenWhole' /\ Current' /\ LinesFit'
    BY <1>1, <1>2, <2>1 DEF ShownOK, SeenWhole, Loaded, Current, LinesFit, OnMenu
  <2>4. PageOK'
    BY <2>1, <2>2, <2>3 DEF PageOK
  <2> QED
    BY <1>1, <2>4, PageMoved
<1>5. CASE /\ DOMAIN found = page.cart /\ page' = [page EXCEPT !.at = "priced"]
           /\ lines' = {[item |-> i, price |-> found[i].price, placed |-> FALSE] : i \in page.cart}
  <2>1. /\ page' \in PageRow /\ page'.at = "priced" /\ page'.shown = page.shown
        /\ page'.cart = page.cart /\ page'.seen = page.seen
    BY <1>3, <1>5 DEF PageRow
  <2>2. ASSUME NEW i \in page.cart
        PROVE  i \in DOMAIN dish /\ found[i].price = dish[i].price /\ dish[i].price \in Price /\ i \in Item
    <3>1. DOMAIN found = page.cart \intersect DOMAIN dish
      BY DEF Found
    <3>2. i \in DOMAIN dish /\ i \in page.cart \intersect DOMAIN dish
      BY <3>1, <1>5
    <3>3. found[i] = dish[i]
      BY <3>2 DEF Found
    <3>4. dish[i] \in DishRow /\ i \in Item
      BY <3>2, <1>2, TreeFacts DEF DishesOK
    <3> QED
      BY <3>2, <3>3, <3>4 DEF DishRow
  <2>3. lines' = {[item |-> i, price |-> dish[i].price, placed |-> FALSE] : i \in page.cart}
    BY <1>5, <2>2
  <2>4. \A l \in lines' : /\ l \in Line /\ l.item \in page.cart
                          /\ l.placed = FALSE /\ l.price = dish[l.item].price
    <3> SUFFICES ASSUME NEW l \in lines'
                 PROVE  /\ l \in Line /\ l.item \in page.cart
                        /\ l.placed = FALSE /\ l.price = dish[l.item].price
      OBVIOUS
    <3>1. PICK i \in page.cart : l = [item |-> i, price |-> dish[i].price, placed |-> FALSE]
      BY <2>3
    <3> QED
      BY <3>1, <2>2 DEF Line
  <2>5. PageTypes'
    BY <2>1, <2>4 DEF PageTypes
  <2>6. \A i \in page.cart : \E l \in lines' : l.item = i
    <3> SUFFICES ASSUME NEW i \in page.cart
                 PROVE  \E l \in lines' : l.item = i
      OBVIOUS
    <3>1. [item |-> i, price |-> dish[i].price, placed |-> FALSE] \in lines'
      BY <2>3
    <3> QED
      BY <3>1
  <2>7. ASSUME NEW l \in lines', l.item \notin repriced
        PROVE  l.price = page.shown[l.item].price
    <3>1. OnMenu(l.item) /\ l.item \in DOMAIN page.shown
      BY <1>1, <1>2, <2>2, <2>4 DEF OnMenu, ShownOK, Loaded
    <3>2. dish[l.item].price = page.shown[l.item].price
      BY <1>1, <1>2, <2>7, <3>1 DEF Current
    <3> QED
      BY <3>2, <2>4
  <2>8. ShownOK' /\ SeenWhole' /\ Current'
    BY <1>1, <1>2, <2>1 DEF ShownOK, SeenWhole, Loaded, Current
  <2>9. LinesFit'
    <3>1. \A l \in lines' : l.item \notin repriced' => l.price = page'.shown[l.item].price
      BY <1>1, <2>1, <2>7
    <3> QED
      BY <2>1, <2>4, <2>6, <3>1 DEF LinesFit
  <2>10. PageOK'
    BY <1>2, <2>1, <2>5, <2>8, <2>9 DEF PageOK
  <2> QED
    BY <1>1, <2>10, PageMoved
<1> QED
  BY <1>1, <1>4, <1>5

(* Placing changes nothing about the lines' prices; when it fails, what     *)
(* was repriced while the server was at it is known as such.                *)
LEMMA PlaceKeeps ==
    ASSUME MenuInv, InsertOrder
    PROVE  MenuInv'
<1>1. /\ page.at = "priced" /\ UNCHANGED <<used, parent, dish, had, job, torn, doubled>>
      /\ \/ /\ (\A i \in page.cart : OnMenu(i)) /\ page' = [page EXCEPT !.at = "placed"]
            /\ lines' = {[l EXCEPT !.placed = TRUE] : l \in lines} /\ repriced' = repriced
         \/ /\ page' = [page EXCEPT !.at = "open"] /\ lines' = {}
            /\ repriced' = repriced \union
                   {i \in DOMAIN page.shown \intersect DOMAIN dish : dish[i].price # page.shown[i].price}
  BY DEF InsertOrder, PageStep
<1>2. PageTypes /\ ShownOK /\ SeenWhole /\ LinesFit /\ page.cart # {}
  BY <1>1 DEF MenuInv, PageOK
<1>3. page \in PageRow /\ lines \in SUBSET Line
  BY <1>2 DEF PageTypes
<1>4. CASE /\ page' = [page EXCEPT !.at = "open"] /\ lines' = {}
           /\ repriced' = repriced \union
                  {i \in DOMAIN page.shown \intersect DOMAIN dish : dish[i].price # page.shown[i].price}
  <2>1. /\ page' \in PageRow /\ page'.at = "open" /\ page'.shown = page.shown
        /\ page'.cart = page.cart /\ page'.seen = page.seen
    BY <1>3, <1>4 DEF PageRow
  <2>2. PageTypes'
    BY <1>4, <2>1 DEF PageTypes
  <2>3. ShownOK' /\ SeenWhole' /\ LinesFit'
    BY <1>1, <1>2, <2>1 DEF ShownOK, SeenWhole, Loaded, LinesFit
  <2>4. Current'
    BY <1>1, <1>4, <2>1 DEF Current, OnMenu
  <2>5. PageOK'
    BY <2>1, <2>2, <2>3, <2>4 DEF PageOK
  <2> QED
    BY <1>1, <2>5, PageMoved
<1>5. CASE /\ (\A i \in page.cart : OnMenu(i)) /\ page' = [page EXCEPT !.at = "placed"]
           /\ lines' = {[l EXCEPT !.placed = TRUE] : l \in lines} /\ repriced' = repriced
  <2>1. /\ page' \in PageRow /\ page'.at = "placed" /\ page'.shown = page.shown
        /\ page'.cart = page.cart /\ page'.seen = page.seen
    BY <1>3, <1>5 DEF PageRow
  <2>2. \A l \in lines : LET n == [l EXCEPT !.placed = TRUE]
                         IN  n \in Line /\ n.item = l.item /\ n.price = l.price /\ n.placed = TRUE
    <3>1. \A l \in Line : LET n == [l EXCEPT !.placed = TRUE]
                          IN  n \in Line /\ n.item = l.item /\ n.price = l.price /\ n.placed = TRUE
      BY DEF Line
    <3> QED
      BY <3>1, <1>3
  <2>3. PageTypes'
    BY <1>5, <2>1, <2>2 DEF PageTypes
  <2>4. \A n \in lines' : n.placed = TRUE /\ \E l \in lines : n.item = l.item /\ n.price = l.price
    BY <1>5, <2>2
  <2>5. \A l \in lines : \E n \in lines' : n.item = l.item
    BY <1>5, <2>2
  <2>6. LinesFit'
    <3>1. ASSUME NEW n \in lines'
          PROVE  /\ n.item \in page.cart /\ n.placed = TRUE
                 /\ n.item \notin repriced' => n.price = page.shown[n.item].price
      <4>1. PICK l \in lines : n.item = l.item /\ n.price = l.price
        BY <2>4
      <4> QED
        BY <1>1, <1>2, <1>5, <2>4, <4>1 DEF LinesFit
    <3>2. ASSUME NEW i \in page.cart
          PROVE  \E n \in lines' : n.item = i
      <4>1. PICK l \in lines : l.item = i
        BY <1>1, <1>2 DEF LinesFit
      <4> QED
        BY <2>5, <4>1
    <3> QED
      BY <2>1, <3>1, <3>2 DEF LinesFit
  <2>7. ShownOK' /\ SeenWhole' /\ Current'
    BY <1>1, <1>2, <2>1 DEF ShownOK, SeenWhole, Loaded, Current
  <2>8. \A n \in lines' : OnMenu(n.item)'
    BY <1>1, <1>2, <1>5, <2>4 DEF LinesFit, OnMenu
  <2>9. PageOK'
    BY <1>2, <2>1, <2>3, <2>6, <2>7, <2>8 DEF PageOK
  <2> QED
    BY <1>1, <2>9, PageMoved
<1> QED
  BY <1>1, <1>4, <1>5

LEMMA PageAway ==
    /\ Away \in PageRow /\ Away.at = "away" /\ Away.cart = {}
  BY DEF Away, PageRow

(* A reset takes the order away.                                            *)
LEMMA ResetKeeps ==
    ASSUME MenuInv, ResetClearsLines
    PROVE  MenuInv'
<1>1. /\ \/ lines' = {} /\ page' = Away
         \/ UNCHANGED <<page, lines>>
      /\ UNCHANGED <<used, parent, dish, had, job, torn, doubled, repriced>>
  BY DEF ResetClearsLines, pageVars
<1>2. CASE lines' = {} /\ page' = Away
  <2>1. PageTypes'
    BY <1>2, PageAway DEF PageTypes
  <2>2. ShownOK' /\ SeenWhole' /\ Current' /\ LinesFit'
    BY <1>2, PageAway DEF ShownOK, SeenWhole, Loaded, Current, LinesFit
  <2>3. PageOK'
    BY <1>2, <2>1, <2>2, PageAway DEF PageOK
  <2> QED
    BY <1>1, <2>3, PageMoved
<1>3. CASE UNCHANGED <<page, lines>>
  BY <1>1, <1>3, PageKept, PageMoved DEF MenuInv
<1> QED
  BY <1>1, <1>2, <1>3

-----------------------------------------------------------------------------
(* The invariant *)

LEMMA MenuInvStep ==
    ASSUME MenuInv, [Next]_vars
    PROVE  MenuInv'
<1>1. CASE UNCHANGED menuVars
  <2>1. UNCHANGED <<used, parent, dish, had, job, page, lines, torn, doubled, repriced>>
    BY <1>1 DEF menuVars
  <2>2. PageOK'
    BY <2>1, PageKept DEF MenuInv
  <2> QED
    BY <2>1, <2>2, PageMoved
<1>2. ASSUME NEW e \in Editor,
             \/ AddCategory(e) \/ SaveCategory(e) \/ AssertUsableParent(e) \/ CountChildren(e)
             \/ InsertCategory(e) \/ UpdateCategory(e) \/ StatementFails(e)
             \/ RegroupRead(e) \/ RegroupWrite(e) \/ ImportCount(e) \/ ImportWrite(e)
      PROVE  MenuInv'
  BY <1>2, AskSteps, PlanKeeps, CheckSteps, InsertKeeps, UpdateKeeps, RegroupKeeps, ImportKeeps
<1>3. ASSUME NEW c \in Category, DeleteCategory(c)
      PROVE  MenuInv'
  BY <1>3, DeleteKeeps
<1>4. ASSUME NEW i \in Item,
             \/ \E c \in Category, p \in Price : AddItem(i, c, p) \/ SaveItem(i, c, p)
             \/ ToggleAvailability(i) \/ DeleteItem(i)
      PROVE  MenuInv'
  BY <1>4, AddKeeps, SaveKeeps, ToggleKeeps, RemoveKeeps
<1>5. CASE PageNext \/ ResetClearsLines
  BY <1>5, CategoriesRead, ItemsRead, PickKeeps, SubmitKeeps, PriceKeeps, PlaceKeeps, ResetKeeps DEF PageNext
<1> QED
  BY <1>1, <1>2, <1>3, <1>4, <1>5, MenuSteps

LEMMA MenuInvInit ==
    ASSUME Init
    PROVE  MenuInv
<1>1. PICK tops \in SUBSET Category :
          /\ parent \in [tops -> tops \union {None}] /\ TwoDeep(parent)
          /\ dish \in UNION {[here -> [in : tops, price : Price, open : {TRUE}, listed : {None}]] : here \in SUBSET Item}
          /\ used = tops \union DOMAIN dish
  BY DEF Init, MenuInit
<1>2. PICK here \in SUBSET Item : dish \in [here -> [in : tops, price : Price, open : {TRUE}, listed : {None}]]
  BY <1>1
<1>3. /\ had = {parent} /\ job = [e \in Editor |-> Idle] /\ page = Away
      /\ lines = {} /\ torn = FALSE /\ doubled = FALSE
  BY DEF Init, MenuInit
<1>4. CategoriesOK
  <2>1. parent \in [tops -> Parent]
    BY <1>1 DEF Parent
  <2>2. parent \in Trees
    BY <2>1, FunctionFacts
  <2> QED
    BY <2>2, <1>1, <1>3, IdleFits DEF CategoriesOK, MayPoint, Exists
<1>5. DOMAIN dish = here /\ \A i \in here : dish[i] \in DishRow /\ dish[i].in \in tops /\ dish[i].listed = None
  BY <1>2 DEF DishRow
<1>6. DishesOK
  <2>1. dish \in [here -> DishRow]
    BY <1>2, <1>5
  <2>2. dish \in Menus
    BY <2>1, FunctionFacts
  <2> QED
    BY <2>2, <1>1, <1>5 DEF DishesOK, Exists
<1>7. JobsFit
  BY <1>3, IdleFits DEF JobsFit
<1>8. ListedOnce
  BY <1>5 DEF ListedOnce
<1>9. PageOK
  BY <1>3, PageAway DEF PageOK, PageTypes, ShownOK, SeenWhole, Loaded, Current, LinesFit
<1> QED
  BY <1>1, <1>4, <1>6, <1>7, <1>8, <1>9 DEF MenuInv

(* What a request found before it writes still stands, unless another edit  *)
(* is recorded to have come in between; what the customer's page shows is   *)
(* the menu's, but for what is recorded as repriced.                        *)
THEOREM MenuInvariant == Spec => []MenuInv
  BY MenuInvInit, MenuInvStep, PTL DEF Spec

-----------------------------------------------------------------------------
(* The theorems *)

(* Placing an order adds to the history, and what takes from the history    *)
(* takes the order from the page.                                           *)
LEMMA PlacedCounts ==
    ASSUME AccountsInv, AccountsInv', page.at = "placed" => orders > 0, [Next]_vars
    PROVE  page'.at = "placed" => orders' > 0
<1>1. orders \in Nat /\ orders' \in Nat
  BY DEF AccountsInv, SessionsOK
<1>2. CASE UNCHANGED vars
  BY <1>2 DEF vars, menuVars, accountsVars
<1>3. CASE MenuNext /\ IF Placed THEN Trade ELSE UNCHANGED accountsVars
  BY <1>1, <1>3 DEF Placed, Trade, accountsVars
<1>4. CASE AccountsNext /\ IF orders' < orders THEN ResetClearsLines ELSE UNCHANGED menuVars
  <2>1. CASE orders' < orders
    BY <1>4, <2>1, PageAway DEF ResetClearsLines, pageVars
  <2>2. CASE ~(orders' < orders)
    BY <1>1, <1>4, <2>2 DEF menuVars
  <2> QED
    BY <2>1, <2>2
<1> QED
  BY <1>2, <1>3, <1>4 DEF Next

(* Menu, page and accounts keep their types; items are in categories that   *)
(* exist, the items of a placed order stay, and it is in the history.       *)
THEOREM BackOfficeTypes == Spec => []TypeOK
<1> DEFINE InHistory == page.at = "placed" => orders > 0
<1>1. ASSUME MenuInv
      PROVE  MenuTypeOK
  <2>1. /\ DOMAIN parent \subseteq Category /\ \A c \in DOMAIN parent : MayPoint(parent[c])
    BY <1>1, TreeFacts DEF MenuInv, CategoriesOK
  <2>2. /\ DOMAIN dish \subseteq Item /\ \A i \in DOMAIN dish : Exists(dish[i].in) /\ dish[i].price \in Price
        /\ DOMAIN parent \union DOMAIN dish \subseteq used
    <3>1. \A i \in DOMAIN dish : dish[i] \in DishRow
      BY <1>1, TreeFacts DEF MenuInv, DishesOK
    <3> QED
      BY <1>1, <3>1, TreeFacts DEF MenuInv, DishesOK, DishRow
  <2>3. /\ page.at \in {"away", "tree", "items", "open", "sent", "priced", "placed"}
        /\ page.at = "placed" => lines # {} /\ \A l \in lines : OnMenu(l.item)
    BY <1>1 DEF MenuInv, PageOK, PageTypes, PageRow, LinesFit
  <2> QED
    BY <2>1, <2>2, <2>3 DEF MenuTypeOK
<1>2. Init => InHistory
  BY PageAway DEF Init, MenuInit
<1>3. AccountsInv /\ AccountsInv' /\ InHistory /\ [Next]_vars => InHistory'
  BY PlacedCounts
<1>4. MenuTypeOK /\ AccountsTypeOK /\ InHistory => TypeOK
  BY DEF TypeOK
<1> HIDE DEF InHistory
<1> QED
  BY <1>1, <1>2, <1>3, <1>4, MenuInvariant, AccountsInvariant, AccountsTypes, PTL DEF Spec

(* Every item that the customer's page has loaded is under one of its tabs, *)
(* and no product of a price list is on the menu twice, for any number of   *)
(* admins, scripts, categories and rows, but for the overlaps named at      *)
(* MenuIsWhole.                                                             *)
THEOREM MenuStaysWhole == Spec => []MenuIsWhole
<1>1. ASSUME MenuInv
      PROVE  MenuIsWhole
  <2>1. SeenWhole /\ (doubled \/ ListedOnce)
    BY <1>1 DEF MenuInv, PageOK
  <2> QED
    BY <2>1 DEF SeenWhole, Loaded, MenuIsWhole, Browsed, ListedOnce
<1> QED
  BY <1>1, MenuInvariant, PTL

(* What is charged is the sum of what was shown: the lines of the order are *)
(* the items of the cart at the prices of the page.                         *)
THEOREM OrdersChargedAsShown == Spec => []ChargedAsShown
<1>1. ASSUME MenuInv, page.at = "placed", page.cart \intersect repriced = {}
      PROVE  {[item |-> l.item, price |-> l.price] : l \in lines}
                = {[item |-> i, price |-> page.shown[i].price] : i \in page.cart}
  <2> DEFINE charged == {[item |-> l.item, price |-> l.price] : l \in lines}
             confirmed == {[item |-> i, price |-> page.shown[i].price] : i \in page.cart}
  <2>1. LinesFit
    BY <1>1 DEF MenuInv, PageOK
  <2>2. \A l \in lines : l.item \in page.cart /\ l.price = page.shown[l.item].price
    BY <1>1, <2>1 DEF LinesFit
  <2>3. \A i \in page.cart : \E l \in lines : l.item = i
    BY <1>1, <2>1 DEF LinesFit
  <2>4. ASSUME NEW x \in charged
        PROVE  x \in confirmed
    <3>1. PICK l \in lines : x = [item |-> l.item, price |-> l.price]
      OBVIOUS
    <3> QED
      BY <2>2, <3>1
  <2>5. ASSUME NEW x \in confirmed
        PROVE  x \in charged
    <3>1. PICK i \in page.cart : x = [item |-> i, price |-> page.shown[i].price]
      OBVIOUS
    <3>2. PICK l \in lines : l.item = i
      BY <2>3
    <3> QED
      BY <2>2, <3>1, <3>2
  <2> QED
    BY <2>4, <2>5
<1>2. MenuInv => ChargedAsShown
  BY <1>1 DEF ChargedAsShown, OrderTotal, Confirmed
<1> QED
  BY <1>2, MenuInvariant, PTL
=============================================================================
