--------------------------- MODULE RealtimeProofs ---------------------------
(***************************************************************************)
(* What holds of the screens for any number of pages of every kind that    *)
(* are open together, of requests, loads and lost connections, and for     *)
(* orders of any size.                                                      *)
(***************************************************************************)
EXTENDS Realtime, SequenceTheorems, TLAPS

(* What a page can show, and an answer on its way.                          *)
Statuses == [Item -> Status]
Queues == UNION {[some -> Status] : some \in SUBSET Item}
Assignee == Waiter \union {None}
Sessions == [item: Statuses, bill: {"none", "unpaid", "paid"}, waiter: Assignee, calling: BOOLEAN]
Screen ==
    {Nothing} \union [item: Statuses] \union [queue: Queues] \union [queue: Queues, waiter: Assignee]
      \union [listed: Sessions \union {Nothing}, idle: BOOLEAN]
ScreenOf(c) ==
    {Nothing} \union
      CASE KindOf[c] = "track"   -> [item: Statuses]
        [] KindOf[c] = "station" -> [queue: Queues]
        [] KindOf[c] = "board"   -> [queue: Queues, waiter: Assignee]
        [] OTHER                 -> [listed: Sessions \union {Nothing}, idle: BOOLEAN]
Answer == [shows: Screen, overtaken: BOOLEAN]

What == Broadcasts \union {"assign", "receipt", "call", "finalize", "announce", "close"}
Step == {s \in [what: What, of: SUBSET (Station \union Waiter)] : s.what = "assign" => s.of \subseteq Waiter}
Row == [todo: Seq(Step), by: Page \union {None}, busy: BOOLEAN]

Types ==
    /\ item \in Statuses
    /\ bill \in {"none", "unpaid", "paid"}
    /\ waiter \in Assignee
    /\ seated \in BOOLEAN /\ calling \in BOOLEAN /\ announced \in BOOLEAN
    /\ request \in [Request -> Row]
    /\ conn \in [Page -> Connection]
    /\ view \in [Page -> Screen]
    /\ asked \in [Page -> Nat]
    /\ answers \in [Page -> Seq(Answer)]
    /\ blind \subseteq Page /\ outdated \subseteq Page

-----------------------------------------------------------------------------
(* The invariant *)

(* What is left of a request: a waiter or a call is announced after it was  *)
(* written, the completion check comes last, only a paid order is announced *)
(* complete, and its room is closed after that.                             *)
After(todo, k, what) == \E m \in 1 .. Len(todo) : k < m /\ todo[m].what = what
TodoFits(todo, owed, told) ==
    \A k \in 1 .. Len(todo) :
        /\ todo[k].what \in {"assign", "call"} => After(todo, k, "admin") /\ After(todo, k, "waiter")
        /\ todo[k].what = "finalize" => k = Len(todo)
        /\ todo[k].what = "announce" => owed = "paid"
        /\ todo[k].what = "close" => told = TRUE \/ \E m \in 1 .. Len(todo) : m = k - 1 /\ todo[m].what = "announce"

RequestFits(r) ==
    /\ TodoFits(request[r].todo, bill, announced) /\ Len(request[r].todo) <= 5
    /\ ~request[r].busy => request[r].todo = <<>>
    /\ request[r].by # None => Opened(request[r].by)

OrderFits ==
    /\ bill # "none" => \A i \in Item : item[i] # "none"
    /\ announced => bill = "paid" /\ \A c \in Page : KindOf[c] = "track" => conn[c] # "live"
    /\ \A c \in Page : conn[c] \in {"done", "missed"} => announced

(* A step that will make page c load, as things are now.                    *)
Hears(c, step) ==
    \/ KindOf[c] \in {"station", "board"} /\ step.what = "station" /\ StationOf[c] \in step.of
    \/ KindOf[c] = "track" /\ step.what = "order"
    \/ KindOf[c] = "floor" /\ step.what = "admin"
    \/ KindOf[c] = "waiter" /\ (step.what = "waiter" \/ (step.what = "previous" /\ UserOf[c] \in step.of))
WillTell(step, c) == Hears(c, step) /\ (step.what = "waiter" => waiter \in {UserOf[c], None})
ListTells(todo, c) == \E k \in 1 .. Len(todo) : WillTell(todo[k], c)
Pending(c) == \E r \in Request : \E k \in 1 .. Len(request[r].todo) : WillTell(request[r].todo[k], c)

(* The answer read last, unless it has been shown and replaced since.       *)
Fresh(c) == answers[c] # <<>> /\ ~answers[c][Len(answers[c])].overtaken
Latest(c) == IF Fresh(c) THEN answers[c][Len(answers[c])].shows ELSE view[c]

CaughtUp(c) ==
    Opened(c) /\ c \notin blind /\ asked[c] = 0 /\ ~Pending(c) /\ (Fresh(c) \/ c \notin outdated)
        => Latest(c) = Shown(c)

PageFits(c) ==
    /\ ~Opened(c) => view[c] = Nothing /\ asked[c] = 0 /\ answers[c] = <<>>
    /\ Opened(c) /\ KindOf[c] = "track" => bill # "none"
    /\ answers[c] # <<>> /\ ~Fresh(c) => \A k \in 1 .. Len(answers[c]) : answers[c][k].overtaken
    /\ asked[c] + Len(answers[c]) <= MaxLoads

ViewFits(c) ==
    view[c] \in ScreenOf(c) /\ \A k \in 1 .. Len(answers[c]) : answers[c][k].shows \in ScreenOf(c)

ScreensInv ==
    /\ Types /\ OrderFits
    /\ \A r \in Request : RequestFits(r)
    /\ \A c \in Page : PageFits(c) /\ CaughtUp(c)

-----------------------------------------------------------------------------
(* Rooms and screens *)

(* What a load returns is something a page of that kind can show.           *)
LEMMA ScreenType ==
    ASSUME Types, NEW c \in Page
    PROVE  Shown(c) \in Screen /\ Shown(c) \in ScreenOf(c)
<1>1. \A d, hidden : Queue(d, hidden) \in Queues
  <2> SUFFICES ASSUME NEW d, NEW hidden
               PROVE  Queue(d, hidden) \in Queues
    OBVIOUS
  <2> DEFINE some == {j \in Item : DestinationOf[j] = d /\ item[j] \notin hidden}
  <2>1. Queue(d, hidden) \in [some -> Status] /\ some \in SUBSET Item
    BY DEF Queue, Types, Statuses
  <2> QED
    BY <2>1 DEF Queues
<1>2. Session \in Sessions /\ TrackedOrder \in [item: Statuses]
  BY DEF Session, Sessions, TrackedOrder, Types
<1>3. \A d : QueueForDestination(d) \in [queue: Queues] /\ StationBoard(d) \in [queue: Queues, waiter: Assignee]
  BY <1>1 DEF QueueForDestination, StationBoard, Types
<1>4. CASE KindOf[c] = "track"
  BY <1>2, <1>4 DEF Shown, Screen, ScreenOf
<1>5. CASE KindOf[c] = "station"
  BY <1>3, <1>5 DEF Shown, Screen, ScreenOf
<1>6. CASE KindOf[c] = "board"
  BY <1>3, <1>6 DEF Shown, Screen, ScreenOf
<1>7. CASE KindOf[c] \in {"waiter", "floor"}
  <2>1. \A viewers : WaiterView(viewers) \in Sessions \union {Nothing}
    BY <1>2 DEF WaiterView
  <2>2. IdleTable \in BOOLEAN
    BY DEF IdleTable
  <2>3. Shown(c) \in [listed: Sessions \union {Nothing}, idle: BOOLEAN]
    BY <2>1, <2>2, <1>7 DEF Shown, TableList
  <2> QED
    BY <2>3, <1>7 DEF Screen, ScreenOf
<1> QED
  BY <1>4, <1>5, <1>6, <1>7, RealtimeAssumption DEF Kind

(* Which steps reach a page, by its kind.                                   *)
LEMMA Reached ==
    ASSUME NEW c \in Page, NEW step \in Step
    PROVE  Reaches(step, c) <=> Hears(c, step)
<1>1. KindOf[c] \in Kind /\ StationOf[c] \in Station /\ UserOf[c] \in Waiter
  BY RealtimeAssumption
<1>2. step.what \in What
  BY DEF Step
<1>3. CASE step.what \notin Broadcasts
  BY <1>1, <1>3 DEF Hears, Kind, Reaches, Broadcasts
<1>4. CASE step.what = "waiter"
  BY <1>1, <1>4 DEF Hears, Kind, Reaches, Broadcasts
<1>5. CASE step.what = "station"
  <2>1. RoomsOf(step) = {<<"station", d>> : d \in step.of}
    BY <1>5 DEF RoomsOf
  <2> QED
    BY <2>1, <1>1, <1>5 DEF Hears, Kind, Reaches, Broadcasts, RoomOf
<1>6. CASE step.what = "previous"
  <2>1. RoomsOf(step) = {<<"waiter", w>> : w \in step.of}
    BY <1>6 DEF RoomsOf
  <2> QED
    BY <2>1, <1>1, <1>6 DEF Hears, Kind, Reaches, Broadcasts, RoomOf
<1>7. CASE step.what \in {"admin", "order"}
  <2>1. RoomsOf(step) = {<<step.what, None>>}
    BY <1>7 DEF RoomsOf
  <2> QED
    BY <2>1, <1>1, <1>7 DEF Hears, Kind, Reaches, Broadcasts, RoomOf
<1> QED
  BY <1>3, <1>4, <1>5, <1>6, <1>7 DEF Broadcasts

-----------------------------------------------------------------------------
(* What a request has left to do *)

(* What is left of a list when its first n members are dropped.             *)
LEMMA RestOf ==
    ASSUME NEW todo \in Seq(Step), NEW n \in 0 .. Len(todo)
    PROVE  LET rest == SubSeq(todo, n + 1, Len(todo))
           IN  /\ rest \in Seq(Step) /\ Len(rest) = Len(todo) - n
               /\ \A k \in 1 .. Len(rest) : rest[k] = todo[k + n]
<1>1. Len(todo) \in Nat /\ n \in Nat
  OBVIOUS
<1> QED
  BY <1>1, SubSeqProperties

(* Passing over steps that nobody watches loses nothing.                    *)
LEMMA PassOver ==
    ASSUME NEW todo \in Seq(Step), NEW owed, NEW told, TodoFits(todo, owed, told),
           NEW n \in Skipped(todo), NEW rest, rest = SubSeq(todo, n + 1, Len(todo))
    PROVE  /\ rest \in Seq(Step) /\ Len(rest) <= Len(todo)
           /\ TodoFits(rest, owed, told)
           /\ \A k \in 1 .. Len(todo) : Watched(todo[k]) => k > n
<1>1. Len(todo) \in Nat /\ n \in 0 .. Len(todo) /\ \A k \in 1 .. n : ~Watched(todo[k])
  BY DEF Skipped
<1>2. /\ rest \in Seq(Step) /\ Len(rest) = Len(todo) - n
      /\ \A k \in 1 .. Len(rest) : rest[k] = todo[k + n]
  BY <1>1, RestOf
<1>3. \A k \in 1 .. Len(rest) : k + n \in 1 .. Len(todo) /\ rest[k] = todo[k + n]
  BY <1>1, <1>2
<1>4. \A k \in 1 .. Len(todo) : k > n => k - n \in 1 .. Len(rest) /\ rest[k - n] = todo[k]
  BY <1>1, <1>2
<1>5. TodoFits(rest, owed, told)
  <2> SUFFICES ASSUME NEW k \in 1 .. Len(rest)
               PROVE  /\ rest[k].what \in {"assign", "call"} => After(rest, k, "admin") /\ After(rest, k, "waiter")
                      /\ rest[k].what = "finalize" => k = Len(rest)
                      /\ rest[k].what = "announce" => owed = "paid"
                      /\ rest[k].what = "close" => told = TRUE \/ \E m \in 1 .. Len(rest) : m = k - 1 /\ rest[m].what = "announce"
    BY DEF TodoFits
  <2> PICK i \in 1 .. Len(todo) : i = k + n /\ rest[k] = todo[i]
    BY <1>3
  <2>1. \A what : After(todo, i, what) => After(rest, k, what)
    <3>1. ASSUME NEW what, NEW m \in 1 .. Len(todo), i < m, todo[m].what = what
          PROVE  After(rest, k, what)
      <4>1. m > n /\ k < m - n
        BY <3>1, <1>1, <1>2
      <4> QED
        BY <4>1, <3>1, <1>4 DEF After
    <3> QED
      BY <3>1 DEF After
  <2>2. /\ todo[i].what \in {"assign", "call"} => After(todo, i, "admin") /\ After(todo, i, "waiter")
        /\ todo[i].what = "finalize" => i = Len(todo)
        /\ todo[i].what = "announce" => owed = "paid"
        /\ todo[i].what = "close" => told = TRUE \/ \E m \in 1 .. Len(todo) : m = i - 1 /\ todo[m].what = "announce"
    BY DEF TodoFits
  <2>3. ASSUME NEW m \in 1 .. Len(todo), m = i - 1, todo[m].what = "announce"
        PROVE  \E j \in 1 .. Len(rest) : j = k - 1 /\ rest[j].what = "announce"
    <3>1. Watched(todo[m])
      BY <2>3 DEF Watched, Broadcasts
    <3>2. m > n
      BY <3>1, <1>1 DEF Watched
    <3>3. m - n = k - 1
      BY <2>3, <1>1, <1>2
    <3> QED
      BY <2>3, <3>2, <3>3, <1>4
  <2>4. i = Len(todo) => k = Len(rest)
    BY <1>1, <1>2
  <2> QED
    BY <2>1, <2>2, <2>3, <2>4
<1>6. \A k \in 1 .. Len(todo) : Watched(todo[k]) => k > n
  BY <1>1 DEF Watched
<1>7. Len(rest) <= Len(todo)
  BY <1>1, <1>2
<1> QED
  BY <1>2, <1>5, <1>6, <1>7

(* What a request has left, when it goes on with a list of steps.           *)
LEMMA GoesOn ==
    ASSUME NEW r \in Request, NEW by, NEW todo \in Seq(Step), NEW owed, NEW told,
           TodoFits(todo, owed, told), GoOn(r, by, todo)
    PROVE  \E rest \in Seq(Step) :
              /\ request' = [request EXCEPT ![r] = [todo |-> rest, by |-> by, busy |-> TRUE]]
              /\ Len(rest) <= Len(todo) /\ TodoFits(rest, owed, told)
              /\ \A c \in Page : Opened(c) =>
                    \A k \in 1 .. Len(todo) : Hears(c, todo[k]) => \E m \in 1 .. Len(rest) : rest[m] = todo[k]
<1>1. PICK n \in Skipped(todo) :
          request' = [request EXCEPT ![r] = [todo |-> SubSeq(todo, n + 1, Len(todo)), by |-> by, busy |-> TRUE]]
  BY DEF GoOn
<1>2. PICK rest : rest = SubSeq(todo, n + 1, Len(todo))
  OBVIOUS
<1>3. rest \in Seq(Step) /\ Len(rest) <= Len(todo) /\ TodoFits(rest, owed, told) /\ Len(rest) = Len(todo) - n
  BY <1>2, PassOver, RestOf DEF Skipped
<1>4. ASSUME NEW c \in Page, Opened(c), NEW k \in 1 .. Len(todo), Hears(c, todo[k])
      PROVE  \E m \in 1 .. Len(rest) : rest[m] = todo[k]
  <2>1. Watched(todo[k])
    BY <1>4, Reached DEF Opened, Watched
  <2>2. k > n
    BY <2>1, <1>2, PassOver
  <2>3. rest[k - n] = todo[k] /\ k - n \in 1 .. Len(rest)
    BY <2>2, <1>2, <1>3, RestOf DEF Skipped
  <2> QED
    BY <2>3
<1> QED
  BY <1>1, <1>2, <1>3, <1>4

(* The requests fit again when one of them has something else to do.        *)
LEMMA RequestsFit ==
    ASSUME Types, \A s \in Request : RequestFits(s),
           NEW r \in Request, NEW by \in Page \union {None}, NEW busy \in BOOLEAN, NEW rest \in Seq(Step),
           request' = [request EXCEPT ![r] = [todo |-> rest, by |-> by, busy |-> busy]],
           TodoFits(rest, bill', announced'), Len(rest) <= 5, ~busy => rest = <<>>,
           by # None => Opened(by)', \A c \in Page : Opened(c) => Opened(c)',
           bill = "paid" => bill' = "paid", announced => announced'
    PROVE  request' \in [Request -> Row] /\ \A s \in Request : RequestFits(s)'
<1>1. /\ request'[r] = [todo |-> rest, by |-> by, busy |-> busy]
      /\ \A s \in Request \ {r} : request'[s] = request[s]
  BY DEF Types
<1>2. request' \in [Request -> Row]
  BY DEF Types, Row
<1>3. ASSUME NEW s \in Request
      PROVE  RequestFits(s)'
  <2>1. CASE s = r
    BY <1>1, <2>1 DEF RequestFits
  <2>2. CASE s # r
    <3>1. request'[s] = request[s] /\ RequestFits(s)
      BY <1>1, <2>2
    <3>2. PICK todo : todo = request[s].todo /\ todo = request'[s].todo
      BY <3>1
    <3>3. TodoFits(todo, bill, announced)
      BY <3>1, <3>2 DEF RequestFits
    <3>4. TodoFits(todo, bill', announced')
      BY <3>3 DEF TodoFits
    <3>5. request[s].by \in Page \union {None}
      BY DEF Types, Row
    <3> QED
      BY <3>1, <3>2, <3>4, <3>5 DEF RequestFits
  <2> QED
    BY <2>1, <2>2
<1> QED
  BY <1>2, <1>3

(* What a page is still to be told stays to be told.                        *)
Keeps(todo, rest, c) ==
    \A k \in 1 .. Len(todo) : WillTell(todo[k], c) => \E m \in 1 .. Len(rest) : rest[m] = todo[k]

(* A page that no request will tell in the end was not about to be told,    *)
(* when what the request was to tell it is still to be told.                *)
LEMMA StillToTell ==
    ASSUME Types, NEW r \in Request, NEW by, NEW busy \in BOOLEAN, NEW rest \in Seq(Step), NEW c \in Page,
           request' = [request EXCEPT ![r] = [todo |-> rest, by |-> by, busy |-> busy]],
           Keeps(request[r].todo, rest, c),
           \A step \in Step : WillTell(step, c) => WillTell(step, c)',
           ~Pending(c)'
    PROVE  ~Pending(c) /\ \A m \in 1 .. Len(rest) : ~WillTell(rest[m], c)'
<1>1. /\ request'[r].todo = rest
      /\ \A s \in Request \ {r} : request'[s] = request[s]
  BY DEF Types
<1>2. \A s \in Request : request[s].todo \in Seq(Step)
  BY DEF Types, Row
<1>3. \A s \in Request : \A k \in 1 .. Len(request'[s].todo) : \A step \in Step :
          step = request'[s].todo[k] => ~WillTell(step, c)'
  BY DEF Pending, WillTell, Hears
<1>4. ASSUME NEW m \in 1 .. Len(rest)
      PROVE  ~WillTell(rest[m], c)'
  BY <1>3, <1>1
<1>5. ASSUME NEW s \in Request, NEW k \in 1 .. Len(request[s].todo), WillTell(request[s].todo[k], c)
      PROVE  FALSE
  <2>1. PICK step \in Step : step = request[s].todo[k]
    BY <1>2
  <2>2. WillTell(step, c)'
    BY <1>5, <2>1
  <2>3. CASE s = r
    <3>1. PICK m \in 1 .. Len(rest) : rest[m] = step
      BY <1>5, <2>1, <2>3 DEF Keeps
    <3> QED
      BY <3>1, <2>2, <1>4
  <2>4. CASE s # r
    <3>1. step = request'[s].todo[k] /\ k \in 1 .. Len(request'[s].todo)
      BY <2>1, <2>4, <1>1
    <3> QED
      BY <3>1, <2>2, <1>3
  <2> QED
    BY <2>3, <2>4
<1> QED
  BY <1>4, <1>5 DEF Pending

-----------------------------------------------------------------------------
(* Steps that change what the server holds *)

(* A change keeps the invariant when each page that shows it is blind or is *)
(* still going to be told.                                                  *)
LEMMA Committed ==
    ASSUME ScreensInv, NEW r \in Request, NEW by \in Page \union {None}, NEW todo \in Seq(Step),
           by # None => Opened(by),
           TodoFits(todo, bill, announced), Len(todo) <= 5, GoOn(r, by, todo),
           UNCHANGED <<conn, view, asked, answers, announced, outdated>>,
           item' \in Statuses, bill' \in {"none", "unpaid", "paid"}, waiter' \in Assignee,
           seated' \in BOOLEAN, calling' \in BOOLEAN,
           bill' # "none" => \A i \in Item : item'[i] # "none",
           bill # "none" => bill' # "none", bill = "paid" => bill' = "paid",
           blind \subseteq blind', blind' \subseteq Page,
           \A c \in Page : waiter' # waiter /\ KindOf[c] = "waiter" /\ Opened(c) => c \in blind' \/ waiter' = None,
           \A c \in Page : \A k \in 1 .. Len(request[r].todo) :
              Hears(c, request[r].todo[k]) => \E m \in 1 .. Len(todo) : todo[m] = request[r].todo[k],
           \A c \in Page : Opened(c) /\ c \notin blind' /\ ~ListTells(todo, c)' =>
              Shown(c)' = Shown(c)
    PROVE  ScreensInv'
<1>1. PICK rest \in Seq(Step) :
          /\ request' = [request EXCEPT ![r] = [todo |-> rest, by |-> by, busy |-> TRUE]]
          /\ Len(rest) <= Len(todo) /\ TodoFits(rest, bill, announced)
          /\ \A c \in Page : Opened(c) =>
                \A k \in 1 .. Len(todo) : Hears(c, todo[k]) => \E m \in 1 .. Len(rest) : rest[m] = todo[k]
  BY GoesOn
<1>2. Types /\ OrderFits /\ \A s \in Request : RequestFits(s)
  BY DEF ScreensInv
<1>3. \A c \in Page : Opened(c)' <=> Opened(c)
  BY DEF Opened
<1>4. request' \in [Request -> Row] /\ \A s \in Request : RequestFits(s)'
  <2>1. TodoFits(rest, bill', announced')
    BY <1>1 DEF TodoFits
  <2>2. Len(rest) <= 5
    BY <1>1
  <2> QED
    BY <1>1, <1>2, <1>3, <2>1, <2>2, RequestsFit
<1>5. Types'
  BY <1>2, <1>4 DEF Types
<1>6. OrderFits'
  BY <1>2 DEF OrderFits
<1>7. ASSUME NEW c \in Page
      PROVE  PageFits(c)' /\ CaughtUp(c)'
  <2>1. PageFits(c) /\ CaughtUp(c)
    BY DEF ScreensInv
  <2>2. (Fresh(c)' <=> Fresh(c)) /\ Latest(c)' = Latest(c)
    BY DEF Fresh, Latest
  <2>3. PageFits(c)'
    BY <2>1, <2>2, <1>3 DEF PageFits
  <2>4. CaughtUp(c)'
    <3> SUFFICES ASSUME Opened(c)', c \notin blind', asked[c] = 0, ~Pending(c)', Fresh(c)' \/ c \notin outdated
                 PROVE  Latest(c)' = Shown(c)'
      BY DEF CaughtUp
    <3>1. \A step \in Step : WillTell(step, c) => WillTell(step, c)'
      BY <1>3 DEF WillTell, Hears
    <3>2. Keeps(request[r].todo, rest, c)
      BY <1>1, <1>3 DEF WillTell, Keeps
    <3>3. ~Pending(c) /\ \A m \in 1 .. Len(rest) : ~WillTell(rest[m], c)'
      BY <1>1, <1>2, <3>1, <3>2, StillToTell
    <3>4. ~ListTells(todo, c)'
      BY <3>3, <1>1, <1>3 DEF WillTell, ListTells
    <3>5. Shown(c)' = Shown(c)
      BY <3>4, <1>3
    <3> QED
      BY <3>3, <3>5, <2>1, <2>2, <1>3 DEF CaughtUp
  <2> QED
    BY <2>3, <2>4
<1> QED
  BY <1>4, <1>5, <1>6, <1>7 DEF ScreensInv

(* A change with which a request begins keeps the invariant, likewise.      *)
LEMMA Started ==
    ASSUME ScreensInv, NEW by \in Page \union {None}, NEW todo \in Seq(Step),
           by # None => Opened(by),
           TodoFits(todo, bill, announced), Len(todo) <= 5, Start(by, todo),
           item' \in Statuses, bill' \in {"none", "unpaid", "paid"}, waiter' \in Assignee,
           seated' \in BOOLEAN, calling' \in BOOLEAN,
           bill' # "none" => \A i \in Item : item'[i] # "none",
           bill # "none" => bill' # "none", bill = "paid" => bill' = "paid",
           blind \subseteq blind', blind' \subseteq Page,
           \A c \in Page : waiter' # waiter /\ KindOf[c] = "waiter" /\ Opened(c) => c \in blind' \/ waiter' = None,
           \A c \in Page : Opened(c) /\ c \notin blind' /\ ~ListTells(todo, c)' =>
              Shown(c)' = Shown(c)
    PROVE  ScreensInv'
<1>1. PICK r \in Request : ~request[r].busy /\ GoOn(r, by, todo)
  BY DEF Start
<1>2. UNCHANGED <<conn, view, asked, answers, announced, outdated>>
  BY DEF Start
<1>3. request[r].todo = <<>>
  BY <1>1 DEF ScreensInv, RequestFits
<1>4. \A c \in Page : \A k \in 1 .. Len(request[r].todo) :
          Hears(c, request[r].todo[k]) => \E m \in 1 .. Len(todo) : todo[m] = request[r].todo[k]
  BY <1>3
<1> QED
  BY <1>1, <1>2, <1>4, Committed

(* The lists of broadcasts.                                                 *)
LEMMA StepsTyped ==
    /\ \A what \in What : Do(what) \in Step
    /\ \A of \in SUBSET Station : Stations(of) \in Step
    /\ \A of \in SUBSET Waiter : [what |-> "previous", of |-> of] \in Step
    /\ \A w \in Waiter : Direct(w) \in Step
BY DEF Do, Stations, Direct, Step, What, Broadcasts

(* The stations of an order.                                                *)
LEMMA OrderedAreStations == Ordered \in SUBSET Station /\ \A i \in Item : DestinationOf[i] \in Ordered
BY RealtimeAssumption DEF Ordered

(* What a placement leaves to do.                                           *)
LEMMA PlaceList == AfterPlace \in Seq(Step) /\ Len(AfterPlace) = 4 /\ TodoFits(AfterPlace, bill, announced)
<1> DEFINE a == Stations(Ordered)
           b == Do("assign")
           c == Do("admin")
           d == Do("waiter")
<1>1. /\ {a, b, c, d} \subseteq Step
      /\ a.what = "station" /\ b.what = "assign" /\ c.what = "admin" /\ d.what = "waiter"
  BY StepsTyped, OrderedAreStations DEF Do, Stations, What, Broadcasts
<1>2. AfterPlace = <<a, b, c, d>>
  BY DEF AfterPlace
<1> HIDE DEF a, b, c, d
<1> QED
  BY <1>1, <1>2 DEF TodoFits, After

(* What an order taken by a waiter leaves to do.                            *)
LEMMA TakeList ==
    ASSUME NEW w \in Waiter, NEW todo, todo \in {AfterTake(w, TRUE), AfterTake(w, FALSE)}
    PROVE  /\ todo \in Seq(Step) /\ Len(todo) <= 5 /\ TodoFits(todo, bill, announced)
           /\ \E k \in 1 .. Len(todo) : todo[k] = Stations(Ordered)
           /\ \E k \in 1 .. Len(todo) : todo[k] = Do("admin")
           /\ \E k \in 1 .. Len(todo) : todo[k] = Do("waiter")
<1> DEFINE a == Stations(Ordered)
           b == Direct(w)
           c == Do("admin")
           d == Do("waiter")
<1>1. /\ {a, b, c, d} \subseteq Step
      /\ a.what = "station" /\ b.what = "assign" /\ c.what = "admin" /\ d.what = "waiter"
  BY StepsTyped, OrderedAreStations DEF Do, Stations, Direct, What, Broadcasts
<1>2. todo = <<a, b, c, d>> \/ todo = <<a, c, d>>
  BY DEF AfterTake
<1>3. a = Stations(Ordered) /\ c = Do("admin") /\ d = Do("waiter")
  OBVIOUS
<1> HIDE DEF a, b, c, d
<1>4. CASE todo = <<a, b, c, d>>
  <2>1. todo[1] = a /\ todo[3] = c /\ todo[4] = d /\ Len(todo) = 4
    BY <1>4
  <2>2. todo \in Seq(Step) /\ TodoFits(todo, bill, announced)
    BY <1>1, <1>4 DEF TodoFits, After
  <2> QED
    BY <2>1, <2>2, <1>3
<1>5. CASE todo = <<a, c, d>>
  <2>1. todo[1] = a /\ todo[2] = c /\ todo[3] = d /\ Len(todo) = 3
    BY <1>5
  <2>2. todo \in Seq(Step) /\ TodoFits(todo, bill, announced)
    BY <1>1, <1>5 DEF TodoFits, After
  <2> QED
    BY <2>1, <2>2, <1>3
<1> QED
  BY <1>2, <1>4, <1>5

(* What a change of an item's status leaves to do.                          *)
LEMMA TapList ==
    ASSUME NEW i \in Item, NEW todo, todo \in {AfterTap(i, TRUE), AfterTap(i, FALSE)}
    PROVE  /\ todo \in Seq(Step) /\ Len(todo) >= 4 /\ Len(todo) <= 5 /\ TodoFits(todo, bill, announced)
           /\ todo[1] = Stations({DestinationOf[i]}) /\ todo[2] = Do("admin")
           /\ todo[3] = Do("waiter") /\ todo[4] = Do("order")
<1> DEFINE a == Stations({DestinationOf[i]})
           b == Do("admin")
           c == Do("waiter")
           d == Do("order")
           e == Do("finalize")
<1>1. /\ {a, b, c, d, e} \subseteq Step
      /\ a.what = "station" /\ b.what = "admin" /\ c.what = "waiter" /\ d.what = "order" /\ e.what = "finalize"
  <2>1. {DestinationOf[i]} \in SUBSET Station
    BY RealtimeAssumption
  <2> QED
    BY <2>1, StepsTyped DEF Do, Stations, What, Broadcasts
<1>2. todo = <<a, b, c, d, e>> \/ todo = <<a, b, c, d>>
  BY DEF AfterTap
<1>3. a = Stations({DestinationOf[i]}) /\ b = Do("admin") /\ c = Do("waiter") /\ d = Do("order")
  OBVIOUS
<1> HIDE DEF a, b, c, d, e
<1>4. todo[1] = a /\ todo[2] = b /\ todo[3] = c /\ todo[4] = d
  BY <1>2
<1>5. CASE todo = <<a, b, c, d, e>>
  BY <1>1, <1>3, <1>4, <1>5 DEF TodoFits, After
<1>6. CASE todo = <<a, b, c, d>>
  BY <1>1, <1>3, <1>4, <1>6 DEF TodoFits, After
<1> QED
  BY <1>2, <1>5, <1>6

(* What a cancellation leaves to do.                                        *)
LEMMA CancelList == AfterCancel \in Seq(Step) /\ Len(AfterCancel) = 4 /\ TodoFits(AfterCancel, bill, announced)
<1> DEFINE a == Stations(Station)
           b == Do("order")
           c == Do("admin")
           d == Do("waiter")
<1>1. /\ {a, b, c, d} \subseteq Step
      /\ a.what = "station" /\ b.what = "order" /\ c.what = "admin" /\ d.what = "waiter"
  BY StepsTyped DEF Do, Stations, What, Broadcasts
<1>2. AfterCancel = <<a, b, c, d>>
  BY DEF AfterCancel
<1> HIDE DEF a, b, c, d
<1> QED
  BY <1>1, <1>2 DEF TodoFits, After

(* What a payment leaves to do.                                             *)
LEMMA PayList ==
    /\ AfterPay \in Seq(Step) /\ Len(AfterPay) = 2 /\ TodoFits(AfterPay, bill, announced)
    /\ AfterPay[1].what = "receipt"
<1> DEFINE a == Do("receipt")
           b == Do("finalize")
<1>1. {a, b} \subseteq Step /\ a.what = "receipt" /\ b.what = "finalize"
  BY StepsTyped DEF Do, What
<1>2. AfterPay = <<a, b>>
  BY DEF AfterPay
<1> HIDE DEF a, b
<1> QED
  BY <1>1, <1>2 DEF TodoFits, After

(* What a call leaves to do.                                                *)
LEMMA CallList == AfterCall \in Seq(Step) /\ Len(AfterCall) = 4 /\ TodoFits(AfterCall, bill, announced)
<1> DEFINE a == Do("assign")
           b == Do("call")
           c == Do("admin")
           d == Do("waiter")
<1>1. /\ {a, b, c, d} \subseteq Step
      /\ a.what = "assign" /\ b.what = "call" /\ c.what = "admin" /\ d.what = "waiter"
  BY StepsTyped DEF Do, What, Broadcasts
<1>2. AfterCall = <<a, b, c, d>>
  BY DEF AfterCall
<1> HIDE DEF a, b, c, d
<1> QED
  BY <1>1, <1>2 DEF TodoFits, After

(* What the closing of a table leaves to do.                                *)
LEMMA CloseList ==
    ASSUME NEW previous \in Assignee
    PROVE  /\ AfterClose(previous) \in Seq(Step) /\ Len(AfterClose(previous)) <= 1
           /\ TodoFits(AfterClose(previous), bill, announced)
<1>1. CASE previous = None
  BY <1>1 DEF AfterClose, TodoFits
<1>2. CASE previous # None
  <2> DEFINE a == [what |-> "previous", of |-> {previous}]
  <2>1. a \in Step /\ a.what = "previous"
    BY <1>2, StepsTyped DEF Assignee
  <2>2. AfterClose(previous) = <<a>>
    BY <1>2 DEF AfterClose
  <2> HIDE DEF a
  <2> QED
    BY <2>1, <2>2 DEF TodoFits, After
<1> QED
  BY <1>1, <1>2

(* What a completed order leaves to do.                                     *)
LEMMA FinalizeList ==
    /\ Finalize \in Seq(Step) /\ Len(Finalize) = 2
    /\ bill = "paid" => TodoFits(Finalize, bill, announced)
<1> DEFINE a == Do("announce")
           b == Do("close")
<1>1. {a, b} \subseteq Step /\ a.what = "announce" /\ b.what = "close"
  BY StepsTyped DEF Do, What
<1>2. Finalize = <<a, b>>
  BY DEF Finalize
<1> HIDE DEF a, b
<1> QED
  BY <1>1, <1>2 DEF TodoFits, After

(* Which pages show a change.                                               *)
LEMMA SameQueue ==
    ASSUME NEW c \in Page, KindOf[c] \in {"station", "board"},
           \A i \in Item : DestinationOf[i] = StationOf[c] => item'[i] = item[i],
           KindOf[c] = "board" => waiter' = waiter
    PROVE  Shown(c)' = Shown(c)
<1>1. \A hidden : [i \in {j \in Item : DestinationOf[j] = StationOf[c] /\ item'[j] \notin hidden} |-> item'[i]]
                = [i \in {j \in Item : DestinationOf[j] = StationOf[c] /\ item[j] \notin hidden} |-> item[i]]
  <2> SUFFICES ASSUME NEW hidden
               PROVE  [i \in {j \in Item : DestinationOf[j] = StationOf[c] /\ item'[j] \notin hidden} |-> item'[i]]
                    = [i \in {j \in Item : DestinationOf[j] = StationOf[c] /\ item[j] \notin hidden} |-> item[i]]
    OBVIOUS
  <2>1. {j \in Item : DestinationOf[j] = StationOf[c] /\ item'[j] \notin hidden}
      = {j \in Item : DestinationOf[j] = StationOf[c] /\ item[j] \notin hidden}
    OBVIOUS
  <2> QED
    BY <2>1
<1>2. CASE KindOf[c] = "station"
  BY <1>1, <1>2 DEF Shown, QueueForDestination, Queue
<1>3. CASE KindOf[c] = "board"
  BY <1>1, <1>3 DEF Shown, StationBoard, Queue
<1> QED
  BY <1>2, <1>3

(* A tracking page shows the items.                                         *)
LEMMA SameTrack ==
    ASSUME NEW c \in Page, KindOf[c] = "track", item' = item
    PROVE  Shown(c)' = Shown(c)
BY DEF Shown, TrackedOrder

(* A list shows the session.                                                *)
LEMMA SameList ==
    ASSUME NEW c \in Page, KindOf[c] \in {"waiter", "floor"},
           UNCHANGED <<item, bill, waiter, seated, calling>>
    PROVE  Shown(c)' = Shown(c)
BY DEF Shown, TableList, IdleTable, WaiterView, Session

(* A waiter does not see the tables of another.                             *)
LEMMA NotTheirs ==
    ASSUME NEW c \in Page, KindOf[c] = "waiter",
           waiter \notin {UserOf[c], None}, waiter' \notin {UserOf[c], None}, UNCHANGED <<bill, seated>>
    PROVE  Shown(c)' = Shown(c)
BY DEF Shown, TableList, IdleTable, WaiterView

(* Which pages the last broadcasts of a list reach.                         *)
LEMMA HeardBy ==
    ASSUME NEW c \in Page
    PROVE  /\ KindOf[c] \in Kind
           /\ KindOf[c] = "floor" => WillTell(Do("admin"), c)'
           /\ KindOf[c] = "track" => WillTell(Do("order"), c)'
           /\ KindOf[c] = "waiter" /\ waiter' \in {UserOf[c], None} => WillTell(Do("waiter"), c)'
           /\ \A of : KindOf[c] \in {"station", "board"} /\ StationOf[c] \in of => WillTell(Stations(of), c)'
           /\ \A of : KindOf[c] = "waiter" /\ UserOf[c] \in of =>
                 WillTell([what |-> "previous", of |-> of], c)'
<1>1. KindOf[c] \in Kind
  BY RealtimeAssumption
<1> QED
  BY <1>1 DEF WillTell, Hears, Do, Stations

(* No tracking page is open yet; a list of broadcasts to the stations, the  *)
(* admin and the waiter tells everybody else, or leaves them blind.         *)
LEMMA OrderKeeps ==
    ASSUME ScreensInv, Order, NEW by \in Page \union {None}, by # None => Opened(by),
           NEW todo \in Seq(Step), Len(todo) <= 5, TodoFits(todo, bill, announced), Start(by, todo),
           \E k \in 1 .. Len(todo) : todo[k] = Stations(Ordered),
           \E k \in 1 .. Len(todo) : todo[k] = Do("admin"),
           \E k \in 1 .. Len(todo) : todo[k] = Do("waiter")
    PROVE  ScreensInv'
<1>1. /\ bill = "none" /\ bill' = "unpaid" /\ item' = [i \in Item |-> "received"] /\ seated' = TRUE
      /\ blind' = blind \union NotTold("order") /\ UNCHANGED <<waiter, calling>>
  BY DEF Order
<1>2. Types /\ item' \in Statuses
  BY <1>1 DEF ScreensInv, Statuses, Status
<1>3. NotTold("order") = {c \in Lists : KindOf[c] = "waiter" /\ waiter \notin {UserOf[c], None}}
  BY DEF NotTold
<1>4. NotTold("order") \subseteq Page
  BY <1>3 DEF Lists
<1>5. ASSUME NEW c \in Page, Opened(c), c \notin blind', ~ListTells(todo, c)'
      PROVE  Shown(c)' = Shown(c)
  <2>1. ~WillTell(Stations(Ordered), c)' /\ ~WillTell(Do("admin"), c)' /\ ~WillTell(Do("waiter"), c)'
    <3>1. \A k \in 1 .. Len(todo) : ~WillTell(todo[k], c)'
      BY <1>5 DEF ListTells
    <3> QED
      BY <3>1 DEF WillTell, Hears
  <2>2. KindOf[c] # "track"
    BY <1>1, <1>5 DEF ScreensInv, PageFits
  <2>3. CASE KindOf[c] \in {"station", "board"}
    <3>1. \A i \in Item : DestinationOf[i] # StationOf[c]
      BY <2>1, <2>3, HeardBy, OrderedAreStations
    <3> QED
      BY <3>1, <2>3, <1>1, SameQueue
  <2>4. KindOf[c] # "waiter"
    <3> SUFFICES ASSUME KindOf[c] = "waiter"
                 PROVE  FALSE
      OBVIOUS
    <3>1. waiter \notin {UserOf[c], None}
      BY <2>1, <1>1, HeardBy
    <3>2. c \in NotTold("order")
      BY <3>1, <1>3, <1>5 DEF Lists
    <3> QED
      BY <3>2, <1>1, <1>5
  <2> QED
    BY <2>1, <2>2, <2>3, <2>4, HeardBy DEF Kind
<1>6. /\ bill' \in {"none", "unpaid", "paid"} /\ waiter' \in Assignee /\ seated' \in BOOLEAN /\ calling' \in BOOLEAN
      /\ bill # "none" => bill' # "none"
      /\ bill = "paid" => bill' = "paid"
      /\ bill' # "none" => \A j \in Item : item'[j] # "none"
      /\ blind \subseteq blind' /\ blind' \subseteq Page
      /\ \A c \in Page : waiter' # waiter /\ KindOf[c] = "waiter" /\ Opened(c) => c \in blind' \/ waiter' = None
  BY <1>1, <1>2, <1>4 DEF Types
<1>7. \A c \in Page : Opened(c) /\ c \notin blind' /\ ~ListTells(todo, c)' =>
          Shown(c)' = Shown(c)
  BY <1>5
<1> QED
  BY <1>2, <1>6, <1>7, Started

(* An order placed by a customer or an admin.                               *)
LEMMA PlaceKeeps ==
    ASSUME ScreensInv, Place
    PROVE  ScreensInv'
<1>1. Order /\ Start(None, AfterPlace)
  BY DEF Place
<1>2. PICK todo : todo = AfterPlace
  OBVIOUS
<1>3. todo \in Seq(Step) /\ Len(todo) = 4 /\ TodoFits(todo, bill, announced) /\ Start(None, todo)
  BY <1>1, <1>2, PlaceList
<1>4. todo[1] = Stations(Ordered) /\ todo[3] = Do("admin") /\ todo[4] = Do("waiter")
  BY <1>2 DEF AfterPlace
<1>5. /\ \E k \in 1 .. Len(todo) : todo[k] = Stations(Ordered)
      /\ \E k \in 1 .. Len(todo) : todo[k] = Do("admin")
      /\ \E k \in 1 .. Len(todo) : todo[k] = Do("waiter")
  BY <1>3, <1>4
<1>6. Len(todo) <= 5 /\ None \in Page \union {None}
  BY <1>3
<1> QED
  BY <1>1, <1>3, <1>5, <1>6, OrderKeeps

(* One taken by a waiter.                                                   *)
LEMMA TakeKeeps ==
    ASSUME ScreensInv, NEW w \in Waiter, NEW by \in Page \union {None}, by # None => Opened(by), TakeOrder(w, by)
    PROVE  ScreensInv'
<1>1. Order /\ Start(by, AfterTake(w, waiter = None))
  BY DEF TakeOrder
<1>2. PICK todo \in {AfterTake(w, TRUE), AfterTake(w, FALSE)} : Start(by, todo)
  <2>1. CASE waiter = None
    <3>1. AfterTake(w, waiter = None) = AfterTake(w, TRUE)
      BY <2>1 DEF AfterTake
    <3> QED
      BY <3>1, <1>1
  <2>2. CASE waiter # None
    <3>1. AfterTake(w, waiter = None) = AfterTake(w, FALSE)
      BY <2>2 DEF AfterTake
    <3> QED
      BY <3>1, <1>1
  <2> QED
    BY <2>1, <2>2
<1>3. /\ todo \in Seq(Step) /\ Len(todo) <= 5 /\ TodoFits(todo, bill, announced)
      /\ \E k \in 1 .. Len(todo) : todo[k] = Stations(Ordered)
      /\ \E k \in 1 .. Len(todo) : todo[k] = Do("admin")
      /\ \E k \in 1 .. Len(todo) : todo[k] = Do("waiter")
  BY <1>2, TakeList
<1> QED
  BY <1>1, <1>2, <1>3, OrderKeeps

(* Only one station shows the item.                                         *)
LEMMA SetStatusKeeps ==
    ASSUME ScreensInv, NEW i \in Item, NEW s \in Status \ {"none"}, NEW by \in Page \union {None},
           by # None => Opened(by), SetStatus(i, s, by)
    PROVE  ScreensInv'
<1>1. /\ item' = [item EXCEPT ![i] = s] /\ Start(by, AfterTap(i, s = "served"))
      /\ UNCHANGED <<bill, waiter, seated, calling, blind>>
  BY DEF SetStatus
<1>2. Types /\ item' \in Statuses /\ \A j \in Item \ {i} : item'[j] = item[j]
  BY <1>1 DEF ScreensInv, Types, Statuses
<1>3. bill' # "none" => \A j \in Item : item'[j] # "none"
  BY <1>1, <1>2 DEF ScreensInv, OrderFits, Types, Statuses
<1>4. PICK todo \in {AfterTap(i, TRUE), AfterTap(i, FALSE)} : Start(by, todo)
  <2>1. CASE s = "served"
    <3>1. AfterTap(i, s = "served") = AfterTap(i, TRUE)
      BY <2>1 DEF AfterTap
    <3> QED
      BY <3>1, <1>1
  <2>2. CASE s # "served"
    <3>1. AfterTap(i, s = "served") = AfterTap(i, FALSE)
      BY <2>2 DEF AfterTap
    <3> QED
      BY <3>1, <1>1
  <2> QED
    BY <2>1, <2>2
<1>5. /\ todo \in Seq(Step) /\ Len(todo) >= 4 /\ Len(todo) <= 5 /\ TodoFits(todo, bill, announced)
      /\ todo[1] = Stations({DestinationOf[i]}) /\ todo[2] = Do("admin")
      /\ todo[3] = Do("waiter") /\ todo[4] = Do("order")
  BY <1>4, TapList
<1>6. ASSUME NEW c \in Page, Opened(c), ~ListTells(todo, c)'
      PROVE  Shown(c)' = Shown(c)
  <2>1. /\ ~WillTell(Stations({DestinationOf[i]}), c)' /\ ~WillTell(Do("admin"), c)'
        /\ ~WillTell(Do("waiter"), c)' /\ ~WillTell(Do("order"), c)'
    <3>1. \A k \in 1 .. 4 : ~WillTell(todo[k], c)'
      BY <1>5, <1>6 DEF ListTells
    <3> QED
      BY <3>1, <1>5 DEF WillTell, Hears
  <2>2. CASE KindOf[c] \in {"station", "board"}
    <3>1. DestinationOf[i] # StationOf[c]
      BY <2>1, <2>2, HeardBy
    <3> QED
      BY <3>1, <2>2, <1>1, <1>2, SameQueue
  <2>3. CASE KindOf[c] = "waiter"
    BY <2>1, <2>3, <1>1, HeardBy, NotTheirs
  <2> QED
    BY <2>1, <2>2, <2>3, HeardBy DEF Kind
<1>7. todo \in Seq(Step) /\ Len(todo) <= 5 /\ TodoFits(todo, bill, announced) /\ Start(by, todo)
  BY <1>4, <1>5
<1>8. /\ bill' \in {"none", "unpaid", "paid"} /\ waiter' \in Assignee /\ seated' \in BOOLEAN /\ calling' \in BOOLEAN
      /\ bill # "none" => bill' # "none"
      /\ bill = "paid" => bill' = "paid"
      /\ bill' # "none" => \A j \in Item : item'[j] # "none"
      /\ blind \subseteq blind' /\ blind' \subseteq Page
      /\ \A c \in Page : waiter' # waiter /\ KindOf[c] = "waiter" /\ Opened(c) => c \in blind' \/ waiter' = None
  BY <1>1, <1>2, <1>3 DEF Types
<1>9. \A c \in Page : Opened(c) /\ c \notin blind' /\ ~ListTells(todo, c)' =>
          Shown(c)' = Shown(c)
  BY <1>6
<1> QED
  BY <1>2, <1>7, <1>8, <1>9, Started

(* A cancellation tells everybody.                                          *)
LEMMA CancelKeeps ==
    ASSUME ScreensInv, NEW by \in Page \union {None}, by # None => Opened(by), NEW asCustomer, Cancel(asCustomer, by)
    PROVE  ScreensInv'
<1>1. /\ item' = [i \in Item |-> IF item[i] \in Cancellable THEN "cancelled" ELSE item[i]]
      /\ Start(by, AfterCancel) /\ UNCHANGED <<bill, waiter, seated, calling, blind>>
  BY DEF Cancel
<1>2. Types /\ item' \in Statuses
  BY <1>1 DEF ScreensInv, Types, Statuses, Status
<1>3. bill' # "none" => \A j \in Item : item'[j] # "none"
  BY <1>1 DEF ScreensInv, OrderFits
<1>4. PICK todo : todo = AfterCancel
  OBVIOUS
<1>5. ASSUME NEW c \in Page, Opened(c), ~ListTells(todo, c)'
      PROVE  Shown(c)' = Shown(c)
  <2>1. /\ ~WillTell(Stations(Station), c)' /\ ~WillTell(Do("admin"), c)'
        /\ ~WillTell(Do("waiter"), c)' /\ ~WillTell(Do("order"), c)'
    <3>1. \A k \in 1 .. 4 : ~WillTell(todo[k], c)'
      BY <1>4, <1>5, CancelList DEF ListTells
    <3>2. /\ todo[1] = Stations(Station) /\ todo[2] = Do("order")
          /\ todo[3] = Do("admin") /\ todo[4] = Do("waiter")
      BY <1>4 DEF AfterCancel
    <3> QED
      BY <3>1, <3>2 DEF WillTell, Hears
  <2>2. KindOf[c] \notin {"station", "board"}
    BY <2>1, HeardBy, RealtimeAssumption
  <2>3. CASE KindOf[c] = "waiter"
    BY <2>1, <2>3, <1>1, HeardBy, NotTheirs
  <2> QED
    BY <2>1, <2>2, <2>3, HeardBy DEF Kind
<1>6. todo \in Seq(Step) /\ Len(todo) <= 5 /\ TodoFits(todo, bill, announced) /\ Start(by, todo)
  BY <1>1, <1>4, CancelList
<1>7. /\ bill' \in {"none", "unpaid", "paid"} /\ waiter' \in Assignee /\ seated' \in BOOLEAN /\ calling' \in BOOLEAN
      /\ bill # "none" => bill' # "none"
      /\ bill = "paid" => bill' = "paid"
      /\ bill' # "none" => \A j \in Item : item'[j] # "none"
      /\ blind \subseteq blind' /\ blind' \subseteq Page
      /\ \A c \in Page : waiter' # waiter /\ KindOf[c] = "waiter" /\ Opened(c) => c \in blind' \/ waiter' = None
  BY <1>1, <1>2, <1>3 DEF Types
<1>8. \A c \in Page : Opened(c) /\ c \notin blind' /\ ~ListTells(todo, c)' =>
          Shown(c)' = Shown(c)
  BY <1>5
<1> QED
  BY <1>2, <1>6, <1>7, <1>8, Started

(* A payment is shown by the lists, which are not told.                     *)
LEMMA PayKeeps ==
    ASSUME ScreensInv, NEW by \in Page \union {None}, by # None => Opened(by), Pay(by)
    PROVE  ScreensInv'
<1>1. /\ bill # "none" /\ bill' = "paid" /\ blind' = blind \union NotTold("pay") /\ Start(by, AfterPay)
      /\ UNCHANGED <<item, waiter, seated, calling>>
  BY DEF Pay
<1>2. Types /\ OrderFits
  BY DEF ScreensInv
<1>3. NotTold("pay") = Lists /\ Lists \subseteq Page
  BY DEF NotTold, Lists
<1>4. PICK todo : todo = AfterPay
  OBVIOUS
<1>5. ASSUME NEW c \in Page, Opened(c), c \notin blind'
      PROVE  Shown(c)' = Shown(c)
  <2>1. KindOf[c] \in Kind \ {"waiter", "floor"}
    BY <1>1, <1>3, <1>5, RealtimeAssumption DEF Lists, Opened
  <2> QED
    BY <2>1, <1>1, SameQueue, SameTrack DEF Kind
<1>6. todo \in Seq(Step) /\ Len(todo) <= 5 /\ TodoFits(todo, bill, announced) /\ Start(by, todo)
  BY <1>1, <1>4, PayList
<1>7. /\ item' \in Statuses
      /\ bill' \in {"none", "unpaid", "paid"} /\ waiter' \in Assignee /\ seated' \in BOOLEAN /\ calling' \in BOOLEAN
      /\ bill # "none" => bill' # "none"
      /\ bill = "paid" => bill' = "paid"
      /\ bill' # "none" => \A j \in Item : item'[j] # "none"
      /\ blind \subseteq blind' /\ blind' \subseteq Page
      /\ \A c \in Page : waiter' # waiter /\ KindOf[c] = "waiter" /\ Opened(c) => c \in blind' \/ waiter' = None
  BY <1>1, <1>2, <1>3 DEF Types, OrderFits
<1>8. \A c \in Page : Opened(c) /\ c \notin blind' /\ ~ListTells(todo, c)' =>
          Shown(c)' = Shown(c)
  BY <1>5
<1> QED
  BY <1>6, <1>7, <1>8, Started

(* A call changes nothing at first.                                         *)
LEMMA CallKeeps ==
    ASSUME ScreensInv, NEW by \in Page \union {None}, by # None => Opened(by), Call(by)
    PROVE  ScreensInv'
<1>1. Start(by, AfterCall) /\ UNCHANGED <<item, bill, waiter, seated, calling, blind>>
  BY DEF Call, server
<1>2. Types /\ OrderFits
  BY DEF ScreensInv
<1>3. PICK todo : todo = AfterCall
  OBVIOUS
<1>4. ASSUME NEW c \in Page
      PROVE  Shown(c)' = Shown(c)
  BY <1>1, SameQueue, SameTrack, SameList, RealtimeAssumption DEF Kind
<1>5. todo \in Seq(Step) /\ Len(todo) <= 5 /\ TodoFits(todo, bill, announced) /\ Start(by, todo)
  BY <1>1, <1>3, CallList
<1>6. /\ item' \in Statuses
      /\ bill' \in {"none", "unpaid", "paid"} /\ waiter' \in Assignee /\ seated' \in BOOLEAN /\ calling' \in BOOLEAN
      /\ bill # "none" => bill' # "none"
      /\ bill = "paid" => bill' = "paid"
      /\ bill' # "none" => \A j \in Item : item'[j] # "none"
      /\ blind \subseteq blind' /\ blind' \subseteq Page
      /\ \A c \in Page : waiter' # waiter /\ KindOf[c] = "waiter" /\ Opened(c) => c \in blind' \/ waiter' = None
  BY <1>1, <1>2 DEF Types, OrderFits
<1>7. \A c \in Page : Opened(c) /\ c \notin blind' /\ ~ListTells(todo, c)' =>
          Shown(c)' = Shown(c)
  BY <1>4
<1> QED
  BY <1>5, <1>6, <1>7, Started

(* An empty list.                                                           *)
LEMMA NoList == /\ <<>> \in Seq(Step) /\ Len(<<>>) = 0
                /\ \A owed, told : TodoFits(<<>>, owed, told)
BY DEF TodoFits

(* An acknowledgement is told to nobody.                                    *)
LEMMA AcknowledgeKeeps ==
    ASSUME ScreensInv, NEW by \in Page \union {None}, by # None => Opened(by), Acknowledge(by)
    PROVE  ScreensInv'
<1>1. /\ calling' = FALSE /\ blind' = blind \union NotTold("ack") /\ Start(by, <<>>)
      /\ UNCHANGED <<item, bill, waiter, seated>>
  BY DEF Acknowledge
<1>2. Types /\ OrderFits
  BY DEF ScreensInv
<1>3. NotTold("ack") = Lists /\ Lists \subseteq Page
  BY DEF NotTold, Lists
<1>4. PICK todo : todo = <<>>
  OBVIOUS
<1>5. ASSUME NEW c \in Page, Opened(c), c \notin blind'
      PROVE  Shown(c)' = Shown(c)
  <2>1. KindOf[c] \in Kind \ {"waiter", "floor"}
    BY <1>1, <1>3, <1>5, RealtimeAssumption DEF Lists, Opened
  <2> QED
    BY <2>1, <1>1, SameQueue, SameTrack DEF Kind
<1>6. todo \in Seq(Step) /\ Len(todo) <= 5 /\ TodoFits(todo, bill, announced) /\ Start(by, todo)
  BY <1>1, <1>4, NoList
<1>7. /\ item' \in Statuses
      /\ bill' \in {"none", "unpaid", "paid"} /\ waiter' \in Assignee /\ seated' \in BOOLEAN /\ calling' \in BOOLEAN
      /\ bill # "none" => bill' # "none"
      /\ bill = "paid" => bill' = "paid"
      /\ bill' # "none" => \A j \in Item : item'[j] # "none"
      /\ blind \subseteq blind' /\ blind' \subseteq Page
      /\ \A c \in Page : waiter' # waiter /\ KindOf[c] = "waiter" /\ Opened(c) => c \in blind' \/ waiter' = None
  BY <1>1, <1>2, <1>3 DEF Types, OrderFits
<1>8. \A c \in Page : Opened(c) /\ c \notin blind' /\ ~ListTells(todo, c)' =>
          Shown(c)' = Shown(c)
  BY <1>5
<1> QED
  BY <1>6, <1>7, <1>8, Started

(* So is a session that the menu opens.                                     *)
LEMMA ScanKeeps ==
    ASSUME ScreensInv, Scan
    PROVE  ScreensInv'
<1>1. /\ seated' = TRUE /\ blind' = blind \union NotTold("scan") /\ Start(None, <<>>)
      /\ UNCHANGED <<item, bill, waiter, calling>>
  BY DEF Scan
<1>2. Types /\ OrderFits
  BY DEF ScreensInv
<1>3. NotTold("scan") = Lists /\ Lists \subseteq Page
  BY DEF NotTold, Lists
<1>4. PICK todo : todo = <<>>
  OBVIOUS
<1>5. ASSUME NEW c \in Page, Opened(c), c \notin blind'
      PROVE  Shown(c)' = Shown(c)
  <2>1. KindOf[c] \in Kind \ {"waiter", "floor"}
    BY <1>1, <1>3, <1>5, RealtimeAssumption DEF Lists, Opened
  <2> QED
    BY <2>1, <1>1, SameQueue, SameTrack DEF Kind
<1>6. todo \in Seq(Step) /\ Len(todo) <= 5 /\ TodoFits(todo, bill, announced) /\ Start(None, todo)
  BY <1>1, <1>4, NoList
<1>7. /\ item' \in Statuses
      /\ bill' \in {"none", "unpaid", "paid"} /\ waiter' \in Assignee /\ seated' \in BOOLEAN /\ calling' \in BOOLEAN
      /\ bill # "none" => bill' # "none"
      /\ bill = "paid" => bill' = "paid"
      /\ bill' # "none" => \A j \in Item : item'[j] # "none"
      /\ blind \subseteq blind' /\ blind' \subseteq Page
      /\ \A c \in Page : waiter' # waiter /\ KindOf[c] = "waiter" /\ Opened(c) => c \in blind' \/ waiter' = None
  BY <1>1, <1>2, <1>3 DEF Types, OrderFits
<1>8. \A c \in Page : Opened(c) /\ c \notin blind' /\ ~ListTells(todo, c)' =>
          Shown(c)' = Shown(c)
  BY <1>5
<1> QED
  BY <1>6, <1>7, <1>8, Started

(* The table's own waiter is told that it was closed.                       *)
LEMMA CloseKeeps ==
    ASSUME ScreensInv, NEW by \in Page \union {None}, by # None => Opened(by), Close(by)
    PROVE  ScreensInv'
<1>1. /\ seated' = FALSE /\ waiter' = None /\ blind' = blind \union NotTold("close") /\ Start(by, AfterClose(waiter))
      /\ UNCHANGED <<item, bill, calling>>
  BY DEF Close
<1>2. Types /\ OrderFits
  BY DEF ScreensInv
<1>3. NotTold("close") = {c \in Lists : KindOf[c] = "floor" \/ UserOf[c] # waiter} \union Boards
  BY DEF NotTold
<1>4. NotTold("close") \subseteq Page
  BY <1>3 DEF Lists, Boards
<1>5. PICK todo : todo = AfterClose(waiter)
  OBVIOUS
<1>6. ASSUME NEW c \in Page, Opened(c), c \notin blind', ~ListTells(todo, c)'
      PROVE  Shown(c)' = Shown(c)
  <2>1. KindOf[c] \in Kind /\ KindOf[c] \notin {"floor", "board"} /\ (KindOf[c] = "waiter" => UserOf[c] = waiter)
    BY <1>1, <1>3, <1>6, RealtimeAssumption DEF Lists, Boards
  <2>2. KindOf[c] # "waiter"
    <3> SUFFICES ASSUME KindOf[c] = "waiter"
                 PROVE  FALSE
      OBVIOUS
    <3>1. waiter = UserOf[c] /\ waiter # None
      BY <2>1, RealtimeAssumption
    <3>2. PICK of : of = {waiter}
      OBVIOUS
    <3>3. todo = <<[what |-> "previous", of |-> of]>>
      BY <3>1, <3>2, <1>5 DEF AfterClose
    <3>4. WillTell([what |-> "previous", of |-> of], c)'
      BY <3>1, <3>2, HeardBy
    <3>5. Len(todo) = 1 /\ todo[1] = [what |-> "previous", of |-> of]
      BY <3>3
    <3>6. ~WillTell(todo[1], c)'
      BY <3>5, <1>6 DEF ListTells
    <3> QED
      BY <3>4, <3>5, <3>6 DEF WillTell, Hears
  <2> QED
    BY <2>1, <2>2, <1>1, SameQueue, SameTrack DEF Kind
<1>7. todo \in Seq(Step) /\ Len(todo) <= 5 /\ TodoFits(todo, bill, announced) /\ Start(by, todo)
  <2>1. todo \in Seq(Step) /\ Len(todo) <= 1 /\ TodoFits(todo, bill, announced) /\ Start(by, todo)
    BY <1>1, <1>2, <1>5, CloseList DEF Types
  <2> QED
    BY <2>1
<1>8. /\ item' \in Statuses
      /\ bill' \in {"none", "unpaid", "paid"} /\ waiter' \in Assignee /\ seated' \in BOOLEAN /\ calling' \in BOOLEAN
      /\ bill # "none" => bill' # "none"
      /\ bill = "paid" => bill' = "paid"
      /\ bill' # "none" => \A j \in Item : item'[j] # "none"
      /\ blind \subseteq blind' /\ blind' \subseteq Page
      /\ \A c \in Page : waiter' # waiter /\ KindOf[c] = "waiter" /\ Opened(c) => c \in blind' \/ waiter' = None
  BY <1>1, <1>2, <1>4 DEF Types, OrderFits, Assignee
<1>9. \A c \in Page : Opened(c) /\ c \notin blind' /\ ~ListTells(todo, c)' =>
          Shown(c)' = Shown(c)
  BY <1>6
<1> QED
  BY <1>7, <1>8, <1>9, Started

(* A handoff is told to nobody.                                             *)
LEMMA HandoffKeeps ==
    ASSUME ScreensInv, NEW w \in Waiter, Handoff(w)
    PROVE  ScreensInv'
<1>1. /\ waiter' = w /\ blind' = blind \union NotTold("assign") /\ Start(None, <<>>)
      /\ UNCHANGED <<item, bill, seated, calling>>
  BY DEF Handoff
<1>2. Types /\ OrderFits
  BY DEF ScreensInv
<1>3. NotTold("assign") = {c \in Page : Opened(c) /\ KindOf[c] \in {"waiter", "floor", "board"}}
  BY DEF NotTold, Lists, Boards
<1>4. PICK todo : todo = <<>>
  OBVIOUS
<1>5. ASSUME NEW c \in Page, Opened(c), c \notin blind'
      PROVE  Shown(c)' = Shown(c)
  <2>1. KindOf[c] \in {"track", "station"}
    BY <1>1, <1>3, <1>5, RealtimeAssumption DEF Opened, Kind
  <2> QED
    BY <2>1, <1>1, SameQueue, SameTrack
<1>6. todo \in Seq(Step) /\ Len(todo) <= 5 /\ TodoFits(todo, bill, announced) /\ Start(None, todo)
  BY <1>1, <1>4, NoList
<1>7. /\ item' \in Statuses
      /\ bill' \in {"none", "unpaid", "paid"} /\ waiter' \in Assignee /\ seated' \in BOOLEAN /\ calling' \in BOOLEAN
      /\ bill # "none" => bill' # "none"
      /\ bill = "paid" => bill' = "paid"
      /\ bill' # "none" => \A j \in Item : item'[j] # "none"
      /\ blind \subseteq blind' /\ blind' \subseteq Page
      /\ \A c \in Page : waiter' # waiter /\ KindOf[c] = "waiter" /\ Opened(c) => c \in blind' \/ waiter' = None
  BY <1>1, <1>2, <1>3 DEF Types, OrderFits, Assignee, Opened
<1>8. \A c \in Page : Opened(c) /\ c \notin blind' /\ ~ListTells(todo, c)' =>
          Shown(c)' = Shown(c)
  BY <1>5
<1> QED
  BY <1>6, <1>7, <1>8, Started

-----------------------------------------------------------------------------
(* The steps of a request that change what the server holds                 *)

(* What is left after the first step.                                       *)
LEMMA TailFits ==
    ASSUME NEW todo \in Seq(Step), todo # <<>>, NEW owed, NEW told, TodoFits(todo, owed, told),
           todo[1].what # "announce" \/ told = TRUE, NEW rest, rest = Tail(todo)
    PROVE  /\ rest \in Seq(Step) /\ Len(rest) = Len(todo) - 1 /\ TodoFits(rest, owed, told)
<1>1. Len(todo) \in Nat /\ Len(todo) >= 1
  BY EmptySeq
<1>2. /\ rest \in Seq(Step) /\ Len(rest) = Len(todo) - 1
      /\ \A k \in 1 .. Len(rest) : rest[k] = todo[k + 1]
  BY <1>1
<1>3. \A k \in 1 .. Len(todo) : k = 1 \/ (k - 1 \in 1 .. Len(rest) /\ rest[k - 1] = todo[k])
  BY <1>1, <1>2
<1>4. ASSUME NEW k \in 1 .. Len(rest)
      PROVE  /\ rest[k].what \in {"assign", "call"} => After(rest, k, "admin") /\ After(rest, k, "waiter")
             /\ rest[k].what = "finalize" => k = Len(rest)
             /\ rest[k].what = "announce" => owed = "paid"
             /\ rest[k].what = "close" => told = TRUE \/ \E m \in 1 .. Len(rest) : m = k - 1 /\ rest[m].what = "announce"
  <2> PICK i \in 1 .. Len(todo) : i = k + 1 /\ rest[k] = todo[i]
    BY <1>1, <1>2
  <2>1. \A what : After(todo, i, what) => After(rest, k, what)
    <3>1. ASSUME NEW what, NEW m \in 1 .. Len(todo), i < m, todo[m].what = what
          PROVE  After(rest, k, what)
      <4>1. m # 1 /\ k < m - 1
        BY <3>1, <1>1, <1>2
      <4> QED
        BY <4>1, <3>1, <1>3 DEF After
    <3> QED
      BY <3>1 DEF After
  <2>2. /\ todo[i].what \in {"assign", "call"} => After(todo, i, "admin") /\ After(todo, i, "waiter")
        /\ todo[i].what = "finalize" => i = Len(todo)
        /\ todo[i].what = "announce" => owed = "paid"
        /\ todo[i].what = "close" => told = TRUE \/ \E m \in 1 .. Len(todo) : m = i - 1 /\ todo[m].what = "announce"
    BY DEF TodoFits
  <2>3. ASSUME NEW m \in 1 .. Len(todo), m = i - 1, todo[m].what = "announce"
        PROVE  told = TRUE \/ \E j \in 1 .. Len(rest) : j = k - 1 /\ rest[j].what = "announce"
    <3>1. m = 1 => told = TRUE
      BY <2>3
    <3>2. m - 1 = k - 1
      BY <2>3, <1>1, <1>2
    <3> QED
      BY <2>3, <3>1, <3>2, <1>3
  <2>4. ASSUME i = Len(todo)
        PROVE  k = Len(rest)
    BY ONLY <2>4, <1>1, <1>2, i = k + 1, k \in 1 .. Len(rest)
  <2> QED
    BY <2>1, <2>2, <2>3, <2>4
<1>5. TodoFits(rest, owed, told)
  BY <1>4 DEF TodoFits
<1> QED
  BY <1>2, <1>5

Follows(rest, todo) == rest = Tail(todo)
(* Every other step is left after the first.                                *)
LEMMA TailHas ==
    ASSUME NEW todo \in Seq(Step), NEW rest, Follows(rest, todo), NEW k \in 1 .. Len(todo), k # 1
    PROVE  \E m \in 1 .. Len(rest) : m = k - 1 /\ rest[m] = todo[k]
<1>1. Len(todo) \in Nat /\ todo # <<>>
  OBVIOUS
<1>2. Len(rest) = Len(todo) - 1 /\ \A m \in 1 .. Len(rest) : rest[m] = todo[m + 1]
  BY <1>1 DEF Follows
<1>3. k - 1 \in 1 .. Len(rest)
  BY <1>1, <1>2
<1> QED
  BY <1>2, <1>3

(* A list that has the admin's or the waiter's broadcast left tells them.   *)
LEMMA StillTells ==
    ASSUME NEW todo \in Seq(Step), NEW m \in 1 .. Len(todo), NEW c \in Page,
           \/ KindOf[c] = "floor" /\ todo[m].what = "admin"
           \/ KindOf[c] = "waiter" /\ todo[m].what = "waiter" /\ waiter' \in {UserOf[c], None}
    PROVE  ListTells(todo, c)'
BY DEF ListTells, WillTell, Hears

(* What a request is about to do, and what it has left to do after that.    *)
LEMMA WhatIsNext ==
    ASSUME ScreensInv, NEW r \in Request, request[r].todo # <<>>, Head(request[r].todo).what # "announce"
    PROVE  \E todo \in Seq(Step), rest \in Seq(Step), by \in Page \union {None} :
              /\ todo = request[r].todo /\ Follows(rest, todo) /\ by = request[r].by
              /\ by # None => Opened(by)
              /\ todo[1] = Head(todo) /\ Len(todo) >= 1 /\ Len(todo) <= 5 /\ TodoFits(todo, bill, announced)
              /\ Len(rest) = Len(todo) - 1 /\ TodoFits(rest, bill, announced)
<1>1. request[r].todo \in Seq(Step) /\ request[r].by \in Page \union {None}
  BY DEF ScreensInv, Types, Row
<1>2. /\ TodoFits(request[r].todo, bill, announced) /\ Len(request[r].todo) <= 5
      /\ request[r].by # None => Opened(request[r].by)
  BY DEF ScreensInv, RequestFits
<1>3. PICK todo \in Seq(Step), by \in Page \union {None} : todo = request[r].todo /\ by = request[r].by
  BY <1>1
<1> PICK rest : rest = Tail(todo)
  OBVIOUS
<1>4. todo # <<>> /\ todo[1] = Head(todo) /\ todo[1].what # "announce" /\ Len(todo) >= 1
  BY <1>3, EmptySeq
<1>5. TodoFits(todo, bill, announced)
  BY <1>2, <1>3
<1>6. /\ rest \in Seq(Step) /\ Len(rest) = Len(todo) - 1 /\ TodoFits(rest, bill, announced)
  BY <1>3, <1>4, <1>5, TailFits
<1> QED
  BY <1>2, <1>3, <1>4, <1>5, <1>6 DEF Follows

(* The admin is told of a new assignment later on, the others are blind to  *)
(* it.                                                                      *)
LEMMA AssignKeeps ==
    ASSUME ScreensInv, NEW r \in Request, AssignStep(r)
    PROVE  ScreensInv'
<1>1. /\ request[r].todo # <<>> /\ Head(request[r].todo).what = "assign" /\ Rest(r)
      /\ UNCHANGED <<item, bill, seated, calling, conn, view, asked, answers, announced, outdated>>
      /\ waiter' \in Assignable(Head(request[r].todo).of)
      /\ blind' = IF waiter' = waiter THEN blind ELSE blind \union {c \in NotTold("assign") : KindOf[c] # "floor"}
  BY DEF AssignStep, Doing
<1>2. Types /\ OrderFits
  BY DEF ScreensInv
<1>3. PICK todo \in Seq(Step), rest \in Seq(Step), by \in Page \union {None} :
              /\ todo = request[r].todo /\ Follows(rest, todo) /\ by = request[r].by
              /\ by # None => Opened(by)
              /\ todo[1] = Head(todo) /\ Len(todo) >= 1 /\ Len(todo) <= 5 /\ TodoFits(todo, bill, announced)
              /\ Len(rest) = Len(todo) - 1 /\ TodoFits(rest, bill, announced)
  BY <1>1, WhatIsNext
<1>4. todo[1].what = "assign" /\ GoOn(r, by, rest) /\ Len(rest) <= 5
  BY <1>1, <1>3 DEF Rest, Follows
<1>5. PICK told \in 1 .. Len(rest) : rest[told].what = "admin"
  <2>1. PICK k \in 1 .. Len(todo) : 1 < k /\ todo[k].what = "admin"
    BY <1>3, <1>4 DEF TodoFits, After
  <2>2. k # 1 /\ Follows(rest, todo)
    BY <2>1, <1>3
  <2>3. PICK m \in 1 .. Len(rest) : rest[m] = todo[k]
    BY <2>2, TailHas
  <2> QED
    BY <2>1, <2>3
<1>6. NotTold("assign") = {c \in Page : Opened(c) /\ KindOf[c] \in {"waiter", "floor", "board"}}
  BY DEF NotTold, Lists, Boards
<1>7. ASSUME NEW c \in Page, Opened(c), c \notin blind', ~ListTells(rest, c)'
      PROVE  Shown(c)' = Shown(c)
  <2>1. CASE UNCHANGED waiter
    BY <2>1, <1>1, SameQueue, SameTrack, SameList, RealtimeAssumption DEF Kind
  <2>2. CASE blind' = blind \union {x \in NotTold("assign") : KindOf[x] # "floor"}
    <3>1. KindOf[c] \in Kind /\ KindOf[c] \notin {"waiter", "board"}
      BY <2>2, <1>6, <1>7, RealtimeAssumption
    <3>2. KindOf[c] # "floor"
      BY <1>5, <1>7, StillTells
    <3> QED
      BY <3>1, <3>2, <1>1, SameQueue, SameTrack DEF Kind
  <2> QED
    BY <1>1, <2>1, <2>2
<1>8. /\ item' \in Statuses
      /\ bill' \in {"none", "unpaid", "paid"} /\ waiter' \in Assignee /\ seated' \in BOOLEAN /\ calling' \in BOOLEAN
      /\ bill # "none" => bill' # "none"
      /\ bill = "paid" => bill' = "paid"
      /\ bill' # "none" => \A j \in Item : item'[j] # "none"
      /\ blind \subseteq blind' /\ blind' \subseteq Page
      /\ \A c \in Page : waiter' # waiter /\ KindOf[c] = "waiter" /\ Opened(c) => c \in blind' \/ waiter' = None
  <2>1. waiter' \in Assignee
    <3>1. todo[1] \in Step /\ waiter' \in Assignable(todo[1].of)
      BY <1>1, <1>3
    <3>2. todo[1].of \subseteq Waiter
      BY <3>1, <1>4 DEF Step
    <3> QED
      BY <3>1, <3>2, <1>2 DEF Assignable, Types, Assignee
  <2> QED
    BY <2>1, <1>1, <1>2, <1>6 DEF Types, OrderFits, Assignee
<1>9. \A c \in Page : Opened(c) /\ c \notin blind' /\ ~ListTells(rest, c)' => Shown(c)' = Shown(c)
  BY <1>7
<1>10. \A c \in Page : \A k \in 1 .. Len(request[r].todo) :
          Hears(c, request[r].todo[k]) => \E m \in 1 .. Len(rest) : rest[m] = request[r].todo[k]
  <2>1. ASSUME NEW c \in Page, NEW k \in 1 .. Len(todo), Hears(c, todo[k])
        PROVE  \E m \in 1 .. Len(rest) : rest[m] = todo[k]
    <3>1. k # 1
      BY <2>1, <1>4 DEF Hears
    <3> QED
      BY <3>1, <1>3, TailHas
  <2> QED
    BY <2>1, <1>3
<1> QED
  BY <1>1, <1>3, <1>4, <1>8, <1>9, <1>10, Committed

(* The admin and the table's waiter are told of a call later on.            *)
LEMMA CallStepKeeps ==
    ASSUME ScreensInv, NEW r \in Request, CallStep(r)
    PROVE  ScreensInv'
<1>1. /\ request[r].todo # <<>> /\ Head(request[r].todo).what = "call" /\ Rest(r) /\ calling' = TRUE
      /\ UNCHANGED <<item, bill, waiter, seated, conn, view, asked, answers, announced, blind, outdated>>
  BY DEF CallStep, Doing, client
<1>2. Types /\ OrderFits
  BY DEF ScreensInv
<1>3. PICK todo \in Seq(Step), rest \in Seq(Step), by \in Page \union {None} :
              /\ todo = request[r].todo /\ Follows(rest, todo) /\ by = request[r].by
              /\ by # None => Opened(by)
              /\ todo[1] = Head(todo) /\ Len(todo) >= 1 /\ Len(todo) <= 5 /\ TodoFits(todo, bill, announced)
              /\ Len(rest) = Len(todo) - 1 /\ TodoFits(rest, bill, announced)
  BY <1>1, WhatIsNext
<1>4. todo[1].what = "call" /\ GoOn(r, by, rest) /\ Len(rest) <= 5
  BY <1>1, <1>3 DEF Rest, Follows
<1>5. /\ \E m \in 1 .. Len(rest) : rest[m].what = "admin"
      /\ \E m \in 1 .. Len(rest) : rest[m].what = "waiter"
  <2>1. PICK k \in 1 .. Len(todo) : 1 < k /\ todo[k].what = "admin"
    BY <1>3, <1>4 DEF TodoFits, After
  <2>2. PICK n \in 1 .. Len(todo) : 1 < n /\ todo[n].what = "waiter"
    BY <1>3, <1>4 DEF TodoFits, After
  <2>3. \E m \in 1 .. Len(rest) : rest[m].what = "admin"
    <3>1. k # 1 /\ Follows(rest, todo)
      BY <2>1, <1>3
    <3>2. PICK m \in 1 .. Len(rest) : rest[m] = todo[k]
      BY <3>1, TailHas
    <3> QED
      BY <2>1, <3>2
  <2>4. \E m \in 1 .. Len(rest) : rest[m].what = "waiter"
    BY <2>2, <1>3, TailHas
  <2> QED
    BY <2>3, <2>4
<1>6. ASSUME NEW c \in Page, Opened(c), c \notin blind', ~ListTells(rest, c)'
      PROVE  Shown(c)' = Shown(c)
  <2>1. KindOf[c] # "floor"
    BY <1>5, <1>6, StillTells
  <2>2. CASE KindOf[c] = "waiter"
    <3>1. waiter' \notin {UserOf[c], None}
      BY <2>2, <1>5, <1>6, StillTells
    <3> QED
      BY <3>1, <2>2, <1>1, NotTheirs
  <2> QED
    BY <2>1, <2>2, <1>1, SameQueue, SameTrack, RealtimeAssumption DEF Kind
<1>7. /\ item' \in Statuses
      /\ bill' \in {"none", "unpaid", "paid"} /\ waiter' \in Assignee /\ seated' \in BOOLEAN /\ calling' \in BOOLEAN
      /\ bill # "none" => bill' # "none"
      /\ bill = "paid" => bill' = "paid"
      /\ bill' # "none" => \A j \in Item : item'[j] # "none"
      /\ blind \subseteq blind' /\ blind' \subseteq Page
      /\ \A c \in Page : waiter' # waiter /\ KindOf[c] = "waiter" /\ Opened(c) => c \in blind' \/ waiter' = None
  BY <1>1, <1>2 DEF Types, OrderFits
<1>8. \A c \in Page : Opened(c) /\ c \notin blind' /\ ~ListTells(rest, c)' => Shown(c)' = Shown(c)
  BY <1>6
<1>9. \A c \in Page : \A k \in 1 .. Len(request[r].todo) :
          Hears(c, request[r].todo[k]) => \E m \in 1 .. Len(rest) : rest[m] = request[r].todo[k]
  <2>1. ASSUME NEW c \in Page, NEW k \in 1 .. Len(todo), Hears(c, todo[k])
        PROVE  \E m \in 1 .. Len(rest) : rest[m] = todo[k]
    <3>1. k # 1
      BY <2>1, <1>4 DEF Hears
    <3> QED
      BY <3>1, <1>3, TailHas
  <2> QED
    BY <2>1, <1>3
<1> QED
  BY <1>1, <1>3, <1>4, <1>7, <1>8, <1>9, Committed

(* Nobody shows the receipt.                                                *)
LEMMA ReceiptStepKeeps ==
    ASSUME ScreensInv, NEW r \in Request, ReceiptStep(r)
    PROVE  ScreensInv'
<1>1. /\ request[r].todo # <<>> /\ Head(request[r].todo).what = "receipt" /\ Rest(r)
      /\ UNCHANGED <<item, bill, waiter, seated, calling, conn, view, asked, answers, announced, blind, outdated>>
  BY DEF ReceiptStep, Doing, client
<1>2. Types /\ OrderFits
  BY DEF ScreensInv
<1>3. PICK todo \in Seq(Step), rest \in Seq(Step), by \in Page \union {None} :
              /\ todo = request[r].todo /\ Follows(rest, todo) /\ by = request[r].by
              /\ by # None => Opened(by)
              /\ todo[1] = Head(todo) /\ Len(todo) >= 1 /\ Len(todo) <= 5 /\ TodoFits(todo, bill, announced)
              /\ Len(rest) = Len(todo) - 1 /\ TodoFits(rest, bill, announced)
  BY <1>1, WhatIsNext
<1>4. todo[1].what = "receipt" /\ GoOn(r, by, rest) /\ Len(rest) <= 5
  BY <1>1, <1>3 DEF Rest, Follows
<1>5. ASSUME NEW c \in Page
      PROVE  Shown(c)' = Shown(c)
  BY <1>1, SameQueue, SameTrack, SameList, RealtimeAssumption DEF Kind
<1>6. /\ item' \in Statuses
      /\ bill' \in {"none", "unpaid", "paid"} /\ waiter' \in Assignee /\ seated' \in BOOLEAN /\ calling' \in BOOLEAN
      /\ bill # "none" => bill' # "none"
      /\ bill = "paid" => bill' = "paid"
      /\ bill' # "none" => \A j \in Item : item'[j] # "none"
      /\ blind \subseteq blind' /\ blind' \subseteq Page
      /\ \A c \in Page : waiter' # waiter /\ KindOf[c] = "waiter" /\ Opened(c) => c \in blind' \/ waiter' = None
  BY <1>1, <1>2 DEF Types, OrderFits
<1>7. \A c \in Page : Opened(c) /\ c \notin blind' /\ ~ListTells(rest, c)' => Shown(c)' = Shown(c)
  BY <1>5
<1>8. \A c \in Page : \A k \in 1 .. Len(request[r].todo) :
          Hears(c, request[r].todo[k]) => \E m \in 1 .. Len(rest) : rest[m] = request[r].todo[k]
  <2>1. ASSUME NEW c \in Page, NEW k \in 1 .. Len(todo), Hears(c, todo[k])
        PROVE  \E m \in 1 .. Len(rest) : rest[m] = todo[k]
    <3>1. k # 1
      BY <2>1, <1>4 DEF Hears
    <3> QED
      BY <3>1, <1>3, TailHas
  <2> QED
    BY <2>1, <1>3
<1> QED
  BY <1>1, <1>3, <1>4, <1>6, <1>7, <1>8, Committed

(* Only a paid order is announced complete.                                 *)
LEMMA FinalizeKeeps ==
    ASSUME ScreensInv, NEW r \in Request, FinalizeStep(r)
    PROVE  ScreensInv'
<1>1. /\ request[r].todo # <<>> /\ Head(request[r].todo).what = "finalize"
      /\ GoOn(r, request[r].by, IF Complete THEN Finalize ELSE <<>>)
      /\ UNCHANGED <<item, bill, waiter, seated, calling, conn, view, asked, answers, announced, blind, outdated>>
  BY DEF FinalizeStep, Doing, client, server
<1>2. Types /\ OrderFits
  BY DEF ScreensInv
<1>3. PICK todo \in Seq(Step), rest \in Seq(Step), by \in Page \union {None} :
              /\ todo = request[r].todo /\ Follows(rest, todo) /\ by = request[r].by
              /\ by # None => Opened(by)
              /\ todo[1] = Head(todo) /\ Len(todo) >= 1 /\ Len(todo) <= 5 /\ TodoFits(todo, bill, announced)
              /\ Len(rest) = Len(todo) - 1 /\ TodoFits(rest, bill, announced)
  BY <1>1, WhatIsNext
<1>4. todo[1].what = "finalize" /\ Len(todo) = 1
  <2>1. todo[1].what = "finalize" /\ 1 \in 1 .. Len(todo)
    BY <1>1, <1>3
  <2> QED
    BY <2>1, <1>3 DEF TodoFits
<1>5. PICK more \in Seq(Step) : GoOn(r, by, more) /\ Len(more) <= 5 /\ TodoFits(more, bill, announced)
  <2>1. CASE Complete
    <3>1. GoOn(r, by, Finalize)
      BY <2>1, <1>1, <1>3
    <3>2. bill = "paid"
      BY <2>1 DEF Complete
    <3>3. Finalize \in Seq(Step) /\ Len(Finalize) <= 5 /\ TodoFits(Finalize, bill, announced)
      BY <3>2, FinalizeList
    <3> QED
      BY <3>1, <3>3
  <2>2. CASE ~Complete
    <3>1. GoOn(r, by, <<>>)
      BY <2>2, <1>1, <1>3
    <3>2. <<>> \in Seq(Step) /\ Len(<<>>) <= 5 /\ TodoFits(<<>>, bill, announced)
      BY NoList
    <3> QED
      BY <3>1, <3>2
  <2> QED
    BY <2>1, <2>2
<1>6. ASSUME NEW c \in Page
      PROVE  Shown(c)' = Shown(c)
  BY <1>1, SameQueue, SameTrack, SameList, RealtimeAssumption DEF Kind
<1>7. /\ item' \in Statuses
      /\ bill' \in {"none", "unpaid", "paid"} /\ waiter' \in Assignee /\ seated' \in BOOLEAN /\ calling' \in BOOLEAN
      /\ bill # "none" => bill' # "none"
      /\ bill = "paid" => bill' = "paid"
      /\ bill' # "none" => \A j \in Item : item'[j] # "none"
      /\ blind \subseteq blind' /\ blind' \subseteq Page
      /\ \A c \in Page : waiter' # waiter /\ KindOf[c] = "waiter" /\ Opened(c) => c \in blind' \/ waiter' = None
  BY <1>1, <1>2 DEF Types, OrderFits
<1>8. \A c \in Page : Opened(c) /\ c \notin blind' /\ ~ListTells(more, c)' => Shown(c)' = Shown(c)
  BY <1>6
<1>9. \A c \in Page : \A k \in 1 .. Len(request[r].todo) :
          Hears(c, request[r].todo[k]) => \E m \in 1 .. Len(more) : more[m] = request[r].todo[k]
  <2>1. ASSUME NEW c \in Page, NEW k \in 1 .. Len(todo)
        PROVE  ~Hears(c, todo[k])
    BY <1>4 DEF Hears
  <2> QED
    BY <2>1, <1>3
<1> QED
  BY <1>1, <1>3, <1>5, <1>7, <1>8, <1>9, Committed

-----------------------------------------------------------------------------
(* The steps of a request that tell pages                                   *)

(* Pages show the same when the server holds the same.                      *)
LEMMA SameServer ==
    ASSUME NEW c \in Page, UNCHANGED <<item, bill, waiter, seated, calling>>
    PROVE  Shown(c)' = Shown(c)
BY SameQueue, SameTrack, SameList, RealtimeAssumption DEF Kind

(* A step of a request that changes nothing that pages show keeps the       *)
(* invariant when each page that it tells loads or is blind.                *)
LEMMA Told ==
    ASSUME ScreensInv, NEW r \in Request, NEW by \in Page \union {None}, NEW busy \in BOOLEAN,
           NEW todo, todo = request[r].todo, NEW rest \in Seq(Step),
           request' = [request EXCEPT ![r] = [todo |-> rest, by |-> by, busy |-> busy]],
           TodoFits(rest, bill, announced'), Len(rest) <= 5, ~busy => rest = <<>>,
           by # None => Opened(by),
           UNCHANGED <<item, bill, waiter, seated, calling, view, answers, outdated>>,
           announced' \in BOOLEAN, announced => announced', announced' => bill = "paid",
           conn' \in [Page -> Connection], asked' \in [Page -> Nat], blind' \subseteq Page,
           \A c \in Page : Opened(c)' <=> Opened(c),
           \A c \in Page : announced' /\ KindOf[c] = "track" => conn'[c] # "live",
           \A c \in Page : conn'[c] \in {"done", "missed"} => announced',
           \A c \in Page : asked[c] <= asked'[c] /\ asked'[c] + Len(answers[c]) <= MaxLoads,
           \A c \in Page : ~Opened(c) => asked'[c] = asked[c],
           \A c \in Page : c \in blind => c \in blind' \/ asked'[c] > 0,
           \A c \in Page : Opened(c) /\ asked'[c] = 0 /\ c \notin blind' => Keeps(todo, rest, c)
    PROVE  ScreensInv'
<1>1. Types /\ OrderFits /\ \A s \in Request : RequestFits(s)
  BY DEF ScreensInv
<1>2. request' \in [Request -> Row] /\ \A s \in Request : RequestFits(s)'
  <2>1. TodoFits(rest, bill', announced')
    OBVIOUS
  <2>2. by # None => Opened(by)'
    OBVIOUS
  <2> QED
    BY <1>1, <2>1, <2>2, RequestsFit
<1>3. Types'
  BY <1>1, <1>2 DEF Types
<1>4. OrderFits'
  BY <1>1 DEF OrderFits
<1>5. ASSUME NEW c \in Page
      PROVE  PageFits(c)' /\ CaughtUp(c)'
  <2>1. PageFits(c) /\ CaughtUp(c)
    BY DEF ScreensInv
  <2>2. (Fresh(c)' <=> Fresh(c)) /\ Latest(c)' = Latest(c)
    BY DEF Fresh, Latest
  <2>3. PageFits(c)'
    BY <2>1, <2>2 DEF PageFits
  <2>4. CaughtUp(c)'
    <3> SUFFICES ASSUME Opened(c)', c \notin blind', asked'[c] = 0, ~Pending(c)', Fresh(c)' \/ c \notin outdated'
                 PROVE  Latest(c)' = Shown(c)'
      BY DEF CaughtUp
    <3>1. \A step \in Step : WillTell(step, c) => WillTell(step, c)'
      BY DEF WillTell, Hears
    <3>2. Keeps(request[r].todo, rest, c)
      OBVIOUS
    <3>3. ~Pending(c)
      BY <1>1, <3>1, <3>2, StillToTell
    <3>4. asked[c] = 0 /\ c \notin blind
      BY <1>1 DEF Types
    <3>5. Shown(c)' = Shown(c)
      BY SameServer
    <3> QED
      BY <3>3, <3>4, <3>5, <2>1, <2>2 DEF CaughtUp
  <2> QED
    BY <2>3, <2>4
<1> QED
  BY <1>2, <1>3, <1>4, <1>5 DEF ScreensInv

(* A broadcast makes every page of the room load that its post reaches; the *)
(* others, and those still in front of the door, are blind.                 *)
LEMMA BroadcastDoes ==
    ASSUME ScreensInv, NEW rooms, NEW lost \in SUBSET Members(rooms), Broadcast(rooms, lost)
    PROVE  /\ asked' \in [Page -> Nat] /\ blind' \subseteq Page
           /\ \A c \in Page : asked[c] <= asked'[c] /\ asked'[c] + Len(answers[c]) <= MaxLoads
           /\ \A c \in Page : ~Opened(c) => asked'[c] = asked[c]
           /\ \A c \in Page : c \in blind => c \in blind' \/ asked'[c] > 0
           /\ \A c \in Page : Opened(c) /\ RoomOf(c) \in rooms => asked'[c] > 0 \/ c \in blind'
<1> DEFINE told == Members(rooms) \ lost
<1>1. /\ asked' = [c \in Page |-> IF c \in told THEN asked[c] + 1 ELSE asked[c]]
      /\ blind' = (blind \ told) \union lost \union UNION {Outside(room) : room \in rooms}
      /\ \A c \in told : Loads(c) < MaxLoads
  BY DEF Broadcast, Load, CanLoad
<1>2. Types /\ MaxLoads \in Nat
  BY RealtimeAssumption DEF ScreensInv
<1>3. told \subseteq Page /\ lost \subseteq Page /\ (\A c \in told : conn[c] \in {"live", "missed"})
  BY DEF InRoom, Members
<1>4. UNION {Outside(room) : room \in rooms} \subseteq Page
  BY DEF Outside
<1>5. \A c \in Page : RoomOf(c) \in rooms /\ conn[c] \in {"live", "missed"} => c \in told \union lost
  BY DEF InRoom, Members
<1>6. \A c \in Page : RoomOf(c) \in rooms /\ conn[c] \notin {"away", "off", "live", "missed"} =>
          c \in UNION {Outside(room) : room \in rooms}
  BY DEF Outside, Opened
<1> HIDE DEF told
<1>7. \A c \in Page : asked[c] \in Nat /\ Len(answers[c]) \in Nat /\ asked[c] + Len(answers[c]) <= MaxLoads
  <2> SUFFICES ASSUME NEW c \in Page
               PROVE  asked[c] \in Nat /\ Len(answers[c]) \in Nat /\ asked[c] + Len(answers[c]) <= MaxLoads
    OBVIOUS
  <2>1. answers[c] \in Seq(Answer) /\ asked[c] \in Nat
    BY <1>2 DEF Types
  <2> QED
    BY <2>1 DEF ScreensInv, PageFits
<1>8. \A c \in Page : asked'[c] = IF c \in told THEN asked[c] + 1 ELSE asked[c]
  BY <1>1
<1>9. asked' \in [Page -> Nat] /\ blind' \subseteq Page
  BY <1>1, <1>2, <1>3, <1>4, <1>7 DEF Types
<1>10. ASSUME NEW c \in Page
       PROVE  asked[c] <= asked'[c] /\ asked'[c] + Len(answers[c]) <= MaxLoads
  <2>1. CASE c \in told
    BY <2>1, <1>1, <1>2, <1>7, <1>8 DEF Loads
  <2>2. CASE c \notin told
    BY <2>2, <1>7, <1>8
  <2> QED
    BY <2>1, <2>2
<1>11. \A c \in Page : c \in told => asked'[c] > 0
  BY <1>7, <1>8
<1> QED
  BY <1>1, <1>3, <1>5, <1>6, <1>8, <1>9, <1>10, <1>11 DEF Opened

(* A page that a step will tell is in a room that it tells.                 *)
LEMMA ToldInRoom ==
    ASSUME Types, NEW step \in Step, NEW c \in Page, WillTell(step, c)
    PROVE  Tells(step, c)
<1>1. Reaches(step, c)
  BY Reached DEF WillTell
<1>2. CASE step.what = "waiter"
  <2>1. KindOf[c] = "waiter" /\ RoomOf(c) = <<"waiter", UserOf[c]>>
    BY <1>1, <1>2 DEF Reaches, RoomOf
  <2>2. RoomsOf(step) = WaiterRooms
    BY <1>2 DEF RoomsOf
  <2>3. waiter \in {UserOf[c], None} /\ UserOf[c] \in Waiter
    BY <1>2, RealtimeAssumption DEF WillTell
  <2> QED
    BY <1>2, <2>1, <2>2, <2>3 DEF WaiterRooms, Tells, Broadcasts
<1>3. CASE step.what # "waiter"
  BY <1>1, <1>3 DEF Reaches, Tells
<1> QED
  BY <1>2, <1>3

(* So a broadcast tells every page it is meant for, or leaves it blind.     *)
LEMMA BroadcastKeeps ==
    ASSUME ScreensInv, NEW r \in Request, BroadcastStep(r)
    PROVE  ScreensInv'
<1>1. /\ request[r].todo # <<>> /\ Head(request[r].todo).what \in Broadcasts
      /\ \E lost \in SUBSET Members(RoomsOf(Head(request[r].todo))) : Broadcast(RoomsOf(Head(request[r].todo)), lost)
      /\ Rest(r)
      /\ UNCHANGED <<item, bill, waiter, seated, calling, conn, view, answers, announced, outdated>>
  BY DEF BroadcastStep, Doing, server
<1>2. Types /\ OrderFits /\ Head(request[r].todo).what # "announce"
  BY <1>1 DEF ScreensInv, Broadcasts
<1>3. PICK todo \in Seq(Step), rest \in Seq(Step), by \in Page \union {None} :
              /\ todo = request[r].todo /\ Follows(rest, todo) /\ by = request[r].by
              /\ by # None => Opened(by)
              /\ todo[1] = Head(todo) /\ Len(todo) >= 1 /\ Len(todo) <= 5 /\ TodoFits(todo, bill, announced)
              /\ Len(rest) = Len(todo) - 1 /\ TodoFits(rest, bill, announced)
  BY <1>1, <1>2, WhatIsNext
<1>4. GoOn(r, by, rest)
  BY <1>1, <1>3 DEF Rest, Follows
<1>5. PICK more \in Seq(Step) :
          /\ request' = [request EXCEPT ![r] = [todo |-> more, by |-> by, busy |-> TRUE]]
          /\ Len(more) <= Len(rest) /\ TodoFits(more, bill, announced)
          /\ \A c \in Page : Opened(c) =>
                \A k \in 1 .. Len(rest) : Hears(c, rest[k]) => \E m \in 1 .. Len(more) : more[m] = rest[k]
  BY <1>3, <1>4, GoesOn
<1>6. PICK step \in Step, rooms \in {RoomsOf(todo[1])}, lost \in SUBSET Members(RoomsOf(todo[1])) :
          step = todo[1] /\ rooms = RoomsOf(step) /\ Broadcast(rooms, lost)
  <2>1. todo[1] \in Step
    BY <1>3
  <2>2. PICK lost \in SUBSET Members(RoomsOf(todo[1])) : Broadcast(RoomsOf(todo[1]), lost)
    BY <1>1, <1>3
  <2> QED
    BY <2>1, <2>2
<1>7. ASSUME NEW c \in Page, WillTell(step, c)
      PROVE  RoomOf(c) \in rooms
  BY <1>2, <1>6, <1>7, ToldInRoom DEF Tells
<1>8. ASSUME NEW c \in Page, Opened(c), asked'[c] = 0, c \notin blind'
      PROVE  Keeps(todo, more, c)
  <2>1. ~WillTell(step, c)
    BY <1>6, <1>7, <1>8, BroadcastDoes
  <2>2. ASSUME NEW k \in 1 .. Len(todo), WillTell(todo[k], c)
        PROVE  \E m \in 1 .. Len(more) : more[m] = todo[k]
    <3>1. k # 1
      BY <2>1, <2>2, <1>6 DEF WillTell, Hears
    <3>2. PICK n \in 1 .. Len(rest) : rest[n] = todo[k]
      <4>1. Follows(rest, todo)
        BY <1>3
      <4> QED
        BY <4>1, <3>1, TailHas
    <3>3. Hears(c, rest[n])
      BY <3>2, <2>2 DEF WillTell
    <3> QED
      BY <3>2, <3>3, <1>5, <1>8
  <2> QED
    BY <2>2 DEF Keeps
<1>9. /\ asked' \in [Page -> Nat] /\ blind' \subseteq Page
      /\ \A c \in Page : asked[c] <= asked'[c] /\ asked'[c] + Len(answers[c]) <= MaxLoads
      /\ \A c \in Page : ~Opened(c) => asked'[c] = asked[c]
      /\ \A c \in Page : c \in blind => c \in blind' \/ asked'[c] > 0
  BY <1>6, BroadcastDoes
<1>10. /\ conn' \in [Page -> Connection] /\ announced' \in BOOLEAN
       /\ announced => announced'
       /\ announced' => bill = "paid"
       /\ \A c \in Page : Opened(c)' <=> Opened(c)
       /\ \A c \in Page : announced' /\ KindOf[c] = "track" => conn'[c] # "live"
       /\ \A c \in Page : conn'[c] \in {"done", "missed"} => announced'
  BY <1>1, <1>2 DEF Types, OrderFits, Opened
<1>11. Len(more) <= 5 /\ TodoFits(more, bill, announced')
  BY <1>1, <1>3, <1>5
<1>12. \A c \in Page : Opened(c) /\ asked'[c] = 0 /\ c \notin blind' => Keeps(todo, more, c)
  BY <1>8
<1>13. UNCHANGED <<item, bill, waiter, seated, calling, view, answers, outdated>>
  BY <1>1
<1>14. todo = request[r].todo /\ (by # None => Opened(by))
  BY <1>3
<1>15. request' = [request EXCEPT ![r] = [todo |-> more, by |-> by, busy |-> TRUE]]
  BY <1>5
<1> QED
  BY <1>9, <1>10, <1>11, <1>12, <1>13, <1>14, <1>15, Told

(* The announcement leaves no live page in the order's room.                *)
LEMMA AnnounceKeeps ==
    ASSUME ScreensInv, NEW r \in Request, AnnounceStep(r)
    PROVE  ScreensInv'
<1>1. /\ request[r].todo # <<>> /\ Head(request[r].todo).what = "announce"
      /\ Rest(r) /\ announced' = TRUE
      /\ UNCHANGED <<item, bill, waiter, seated, calling, view, answers, outdated>>
  BY DEF AnnounceStep, Doing, server
<1> PICK lost \in SUBSET InRoom(<<"order", None>>) :
            /\ Broadcast({<<"order", None>>}, lost)
            /\ conn' = [c \in Page |-> IF c \in lost THEN "missed"
                                       ELSE IF c \in InRoom(<<"order", None>>) THEN "done" ELSE conn[c]]
  BY DEF AnnounceStep
<1>2. Types /\ OrderFits /\ RequestFits(r)
  BY DEF ScreensInv
<1>3. PICK todo \in Seq(Step), by \in Page \union {None} : todo = request[r].todo /\ by = request[r].by
  BY <1>2 DEF Types, Row
<1>4. PICK rest : Follows(rest, todo)
  BY DEF Follows
<1>5. /\ todo # <<>> /\ todo[1] = Head(todo) /\ todo[1].what = "announce" /\ Len(todo) >= 1 /\ Len(todo) <= 5
      /\ TodoFits(todo, bill, announced)
      /\ by # None => Opened(by)
  BY <1>1, <1>2, <1>3, EmptySeq DEF RequestFits
<1>6. PICK told : told = TRUE /\ told = announced'
  BY <1>1
<1>7. bill = "paid" /\ TodoFits(todo, bill, told)
  BY <1>6, <1>5 DEF TodoFits
<1>8. rest \in Seq(Step) /\ Len(rest) = Len(todo) - 1 /\ TodoFits(rest, bill, told)
  BY <1>6, <1>4, <1>5, <1>7, TailFits DEF Follows
<1>9. rest \in Seq(Step) /\ TodoFits(rest, bill, told) /\ GoOn(r, by, rest)
  BY <1>1, <1>3, <1>4, <1>8 DEF Rest, Follows
<1>10. PICK more \in Seq(Step) :
          /\ request' = [request EXCEPT ![r] = [todo |-> more, by |-> by, busy |-> TRUE]]
          /\ Len(more) <= Len(rest) /\ TodoFits(more, bill, told)
          /\ \A c \in Page : Opened(c) =>
                \A k \in 1 .. Len(rest) : Hears(c, rest[k]) => \E m \in 1 .. Len(more) : more[m] = rest[k]
  BY <1>9, GoesOn
<1>11. ASSUME NEW c \in Page, Opened(c)
       PROVE  Keeps(todo, more, c)
  <2>1. ASSUME NEW k \in 1 .. Len(todo), WillTell(todo[k], c)
        PROVE  \E m \in 1 .. Len(more) : more[m] = todo[k]
    <3>1. k # 1
      BY <2>1, <1>5 DEF WillTell, Hears
    <3>2. PICK n \in 1 .. Len(rest) : rest[n] = todo[k]
      BY <3>1, <1>4, TailHas
    <3>3. Hears(c, rest[n])
      BY <3>2, <2>1 DEF WillTell
    <3> QED
      BY <3>2, <3>3, <1>10, <1>11
  <2> QED
    BY <2>1 DEF Keeps
<1>12. \A c \in Page : conn'[c] = IF c \in lost THEN "missed"
                                  ELSE IF c \in InRoom(<<"order", None>>) THEN "done" ELSE conn[c]
  OBVIOUS
<1>13. \A c \in Page : KindOf[c] = "track" => RoomOf(c) = <<"order", None>>
  BY DEF RoomOf
<1>14. /\ conn' \in [Page -> Connection] /\ announced' \in BOOLEAN
       /\ announced => announced'
       /\ announced' => bill = "paid"
       /\ \A c \in Page : conn'[c] \in {"done", "missed"} => announced'
  BY <1>1, <1>2, <1>7, <1>12 DEF Types, Connection
<1>15. \A c \in Page : Opened(c)' <=> Opened(c)
  BY <1>12 DEF Opened, InRoom
<1>16. \A c \in Page : announced' /\ KindOf[c] = "track" => conn'[c] # "live"
  BY <1>12, <1>13 DEF InRoom
<1>17. /\ asked' \in [Page -> Nat] /\ blind' \subseteq Page
       /\ \A c \in Page : asked[c] <= asked'[c] /\ asked'[c] + Len(answers[c]) <= MaxLoads
       /\ \A c \in Page : ~Opened(c) => asked'[c] = asked[c]
       /\ \A c \in Page : c \in blind => c \in blind' \/ asked'[c] > 0
  <2>1. lost \in SUBSET Members({<<"order", None>>})
    BY DEF Members
  <2> QED
    BY <2>1, BroadcastDoes
<1>18. Len(more) <= 5 /\ TodoFits(more, bill, announced')
  BY <1>6, <1>5, <1>8, <1>10
<1>19. \A c \in Page : Opened(c) /\ asked'[c] = 0 /\ c \notin blind' => Keeps(todo, more, c)
  BY <1>11
<1>20. UNCHANGED <<item, bill, waiter, seated, calling, view, answers, outdated>>
  BY <1>1
<1>21. todo = request[r].todo /\ (by # None => Opened(by))
  BY <1>3, <1>5
<1>22. request' = [request EXCEPT ![r] = [todo |-> more, by |-> by, busy |-> TRUE]]
  BY <1>10
<1> QED
  BY <1>14, <1>15, <1>16, <1>17, <1>18, <1>19, <1>20, <1>21, <1>22, Told

(* When the room is closed no page is in it that is live.                   *)
LEMMA CloseStepKeeps ==
    ASSUME ScreensInv, NEW r \in Request, CloseStep(r)
    PROVE  ScreensInv' /\ \A c \in Page : conn[c] # "live" \/ conn'[c] = "live" \/ KindOf[c] # "track"
<1>1. /\ request[r].todo # <<>> /\ Head(request[r].todo).what = "close" /\ Rest(r)
      /\ UNCHANGED <<item, bill, waiter, seated, calling, view, asked, answers, announced, blind, outdated>>
  BY DEF CloseStep, Doing, server
<1> PICK kept \in SUBSET InRoom(<<"order", None>>) :
            conn' = [c \in Page |-> IF c \in InRoom(<<"order", None>>) \ kept THEN "connecting" ELSE conn[c]]
  BY DEF CloseStep
<1>2. Types /\ OrderFits /\ Head(request[r].todo).what # "announce"
  BY <1>1 DEF ScreensInv
<1>3. PICK todo \in Seq(Step), rest \in Seq(Step), by \in Page \union {None} :
              /\ todo = request[r].todo /\ Follows(rest, todo) /\ by = request[r].by
              /\ by # None => Opened(by)
              /\ todo[1] = Head(todo) /\ Len(todo) >= 1 /\ Len(todo) <= 5 /\ TodoFits(todo, bill, announced)
              /\ Len(rest) = Len(todo) - 1 /\ TodoFits(rest, bill, announced)
  BY <1>1, <1>2, WhatIsNext
<1>4. todo[1].what = "close"
  BY <1>1, <1>3
<1> GoOn(r, by, rest) /\ TodoFits(rest, bill, announced)
  BY <1>1, <1>3 DEF Rest, Follows
<1>5. PICK more \in Seq(Step) :
          /\ request' = [request EXCEPT ![r] = [todo |-> more, by |-> by, busy |-> TRUE]]
          /\ Len(more) <= Len(rest) /\ TodoFits(more, bill, announced)
          /\ \A c \in Page : Opened(c) =>
                \A k \in 1 .. Len(rest) : Hears(c, rest[k]) => \E m \in 1 .. Len(more) : more[m] = rest[k]
  BY GoesOn
<1>6. ASSUME NEW c \in Page, Opened(c)
       PROVE  Keeps(todo, more, c)
  <2>1. ASSUME NEW k \in 1 .. Len(todo), WillTell(todo[k], c)
        PROVE  \E m \in 1 .. Len(more) : more[m] = todo[k]
    <3>1. k # 1
      BY <2>1, <1>4 DEF WillTell, Hears
    <3>2. PICK n \in 1 .. Len(rest) : rest[n] = todo[k]
      BY <3>1, <1>3, TailHas
    <3>3. Hears(c, rest[n])
      BY <3>2, <2>1 DEF WillTell
    <3> QED
      BY <3>2, <3>3, <1>5, <1>6
  <2> QED
    BY <2>1 DEF Keeps
<1>7. announced = TRUE
  BY <1>3, <1>4 DEF TodoFits
<1>8. \A c \in Page : conn'[c] = IF c \in InRoom(<<"order", None>>) \ kept THEN "connecting" ELSE conn[c]
  OBVIOUS
<1>9. /\ conn' \in [Page -> Connection] /\ announced' \in BOOLEAN
      /\ announced => announced'
      /\ announced' => bill = "paid"
      /\ \A c \in Page : conn'[c] \in {"done", "missed"} => announced'
  BY <1>1, <1>2, <1>7 DEF Types, Connection, OrderFits
<1>10. \A c \in Page : Opened(c)' <=> Opened(c)
  BY <1>8 DEF Opened, InRoom
<1>11. \A c \in Page : announced' /\ KindOf[c] = "track" => conn'[c] # "live"
  BY <1>2, <1>7, <1>8 DEF OrderFits
<1>12. \A c \in Page : conn[c] # "live" \/ conn'[c] = "live" \/ KindOf[c] # "track"
  BY <1>2, <1>7 DEF OrderFits
<1>13. /\ asked' \in [Page -> Nat] /\ blind' \subseteq Page
       /\ \A c \in Page : asked[c] <= asked'[c] /\ asked'[c] + Len(answers[c]) <= MaxLoads
       /\ \A c \in Page : ~Opened(c) => asked'[c] = asked[c]
       /\ \A c \in Page : c \in blind => c \in blind' \/ asked'[c] > 0
  BY <1>1, <1>2 DEF Types, ScreensInv, PageFits
<1>14. Len(more) <= 5 /\ TodoFits(more, bill, announced')
  BY <1>1, <1>3, <1>5
<1>15. \A c \in Page : Opened(c) /\ asked'[c] = 0 /\ c \notin blind' => Keeps(todo, more, c)
  BY <1>6
<1>16. UNCHANGED <<item, bill, waiter, seated, calling, view, answers, outdated>>
  BY <1>1
<1>17. todo = request[r].todo /\ (by # None => Opened(by))
  BY <1>3
<1>18. request' = [request EXCEPT ![r] = [todo |-> more, by |-> by, busy |-> TRUE]]
  BY <1>5
<1>19. ScreensInv'
  BY <1>9, <1>10, <1>11, <1>13, <1>14, <1>15, <1>16, <1>17, <1>18, Told
<1> QED
  BY <1>12, <1>19

(* The page that sent the request loads.                                    *)
LEMMA ReplyKeeps ==
    ASSUME ScreensInv, NEW r \in Request, Reply(r)
    PROVE  ScreensInv'
<1>1. /\ request[r].todo = <<>>
      /\ request' = [request EXCEPT ![r] = [todo |-> <<>>, by |-> None, busy |-> FALSE]]
      /\ UNCHANGED <<item, bill, waiter, seated, calling, conn, view, answers, announced, outdated>>
  BY DEF Reply, Idle, server
<1>2. Types /\ OrderFits /\ RequestFits(r)
  BY DEF ScreensInv
<1>3. PICK by \in Page \union {None} :
          /\ by = request[r].by
          /\ IF by = None THEN UNCHANGED <<asked, blind>>
             ELSE CanLoad({by}) /\ Load({by}) /\ blind' = blind \ {by}
  BY <1>2 DEF Reply, Types, Row
<1>4. by # None => Opened(by)
  BY <1>2, <1>3 DEF RequestFits
<1>5. \A c \in Page : asked[c] \in Nat /\ Len(answers[c]) \in Nat /\ asked[c] + Len(answers[c]) <= MaxLoads
  <2> SUFFICES ASSUME NEW c \in Page
               PROVE  asked[c] \in Nat /\ Len(answers[c]) \in Nat /\ asked[c] + Len(answers[c]) <= MaxLoads
    OBVIOUS
  <2>1. answers[c] \in Seq(Answer) /\ asked[c] \in Nat
    BY <1>2 DEF Types
  <2> QED
    BY <2>1 DEF ScreensInv, PageFits
<1>6. /\ asked' \in [Page -> Nat] /\ blind' \subseteq Page
      /\ \A c \in Page : asked[c] <= asked'[c] /\ asked'[c] + Len(answers[c]) <= MaxLoads
      /\ \A c \in Page : ~Opened(c) => asked'[c] = asked[c]
      /\ \A c \in Page : c \in blind => c \in blind' \/ asked'[c] > 0
  <2>1. CASE by = None
    BY <2>1, <1>2, <1>3, <1>5 DEF Types
  <2>2. CASE by # None
    <3>1. /\ asked' = [c \in Page |-> IF c \in {by} THEN asked[c] + 1 ELSE asked[c]]
          /\ blind' = blind \ {by} /\ asked[by] + Len(answers[by]) < MaxLoads /\ by \in Page
      BY <2>2, <1>3 DEF CanLoad, Load, Loads
    <3>2. \A c \in Page : asked'[c] = IF c = by THEN asked[c] + 1 ELSE asked[c]
      BY <3>1
    <3>3. asked' \in [Page -> Nat] /\ blind' \subseteq Page
      BY <3>1, <1>2, <1>5 DEF Types
    <3>4. \A c \in Page : asked[c] <= asked'[c] /\ asked'[c] + Len(answers[c]) <= MaxLoads
      BY <3>1, <3>2, <1>5, RealtimeAssumption
    <3>5. \A c \in Page : ~Opened(c) => asked'[c] = asked[c]
      BY <3>2, <1>4, <2>2
    <3>6. \A c \in Page : c \in blind => c \in blind' \/ asked'[c] > 0
      BY <3>1, <3>2, <1>5
    <3> QED
      BY <3>3, <3>4, <3>5, <3>6
  <2> QED
    BY <2>1, <2>2
<1>7. /\ conn' \in [Page -> Connection] /\ announced' \in BOOLEAN
      /\ announced => announced'
      /\ announced' => bill = "paid"
      /\ \A c \in Page : Opened(c)' <=> Opened(c)
      /\ \A c \in Page : announced' /\ KindOf[c] = "track" => conn'[c] # "live"
      /\ \A c \in Page : conn'[c] \in {"done", "missed"} => announced'
  BY <1>1, <1>2 DEF Types, OrderFits, Opened
<1>8. PICK todo, rest : todo = request[r].todo /\ rest = <<>>
  OBVIOUS
<1>9. rest \in Seq(Step) /\ Len(rest) <= 5 /\ TodoFits(rest, bill, announced')
  BY <1>8, NoList
<1>10. \A c \in Page : Opened(c) /\ asked'[c] = 0 /\ c \notin blind' => Keeps(todo, rest, c)
  BY <1>1, <1>8 DEF Keeps
<1>11. UNCHANGED <<item, bill, waiter, seated, calling, view, answers, outdated>>
  BY <1>1
<1>12. request' = [request EXCEPT ![r] = [todo |-> rest, by |-> None, busy |-> FALSE]]
  BY <1>1, <1>8
<1> QED
  BY <1>6, <1>7, <1>8, <1>9, <1>10, <1>11, <1>12, Told

(* The pages that a request would still have told are blind when it fails.  *)
LEMMA AbandonKeeps ==
    ASSUME ScreensInv, NEW r \in Request, Abandon(r)
    PROVE  ScreensInv'
<1>1. /\ request' = [request EXCEPT ![r] = [todo |-> <<>>, by |-> None, busy |-> FALSE]]
      /\ blind' = blind \union Untold(r)
      /\ UNCHANGED <<item, bill, waiter, seated, calling, conn, view, asked, answers, announced, outdated>>
  BY DEF Abandon, Idle, server
<1>2. Types /\ OrderFits
  BY DEF ScreensInv
<1>3. PICK todo \in Seq(Step), rest \in {<<>>} : todo = request[r].todo /\ rest = <<>>
  BY <1>2 DEF Types, Row
<1>4. rest \in Seq(Step) /\ Len(rest) <= 5 /\ TodoFits(rest, bill, announced')
  BY <1>3, NoList
<1>5. ASSUME NEW c \in Page, Opened(c), c \notin blind'
      PROVE  Keeps(todo, rest, c)
  <2>1. c \notin Untold(r)
    BY <1>1, <1>5
  <2>2. \A k \in 1 .. Len(todo) : ~Tells(todo[k], c)
    BY <2>1, <1>3, <1>5 DEF Untold
  <2>3. \A k \in 1 .. Len(todo) : todo[k] \in Step
    OBVIOUS
  <2>4. \A k \in 1 .. Len(todo) : ~WillTell(todo[k], c)
    BY <2>2, <2>3, <1>2, ToldInRoom
  <2> QED
    BY <2>4 DEF Keeps
<1>6. /\ asked' \in [Page -> Nat] /\ blind' \subseteq Page
      /\ \A c \in Page : asked[c] <= asked'[c] /\ asked'[c] + Len(answers[c]) <= MaxLoads
      /\ \A c \in Page : ~Opened(c) => asked'[c] = asked[c]
      /\ \A c \in Page : c \in blind => c \in blind' \/ asked'[c] > 0
  BY <1>1, <1>2 DEF Types, ScreensInv, PageFits, Untold
<1>7. /\ conn' \in [Page -> Connection] /\ announced' \in BOOLEAN
      /\ announced => announced'
      /\ announced' => bill = "paid"
      /\ \A c \in Page : Opened(c)' <=> Opened(c)
      /\ \A c \in Page : announced' /\ KindOf[c] = "track" => conn'[c] # "live"
      /\ \A c \in Page : conn'[c] \in {"done", "missed"} => announced'
  BY <1>1, <1>2 DEF Types, OrderFits, Opened
<1>8. \A c \in Page : Opened(c) /\ asked'[c] = 0 /\ c \notin blind' => Keeps(todo, rest, c)
  BY <1>5
<1>9. UNCHANGED <<item, bill, waiter, seated, calling, view, answers, outdated>>
  BY <1>1
<1>10. request' = [request EXCEPT ![r] = [todo |-> rest, by |-> None, busy |-> FALSE]]
  BY <1>1, <1>3
<1> QED
  BY <1>3, <1>4, <1>6, <1>7, <1>8, <1>9, <1>10, Told

-----------------------------------------------------------------------------
(* The steps of a page                                                      *)

SameFor(c) ==
    /\ conn'[c] = conn[c] /\ view'[c] = view[c] /\ asked'[c] = asked[c] /\ answers'[c] = answers[c]
    /\ c \in blind' <=> c \in blind
    /\ c \in outdated' <=> c \in outdated

(* The same pages are to be told.                                           *)
LEMMA SamePending ==
    ASSUME UNCHANGED <<request, waiter>>, NEW c \in Page
    PROVE  Pending(c)' <=> Pending(c)
BY DEF Pending, WillTell, Hears

(* A step of page p keeps the invariant when p fits afterwards.             *)
LEMMA PageKeeps ==
    ASSUME ScreensInv, UNCHANGED <<item, bill, waiter, seated, calling, request, announced>>,
           conn' \in [Page -> Connection], view' \in [Page -> Screen], asked' \in [Page -> Nat],
           answers' \in [Page -> Seq(Answer)], blind' \subseteq Page, outdated' \subseteq Page,
           NEW p \in Page, \A c \in Page \ {p} : SameFor(c),
           Opened(p) => Opened(p)',
           conn'[p] \in {"done", "missed"} => announced,
           announced /\ KindOf[p] = "track" => conn'[p] # "live",
           PageFits(p)', CaughtUp(p)'
    PROVE  ScreensInv'
<1>1. Types /\ OrderFits /\ \A s \in Request : RequestFits(s)
  BY DEF ScreensInv
<1>2. Types'
  BY <1>1 DEF Types
<1>3. \A c \in Page : Opened(c) => Opened(c)'
  BY DEF Opened, SameFor
<1>4. ASSUME NEW s \in Request
      PROVE  RequestFits(s)'
  <2>1. request[s].by \in Page \union {None}
    BY <1>1 DEF Types, Row
  <2>2. request[s].by # None => Opened(request[s].by)
    BY <1>1 DEF RequestFits
  <2>3. PICK by : by = request[s].by
    OBVIOUS
  <2>4. by # None => Opened(by)'
    BY <2>1, <2>2, <2>3, <1>3
  <2>5. PICK todo : todo = request[s].todo
    OBVIOUS
  <2>6. TodoFits(todo, bill, announced)
    BY <1>1, <2>5 DEF RequestFits
  <2>7. TodoFits(todo, bill', announced')
    BY <2>6
  <2>8. Len(request[s].todo) <= 5 /\ (~request[s].busy => request[s].todo = <<>>)
    BY <1>1 DEF RequestFits
  <2>9. request' = request
    OBVIOUS
  <2> QED
    BY <2>3, <2>4, <2>5, <2>7, <2>8, <2>9 DEF RequestFits
<1>5. OrderFits'
  <2>1. \A c \in Page : KindOf[c] = "track" => (announced => conn'[c] # "live")
    BY <1>1 DEF OrderFits, SameFor
  <2>2. \A c \in Page : conn'[c] \in {"done", "missed"} => announced
    BY <1>1 DEF OrderFits, SameFor
  <2> QED
    BY <2>1, <2>2, <1>1 DEF OrderFits
<1>6. ASSUME NEW c \in Page, c # p
      PROVE  PageFits(c)' /\ CaughtUp(c)'
  <2>1. PageFits(c) /\ CaughtUp(c) /\ SameFor(c)
    BY <1>6 DEF ScreensInv
  <2>2. (Fresh(c)' <=> Fresh(c)) /\ Latest(c)' = Latest(c) /\ (Opened(c)' <=> Opened(c))
    BY <2>1 DEF Fresh, Latest, Opened, SameFor
  <2>3. PageFits(c)'
    BY <2>1, <2>2 DEF PageFits, SameFor
  <2>4. CaughtUp(c)'
    BY <2>1, <2>2, SamePending, SameServer DEF CaughtUp, SameFor
  <2> QED
    BY <2>3, <2>4
<1> QED
  BY <1>2, <1>4, <1>5, <1>6 DEF ScreensInv

(* A page that opens loads.                                                 *)
LEMMA OpenTrackKeeps ==
    ASSUME ScreensInv, NEW p \in Page, OpenTrack(p)
    PROVE  ScreensInv'
<1>1. /\ conn[p] = "off" /\ bill # "none" /\ conn' = [conn EXCEPT ![p] = "connecting"]
      /\ asked' = [c \in Page |-> IF c \in {p} THEN asked[c] + 1 ELSE asked[c]]
      /\ UNCHANGED <<item, bill, waiter, seated, calling, request, view, answers, announced, blind, outdated>>
  BY DEF OpenTrack, Load, server
<1>2. Types /\ PageFits(p)
  BY DEF ScreensInv
<1>3. conn'[p] = "connecting" /\ Opened(p)' /\ ~Opened(p) /\ conn' \in [Page -> Connection]
  BY <1>1, <1>2 DEF Types, Connection, Opened
<1>4. asked'[p] = 1 /\ asked[p] = 0 /\ answers[p] = <<>> /\ asked' \in [Page -> Nat]
  BY <1>1, <1>2, <1>3 DEF Types, PageFits
<1>5. ~Fresh(p)' /\ answers'[p] = <<>> /\ Len(answers'[p]) = 0
  BY <1>1, <1>4 DEF Fresh
<1>6. PageFits(p)'
  BY <1>1, <1>3, <1>4, <1>5, RealtimeAssumption DEF PageFits
<1>7. CaughtUp(p)'
  BY <1>4 DEF CaughtUp
<1>8. \A c \in Page \ {p} : SameFor(c)
  BY <1>1, <1>2 DEF SameFor, Types
<1> QED
  BY <1>1, <1>2, <1>3, <1>4, <1>6, <1>7, <1>8, PageKeeps DEF Types

(* Joining and losing the connection change nothing that is shown.          *)
LEMMA ConnectKeeps ==
    ASSUME ScreensInv, NEW p \in Page, Join(p) \/ Drop(p)
    PROVE  ScreensInv'
<1>1. /\ UNCHANGED <<item, bill, waiter, seated, calling, request, view, asked, answers, announced, blind, outdated>>
      /\ \/ conn[p] = "connecting" /\ conn' = [conn EXCEPT ![p] = Joined(p)]
         \/ conn[p] \in {"live", "missed"} /\ conn' = [conn EXCEPT ![p] = "connecting"]
  BY DEF Join, Drop, server
<1>2. Types /\ PageFits(p) /\ CaughtUp(p) /\ OrderFits
  BY DEF ScreensInv
<1>3. Joined(p) \in {"refused", "missed", "live"} /\ (KindOf[p] = "track" /\ announced => Joined(p) # "live")
      /\ (Joined(p) = "missed" => announced)
  BY DEF Joined
<1>4. /\ conn' \in [Page -> Connection] /\ Opened(p) /\ Opened(p)'
      /\ conn'[p] \in {"done", "missed"} => announced
      /\ announced /\ KindOf[p] = "track" => conn'[p] # "live"
  BY <1>1, <1>2, <1>3 DEF Types, Connection, Opened
<1>5. (Fresh(p)' <=> Fresh(p)) /\ Latest(p)' = Latest(p)
  BY <1>1 DEF Fresh, Latest
<1>6. PageFits(p)'
  BY <1>1, <1>2, <1>4, <1>5 DEF PageFits
<1>7. CaughtUp(p)'
  BY <1>1, <1>2, <1>4, <1>5, SamePending, SameServer DEF CaughtUp
<1>8. \A c \in Page \ {p} : SameFor(c)
  BY <1>1, <1>2 DEF SameFor, Types
<1> QED
  BY <1>1, <1>2, <1>4, <1>6, <1>7, <1>8, PageKeeps DEF Types

(* What is read last is what the server holds.                              *)
LEMMA ReadKeeps ==
    ASSUME ScreensInv, NEW p \in Page, Read(p)
    PROVE  ScreensInv'
<1>1. /\ asked[p] > 0 /\ asked' = [asked EXCEPT ![p] = asked[p] - 1]
      /\ answers' = [answers EXCEPT ![p] = Append(answers[p], [shows |-> Shown(p), overtaken |-> FALSE])]
      /\ UNCHANGED <<item, bill, waiter, seated, calling, request, conn, view, announced, blind, outdated>>
  BY DEF Read, server
<1>2. Types /\ PageFits(p) /\ OrderFits
  BY DEF ScreensInv
<1>3. PICK answer \in Answer, queue \in Seq(Answer), n \in Nat :
          /\ answer = [shows |-> Shown(p), overtaken |-> FALSE]
          /\ queue = answers[p] /\ n = asked[p]
  BY <1>2, ScreenType DEF Types, Answer
<1>4. /\ answers'[p] = Append(queue, answer) /\ asked'[p] = n - 1 /\ n > 0
      /\ answers' \in [Page -> Seq(Answer)] /\ asked' \in [Page -> Nat]
  BY <1>1, <1>2, <1>3 DEF Types
<1>5. PICK more \in Seq(Answer) : more = answers'[p] /\ Len(more) = Len(queue) + 1 /\ more[Len(more)] = answer
  BY <1>3, <1>4
<1>6. more # <<>> /\ answer.shows = Shown(p) /\ ~answer.overtaken
  BY <1>3, <1>5
<1>7. Opened(p) /\ Opened(p)'
  BY <1>1, <1>2 DEF PageFits, Opened
<1>8. Fresh(p)' /\ Latest(p)' = Shown(p)
  BY <1>5, <1>6 DEF Fresh, Latest
<1>9. asked'[p] + Len(answers'[p]) <= MaxLoads
  <2>1. n + Len(queue) <= MaxLoads
    BY <1>2, <1>3 DEF PageFits
  <2> QED
    BY <2>1, <1>3, <1>4, <1>5, RealtimeAssumption
<1>10. PageFits(p)'
  BY <1>1, <1>2, <1>7, <1>8, <1>9 DEF PageFits
<1>11. CaughtUp(p)'
  BY <1>1, <1>8, SameServer DEF CaughtUp
<1>12. \A c \in Page \ {p} : SameFor(c)
  BY <1>1, <1>2 DEF SameFor, Types
<1>13. /\ conn'[p] \in {"done", "missed"} => announced
       /\ announced /\ KindOf[p] = "track" => conn'[p] # "live"
  BY <1>1, <1>2 DEF OrderFits
<1> QED
  BY <1>1, <1>2, <1>4, <1>7, <1>10, <1>11, <1>12, <1>13, PageKeeps DEF Types

(* A failed load leaves the page blind.                                     *)
LEMMA LoadFailsKeeps ==
    ASSUME ScreensInv, NEW p \in Page, LoadFails(p)
    PROVE  ScreensInv'
<1>1. /\ asked[p] > 0 /\ asked' = [asked EXCEPT ![p] = asked[p] - 1] /\ blind' = blind \union {p}
      /\ UNCHANGED <<item, bill, waiter, seated, calling, request, conn, view, answers, announced, outdated>>
  BY DEF LoadFails, server
<1>2. Types /\ PageFits(p) /\ OrderFits
  BY DEF ScreensInv
<1>3. asked' \in [Page -> Nat] /\ asked'[p] = asked[p] - 1 /\ blind' \subseteq Page
  BY <1>1, <1>2 DEF Types
<1>4. Opened(p) /\ Opened(p)'
  BY <1>1, <1>2 DEF PageFits, Opened
<1>5. Fresh(p)' <=> Fresh(p)
  BY <1>1 DEF Fresh
<1>6. asked'[p] + Len(answers'[p]) <= MaxLoads
  <2>1. answers[p] \in Seq(Answer) /\ asked[p] \in Nat
    BY <1>2 DEF Types
  <2>2. Len(answers[p]) \in Nat /\ asked[p] + Len(answers[p]) <= MaxLoads
    BY <2>1, <1>2 DEF PageFits
  <2> QED
    BY <2>1, <2>2, <1>1, <1>3, RealtimeAssumption
<1>7. PageFits(p)'
  BY <1>1, <1>2, <1>4, <1>5, <1>6 DEF PageFits
<1>8. CaughtUp(p)'
  BY <1>1 DEF CaughtUp
<1>9. \A c \in Page \ {p} : SameFor(c)
  BY <1>1, <1>2 DEF SameFor, Types
<1>10. /\ conn'[p] \in {"done", "missed"} => announced
       /\ announced /\ KindOf[p] = "track" => conn'[p] # "live"
  BY <1>1, <1>2 DEF OrderFits
<1> QED
  BY <1>1, <1>2, <1>3, <1>4, <1>7, <1>8, <1>9, <1>10, PageKeeps DEF Types

(* Only a page that has been opened offers anything.                        *)
LEMMA OffersOpened ==
    ASSUME ScreensInv, NEW p \in Page, NEW o \in Offers(p)
    PROVE  Opened(p) /\ view[p] # Nothing
<1>1. view[p] # Nothing
  BY DEF Offers
<1> QED
  BY <1>1 DEF ScreensInv, PageFits

(* A refused cancellation makes the page load.                              *)
LEMMA RefusedCancelKeeps ==
    ASSUME ScreensInv, NEW p \in Page, RefusedCancel(p)
    PROVE  ScreensInv'
<1>1. /\ asked' = [c \in Page |-> IF c \in {p} THEN asked[c] + 1 ELSE asked[c]]
      /\ blind' = blind \ {p} /\ asked[p] + Len(answers[p]) < MaxLoads
      /\ UNCHANGED <<item, bill, waiter, seated, calling, request, conn, view, answers, announced, outdated>>
  BY DEF RefusedCancel, Load, CanLoad, Loads, server
<1>2. Types /\ PageFits(p) /\ OrderFits
  BY DEF ScreensInv
<1>3. Opened(p)
  BY OffersOpened DEF RefusedCancel
<1>4. Opened(p)' /\ asked[p] \in Nat /\ asked'[p] = asked[p] + 1 /\ asked' \in [Page -> Nat] /\ blind' \subseteq Page
  BY <1>1, <1>2, <1>3 DEF Types, Opened
<1>5. Fresh(p)' <=> Fresh(p)
  BY <1>1 DEF Fresh
<1>6. asked'[p] + Len(answers'[p]) <= MaxLoads
  <2>1. answers[p] \in Seq(Answer)
    BY <1>2 DEF Types
  <2>2. Len(answers[p]) \in Nat
    BY <2>1
  <2> QED
    BY <2>2, <1>1, <1>4, RealtimeAssumption
<1>7. PageFits(p)'
  BY <1>1, <1>2, <1>3, <1>4, <1>5, <1>6 DEF PageFits
<1>8. CaughtUp(p)'
  BY <1>4 DEF CaughtUp
<1>9. \A c \in Page \ {p} : SameFor(c)
  BY <1>1, <1>2 DEF SameFor, Types
<1>10. /\ conn'[p] \in {"done", "missed"} => announced
       /\ announced /\ KindOf[p] = "track" => conn'[p] # "live"
  BY <1>1, <1>2 DEF OrderFits
<1> QED
  BY <1>1, <1>2, <1>4, <1>7, <1>8, <1>9, <1>10, PageKeeps DEF Types

(* The answers that are left when one of them is shown.                     *)
LEMMA WithoutAnswerIs ==
    ASSUME NEW queue \in Seq(Answer), NEW k \in 1 .. Len(queue), NEW rest, rest = WithoutAnswer(queue, k)
    PROVE  /\ rest \in Seq(Answer) /\ Len(rest) = Len(queue) - 1
           /\ \A j \in 1 .. Len(rest) : j < k => rest[j].overtaken
           /\ \A j \in 1 .. Len(rest) : j >= k => rest[j] = queue[j + 1]
           /\ \A j \in 1 .. Len(rest) : rest[j].shows \in {queue[j].shows, queue[j + 1].shows}
<1>1. Len(queue) \in Nat /\ Len(queue) >= 1 /\ k \in Nat /\ \A j \in 1 .. Len(queue) : queue[j] \in Answer
  OBVIOUS
<1>2. rest = [j \in 1 .. Len(queue) - 1 |-> IF j < k THEN [queue[j] EXCEPT !.overtaken = TRUE] ELSE queue[j + 1]]
  BY DEF WithoutAnswer
<1>3. \A a \in Answer : /\ [a EXCEPT !.overtaken = TRUE] \in Answer /\ [a EXCEPT !.overtaken = TRUE].overtaken
                       /\ [a EXCEPT !.overtaken = TRUE].shows = a.shows
  BY DEF Answer
<1>4. ASSUME NEW j \in 1 .. Len(queue) - 1
      PROVE  /\ rest[j] \in Answer
             /\ j < k => rest[j].overtaken
             /\ j >= k => rest[j] = queue[j + 1]
             /\ rest[j].shows \in {queue[j].shows, queue[j + 1].shows}
  <2>1. j \in 1 .. Len(queue) /\ j + 1 \in 1 .. Len(queue)
    BY <1>1
  <2>2. queue[j] \in Answer /\ queue[j + 1] \in Answer
    BY <2>1, <1>1
  <2>3. CASE j < k
    <3>1. rest[j] = [queue[j] EXCEPT !.overtaken = TRUE]
      BY <2>3, <1>2
    <3> QED
      BY <3>1, <2>2, <2>3, <1>1, <1>3
  <2>4. CASE ~(j < k)
    <3>1. rest[j] = queue[j + 1]
      BY <2>4, <1>2
    <3> QED
      BY <3>1, <2>2, <2>4, <1>1
  <2> QED
    BY <2>3, <2>4
<1>5. rest \in Seq(Answer) /\ Len(rest) = Len(queue) - 1
  <2>1. Len(queue) - 1 \in Nat
    BY <1>1
  <2>2. rest \in [1 .. Len(queue) - 1 -> Answer]
    BY <1>2, <1>4
  <2> QED
    BY <2>1, <2>2
<1> QED
  BY <1>4, <1>5

(* An answer that is shown after a later one leaves the page outdated.      *)
LEMMA ShowKeeps ==
    ASSUME ScreensInv, NEW p \in Page, NEW k \in DOMAIN answers[p], Show(p, k)
    PROVE  ScreensInv'
<1>1. Types /\ PageFits(p) /\ CaughtUp(p) /\ OrderFits
  BY DEF ScreensInv
<1>2. PICK queue \in Seq(Answer) : queue = answers[p]
  BY <1>1 DEF Types
<1>3. k \in 1 .. Len(queue) /\ Len(queue) \in Nat /\ Len(queue) >= 1 /\ queue # <<>>
  BY <1>2
<1>4. PICK rest : rest = WithoutAnswer(queue, k)
  OBVIOUS
<1>5. /\ rest \in Seq(Answer) /\ Len(rest) = Len(queue) - 1
      /\ \A j \in 1 .. Len(rest) : j < k => rest[j].overtaken
      /\ \A j \in 1 .. Len(rest) : j >= k => rest[j] = queue[j + 1]
  BY <1>3, <1>4, WithoutAnswerIs
<1>6. PICK answer \in Answer : answer = queue[k]
  BY <1>3
<1>7. /\ view' = [view EXCEPT ![p] = answer.shows]
      /\ outdated' = IF answer.overtaken THEN outdated \union {p} ELSE outdated \ {p}
      /\ answers' = [answers EXCEPT ![p] = rest]
      /\ UNCHANGED <<item, bill, waiter, seated, calling, request, conn, asked, announced, blind>>
  BY <1>2, <1>4, <1>6 DEF Show, server
<1>8. /\ view' \in [Page -> Screen] /\ answers' \in [Page -> Seq(Answer)] /\ outdated' \subseteq Page
      /\ view'[p] = answer.shows /\ answers'[p] = rest
  BY <1>1, <1>5, <1>6, <1>7 DEF Types, Answer
<1>9. Opened(p) /\ Opened(p)'
  BY <1>1, <1>2, <1>3, <1>7 DEF PageFits, Opened
<1>10. p \in outdated' <=> answer.overtaken
  BY <1>7
<1>11. rest # <<>> <=> Len(rest) > 0
  BY <1>5, EmptySeq
<1>12. /\ Fresh(p) <=> ~queue[Len(queue)].overtaken
       /\ Fresh(p) => Latest(p) = queue[Len(queue)].shows
       /\ ~Fresh(p) => \A j \in 1 .. Len(queue) : queue[j].overtaken
  BY <1>1, <1>2, <1>3 DEF Fresh, Latest, PageFits
<1>13. /\ Fresh(p)' <=> (rest # <<>> /\ ~rest[Len(rest)].overtaken)
       /\ Fresh(p)' => Latest(p)' = rest[Len(rest)].shows
       /\ ~Fresh(p)' => Latest(p)' = answer.shows
  BY <1>8 DEF Fresh, Latest
<1>14. asked'[p] + Len(answers'[p]) <= MaxLoads
  <2>1. asked[p] \in Nat /\ asked[p] + Len(queue) <= MaxLoads
    BY <1>1, <1>2 DEF Types, PageFits
  <2> QED
    BY <2>1, <1>3, <1>5, <1>7, <1>8, RealtimeAssumption
<1>15. ASSUME k = Len(queue)
       PROVE  PageFits(p)' /\ CaughtUp(p)'
  <2>1. \A j \in 1 .. Len(rest) : rest[j].overtaken
    BY <1>15, <1>3, <1>5
  <2>2. ~Fresh(p)'
    BY <2>1, <1>5, <1>11, <1>13
  <2>3. PageFits(p)'
    BY <2>1, <2>2, <1>1, <1>7, <1>8, <1>9, <1>14 DEF PageFits
  <2>4. CaughtUp(p)'
    <3> SUFFICES ASSUME p \notin blind', asked'[p] = 0, ~Pending(p)', p \notin outdated'
                 PROVE  Latest(p)' = Shown(p)'
      BY <2>2 DEF CaughtUp
    <3>1. Fresh(p) /\ Latest(p) = answer.shows
      BY <1>6, <1>10, <1>12, <1>15
    <3>2. Latest(p) = Shown(p)
      BY <3>1, <1>1, <1>7, <1>9, SamePending DEF CaughtUp
    <3> QED
      BY <3>1, <3>2, <2>2, <1>7, <1>13, SameServer
  <2> QED
    BY <2>3, <2>4
<1>16. ASSUME k < Len(queue)
       PROVE  PageFits(p)' /\ CaughtUp(p)'
  <2>1. rest # <<>> /\ rest[Len(rest)] = queue[Len(queue)]
    <3>1. Len(rest) \in 1 .. Len(rest) /\ Len(rest) >= k /\ Len(rest) + 1 = Len(queue)
      BY <1>16, <1>3, <1>5
    <3> QED
      BY <3>1, <1>5, <1>11
  <2>2. (Fresh(p)' <=> Fresh(p)) /\ (Fresh(p) => Latest(p)' = Latest(p))
    BY <2>1, <1>12, <1>13
  <2>3. ~Fresh(p) => \A j \in 1 .. Len(rest) : rest[j].overtaken
    <3> SUFFICES ASSUME ~Fresh(p), NEW j \in 1 .. Len(rest)
                 PROVE  rest[j].overtaken
      OBVIOUS
    <3>1. j < k \/ (j >= k /\ j + 1 \in 1 .. Len(queue))
      BY <1>3, <1>5
    <3> QED
      BY <3>1, <1>5, <1>12
  <2>4. PageFits(p)'
    BY <2>2, <2>3, <1>1, <1>7, <1>8, <1>9, <1>14 DEF PageFits
  <2>5. ~Fresh(p) => p \in outdated'
    BY <1>3, <1>6, <1>10, <1>12
  <2>6. CaughtUp(p)'
    BY <2>2, <2>5, <1>1, <1>7, <1>9, SamePending, SameServer DEF CaughtUp
  <2> QED
    BY <2>4, <2>6
<1>17. PageFits(p)' /\ CaughtUp(p)'
  BY <1>3, <1>15, <1>16
<1>18. \A c \in Page \ {p} : SameFor(c)
  BY <1>1, <1>7 DEF SameFor, Types
<1>19. /\ conn'[p] \in {"done", "missed"} => announced
       /\ announced /\ KindOf[p] = "track" => conn'[p] # "live"
  BY <1>1, <1>7 DEF OrderFits
<1> QED
  BY <1>1, <1>7, <1>8, <1>9, <1>17, <1>18, <1>19, PageKeeps DEF Types

-----------------------------------------------------------------------------
(* What a page shows is of its kind.                                        *)

Buttons == {"tap", "override", "cancel", "pay", "resend", "call", "ack", "close", "take", "start"}
(* These are all the buttons there are.                                     *)
LEMMA OfferedButtons ==
    ASSUME NEW p \in Page, NEW o \in Offers(p)
    PROVE  o[1] \in Buttons
BY DEF Offers, TrackOffers, StationOffers, BoardOffers, ListOffers, SessionOffers, Buttons

(* Only loads change what a page shows.                                     *)
LEMMA ViewsKeep ==
    ASSUME Types, \A c \in Page : ViewFits(c), [Next]_vars
    PROVE  \A c \in Page : ViewFits(c)'
<1>1. CASE UNCHANGED <<view, answers>>
  BY <1>1 DEF ViewFits
<1>2. ASSUME NEW p \in Page, Read(p)
      PROVE  \A c \in Page : ViewFits(c)'
  <2>1. view' = view /\ answers' = [answers EXCEPT ![p] = Append(answers[p], [shows |-> Shown(p), overtaken |-> FALSE])]
    BY <1>2 DEF Read
  <2>2. PICK queue \in Seq(Answer), more \in {answers'[p]} : queue = answers[p] /\ more = answers'[p]
    BY DEF Types
  <2>3. /\ Len(more) = Len(queue) + 1 /\ more[Len(more)].shows = Shown(p)
        /\ \A k \in 1 .. Len(queue) : more[k] = queue[k]
    BY <2>1, <2>2 DEF Types
  <2>4. \A k \in 1 .. Len(more) : more[k].shows \in ScreenOf(p)
    <3> SUFFICES ASSUME NEW k \in 1 .. Len(more)
                 PROVE  more[k].shows \in ScreenOf(p)
      OBVIOUS
    <3>1. k = Len(more) \/ k \in 1 .. Len(queue)
      BY <2>2, <2>3
    <3>2. \A n \in 1 .. Len(queue) : queue[n].shows \in ScreenOf(p)
      BY <2>2 DEF ViewFits
    <3> QED
      BY <3>1, <3>2, <2>3, ScreenType
  <2>5. ASSUME NEW c \in Page
        PROVE  ViewFits(c)'
    <3>1. CASE c = p
      BY <3>1, <2>1, <2>2, <2>4 DEF ViewFits, ScreenOf
    <3>2. CASE c # p
      BY <3>2, <2>1 DEF ViewFits, ScreenOf, Types
    <3> QED
      BY <3>1, <3>2
  <2> QED
    BY <2>5
<1>3. ASSUME NEW p \in Page, NEW k \in DOMAIN answers[p], Show(p, k)
      PROVE  \A c \in Page : ViewFits(c)'
  <2>1. PICK queue \in Seq(Answer) : queue = answers[p]
    BY DEF Types
  <2>2. k \in 1 .. Len(queue) /\ Len(queue) \in Nat
    BY <1>3, <2>1
  <2>3. PICK rest : rest = WithoutAnswer(queue, k)
    OBVIOUS
  <2>4. view' = [view EXCEPT ![p] = queue[k].shows] /\ answers' = [answers EXCEPT ![p] = rest]
    BY <1>3, <2>1, <2>3 DEF Show
  <2>5. \A n \in 1 .. Len(queue) : queue[n].shows \in ScreenOf(p)
    BY <2>1 DEF ViewFits
  <2>6. /\ Len(rest) = Len(queue) - 1
        /\ \A j \in 1 .. Len(rest) : rest[j].shows \in {queue[j].shows, queue[j + 1].shows}
    BY <2>2, <2>3, WithoutAnswerIs
  <2>7. \A j \in 1 .. Len(rest) : rest[j].shows \in ScreenOf(p)
    <3> SUFFICES ASSUME NEW j \in 1 .. Len(rest)
                 PROVE  rest[j].shows \in ScreenOf(p)
      OBVIOUS
    <3>1. j \in 1 .. Len(queue) /\ j + 1 \in 1 .. Len(queue)
      BY <2>2, <2>6
    <3> QED
      BY <3>1, <2>5, <2>6
  <2>8. ASSUME NEW c \in Page
        PROVE  ViewFits(c)'
    <3>1. CASE c = p
      <4>1. view'[p] = queue[k].shows /\ answers'[p] = rest
        BY <2>4 DEF Types
      <4> QED
        BY <3>1, <4>1, <2>2, <2>5, <2>7 DEF ViewFits, ScreenOf
    <3>2. CASE c # p
      BY <3>2, <2>4 DEF ViewFits, ScreenOf, Types
    <3> QED
      BY <3>1, <3>2
  <2> QED
    BY <2>8
<1>4. CASE Elsewhere
  <2>1. \A by, todo : Start(by, todo) => UNCHANGED <<view, answers>>
    BY DEF Start
  <2> QED
    BY <1>1, <1>4, <2>1
       DEF Elsewhere, Scan, Place, TakeOrder, SetStatus, Cancel, Pay, Call, Acknowledge, Close, Handoff
<1>5. ASSUME NEW p \in Page, NEW o \in Offers(p), Press(p, o)
      PROVE  \A c \in Page : ViewFits(c)'
  <2>1. \A by, todo : Start(by, todo) => UNCHANGED <<view, answers>>
    BY DEF Start
  <2>2. o[1] \in Buttons
    BY OfferedButtons
  <2> QED
    BY <1>1, <1>5, <2>1, <2>2
       DEF Buttons, Press, TakeOrder, SetStatus, Cancel, Pay, Call, Acknowledge, Close, vars
<1>6. ASSUME NEW p \in Page, RefusedCancel(p) \/ OpenTrack(p) \/ Join(p) \/ Drop(p) \/ LoadFails(p)
      PROVE  UNCHANGED <<view, answers>>
  BY <1>6 DEF RefusedCancel, OpenTrack, Join, Drop, LoadFails
<1>7. ASSUME NEW r \in Request,
             \/ BroadcastStep(r) \/ AssignStep(r) \/ ReceiptStep(r) \/ CallStep(r)
             \/ FinalizeStep(r) \/ AnnounceStep(r) \/ CloseStep(r) \/ Abandon(r) \/ Reply(r)
      PROVE  UNCHANGED <<view, answers>>
  BY <1>7 DEF BroadcastStep, AssignStep, ReceiptStep, CallStep, FinalizeStep, AnnounceStep, CloseStep, Abandon,
              Reply, client
<1> QED
  BY <1>1, <1>2, <1>3, <1>4, <1>5, <1>6, <1>7 DEF Next, vars

-----------------------------------------------------------------------------
(* What a page offers                                                       *)

(* The statuses next to a status are statuses of placed items.              *)
LEMMA NeighbouringStatus ==
    ASSUME NEW s, NEW next, next \in NextStatus(s) \union StepBack(s)
    PROVE  next \in Status \ {"none"} /\ s \in Status
BY DEF NextStatus, StepBack, Status

(* What stations and station boards offer.                                  *)
LEMMA QueueOffers ==
    ASSUME NEW p \in Page, ViewFits(p), KindOf[p] \in {"station", "board"}, NEW o \in Offers(p)
    PROVE  /\ view[p] # Nothing /\ o[2] \in DOMAIN view[p].queue /\ o[2] \in Item /\ o[3] \in Status \ {"none"}
           /\ view[p].queue[o[2]] \in Status
           /\ KindOf[p] = "station" => o[1] = "tap" /\ o[3] \in NextStatus(view[p].queue[o[2]])
           /\ KindOf[p] = "board" => /\ o[1] = "override"
                                     /\ \/ o[3] \in NextStatus(view[p].queue[o[2]]) \union StepBack(view[p].queue[o[2]])
                                        \/ view[p].queue[o[2]] = "ready" /\ o[3] = "served"
<1>1. view[p] # Nothing
  BY DEF Offers
<1>2. view[p].queue \in Queues
  BY <1>1 DEF ViewFits, ScreenOf
<1>3. PICK some \in SUBSET Item : view[p].queue \in [some -> Status]
  BY <1>2 DEF Queues
<1>4. PICK queue : queue = view[p].queue /\ DOMAIN queue \subseteq Item /\ \A i \in DOMAIN queue : queue[i] \in Status
  BY <1>3
<1>5. CASE KindOf[p] = "station"
  <2>1. PICK i \in DOMAIN queue, s \in Status : o = <<"tap", i, s>> /\ s \in NextStatus(queue[i])
    BY <1>1, <1>4, <1>5 DEF Offers, StationOffers
  <2>2. s \in Status \ {"none"}
    BY <2>1, NeighbouringStatus
  <2> QED
    BY <1>1, <1>4, <1>5, <2>1, <2>2
<1>6. CASE KindOf[p] = "board"
  <2>1. PICK i \in DOMAIN queue, s \in Status :
            o = <<"override", i, s>> /\ (s \in NextStatus(queue[i]) \union StepBack(queue[i]) \/ (queue[i] = "ready" /\ s = "served"))
    BY <1>1, <1>4, <1>6 DEF Offers, BoardOffers
  <2>2. s \in Status \ {"none"}
    BY <2>1, NeighbouringStatus DEF Status
  <2> QED
    BY <1>1, <1>4, <1>6, <2>1, <2>2
<1> QED
  BY <1>5, <1>6

(* What the waiters' and the floor's lists offer.                           *)
LEMMA ListTaps ==
    ASSUME NEW p \in Page, KindOf[p] \in {"waiter", "floor"}, NEW o \in Offers(p)
    PROVE  /\ view[p] # Nothing /\ o[1] \in {"close", "ack", "pay", "resend", "cancel", "take", "tap", "start"}
           /\ o[1] = "start" => view[p].idle
           /\ o[1] # "start" => view[p].listed # Nothing
           /\ o[1] = "tap" => KindOf[p] = "waiter" /\ o[2] \in Item /\ o[3] = "served" /\ view[p].listed.item[o[2]] = "ready"
           /\ o[1] = "pay" => view[p].listed.bill = "unpaid"
           /\ o[1] = "resend" => view[p].listed.bill = "paid"
           /\ o[1] = "cancel" => view[p].listed.bill = "unpaid" /\ KindOf[p] = "waiter"
<1>1. view[p] # Nothing /\ o \in ListOffers(p)
  BY DEF Offers
<1>2. CASE o = <<"start">> /\ view[p].idle
  BY <1>1, <1>2
<1>3. CASE view[p].listed # Nothing /\ o \in SessionOffers(KindOf[p], view[p].listed)
  <2>1. CASE o \in {<<"close">>, <<"ack">>, <<"take">>}
    BY <1>1, <1>3, <2>1
  <2>2. CASE o = <<"pay">> /\ view[p].listed.bill = "unpaid"
    BY <1>1, <1>3, <2>2
  <2>3. CASE o = <<"resend">> /\ view[p].listed.bill = "paid"
    BY <1>1, <1>3, <2>3
  <2>4. CASE o = <<"cancel">> /\ view[p].listed.bill = "unpaid" /\ KindOf[p] = "waiter"
    BY <1>1, <1>3, <2>4
  <2>5. CASE KindOf[p] = "waiter" /\ \E i \in {j \in Item : view[p].listed.item[j] = "ready"} : o = <<"tap", i, "served">>
    BY <1>1, <1>3, <2>5
  <2> QED
    BY <1>3, <2>1, <2>2, <2>3, <2>4, <2>5 DEF SessionOffers
<1> QED
  BY <1>1, <1>2, <1>3 DEF ListOffers

(* What the tracking page offers.                                           *)
LEMMA TrackOffersAre ==
    ASSUME NEW p \in Page, KindOf[p] = "track", NEW o \in Offers(p)
    PROVE  /\ view[p] # Nothing /\ o[1] \in {"call", "cancel"}
           /\ o[1] = "cancel" => \A i \in Item : view[p].item[i] = "received"
<1>1. view[p] # Nothing /\ o \in TrackOffers(p)
  BY DEF Offers
<1> QED
  BY <1>1 DEF TrackOffers

(* Nothing changes, the invariant neither.                                  *)
LEMMA UnchangedKeeps ==
    ASSUME ScreensInv, UNCHANGED vars
    PROVE  ScreensInv'
<1>1. Types' /\ OrderFits'
  BY DEF vars, ScreensInv, Types, OrderFits
<1>2. ASSUME NEW r \in Request
      PROVE  RequestFits(r)'
  BY DEF vars, ScreensInv, RequestFits, Opened
<1>3. ASSUME NEW c \in Page
      PROVE  PageFits(c)' /\ CaughtUp(c)'
  <2>1. PageFits(c) /\ CaughtUp(c)
    BY DEF ScreensInv
  <2>2. (Fresh(c)' <=> Fresh(c)) /\ Latest(c)' = Latest(c) /\ (Opened(c)' <=> Opened(c))
    BY DEF vars, Fresh, Latest, Opened
  <2>3. Shown(c)' = Shown(c) /\ (Pending(c)' <=> Pending(c))
    BY SameServer, SamePending DEF vars
  <2> QED
    BY <2>1, <2>2, <2>3 DEF vars, PageFits, CaughtUp
<1> QED
  BY <1>1, <1>2, <1>3 DEF ScreensInv

(* A request that a page sends keeps the invariant.                         *)
LEMMA PressKeeps ==
    ASSUME ScreensInv, NEW p \in Page, ViewFits(p), NEW o \in Offers(p), Press(p, o)
    PROVE  ScreensInv'
<1>1. Opened(p) /\ p \in Page \union {None} /\ None \in Page \union {None}
  BY OffersOpened
<1>2. CASE o[1] \in {"tap", "override"}
  <2>1. o[2] \in Item /\ o[3] \in Status \ {"none"}
    <3>1. CASE KindOf[p] \in {"station", "board"}
      BY <3>1, QueueOffers
    <3>2. CASE KindOf[p] \in {"waiter", "floor"}
      BY <3>2, <1>2, ListTaps DEF Status
    <3>3. KindOf[p] # "track"
      BY <1>2, TrackOffersAre
    <3> QED
      BY <3>1, <3>2, <3>3, RealtimeAssumption DEF Kind
  <2>2. SetStatus(o[2], o[3], p)
    BY <1>2 DEF Press
  <2> QED
    BY <2>1, <2>2, <1>1, SetStatusKeeps
<1>3. CASE o[1] = "cancel"
  BY <1>1, <1>3, CancelKeeps DEF Press
<1>4. CASE o[1] = "pay"
  BY <1>1, <1>4, PayKeeps DEF Press
<1>5. CASE o[1] = "call"
  BY <1>1, <1>5, CallKeeps DEF Press
<1>6. CASE o[1] = "ack"
  BY <1>1, <1>6, AcknowledgeKeeps DEF Press
<1>7. CASE o[1] = "close"
  BY <1>1, <1>7, CloseKeeps DEF Press
<1>8. CASE o[1] = "resend"
  BY <1>8, UnchangedKeeps DEF Press
<1>9. CASE o[1] \in {"take", "start"}
  <2>1. TakeOrder(UserOf[p], p) /\ UserOf[p] \in Waiter
    BY <1>9, RealtimeAssumption DEF Press
  <2> QED
    BY <2>1, <1>1, TakeKeeps
<1> QED
  BY <1>2, <1>3, <1>4, <1>5, <1>6, <1>7, <1>8, <1>9, OfferedButtons DEF Buttons

(* So does one from elsewhere.                                              *)
LEMMA ElsewhereKeeps ==
    ASSUME ScreensInv, Elsewhere
    PROVE  ScreensInv'
<1>1. None \in Page \union {None}
  OBVIOUS
<1>2. CASE Place
  BY <1>2, PlaceKeeps
<1>3. ASSUME NEW i \in Item, NEW s \in {"preparing", "ready", "served"}, SetStatus(i, s, None)
      PROVE  ScreensInv'
  <2>1. s \in Status \ {"none"}
    BY <1>3 DEF Status
  <2> QED
    BY <1>1, <1>3, <2>1, SetStatusKeeps
<1>4. ASSUME NEW i \in Item, NEW s \in StepBack(item[i]), SetStatus(i, s, None)
      PROVE  ScreensInv'
  <2>1. s \in Status \ {"none"}
    BY <1>4, NeighbouringStatus
  <2> QED
    BY <1>1, <1>4, <2>1, SetStatusKeeps
<1>5. ASSUME NEW asCustomer \in BOOLEAN, Cancel(asCustomer, None)
      PROVE  ScreensInv'
  BY <1>1, <1>5, CancelKeeps
<1>6. CASE Pay(None)
  BY <1>1, <1>6, PayKeeps
<1>7. CASE Call(None)
  BY <1>1, <1>7, CallKeeps
<1>8. CASE Acknowledge(None)
  BY <1>1, <1>8, AcknowledgeKeeps
<1>9. CASE Close(None)
  BY <1>1, <1>9, CloseKeeps
<1>10. ASSUME NEW w \in Waiter, Handoff(w)
       PROVE  ScreensInv'
  BY <1>10, HandoffKeeps
<1>11. CASE Scan
  BY <1>11, ScanKeeps
<1>12. ASSUME NEW w \in Waiter, TakeOrder(w, None)
       PROVE  ScreensInv'
  BY <1>1, <1>12, TakeKeeps
<1> QED
  BY <1>2, <1>3, <1>4, <1>5, <1>6, <1>7, <1>8, <1>9, <1>10, <1>11, <1>12 DEF Elsewhere

-----------------------------------------------------------------------------
(* The receipt                                                              *)

(* A paid order has its receipt, some request is still to issue it, or      *)
(* something has failed.                                                    *)
ReceiptFits ==
    /\ receipt \in BOOLEAN /\ drops \in Nat
    /\ bill = "paid" => receipt \/ drops > 0 \/ \E r \in Request : Due(r)

(* A request does not pass over a receipt that is to be issued.             *)
LEMMA DueStays ==
    ASSUME Types, NEW r \in Request, NEW by, NEW todo \in Seq(Step), GoOn(r, by, todo),
           NEW k \in 1 .. Len(todo), todo[k].what = "receipt"
    PROVE  Due(r)'
<1>1. PICK n \in Skipped(todo) :
          request' = [request EXCEPT ![r] = [todo |-> SubSeq(todo, n + 1, Len(todo)), by |-> by, busy |-> TRUE]]
  BY DEF GoOn
<1>2. PICK rest : rest = SubSeq(todo, n + 1, Len(todo))
  OBVIOUS
<1>3. n \in 0 .. Len(todo) /\ Len(todo) \in Nat /\ \A m \in 1 .. n : ~Watched(todo[m])
  BY DEF Skipped
<1>4. Watched(todo[k])
  BY DEF Watched, Broadcasts
<1>5. k > n
  BY <1>3, <1>4
<1>6. /\ rest \in Seq(Step) /\ Len(rest) = Len(todo) - n
      /\ \A m \in 1 .. Len(rest) : rest[m] = todo[m + n]
  BY <1>2, <1>3, RestOf
<1>7. k - n \in 1 .. Len(rest) /\ rest[k - n] = todo[k]
  BY <1>3, <1>5, <1>6
<1>8. request'[r].todo = rest /\ DOMAIN rest = 1 .. Len(rest)
  BY <1>1, <1>2, <1>6 DEF Types
<1> QED
  BY <1>7, <1>8 DEF Due

(* A request that begins is not one that is still to issue a receipt.       *)
LEMMA StartKeepsDue ==
    ASSUME ScreensInv, NEW by, NEW todo, Start(by, todo), NEW r \in Request, Due(r)
    PROVE  Due(r)'
<1>1. PICK s \in Request : ~request[s].busy /\ GoOn(s, by, todo)
  BY DEF Start
<1>2. s # r
  BY <1>1 DEF ScreensInv, RequestFits, Due
<1>3. request'[r] = request[r]
  BY <1>1, <1>2 DEF GoOn, ScreensInv, Types
<1> QED
  BY <1>3 DEF Due

(* Nor is one that does another step than to issue it.                      *)
LEMMA RestKeepsDue ==
    ASSUME ScreensInv, NEW s \in Request, request[s].todo # <<>>,
           Head(request[s].todo).what \notin {"receipt", "finalize"}, Rest(s), NEW r \in Request, Due(r)
    PROVE  Due(r)'
<1>1. Types /\ GoOn(s, request[s].by, Tail(request[s].todo))
  BY DEF ScreensInv, Rest
<1>2. CASE s # r
  <2>1. request'[r] = request[r]
    BY <1>1, <1>2 DEF GoOn, Types
  <2> QED
    BY <2>1 DEF Due
<1>3. CASE s = r
  <2>1. PICK todo \in Seq(Step), rest \in {Tail(request[r].todo)} : todo = request[r].todo /\ Follows(rest, todo)
    BY <1>1 DEF Types, Row, Follows
  <2>2. PICK k \in 1 .. Len(todo) : todo[k].what = "receipt"
    BY <2>1 DEF Due
  <2>3. todo[1] = Head(todo) /\ k # 1
    BY <1>3, <2>1, <2>2, EmptySeq
  <2>4. PICK m \in 1 .. Len(rest) : rest[m] = todo[k]
    BY <2>1, <2>2, <2>3, TailHas
  <2>5. rest \in Seq(Step)
    BY <1>3, <2>1 DEF Follows
  <2>6. GoOn(r, request[s].by, rest)
    BY <1>1, <1>3, <2>1 DEF Follows
  <2> QED
    BY <1>1, <2>2, <2>4, <2>5, <2>6, DueStays
<1> QED
  BY <1>2, <1>3

(* What a payment does about the receipt.                                   *)
LEMMA PayIssues ==
    ASSUME ScreensInv, NEW by, Pay(by)
    PROVE  (\E r \in Request : Due(r)') /\ UNCHANGED <<receipt, drops>>
<1>1. PICK r \in Request : GoOn(r, by, AfterPay)
  BY DEF Pay, Start
<1>2. PICK todo : todo = AfterPay
  OBVIOUS
<1>3. todo \in Seq(Step) /\ Len(todo) = 2 /\ todo[1].what = "receipt"
  BY <1>2, PayList DEF AfterPay, Do
<1>4. Due(r)'
  BY <1>1, <1>2, <1>3, DueStays DEF ScreensInv
<1> QED
  BY <1>4 DEF Pay, Start

(* Any other request that begins leaves the receipt alone.                  *)
LEMMA OthersKeepReceipt ==
    ASSUME ScreensInv, ReceiptFits, NEW by, NEW todo, Start(by, todo), UNCHANGED receipt,
           bill' = "paid" => bill = "paid"
    PROVE  ReceiptFits'
<1>1. drops' = drops
  BY DEF Start
<1>2. \A r \in Request : Due(r) => Due(r)'
  BY StartKeepsDue
<1> QED
  BY <1>1, <1>2 DEF ReceiptFits

(* Every step keeps the receipt of a paid order in sight.                   *)
LEMMA ReceiptKeeps ==
    ASSUME ScreensInv, ReceiptFits, [Next]_vars
    PROVE  ReceiptFits'
<1>1. \A by : Pay(by) => ReceiptFits'
  BY PayIssues DEF ReceiptFits
<1>2. CASE UNCHANGED vars
  BY <1>2 DEF vars, ReceiptFits, Due
<1>3. ASSUME Scan \/ Order, NEW by, NEW todo, Start(by, todo)
      PROVE  ReceiptFits'
  BY <1>3, OthersKeepReceipt DEF Scan, Order
<1>4. \A by : \A w \in Waiter : TakeOrder(w, by) => ReceiptFits'
  BY <1>3 DEF TakeOrder
<1>5. \A i, st, by : SetStatus(i, st, by) => ReceiptFits'
  BY OthersKeepReceipt DEF SetStatus
<1>6. \A as, by : Cancel(as, by) => ReceiptFits'
  BY OthersKeepReceipt DEF Cancel
<1>7. \A by : Call(by) \/ Acknowledge(by) \/ Close(by) => ReceiptFits'
  <2>1. ASSUME NEW by, Call(by)
        PROVE  ReceiptFits'
    BY <2>1, OthersKeepReceipt DEF Call, server
  <2>2. ASSUME NEW by, Acknowledge(by)
        PROVE  ReceiptFits'
    BY <2>2, OthersKeepReceipt DEF Acknowledge
  <2>3. ASSUME NEW by, Close(by)
        PROVE  ReceiptFits'
    BY <2>3, OthersKeepReceipt DEF Close
  <2> QED
    BY <2>1, <2>2, <2>3
<1>8. \A w \in Waiter : Handoff(w) => ReceiptFits'
  BY OthersKeepReceipt DEF Handoff
<1>9. CASE Elsewhere
  <2>1. Scan \/ Place => ReceiptFits'
    BY <1>3 DEF Scan, Place
  <2> QED
    BY <1>9, <2>1, <1>1, <1>4, <1>5, <1>6, <1>7, <1>8 DEF Elsewhere
<1>10. ASSUME NEW p \in Page, NEW o \in Offers(p), Press(p, o)
       PROVE  ReceiptFits'
  <2>1. o[1] \in Buttons /\ UserOf[p] \in Waiter
    BY OfferedButtons, RealtimeAssumption
  <2> QED
    BY <1>10, <2>1, <1>1, <1>2, <1>4, <1>5, <1>6, <1>7 DEF Press, Buttons
<1>11. ASSUME NEW p \in Page,
              \/ RefusedCancel(p) \/ OpenTrack(p) \/ Join(p) \/ Drop(p) \/ Read(p) \/ LoadFails(p)
              \/ \E k \in DOMAIN answers[p] : Show(p, k)
       PROVE  ReceiptFits'
  <2>1. UNCHANGED <<bill, receipt, request>> /\ (drops' = drops \/ drops' = drops + 1)
    BY <1>11 DEF RefusedCancel, OpenTrack, Join, Drop, Read, LoadFails, Show, Fails, server
  <2> QED
    BY <2>1 DEF ReceiptFits, Due
<1>12. ASSUME NEW s \in Request, BroadcastStep(s) \/ AssignStep(s) \/ CallStep(s) \/ AnnounceStep(s) \/ CloseStep(s)
       PROVE  ReceiptFits'
  <2>1. /\ UNCHANGED <<bill, receipt>> /\ (drops' = drops \/ drops' = drops + 1)
        /\ Rest(s) /\ request[s].todo # <<>> /\ Head(request[s].todo).what \notin {"receipt", "finalize"}
    BY <1>12 DEF BroadcastStep, AssignStep, CallStep, AnnounceStep, CloseStep, Doing, Broadcast, Broadcasts, Fails, server
  <2>2. \A r \in Request : Due(r) => Due(r)'
    BY <2>1, RestKeepsDue
  <2> QED
    BY <2>1, <2>2 DEF ReceiptFits
<1>13. ASSUME NEW s \in Request, FinalizeStep(s)
       PROVE  ReceiptFits'
  <2>1. UNCHANGED <<bill, receipt, drops>>
    BY <1>13 DEF FinalizeStep, server
  <2>2. ~Due(s)
    <3>1. PICK todo \in Seq(Step) : todo = request[s].todo /\ TodoFits(todo, bill, announced)
      BY DEF ScreensInv, Types, Row, RequestFits
    <3>2. todo # <<>> /\ todo[1].what = "finalize" /\ 1 \in 1 .. Len(todo)
      BY <1>13, <3>1, EmptySeq DEF FinalizeStep, Doing
    <3>3. Len(todo) = 1
      BY <3>1, <3>2 DEF TodoFits
    <3> QED
      BY <3>1, <3>2, <3>3 DEF Due
  <2>3. \A r \in Request \ {s} : request'[r] = request[r]
    BY <1>13 DEF FinalizeStep, GoOn, ScreensInv, Types
  <2>4. \A r \in Request : Due(r) => Due(r)'
    BY <2>2, <2>3 DEF Due
  <2> QED
    BY <2>1, <2>4 DEF ReceiptFits
<1>14. ASSUME NEW s \in Request, ReceiptStep(s) \/ Abandon(s)
       PROVE  ReceiptFits'
  <2>1. receipt' = TRUE \/ (receipt' = receipt /\ drops' = drops + 1)
    BY <1>14 DEF ReceiptStep, Abandon, Fails, server
  <2>2. drops' = drops \/ drops' = drops + 1
    BY <1>14 DEF ReceiptStep, Abandon, Fails
  <2>3. receipt' \in BOOLEAN /\ drops' \in Nat
    <3>1. receipt \in BOOLEAN /\ drops \in Nat
      BY DEF ReceiptFits
    <3>2. drops' \in Nat
      BY <3>1, <2>2
    <3>3. receipt' \in BOOLEAN
      BY <3>1, <2>1, Zenon
    <3> QED
      BY <3>2, <3>3
  <2>4. receipt' = TRUE \/ drops' > 0
    BY <2>1 DEF ReceiptFits
  <2> QED
    BY <2>3, <2>4 DEF ReceiptFits
<1>15. ASSUME NEW s \in Request, Reply(s)
       PROVE  ReceiptFits'
  <2>1. UNCHANGED <<bill, receipt, drops>> /\ ~Due(s)
    BY <1>15 DEF Reply, Due, server
  <2>2. \A r \in Request \ {s} : request'[r] = request[r]
    BY <1>15 DEF Reply, ScreensInv, Types
  <2>3. \A r \in Request : Due(r) => Due(r)'
    BY <2>1, <2>2 DEF Due
  <2> QED
    BY <2>1, <2>3 DEF ReceiptFits
<1> QED
  BY <1>2, <1>9, <1>10, <1>11, <1>12, <1>13, <1>14, <1>15 DEF Next

-----------------------------------------------------------------------------
(* The invariant holds                                                      *)

Inv == ScreensInv /\ ReceiptFits /\ \A c \in Page : ViewFits(c)

(* The invariant holds at first.                                            *)
LEMMA Starts == Init => Inv
<1> SUFFICES ASSUME Init
             PROVE  Inv
  OBVIOUS
<1>1. PICK open \in Open :
          conn = [c \in Page |-> IF c \notin open THEN "away" ELSE IF KindOf[c] = "track" THEN "off" ELSE "connecting"]
  BY DEF Init
<1>2. /\ item \in Statuses /\ bill \in {"none", "unpaid", "paid"} /\ waiter \in Assignee
      /\ seated \in BOOLEAN /\ calling \in BOOLEAN
      /\ bill # "none" => \A i \in Item : item[i] # "none"
  BY RealtimeAssumption DEF Init, Statuses, Assignee
<1>3. /\ \A c \in Page : conn[c] \in {"away", "off", "connecting"}
      /\ conn \in [Page -> Connection]
      /\ \A c \in Page : KindOf[c] = "track" => ~Opened(c)
      /\ asked = [c \in Page |-> IF conn[c] = "connecting" THEN 1 ELSE 0]
      /\ view = [c \in Page |-> Nothing] /\ answers = [c \in Page |-> <<>>]
      /\ announced = FALSE /\ blind = {} /\ outdated = {}
  BY <1>1 DEF Init, Connection, Opened
<1>4. request = [r \in Request |-> [todo |-> <<>>, by |-> None, busy |-> FALSE]]
  BY DEF Init, Idle
<1>5. request \in [Request -> Row]
  BY <1>4 DEF Row
<1>6. \A c \in Page : /\ view[c] = Nothing /\ answers[c] = <<>> /\ ~Fresh(c)
                       /\ asked[c] = IF Opened(c) THEN 1 ELSE 0
  BY <1>3 DEF Fresh, Opened
<1>7. Types
  <2>1. view \in [Page -> Screen] /\ asked \in [Page -> Nat] /\ answers \in [Page -> Seq(Answer)]
    BY <1>3 DEF Screen
  <2> QED
    BY <2>1, <1>2, <1>3, <1>5 DEF Types
<1>8. OrderFits
  BY <1>2, <1>3 DEF OrderFits
<1>9. ASSUME NEW r \in Request
      PROVE  RequestFits(r)
  BY <1>4, NoList DEF RequestFits
<1>10. ASSUME NEW c \in Page
       PROVE  PageFits(c) /\ CaughtUp(c) /\ ViewFits(c)
  <2>1. Len(answers[c]) = 0
    BY <1>6
  <2>2. PageFits(c)
    BY <2>1, <1>3, <1>6, RealtimeAssumption DEF PageFits
  <2>3. CaughtUp(c)
    BY <1>6 DEF CaughtUp
  <2>4. ViewFits(c)
    BY <2>1, <1>6 DEF ViewFits, ScreenOf
  <2> QED
    BY <2>2, <2>3, <2>4
<1>11. ReceiptFits
  <2>1. bill # "paid"
    BY DEF Init
  <2> QED
    BY <2>1 DEF Init, ReceiptFits
<1> QED
  BY <1>7, <1>8, <1>9, <1>10, <1>11 DEF Inv, ScreensInv

(* Every step keeps the invariant.                                          *)
LEMMA Keep ==
    ASSUME Inv, [Next]_vars
    PROVE  Inv'
<1>1. ScreensInv /\ Types /\ \A c \in Page : ViewFits(c)
  BY DEF Inv, ScreensInv
<1>2. CASE UNCHANGED vars
  BY <1>1, <1>2, UnchangedKeeps, ReceiptKeeps, ViewsKeep DEF Inv
<1>3. ASSUME Elsewhere
      PROVE  ScreensInv'
  BY <1>1, <1>3, ElsewhereKeeps
<1>4. ASSUME NEW p \in Page, NEW o \in Offers(p), Press(p, o)
      PROVE  ScreensInv'
  BY <1>1, <1>4, PressKeeps
<1>5. ASSUME NEW p \in Page, RefusedCancel(p) \/ OpenTrack(p) \/ Join(p) \/ Drop(p) \/ Read(p) \/ LoadFails(p)
      PROVE  ScreensInv'
  BY <1>1, <1>5, RefusedCancelKeeps, OpenTrackKeeps, ConnectKeeps, ReadKeeps, LoadFailsKeeps
<1>6. ASSUME NEW p \in Page, NEW k \in DOMAIN answers[p], Show(p, k)
      PROVE  ScreensInv'
  BY <1>1, <1>6, ShowKeeps
<1>7. ASSUME NEW r \in Request,
             \/ BroadcastStep(r) \/ AssignStep(r) \/ ReceiptStep(r) \/ CallStep(r)
             \/ FinalizeStep(r) \/ AnnounceStep(r) \/ CloseStep(r) \/ Abandon(r) \/ Reply(r)
      PROVE  ScreensInv'
  BY <1>1, <1>7, BroadcastKeeps, AssignKeeps, ReceiptStepKeeps, CallStepKeeps, FinalizeKeeps, AnnounceKeeps,
     CloseStepKeeps, AbandonKeeps, ReplyKeeps
<1>8. CASE Next
  <2>1. ScreensInv'
    BY <1>3, <1>4, <1>5, <1>6, <1>7, <1>8 DEF Next
  <2> QED
    BY <2>1, <1>1, ReceiptKeeps, ViewsKeep DEF Inv
<1> QED
  BY <1>2, <1>8

(* What holds of the server, the requests and the pages in every state.     *)
THEOREM ScreensInvariant == Spec => []Inv
<1>1. Init => Inv
  BY Starts
<1>2. Inv /\ [Next]_vars => Inv'
  BY Keep
<1> QED
  BY <1>1, <1>2, PTL DEF Spec

(* Every variable keeps its type.  A request never has more than five steps *)
(* left, a page is told that its order is complete only once it has been    *)
(* announced, and an order is announced complete only when it is paid.      *)
THEOREM RealtimeTypes == Spec => []TypeOK
<1>1. Inv => TypeOK
  <2> SUFFICES ASSUME Inv
               PROVE  TypeOK
    OBVIOUS
  <2>1. Types /\ OrderFits /\ (\A r \in Request : RequestFits(r)) /\ \A c \in Page : PageFits(c)
    BY DEF Inv, ScreensInv
  <2>2. /\ item \in [Item -> Status] /\ bill \in {"none", "unpaid", "paid"} /\ waiter \in Waiter \union {None}
        /\ {seated, calling, receipt, announced} \subseteq BOOLEAN /\ conn \in [Page -> Connection]
        /\ blind \subseteq Page /\ outdated \subseteq Page
    BY <2>1 DEF Types, Statuses, Assignee, Inv, ReceiptFits
  <2>3. \A r \in Request : request[r].by \in Page \union {None} /\ Len(request[r].todo) <= 5
    BY <2>1 DEF Types, Row, RequestFits
  <2>4. (\A c \in Page : conn[c] \in {"done", "missed"} => announced) /\ (announced => bill = "paid")
    BY <2>1 DEF OrderFits
  <2>5. ASSUME NEW c \in Page
        PROVE  Loads(c) <= MaxLoads /\ asked[c] \in 0 .. MaxLoads
    <3>1. asked[c] \in Nat /\ answers[c] \in Seq(Answer) /\ asked[c] + Len(answers[c]) <= MaxLoads
      BY <2>1 DEF Types, PageFits
    <3>2. Len(answers[c]) \in Nat
      BY <3>1
    <3> QED
      BY <3>1, <3>2, RealtimeAssumption DEF Loads
  <2>6. asked \in [Page -> 0 .. MaxLoads]
    BY <2>1, <2>5 DEF Types
  <2> QED
    BY <2>2, <2>3, <2>4, <2>5, <2>6 DEF TypeOK
<1> QED
  BY <1>1, ScreensInvariant, PTL

(* When everything has settled, a page that is connected, or was let go     *)
(* because its order was complete, shows what the server holds, unless it   *)
(* is blind or its last answer was overtaken: whatever the broadcasts,      *)
(* loads and reconnects of any number of requests and pages interleave to.  *)
THEOREM SettledScreensCatchUp == Spec => []ScreensCatchUp
<1>1. Inv => ScreensCatchUp
  <2> SUFFICES ASSUME Inv, NEW c \in Page, Quiet(c), conn[c] \in {"live", "missed", "done"}, c \notin blind \union outdated
               PROVE  view[c] = Shown(c)
    BY DEF ScreensCatchUp
  <2>1. CaughtUp(c) /\ \A r \in Request : RequestFits(r)
    BY DEF Inv, ScreensInv
  <2>2. Opened(c) /\ asked[c] = 0 /\ answers[c] = <<>>
    BY DEF Opened, Quiet
  <2>3. \A r \in Request : request[r].todo = <<>>
    BY <2>1 DEF Quiet, RequestFits
  <2>4. ~Pending(c)
    BY <2>3 DEF Pending
  <2>5. Latest(c) = view[c]
    BY <2>2 DEF Latest, Fresh
  <2> QED
    BY <2>1, <2>2, <2>4, <2>5 DEF CaughtUp
<1> QED
  BY <1>1, ScreensInvariant, PTL

(* A page that shows what the server holds offers no button the server      *)
(* refuses, with the five exceptions that the property names.               *)
THEOREM UpToDateOffersAccepted == Spec => []OffersAccepted
<1>1. Inv => OffersAccepted
  <2> SUFFICES ASSUME Inv, NEW c \in Page, view[c] = Shown(c), NEW o \in Offers(c)
               PROVE  Accepts(c, o) \/ Excepted(c, o)
    BY DEF OffersAccepted
  <2>1. ScreensInv /\ Types /\ OrderFits /\ ViewFits(c) /\ PageFits(c) /\ KindOf[c] \in Kind
    BY RealtimeAssumption DEF Inv, ScreensInv
  <2>2. CASE KindOf[c] \in {"station", "board"}
    <3>1. /\ view[c].queue = Queue(StationOf[c], {"none", "served", "cancelled"})
          \/ view[c].queue = Queue(StationOf[c], {"none", "cancelled"})
      <4>1. CASE KindOf[c] = "station"
        BY <4>1 DEF Shown, QueueForDestination
      <4>2. CASE KindOf[c] = "board"
        BY <4>2 DEF Shown, StationBoard
      <4> QED
        BY <2>2, <4>1, <4>2
    <3>2. o[2] \in Item /\ o[2] \in DOMAIN view[c].queue
      BY <2>1, <2>2, QueueOffers
    <3>3. view[c].queue[o[2]] = item[o[2]] /\ item[o[2]] # "none" /\ item[o[2]] \in Status
      BY <3>1, <3>2, <2>1 DEF Queue, Types, Statuses
    <3>4. CASE KindOf[c] = "station"
      <4>1. o[1] = "tap" /\ o[3] \in NextStatus(item[o[2]])
        BY <3>3, <3>4, <2>1, QueueOffers
      <4>2. MayTap(o[2], o[3]) /\ RoleAllows(KindOf[c], o[3])
        BY <3>3, <3>4, <4>1 DEF NextStatus, MayTap, RoleAllows, Index
      <4> QED
        BY <4>1, <4>2 DEF Accepts
    <3>5. CASE KindOf[c] = "board"
      <4>1. /\ o[1] = "override"
            /\ \/ o[3] \in NextStatus(item[o[2]]) \union StepBack(item[o[2]])
               \/ item[o[2]] = "ready" /\ o[3] = "served"
        BY <3>3, <3>5, <2>1, QueueOffers
      <4>2. MayOverride(o[2], o[3])
        BY <3>3, <4>1 DEF NextStatus, StepBack, MayOverride
      <4> QED
        BY <3>5, <4>1, <4>2 DEF Accepts
    <3> QED
      BY <2>2, <3>4, <3>5
  <2>3. CASE KindOf[c] = "track"
    <3>1. bill # "none" /\ bill \in {"none", "unpaid", "paid"}
      BY <2>1, <2>3, OffersOpened DEF PageFits, Types
    <3>2. o[1] \in {"call", "cancel"} /\ (o[1] = "cancel" => \A i \in Item : item[i] = "received")
      <4>1. view[c] = [item |-> item]
        BY <2>3 DEF Shown, TrackedOrder
      <4> QED
        BY <4>1, <2>3, TrackOffersAre
    <3>3. CASE o[1] = "call"
      BY <3>1, <3>3 DEF Accepts
    <3>4. CASE o[1] = "cancel" /\ bill = "unpaid"
      <4>1. MayCancel(KindOf[c] = "track")
        BY <3>2, <3>4, RealtimeAssumption DEF MayCancel, LiveItems, Cancellable
      <4> QED
        BY <4>1, <3>4, <2>3 DEF Accepts
    <3>5. CASE o[1] = "cancel" /\ bill = "paid"
      BY <3>5, <2>3 DEF Excepted
    <3> QED
      BY <3>1, <3>2, <3>3, <3>4, <3>5
  <2>4. CASE KindOf[c] \in {"waiter", "floor"}
    <3>1. view[c] # Nothing /\ o[1] \in {"close", "ack", "pay", "resend", "cancel", "take", "tap", "start"}
      BY <2>4, ListTaps
    <3>2. TableStaff(c)
      BY <2>4 DEF TableStaff
    <3>3. CASE o[1] = "start"
      <4>1. waiter = None => OwnTable(c)
        BY DEF OwnTable
      <4> QED
        BY <4>1, <3>2, <3>3 DEF Accepts, Excepted
    <3>4. CASE o[1] # "start"
      <4>1. view[c].listed = Session /\ seated /\ OwnTable(c)
        <5>1. view[c].listed # Nothing
          BY <2>4, <3>4, ListTaps
        <5>2. CASE KindOf[c] = "waiter"
          BY <5>1, <5>2 DEF Shown, TableList, WaiterView, OwnTable
        <5>3. CASE KindOf[c] = "floor"
          BY <5>1, <5>3 DEF Shown, TableList, WaiterView, OwnTable
        <5> QED
          BY <2>4, <5>2, <5>3
      <4>2. view[c].listed.item = item /\ view[c].listed.bill = bill
        BY <4>1 DEF Session
      <4>3. /\ o[1] = "tap" => KindOf[c] = "waiter" /\ o[3] = "served" /\ item[o[2]] = "ready"
            /\ o[1] = "pay" => bill = "unpaid"
            /\ o[1] = "resend" => bill = "paid"
            /\ o[1] = "cancel" => bill = "unpaid" /\ KindOf[c] = "waiter"
        BY <2>4, <4>2, ListTaps
      <4>4. CASE o[1] = "tap"
        <5>1. MayTap(o[2], o[3]) /\ RoleAllows(KindOf[c], o[3])
          BY <4>3, <4>4 DEF MayTap, RoleAllows, Index
        <5> QED
          BY <5>1, <4>4 DEF Accepts
      <4>5. CASE o[1] = "close"
        BY <4>1, <3>2, <4>5 DEF MayClose, Accepts, Excepted
      <4>6. CASE o[1] \in {"ack", "pay", "take"}
        BY <4>1, <4>3, <4>6, <3>2 DEF Accepts
      <4>7. CASE o[1] = "resend"
        <5>1. receipt \/ drops > 0 \/ \E r \in Request : Due(r)
          BY <4>3, <4>7 DEF Inv, ReceiptFits
        <5> QED
          BY <5>1, <4>7, <3>2 DEF Accepts, Excepted
      <4>8. CASE o[1] = "cancel"
        <5>1. bill = "unpaid" /\ KindOf[c] = "waiter"
          BY <4>3, <4>8
        <5>2. \A i \in Item : item[i] \in Status \ {"none"}
          BY <5>1, <2>1 DEF OrderFits, Types, Statuses
        <5>3. CASE \E i \in Item : item[i] \in Cancellable
          <6>1. MayCancel(KindOf[c] = "track")
            BY <5>1, <5>3 DEF MayCancel, LiveItems, Cancellable
          <6> QED
            BY <6>1, <4>8, <3>2 DEF Accepts
        <5>4. CASE \A i \in Item : item[i] \notin Cancellable
          <6>1. \A i \in Item : item[i] \in {"served", "cancelled"}
            BY <5>2, <5>4 DEF Cancellable, Status
          <6> QED
            BY <6>1, <5>1, <4>8 DEF Excepted
        <5> QED
          BY <5>3, <5>4
      <4> QED
        BY <3>1, <3>4, <4>4, <4>5, <4>6, <4>7, <4>8
    <3> QED
      BY <3>3, <3>4
  <2> QED
    BY <2>1, <2>2, <2>3, <2>4 DEF Kind
<1> QED
  BY <1>1, ScreensInvariant, PTL

(* No request takes away the connection of a page that was in the room when *)
(* its order was announced complete and that the announcement reached.      *)
THEOREM CutOffPagesWereTold == Spec => CutOffOnlyTold
<1>1. ASSUME Inv, [Next]_vars, NEW c \in Page, conn[c] = "live", conn'[c] = "connecting"
      PROVE  UNCHANGED request
  <2>1. ScreensInv /\ Types /\ c \in Page
    BY <1>1 DEF Inv, ScreensInv
  <2>2. conn' # conn
    BY <1>1
  <2>3. \A by, todo : Start(by, todo) => conn' = conn
    BY DEF Start
  <2>4. ~Elsewhere
    BY <2>2, <2>3 DEF Elsewhere, Scan, Place, TakeOrder, SetStatus, Cancel, Pay, Call, Acknowledge, Close, Handoff
  <2>5. ASSUME NEW p \in Page, NEW o \in Offers(p), Press(p, o)
        PROVE  FALSE
    <3>1. o[1] \in Buttons
      BY OfferedButtons
    <3> QED
      BY <2>2, <2>3, <2>5, <3>1 DEF Buttons, Press, TakeOrder, SetStatus, Cancel, Pay, Call, Acknowledge, Close, vars
  <2>6. ASSUME NEW p \in Page, OpenTrack(p) \/ Join(p)
        PROVE  FALSE
    <3>1. p # c \/ conn[p] \in {"off", "connecting"}
      BY <2>6 DEF OpenTrack, Join
    <3>2. p # c /\ conn'[c] = conn[c]
      BY <3>1, <2>6, <1>1, <2>1 DEF OpenTrack, Join, Types
    <3> QED
      BY <3>2, <1>1
  <2>7. ASSUME NEW p \in Page, Drop(p)
        PROVE  UNCHANGED request
    BY <2>7 DEF Drop
  <2>8. ASSUME NEW p \in Page,
               RefusedCancel(p) \/ Read(p) \/ LoadFails(p) \/ \E k \in DOMAIN answers[p] : Show(p, k)
        PROVE  FALSE
    BY <2>2, <2>8 DEF RefusedCancel, Read, LoadFails, Show
  <2>9. ASSUME NEW r \in Request,
               \/ BroadcastStep(r) \/ AssignStep(r) \/ ReceiptStep(r) \/ CallStep(r)
               \/ FinalizeStep(r) \/ Abandon(r) \/ Reply(r)
        PROVE  FALSE
    BY <2>2, <2>9 DEF BroadcastStep, AssignStep, ReceiptStep, CallStep, FinalizeStep, Abandon, Reply, client
  <2>10. ASSUME NEW r \in Request, AnnounceStep(r)
         PROVE  FALSE
    <3>1. conn'[c] \in {"missed", "done", conn[c]}
      BY <2>10 DEF AnnounceStep
    <3> QED
      BY <3>1, <1>1
  <2>11. ASSUME NEW r \in Request, CloseStep(r)
         PROVE  FALSE
    <3>1. KindOf[c] # "track"
      BY <2>1, <2>11, <1>1, CloseStepKeeps
    <3>2. RoomOf(c) # <<"order", None>>
      BY <3>1, RealtimeAssumption DEF RoomOf, Kind
    <3>3. conn'[c] = conn[c]
      BY <3>2, <2>11 DEF CloseStep, InRoom
    <3> QED
      BY <3>3, <1>1
  <2>12. Next
    BY <1>1, <2>2 DEF vars
  <2> QED
    BY <2>4, <2>5, <2>6, <2>7, <2>8, <2>9, <2>10, <2>11, <2>12 DEF Next
<1>2. Inv /\ [Next]_vars => [\A c \in Page : conn[c] = "live" /\ conn'[c] = "connecting" => UNCHANGED request]_vars
  BY <1>1
<1> QED
  BY <1>2, ScreensInvariant, PTL DEF Spec, CutOffOnlyTold

=============================================================================
