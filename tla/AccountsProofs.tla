--------------------------- MODULE AccountsProofs ---------------------------
(***************************************************************************)
(* What holds of accounts and sessions for any number of staff, tabs and   *)
(* orders, for any lifetime of the tokens, and beside any change of the    *)
(* menu.                                                                   *)
(***************************************************************************)
EXTENDS BackOffice, TLAPS

-----------------------------------------------------------------------------
(* The inductive invariant *)

Request ==
    [kind: {"read", "add", "edit", "remove", "reset", "resetChecked", "view"},
     who: Staff \union {Nobody} \union Token, to: Role \union Slug \union {Nobody},
     token: Token, reply: {0, 200, 400, 401}]

(* What the checks that a request has passed, or failed, have left behind.  *)
Fits(r) ==
    /\ r.kind = "resetChecked" => r.to = TheSlug
    /\ r # Nothing /\ r.reply = 401 => Expired(r.token)
    /\ r.kind = "view" /\ r.reply = 200 => r.who \in Token /\ r.who.role = "admin" /\ r.who.readOnly
    /\ r.kind \in {"add", "edit"} => r.who \in Staff /\ r.to \in Role

SessionsOK ==
    /\ DOMAIN role \subseteq Staff /\ \A s \in DOMAIN role : role[s] \in Role
    /\ clock \in Nat /\ orders \in Nat
    /\ DOMAIN at = Tab
    /\ staffTab \in [Tab -> Token \union {Nobody}]
    /\ opTab \in [Tab -> Token \union {Nobody}]
    /\ ceased \in [Staff -> Nat] /\ \A s \in Staff : ceased[s] <= clock

SentOK ==
    /\ sent \in [Tab -> Request \union {Nothing}]
    /\ \A t \in Tab : Fits(sent[t])

AccountsInv == SessionsOK /\ SentOK

-----------------------------------------------------------------------------
(* Changes of one tab's request *)

LEMMA SentChanges ==
    ASSUME SentOK, NEW t \in Tab, sent'[t] \in Request \union {Nothing}, Fits(sent'[t]),
           sent' \in [Tab -> {sent'[u] : u \in Tab}], \A u \in Tab \ {t} : sent'[u] = sent[u],
           clock' = clock
    PROVE  SentOK'
  BY DEF SentOK, Fits, Expired

LEMMA SentKept ==
    ASSUME SentOK, SessionsOK, UNCHANGED sent, clock' = clock \/ clock' = clock + 1
    PROVE  SentOK'
<1>1. \A t \in Tab : sent[t] # Nothing => sent[t].token.until \in Nat
  BY DEF SentOK, Request, Token
<1> QED
  BY <1>1 DEF SentOK, SessionsOK, Fits, Expired

(* An answer changes nothing else of a request.                             *)
LEMMA Answering ==
    ASSUME SentOK, NEW t \in Tab, sent[t] # Nothing, NEW status \in {200, 400, 401},
           sent[t].kind = "view" => status # 200,
           status # 401 \/ Expired(sent[t].token),
           Answer(t, status), clock' = clock
    PROVE  SentOK'
<1>1. sent[t] \in Request /\ Fits(sent[t])
  BY DEF SentOK
<1>2. \A u \in Tab : sent'[u] = IF u = t THEN [sent[t] EXCEPT !.reply = status] ELSE sent[u]
  BY DEF Answer, SentOK
<1>3. /\ sent'[t].kind = sent[t].kind /\ sent'[t].to = sent[t].to /\ sent'[t].token = sent[t].token
      /\ sent'[t].who = sent[t].who /\ sent'[t].reply = status /\ sent'[t] \in Request
  BY <1>1, <1>2 DEF Request
<1>4. Fits(sent'[t])
  BY <1>1, <1>3 DEF Fits, Expired
<1>5. sent' \in [Tab -> {sent'[u] : u \in Tab}]
  BY DEF Answer, SentOK
<1> QED
  BY <1>2, <1>3, <1>4, <1>5, SentChanges

-----------------------------------------------------------------------------
(* The invariant *)

LEMMA Tokens ==
    ASSUME SessionsOK
    PROVE  /\ \A s \in DOMAIN role : StaffToken(s) \in Token
           /\ ViewToken \in Token /\ OpToken \in Token
  BY AccountsAssumption DEF SessionsOK, StaffToken, ViewToken, OpToken, Token, Role

LEMMA Sending ==
    ASSUME AccountsInv, NEW t \in Tab, NEW token \in Token,
           NEW what \in {"read", "add", "edit", "remove", "reset", "view"},
           NEW who \in Staff \union {Nobody}, NEW to \in Role \union Slug \union {Nobody},
           what \in {"add", "edit"} => who \in Staff /\ to \in Role,
           Send(t, token, what, who, to)
    PROVE  AccountsInv'
<1> DEFINE r == [kind |-> what, who |-> who, to |-> to, token |-> token, reply |-> 0]
<1>1. r \in Request /\ Fits(r)
  BY DEF Request, Fits
<1>2. /\ sent'[t] = r /\ \A u \in Tab \ {t} : sent'[u] = sent[u]
      /\ sent' \in [Tab -> {sent'[u] : u \in Tab}]
  BY DEF Send, AccountsInv, SentOK
<1>3. clock' = clock /\ SessionsOK'
  BY DEF Send, AccountsInv, SessionsOK, serverVars
<1> HIDE DEF r
<1> QED
  BY <1>1, <1>2, <1>3, SentChanges DEF AccountsInv

(* Logging in and out, leaving, and visiting pages.                         *)
LEMMA TabSteps ==
    ASSUME AccountsInv, NEW t \in Tab,
           \/ \E s \in Staff : Login(t, s)
           \/ LoginOperator(t) \/ Logout(t) \/ Leave(t) \/ VisitOperator(t)
           \/ \E p \in Pages : Visit(t, p)
    PROVE  AccountsInv'
<1>1. UNCHANGED <<role, clock, orders, sent, ceased>>
  BY DEF Login, LoginOperator, Logout, Leave, VisitOperator, Visit, serverVars
<1>2. /\ staffTab' \in [Tab -> Token \union {Nobody}]
      /\ opTab' \in [Tab -> Token \union {Nobody}]
  BY Tokens DEF AccountsInv, SessionsOK, Login, LoginOperator, Logout, Leave, VisitOperator, Visit
<1>3. DOMAIN at' = Tab
  BY DEF AccountsInv, SessionsOK, Login, LoginOperator, Logout, Leave, VisitOperator, Visit
<1> QED
  BY <1>1, <1>2, <1>3, SentKept DEF AccountsInv, SessionsOK

LEMMA SendSteps ==
    ASSUME AccountsInv, NEW t \in Tab, SendAsStaff(t) \/ SendAsOperator(t)
    PROVE  AccountsInv'
<1>1. CASE SendAsStaff(t)
  <2>1. staffTab[t] \in Token
    BY <1>1 DEF SendAsStaff, AccountsInv, SessionsOK
  <2>2. PICK what \in {"read", "add", "edit", "remove"}, who \in Staff \union {Nobody}, to \in Role \union {Nobody} :
            /\ Send(t, staffTab[t], what, who, to)
            /\ what \in {"add", "edit"} => who \in Staff /\ to \in Role
    BY <1>1, AccountsAssumption DEF SendAsStaff
  <2> QED
    BY <2>1, <2>2, Sending
<1>2. CASE SendAsOperator(t)
  <2>1. opTab[t] \in Token
    BY <1>2 DEF SendAsOperator, AccountsInv, SessionsOK
  <2>2. PICK what \in {"reset", "view"}, to \in Slug \union {Nobody} : Send(t, opTab[t], what, Nobody, to)
    BY <1>2, Zenon DEF SendAsOperator
  <2> QED
    BY <2>1, <2>2, Sending
<1> QED
  BY <1>1, <1>2

(* A request that is refused with a 401 has a token that has lapsed.        *)
LEMMA Refusal ==
    ASSUME NEW r
    PROVE  Refused(r) \in {200, 400, 401} /\ (Refused(r) = 401 => Expired(r.token))
  BY DEF Refused, RefusedByRole

LEMMA Unsent == Nothing \notin Request /\ Nothing.kind = "none"
  BY DEF Nothing, Request

LEMMA ServerSteps ==
    ASSUME AccountsInv, NEW t \in Tab,
           RefuseRequest(t) \/ ServeRead(t) \/ EditStaff(t) \/ RemoveStaff(t) \/ ResetRun(t)
    PROVE  AccountsInv'
<1>1. /\ UNCHANGED <<clock, staffTab, opTab, at>>
      /\ ceased' \in [Staff -> Nat] /\ \A s \in Staff : ceased'[s] <= clock
  <2>1. UNCHANGED <<clock, staffTab, opTab, at>> /\ (UNCHANGED ceased \/ Ceases)
    BY DEF RefuseRequest, ServeRead, EditStaff, RemoveStaff, ResetRun, serverVars
  <2> QED
    BY <2>1 DEF Ceases, AccountsInv, SessionsOK
<1>2. sent[t] # Nothing
  BY Unsent DEF RefuseRequest, ServeRead, EditStaff, RemoveStaff, ResetRun, Ran, Waiting
<1>3. PICK status \in {200, 400, 401} :
          /\ Answer(t, status)
          /\ status # 401 \/ Expired(sent[t].token)
          /\ status = 200 => sent[t].kind # "view"
  BY Refusal DEF RefuseRequest, ServeRead, EditStaff, RemoveStaff, ResetRun, Ran, Waiting
<1>4. SentOK'
  BY <1>1, <1>2, <1>3, Answering DEF AccountsInv
<1>5. orders' \in Nat
  BY DEF AccountsInv, SessionsOK, RefuseRequest, ServeRead, EditStaff, RemoveStaff, ResetRun, serverVars
<1>6. DOMAIN role' \subseteq Staff /\ \A s \in DOMAIN role' : role'[s] \in Role
  <2>1. CASE EditStaff(t)
    <3>1. sent[t].who \in Staff /\ sent[t].to \in Role
      BY <2>1 DEF EditStaff, Ran, Waiting, AccountsInv, SentOK, Fits
    <3> QED
      BY <2>1, <3>1 DEF EditStaff, AccountsInv, SessionsOK
  <2>2. CASE RemoveStaff(t)
    BY <2>2 DEF RemoveStaff, AccountsInv, SessionsOK
  <2>3. CASE UNCHANGED role
    BY <2>3 DEF AccountsInv, SessionsOK
  <2> QED
    BY <2>1, <2>2, <2>3 DEF RefuseRequest, ServeRead, ResetRun, serverVars
<1> QED
  BY <1>1, <1>4, <1>6, <1>5 DEF AccountsInv, SessionsOK

(* The operator's requests change their own kind, or bring a token.         *)
LEMMA OperatorSteps ==
    ASSUME AccountsInv, NEW t \in Tab, ResetCheck(t) \/ MintView(t)
    PROVE  AccountsInv'
<1>1. UNCHANGED <<role, orders, clock, staffTab, opTab, at, ceased>>
  BY DEF ResetCheck, MintView, serverVars
<1>2. /\ sent[t] # Nothing /\ sent[t] \in Request /\ Fits(sent[t])
      /\ sent[t].reply = 0 /\ sent[t].kind \in {"reset", "view"}
  BY Unsent DEF ResetCheck, MintView, Ran, Waiting, AccountsInv, SentOK
<1>3. ASSUME NEW r \in Request, Fits(r), sent' = [sent EXCEPT ![t] = r]
      PROVE  SentOK'
  <2>1. /\ sent'[t] = r /\ \A u \in Tab \ {t} : sent'[u] = sent[u]
        /\ sent' \in [Tab -> {sent'[u] : u \in Tab}]
    BY <1>3 DEF AccountsInv, SentOK
  <2> QED
    BY <2>1, <1>1, <1>3, SentChanges DEF AccountsInv
<1>4. CASE ResetCheck(t) /\ mode = "test" /\ sent[t].to = TheSlug
  <2> DEFINE r == [sent[t] EXCEPT !.kind = "resetChecked"]
  <2>1. r \in Request /\ Fits(r)
    BY <1>2, <1>4 DEF Request, Fits
  <2>2. sent' = [sent EXCEPT ![t] = r]
    BY <1>4 DEF ResetCheck
  <2> QED
    BY <2>1, <2>2, <1>1, <1>3 DEF AccountsInv, SessionsOK
<1>5. CASE MintView(t) /\ mode = "test"
  <2> DEFINE r == [sent[t] EXCEPT !.reply = 200, !.who = ViewToken]
  <2>1. ViewToken \in Token /\ sent[t].kind = "view"
    BY <1>5, Tokens DEF AccountsInv, MintView, Ran, Waiting
  <2>2. ViewToken.role = "admin" /\ ViewToken.readOnly
    BY DEF ViewToken
  <2>3. /\ r.kind = "view" /\ r.who = ViewToken /\ r.reply = 200
        /\ r \in Request
    <3> DEFINE q == [sent[t] EXCEPT !.reply = 200]
    <3>1. q \in Request /\ q.kind = "view" /\ q.reply = 200
      BY <1>2, <2>1 DEF Request
    <3>2. r = [q EXCEPT !.who = ViewToken]
      OBVIOUS
    <3> HIDE DEF q
    <3> HIDE DEF r
    <3>3. [q EXCEPT !.who = ViewToken] \in Request
      BY <3>1, <2>1 DEF Request
    <3> QED
      BY <3>1, <3>2, <3>3 DEF Request
  <2>4. r \in Request /\ Fits(r)
    <3> HIDE DEF r
    <3> QED
      BY <2>1, <2>3, <2>2 DEF Fits
  <2>5. sent' = [sent EXCEPT ![t] = r]
    BY <1>5 DEF MintView, AccountsInv, SentOK
  <2> QED
    BY <2>4, <2>5, <1>1, <1>3 DEF AccountsInv, SessionsOK
<1>6. CASE Answer(t, 400)
  <2>1. SentOK'
    BY <1>1, <1>2, <1>6, Answering DEF AccountsInv
  <2> QED
    BY <2>1, <1>1 DEF AccountsInv, SessionsOK
<1>7. ResetCheck(t) /\ ~(mode = "test" /\ sent[t].to = TheSlug) => Answer(t, 400)
  BY DEF ResetCheck, Answer
<1> QED
  BY <1>4, <1>5, <1>6, <1>7 DEF MintView

LEMMA AnswerTaken ==
    ASSUME AccountsInv, NEW t \in Tab, TakeAnswer(t)
    PROVE  AccountsInv'
<1>1. UNCHANGED <<role, orders, clock, ceased>>
  BY DEF TakeAnswer, serverVars
<1>2. /\ sent'[t] = Nothing /\ \A u \in Tab \ {t} : sent'[u] = sent[u]
      /\ sent' \in [Tab -> {sent'[u] : u \in Tab}]
  BY DEF TakeAnswer, AccountsInv, SentOK
<1>3. Fits(Nothing)
  BY Unsent DEF Fits, Nothing
<1>4. SentOK'
  BY <1>1, <1>2, <1>3, SentChanges DEF AccountsInv
<1>5. sent[t].kind = "view" /\ sent[t].reply = 200 => sent[t].who \in Token
  BY DEF AccountsInv, SentOK, Fits
<1>6. /\ staffTab' \in [Tab -> Token \union {Nobody}]
      /\ opTab' \in [Tab -> Token \union {Nobody}]
  BY <1>5 DEF TakeAnswer, AccountsInv, SessionsOK
<1>7. DOMAIN at' = Tab
  BY DEF TakeAnswer, AccountsInv, SessionsOK
<1> QED
  BY <1>1, <1>4, <1>6, <1>7 DEF AccountsInv, SessionsOK

LEMMA ClockSteps ==
    ASSUME AccountsInv, Tick \/ Trade \/ ChangeMode \/ UNCHANGED accountsVars
    PROVE  AccountsInv'
<1>1. /\ UNCHANGED <<role, staffTab, opTab, at, sent, ceased>>
      /\ clock' = clock \/ clock' = clock + 1
      /\ orders' = orders \/ orders' = orders + 1
  BY DEF Tick, Trade, ChangeMode, accountsVars, serverVars
<1>2. SentOK'
  BY <1>1, SentKept DEF AccountsInv
<1> QED
  BY <1>1, <1>2 DEF AccountsInv, SessionsOK

-----------------------------------------------------------------------------
(* The steps of the back office, as far as accounts are concerned *)

LEMMA AccountsSteps ==
    ASSUME [Next]_vars
    PROVE  \/ Tick \/ Trade \/ ChangeMode \/ UNCHANGED accountsVars
           \/ \E t \in Tab :
                \/ (\E s \in Staff : Login(t, s)) \/ LoginOperator(t) \/ Logout(t)
                \/ (\E p \in Pages : Visit(t, p)) \/ VisitOperator(t) \/ Leave(t)
                \/ SendAsStaff(t) \/ SendAsOperator(t)
                \/ RefuseRequest(t) \/ ServeRead(t) \/ EditStaff(t) \/ RemoveStaff(t)
                \/ ResetCheck(t) \/ ResetRun(t) \/ MintView(t) \/ TakeAnswer(t)
<1>1. CASE UNCHANGED vars
  BY <1>1 DEF vars
<1>2. CASE MenuNext /\ IF Placed THEN Trade ELSE UNCHANGED accountsVars
  BY <1>2
<1>3. CASE AccountsNext
  BY <1>3 DEF AccountsNext
<1> QED
  BY <1>1, <1>2, <1>3 DEF Next

LEMMA AccountsInvStep ==
    ASSUME AccountsInv, [Next]_vars
    PROVE  AccountsInv'
<1>1. CASE Tick \/ Trade \/ ChangeMode \/ UNCHANGED accountsVars
  BY <1>1, ClockSteps
<1>2. ASSUME NEW t \in Tab,
             \/ (\E s \in Staff : Login(t, s)) \/ LoginOperator(t) \/ Logout(t)
             \/ (\E p \in Pages : Visit(t, p)) \/ VisitOperator(t) \/ Leave(t)
      PROVE  AccountsInv'
  BY <1>2, TabSteps
<1>3. ASSUME NEW t \in Tab, SendAsStaff(t) \/ SendAsOperator(t)
      PROVE  AccountsInv'
  BY <1>3, SendSteps
<1>4. ASSUME NEW t \in Tab, \/ RefuseRequest(t) \/ ServeRead(t) \/ EditStaff(t) \/ RemoveStaff(t)
                            \/ ResetRun(t)
      PROVE  AccountsInv'
  BY <1>4, ServerSteps
<1>5. ASSUME NEW t \in Tab, ResetCheck(t) \/ MintView(t)
      PROVE  AccountsInv'
  BY <1>5, OperatorSteps
<1>6. ASSUME NEW t \in Tab, TakeAnswer(t)
      PROVE  AccountsInv'
  BY <1>6, AnswerTaken
<1> QED
  BY <1>1, <1>2, <1>3, <1>4, <1>5, <1>6, AccountsSteps

LEMMA AccountsInvInit ==
    ASSUME Init
    PROVE  AccountsInv
<1>1. SessionsOK
  <2>1. PICK have \in SUBSET Staff : role \in [have -> Role]
    BY Zenon DEF Init, AccountsInit
  <2> QED
    BY <2>1, AccountsAssumption DEF Init, AccountsInit, SessionsOK
<1>2. SentOK
  BY Unsent DEF Init, AccountsInit, SentOK, Fits, Nothing
<1> QED
  BY <1>1, <1>2 DEF AccountsInv

(* Tokens, sessions and requests under way stay well formed, and a request  *)
(* carries what its earlier checks have established.                        *)
THEOREM AccountsInvariant == Spec => []AccountsInv
  BY AccountsInvInit, AccountsInvStep, PTL DEF Spec

-----------------------------------------------------------------------------
(* The pages a tab shows *)

LEMMA PagesApart ==
    /\ \A r \in Role : r \in Pages /\ Allowed(r) = {"admin", r} /\ r \notin {"login", "opLogin", "platform"}
    /\ \A p \in {"login", "opLogin", "platform"} : p \in Pages /\ Allowed(p) = {}
    /\ \A p \in Pages : Allowed(p) # {} => p \in Role
  BY AccountsAssumption DEF Role, Pages, Allowed

(* Where a login leads, its role may look.                                  *)
LEMMA LoginSteps ==
    ASSUME AccountsInv, AccountsTypeOK, NEW t \in Tab,
           (\E s \in Staff : Login(t, s)) \/ LoginOperator(t)
    PROVE  /\ at' \in [Tab -> Pages] /\ from' \in [Tab -> Pages \union {Nobody}]
           /\ \A u \in Tab : Allowed(at'[u]) # {} => staffTab'[u] # Nobody /\ staffTab'[u].role \in Allowed(at'[u])
           /\ \A u \in Tab : at'[u] = "platform" => opTab'[u] # Nobody
<1>1. CASE LoginOperator(t)
  <2>1. OpToken # Nobody
    BY Tokens, NobodyHasNoToken DEF AccountsInv
  <2> QED
    BY <1>1, <2>1, PagesApart DEF LoginOperator, AccountsTypeOK, AccountsInv, SessionsOK
<1>2. ASSUME NEW s \in Staff, Login(t, s)
      PROVE  /\ at' \in [Tab -> Pages] /\ from' \in [Tab -> Pages \union {Nobody}]
             /\ \A u \in Tab : Allowed(at'[u]) # {} => staffTab'[u] # Nobody /\ staffTab'[u].role \in Allowed(at'[u])
             /\ \A u \in Tab : at'[u] = "platform" => opTab'[u] # Nobody
  <2>1. PICK p : p = DestinationAfterLogin(role[s], from[t])
    OBVIOUS
  <2>2. /\ role[s] \in Role /\ from[t] \in Pages \union {Nobody}
        /\ StaffToken(s) # Nobody /\ StaffToken(s).role = role[s]
    BY <1>2, Tokens, NobodyHasNoToken DEF Login, AccountsInv, SessionsOK, AccountsTypeOK, StaffToken
  <2>3. p \in Role /\ role[s] \in Allowed(p)
    BY <2>1, <2>2, PagesApart DEF DestinationAfterLogin, RoleDestination
  <2>4. /\ at' = [at EXCEPT ![t] = p] /\ from' = [from EXCEPT ![t] = Nobody]
        /\ staffTab' = [staffTab EXCEPT ![t] = StaffToken(s)] /\ opTab' = opTab
    BY <1>2, <2>1 DEF Login
  <2> QED
    BY <2>2, <2>3, <2>4, PagesApart DEF AccountsTypeOK, AccountsInv, SessionsOK
<1> QED
  BY <1>1, <1>2

LEMMA VisitSteps ==
    ASSUME AccountsInv, AccountsTypeOK, NEW t \in Tab,
           Logout(t) \/ Leave(t) \/ VisitOperator(t) \/ \E p \in Pages : Visit(t, p)
    PROVE  /\ at' \in [Tab -> Pages] /\ from' \in [Tab -> Pages \union {Nobody}]
           /\ \A u \in Tab : Allowed(at'[u]) # {} => staffTab'[u] # Nobody /\ staffTab'[u].role \in Allowed(at'[u])
           /\ \A u \in Tab : at'[u] = "platform" => opTab'[u] # Nobody
<1>1. CASE Logout(t)
  BY <1>1, PagesApart DEF Logout, AccountsTypeOK, AccountsInv, SessionsOK
<1>2. CASE Leave(t)
  BY <1>2, PagesApart DEF Leave, AccountsTypeOK, AccountsInv, SessionsOK
<1>3. CASE VisitOperator(t)
  BY <1>3, PagesApart DEF VisitOperator, AccountsTypeOK, AccountsInv, SessionsOK
<1>4. ASSUME NEW p \in Pages, Visit(t, p)
      PROVE  /\ at' \in [Tab -> Pages] /\ from' \in [Tab -> Pages \union {Nobody}]
             /\ \A u \in Tab : Allowed(at'[u]) # {} => staffTab'[u] # Nobody /\ staffTab'[u].role \in Allowed(at'[u])
             /\ \A u \in Tab : at'[u] = "platform" => opTab'[u] # Nobody
  <2>1. p \in Role /\ p # "platform"
    BY <1>4, PagesApart DEF Visit
  <2> QED
    BY <1>4, <2>1, PagesApart DEF Visit, AccountsTypeOK, AccountsInv, SessionsOK
<1> QED
  BY <1>1, <1>2, <1>3, <1>4

(* A refused page is left; a view is an admin's.                            *)
LEMMA AnswerSteps ==
    ASSUME AccountsInv, AccountsTypeOK, NEW t \in Tab, TakeAnswer(t)
    PROVE  /\ at' \in [Tab -> Pages] /\ from' \in [Tab -> Pages \union {Nobody}]
           /\ \A u \in Tab : Allowed(at'[u]) # {} => staffTab'[u] # Nobody /\ staffTab'[u].role \in Allowed(at'[u])
           /\ \A u \in Tab : at'[u] = "platform" => opTab'[u] # Nobody
<1> DEFINE r == sent[t]
           lost == r.reply = 401 /\ SameToken(r.token, staffTab[t])
           lostOp == r.reply = 401 /\ SameToken(r.token, opTab[t])
           viewing == r.kind = "view" /\ r.reply = 200
<1>1. viewing => r.who # Nobody /\ r.who.role = "admin"
  BY NobodyHasNoToken DEF AccountsInv, SentOK, Fits
<1>2. /\ staffTab' = [staffTab EXCEPT ![t] = IF lost THEN Nobody ELSE IF viewing THEN r.who ELSE staffTab[t]]
      /\ opTab' = [opTab EXCEPT ![t] = IF lostOp THEN Nobody ELSE opTab[t]]
      /\ at' = [at EXCEPT ![t] = IF lost /\ Allowed(at[t]) # {} THEN "login"
                                 ELSE IF lostOp /\ at[t] = "platform" THEN "opLogin"
                                 ELSE IF viewing THEN "admin" ELSE at[t]]
      /\ from' = [from EXCEPT ![t] = IF lost /\ Allowed(at[t]) # {} THEN at[t] ELSE from[t]]
  BY DEF TakeAnswer
<1>3. "admin" \in Role /\ (viewing => ~lost /\ ~lostOp)
  BY DEF Role
<1> HIDE DEF r, lost, lostOp, viewing
<1> QED
  BY <1>1, <1>2, <1>3, PagesApart DEF AccountsTypeOK, AccountsInv, SessionsOK

LEMMA AccountsTypeStep ==
    ASSUME AccountsInv, AccountsTypeOK, [Next]_vars
    PROVE  AccountsTypeOK'
<1>1. DOMAIN role' \subseteq Staff /\ \A s \in DOMAIN role' : role'[s] \in Role
  BY AccountsInvStep DEF AccountsInv, SessionsOK
<1>2. /\ mode' \in {"test", "live"} /\ orders' \in 0 .. MaxOrders /\ clock' \in 0 .. MaxClock
      /\ \/ UNCHANGED <<at, from, staffTab, opTab>>
         \/ \E t \in Tab :
              \/ (\E s \in Staff : Login(t, s)) \/ LoginOperator(t) \/ Logout(t)
              \/ (\E p \in Pages : Visit(t, p)) \/ VisitOperator(t) \/ Leave(t) \/ TakeAnswer(t)
  <2>1. /\ MaxOrders \in Nat /\ MaxClock \in Nat /\ orders \in 0 .. MaxOrders /\ clock \in 0 .. MaxClock
        /\ mode \in {"test", "live"}
    BY AccountsAssumption DEF AccountsTypeOK
  <2>2. CASE Tick \/ Trade \/ ChangeMode \/ UNCHANGED accountsVars
    BY <2>1, <2>2 DEF Tick, Trade, ChangeMode, accountsVars, serverVars
  <2>3. ASSUME NEW t \in Tab,
               \/ (\E s \in Staff : Login(t, s)) \/ LoginOperator(t) \/ Logout(t)
               \/ (\E p \in Pages : Visit(t, p)) \/ VisitOperator(t) \/ Leave(t) \/ TakeAnswer(t)
        PROVE  UNCHANGED <<mode, orders, clock>>
    BY <2>3 DEF Login, LoginOperator, Logout, Visit, VisitOperator, Leave, TakeAnswer, serverVars
  <2>4. ASSUME NEW t \in Tab,
               \/ SendAsStaff(t) \/ SendAsOperator(t) \/ RefuseRequest(t) \/ ServeRead(t)
               \/ ResetCheck(t) \/ MintView(t) \/ EditStaff(t) \/ RemoveStaff(t) \/ ResetRun(t)
        PROVE  UNCHANGED <<mode, clock, at, from, staffTab, opTab>> /\ orders' \in {orders, 0}
    BY <2>4 DEF SendAsStaff, SendAsOperator, Send, RefuseRequest, ServeRead, ResetCheck, MintView,
                EditStaff, RemoveStaff, ResetRun, serverVars
  <2> QED
    BY <2>1, <2>2, <2>3, <2>4, AccountsSteps
<1>3. CASE UNCHANGED <<at, from, staffTab, opTab>>
  BY <1>1, <1>2, <1>3 DEF AccountsTypeOK
<1>4. ASSUME NEW t \in Tab,
             \/ (\E s \in Staff : Login(t, s)) \/ LoginOperator(t) \/ Logout(t)
             \/ (\E p \in Pages : Visit(t, p)) \/ VisitOperator(t) \/ Leave(t) \/ TakeAnswer(t)
      PROVE  AccountsTypeOK'
  BY <1>1, <1>2, <1>4, LoginSteps, VisitSteps, AnswerSteps DEF AccountsTypeOK
<1> QED
  BY <1>2, <1>3, <1>4

LEMMA AccountsTypeInit ==
    ASSUME Init
    PROVE  AccountsTypeOK
<1>1. \A t \in Tab : at[t] = "login"
  BY DEF Init, AccountsInit
<1>2. DOMAIN role \subseteq Staff /\ \A s \in DOMAIN role : role[s] \in Role
  BY AccountsInvInit DEF AccountsInv, SessionsOK
<1>3. /\ mode \in {"test", "live"} /\ orders \in 0 .. MaxOrders /\ clock \in 0 .. MaxClock
      /\ at \in [Tab -> Pages] /\ from \in [Tab -> Pages \union {Nobody}]
  BY AccountsAssumption, PagesApart DEF Init, AccountsInit
<1> QED
  BY <1>1, <1>2, <1>3, PagesApart DEF AccountsTypeOK

(* A page of the staff's is shown only to a session whose role may see it,  *)
(* through logins, lapses, refusals and the platform admin's views.         *)
THEOREM AccountsTypes == Spec => []AccountsTypeOK
  BY AccountsTypeInit, AccountsTypeStep, AccountsInvariant, PTL DEF Spec

-----------------------------------------------------------------------------
(* The theorems *)

(* Accounts change, and orders leave, by one request's step each.           *)
LEMMA Writers ==
    ASSUME [Next]_vars
    PROVE  /\ \/ UNCHANGED <<role, ceased>>
              \/ \E t \in Tab : EditStaff(t) \/ RemoveStaff(t)
           /\ \/ UNCHANGED orders \/ Trade
              \/ \E t \in Tab : ResetRun(t)
<1>1. CASE Tick \/ Trade \/ ChangeMode \/ UNCHANGED accountsVars
  BY <1>1 DEF Tick, Trade, ChangeMode, serverVars, accountsVars
<1>2. ASSUME NEW t \in Tab,
             \/ (\E s \in Staff : Login(t, s)) \/ LoginOperator(t) \/ Logout(t)
             \/ (\E p \in Pages : Visit(t, p)) \/ VisitOperator(t) \/ Leave(t) \/ TakeAnswer(t)
      PROVE  UNCHANGED <<role, ceased, orders>>
  BY <1>2 DEF Login, LoginOperator, Logout, Visit, VisitOperator, Leave, TakeAnswer, serverVars
<1>3. ASSUME NEW t \in Tab,
             \/ SendAsStaff(t) \/ SendAsOperator(t) \/ RefuseRequest(t) \/ ServeRead(t)
             \/ ResetCheck(t) \/ MintView(t)
      PROVE  UNCHANGED <<role, ceased, orders>>
  BY <1>3 DEF SendAsStaff, SendAsOperator, Send, RefuseRequest, ServeRead, ResetCheck, MintView, serverVars
<1>4. ASSUME NEW t \in Tab, EditStaff(t) \/ RemoveStaff(t)
      PROVE  UNCHANGED orders
  BY <1>4 DEF EditStaff, RemoveStaff
<1>5. ASSUME NEW t \in Tab, ResetRun(t)
      PROVE  UNCHANGED <<role, ceased>>
  BY <1>5 DEF ResetRun
<1> QED
  BY <1>1, <1>2, <1>3, <1>4, <1>5, AccountsSteps

LEMMA ClockMoves ==
    ASSUME [Next]_vars
    PROVE  clock' = clock \/ clock' = clock + 1
<1>1. CASE Tick \/ Trade \/ ChangeMode \/ UNCHANGED accountsVars
  BY <1>1 DEF Tick, Trade, ChangeMode, accountsVars
<1>2. ASSUME NEW t \in Tab,
             \/ (\E s \in Staff : Login(t, s)) \/ LoginOperator(t) \/ Logout(t)
             \/ (\E p \in Pages : Visit(t, p)) \/ VisitOperator(t) \/ Leave(t) \/ TakeAnswer(t)
      PROVE  UNCHANGED clock
  BY <1>2 DEF Login, LoginOperator, Logout, Visit, VisitOperator, Leave, TakeAnswer
<1>3. ASSUME NEW t \in Tab,
             \/ SendAsStaff(t) \/ SendAsOperator(t) \/ RefuseRequest(t) \/ ServeRead(t)
             \/ ResetCheck(t) \/ MintView(t) \/ EditStaff(t) \/ RemoveStaff(t) \/ ResetRun(t)
      PROVE  UNCHANGED clock
  BY <1>3 DEF SendAsStaff, SendAsOperator, Send, RefuseRequest, ServeRead, ResetCheck, MintView,
              EditStaff, RemoveStaff, ResetRun
<1> QED
  BY <1>1, <1>2, <1>3, AccountsSteps

-----------------------------------------------------------------------------
(* For how long a token's word is good *)

(* Who may change accounts by this token is an admin, or ceased to be one   *)
(* no later than the token was made.                                        *)
Authorized(k) ==
    k.role = "admin" /\ ~k.readOnly =>
        /\ k.sub \in Staff
        /\ IF k.sub \in Admins THEN k.until <= clock + StaffLife ELSE k.until <= ceased[k.sub] + StaffLife

AuthorityOK ==
    \A t \in Tab :
        /\ staffTab[t] # Nobody => Authorized(staffTab[t])
        /\ opTab[t] # Nobody => Authorized(opTab[t])
        /\ sent[t] # Nothing => Authorized(sent[t].token)

(* An edit dates what it ends.                                              *)
LEMMA AuthorityKept ==
    ASSUME AccountsInv, [Next]_vars, NEW k \in Token, Authorized(k)
    PROVE  Authorized(k)'
<1>1. /\ StaffLife \in Nat /\ clock \in Nat /\ k.until \in Nat
      /\ ceased \in [Staff -> Nat] /\ \A s \in Staff : ceased[s] \in Nat /\ ceased[s] <= clock
  BY AccountsAssumption DEF AccountsInv, SessionsOK, Token
<1>2. CASE UNCHANGED <<role, ceased>>
  <2>1. clock' = clock \/ clock' = clock + 1
    BY ClockMoves
  <2> QED
    BY <1>1, <1>2, <2>1 DEF Authorized, Admins
<1>3. ASSUME NEW t \in Tab, EditStaff(t) \/ RemoveStaff(t), ~UNCHANGED <<role, ceased>>
      PROVE  Authorized(k)'
  <2>1. clock' = clock /\ \A s \in Staff : ceased'[s] = IF s \in Admins /\ s \notin Admins' THEN clock ELSE ceased[s]
    BY <1>3 DEF EditStaff, RemoveStaff, Ceases
  <2> QED
    BY <1>1, <2>1 DEF Authorized
<1> QED
  BY <1>2, <1>3, Writers

(* Tokens are made from the row of the moment, or are an operator's.        *)
LEMMA FreshTokens ==
    ASSUME AccountsInv
    PROVE  /\ \A s \in DOMAIN role : Authorized(StaffToken(s))
           /\ Authorized(OpToken)
           /\ \A k \in Token : k.readOnly => Authorized(k)
<1>1. DOMAIN role \subseteq Staff /\ clock \in Nat /\ StaffLife \in Nat
  BY AccountsAssumption DEF AccountsInv, SessionsOK
<1> QED
  BY <1>1 DEF Authorized, StaffToken, OpToken, Admins

(* Where a tab's tokens, and its request's, come from.                      *)
LEMMA Origins ==
    ASSUME AccountsInv, [Next]_vars, NEW t \in Tab
    PROVE  /\ \/ staffTab'[t] \in {Nobody, staffTab[t]}
              \/ UNCHANGED <<role, clock, ceased>> /\ \E s \in DOMAIN role : staffTab'[t] = StaffToken(s)
              \/ staffTab'[t] \in Token /\ staffTab'[t].readOnly
           /\ opTab'[t] \in {Nobody, opTab[t]} \/ opTab'[t].role = "operator"
           /\ \/ sent'[t] = Nothing
              \/ sent[t] # Nothing /\ sent'[t].token = sent[t].token
              \/ staffTab[t] # Nobody /\ sent'[t].token = staffTab[t]
              \/ opTab[t] # Nobody /\ sent'[t].token = opTab[t]
<1>0. /\ DOMAIN staffTab = Tab /\ DOMAIN opTab = Tab /\ DOMAIN sent = Tab
      /\ OpToken.role = "operator"
  BY DEF AccountsInv, SessionsOK, SentOK, OpToken
<1>1. CASE Tick \/ Trade \/ ChangeMode \/ UNCHANGED accountsVars
  BY <1>1 DEF Tick, Trade, ChangeMode, accountsVars
<1>2. ASSUME NEW u \in Tab,
             \/ LoginOperator(u) \/ Logout(u) \/ Leave(u) \/ VisitOperator(u)
             \/ \E p \in Pages : Visit(u, p)
      PROVE  /\ staffTab'[t] \in {Nobody, staffTab[t]} /\ sent' = sent
             /\ opTab'[t] \in {Nobody, opTab[t]} \/ opTab'[t].role = "operator"
  BY <1>0, <1>2 DEF LoginOperator, Logout, Leave, VisitOperator, Visit
<1>3. ASSUME NEW u \in Tab, NEW s \in Staff, Login(u, s)
      PROVE  /\ \/ staffTab'[t] = staffTab[t]
                \/ UNCHANGED <<role, clock, ceased>> /\ s \in DOMAIN role /\ staffTab'[t] = StaffToken(s)
             /\ UNCHANGED <<opTab, sent>>
  BY <1>0, <1>3 DEF Login, serverVars
<1>4. ASSUME NEW u \in Tab, SendAsStaff(u) \/ SendAsOperator(u)
      PROVE  /\ UNCHANGED <<staffTab, opTab>>
             /\ \/ sent'[t] = sent[t]
                \/ staffTab[t] # Nobody /\ sent'[t].token = staffTab[t]
                \/ opTab[t] # Nobody /\ sent'[t].token = opTab[t]
  <2>1. CASE SendAsStaff(u)
    <3>1. staffTab[u] # Nobody /\ \E what, who, to : Send(u, staffTab[u], what, who, to)
      BY <2>1, Zenon DEF SendAsStaff
    <3> QED
      BY <1>0, <3>1 DEF Send
  <2>2. CASE SendAsOperator(u)
    <3>1. opTab[u] # Nobody /\ \E what, who, to : Send(u, opTab[u], what, who, to)
      BY <2>2, Zenon DEF SendAsOperator
    <3> QED
      BY <1>0, <3>1 DEF Send
  <2> QED
    BY <1>4, <2>1, <2>2
<1>5. ASSUME NEW u \in Tab,
             \/ RefuseRequest(u) \/ ServeRead(u) \/ EditStaff(u) \/ RemoveStaff(u) \/ ResetRun(u)
             \/ ResetCheck(u) \/ MintView(u)
      PROVE  /\ UNCHANGED <<staffTab, opTab>>
             /\ sent'[t] = sent[t] \/ (sent[t] # Nothing /\ sent'[t].token = sent[t].token)
  <2>1. UNCHANGED <<staffTab, opTab>> /\ sent[u] # Nothing /\ \A x \in Tab \ {u} : sent'[x] = sent[x]
    BY <1>0, <1>5, Unsent DEF RefuseRequest, ServeRead, EditStaff, RemoveStaff, ResetRun, ResetCheck, MintView,
                              Answer, Ran, Waiting
  <2>2. sent[u] \in Request
    BY <2>1 DEF AccountsInv, SentOK
  <2>3. sent'[u].token = sent[u].token
    BY <1>0, <1>5, <2>2 DEF RefuseRequest, ServeRead, EditStaff, RemoveStaff, ResetRun, ResetCheck, MintView,
                            Answer, Request
  <2> QED
    BY <2>1, <2>3
<1>6. ASSUME NEW u \in Tab, TakeAnswer(u)
      PROVE  /\ \/ staffTab'[t] \in {Nobody, staffTab[t]}
                \/ staffTab'[t] \in Token /\ staffTab'[t].readOnly
             /\ opTab'[t] \in {Nobody, opTab[t]}
             /\ sent'[t] \in {Nothing, sent[t]}
  BY <1>0, <1>6 DEF TakeAnswer, AccountsInv, SentOK, Fits
<1> QED
  BY <1>1, <1>2, <1>3, <1>4, <1>5, <1>6, AccountsSteps DEF accountsVars

LEMMA AuthorityStep ==
    ASSUME AccountsInv, AuthorityOK, [Next]_vars
    PROVE  AuthorityOK'
<1> SUFFICES ASSUME NEW t \in Tab
             PROVE  /\ staffTab'[t] # Nobody => Authorized(staffTab[t])'
                    /\ opTab'[t] # Nobody => Authorized(opTab[t])'
                    /\ sent'[t] # Nothing => Authorized(sent[t].token)'
  BY DEF AuthorityOK
<1>1. /\ AccountsInv'
      /\ staffTab[t] \in Token \union {Nobody} /\ opTab[t] \in Token \union {Nobody}
      /\ sent[t] # Nothing => sent[t].token \in Token
  BY AccountsInvStep DEF AccountsInv, SessionsOK, SentOK, Request
<1>2. /\ staffTab[t] # Nobody => Authorized(staffTab[t])
      /\ opTab[t] # Nobody => Authorized(opTab[t])
      /\ sent[t] # Nothing => Authorized(sent[t].token)
  BY DEF AuthorityOK
<1>3. \A k \in Token : Authorized(k) => Authorized(k)'
  BY AuthorityKept
<1>4. staffTab'[t] # Nobody => Authorized(staffTab[t])'
  <2>1. CASE staffTab'[t] \in {Nobody, staffTab[t]}
    BY <1>1, <1>2, <1>3, <2>1 DEF Authorized
  <2>2. CASE UNCHANGED <<role, clock, ceased>> /\ \E s \in DOMAIN role : staffTab'[t] = StaffToken(s)
    <3>1. PICK s \in DOMAIN role : staffTab'[t] = StaffToken(s)
      BY <2>2
    <3>2. Authorized(StaffToken(s))
      BY FreshTokens
    <3> QED
      BY <2>2, <3>1, <3>2 DEF Authorized, Admins
  <2>3. CASE staffTab'[t] \in Token /\ staffTab'[t].readOnly
    BY <2>3 DEF Authorized
  <2> QED
    BY <2>1, <2>2, <2>3, Origins
<1>5. opTab'[t] # Nobody => Authorized(opTab[t])'
  <2>1. CASE opTab'[t] \in {Nobody, opTab[t]}
    BY <1>1, <1>2, <1>3, <2>1 DEF Authorized
  <2>2. CASE opTab'[t].role = "operator"
    BY <2>2 DEF Authorized
  <2> QED
    BY <2>1, <2>2, Origins
<1>6. sent'[t] # Nothing => Authorized(sent[t].token)'
  <2>1. sent'[t] # Nothing => sent'[t].token \in Token /\ Authorized(sent'[t].token)
    BY <1>1, <1>2, Origins DEF AccountsInv, SentOK, Request
  <2> QED
    BY <1>3, <2>1 DEF Authorized
<1> QED
  BY <1>4, <1>5, <1>6

(* Accounts are changed by the tokens of admins, and of former ones for no  *)
(* longer than a token lives, for any number of accounts and tabs and       *)
(* whatever requests, logins and changes of roles interleave.               *)
THEOREM FormerAdminsDoStop == Spec => FormerAdminsStop
<1> DEFINE Past == \E t \in Tab :
                      /\ sent[t].kind \in {"add", "edit", "remove"} /\ sent'[t] # sent[t]
                      /\ sent[t].token.sub \in Staff
                      /\ \/ sent[t].token.sub \in Admins
                         \/ clock < ceased[sent[t].token.sub] + StaffLife
<1>1. ASSUME AccountsInv, AuthorityOK, [Next]_vars, role' # role
      PROVE  Past
  <2>1. PICK t \in Tab : EditStaff(t) \/ RemoveStaff(t)
    BY <1>1, Writers
  <2>2. /\ sent[t].kind \in {"add", "edit", "remove"} /\ sent[t].reply = 0 /\ Refused(sent[t]) = 200
        /\ Answer(t, 200)
    BY <1>1, <2>1 DEF EditStaff, RemoveStaff, Ran, Waiting
  <2>3. sent[t] \in Request /\ DOMAIN sent = Tab
    BY <1>1, <2>2, Unsent DEF AccountsInv, SentOK
  <2>4. sent'[t].reply = 200
    BY <2>2, <2>3 DEF Answer, Request
  <2>5. /\ sent[t].token \in Token /\ sent[t].token.role = "admin" /\ ~sent[t].token.readOnly
        /\ ~(sent[t].token.until <= clock)
    BY <2>2, <2>3 DEF Refused, RefusedByRole, Expired, Request
  <2>6. Authorized(sent[t].token)
    BY <1>1, <2>3, Unsent DEF AuthorityOK
  <2>7. sent[t].token.until \in Nat /\ clock \in Nat /\ StaffLife \in Nat /\ ceased \in [Staff -> Nat]
    BY <1>1, <2>5, AccountsAssumption DEF Token, AccountsInv, SessionsOK
  <2>8. /\ sent[t].token.sub \in Staff
        /\ sent[t].token.sub \in Admins \/ clock < ceased[sent[t].token.sub] + StaffLife
    BY <2>5, <2>6, <2>7 DEF Authorized
  <2> QED
    BY <2>2, <2>4, <2>8
<1>2. Init => AuthorityOK
  BY DEF Init, AccountsInit, AuthorityOK
<1>3. AccountsInv /\ AuthorityOK /\ [Next]_vars => [role' # role => Past]_accountsVars
  BY <1>1
<1> QED
  BY <1>2, <1>3, AuthorityStep, AccountsInvariant, PTL DEF Spec, FormerAdminsStop

LEMMA OrdersLeave ==
    ASSUME AccountsInv, [Next]_vars, orders' < orders
    PROVE  mode = "test" /\ \E t \in Tab : sent[t].kind = "resetChecked" /\ sent[t].to = TheSlug
<1>1. orders \in Nat
  BY DEF AccountsInv, SessionsOK
<1>2. PICK t \in Tab : ResetRun(t)
  BY <1>1, Writers DEF Trade
<1> QED
  BY <1>1, <1>2 DEF ResetRun, StillTest, Waiting, AccountsInv, SentOK, Fits

(* A reset empties only a restaurant that is in test mode when it does,     *)
(* and whose slug was typed, whatever mode changes come in between.         *)
THEOREM HistoryIsSafe == Spec => HistoryLeavesOnlyInTest
<1>1. AccountsInv /\ [Next]_vars =>
        [orders' < orders => mode = "test" /\ \E t \in Tab : sent[t].kind = "resetChecked" /\ sent[t].to = TheSlug]_accountsVars
  BY OrdersLeave
<1> QED
  BY <1>1, AccountsInvariant, PTL DEF Spec, HistoryLeavesOnlyInTest

LEMMA SessionEnds ==
    ASSUME AccountsInv, [Next]_vars, NEW t \in Tab, staffTab[t] # Nobody, staffTab'[t] = Nobody
    PROVE  \/ Expired(staffTab[t])
           \/ sent'[t] = sent[t] /\ at'[t] \notin Role
<1>1. /\ "login" \notin Role /\ "platform" \notin Role /\ "opLogin" \notin Role
      /\ staffTab \in [Tab -> Token \union {Nobody}]
  BY AccountsAssumption DEF Role, AccountsInv, SessionsOK
<1>2. PICK u \in Tab : \/ \E s \in Staff : Login(u, s)
                       \/ Logout(u) \/ Leave(u) \/ TakeAnswer(u) \/ \E p \in Pages : Visit(u, p)
  <2>1. ASSUME NEW u \in Tab,
               \/ LoginOperator(u) \/ VisitOperator(u) \/ RefuseRequest(u) \/ ServeRead(u)
               \/ EditStaff(u) \/ RemoveStaff(u) \/ ResetCheck(u) \/ ResetRun(u) \/ MintView(u)
        PROVE  UNCHANGED staffTab
    BY <2>1 DEF LoginOperator, VisitOperator, RefuseRequest, ServeRead,
                EditStaff, RemoveStaff, ResetCheck, ResetRun, MintView
  <2>2. ASSUME NEW u \in Tab, SendAsStaff(u) \/ SendAsOperator(u)
        PROVE  UNCHANGED staffTab
    BY <2>2 DEF SendAsStaff, SendAsOperator, Send
  <2>3. Tick \/ Trade \/ ChangeMode \/ UNCHANGED accountsVars => UNCHANGED staffTab
    BY DEF Tick, Trade, ChangeMode, accountsVars
  <2> QED
    BY <2>1, <2>2, <2>3, AccountsSteps
<1>3. u = t
  BY <1>1, <1>2 DEF Login, Logout, Leave, TakeAnswer, Visit
<1>4. CASE \E s \in Staff : Login(t, s)
  BY <1>1, <1>4, NobodyHasNoToken, Tokens DEF Login, AccountsInv, SessionsOK
<1>5. CASE Logout(t) \/ Leave(t)
  <2>1. at'[t] \in {"login", "opLogin", "platform"} \/ UNCHANGED staffTab
    BY <1>5 DEF AccountsInv, SessionsOK, Logout, Leave
  <2> QED
    BY <1>1, <1>5, <2>1 DEF Logout, Leave
<1>6. CASE TakeAnswer(t)
  BY <1>1, <1>6, NobodyHasNoToken DEF TakeAnswer, SameToken, AccountsInv, SentOK, Fits
<1>7. CASE \E p \in Pages : Visit(t, p)
  BY <1>1, <1>7 DEF Visit
<1> QED
  BY <1>2, <1>3, <1>4, <1>5, <1>6, <1>7

(* A staff session ends only because the tab has left it, or because its    *)
(* own token has lapsed, whatever other requests of the tab are refused.    *)
THEOREM SessionsEndOnlyForCause == Spec => SessionsEndForCause
<1>1. AccountsInv /\ [Next]_vars =>
        [\A t \in Tab : staffTab[t] # Nobody /\ staffTab'[t] = Nobody =>
          \/ Expired(staffTab[t])
          \/ sent'[t] = sent[t] /\ at'[t] \notin Role]_accountsVars
  BY SessionEnds
<1> QED
  BY <1>1, AccountsInvariant, PTL DEF Spec, SessionsEndForCause
=============================================================================
