------------------------------ MODULE Accounts ------------------------------
(***************************************************************************)
(* Who may do what: staff accounts of a restaurant, the tokens that stand  *)
(* for them, the two sessions that a browser tab can hold (staff and       *)
(* platform admin), and what a platform admin does to a restaurant: its    *)
(* mode, the read-only view, and the reset of its trading history.         *)
(*   src/src/modules/staff/, src/src/modules/platformAdmin/,               *)
(*   src/src/lib/jwt.ts, src/src/middleware/, the staff part of            *)
(*   adminRoutes.ts, src/frontend/src/auth/ and api/client.ts.             *)
(* Passwords are left out: whoever has an account knows its password.      *)
(***************************************************************************)
EXTENDS Integers, FiniteSets

CONSTANTS
    Staff,           \* ids of accounts
    Tab,             \* browser tabs
    OtherRole,       \* roles besides the admin's: kitchen, services, bar, waiter
    Operator,        \* the platform admin
    Nobody,          \* no token, no account, no page
    Slug,            \* what may be typed to confirm a reset
    TheSlug,         \* the restaurant's own
    StaffLife, ViewLife, \* 12 h and 30 minutes, in ticks of the clock
    MaxClock,        \* bound
    MaxOrders,       \* bound: orders in the history
    MaxWrites        \* bound: changes of accounts and of the mode

ASSUME AccountsAssumption ==
    /\ Nobody \notin Staff \union {Operator} /\ Operator \notin Staff
    /\ TheSlug \in Slug /\ OtherRole \subseteq {"kitchen", "services", "bar", "waiter"}
    /\ {StaffLife, ViewLife, MaxClock, MaxOrders, MaxWrites} \subseteq Nat \ {0}

VARIABLES
    role,     \* account that exists -> its role
    mode,     \* of the restaurant
    orders,   \* number of orders in its history
    clock,
    staffTab, \* tab -> its staff token, or Nobody
    opTab,    \* tab -> its platform token, or Nobody
    at,       \* tab -> the page it shows
    from,     \* tab at the login page -> where it came from, or Nobody
    sent,     \* tab -> its request under way
    ceased,   \* history: account -> when it was last an admin's, if it is none
    writes

accountsVars == <<role, mode, orders, clock, staffTab, opTab, at, from, sent, ceased, writes>>

Role == {"admin"} \union OtherRole

(* Each role has its page, named after it; the admin may open them all.     *)
Pages == Role \union {"login", "opLogin", "platform"}
Allowed(p) == IF p \in Role THEN {"admin", p} ELSE {}
RoleDestination(r) == r

(* Mutant: whoever logs in goes where the last one was.                     *)
BackToWhere(r, attempted) == IF attempted = Nobody THEN RoleDestination(r) ELSE attempted
DestinationAfterLogin(r, attempted) ==
    IF attempted # Nobody /\ r \in Allowed(attempted) THEN attempted ELSE RoleDestination(r)

(* A token says what was true when it was signed.                           *)
Token == [sub: Staff \union {Operator}, role: Role \union {"operator"}, readOnly: BOOLEAN, until: Nat]
ASSUME NobodyHasNoToken == Nobody \notin Token

StaffToken(s) == [sub |-> s, role |-> role[s], readOnly |-> FALSE, until |-> clock + StaffLife]
ViewToken == [sub |-> Operator, role |-> "admin", readOnly |-> TRUE, until |-> clock + ViewLife]
OpToken == [sub |-> Operator, role |-> "operator", readOnly |-> FALSE, until |-> clock + StaffLife]

Expired(token) == token.until <= clock
Admins == {s \in DOMAIN role : role[s] = "admin"}

Nothing == [kind |-> "none"]

AccountsInit ==
    /\ role \in UNION {[have -> Role] : have \in SUBSET Staff} /\ Admins # {}
    /\ mode \in {"test", "live"}
    /\ orders \in 0 .. MaxOrders
    /\ clock = 0
    /\ staffTab = [t \in Tab |-> Nobody] /\ opTab = [t \in Tab |-> Nobody]
    /\ at = [t \in Tab |-> "login"] /\ from = [t \in Tab |-> Nobody]
    /\ sent = [t \in Tab |-> Nothing]
    /\ ceased = [s \in Staff |-> 0] /\ writes = 0

serverVars == <<role, mode, orders, ceased, writes>>

Tick ==
    /\ clock < MaxClock /\ clock' = clock + 1
    /\ UNCHANGED <<serverVars, staffTab, opTab, at, from, sent>>

-----------------------------------------------------------------------------
(* The tab's sessions *)

(* loginStaff answers with a token made from the row as it is now.          *)
Login(t, s) ==
    /\ at[t] = "login" /\ s \in DOMAIN role
    /\ staffTab' = [staffTab EXCEPT ![t] = StaffToken(s)]
    /\ at' = [at EXCEPT ![t] = DestinationAfterLogin(role[s], from[t])]
    /\ from' = [from EXCEPT ![t] = Nobody]
    /\ UNCHANGED <<serverVars, clock, opTab, sent>>

LoginOperator(t) ==
    /\ at[t] = "opLogin"
    /\ opTab' = [opTab EXCEPT ![t] = OpToken]
    /\ at' = [at EXCEPT ![t] = "platform"]
    /\ UNCHANGED <<serverVars, clock, staffTab, from, sent>>

Logout(t) ==
    /\ \/ at[t] = "platform" /\ opTab' = [opTab EXCEPT ![t] = Nobody] /\ UNCHANGED staffTab
          /\ at' = [at EXCEPT ![t] = "opLogin"]
       \/ Allowed(at[t]) # {} /\ staffTab' = [staffTab EXCEPT ![t] = Nobody] /\ UNCHANGED opTab
          /\ at' = [at EXCEPT ![t] = "login"]
    /\ from' = [from EXCEPT ![t] = Nobody]
    /\ UNCHANGED <<serverVars, clock, sent>>

(* A read-only view also has a way back to the platform's page.             *)
Leave(t) ==
    /\ Allowed(at[t]) # {} /\ staffTab[t].readOnly
    /\ LET dead == opTab[t] = Nobody \/ Expired(opTab[t]) IN
       /\ opTab' = [opTab EXCEPT ![t] = IF dead THEN Nobody ELSE @]
       /\ at' = [at EXCEPT ![t] = IF dead THEN "opLogin" ELSE "platform"]
    /\ staffTab' = [staffTab EXCEPT ![t] = Nobody]
    /\ UNCHANGED <<serverVars, clock, from, sent>>

(* ProtectedRoute: a lapsed session is cleared and the page remembered, a   *)
(* session of another role is sent to the login page without.               *)
Visit(t, p) ==
    /\ Allowed(p) # {}
    /\ LET session == staffTab[t]
           dead == session = Nobody \/ Expired(session)
           in == ~dead /\ session.role \in Allowed(p) IN
       /\ staffTab' = [staffTab EXCEPT ![t] = IF dead THEN Nobody ELSE @]
       /\ at' = [at EXCEPT ![t] = IF in THEN p ELSE "login"]
       /\ from' = [from EXCEPT ![t] = IF dead THEN p ELSE Nobody]
    /\ UNCHANGED <<serverVars, clock, opTab, sent>>

VisitOperator(t) ==
    /\ LET dead == opTab[t] = Nobody \/ Expired(opTab[t]) IN
       /\ opTab' = [opTab EXCEPT ![t] = IF dead THEN Nobody ELSE @]
       /\ at' = [at EXCEPT ![t] = IF dead THEN "opLogin" ELSE "platform"]
    /\ UNCHANGED <<serverVars, clock, staffTab, from, sent>>

-----------------------------------------------------------------------------
(* Requests: sent with a token, answered later *)

Send(t, token, what, who, to) ==
    /\ sent[t] = Nothing
    /\ sent' = [sent EXCEPT ![t] = [kind |-> what, who |-> who, to |-> to, token |-> token, reply |-> 0]]
    /\ UNCHANGED <<serverVars, clock, staffTab, opTab, at, from>>

(* What the admin's staff tab sends; any page also reads.                   *)
SendAsStaff(t) ==
    /\ staffTab[t] # Nobody /\ Allowed(at[t]) # {}
    /\ \/ Send(t, staffTab[t], "read", Nobody, Nobody)
       \/ /\ at[t] = "admin" /\ ~staffTab[t].readOnly
          /\ \E s \in Staff :
                \/ \E r \in Role : Send(t, staffTab[t], IF s \in DOMAIN role THEN "edit" ELSE "add", s, r)
                \/ s \in DOMAIN role /\ Send(t, staffTab[t], "remove", s, Nobody)

(* What the platform admin's page sends.                                    *)
SendAsOperator(t) ==
    /\ opTab[t] # Nobody /\ at[t] = "platform"
    /\ \/ \E slug \in Slug : Send(t, opTab[t], "reset", Nobody, slug)
       \/ Send(t, opTab[t], "view", Nobody, Nobody)

(* Of the statuses 200, 401 and the rest are told apart.                    *)
Answer(t, status) == sent' = [sent EXCEPT ![t].reply = status]
Writes == writes < MaxWrites /\ writes' = writes + 1

(* Mutant: a token that could be verified is good, however old.             *)
RefusedByRole(r) ==
    IF \/ r.token.readOnly /\ r.kind # "read"
       \/ r.kind \in {"add", "edit", "remove"} /\ r.token.role # "admin" THEN 400
    ELSE 200

(* requireStaffAuth, requireRole and requirePlatformAdminAuth.  Whether the *)
(* account behind the token is still what it was is not looked up.          *)
Refused(r) == IF Expired(r.token) THEN 401 ELSE RefusedByRole(r)

Waiting(t, kinds) == sent[t].kind \in kinds /\ sent[t].reply = 0
Ran(t, kinds) == Waiting(t, kinds) /\ Refused(sent[t]) = 200

RefuseRequest(t) ==
    /\ sent[t] # Nothing /\ Waiting(t, {sent[t].kind}) /\ Refused(sent[t]) # 200
    /\ Answer(t, Refused(sent[t]))
    /\ UNCHANGED <<serverVars, clock, staffTab, opTab, at, from>>

ServeRead(t) ==
    /\ Ran(t, {"read"}) /\ Answer(t, 200)
    /\ UNCHANGED <<serverVars, clock, staffTab, opTab, at, from>>

MayRemove(r) == r.who \in DOMAIN role /\ r.who # r.token.sub

(* Accounts that were an admin's until this step.                           *)
Ceases == ceased' = [s \in Staff |-> IF s \in Admins /\ s \notin Admins' THEN clock ELSE ceased[s]]

EditStaff(t) ==
    /\ Ran(t, {"add", "edit"}) /\ Writes
    /\ LET r == sent[t] IN
       IF (r.kind = "add") # (r.who \in DOMAIN role)
         THEN /\ role' = [s \in DOMAIN role \union {r.who} |-> IF s = r.who THEN r.to ELSE role[s]]
              /\ Ceases
              /\ Answer(t, 200)
         ELSE Answer(t, 400) /\ UNCHANGED <<role, ceased>>
    /\ UNCHANGED <<mode, orders, clock, staffTab, opTab, at, from>>

RemoveStaff(t) ==
    /\ Ran(t, {"remove"}) /\ Writes
    /\ LET r == sent[t] IN
       IF MayRemove(r)
         THEN /\ role' = [s \in DOMAIN role \ {r.who} |-> role[s]]
              /\ Ceases
              /\ Answer(t, 200)
         ELSE Answer(t, 400) /\ UNCHANGED <<role, ceased>>
    /\ UNCHANGED <<mode, orders, clock, staffTab, opTab, at, from>>

-----------------------------------------------------------------------------
(* The platform admin's requests *)

(* Asked for from this or from any other page of the platform's; which one  *)
(* is not kept, as nothing follows from the answer.                         *)
ChangeMode ==
    /\ Writes
    /\ mode' \in {"test", "live"} \ {mode}
    /\ UNCHANGED <<role, orders, clock, staffTab, opTab, at, from, sent, ceased>>

(* resetRestaurant checks mode and slug ...                                 *)
ResetCheck(t) ==
    /\ Ran(t, {"reset"})
    /\ sent' = [sent EXCEPT ![t] = IF mode = "test" /\ sent[t].to = TheSlug
                                     THEN [@ EXCEPT !.kind = "resetChecked"] ELSE [@ EXCEPT !.reply = 400]]
    /\ UNCHANGED <<serverVars, clock, staffTab, opTab, at, from>>

(* ... and its transaction looks at the mode again, holding the row.        *)
(* It fails otherwise, and also when an order has come in while it deletes: *)
(* that order's session cannot be deleted, and nothing is.                  *)
(* Mutant: it goes by the first look.                                       *)
TrustCheck == TRUE
StillTest == mode = "test"

ResetRun(t) ==
    /\ Waiting(t, {"resetChecked"})
    /\ \/ StillTest /\ orders' = 0 /\ Answer(t, 200)
       \/ UNCHANGED orders /\ Answer(t, 400)
    /\ UNCHANGED <<role, mode, clock, staffTab, opTab, at, from, ceased, writes>>

MintView(t) ==
    /\ Ran(t, {"view"})
    /\ IF mode = "test"
         THEN sent' = [sent EXCEPT ![t].reply = 200, ![t].who = ViewToken]
         ELSE Answer(t, 400)
    /\ UNCHANGED <<serverVars, clock, staffTab, opTab, at, from>>

Trade ==
    /\ orders < MaxOrders /\ orders' = orders + 1
    /\ UNCHANGED <<role, mode, clock, staffTab, opTab, at, from, sent, ceased, writes>>

-----------------------------------------------------------------------------
(* The answer *)

(* Mutant: a refusal clears whatever session the tab has.                   *)
Whatever(failed, held) == held # Nobody
SameToken(failed, held) == held # Nobody /\ failed = held

(* A 401 clears the session whose token has failed; the route then sends    *)
(* the page to its login.  A view is opened with the token it brought.      *)
TakeAnswer(t) ==
    /\ sent[t] # Nothing /\ sent[t].reply # 0
    /\ sent' = [sent EXCEPT ![t] = Nothing]
    /\ LET r == sent[t]
           lost == r.reply = 401 /\ SameToken(r.token, staffTab[t])
           lostOp == r.reply = 401 /\ SameToken(r.token, opTab[t])
           viewing == r.kind = "view" /\ r.reply = 200 IN
       /\ staffTab' = [staffTab EXCEPT ![t] = IF lost THEN Nobody ELSE IF viewing THEN r.who ELSE @]
       /\ opTab' = [opTab EXCEPT ![t] = IF lostOp THEN Nobody ELSE @]
       /\ at' = [at EXCEPT ![t] = IF lost /\ Allowed(@) # {} THEN "login"
                                  ELSE IF lostOp /\ @ = "platform" THEN "opLogin"
                                  ELSE IF viewing THEN "admin" ELSE @]
       /\ from' = [from EXCEPT ![t] = IF lost /\ Allowed(at[t]) # {} THEN at[t] ELSE @]
    /\ UNCHANGED <<serverVars, clock>>

AccountsNext ==
    \/ Tick \/ Trade \/ ChangeMode
    \/ \E t \in Tab :
          \/ (\E s \in Staff : Login(t, s)) \/ LoginOperator(t) \/ Logout(t)
          \/ (\E p \in Pages : Visit(t, p)) \/ VisitOperator(t) \/ Leave(t)
          \/ SendAsStaff(t) \/ SendAsOperator(t)
          \/ RefuseRequest(t) \/ ServeRead(t) \/ EditStaff(t) \/ RemoveStaff(t)
          \/ ResetCheck(t) \/ ResetRun(t) \/ MintView(t)
          \/ TakeAnswer(t)

-----------------------------------------------------------------------------
(* Properties *)

(* The accounts' variables have their types; a page of the staff's is shown *)
(* only to a session whose role may see it, through logins, lapses and      *)
(* the platform admin's views in the same tab.                              *)
AccountsTypeOK ==
    /\ DOMAIN role \subseteq Staff /\ \A s \in DOMAIN role : role[s] \in Role
    /\ mode \in {"test", "live"} /\ orders \in 0 .. MaxOrders /\ clock \in 0 .. MaxClock
    /\ at \in [Tab -> Pages] /\ from \in [Tab -> Pages \union {Nobody}]
    /\ \A t \in Tab : Allowed(at[t]) # {} => staffTab[t] # Nobody /\ staffTab[t].role \in Allowed(at[t])
    /\ \A t \in Tab : at[t] = "platform" => opTab[t] # Nobody

(* Accounts are changed only with the token of an account that is an        *)
(* admin's or was one less than a token's life ago: whoever was demoted or  *)
(* removed cannot go on for longer, however requests, logins and changes of *)
(* roles interleave.  (Within that time they can, and two admins can remove *)
(* one another.)                                                            *)
FormerAdminsStop ==
    [][role' # role =>
          \E t \in Tab : /\ sent[t].kind \in {"add", "edit", "remove"} /\ sent'[t] # sent[t]
                         /\ sent[t].token.sub \in Staff
                         /\ \/ sent[t].token.sub \in Admins
                            \/ clock < ceased[sent[t].token.sub] + StaffLife]_accountsVars

(* Orders leave the history only by a reset of a restaurant that is in      *)
(* test mode at that moment, even if it went live while the reset was under *)
(* way, and whose own slug was typed.                                       *)
HistoryLeavesOnlyInTest ==
    [][orders' < orders => mode = "test" /\ \E t \in Tab : sent[t].kind = "resetChecked" /\ sent[t].to = TheSlug]_accountsVars

(* A tab loses its staff session only by leaving it, by visiting a page     *)
(* with a lapsed token, or because the server has refused that very token:  *)
(* never because a request of an earlier session, or of the other kind of   *)
(* session in the same tab, is refused late.                                *)
SessionsEndForCause ==
    [][\A t \in Tab : staffTab[t] # Nobody /\ staffTab'[t] = Nobody =>
          \/ Expired(staffTab[t])
          \/ sent'[t] = sent[t] /\ at'[t] \notin Role]_accountsVars
=============================================================================
