---------------------------- MODULE ReceiptLinks ----------------------------
(***************************************************************************)
(* The link to one paid order's receipt: a row of order_receipt, the pages *)
(* that open it, and the challenge they have to answer.                    *)
(*   src/src/modules/receipts/, src/src/lib/receipts.ts, the receipt       *)
(*   routes of customerRoutes.ts, src/frontend/src/pages/customer/         *)
(*   ReceiptPage.tsx.                                                      *)
(* Rows, tokens and time: a token is the number of its issue (only hashes  *)
(* are stored, and a presented token either hashes to the row's or not),   *)
(* and expiry is an event that may come at any time.                       *)
(***************************************************************************)
EXTENDS Integers, FiniteSets

CONSTANTS
    Page,              \* receipt pages open at the same time
    MaxLinks,          \* bound: links issued for the order
    MaxFailedAttempts  \* MAX_FAILED_ATTEMPTS, wrong answers that burn a link

ASSUME ReceiptLinksAssumption ==
    /\ {MaxLinks, MaxFailedAttempts} \subseteq Nat \ {0}
    /\ IsFiniteSet(Page)

VARIABLES
    link,  \* the row: token (0 when there is no row), expired, failed_attempts
    page   \* page -> the token in its address, what it shows or is waiting for

linkVars == <<link, page>>

Token == 1 .. MaxLinks

(* "right" and "wrong": an answer of that kind is being judged.  A page that *)
(* shows the receipt, or that the link is no longer available, has nothing  *)
(* more to ask and counts as closed.                                        *)
View == {"closed", "prompt", "right", "wrong"}
NoPage == [token |-> 0, view |-> "closed"]

LinkInit ==
    /\ link = [token |-> 0, expired |-> FALSE, fails |-> 0]
    /\ page = [p \in Page |-> NoPage]

-----------------------------------------------------------------------------
(* Issuing *)

(* insertReceipt: ON CONFLICT (order_id) DO NOTHING.                        *)
Mints == link.token = 0
Issue == link' = IF Mints THEN [token |-> 1, expired |-> FALSE, fails |-> 0] ELSE link

(* reissueReceipt: a new token and expiry, and a clean failure count.       *)
CanReissue == link.token \in 1 .. MaxLinks - 1
Reissue ==
    /\ CanReissue
    /\ link' = [token |-> link.token + 1, expired |-> FALSE, fails |-> 0]

Expire ==
    /\ link.token > 0 /\ ~link.expired
    /\ link' = [link EXCEPT !.expired = TRUE]
    /\ UNCHANGED page

-----------------------------------------------------------------------------
(* The challenge *)

(* isUnusable *)
(* Mutants: a link that has just been burnt still works; so does any burnt  *)
(* one, as long as it has not expired.                                      *)
BurntOneLate == link.expired \/ link.fails > MaxFailedAttempts
OnlyExpiry == link.expired
Unusable == link.expired \/ link.fails >= MaxFailedAttempts

(* findReceiptByTokenHash finds the row, and the link may be used.          *)
Live(token) == token = link.token /\ ~Unusable

(* describeReceiptChallenge for a page that is opened.                      *)
Open(p, token) ==
    /\ page[p].view = "closed"
    /\ Live(token)
    /\ page' = [page EXCEPT ![p] = [token |-> token, view |-> "prompt"]]
    /\ UNCHANGED link

(* challengeMatches: a phone number's last four digits, or all of it, and   *)
(* an email address as a whole.                                             *)
Answer == {"last four", "whole", "other"}
ChallengeMatches(channel, answer) ==
    answer = "whole" \/ (answer = "last four" /\ channel # "email")

(* verifyAndLoadReceipt up to the comparison; the row is read here ...      *)
VerifyLookup(p, channel, answer) ==
    /\ page[p].view = "prompt"
    /\ page' = [page EXCEPT ![p] =
                   IF Live(@.token)
                     THEN [@ EXCEPT !.view = IF ChallengeMatches(channel, answer) THEN "right" ELSE "wrong"]
                     ELSE NoPage]
    /\ UNCHANGED link

(* ... and written here, by its id, whatever has become of it since.        *)
VerifyWrong(p) ==
    /\ page[p].view = "wrong"
    /\ link' = [link EXCEPT !.fails = @ + 1]
    /\ page' = [page EXCEPT ![p].view = "prompt"]

VerifyRight(p) ==
    /\ page[p].view = "right"
    /\ link' = [link EXCEPT !.fails = 0]
    /\ page' = [page EXCEPT ![p] = NoPage]

Close(p) ==
    /\ page[p].view = "prompt"
    /\ page' = [page EXCEPT ![p] = NoPage]
    /\ UNCHANGED link

ViewNext(channel) ==
    \/ Expire
    \/ \E p \in Page :
          \/ \E answer \in Answer : VerifyLookup(p, channel, answer)
          \/ VerifyWrong(p) \/ VerifyRight(p)
          \/ Close(p)

-----------------------------------------------------------------------------
(* Properties *)

LinkTypeOK ==
    /\ link \in [token: 0 .. MaxLinks, expired: BOOLEAN, fails: Nat]
    /\ page \in [Page -> [token: 0 .. MaxLinks, view: View]]

Judged(answer) == {p \in Page : page[p].view = answer}

(* The count is read before an answer is judged and written after: answers  *)
(* that are judged at the same time may exceed the cap, but by no more than *)
(* the requests that were under way.                                        *)
GuessesBounded ==
    link.fails + Cardinality(Judged("wrong")) <= MaxFailedAttempts - 1 + Cardinality(Page)

(* A burnt link stays burnt until staff reissue it, and no answer to it is  *)
(* judged any more: only a right answer that was being judged when it burnt *)
(* can revive it, be it one given to an earlier link of the order.          *)
BurntUntilReissued ==
    [][link.fails >= MaxFailedAttempts /\ Judged("right") = {} /\ link'.token = link.token
         => link'.fails >= MaxFailedAttempts /\ Judged("right")' = {}]_linkVars
=============================================================================
