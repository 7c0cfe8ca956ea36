----------------------------- MODULE IdentityLinks -----------------------------
(***************************************************************************)
(* Signing in with, linking and unlinking provider identities:             *)
(* src/apis/auth-oauth.ts, src/tools/auth-better/oauth-flows.ts and        *)
(* identity-linking-policy.ts, and unlinkIdentity of src/apis/auth.ts.     *)
(*                                                                         *)
(* A flow takes a browser to the provider and back; Better Auth's callback *)
(* (external, one step) links the identity or signs it in; then the flow   *)
(* is completed with a code, and the code redeemed.  A newly linked row is *)
(* held until then.  Every statement of a handler is a step; the requests  *)
(* in progress are slots with the handler's locals.  One provider.         *)
(***************************************************************************)
EXTENDS Integers, Sequences, FiniteSets

CONSTANTS
    Users, NoUser,
    Identities,   \* accounts at the provider
    Claims,       \* the user whose address each identity asserts
    Trusted,      \* identities whose address is authoritative and verified
    Confirmed,    \* users whose own address is verified
    Registered,   \* users that signed up with a password
    Browsers,
    Slots,        \* slots for concurrent requests
    Acting,       \* bound: the sessions that unlink and log out
    MaxFlows      \* bound: flows ever started

ASSUME ClaimsAssumption == Claims \in [Identities -> Users]
ASSUME TrustAssumption == Trusted \subseteq Identities /\ Confirmed \subseteq Users
ASSUME RegisteredAssumption == Registered \subseteq Users /\ IsFiniteSet(Registered)
ASSUME NoUserAssumption == NoUser \notin Users
ASSUME MaxFlowsAssumption == MaxFlows \in Nat

VARIABLES
    known,      \* rows of the user table
    passwords,  \* users with a password credential
    accounts,   \* provider identities' rows ever inserted into account
    logins,     \* sessions ever created, with the row they came through and whether that was held then
    tickets,    \* sessions with an unused link ticket
    flows,      \* every flow ever started
    holds,      \* hold rows, by the flow that made them
    codes,      \* every auth code ever created
    cookie,     \* each browser's flow cookie, 0 for none
    jar,        \* each browser's session cookie of Better Auth, 0 for none
    slot,       \* the requests in progress
    proven,     \* rows whose code was redeemed with its verifier
    dropped     \* users that lost a link that was never proven

identityVars == <<known, passwords, accounts, logins, tickets, flows, holds, codes,
                  cookie, jar, slot, proven, dropped>>

Rows == {r \in DOMAIN accounts : accounts[r].there}
RowsOf(u) == {r \in Rows : accounts[r].user = u}
Held(r) == \E h \in holds : h.row = r
LiveLogin(s) == s \in DOMAIN logins /\ logins[s].live
\* signInAccounts: 0 stands for the password credential.
Methods(u) == RowsOf(u) \cup (IF u \in passwords THEN {0} ELSE {})

Empty == [pc |-> "idle", flow |-> 0, row |-> 0, rows |-> {}, ses |-> 0, code |-> 0, ok |-> FALSE]
InSlot(q, l) == slot[q].pc = l
Set(q, x) == slot' = [slot EXCEPT ![q] = x]
Next_(q, l) == Set(q, [slot[q] EXCEPT !.pc = l])
Answered(q) == Set(q, Empty)

\* The registered users have a session each.
IdentityInit ==
    /\ known = Registered /\ passwords = Registered
    /\ \E order \in [1..Cardinality(Registered) -> Registered] :
         /\ \A u \in Registered : \E s \in DOMAIN order : order[s] = u
         /\ logins = [s \in DOMAIN order |-> [user |-> order[s], live |-> TRUE, via |-> 0, held |-> FALSE]]
    /\ accounts = <<>> /\ tickets = {} /\ flows = <<>> /\ holds = {} /\ codes = <<>>
    /\ cookie = [b \in Browsers |-> 0] /\ jar = [b \in Browsers |-> 0]
    /\ slot = [q \in Slots |-> Empty] /\ proven = {} /\ dropped = {}

(***************************************************************************)
(* Starting a flow.                                                        *)
(***************************************************************************)
\* What is older than the flow is at most rows and ses.
NewFlow(b, u, s) == [browser |-> b, user |-> u, ses |-> s, rows |-> Len(accounts), logins |-> Len(logins),
                     touched |-> {}, back |-> "no", there |-> TRUE]
\* Mutant: the cookie is set and the flow never stored.
StartFlow_CookieOnly(b, u, s) ==
    /\ Len(flows) < MaxFlows
    /\ cookie' = [cookie EXCEPT ![b] = Len(flows) + 1]
    /\ UNCHANGED flows
StartFlow(b, u, s) ==
    /\ Len(flows) < MaxFlows
    /\ flows' = Append(flows, NewFlow(b, u, s))
    /\ cookie' = [cookie EXCEPT ![b] = Len(flows) + 1]

Authorize(b) ==
    /\ StartFlow(b, NoUser, 0)
    /\ UNCHANGED <<known, passwords, accounts, logins, tickets, holds, codes, jar, slot, proven, dropped>>

AuthorizeLink(s) ==
    /\ LiveLogin(s) /\ Len(flows) < MaxFlows
    /\ tickets' = tickets \cup {s}
    /\ UNCHANGED <<known, passwords, accounts, logins, flows, holds, codes, cookie, jar, slot, proven, dropped>>

\* Any browser may open the ticket, if the session is alive.
StartLink(b, s) ==
    /\ s \in tickets /\ tickets' = tickets \ {s}
    /\ IF LiveLogin(s) THEN StartFlow(b, logins[s].user, s) ELSE UNCHANGED <<flows, cookie>>
    /\ UNCHANGED <<known, passwords, accounts, logins, holds, codes, jar, slot, proven, dropped>>

(***************************************************************************)
(* Better Auth's callback, as far as the code relies on it, with the       *)
(* linking policy.                                                         *)
(***************************************************************************)
\* decideIdentityLink for what exists: the row's owner, a user with the address, or nobody.
Decide(i, kind, user, signedIn) ==
    CASE kind = "identity_owner" -> IF signedIn \in {NoUser, user} THEN "sign_in" ELSE "refuse"
      [] kind # "identity_owner" /\ signedIn # NoUser -> "link"
      [] kind = "none" /\ signedIn = NoUser -> "create"
      [] kind = "email_match" /\ signedIn = NoUser ->
           IF i \in Trusted /\ user \in Confirmed THEN "link" ELSE "refuse"

\* The row of identity i, 0 for none.
RowOf(i) == IF \E r \in Rows : accounts[r].identity = i
            THEN CHOOSE r \in Rows : accounts[r].identity = i ELSE 0
Existing(i) == IF RowOf(i) # 0 THEN [kind |-> "identity_owner", user |-> accounts[RowOf(i)].user]
               ELSE IF Claims[i] \in known THEN [kind |-> "email_match", user |-> Claims[i]]
               ELSE [kind |-> "none", user |-> Claims[i]]

\* Row r is now updated for all link flows that are older; flow f is back.
Touched(f, r) == [g \in DOMAIN flows |->
    LET x == [flows[g] EXCEPT !.touched = IF flows[g].ses = 0 \/ flows[g].back = "over" THEN @ ELSE @ \cup {r}]
    IN IF g = f THEN [x EXCEPT !.back = "ok"] ELSE x]

Callback(f, i) ==
    LET e == Existing(i)
        signedIn == flows[f].user
        action == Decide(i, e.kind, e.user, signedIn)
        owner == IF action = "link" /\ signedIn # NoUser THEN signedIn ELSE e.user
        r == IF action = "sign_in" THEN RowOf(i) ELSE Len(accounts) + 1
    IN
    /\ flows[f].back = "no"
    /\ IF action = "refuse"
         THEN /\ flows' = [flows EXCEPT ![f].back = "error"]
              /\ UNCHANGED <<known, accounts, logins, jar>>
         ELSE /\ known' = known \cup {owner}
              /\ accounts' = IF action = "sign_in" THEN accounts
                             ELSE Append(accounts, [user |-> owner, identity |-> i, there |-> TRUE])
              /\ flows' = Touched(f, r)
              /\ IF signedIn # NoUser THEN UNCHANGED <<logins, jar>>
                 ELSE /\ logins' = Append(logins, [user |-> owner, live |-> TRUE, via |-> r,
                                                   held |-> Held(r) /\ r \notin proven])
                      /\ jar' = [jar EXCEPT ![flows[f].browser] = Len(logins) + 1]
    /\ UNCHANGED <<passwords, tickets, holds, codes, cookie, slot, proven, dropped>>

\* The provider or the person there says no.
ProviderRefuses(f) ==
    /\ flows[f].back = "no"
    /\ flows' = [flows EXCEPT ![f].back = "error"]
    /\ UNCHANGED <<known, passwords, accounts, logins, tickets, holds, codes, cookie, jar, slot, proven, dropped>>

(***************************************************************************)
(* GET /oauth/complete.                                                    *)
(***************************************************************************)
Idle(q) == InSlot(q, "idle")
\* clearingCookies, on every answer.
ClearCookies(b) == cookie' = [cookie EXCEPT ![b] = 0] /\ jar' = [jar EXCEPT ![b] = 0]
Browser(q) == flows[slot[q].flow].browser
\* Nothing but its browser is asked of a flow that is over.
Over(f) == [flows[f] EXCEPT !.back = "over", !.there = FALSE, !.user = NoUser, !.ses = 0, !.rows = 0,
                !.logins = 0, !.touched = {}]
Close_(q) == flows' = [flows EXCEPT ![slot[q].flow] = Over(slot[q].flow)]

\* flowCompletion and completedSession.
Branch(f) == CASE flows[f].back = "error" -> "refused"
               [] flows[f].back = "ok" /\ flows[f].ses # 0 -> "linked"
               [] OTHER -> "who"

\* Mutant: the flow's row stays until it expires.
TakeFlow_Keeps(q, f, expired) ==
    /\ Idle(q) /\ flows[f].back # "no"
    /\ IF flows[f].there /\ ~expired /\ cookie[flows[f].browser] = f
         THEN Set(q, [Empty EXCEPT !.flow = f, !.pc = Branch(f)]) /\ UNCHANGED <<cookie, jar>>
         ELSE ClearCookies(flows[f].browser) /\ UNCHANGED slot
    /\ UNCHANGED flows
    /\ UNCHANGED <<known, passwords, accounts, logins, tickets, holds, codes, proven, dropped>>

\* The flow's row goes, whether it is expired and whichever browser asks.
TakeFlow(q, f, expired) ==
    /\ Idle(q) /\ flows[f].back # "no"
    /\ IF flows[f].there /\ ~expired /\ cookie[flows[f].browser] = f
         THEN /\ flows' = [flows EXCEPT ![f].there = FALSE]
              /\ Set(q, [Empty EXCEPT !.flow = f, !.pc = Branch(f)])
              /\ UNCHANGED <<cookie, jar>>
         ELSE /\ flows' = IF flows[f].there THEN [flows EXCEPT ![f] = Over(f)] ELSE flows
              /\ ClearCookies(flows[f].browser) /\ UNCHANGED slot
    /\ UNCHANGED <<known, passwords, accounts, logins, tickets, holds, codes, proven, dropped>>

Refused(q) ==
    /\ InSlot(q, "refused")
    /\ ClearCookies(Browser(q)) /\ Close_(q) /\ Answered(q)
    /\ UNCHANGED <<known, passwords, accounts, logins, tickets, holds, codes, proven, dropped>>

\* completedLink: a row of the user that was written since the flow started, one of
\* those there are.  One that was also created since is held.
Completable(f) == {r \in RowsOf(flows[f].user) : r \in flows[f].touched}
FindLinked(q) ==
    LET f == slot[q].flow IN
    /\ InSlot(q, "linked")
    /\ \/ /\ LiveLogin(flows[f].ses)
          /\ \E r \in Completable(f) :
               Set(q, [slot[q] EXCEPT !.ses = flows[f].ses, !.row = IF r > flows[f].rows THEN r ELSE 0,
                                      !.pc = IF r > flows[f].rows THEN "hold" ELSE "code"])
       \/ /\ ~LiveLogin(flows[f].ses) \/ Completable(f) = {}
          /\ Next_(q, "refused")
    /\ UNCHANGED <<known, passwords, accounts, logins, tickets, flows, holds, codes, cookie, jar, proven, dropped>>

HoldLink(q) ==
    /\ InSlot(q, "hold")
    /\ holds' = holds \cup {[row |-> slot[q].row, by |-> slot[q].flow, late |-> FALSE]}
    /\ Next_(q, "code")
    /\ UNCHANGED <<known, passwords, accounts, logins, tickets, flows, codes, cookie, jar, proven, dropped>>

\* completedSignIn: the browser's session, if this flow can have created it.
WhoSignedIn(q) ==
    LET s == jar[Browser(q)] IN
    /\ InSlot(q, "who")
    /\ IF LiveLogin(s) /\ s > flows[slot[q].flow].logins
         THEN Set(q, [slot[q] EXCEPT !.pc = "rows", !.ses = s])
         ELSE Next_(q, "refused")
    /\ UNCHANGED <<known, passwords, accounts, logins, tickets, flows, holds, codes, cookie, jar, proven, dropped>>

ListRows(q) ==
    /\ InSlot(q, "rows")
    /\ Set(q, [slot[q] EXCEPT !.rows = RowsOf(logins[slot[q].ses].user), !.pc = "holds"])
    /\ UNCHANGED <<known, passwords, accounts, logins, tickets, flows, holds, codes, cookie, jar, proven, dropped>>

Holding(q) == {h \in holds : h.row \in slot[q].rows}
\* Mutant: only holds that are not abandoned count.
HeldLinks_Live(q) ==
    /\ InSlot(q, "holds")
    /\ Next_(q, IF \A h \in Holding(q) : h.late THEN "code" ELSE "refuse")
    /\ UNCHANGED <<known, passwords, accounts, logins, tickets, flows, holds, codes, cookie, jar, proven, dropped>>

\* heldLinks: `row` is the next abandoned link to remove.
HeldLinks(q) ==
    /\ InSlot(q, "holds")
    /\ Set(q, IF Holding(q) = {} THEN [slot[q] EXCEPT !.pc = "code"]
              ELSE [slot[q] EXCEPT !.rows = {h.row : h \in {g \in Holding(q) : g.late}}, !.pc = "drop"])
    /\ UNCHANGED <<known, passwords, accounts, logins, tickets, flows, holds, codes, cookie, jar, proven, dropped>>

NextAbandoned(q) ==
    /\ InSlot(q, "drop")
    /\ IF slot[q].rows = {} THEN Next_(q, "refuse")
       ELSE \E r \in slot[q].rows :
              Set(q, [slot[q] EXCEPT !.rows = @ \ {r}, !.row = r, !.pc = "dropRow"])
    /\ UNCHANGED <<known, passwords, accounts, logins, tickets, flows, holds, codes, cookie, jar, proven, dropped>>

\* The session that came through an unproven link ends.
RefuseHeld(q) ==
    /\ InSlot(q, "refuse")
    /\ logins' = [logins EXCEPT ![slot[q].ses].live = FALSE]
    /\ Next_(q, "refused")
    /\ UNCHANGED <<known, passwords, accounts, tickets, flows, holds, codes, cookie, jar, proven, dropped>>

CreateCode(q) ==
    /\ InSlot(q, "code")
    /\ codes' = Append(codes, [ses |-> slot[q].ses, row |-> slot[q].row, flow |-> slot[q].flow,
                               there |-> TRUE, granted |-> 0])
    /\ ClearCookies(Browser(q)) /\ Close_(q) /\ Answered(q)
    /\ UNCHANGED <<known, passwords, accounts, logins, tickets, holds, proven, dropped>>

(***************************************************************************)
(* POST /token?grant_type=pkce.                                            *)
(***************************************************************************)
\* A code is as old as its hold at most.
MayExpire(c) == \A h \in holds : h.row = codes[c].row /\ h.by = codes[c].flow => h.late

Redeem(q, c, verified, expired) ==
    /\ Idle(q) /\ codes[c].there /\ (expired => MayExpire(c))
    /\ codes' = [codes EXCEPT ![c].there = FALSE]
    /\ IF expired \/ (~verified /\ codes[c].row = 0) THEN UNCHANGED slot
       ELSE Set(q, [Empty EXCEPT !.code = c, !.ok = verified, !.row = codes[c].row, !.ses = codes[c].ses,
                !.pc = IF codes[c].row = 0 THEN "grant" ELSE IF verified THEN "release" ELSE "dropRow"])
    /\ UNCHANGED <<known, passwords, accounts, logins, tickets, flows, holds, cookie, jar, proven, dropped>>

\* dropLink: the row first, then its hold.
DropRow(q) ==
    LET r == slot[q].row IN
    /\ InSlot(q, "dropRow")
    /\ accounts' = [accounts EXCEPT ![r].there = FALSE]
    /\ dropped' = dropped \cup {accounts[r].user}
    /\ Next_(q, "release")
    /\ UNCHANGED <<known, passwords, logins, tickets, flows, holds, codes, cookie, jar, proven>>

ReleaseLink(q) ==
    /\ InSlot(q, "release")
    /\ holds' = {h \in holds : h.row # slot[q].row}
    /\ proven' = IF slot[q].ok THEN proven \cup {slot[q].row} ELSE proven
    /\ IF slot[q].code = 0 THEN Next_(q, "drop")
       ELSE IF slot[q].ok THEN Next_(q, "grant") ELSE Answered(q)
    /\ UNCHANGED <<known, passwords, accounts, logins, tickets, flows, codes, cookie, jar, dropped>>

SessionGrant(q) ==
    /\ InSlot(q, "grant")
    /\ codes' = IF LiveLogin(slot[q].ses) THEN [codes EXCEPT ![slot[q].code].granted = @ + 1] ELSE codes
    /\ Answered(q)
    /\ UNCHANGED <<known, passwords, accounts, logins, tickets, flows, holds, cookie, jar, proven, dropped>>

(***************************************************************************)
(* DELETE /user/identities/:id, one transaction under the user's lock.     *)
(***************************************************************************)
Unlinking == {"methods", "delete"}
Unlink(q, s, m) ==
    /\ Idle(q) /\ LiveLogin(s) /\ s \in Acting
    /\ Set(q, [Empty EXCEPT !.pc = "lock", !.ses = s, !.row = m])
    /\ UNCHANGED <<known, passwords, accounts, logins, tickets, flows, holds, codes, cookie, jar, proven, dropped>>

\* Mutant: the user's row is read without FOR UPDATE.
LockUser_Reads(q) ==
    /\ InSlot(q, "lock")
    /\ IF LiveLogin(slot[q].ses) THEN Next_(q, "methods") ELSE Answered(q)
    /\ UNCHANGED <<known, passwords, accounts, logins, tickets, flows, holds, codes, cookie, jar, proven, dropped>>

\* lockUpdatingSession waits for the lock and looks at the session again.
LockUser(q) ==
    /\ InSlot(q, "lock")
    /\ \A p \in Slots : slot[p].pc \in Unlinking => logins[slot[p].ses].user # logins[slot[q].ses].user
    /\ IF LiveLogin(slot[q].ses) THEN Next_(q, "methods") ELSE Answered(q)
    /\ UNCHANGED <<known, passwords, accounts, logins, tickets, flows, holds, codes, cookie, jar, proven, dropped>>

Caller(q) == logins[slot[q].ses].user
\* removeSignInMethod refuses an unknown method and the last one; a held link counts.
Removable(q) == slot[q].row \in Methods(Caller(q)) /\ Cardinality(Methods(Caller(q))) >= 2
JudgeRemoval(q) ==
    /\ InSlot(q, "methods")
    /\ IF Removable(q) THEN Next_(q, "delete") ELSE Answered(q)
    /\ UNCHANGED <<known, passwords, accounts, logins, tickets, flows, holds, codes, cookie, jar, proven, dropped>>

RemoveMethod(q) ==
    /\ InSlot(q, "delete")
    /\ IF slot[q].row = 0
         THEN passwords' = passwords \ {Caller(q)} /\ UNCHANGED accounts
         ELSE accounts' = [accounts EXCEPT ![slot[q].row].there = FALSE] /\ UNCHANGED passwords
    /\ Answered(q)
    /\ UNCHANGED <<known, logins, tickets, flows, holds, codes, cookie, jar, proven, dropped>>

(***************************************************************************)
(* Time, and sessions that end.                                            *)
(***************************************************************************)
HoldExpires(h) ==
    /\ ~h.late /\ holds' = (holds \ {h}) \cup {[h EXCEPT !.late = TRUE]}
    /\ UNCHANGED <<known, passwords, accounts, logins, tickets, flows, codes, cookie, jar, slot, proven, dropped>>
LoginEnds(s) ==
    /\ LiveLogin(s) /\ s \in Acting /\ logins' = [logins EXCEPT ![s].live = FALSE]
    /\ UNCHANGED <<known, passwords, accounts, tickets, flows, holds, codes, cookie, jar, slot, proven, dropped>>

Complete(q) ==
    \/ Refused(q) \/ FindLinked(q) \/ HoldLink(q) \/ WhoSignedIn(q) \/ ListRows(q) \/ HeldLinks(q)
    \/ NextAbandoned(q) \/ RefuseHeld(q) \/ CreateCode(q)
IdentityServe(q) ==
    \/ Complete(q) \/ DropRow(q) \/ ReleaseLink(q) \/ SessionGrant(q)
    \/ LockUser(q) \/ JudgeRemoval(q) \/ RemoveMethod(q)

IdentityNext ==
    \/ \E b \in Browsers : Authorize(b) \/ \E s \in DOMAIN logins : StartLink(b, s)
    \/ \E s \in DOMAIN logins : AuthorizeLink(s) \/ LoginEnds(s)
    \/ \E f \in DOMAIN flows : ProviderRefuses(f) \/ \E i \in Identities : Callback(f, i)
    \/ \E h \in holds : HoldExpires(h)
    \/ \E q \in Slots :
         \/ IdentityServe(q)
         \/ \E f \in DOMAIN flows : \E expired \in BOOLEAN : TakeFlow(q, f, expired)
         \/ \E c \in DOMAIN codes : \E verified, expired \in BOOLEAN : Redeem(q, c, verified, expired)
         \/ \E s \in DOMAIN logins : \E m \in {0} \cup DOMAIN accounts : Unlink(q, s, m)

IdentitySpec == IdentityInit /\ [][IdentityNext]_identityVars

(***************************************************************************)
(* Properties.                                                             *)
(***************************************************************************)
FlowType == [browser : Browsers, user : Users \cup {NoUser}, ses : Nat, rows : Nat, logins : Nat,
             touched : SUBSET Nat, back : {"no", "ok", "error", "over"}, there : BOOLEAN]
SlotPcs == {"idle", "refused", "linked", "hold", "code", "who", "rows", "holds", "drop", "dropRow",
            "release", "refuse", "grant", "lock", "methods", "delete"}

\* Every variable has its type, and what is named in a cookie or a hold was created.
IdentityTypeOK ==
    /\ passwords \subseteq known /\ known \subseteq Users /\ dropped \subseteq known
    /\ accounts \in Seq([user : known, identity : Identities, there : BOOLEAN])
    /\ logins \in Seq([user : known, live : BOOLEAN, via : {0} \cup DOMAIN accounts, held : BOOLEAN])
    /\ tickets \subseteq DOMAIN logins
    /\ flows \in Seq(FlowType) /\ proven \subseteq DOMAIN accounts
    /\ holds \subseteq [row : DOMAIN accounts, by : DOMAIN flows, late : BOOLEAN]
    /\ codes \in Seq([ses : DOMAIN logins, row : {0} \cup DOMAIN accounts, flow : DOMAIN flows,
                      there : BOOLEAN, granted : Nat])
    /\ cookie \in [Browsers -> {0} \cup DOMAIN flows] /\ jar \in [Browsers -> {0} \cup DOMAIN logins]
    /\ slot \in [Slots -> [pc : SlotPcs, flow : {0} \cup DOMAIN flows, row : {0} \cup DOMAIN accounts,
                 rows : SUBSET DOMAIN accounts, ses : {0} \cup DOMAIN logins, code : {0} \cup DOMAIN codes,
                 ok : BOOLEAN]]

\* "The user must keep at least one way in": however unlinks and links interleave,
\* everybody has a method, unless a link that was never proven was removed.
KeepsAMethod == \A u \in known \ dropped : Methods(u) # {}

\* "Removing the last way to log in is refused", so nobody is without one.
LastMethodStays == \A u \in known : Methods(u) # {}

\* "A link ticket can be opened by any browser, so only redemption proves": a link
\* whose code was handed out is held until it is proven or removed.
HeldUntilProven == \A c \in DOMAIN codes :
    codes[c].row \in Rows \ proven => Held(codes[c].row)

\* "Never sign in through a link nobody has proven yet": a sign-in that came through
\* a held link that is still there is not handed a code before the link is proven.
HeldSignsInNobody ==
    [][\A q \in Slots : LET login == logins[slot[q].ses] IN
         CreateCode(q) /\ flows[slot[q].flow].ses = 0 /\ login.held
           => login.via \in proven \/ login.via \notin Rows]_identityVars

\* Both: a link that nobody has proven stays held, and signs in nobody.
UnprovenStaysOut == []HeldUntilProven /\ HeldSignsInNobody

\* "Every flow artefact is single-use": a flow yields one code at most, and a code
\* one session response, whatever is reloaded or sent twice.
SingleUse ==
    /\ \A c \in DOMAIN codes : codes[c].granted <= 1
    /\ \A c, d \in DOMAIN codes : codes[c].flow = codes[d].flow => c = d
=============================================================================
