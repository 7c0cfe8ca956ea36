--------------------------- MODULE RefreshTokens ---------------------------
(***************************************************************************)
(* Refresh tokens, replay revocation, logout and account deletion of the   *)
(* better-auth sessions (src/tools/auth-better/refresh-tokens.ts), over a  *)
(* PostgreSQL at READ COMMITTED.                                           *)
(*                                                                         *)
(* Every HTTP request is a slot of Requests with the local variables of    *)
(* the handler and a pc naming the statement it runs next.  A statement    *)
(* outside a transaction takes effect in one step.  A transaction collects *)
(* row locks (heldT, heldS) and takes effect at its commit, so that nobody *)
(* sees it half done and a failed request leaves nothing behind.  A        *)
(* statement over many rows fixes the rows it wants at its start (the      *)
(* statement's snapshot), locks them one at a time, and then acts on those *)
(* still there.                                                            *)
(***************************************************************************)
EXTENDS Integers, Sequences, FiniteSets

CONSTANTS
    Users,
    Sessions,
    Owner,      \* the user each session row names
    Legacy,     \* sessions whose sign-in may predate opaque refresh tokens
    Requests,   \* slots for concurrent requests
    Kinds,      \* bound: the requests and faults an instance has
    MaxToken    \* bound: refresh tokens ever minted

ASSUME OwnerAssumption == Owner \in [Sessions -> Users]
ASSUME LegacyAssumption == Legacy \subseteq Sessions
ASSUME SomeSession == Sessions # {}
ASSUME KindsAssumption == Kinds \subseteq {"signIn", "issue", "exchange", "legacy",
    "logout", "delete", "fail", "tokenExpires", "sessionExpires"}

VARIABLES
    minted,      \* every refresh token ever inserted, in created_at order
    present,     \* ids of the rows now in refresh_tokens
    consumed, compromised, expired,
    recent,      \* rows inserted less than the reuse interval ago
    access,      \* version of each session's access token, 0 before sign-in
    live,        \* rows of the session table
    lapsed,      \* sessions whose expiresAt has passed
    gone,        \* users with deletedAt set
    req          \* the requests in progress, with their locals

tokenVars == <<minted, present, consumed, compromised, expired, recent>>
sessionVars == <<access, live, lapsed, gone>>
vars == <<tokenVars, sessionVars, req>>

Tokens == 1..Len(minted)
Scopes == {"global", "local", "others"}

\* Mutant: the new row names itself as its parent.
Mint_SelfParent(s, p) ==
    /\ minted' = Append(minted, [session |-> s, parent |-> Len(minted) + 1,
                    family |-> Len(minted) + 1, opaque |-> TRUE])
    /\ present' = present \cup {Len(minted) + 1}
    /\ recent' = recent \cup {Len(minted) + 1}

\* The new row's id is its place in minted; a root token names its own family.
Mint(s, p) ==
    /\ minted' = Append(minted, [session |-> s, parent |-> p,
                    family |-> IF p = 0 THEN Len(minted) + 1 ELSE minted[p].family,
                    opaque |-> TRUE])
    /\ present' = present \cup {Len(minted) + 1}
    /\ recent' = recent \cup {Len(minted) + 1}

Live(s) == s \in live /\ s \notin lapsed /\ Owner[s] \notin gone

Family(t) == {u \in present : minted[u].family = minted[t].family}
TokensOf(S) == {t \in present : minted[t].session \in S}
Usable(s) == TokensOf({s}) \ (consumed \cup compromised \cup expired)
\* The newest usable row of the session, 0 when there is none.
ActiveToken(s, a) == LET T == {0} \cup Usable(s) IN a \in T /\ \A u \in T : u <= a
Children(t) == {u \in present : minted[u].parent = t}

FreeToken(t, r) == \A q \in Requests \ {r} : t \notin req[q].heldT
FreeSession(s, r) == \A q \in Requests \ {r} : s \notin req[q].heldS

(***************************************************************************)
(* Local state of a request.                                               *)
(***************************************************************************)
Pcs == {"idle", "find", "claim", "rotate", "commit", "reuse", "judge",
        "lockFamily", "revokeFamily", "endSession", "bridge", "legacyFind",
        "legacyIssued", "issueFind", "issueActive", "issueInsert",
        "logoutFind", "logoutSessions", "logoutTokens", "deleteFind",
        "deleteTokens", "deleteSessions"}
Outs == {"none", "ok", "refused", "pair", "reusePair", "replay", "bridgeFailed", "noChild"}

Blank(s) == [pc |-> "idle", out |-> "none", tok |-> 0, ses |-> s, acc |-> 0,
             act |-> 0, seen |-> {}, scope |-> "global",
             heldT |-> {}, heldS |-> {}, wantT |-> {}, wantS |-> {}]

Busy(r) == req[r].pc # "idle"
At(r, l) == req[r].pc = l
Assign(r, x) == req' = [req EXCEPT ![r] = x]
Goto(r, l) == Assign(r, [req[r] EXCEPT !.pc = l])
NoSession == CHOOSE s \in Sessions : TRUE
\* The handler returns o; a pair stays readable in ses, acc and tok.
Finish(r, o) ==
    Assign(r, IF o \in {"pair", "reusePair"}
                THEN [Blank(req[r].ses) EXCEPT !.out = o, !.tok = req[r].act, !.acc = req[r].acc]
                ELSE [Blank(IF o \in {"replay", "bridgeFailed"} THEN req[r].ses ELSE NoSession)
                        EXCEPT !.out = o])
\* exchangeRefreshToken returned a pair: refreshTokenGrant looks its user up.
Bridge(r, a, t, o) ==
    Assign(r, [Blank(req[r].ses) EXCEPT !.pc = "bridge", !.out = o, !.acc = a, !.act = t])

\* Some of the legacy sessions have signed in before; one of them may have had a
\* refresh token row made of its session token.
Init ==
    /\ live \in SUBSET Legacy
    /\ minted \in {<<>>} \cup {<<[session |-> s, parent |-> 0, family |-> 1, opaque |-> FALSE]>> : s \in live}
    /\ present = 1..Len(minted)
    /\ consumed = {} /\ compromised = {} /\ expired = {} /\ recent = {}
    /\ access = [s \in Sessions |-> IF s \in live THEN 1 ELSE 0]
    /\ lapsed = {} /\ gone = {}
    /\ req = [r \in Requests |-> Blank(NoSession)]

(***************************************************************************)
(* Requests arrive.  Begin bounds the tokens: every request that may still *)
(* insert one has room for it.                                             *)
(***************************************************************************)
MayMint == {"find", "claim", "rotate", "commit", "legacyFind", "legacyIssued",
            "issueFind", "issueActive", "issueInsert"}
Room == Len(minted) + Cardinality({r \in Requests : req[r].pc \in MayMint}) < MaxToken

Begin(r, l, s, a, t, c) ==
    /\ ~Busy(r)
    /\ Assign(r, [Blank(s) EXCEPT !.pc = l, !.acc = a, !.tok = t, !.scope = c])

\* A sign-in: better-auth inserts the session, then its refresh token is read.
SignIn(r, s) ==
    /\ "signIn" \in Kinds
    /\ Room /\ access[s] = 0 /\ Owner[s] \notin gone
    /\ live' = live \cup {s}
    /\ access' = [access EXCEPT ![s] = 1]
    /\ Begin(r, "issueFind", s, 1, 0, "global")
    /\ UNCHANGED <<tokenVars, lapsed, gone>>

\* The authorization-code grant and the OAuth callback issue for a session again.
Issue(r, s) ==
    /\ "issue" \in Kinds
    /\ Room /\ access[s] > 0
    /\ Begin(r, "issueFind", s, access[s], 0, "global")
    /\ UNCHANGED <<tokenVars, sessionVars>>

Exchange(r, t) ==
    /\ "exchange" \in Kinds
    /\ Room
    /\ Begin(r, "find", minted[t].session, 0, t, "global")
    /\ UNCHANGED <<tokenVars, sessionVars>>

\* A session token presented as a refresh token names no row (177).
ExchangeLegacy(r, s) ==
    /\ "legacy" \in Kinds
    /\ Room /\ access[s] > 0
    /\ Begin(r, "legacyFind", s, access[s], 0, "global")
    /\ UNCHANGED <<tokenVars, sessionVars>>

Logout(r, s, c) ==
    /\ "logout" \in Kinds
    /\ access[s] > 0
    /\ Begin(r, "logoutFind", s, access[s], 0, c)
    /\ UNCHANGED <<tokenVars, sessionVars>>

DeleteUser(r, s) ==
    /\ "delete" \in Kinds
    /\ access[s] > 0
    /\ Begin(r, "deleteFind", s, access[s], 0, "global")
    /\ UNCHANGED <<tokenVars, sessionVars>>

(***************************************************************************)
(* exchangeRefreshToken and rotate.                                        *)
(***************************************************************************)
\* A deleted row's id is then tried as a session token, and matches none.
Find(r) == LET t == req[r].tok IN
    /\ At(r, "find")
    /\ IF t \notin present \/ t \in compromised \cup expired
         THEN Finish(r, "refused") ELSE Goto(r, "claim")
    /\ UNCHANGED <<tokenVars, sessionVars>>

\* Mutant: the claim does not ask whether the row is still unconsumed.
Claim_AnyRow(r) == LET t == req[r].tok IN
    /\ At(r, "claim") /\ FreeToken(t, r)
    /\ IF t \in present
         THEN Assign(r, [req[r] EXCEPT !.pc = "rotate", !.heldT = {t}])
         ELSE Goto(r, "reuse")
    /\ UNCHANGED <<tokenVars, sessionVars>>

\* Mutant: the claim is a statement of its own, outside the transaction.
Claim_Autocommit(r) == LET t == req[r].tok IN
    /\ At(r, "claim") /\ FreeToken(t, r)
    /\ IF t \in present \ consumed
         THEN /\ Assign(r, [req[r] EXCEPT !.pc = "rotate", !.heldT = {t}])
              /\ consumed' = consumed \cup {t}
         ELSE Goto(r, "reuse") /\ UNCHANGED consumed
    /\ UNCHANGED <<minted, present, compromised, expired, recent, sessionVars>>

\* The claiming UPDATE waits for the row lock and then sees consumed as committed.
Claim(r) == LET t == req[r].tok IN
    /\ At(r, "claim") /\ FreeToken(t, r)
    /\ IF t \in present \ consumed
         THEN Assign(r, [req[r] EXCEPT !.pc = "rotate", !.heldT = {t}])
         ELSE Goto(r, "reuse")
    /\ UNCHANGED <<tokenVars, sessionVars>>

\* Mutant: finding no session, the handler leaves its transaction open.
Rotate_Leak(r) == LET s == req[r].ses IN
    /\ At(r, "rotate") /\ FreeSession(s, r)
    /\ IF Live(s)
         THEN Assign(r, [req[r] EXCEPT !.pc = "commit", !.heldS = {s}])
         ELSE Goto(r, "idle")
    /\ UNCHANGED <<tokenVars, sessionVars>>

\* No session left to rotate: the transaction still commits the consumption.
Rotate(r) == LET s == req[r].ses IN
    /\ At(r, "rotate") /\ FreeSession(s, r)
    /\ IF Live(s)
         THEN /\ Assign(r, [req[r] EXCEPT !.pc = "commit", !.heldS = {s}])
              /\ UNCHANGED consumed
         ELSE /\ consumed' = consumed \cup {req[r].tok}
              /\ Finish(r, "refused")
    /\ UNCHANGED <<minted, present, compromised, expired, recent, sessionVars>>

CommitRotation(r) == LET t == req[r].tok  s == req[r].ses IN
    /\ At(r, "commit")
    /\ Mint(s, t)
    /\ consumed' = consumed \cup {t}
    /\ access' = [access EXCEPT ![s] = @ + 1]
    /\ Bridge(r, access[s] + 1, Len(minted) + 1, "pair")
    /\ UNCHANGED <<compromised, expired, live, lapsed, gone>>

\* refreshTokenGrant's lookup of the user by the new access token.
BridgeLookup(r) == LET s == req[r].ses IN
    /\ At(r, "bridge")
    /\ Finish(r, IF Live(s) /\ access[s] = req[r].acc THEN req[r].out ELSE "bridgeFailed")
    /\ UNCHANGED <<tokenVars, sessionVars>>

(***************************************************************************)
(* reuse: two reads on two connections, in either order, then the verdict. *)
(***************************************************************************)
Reads(r, what, a, acc) == LET seen == req[r].seen \cup {what} IN
    /\ At(r, "reuse") /\ what \notin req[r].seen
    /\ Assign(r, [req[r] EXCEPT !.act = a, !.acc = acc, !.seen = seen,
                                !.pc = IF seen = {"active", "session"} THEN "judge" ELSE "reuse"])
    /\ UNCHANGED <<tokenVars, sessionVars>>
ReadActive(r) == \E a \in 0..Len(minted) :
    ActiveToken(req[r].ses, a) /\ Reads(r, "active", a, req[r].acc)
ReadSession(r) == LET s == req[r].ses IN
    Reads(r, "session", req[r].act, IF Live(s) THEN access[s] ELSE 0)

\* reuseAllowed: the active token's parent, or a token consumed a moment ago.
Judge(r) == LET t == req[r].tok  a == req[r].act IN
    /\ At(r, "judge")
    /\ \/ /\ a # 0 /\ req[r].acc # 0
          /\ \/ /\ minted[a].parent = t
                /\ Bridge(r, req[r].acc, a, "reusePair")
             \/ /\ minted[a].parent # t /\ Children(t) = {}
                /\ Finish(r, "noChild")
             \/ /\ minted[a].parent # t /\ Children(t) \cap recent # {}
                /\ Bridge(r, req[r].acc, a, "reusePair")
             \/ /\ minted[a].parent # t /\ Children(t) \ recent # {}
                /\ Goto(r, "lockFamily")
       \/ (a = 0 \/ req[r].acc = 0) /\ Goto(r, "lockFamily")
    /\ UNCHANGED <<tokenVars, sessionVars>>

\* The family UPDATE takes its snapshot, waits for each row, then marks them.
LockFamily(r) ==
    /\ At(r, "lockFamily")
    /\ Assign(r, [req[r] EXCEPT !.pc = "revokeFamily", !.wantT = Family(req[r].tok)])
    /\ UNCHANGED <<tokenVars, sessionVars>>

RevokeFamily(r) ==
    /\ At(r, "revokeFamily") /\ req[r].wantT \subseteq req[r].heldT
    /\ compromised' = compromised \cup (req[r].wantT \cap present)
    /\ Assign(r, [req[r] EXCEPT !.pc = "endSession", !.wantT = {}, !.heldT = {}])
    /\ UNCHANGED <<minted, present, consumed, expired, recent, sessionVars>>

\* Mutant: a replay revokes the family and leaves the session.
EndSession_Keep(r) ==
    /\ At(r, "endSession") /\ FreeSession(req[r].ses, r)
    /\ Finish(r, "replay")
    /\ UNCHANGED <<tokenVars, sessionVars>>

EndSession(r) == LET s == req[r].ses IN
    /\ At(r, "endSession") /\ FreeSession(s, r)
    /\ live' = live \ {s}
    /\ Finish(r, "replay")
    /\ UNCHANGED <<tokenVars, access, lapsed, gone>>

(***************************************************************************)
(* refreshTokenForSession and the legacy exchange.                         *)
(***************************************************************************)
Current(r) == Live(req[r].ses) /\ access[req[r].ses] = req[r].acc

IssueFind(r) ==
    /\ At(r, "issueFind")
    /\ IF Current(r) THEN Goto(r, "issueActive") ELSE Finish(r, "refused")
    /\ UNCHANGED <<tokenVars, sessionVars>>

\* A sign-in returns the pair; a legacy exchange goes on to the bridge.
Answer(r, t) ==
    IF req[r].out = "pair" THEN Bridge(r, req[r].acc, t, "pair") ELSE Finish(r, "ok")

IssueActive(r) ==
    /\ At(r, "issueActive")
    /\ \E a \in 0..Len(minted) :
         /\ ActiveToken(req[r].ses, a)
         /\ IF a = 0 THEN Goto(r, "issueInsert") ELSE Answer(r, a)
    /\ UNCHANGED <<tokenVars, sessionVars>>

IssueInsert(r) ==
    /\ At(r, "issueInsert")
    /\ Mint(req[r].ses, 0)
    /\ Answer(r, Len(minted) + 1)
    /\ UNCHANGED <<consumed, compromised, expired, sessionVars>>

LegacyFind(r) ==
    /\ At(r, "legacyFind")
    /\ IF Current(r) THEN Goto(r, "legacyIssued") ELSE Finish(r, "refused")
    /\ UNCHANGED <<tokenVars, sessionVars>>

LegacyIssued(r) ==
    /\ At(r, "legacyIssued")
    /\ IF \E t \in TokensOf({req[r].ses}) : minted[t].opaque
         THEN Finish(r, "refused")
         ELSE Assign(r, [req[r] EXCEPT !.pc = "issueFind", !.out = "pair"])
    /\ UNCHANGED <<tokenVars, sessionVars>>

(***************************************************************************)
(* Row locks of a statement over many rows.                                *)
(***************************************************************************)
LockToken(r, t) ==
    /\ t \in req[r].wantT \ req[r].heldT /\ FreeToken(t, r)
    /\ Assign(r, [req[r] EXCEPT !.heldT = @ \cup {t}])
    /\ UNCHANGED <<tokenVars, sessionVars>>
LockSession(r, s) ==
    /\ s \in req[r].wantS \ req[r].heldS /\ FreeSession(s, r)
    /\ Assign(r, [req[r] EXCEPT !.heldS = @ \cup {s}])
    /\ UNCHANGED <<tokenVars, sessionVars>>
Locked(r) == req[r].wantT \subseteq req[r].heldT /\ req[r].wantS \subseteq req[r].heldS

(***************************************************************************)
(* revokeSessions: sessions first, then their tokens, one transaction.     *)
(***************************************************************************)
SessionsOf(u) == {s \in live : Owner[s] = u}
InScope(s, c) == CASE c = "global" -> SessionsOf(Owner[s])
                   [] c = "local"  -> SessionsOf(Owner[s]) \cap {s}
                   [] c = "others" -> SessionsOf(Owner[s]) \ {s}

LogoutFind(r) ==
    /\ At(r, "logoutFind")
    /\ IF Current(r)
         THEN Assign(r, [req[r] EXCEPT !.pc = "logoutSessions",
                                       !.wantS = InScope(req[r].ses, req[r].scope)])
         ELSE Finish(r, "refused")
    /\ UNCHANGED <<tokenVars, sessionVars>>

\* Nothing revoked: the transaction ends without touching the tokens.
LogoutSessions(r) == LET revoked == req[r].heldS \cap live IN
    /\ At(r, "logoutSessions") /\ Locked(r)
    /\ IF revoked = {} THEN Finish(r, "ok")
                       ELSE Assign(r, [req[r] EXCEPT !.pc = "logoutTokens",
                                                     !.wantT = TokensOf(revoked)])
    /\ UNCHANGED <<tokenVars, sessionVars>>

CommitLogout(r) ==
    /\ At(r, "logoutTokens") /\ Locked(r)
    /\ live' = live \ req[r].heldS
    /\ present' = present \ req[r].heldT
    /\ Finish(r, "ok")
    /\ UNCHANGED <<minted, consumed, compromised, expired, recent, access, lapsed, gone>>

(***************************************************************************)
(* deleteSessionUser and tombstoneUser: the user row and the caller's      *)
(* session row are locked first, then the tokens go before the sessions.   *)
(***************************************************************************)
FreeUser(u, r) == \A q \in Requests \ {r} :
    req[q].pc \in {"deleteTokens", "deleteSessions"} => Owner[req[q].ses] # u

\* Refused when the session ended meanwhile, or signed in too long ago.
DeleteFind(r) == LET s == req[r].ses IN
    /\ At(r, "deleteFind") /\ FreeUser(Owner[s], r) /\ FreeSession(s, r)
    /\ \/ Finish(r, "refused")
       \/ /\ Current(r)
          /\ Assign(r, [req[r] EXCEPT !.pc = "deleteTokens", !.heldS = {s},
                !.wantT = {t \in present : Owner[minted[t].session] = Owner[s]}])
    /\ UNCHANGED <<tokenVars, sessionVars>>

DeleteTokens(r) ==
    /\ At(r, "deleteTokens") /\ Locked(r)
    /\ Assign(r, [req[r] EXCEPT !.pc = "deleteSessions", !.wantS = SessionsOf(Owner[req[r].ses])])
    /\ UNCHANGED <<tokenVars, sessionVars>>

CommitDelete(r) ==
    /\ At(r, "deleteSessions") /\ Locked(r)
    /\ present' = present \ req[r].heldT
    /\ live' = live \ req[r].heldS
    /\ gone' = gone \cup {Owner[req[r].ses]}
    /\ Finish(r, "ok")
    /\ UNCHANGED <<minted, consumed, compromised, expired, recent, access, lapsed>>

(***************************************************************************)
(* Failures and time.                                                      *)
(***************************************************************************)
\* The server dies or its connection is lost: PostgreSQL rolls back.
Fail(r) == "fail" \in Kinds /\ Busy(r) /\ Finish(r, "refused") /\ UNCHANGED <<tokenVars, sessionVars>>

WaitsFor(r, q) ==
    LET t == IF At(r, "claim") THEN {req[r].tok} ELSE req[r].wantT \ req[r].heldT
        s == IF req[r].pc \in {"rotate", "endSession", "deleteFind"} THEN {req[r].ses} ELSE req[r].wantS \ req[r].heldS
    IN q # r /\ (t \cap req[q].heldT # {} \/ s \cap req[q].heldS # {})

\* PostgreSQL's deadlock detector aborts one transaction of a cycle of waits.
DeadlockAbort(r) ==
    /\ \E C \in SUBSET Requests :
         r \in C /\ \A q \in C : (\E p \in C : WaitsFor(q, p)) /\ (\E p \in C : WaitsFor(p, q))
    /\ Finish(r, "refused")
    /\ UNCHANGED <<tokenVars, sessionVars>>

\* Rows age in the order they were created.
IntervalPasses(t) ==
    /\ t \in recent /\ \A u \in recent : t <= u
    /\ recent' = recent \ {t}
    /\ UNCHANGED <<minted, present, consumed, compromised, expired, sessionVars, req>>
TokenExpires(t) ==
    /\ "tokenExpires" \in Kinds
    /\ t \notin recent \cup expired /\ \A u \in Tokens \ expired : t <= u
    /\ expired' = expired \cup {t}
    /\ UNCHANGED <<minted, present, consumed, compromised, recent, sessionVars, req>>
SessionExpires(s) ==
    /\ "sessionExpires" \in Kinds
    /\ s \in live \ lapsed /\ lapsed' = lapsed \cup {s}
    /\ UNCHANGED <<tokenVars, access, live, gone, req>>

Arrive(r) ==
    \/ \E s \in Sessions : SignIn(r, s) \/ Issue(r, s) \/ ExchangeLegacy(r, s) \/ DeleteUser(r, s)
    \/ \E s \in Sessions, c \in Scopes : Logout(r, s, c)
    \/ \E t \in Tokens : Exchange(r, t)

\* What the server and PostgreSQL do for a request that is in progress.
Serve(r) ==
    \/ Find(r) \/ Claim(r) \/ Rotate(r) \/ CommitRotation(r) \/ BridgeLookup(r)
    \/ ReadActive(r) \/ ReadSession(r) \/ Judge(r)
    \/ LockFamily(r) \/ RevokeFamily(r) \/ EndSession(r)
    \/ IssueFind(r) \/ IssueActive(r) \/ IssueInsert(r) \/ LegacyFind(r) \/ LegacyIssued(r)
    \/ LogoutFind(r) \/ LogoutSessions(r) \/ CommitLogout(r)
    \/ DeleteFind(r) \/ DeleteTokens(r) \/ CommitDelete(r)
    \/ \E t \in Tokens : LockToken(r, t)
    \/ \E s \in Sessions : LockSession(r, s)
    \/ DeadlockAbort(r)

Environment ==
    \/ \E t \in Tokens : IntervalPasses(t) \/ TokenExpires(t)
    \/ \E s \in Sessions : SessionExpires(s)

Next ==
    \/ \E r \in Requests : Arrive(r) \/ Serve(r) \/ Fail(r)
    \/ Environment

Spec == Init /\ [][Next]_vars
\* The event loop runs what can run, and PostgreSQL queues the waiters of a row
\* lock, so a request whose turn comes again and again is served.
FairSpec == Spec /\ \A r \in Requests : SF_vars(Serve(r))

(***************************************************************************)
(* The register of families that the rows amount to.  A revocation ends no *)
(* family here: the claim does not ask whether its row is compromised.     *)
(***************************************************************************)
Families == {minted[t].family : t \in Tokens}
InForce == [f \in Families |-> {t \in present \ consumed : minted[t].family = f}]
Register == INSTANCE TokenRegister WITH issued <- Len(minted), inForce <- InForce

(***************************************************************************)
(* Properties.                                                             *)
(***************************************************************************)
TokenPcs == {"find", "claim", "rotate", "commit", "reuse", "judge", "lockFamily"}
\* A request's locals when n tokens have been minted.
RequestType(n) ==
    {q \in [pc : Pcs, out : Outs, tok : 0..n, ses : Sessions, acc : Nat, act : 0..n,
            seen : SUBSET {"active", "session"}, scope : Scopes,
            heldT : SUBSET (1..n), heldS : SUBSET Sessions,
            wantT : SUBSET (1..n), wantS : SUBSET Sessions] :
        q.pc \in TokenPcs => q.tok # 0}

\* Every variable has its type; a token's parent and family are older tokens.
TypeOK ==
    /\ minted \in Seq([session : Sessions, parent : Nat, family : Nat, opaque : BOOLEAN])
    /\ \A t \in Tokens : minted[t].parent < t /\ minted[t].family \in 1..t
    /\ present \subseteq Tokens /\ consumed \subseteq Tokens /\ compromised \subseteq Tokens
    /\ expired \subseteq Tokens /\ recent \subseteq Tokens
    /\ access \in [Sessions -> Nat]
    /\ live \subseteq Sessions /\ lapsed \subseteq Sessions /\ gone \subseteq Users
    /\ req \in [Requests -> RequestType(Len(minted))]

\* Rotation is linear: however refreshes race, a token has at most one
\* successor and a family at most one token nobody has consumed (rotate's
\* claim under the row lock, "an allowed reuse never forks a new token").
RotationIsLinear ==
    /\ \A u, v \in Tokens : minted[u].parent = minted[v].parent /\ minted[u].parent # 0 => u = v
    /\ \A u, v \in Tokens \ consumed : minted[u].family = minted[v].family => u = v

\* The rows implement TokenRegister: whatever races, fails or ends (rotate and
\* insertToken), a token starts a family or takes the place of the only one of
\* its family that could still be rotated, and a family that has ended stays so.
FamiliesAreRegisters == Register!RegisterSpec

\* What reuseAllowed relies on: the consumed token of a live session has a child.
ConsumedHasChild ==
    \A t \in present \cap consumed : Live(minted[t].session) => Children(t) # {}

\* A request that answered a replay has ended the session, whatever refreshes,
\* sign-ins and logouts ran beside it.
ReplayEndsSession == \A r \in Requests : req[r].out = "replay" => ~Live(req[r].ses)

\* A refresh answers a pair that belongs together: as long as its access token
\* is the session's current one, nobody has consumed its refresh token.
PairBelongsTogether == \A r \in Requests :
    LET q == req[r] IN
    q.pc = "idle" /\ q.out = "pair" /\ Live(q.ses) /\ access[q.ses] = q.acc => q.tok \notin consumed

\* Both: what a reuse finds, and what a refresh answers.
PairsFollow == ConsumedHasChild /\ PairBelongsTogether

\* The same for a pair that a reuse answers: the "session's current pair".
ReusePairIsCurrent == \A r \in Requests :
    LET q == req[r] IN
    q.pc = "idle" /\ q.out = "reusePair" /\ Live(q.ses) /\ access[q.ses] = q.acc => q.tok \notin consumed

\* A revoked family's session has ended, unless the request revoking it is still at it.
RevocationEndsSession == \A t \in present \cap compromised :
    Live(minted[t].session) =>
      \E r \in Requests : req[r].pc = "endSession" /\ req[r].ses = minted[t].session

\* Every request is answered: no cycle of row locks and no leaked transaction
\* keeps it waiting for ever.
EveryRequestAnswers == \A r \in Requests : Busy(r) ~> ~Busy(r)
=============================================================================
