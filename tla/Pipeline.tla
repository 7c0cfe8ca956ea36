-------------------------------- MODULE Pipeline --------------------------------
(***************************************************************************)
(* The way of a request through the router of apis/base.ts: CORS, the      *)
(* account of its token, the limit of its body, a guard, its handler and   *)
(* the log.  What is kept in the store of a request is kept in the one     *)
(* store of the router (Elysia's), which all requests share.  At the end   *)
(* the limits of how often one may ask.                                    *)
(*                                                                         *)
(* An origin or a host is its labels from the right, with a scheme; a body *)
(* is the sizes of its chunks.  Tokens are verified while others run.      *)
(***************************************************************************)
EXTENDS Integers, Sequences, FiniteSets

CONSTANTS Visitors,       \* requests that may be under way at once
          Visits,         \* the requests that are made
          Payloads,       \* what valid tokens say: token -> [id, collection]
          AllowOrigins,   \* origins that are allowed, [scheme, labels] or Anything, in order
          Anything,
          OriginPatterns, \* origins that the pattern of one of them matches
          OriginFunc,     \* the origins that allowOriginFunc allows, or NoAccount
          Credentials,    \* allowCredentials, and with it unsafeWildcardOriginWithAllowCredentials
          Certificates,   \* certificateDomains: the hosts that are served
          MaxBody,
          MaxVisits,
          NoAccount          \* no account, no origin
ASSUME VisitBounds ==
    /\ MaxBody \in Nat /\ MaxVisits \in Nat /\ Certificates \subseteq Seq(STRING)
    /\ \A visit \in Visits :
          visit.body \in Seq(Nat) /\ visit.guard \in {"open", "ui", "guest", "auth", "superuser", "owner", "collection"}

VARIABLES stored,         \* auth and skip of the store
          visiting,       \* where each request is
          journal,        \* the log
          visits          \* how many were made
pipelineVars == <<stored, visiting, journal, visits>>

Superusers == "_superusers"
NotYet == [pc |-> "idle"]

PipelineInit ==
    stored = [auth |-> NoAccount, skip |-> FALSE] /\ visiting = [v \in Visitors |-> NotYet] /\ journal = <<>> /\ visits = 0

Is(v, pc) == visiting[v].pc = pc
Move(v, pc) == visiting' = [visiting EXCEPT ![v].pc = pc]
\* An answer, or the error that is thrown, which panicRecover makes a 500 before it is logged; what
\* does not fail is logged unless the store says to skip it.
Logged(v, failed) == failed \/ ~stored.skip
Reply(v, status, failed) ==
    /\ visiting' = [visiting EXCEPT ![v].pc = "answered", ![v].status = status]
    /\ journal' = IF Logged(v, failed)
                  THEN Append(journal, [number |-> visiting[v].number, status |-> IF failed THEN 500 ELSE status,
                                        auth |-> stored.auth])
                  ELSE journal
    /\ UNCHANGED <<stored, visits>>

(* -------- CORS, redirects and headers -------- *)
\* The labels of an origin, from the right, are those of what is allowed until one of them ends or a
\* "*" stands for the rest.
MatchSubdomain(origin, allowed) ==
    LET star == {i \in DOMAIN allowed.labels : allowed.labels[i] = "*"} IN
    /\ origin.scheme = allowed.scheme
    /\ \A i \in DOMAIN origin.labels :
         \/ \E j \in star : j <= i
         \/ i \in DOMAIN allowed.labels /\ allowed.labels[i] = origin.labels[i]
\* A resolver decides alone; else the first that allows an origin says what is answered, or a pattern.
AllowOrigin(origin) ==
    LET allows(i) == AllowOrigins[i] = Anything \/ MatchSubdomain(origin, AllowOrigins[i])
        able == {i \in DOMAIN AllowOrigins : allows(i)} IN
    IF OriginFunc # NoAccount THEN IF origin \in OriginFunc THEN "own" ELSE "refused"
    ELSE IF able = {} THEN IF origin \in OriginPatterns THEN "own" ELSE "refused"
    ELSE IF AllowOrigins[CHOOSE i \in able : \A j \in able : i <= j] = Anything /\ ~Credentials THEN "*" ELSE "own"

\* The hosts that get a www. before them, unless that is served itself.
RedirectHosts ==
    {Append(host, "www") : host \in {h \in Certificates : h[Len(h)] # "www" /\ Append(h, "www") \notin Certificates}}
\* www. is led to the host without it.
WwwRedirect(labels) == IF labels \in RedirectHosts THEN SubSeq(labels, 1, Len(labels) - 1) ELSE labels

ArriveVisit(v, visit) ==
    /\ visits < MaxVisits /\ visiting[v].pc \in {"idle", "answered"} /\ visits' = visits + 1
    /\ visiting' = [visiting EXCEPT ![v] =
                      [pc |-> "cors", number |-> visits + 1, visit |-> visit, status |-> 0, allow |-> "none",
                       seen |-> NoAccount, read |-> 0, chunk |-> 0]]
    /\ UNCHANGED <<stored, journal>>

\* A preflight is answered here, and nothing else happens to it.
Cors(v) ==
    LET visit == visiting[v].visit
        allow == IF visit.origin = NoAccount THEN "none" ELSE AllowOrigin(visit.origin) IN
    /\ Is(v, "cors") /\ UNCHANGED <<stored, journal, visits>>
    /\ visiting' = [visiting EXCEPT ![v].allow = allow, ![v].pc = IF visit.preflight THEN "answered" ELSE "load",
                                    ![v].status = IF visit.preflight THEN 204 ELSE 0]

(* -------- the account -------- *)
TokenOf(v) == visiting[v].visit.token
Valid(token) == token \in DOMAIN Payloads
\* An account that is in the store stays there; another is verified first.
Onward(v) == IF visiting[v].visit.guard = "ui" THEN "skip" ELSE "limit"
LoadAuthToken(v) ==
    /\ Is(v, "load") /\ Move(v, IF stored.auth # NoAccount \/ TokenOf(v) = "" THEN Onward(v) ELSE "verify")
    /\ UNCHANGED <<stored, journal, visits>>
AuthLoaded(v) ==
    /\ Is(v, "verify") /\ Move(v, Onward(v)) /\ UNCHANGED <<journal, visits>>
    /\ stored' = IF Valid(TokenOf(v)) THEN [stored EXCEPT !.auth = TokenOf(v)] ELSE stored

\* Requests of the UI's extensions ask not to be logged.
SkipSuccessActivityLog(v) ==
    /\ Is(v, "skip") /\ stored' = [stored EXCEPT !.skip = TRUE]
    /\ Move(v, "limit") /\ UNCHANGED <<journal, visits>>

(* -------- guards -------- *)
\* What a guard answers once the token is verified: 200 to go on.
GuardAnswer(visit) ==
    LET token == visit.token
        payload == Payloads[token] IN
    CASE visit.guard \in {"open", "ui"} -> 200
      [] visit.guard = "guest" -> IF Valid(token) THEN 400 ELSE 200
      [] visit.guard \in {"auth", "superuser", "owner", "collection"} ->
           IF ~Valid(token) THEN 401
           ELSE IF \/ visit.guard = "superuser" /\ payload.collection # Superusers
                   \/ visit.guard = "owner" /\ payload.collection # Superusers /\ payload.id # visit.of
                   \/ visit.guard = "collection" /\ payload.collection # visit.of
           THEN 403 ELSE 200
\* A guard that has a valid token leaves its account in the store, whatever it answers.
Guarded(v) ==
    LET visit == visiting[v].visit
        answer == GuardAnswer(visit) IN
    /\ Is(v, "guard")
    /\ IF answer = 200 THEN Move(v, "handle") /\ UNCHANGED <<journal, visits>>
       ELSE Reply(v, answer, TRUE)
    /\ UNCHANGED stored
LoadGuarded(v) ==
    /\ Is(v, "limited") /\ Move(v, "guard") /\ UNCHANGED <<journal, visits>>
    /\ stored' = IF visiting[v].visit.guard \in {"auth", "superuser", "owner", "collection"} /\ Valid(TokenOf(v))
                 THEN [stored EXCEPT !.auth = TokenOf(v)] ELSE stored

(* -------- the body -------- *)
\* A body that says it is too long is refused at once.
BodyLimit(v) ==
    /\ Is(v, "limit")
    /\ IF visiting[v].visit.length > MaxBody THEN Reply(v, 413, TRUE)
       ELSE Move(v, "limited") /\ UNCHANGED <<stored, journal, visits>>
\* Others are when they turn out to be, chunk after chunk.
ReadChunk(v) ==
    LET visit == visiting[v].visit
        next == visiting[v].chunk + 1 IN
    /\ Is(v, "handle") /\ next \in DOMAIN visit.body
    /\ IF visiting[v].read + visit.body[next] > MaxBody THEN Reply(v, 413, TRUE)
       ELSE /\ visiting' = [visiting EXCEPT ![v].read = @ + visit.body[next], ![v].chunk = next]
            /\ UNCHANGED <<stored, journal, visits>>
\* The handler sees the account in the store.
HandleVisit(v) ==
    /\ Is(v, "handle") /\ visiting[v].chunk = Len(visiting[v].visit.body)
    /\ visiting' = [visiting EXCEPT ![v].pc = "done", ![v].seen = stored.auth] /\ UNCHANGED <<stored, journal, visits>>
ActivityLogger(v) == Is(v, "done") /\ Reply(v, 200, FALSE)

PipelineNext ==
    \E v \in Visitors :
      \/ \E visit \in Visits : ArriveVisit(v, visit)
      \/ Cors(v) \/ LoadAuthToken(v) \/ AuthLoaded(v) \/ SkipSuccessActivityLog(v) \/ BodyLimit(v) \/ LoadGuarded(v)
      \/ Guarded(v) \/ ReadChunk(v) \/ HandleVisit(v) \/ ActivityLogger(v)

PipelineSpec == PipelineInit /\ [][PipelineNext]_pipelineVars

PipelineTypeOK == visits \in 0..MaxVisits /\ stored.auth \in DOMAIN Payloads \cup {NoAccount} /\ stored.skip \in BOOLEAN

(* -------- properties -------- *)
Replied(v, status) == Is(v, "answered") /\ visiting[v].status = status

\* Whoever else is in the store, a guard lets through what the request's own token allows.
GuardsDecideAlone ==
    \A v \in Visitors : visiting[v].pc \in {"handle", "done"} \/ Replied(v, 200) =>
        LET visit == visiting[v].visit IN
        /\ visit.guard \in {"auth", "superuser", "owner", "collection"} => Valid(visit.token)
        /\ visit.guard = "superuser" => Payloads[visit.token].collection = Superusers
        /\ visit.guard = "guest" => ~Valid(visit.token)

\* How long each beginning of a body is.
SizeOf(body) ==
    LET size[i \in 0..Len(body)] == IF i = 0 THEN 0 ELSE size[i - 1] + body[i] IN size

\* No handler gets more of a body than the limit, whatever the length that is given, and every body
\* within it gets through whole.
BodiesWithinLimit ==
    \A v \in Visitors : ~Is(v, "idle") =>
        LET whole == SizeOf(visiting[v].visit.body)[Len(visiting[v].visit.body)] IN
        /\ visiting[v].read <= MaxBody
        /\ Replied(v, 413) => whole > MaxBody \/ visiting[v].visit.length > MaxBody
        /\ Replied(v, 200) => visiting[v].read = whole

\* A request that fails is logged once, another at most once, and a preflight never.
LoggedOnce ==
    \A v \in Visitors : ~Is(v, "idle") =>
        LET entries == {i \in DOMAIN journal : journal[i].number = visiting[v].number} IN
        /\ Cardinality(entries) <= 1
        /\ Is(v, "answered") /\ visiting[v].status >= 400 => entries # {}
        /\ visiting[v].visit.preflight => entries = {}

\* A host that is led elsewhere is led to one that is served, and no host that is served is led away.
RedirectsSettle ==
    /\ \A host \in RedirectHosts : WwwRedirect(host) \in Certificates
    /\ \A host \in Certificates : WwwRedirect(host) = host

\* "auth" of a request's store is the account of its own token: false, as the store is the router's,
\* and what the first account left there is what later requests see.
SeesOwnAccount == \A v \in Visitors : Is(v, "done") => visiting[v].seen \in {TokenOf(v), NoAccount}
\* A request that succeeds is logged: false once one has asked not to be.
SuccessIsLogged ==
    \A v \in Visitors : Replied(v, 200) /\ visiting[v].visit.guard # "ui" =>
        \E i \in DOMAIN journal : journal[i].number = visiting[v].number
(***************************************************************************)
(* The two rate limiters, each for one key: the server's buckets of tokens *)
(* (src/apis/middlewares_rate_limit.ts), and the counters of the edge      *)
(* functions (src/plugins/drop-functions/middleware.ts).  Keys share       *)
(* nothing.  Both run without interruption.                                *)
(***************************************************************************)
CONSTANTS
    MaxAllowed,  \* tokens of a window
    Interval,     \* length of a window
    MinElapsed,   \* minDeleteInterval
    MaxTime       \* bound of the clock

ASSUME LimitBounds ==
    MaxAllowed \in Nat \ {0} /\ Interval \in Nat \ {0} /\ MinElapsed \in Nat /\ MaxTime \in Nat

VARIABLES
    now,      \* the clock
    rateClient,   \* the RateClient: available tokens and start of the window, or None
    entry,    \* the RateLimitEntry: count and resetAt, or None
    passed    \* history: the times at which each limiter let how many requests pass

limitVars == <<now, rateClient, entry, passed>>

None == [none |-> TRUE]
Limiters == {"server", "functions"}
Times == 0..MaxTime

LimitInit ==
    /\ now = 0 /\ rateClient = None /\ entry = None
    /\ passed = [l \in Limiters |-> [t \in Times |-> 0]]

Pass(l) == passed' = [passed EXCEPT ![l][now] = @ + 1]

\* The window has passed.
Over(start) == now - start >= Interval

\* Mutant: a token is taken whether there is one or not.
Consume_Overdraws ==
    LET fresh == [available |-> MaxAllowed, start |-> now]
        b == IF rateClient = None \/ Over(rateClient.start) THEN fresh ELSE rateClient
    IN /\ rateClient' = [b EXCEPT !.available = @ - 1]
       /\ IF b.available > 0 THEN Pass("server") ELSE UNCHANGED passed
       /\ UNCHANGED <<now, entry>>
\* RateLimiter.isAllowed with RateClient.consume.
Consume ==
    LET fresh == [available |-> MaxAllowed, start |-> now]
        b == IF rateClient = None \/ Over(rateClient.start) THEN fresh ELSE rateClient
    IN /\ IF b.available > 0
          THEN rateClient' = [b EXCEPT !.available = @ - 1] /\ Pass("server")
          ELSE rateClient' = b /\ UNCHANGED passed
       /\ UNCHANGED <<now, entry>>

\* hasExpired: the window ended longer ago than that.
HasExpired(start) == now - (start + Interval) > MinElapsed

\* RateLimiter.clean, every half hour.
Clean ==
    /\ rateClient # None /\ HasExpired(rateClient.start)
    /\ rateClient' = None
    /\ UNCHANGED <<now, entry, passed>>

\* checkRateLimit.  The count goes up for refused requests as well: once it is
\* above the limit it stays there.
CheckRateLimit ==
    /\ IF entry = None \/ now > entry.resetAt
       THEN entry' = [count |-> 1, resetAt |-> now + Interval] /\ Pass("functions")
       ELSE /\ entry' = [entry EXCEPT !.count = IF @ > MaxAllowed THEN @ ELSE @ + 1]
            /\ IF entry'.count > MaxAllowed THEN UNCHANGED passed ELSE Pass("functions")
    /\ UNCHANGED <<now, rateClient>>

\* The cleanup of the edge functions, every five minutes.
CleanEntries ==
    /\ entry # None /\ now > entry.resetAt
    /\ entry' = None
    /\ UNCHANGED <<now, rateClient, passed>>

Second == now < MaxTime /\ now' = now + 1 /\ UNCHANGED <<rateClient, entry, passed>>

LimitNext == Consume \/ Clean \/ CheckRateLimit \/ CleanEntries \/ Second

LimitSpec == LimitInit /\ [][LimitNext]_limitVars

\* Every variable has its type.
LimitTypeOK ==
    /\ now \in Times
    /\ rateClient \in {None} \cup [available : 0..MaxAllowed, start : Times]
    /\ entry \in {None} \cup [count : 1..MaxAllowed + 1, resetAt : Interval..MaxTime + Interval]
    /\ passed \in [Limiters -> [Times -> 0..2 * MaxAllowed]]

\* How many of the requests p were let pass before each time.
PassedBefore(p) ==
    LET before[t \in 0..MaxTime + 1] == IF t = 0 THEN 0 ELSE before[t - 1] + p[t - 1]
    IN before
\* And how many in the span of a window's length that begins at t.
SpanEnd(t) == IF t + Interval > MaxTime + 1 THEN MaxTime + 1 ELSE t + Interval
SpanOf(l, t) == PassedBefore(passed[l])[SpanEnd(t)] - PassedBefore(passed[l])[t]

\* No span as long as a window, wherever it starts, has more requests than the tokens
\* of two windows: cleaning and resets give nobody a third.
WindowBound == \A l \in Limiters, t \in Times : SpanOf(l, t) <= 2 * MaxAllowed
=================================================================================
