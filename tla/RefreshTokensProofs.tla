------------------------ MODULE RefreshTokensProofs ------------------------
(* Theorems about RefreshTokens for any users, sessions and requests.      *)
EXTENDS RefreshTokens, SequenceTheorems, TLAPS

\* The part of the invariant that makes RotationIsLinear inductive: row locks
\* exclude each other, a request past its claim holds the lock of an unconsumed
\* row that is still there, and whatever has a child is consumed.
ClaimInv ==
    /\ \A q, r \in Requests : q # r => req[q].heldT \cap req[r].heldT = {}
    /\ \A r \in Requests : req[r].pc \in {"rotate", "commit"} =>
         req[r].tok \in req[r].heldT \cap (present \ consumed)
    /\ \A t \in Tokens : minted[t].parent # 0 => minted[t].parent \in consumed

Inv == TypeOK /\ ClaimInv /\ RotationIsLinear

Updates(r, n) == \E x \in RequestType(n) : Assign(r, x)

\* A step that leaves r without a claim, or with one ClaimInv allows.
Harmless(r) ==
  \E x \in RequestType(Len(minted)) :
     /\ Assign(r, x)
     /\ \A q \in Requests \ {r} : x.heldT \cap req[q].heldT = {}
     /\ x.pc \in {"rotate", "commit"} => x.tok \in x.heldT \cap (present \ consumed)

\* r gives up its locks and its claim.
Releases(r, n) == \E x \in RequestType(n) :
     Assign(r, x) /\ x.heldT = {} /\ x.pc \notin {"rotate", "commit"}

\* A step that inserts no row and consumes no token.
OnlyRemoves ==
    /\ UNCHANGED <<minted, consumed, expired, recent, lapsed>>
    /\ present' \subseteq present /\ compromised' \subseteq Tokens
    /\ access' \in [Sessions -> Nat] /\ live' \subseteq Sessions /\ gone' \subseteq Users

\* Nobody holds the lock of a row that the step removes.
RemovedAreFree == \A q \in Requests : req'[q].heldT \cap (present \ present') = {}

USE DEF tokenVars, sessionVars, vars, Assign

(***************************************************************************)
(* Locals: what the handlers write into a request's record.                *)
(***************************************************************************)
\* The records the handlers write.
WithWantS(x, l, S) == [x EXCEPT !.pc = l, !.wantS = S]
WithWantT(x, l, W) == [x EXCEPT !.pc = l, !.wantT = W]
WithDelete(x, l, S, W) == [x EXCEPT !.pc = l, !.heldS = S, !.wantT = W]
WithRevoked(x, l, W, H) == [x EXCEPT !.pc = l, !.wantT = W, !.heldT = H]
WithOut(x, l, o) == [x EXCEPT !.pc = l, !.out = o]
WithPc(x, l) == [x EXCEPT !.pc = l]
WithClaim(x, l, H) == [x EXCEPT !.pc = l, !.heldT = H]
WithHeldS(x, l, S) == [x EXCEPT !.pc = l, !.heldS = S]
WithReads(x, a, b, S, l) == [x EXCEPT !.act = a, !.acc = b, !.seen = S, !.pc = l]
WithBridge(x, l, o, a, t) == [x EXCEPT !.pc = l, !.out = o, !.acc = a, !.act = t]
WithLocks(x, H) == [x EXCEPT !.heldT = H]
WithRows(x, S) == [x EXCEPT !.heldS = S]
WithAnswer(x, o) == [x EXCEPT !.out = o]
WithPair(x, o, a, b) == [x EXCEPT !.out = o, !.tok = a, !.acc = b]
WithBegin(x, l, a, t, c) == [x EXCEPT !.pc = l, !.acc = a, !.tok = t, !.scope = c]

\* Places that need no token in hand and hold no claim.
Quiet == Pcs \ (TokenPcs \cup {"rotate", "commit"})

LEMMA QuietPcs ==
  /\ {"idle", "bridge", "revokeFamily", "endSession", "legacyFind", "legacyIssued",
      "issueFind", "issueActive", "issueInsert"} \subseteq Quiet
  /\ {"logoutFind", "logoutSessions", "logoutTokens", "deleteFind", "deleteTokens",
      "deleteSessions"} \subseteq Quiet
  BY DEF Quiet, Pcs, TokenPcs

LEMMA SetWantS ==
  ASSUME NEW n \in Nat, NEW x \in RequestType(n), NEW l \in Quiet, NEW S \in SUBSET Sessions
  PROVE  LET y == WithWantS(x, l, S)
         IN  y \in RequestType(n) /\ y.pc = l /\ y.heldT = x.heldT
  BY DEF WithWantS, RequestType, Quiet

LEMMA SetWantT ==
  ASSUME NEW n \in Nat, NEW x \in RequestType(n), NEW l \in Quiet, NEW W \in SUBSET (1..n)
  PROVE  LET y == WithWantT(x, l, W)
         IN  y \in RequestType(n) /\ y.pc = l /\ y.heldT = x.heldT
  BY DEF WithWantT, RequestType, Quiet

LEMMA SetDelete ==
  ASSUME NEW n \in Nat, NEW x \in RequestType(n), NEW l \in Quiet,
         NEW S \in SUBSET Sessions, NEW W \in SUBSET (1..n)
  PROVE  LET y == WithDelete(x, l, S, W)
         IN  y \in RequestType(n) /\ y.pc = l /\ y.heldT = x.heldT
  BY DEF WithDelete, RequestType, Quiet

LEMMA SetRevoked ==
  ASSUME NEW n \in Nat, NEW x \in RequestType(n), NEW l \in Quiet,
         NEW W \in SUBSET (1..n), NEW H \in SUBSET (1..n)
  PROVE  LET y == WithRevoked(x, l, W, H)
         IN  y \in RequestType(n) /\ y.pc = l /\ y.heldT = H
  BY DEF WithRevoked, RequestType, Quiet

LEMMA SetOut ==
  ASSUME NEW n \in Nat, NEW x \in RequestType(n), NEW l \in Quiet, NEW o \in Outs
  PROVE  LET y == WithOut(x, l, o)
         IN  y \in RequestType(n) /\ y.pc = l /\ y.heldT = x.heldT
  BY DEF WithOut, RequestType, Quiet

LEMMA SetPc ==
  ASSUME NEW n \in Nat, NEW x \in RequestType(n), NEW l \in Pcs, l \in TokenPcs => x.tok # 0
  PROVE  LET y == WithPc(x, l)
         IN  y \in RequestType(n) /\ y.pc = l /\ y.heldT = x.heldT
  BY DEF WithPc, RequestType

LEMMA SetClaim ==
  ASSUME NEW n \in Nat, NEW x \in RequestType(n), NEW l \in Pcs, NEW H \in SUBSET (1..n), x.tok # 0
  PROVE  LET y == WithClaim(x, l, H)
         IN  y \in RequestType(n) /\ y.pc = l /\ y.heldT = H /\ y.tok = x.tok
  BY DEF WithClaim, RequestType

LEMMA SetHeldS ==
  ASSUME NEW n \in Nat, NEW x \in RequestType(n), NEW l \in Pcs, NEW S \in SUBSET Sessions, x.tok # 0
  PROVE  LET y == WithHeldS(x, l, S)
         IN  y \in RequestType(n) /\ y.heldT = x.heldT /\ y.tok = x.tok
  BY DEF WithHeldS, RequestType

LEMMA AddLocks ==
  ASSUME NEW n \in Nat, NEW x \in RequestType(n), NEW H \in SUBSET (1..n)
  PROVE  LET y == WithLocks(x, H)
         IN  y \in RequestType(n) /\ y.heldT = H /\ y.pc = x.pc /\ y.tok = x.tok
  BY DEF WithLocks, RequestType

LEMMA AddRows ==
  ASSUME NEW n \in Nat, NEW x \in RequestType(n), NEW S \in SUBSET Sessions
  PROVE  LET y == WithRows(x, S)
         IN  y \in RequestType(n) /\ y.heldT = x.heldT /\ y.pc = x.pc /\ y.tok = x.tok
  BY DEF WithRows, RequestType

LEMMA SetReads ==
  ASSUME NEW n \in Nat, NEW x \in RequestType(n), NEW a \in 0..n, NEW b \in Nat,
         NEW S \in SUBSET {"active", "session"}, NEW l \in Pcs, x.tok # 0
  PROVE  LET y == WithReads(x, a, b, S, l)
         IN  y \in RequestType(n) /\ y.pc = l /\ y.heldT = x.heldT
  BY DEF WithReads, RequestType

LEMMA SetAnswer ==
  ASSUME NEW n \in Nat, NEW x \in RequestType(n), x.pc = "idle", x.heldT = {},
         NEW o \in Outs, NEW a \in 0..n, NEW b \in Nat
  PROVE  LET y == WithAnswer(x, o)
             z == WithPair(x, o, a, b)
         IN  /\ y \in RequestType(n) /\ y.pc = "idle" /\ y.heldT = {}
             /\ z \in RequestType(n) /\ z.pc = "idle" /\ z.heldT = {}
<1>1. "idle" \notin TokenPcs
  BY DEF TokenPcs
<1> QED BY <1>1 DEF WithAnswer, WithPair, RequestType

LEMMA SetBridge ==
  ASSUME NEW n \in Nat, NEW x \in RequestType(n), x.heldT = {}, NEW l \in Quiet,
         NEW o \in Outs, NEW a \in Nat, NEW t \in 0..n
  PROVE  LET y == WithBridge(x, l, o, a, t)
         IN  y \in RequestType(n) /\ y.pc = l /\ y.heldT = {}
  BY DEF WithBridge, RequestType, Quiet

LEMMA SetBegin ==
  ASSUME NEW n \in Nat, NEW x \in RequestType(n), NEW l \in Pcs, NEW a \in Nat,
         NEW t \in 0..n, NEW c \in Scopes, l \in TokenPcs => t # 0
  PROVE  LET y == WithBegin(x, l, a, t, c)
         IN  y \in RequestType(n) /\ y.pc = l /\ y.heldT = x.heldT
  BY DEF WithBegin, RequestType

LEMMA BlankType ==
  ASSUME NEW n \in Nat, NEW s \in Sessions
  PROVE  Blank(s) \in RequestType(n)
  BY DEF Blank, RequestType, Pcs, Outs, Scopes, TokenPcs

LEMMA NoSessionType == NoSession \in Sessions
  BY SomeSession DEF NoSession

LEMMA InitType == Init => TypeOK
<1> SUFFICES ASSUME Init PROVE TypeOK
  OBVIOUS
<1>1. CASE minted = <<>>
  BY <1>1, OwnerAssumption, LegacyAssumption, NoSessionType, BlankType DEF Init, TypeOK, Tokens
<1>2. ASSUME NEW s \in live,
             minted = <<[session |-> s, parent |-> 0, family |-> 1, opaque |-> FALSE]>>
      PROVE  TypeOK
  <2>1. s \in Sessions /\ Len(minted) = 1 /\ minted[1] = [session |-> s, parent |-> 0, family |-> 1, opaque |-> FALSE]
    BY <1>2, LegacyAssumption DEF Init
  <2>2. minted \in Seq([session : Sessions, parent : Nat, family : Nat, opaque : BOOLEAN])
    BY <1>2, <2>1
  <2> QED BY <2>1, <2>2, OwnerAssumption, LegacyAssumption, NoSessionType, BlankType DEF Init, TypeOK, Tokens
<1> QED BY <1>1, <1>2 DEF Init

\* A request's locals stay well typed when more tokens are minted.
LEMMA TypeGrows ==
  ASSUME NEW m \in Nat, NEW n \in Nat, n <= m, NEW x \in RequestType(n)
  PROVE  x \in RequestType(m)
  BY DEF RequestType

LEMMA RowType ==
  ASSUME TypeOK, NEW t \in Tokens
  PROVE  minted[t].session \in Sessions /\ minted[t].family \in Tokens
<1>0. minted \in Seq([session : Sessions, parent : Nat, family : Nat, opaque : BOOLEAN])
  BY DEF TypeOK
<1>1. minted[t] \in [session : Sessions, parent : Nat, family : Nat, opaque : BOOLEAN]
  BY <1>0, ElementOfSeq DEF Tokens
<1>2. Len(minted) \in Nat /\ t \in 1..Len(minted) /\ minted[t].family \in 1..t
  BY DEF TypeOK, Tokens
<1> QED BY <1>1, <1>2 DEF Tokens

\* A new row keeps every type: its parent is a minted token or 0.
LEMMA MintType ==
  ASSUME TypeOK, NEW r \in Requests, NEW s \in Sessions, NEW p \in 0..Len(minted), Mint(s, p),
         Updates(r, Len(minted) + 1)
  PROVE  /\ minted' \in Seq([session : Sessions, parent : Nat, family : Nat, opaque : BOOLEAN])
         /\ Len(minted') = Len(minted) + 1
         /\ \A t \in Tokens : minted'[t] = minted[t]
         /\ \A t \in Tokens' : minted'[t].parent < t /\ minted'[t].family \in 1..t
         /\ present' \subseteq Tokens' /\ recent' \subseteq Tokens'
         /\ Tokens \subseteq Tokens'
         /\ req' \in [Requests -> RequestType(Len(minted'))]
<1> DEFINE n == Len(minted)
           f == IF p = 0 THEN n + 1 ELSE minted[p].family
           row == [session |-> s, parent |-> p, family |-> f, opaque |-> TRUE]
<1>1. n \in Nat /\ minted' = Append(minted, row)
  BY DEF Mint, TypeOK
<1>2. f \in 1..(n + 1) /\ p < n + 1
  <2>1. CASE p = 0
    BY <1>1, <2>1
  <2>2. CASE p # 0
    <3>1. p \in Tokens
      BY <1>1, <2>2 DEF Tokens
    <3>2. minted[p].family \in 1..p
      BY <3>1 DEF TypeOK
    <3> QED BY <1>1, <2>2, <3>2
  <2> QED BY <2>1, <2>2
<1>3. row \in [session : Sessions, parent : Nat, family : Nat, opaque : BOOLEAN]
  BY <1>1, <1>2
<1>4. minted' \in Seq([session : Sessions, parent : Nat, family : Nat, opaque : BOOLEAN])
  BY <1>1, <1>3 DEF TypeOK
<1>5. /\ Len(minted') = n + 1
      /\ \A t \in 1..n : minted'[t] = minted[t]
      /\ minted'[n + 1] = row
  BY <1>1, <1>3 DEF TypeOK
<1>6. \A t \in Tokens' : minted'[t].parent < t /\ minted'[t].family \in 1..t
  <2> TAKE t \in Tokens'
  <2>1. CASE t = n + 1
    BY <2>1, <1>2, <1>5
  <2>2. CASE t \in Tokens
    BY <2>2, <1>1, <1>5 DEF TypeOK, Tokens
  <2> QED BY <2>1, <2>2, <1>1, <1>5 DEF Tokens
<1>7. req' \in [Requests -> RequestType(n + 1)]
  <2>1. \A x \in RequestType(n) : x \in RequestType(n + 1)
    BY <1>1, TypeGrows
  <2> QED BY <2>1 DEF Updates, TypeOK
<1>8. present' \subseteq Tokens' /\ recent' \subseteq Tokens' /\ Tokens \subseteq Tokens'
  <2>1. present' = present \cup {n + 1} /\ recent' = recent \cup {n + 1}
    BY DEF Mint
  <2>2. Tokens' = 1..(n + 1) /\ Tokens = 1..n
    BY <1>5 DEF Tokens
  <2>3. present \subseteq Tokens /\ recent \subseteq Tokens
    BY DEF TypeOK
  <2> HIDE DEF n
  <2> QED BY <1>1, <2>1, <2>2, <2>3
<1>9. Len(minted') = n + 1 /\ \A t \in Tokens : minted'[t] = minted[t]
  BY <1>5 DEF Tokens
<1> HIDE DEF n
<1> QED BY <1>4, <1>6, <1>7, <1>8, <1>9 DEF n


LEMMA MintedType ==
  ASSUME TypeOK, NEW r \in Requests, NEW s \in Sessions, NEW p \in 0..Len(minted), Mint(s, p),
         Releases(r, Len(minted) + 1),
         consumed' \subseteq consumed \cup ({p} \ {0}), access' \in [Sessions -> Nat],
         UNCHANGED <<compromised, expired, live, lapsed, gone>>
  PROVE  TypeOK'
<1>1. p # 0 => p \in Tokens
  BY DEF Tokens, TypeOK
<1>2. /\ minted' \in Seq([session : Sessions, parent : Nat, family : Nat, opaque : BOOLEAN])
      /\ \A t \in Tokens' : minted'[t].parent < t /\ minted'[t].family \in 1..t
      /\ present' \subseteq Tokens' /\ recent' \subseteq Tokens'
      /\ Tokens \subseteq Tokens'
      /\ req' \in [Requests -> RequestType(Len(minted'))]
  <2>1. Updates(r, Len(minted) + 1)
    BY DEF Updates, Releases
  <2> QED BY <2>1, MintType
<1>3. consumed' \subseteq Tokens'
  BY <1>1, <1>2 DEF TypeOK
<1>4. compromised' \subseteq Tokens' /\ expired' \subseteq Tokens'
  BY <1>2 DEF TypeOK
<1>5. live' \subseteq Sessions /\ lapsed' \subseteq Sessions /\ gone' \subseteq Users
  BY DEF TypeOK
<1> QED BY <1>2, <1>3, <1>4, <1>5 DEF TypeOK

(***************************************************************************)
(* What a request does to itself.                                          *)
(***************************************************************************)
LEMMA FinishReleases ==
  ASSUME TypeOK, NEW r \in Requests, NEW o \in Outs, Finish(r, o)
  PROVE  Releases(r, Len(minted))
<1> DEFINE n == Len(minted)
<1>1. n \in Nat /\ req[r].ses \in Sessions /\ req[r].act \in 0..n /\ req[r].acc \in Nat
  <2>1. n \in Nat /\ req[r] \in RequestType(n)
    BY DEF TypeOK
  <2> QED BY <2>1 DEF RequestType
<1>2. ASSUME NEW s \in Sessions
      PROVE  Blank(s) \in RequestType(n) /\ Blank(s).pc = "idle" /\ Blank(s).heldT = {}
  BY <1>1, BlankType DEF Blank
<1>3. CASE o \in {"pair", "reusePair"}
  <2> DEFINE y == WithPair(Blank(req[r].ses), o, req[r].act, req[r].acc)
  <2>1. Assign(r, y)
    BY <1>3 DEF Finish, WithPair
  <2>2. y \in RequestType(n) /\ y.pc = "idle" /\ y.heldT = {}
    BY <1>1, <1>2, SetAnswer
  <2> HIDE DEF y
  <2> QED BY <2>1, <2>2 DEF Releases
<1>4. CASE o \notin {"pair", "reusePair"}
  <2> DEFINE s == IF o \in {"replay", "bridgeFailed"} THEN req[r].ses ELSE NoSession
             y == WithAnswer(Blank(s), o)
  <2>1. Assign(r, y)
    BY <1>4 DEF Finish, WithAnswer
  <2>2. s \in Sessions
    BY <1>1, NoSessionType
  <2> HIDE DEF s
  <2>3. y \in RequestType(n) /\ y.pc = "idle" /\ y.heldT = {}
    BY <1>1, <1>2, <2>2, SetAnswer
  <2> HIDE DEF y
  <2> QED BY <2>1, <2>3 DEF Releases
<1> QED BY <1>3, <1>4

LEMMA BridgeReleases ==
  ASSUME TypeOK, NEW r \in Requests, NEW n \in Nat, NEW a \in Nat, NEW t \in 0..n,
         NEW o \in Outs, Bridge(r, a, t, o)
  PROVE  Releases(r, n)
<1>1. req[r].ses \in Sessions
  <2>1. req[r] \in RequestType(Len(minted))
    BY DEF TypeOK
  <2> QED BY <2>1 DEF RequestType
<1>2. Blank(req[r].ses) \in RequestType(n) /\ Blank(req[r].ses).heldT = {}
  BY <1>1, BlankType DEF Blank
<1> DEFINE y == WithBridge(Blank(req[r].ses), "bridge", o, a, t)
<1>3. Assign(r, y)
  BY DEF Bridge, WithBridge
<1>4. y \in RequestType(n) /\ y.pc = "bridge" /\ y.heldT = {}
  BY <1>2, QuietPcs, SetBridge
<1> HIDE DEF y
<1> QED BY <1>3, <1>4 DEF Releases

LEMMA BeginReleases ==
  ASSUME TypeOK, NEW r \in Requests, NEW l \in Pcs \ {"rotate", "commit"}, NEW s \in Sessions,
         NEW a \in Nat, NEW t \in 0..Len(minted), NEW c \in Scopes, Begin(r, l, s, a, t, c),
         l \in TokenPcs => t # 0
  PROVE  Releases(r, Len(minted))
<1> DEFINE n == Len(minted)
<1>0. n \in Nat
  BY DEF TypeOK
<1>1. Blank(s) \in RequestType(n) /\ Blank(s).heldT = {}
  BY <1>0, BlankType DEF Blank
<1> DEFINE y == WithBegin(Blank(s), l, a, t, c)
<1>2. Assign(r, y)
  BY DEF Begin, WithBegin
<1>3. y \in RequestType(n) /\ y.pc = l /\ y.heldT = {}
  BY <1>0, <1>1, SetBegin
<1> HIDE DEF y
<1> QED BY <1>2, <1>3 DEF Releases

\* Locals that keep their token locks and claim nothing new.
LEMMA KeepsHarmless ==
  ASSUME ClaimInv, NEW r \in Requests, NEW y \in RequestType(Len(minted)), Assign(r, y),
         y.heldT = req[r].heldT,
         y.pc \in {"rotate", "commit"} => req[r].pc \in {"rotate", "commit"} /\ y.tok = req[r].tok
  PROVE  Harmless(r)
<1>1. \A q \in Requests \ {r} : y.heldT \cap req[q].heldT = {}
  BY DEF ClaimInv
<1>2. y.pc \in {"rotate", "commit"} => y.tok \in y.heldT \cap (present \ consumed)
  BY DEF ClaimInv
<1> QED BY <1>1, <1>2 DEF Harmless

LEMMA GotoHarmless ==
  ASSUME TypeOK, ClaimInv, NEW r \in Requests, NEW l \in Pcs \ {"rotate", "commit"}, Goto(r, l),
         l \in TokenPcs => req[r].tok # 0
  PROVE  Harmless(r)
<1> DEFINE y == WithPc(req[r], l)
<1>1. Len(minted) \in Nat /\ req[r] \in RequestType(Len(minted))
  BY DEF TypeOK
<1>2. y \in RequestType(Len(minted)) /\ y.pc = l /\ y.heldT = req[r].heldT
  BY <1>1, SetPc
<1>3. Assign(r, y)
  BY DEF Goto, WithPc
<1> HIDE DEF y
<1> QED BY <1>2, <1>3, KeepsHarmless

LEMMA ReleaseHarmless ==
  ASSUME NEW r \in Requests, Releases(r, Len(minted))
  PROVE  Harmless(r)
  BY DEF Harmless, Releases

(***************************************************************************)
(* Steps.  HarmlessStep is the one for all that consume and mint nothing.  *)
(***************************************************************************)
LEMMA HarmlessStep ==
  ASSUME Inv, NEW r \in Requests, Harmless(r), OnlyRemoves, RemovedAreFree
  PROVE  Inv'
<1>0. Tokens' = Tokens /\ minted' = minted /\ consumed' = consumed
  BY DEF OnlyRemoves, Tokens
<1>1. RotationIsLinear'
  BY <1>0 DEF Inv, RotationIsLinear
<1>2. PICK x \in RequestType(Len(minted)) :
               /\ Assign(r, x)
               /\ \A q \in Requests \ {r} : x.heldT \cap req[q].heldT = {}
               /\ x.pc \in {"rotate", "commit"} => x.tok \in x.heldT \cap (present \ consumed)
  BY DEF Harmless
<1>3. req'[r] = x /\ \A q \in Requests \ {r} : req'[q] = req[q]
  BY <1>2 DEF Inv, TypeOK
<1>4. ClaimInv'
  BY <1>0, <1>2, <1>3 DEF Inv, ClaimInv, RemovedAreFree
<1>5. TypeOK'
  <2>1. req' \in [Requests -> RequestType(Len(minted))]
    BY <1>2 DEF Inv, TypeOK
  <2>2. TypeOK
    BY DEF Inv
  <2> QED BY <1>0, <2>1, <2>2 DEF OnlyRemoves, TypeOK
<1> QED BY <1>1, <1>4, <1>5 DEF Inv

\* r consumes the token it has claimed and lets go.
LEMMA ConsumeStep ==
  ASSUME Inv, NEW r \in Requests, req[r].pc \in {"rotate", "commit"},
         consumed' = consumed \cup {req[r].tok}, present \subseteq present',
         NEW n \in Nat, Releases(r, n)
  PROVE  /\ \A p, q \in Requests : p # q => req'[p].heldT \cap req'[q].heldT = {}
         /\ \A q \in Requests : req'[q].pc \in {"rotate", "commit"} =>
              req'[q].tok \in req'[q].heldT \cap (present' \ consumed')
<1>1. PICK x : Assign(r, x) /\ x.heldT = {} /\ x.pc \notin {"rotate", "commit"}
  BY DEF Releases
<1>2. req'[r] = x /\ \A q \in Requests \ {r} : req'[q] = req[q]
  BY <1>1 DEF Inv, TypeOK
<1>3. req[r].tok \in req[r].heldT
  BY DEF Inv, ClaimInv
<1>4. ASSUME NEW q \in Requests \ {r}, req[q].pc \in {"rotate", "commit"} PROVE req[q].tok # req[r].tok
  BY <1>3, <1>4 DEF Inv, ClaimInv
<1> QED BY <1>1, <1>2, <1>4 DEF Inv, ClaimInv

\* The new token of a rotation is the only child of the token it consumes, and
\* the only unconsumed one of its family; a root token starts a new family.
LEMMA RotateStep ==
  ASSUME Inv, NEW r \in Requests, CommitRotation(r)
  PROVE  Inv'
<1> DEFINE n == Len(minted)
           t == req[r].tok
<1>0. n \in Nat /\ req[r].pc = "commit" /\ req[r].ses \in Sessions /\ access[req[r].ses] \in Nat
  BY DEF Inv, TypeOK, RequestType, CommitRotation, At
<1>1. t \in Tokens \ consumed /\ t # 0
  <2>1. t \in req[r].heldT \cap (present \ consumed)
    BY <1>0 DEF Inv, ClaimInv
  <2>2. req[r] \in RequestType(n)
    BY DEF Inv, TypeOK
  <2> QED BY <1>0, <2>1, <2>2 DEF RequestType, Tokens
<1>2. Releases(r, n + 1)
  <2>1. n + 1 \in Nat /\ access[req[r].ses] + 1 \in Nat /\ n + 1 \in 0..(n + 1)
    BY <1>0
  <2> QED BY <2>1, BridgeReleases DEF CommitRotation, Inv, Outs
<1>3. consumed' = consumed \cup {t} /\ Mint(req[r].ses, t) /\ present \subseteq present'
  BY DEF CommitRotation, Mint
<1>4. /\ \A p, q \in Requests : p # q => req'[p].heldT \cap req'[q].heldT = {}
      /\ \A q \in Requests : req'[q].pc \in {"rotate", "commit"} =>
           req'[q].tok \in req'[q].heldT \cap (present' \ consumed')
  BY <1>0, <1>2, <1>3, ConsumeStep
<1>5. /\ Tokens' = Tokens \cup {n + 1} /\ n + 1 \notin Tokens
      /\ \A u \in Tokens : minted'[u] = minted[u]
      /\ minted'[n + 1].parent = t /\ minted'[n + 1].family = minted[t].family
  <2>1. minted \in Seq([session : Sessions, parent : Nat, family : Nat, opaque : BOOLEAN])
    BY DEF Inv, TypeOK
  <2>2. minted' = Append(minted, [session |-> req[r].ses, parent |-> t,
                                  family |-> minted[t].family, opaque |-> TRUE])
    BY <1>1, <1>3 DEF Mint
  <2> QED BY <1>0, <2>1, <2>2 DEF Tokens
<1>6. \A u \in Tokens : minted[u].parent # 0 => minted[u].parent \in consumed
  BY DEF Inv, ClaimInv
<1>7. RotationIsLinear'
  <2>1. \A u \in Tokens : minted[u].parent # t
    BY <1>1, <1>6
  <2>2. \A u, v \in Tokens' : minted'[u].parent = minted'[v].parent /\ minted'[u].parent # 0 => u = v
    BY <1>5, <2>1 DEF Inv, RotationIsLinear
  <2>3. \A u \in Tokens \ consumed' : minted[u].family # minted[t].family
    BY <1>1, <1>3 DEF Inv, RotationIsLinear
  <2>4. \A u, v \in Tokens' \ consumed' : minted'[u].family = minted'[v].family => u = v
    BY <1>3, <1>5, <2>3 DEF Inv, RotationIsLinear
  <2> QED BY <2>2, <2>4 DEF RotationIsLinear
<1>8. \A u \in Tokens' : minted'[u].parent # 0 => minted'[u].parent \in consumed'
  BY <1>3, <1>5, <1>6
<1>9. TypeOK'
  <2>1. t \in 0..n /\ access' \in [Sessions -> Nat]
    <3>1. access \in [Sessions -> Nat]
      BY DEF Inv, TypeOK
    <3>2. access' = [access EXCEPT ![req[r].ses] = @ + 1]
      BY DEF CommitRotation
    <3>3. access' \in [Sessions -> Nat]
      BY <1>0, <3>1, <3>2
    <3>4. t \in 0..n
      BY <1>0, <1>1 DEF Tokens
    <3> QED BY <3>3, <3>4
  <2>2. UNCHANGED <<compromised, expired, live, lapsed, gone>>
    BY DEF CommitRotation
  <2> QED BY <1>0, <1>1, <1>2, <1>3, <2>1, <2>2, MintedType DEF Inv
<1> HIDE DEF n, t
<1> QED BY <1>4, <1>7, <1>8, <1>9 DEF Inv, ClaimInv

\* A consumption without a session left to rotate.
LEMMA NullStep ==
  ASSUME Inv, NEW r \in Requests, Rotate(r), ~Live(req[r].ses)
  PROVE  Inv'
<1>1. req[r].pc = "rotate" /\ Finish(r, "refused") /\ consumed' = consumed \cup {req[r].tok}
      /\ UNCHANGED <<minted, present, compromised, expired, recent, sessionVars>>
  BY DEF Rotate, At
<1>2. Releases(r, Len(minted)) /\ Len(minted) \in Nat
  BY <1>1, FinishReleases DEF Inv, Outs, TypeOK
<1>3. /\ \A p, q \in Requests : p # q => req'[p].heldT \cap req'[q].heldT = {}
      /\ \A q \in Requests : req'[q].pc \in {"rotate", "commit"} =>
           req'[q].tok \in req'[q].heldT \cap (present' \ consumed')
  BY <1>1, <1>2, ConsumeStep
<1>4. Tokens' = Tokens /\ minted' = minted /\ consumed \subseteq consumed'
  BY <1>1 DEF Tokens
<1>5. RotationIsLinear' /\ ClaimInv'
  BY <1>3, <1>4 DEF Inv, RotationIsLinear, ClaimInv
<1>6. consumed' \subseteq Tokens
  <2>1. req[r].tok \in req[r].heldT /\ req[r] \in RequestType(Len(minted))
    BY <1>1 DEF Inv, TypeOK, ClaimInv
  <2>2. req[r].tok \in Tokens
    BY <2>1 DEF RequestType, Tokens
  <2> QED BY <1>1, <2>2 DEF Inv, TypeOK
<1>7. req' \in [Requests -> RequestType(Len(minted))]
  BY <1>2 DEF Releases, Inv, TypeOK
<1> QED BY <1>1, <1>4, <1>5, <1>6, <1>7 DEF Inv, TypeOK

LEMMA RootStep ==
  ASSUME Inv, NEW r \in Requests, IssueInsert(r)
  PROVE  Inv'
<1> DEFINE n == Len(minted)
<1>0. n \in Nat /\ req[r].ses \in Sessions /\ req[r].acc \in Nat
  BY DEF Inv, TypeOK, RequestType
<1>1. Releases(r, n + 1)
  <2>1. n + 1 \in Nat /\ n + 1 \in 0..(n + 1)
    BY <1>0
  <2>2. CASE req[r].out = "pair"
    BY <1>0, <2>1, <2>2, BridgeReleases DEF IssueInsert, Answer, Inv, Outs
  <2>3. CASE req[r].out # "pair"
    <3>1. Releases(r, n)
      BY <1>0, <2>3, FinishReleases DEF IssueInsert, Answer, Inv, Outs
    <3>2. \A x \in RequestType(n) : x \in RequestType(n + 1)
      BY <1>0, <2>1, TypeGrows
    <3> QED BY <3>1, <3>2 DEF Releases
  <2> QED BY <2>2, <2>3
<1>2. PICK x : Assign(r, x) /\ x.heldT = {} /\ x.pc \notin {"rotate", "commit"}
  BY <1>1 DEF Releases
<1>3. req'[r] = x /\ \A q \in Requests \ {r} : req'[q] = req[q]
  BY <1>2 DEF Inv, TypeOK
<1>4. consumed' = consumed /\ present \subseteq present'
  BY DEF IssueInsert, Mint
<1>5. /\ Tokens' = Tokens \cup {n + 1} /\ n + 1 \notin Tokens
      /\ \A u \in Tokens : minted'[u] = minted[u]
      /\ minted'[n + 1].parent = 0 /\ minted'[n + 1].family = n + 1
  <2>1. minted \in Seq([session : Sessions, parent : Nat, family : Nat, opaque : BOOLEAN])
    BY DEF Inv, TypeOK
  <2>2. minted' = Append(minted, [session |-> req[r].ses, parent |-> 0,
                                  family |-> n + 1, opaque |-> TRUE])
    BY DEF Mint, IssueInsert
  <2> QED BY <1>0, <2>1, <2>2 DEF Tokens
<1>6. \A u \in Tokens : minted[u].family # n + 1
  BY <1>0 DEF Inv, TypeOK, Tokens
<1>7. RotationIsLinear'
  <2>1. \A u, v \in Tokens' : minted'[u].parent = minted'[v].parent /\ minted'[u].parent # 0 => u = v
    BY <1>5 DEF Inv, RotationIsLinear
  <2>2. \A u, v \in Tokens' \ consumed' : minted'[u].family = minted'[v].family => u = v
    BY <1>4, <1>5, <1>6 DEF Inv, RotationIsLinear
  <2> QED BY <2>1, <2>2 DEF RotationIsLinear
<1>8. ClaimInv'
  BY <1>2, <1>3, <1>4, <1>5 DEF Inv, ClaimInv
<1>9. TypeOK'
  <2>1. 0 \in 0..n /\ access' \in [Sessions -> Nat] /\ Mint(req[r].ses, 0)
        /\ UNCHANGED <<compromised, expired, live, lapsed, gone>>
    BY <1>0 DEF IssueInsert, Inv, TypeOK
  <2> QED BY <1>0, <1>1, <1>4, <2>1, MintedType DEF Inv
<1> QED BY <1>7, <1>8, <1>9 DEF Inv


(***************************************************************************)
(* The steps that insert nothing and consume nothing, one by one.          *)
(***************************************************************************)
LEMMA ReadsHarmless ==
  ASSUME Inv, NEW r \in Requests, NEW what \in {"active", "session"},
         NEW a \in 0..Len(minted), NEW acc \in Nat, Reads(r, what, a, acc)
  PROVE  Harmless(r)
<1> DEFINE seen == req[r].seen \cup {what}
           l == IF seen = {"active", "session"} THEN "judge" ELSE "reuse"
           y == WithReads(req[r], a, acc, seen, l)
<1>1. Len(minted) \in Nat /\ req[r] \in RequestType(Len(minted)) /\ req[r].pc = "reuse" /\ Assign(r, y)
  BY DEF Inv, TypeOK, Reads, At, WithReads
<1>2. req[r].tok # 0 /\ seen \in SUBSET {"active", "session"}
  BY <1>1 DEF RequestType, TokenPcs
<1>3. l \in Pcs \ {"rotate", "commit"}
  BY DEF Pcs
<1> HIDE DEF seen, l
<1>4. y \in RequestType(Len(minted)) /\ y.pc = l /\ y.heldT = req[r].heldT
  BY <1>1, <1>2, <1>3, SetReads
<1> HIDE DEF y
<1> QED BY <1>1, <1>3, <1>4, KeepsHarmless DEF Inv

\* exchangeRefreshToken up to the claim, the verdict of a reuse, and issuing.
LEMMA ExchangeHarmless ==
  ASSUME Inv, NEW r \in Requests,
         \/ Find(r) \/ BridgeLookup(r) \/ ReadActive(r) \/ ReadSession(r) \/ Judge(r)
         \/ IssueFind(r) \/ IssueActive(r) \/ LegacyFind(r) \/ LegacyIssued(r)
  PROVE  Harmless(r)
<1> DEFINE n == Len(minted)
<1>0. n \in Nat /\ req[r] \in RequestType(n) /\ TypeOK /\ ClaimInv /\ access \in [Sessions -> Nat]
  BY DEF Inv, TypeOK
<1>1. /\ req[r].ses \in Sessions /\ req[r].acc \in Nat /\ req[r].act \in 0..n /\ req[r].out \in Outs
      /\ req[r].pc \in TokenPcs => req[r].tok # 0
  BY <1>0 DEF RequestType
<1>2. ASSUME NEW o \in Outs, Finish(r, o) PROVE Harmless(r)
  BY <1>0, <1>2, FinishReleases, ReleaseHarmless
<1>3. ASSUME NEW o \in Outs, NEW a \in Nat, NEW t \in 0..n, Bridge(r, a, t, o) PROVE Harmless(r)
  BY <1>0, <1>3, BridgeReleases, ReleaseHarmless
<1>4. {"ok", "refused", "reusePair", "pair", "bridgeFailed", "noChild"} \subseteq Outs
  BY DEF Outs
<1>5. ASSUME NEW l \in Quiet, Goto(r, l) PROVE Harmless(r)
  BY <1>0, <1>5, GotoHarmless DEF Quiet
<1>6. CASE Find(r)
  <2>1. req[r].tok # 0 /\ "claim" \in Pcs \ {"rotate", "commit"}
    BY <1>1, <1>6 DEF Find, At, TokenPcs, Pcs
  <2> QED BY <1>0, <1>2, <1>4, <1>6, <2>1, GotoHarmless DEF Find
<1>7. CASE BridgeLookup(r)
  BY <1>1, <1>2, <1>4, <1>7 DEF BridgeLookup
<1>8. CASE ReadActive(r)
  BY <1>1, <1>8, ReadsHarmless DEF ReadActive
<1>9. CASE ReadSession(r)
  BY <1>0, <1>1, <1>9, ReadsHarmless DEF ReadSession
<1>10. CASE Judge(r)
  <2>1. req[r].tok # 0 /\ "lockFamily" \in Pcs \ {"rotate", "commit"}
    BY <1>1, <1>10 DEF Judge, At, TokenPcs, Pcs
  <2>2. \/ \E o \in {"reusePair"} : Bridge(r, req[r].acc, req[r].act, o)
        \/ Finish(r, "noChild") \/ Goto(r, "lockFamily")
    BY <1>10 DEF Judge
  <2> QED BY <1>0, <1>1, <1>2, <1>3, <1>4, <2>1, <2>2, GotoHarmless
<1>11. CASE IssueFind(r)
  BY <1>2, <1>4, <1>5, <1>11, QuietPcs DEF IssueFind
<1>12. CASE IssueActive(r)
  <2>1. PICK a \in 0..n : Goto(r, "issueInsert") \/ Bridge(r, req[r].acc, a, "pair") \/ Finish(r, "ok")
    BY <1>12 DEF IssueActive, Answer
  <2> QED BY <1>1, <1>2, <1>3, <1>4, <1>5, <2>1, QuietPcs
<1>13. CASE LegacyFind(r)
  BY <1>2, <1>4, <1>5, <1>13, QuietPcs DEF LegacyFind
<1>14. CASE LegacyIssued(r)
  <2> DEFINE y == WithOut(req[r], "issueFind", "pair")
  <2>0. "pair" \in Outs /\ "issueFind" \in Quiet
    BY <1>4, QuietPcs
  <2>1. y \in RequestType(n) /\ y.pc = "issueFind" /\ y.heldT = req[r].heldT
    BY <1>0, <2>0, SetOut
  <2>2. Assign(r, y) \/ Finish(r, "refused")
    BY <1>14 DEF LegacyIssued, WithOut
  <2> HIDE DEF y
  <2> QED BY <1>0, <1>2, <1>4, <2>1, <2>2, KeepsHarmless
<1> QED BY <1>6, <1>7, <1>8, <1>9, <1>10, <1>11, <1>12, <1>13, <1>14

\* The claim, the session lock of a rotation, and the revocation of a family.
LEMMA LocksHarmless ==
  ASSUME Inv, NEW r \in Requests,
         \/ Claim(r) \/ (Rotate(r) /\ Live(req[r].ses)) \/ LockFamily(r) \/ RevokeFamily(r)
         \/ (\E t \in Tokens : LockToken(r, t)) \/ (\E s \in Sessions : LockSession(r, s))
  PROVE  Harmless(r)
<1> DEFINE n == Len(minted)
<1>0. n \in Nat /\ req[r] \in RequestType(n) /\ TypeOK /\ ClaimInv /\ present \in SUBSET (1..n)
  <2>1. TypeOK /\ ClaimInv
    BY DEF Inv
  <2>2. present \subseteq Tokens /\ n \in Nat /\ req[r] \in RequestType(n)
    BY <2>1 DEF TypeOK
  <2> QED BY <2>1, <2>2 DEF Tokens
<1>1. /\ req[r].ses \in Sessions /\ req[r].heldT \in SUBSET (1..n) /\ req[r].heldS \in SUBSET Sessions
      /\ req[r].pc \in TokenPcs => req[r].tok # 0
  BY <1>0 DEF RequestType
<1>2. CASE Claim(r)
  <2> DEFINE H == {req[r].tok}
             y == WithClaim(req[r], "rotate", H)
  <2>1. req[r].tok # 0 /\ {"rotate", "reuse"} \subseteq Pcs
    BY <1>1, <1>2 DEF Claim, At, TokenPcs, Pcs
  <2>2. CASE req[r].tok \in present \ consumed
    <3>1. H \in SUBSET (1..n)
      BY <1>0, <2>2
    <3>2. Assign(r, y) /\ FreeToken(req[r].tok, r)
      BY <1>2, <2>2 DEF Claim, WithClaim
    <3> HIDE DEF H
    <3>3. y \in RequestType(n) /\ y.heldT = H /\ y.tok = req[r].tok
      BY <1>0, <2>1, <3>1, SetClaim
    <3> HIDE DEF y
    <3>4. y.tok \in y.heldT \cap (present \ consumed)
      BY <2>2, <3>3 DEF H
    <3>5. \A q \in Requests \ {r} : y.heldT \cap req[q].heldT = {}
      BY <3>2, <3>3 DEF H, FreeToken
    <3> QED BY <3>2, <3>3, <3>4, <3>5 DEF Harmless
  <2>3. CASE req[r].tok \notin present \ consumed
    BY <1>0, <1>2, <2>1, <2>3, GotoHarmless DEF Claim
  <2> QED BY <2>2, <2>3
<1>3. CASE Rotate(r) /\ Live(req[r].ses)
  <2> DEFINE S == {req[r].ses}
             y == WithHeldS(req[r], "commit", S)
  <2>1. req[r].pc = "rotate" /\ Assign(r, y)
    BY <1>3 DEF Rotate, At, WithHeldS
  <2>2. req[r].tok # 0 /\ "commit" \in Pcs /\ S \in SUBSET Sessions
    BY <1>1, <2>1 DEF TokenPcs, Pcs
  <2> HIDE DEF S
  <2>3. y \in RequestType(n) /\ y.heldT = req[r].heldT /\ y.tok = req[r].tok
    BY <1>0, <2>2, SetHeldS
  <2> HIDE DEF y
  <2> QED BY <1>0, <2>1, <2>3, KeepsHarmless
<1>4. CASE LockFamily(r)
  <2> DEFINE y == WithWantT(req[r], "revokeFamily", Family(req[r].tok))
  <2>1. Family(req[r].tok) \in SUBSET (1..n)
    BY <1>0 DEF Family
  <2>2. y \in RequestType(n) /\ y.pc = "revokeFamily" /\ y.heldT = req[r].heldT
    BY <1>0, <2>1, QuietPcs, SetWantT
  <2>3. Assign(r, y)
    BY <1>4 DEF LockFamily, WithWantT
  <2> HIDE DEF y
  <2> QED BY <1>0, <2>2, <2>3, KeepsHarmless
<1>5. CASE RevokeFamily(r)
  <2> DEFINE W == {}
             y == WithRevoked(req[r], "endSession", W, W)
  <2>1. Assign(r, y) /\ W \in SUBSET (1..n)
    BY <1>5 DEF RevokeFamily, WithRevoked
  <2> HIDE DEF W
  <2>2. y \in RequestType(n) /\ y.pc = "endSession" /\ y.heldT = W
    BY <1>0, <2>1, QuietPcs, SetRevoked
  <2> HIDE DEF y
  <2> QED BY <2>1, <2>2 DEF Harmless, W
<1>6. ASSUME NEW t \in Tokens, LockToken(r, t) PROVE Harmless(r)
  <2> DEFINE H == req[r].heldT \cup {t}
             y == WithLocks(req[r], H)
  <2>1. H \in SUBSET (1..n)
    BY <1>1 DEF Tokens
  <2>2. Assign(r, y) /\ FreeToken(t, r)
    BY <1>6 DEF LockToken, WithLocks
  <2>3. \A q \in Requests \ {r} : H \cap req[q].heldT = {}
    BY <1>0, <2>2 DEF ClaimInv, FreeToken
  <2>4. req[r].pc \in {"rotate", "commit"} => req[r].tok \in H \cap (present \ consumed)
    BY <1>0 DEF ClaimInv
  <2> HIDE DEF H
  <2>5. y \in RequestType(n) /\ y.heldT = H /\ y.pc = req[r].pc /\ y.tok = req[r].tok
    BY <1>0, <2>1, AddLocks
  <2> HIDE DEF y
  <2> QED BY <2>2, <2>3, <2>4, <2>5 DEF Harmless
<1>7. ASSUME NEW s \in Sessions, LockSession(r, s) PROVE Harmless(r)
  <2> DEFINE S == req[r].heldS \cup {s}
             y == WithRows(req[r], S)
  <2>1. Assign(r, y) /\ S \in SUBSET Sessions
    BY <1>1, <1>7 DEF LockSession, WithRows
  <2> HIDE DEF S
  <2>2. y \in RequestType(n) /\ y.heldT = req[r].heldT /\ y.pc = req[r].pc /\ y.tok = req[r].tok
    BY <1>0, <2>1, AddRows
  <2> HIDE DEF y
  <2> QED BY <1>0, <2>1, <2>2, KeepsHarmless
<1> QED BY <1>2, <1>3, <1>4, <1>5, <1>6, <1>7

\* Logout and deletion of the user, and what ends a request early.
LEMMA EndsHarmless ==
  ASSUME Inv, NEW r \in Requests,
         \/ EndSession(r) \/ LogoutFind(r) \/ LogoutSessions(r) \/ CommitLogout(r)
         \/ DeleteFind(r) \/ DeleteTokens(r) \/ CommitDelete(r) \/ DeadlockAbort(r) \/ Fail(r)
  PROVE  Harmless(r)
<1> DEFINE n == Len(minted)
<1>0. /\ n \in Nat /\ req[r] \in RequestType(n) /\ TypeOK /\ ClaimInv
      /\ present \in SUBSET (1..n) /\ live \in SUBSET Sessions
  <2>1. TypeOK /\ ClaimInv
    BY DEF Inv
  <2>2. present \subseteq Tokens /\ live \subseteq Sessions /\ n \in Nat /\ req[r] \in RequestType(n)
    BY <2>1 DEF TypeOK
  <2> QED BY <2>1, <2>2 DEF Tokens
<1>1. req[r].ses \in Sessions /\ req[r].scope \in Scopes
  BY <1>0 DEF RequestType
<1>2. ASSUME NEW y \in RequestType(n), Assign(r, y), y.heldT = req[r].heldT, y.pc \in Quiet
      PROVE  Harmless(r)
  BY <1>0, <1>2, KeepsHarmless DEF Quiet
<1>3. ASSUME NEW o \in {"ok", "refused", "replay"}, Finish(r, o) PROVE Harmless(r)
  <2>1. o \in Outs
    BY DEF Outs
  <2> QED BY <1>0, <1>3, <2>1, FinishReleases, ReleaseHarmless
<1>4. CASE LogoutFind(r)
  <2> DEFINE S == InScope(req[r].ses, req[r].scope)
             y == WithWantS(req[r], "logoutSessions", S)
  <2>1. S \in SUBSET Sessions
    BY <1>0, <1>1 DEF InScope, SessionsOf, Scopes
  <2>2. Assign(r, y) \/ Finish(r, "refused")
    BY <1>4 DEF LogoutFind, WithWantS
  <2> HIDE DEF S
  <2>3. y \in RequestType(n) /\ y.pc \in Quiet /\ y.heldT = req[r].heldT
    BY <1>0, <2>1, QuietPcs, SetWantS
  <2> HIDE DEF y
  <2> QED BY <1>2, <1>3, <2>2, <2>3
<1>5. CASE LogoutSessions(r)
  <2> DEFINE W == TokensOf(req[r].heldS \cap live)
             y == WithWantT(req[r], "logoutTokens", W)
  <2>1. W \in SUBSET (1..n)
    BY <1>0 DEF TokensOf
  <2>2. Assign(r, y) \/ Finish(r, "ok")
    BY <1>5 DEF LogoutSessions, WithWantT
  <2> HIDE DEF W
  <2>3. y \in RequestType(n) /\ y.pc \in Quiet /\ y.heldT = req[r].heldT
    BY <1>0, <2>1, QuietPcs, SetWantT
  <2> HIDE DEF y
  <2> QED BY <1>2, <1>3, <2>2, <2>3
<1>6. CASE DeleteFind(r)
  <2> DEFINE S == {req[r].ses}
             W == {t \in present : Owner[minted[t].session] = Owner[req[r].ses]}
             y == WithDelete(req[r], "deleteTokens", S, W)
  <2>1. S \in SUBSET Sessions /\ W \in SUBSET (1..n)
    BY <1>0, <1>1
  <2>2. Assign(r, y) \/ Finish(r, "refused")
    BY <1>6 DEF DeleteFind, WithDelete
  <2> HIDE DEF S, W
  <2>3. y \in RequestType(n) /\ y.pc \in Quiet /\ y.heldT = req[r].heldT
    BY <1>0, <2>1, QuietPcs, SetDelete
  <2> HIDE DEF y
  <2> QED BY <1>2, <1>3, <2>2, <2>3
<1>7. CASE DeleteTokens(r)
  <2> DEFINE S == SessionsOf(Owner[req[r].ses])
             y == WithWantS(req[r], "deleteSessions", S)
  <2>1. S \in SUBSET Sessions
    BY <1>0 DEF SessionsOf
  <2>2. Assign(r, y)
    BY <1>7 DEF DeleteTokens, WithWantS
  <2> HIDE DEF S
  <2>3. y \in RequestType(n) /\ y.pc \in Quiet /\ y.heldT = req[r].heldT
    BY <1>0, <2>1, QuietPcs, SetWantS
  <2> HIDE DEF y
  <2> QED BY <1>2, <2>2, <2>3
<1>8. CASE EndSession(r) \/ CommitLogout(r) \/ CommitDelete(r) \/ DeadlockAbort(r) \/ Fail(r)
  <2>1. Finish(r, "ok") \/ Finish(r, "refused") \/ Finish(r, "replay")
    BY <1>8 DEF EndSession, CommitLogout, CommitDelete, DeadlockAbort, Fail
  <2> QED BY <1>3, <2>1
<1> QED BY <1>4, <1>5, <1>6, <1>7, <1>8

LEMMA ArriveHarmless ==
  ASSUME Inv, NEW r \in Requests, Arrive(r)
  PROVE  Harmless(r)
<1> DEFINE n == Len(minted)
<1>0. n \in Nat /\ TypeOK /\ \A s \in Sessions : access[s] \in Nat
  BY DEF Inv, TypeOK
<1>1. ASSUME NEW l \in Pcs \ {"rotate", "commit"}, NEW s \in Sessions, NEW a \in Nat,
             NEW t \in 0..n, NEW c \in Scopes, Begin(r, l, s, a, t, c), l \in TokenPcs => t # 0
      PROVE  Harmless(r)
  BY <1>0, <1>1, BeginReleases, ReleaseHarmless
<1>2. {"issueFind", "legacyFind", "logoutFind", "deleteFind"} \subseteq Pcs \ (TokenPcs \cup {"rotate", "commit"})
  BY DEF Pcs, TokenPcs
<1>3. "find" \in Pcs \ {"rotate", "commit"} /\ "global" \in Scopes
  BY DEF Pcs, Scopes
<1>4. ASSUME NEW s \in Sessions, NEW c \in Scopes,
             \/ SignIn(r, s) \/ Issue(r, s) \/ ExchangeLegacy(r, s) \/ DeleteUser(r, s)
             \/ Logout(r, s, c)
      PROVE  Harmless(r)
  <2>1. \E l \in {"issueFind", "legacyFind", "logoutFind", "deleteFind"}, a \in {1, access[s]},
           d \in {"global", c} : Begin(r, l, s, a, 0, d)
    BY <1>4 DEF SignIn, Issue, ExchangeLegacy, DeleteUser, Logout
  <2>2. access[s] \in Nat /\ 0 \in 0..n
    BY <1>0
  <2> QED BY <1>1, <1>2, <1>3, <2>1, <2>2
<1>5. ASSUME NEW t \in Tokens, Exchange(r, t) PROVE Harmless(r)
  <2>1. t \in 0..n /\ t # 0 /\ minted[t].session \in Sessions
    BY <1>0, RowType DEF Tokens
  <2>2. Begin(r, "find", minted[t].session, 0, t, "global")
    BY <1>5 DEF Exchange
  <2> QED BY <1>1, <1>3, <2>1, <2>2
<1> QED BY <1>3, <1>4, <1>5 DEF Arrive

LEMMA ServeRemoves ==
  ASSUME TypeOK, NEW r \in Requests, Serve(r) \/ Fail(r),
         ~CommitRotation(r), ~IssueInsert(r), ~(Rotate(r) /\ ~Live(req[r].ses))
  PROVE  OnlyRemoves
<1>0. /\ access \in [Sessions -> Nat] /\ live \subseteq Sessions /\ gone \subseteq Users
      /\ compromised \subseteq Tokens /\ present \subseteq Tokens
      /\ req[r] \in RequestType(Len(minted))
  BY DEF TypeOK
<1>1. Owner[req[r].ses] \in Users
  BY <1>0, OwnerAssumption DEF RequestType
<1>2. ASSUME UNCHANGED <<tokenVars, sessionVars>> PROVE OnlyRemoves
  BY <1>0, <1>2 DEF OnlyRemoves
<1>3. CASE Find(r) \/ Claim(r) \/ BridgeLookup(r) \/ ReadActive(r) \/ ReadSession(r) \/ Judge(r)
           \/ LockFamily(r) \/ IssueFind(r) \/ IssueActive(r) \/ LegacyFind(r) \/ LegacyIssued(r)
  <2>1. UNCHANGED <<tokenVars, sessionVars>>
    BY <1>3 DEF Find, Claim, BridgeLookup, ReadActive, ReadSession, Reads, Judge, LockFamily,
         IssueFind, IssueActive, LegacyFind, LegacyIssued
  <2> QED BY <1>2, <2>1
<1>4. CASE \/ LogoutFind(r) \/ LogoutSessions(r) \/ DeleteFind(r) \/ DeleteTokens(r)
           \/ (\E t \in Tokens : LockToken(r, t)) \/ (\E s \in Sessions : LockSession(r, s))
           \/ DeadlockAbort(r) \/ Fail(r)
  <2>1. UNCHANGED <<tokenVars, sessionVars>>
    BY <1>4 DEF LogoutFind, LogoutSessions, DeleteFind, DeleteTokens, LockToken, LockSession,
         DeadlockAbort, Fail
  <2> QED BY <1>2, <2>1
<1>5. CASE RevokeFamily(r)
  BY <1>0, <1>5 DEF RevokeFamily, OnlyRemoves
<1>6. CASE EndSession(r)
  BY <1>0, <1>6 DEF EndSession, OnlyRemoves
<1>7. CASE CommitLogout(r)
  BY <1>0, <1>7 DEF CommitLogout, OnlyRemoves
<1>8. CASE CommitDelete(r)
  BY <1>0, <1>1, <1>8 DEF CommitDelete, OnlyRemoves
<1>9. CASE Rotate(r)
  BY <1>2, <1>9 DEF Rotate
<1> QED BY <1>3, <1>4, <1>5, <1>6, <1>7, <1>8, <1>9 DEF Serve

\* Whoever removes rows holds their locks, and lets go of them.
LEMMA ServeFrees ==
  ASSUME Inv, NEW r \in Requests, Serve(r) \/ Fail(r),
         ~CommitRotation(r), ~IssueInsert(r), ~(Rotate(r) /\ ~Live(req[r].ses))
  PROVE  RemovedAreFree
<1>1. CASE present' = present
  BY <1>1 DEF RemovedAreFree
<1>2. CASE CommitLogout(r) \/ CommitDelete(r)
  <2>1. present \ present' \subseteq req[r].heldT /\ Finish(r, "ok")
    BY <1>2 DEF CommitLogout, CommitDelete
  <2>2. Releases(r, Len(minted))
    BY <2>1, FinishReleases DEF Inv, Outs
  <2>3. PICK x : Assign(r, x) /\ x.heldT = {}
    BY <2>2 DEF Releases
  <2>4. req'[r].heldT = {} /\ \A q \in Requests \ {r} : req'[q] = req[q]
    BY <2>3 DEF Inv, TypeOK
  <2> QED BY <2>1, <2>4 DEF RemovedAreFree, Inv, ClaimInv
<1>3. CASE ~CommitLogout(r) /\ ~CommitDelete(r)
  <2>1. present' = present
    BY <1>3 DEF Serve, Fail, Find, Claim, Rotate, BridgeLookup, ReadActive, ReadSession, Reads, Judge, LockFamily,
         IssueFind, IssueActive, LegacyFind, LegacyIssued, RevokeFamily, EndSession, LogoutFind, LogoutSessions,
         DeleteFind, DeleteTokens, LockToken, LockSession, DeadlockAbort
  <2> QED BY <1>1, <2>1
<1> QED BY <1>2, <1>3

LEMMA ArriveRemoves ==
  ASSUME TypeOK, NEW r \in Requests, Arrive(r)
  PROVE  OnlyRemoves /\ RemovedAreFree
<1>0. /\ access \in [Sessions -> Nat] /\ live \subseteq Sessions /\ gone \subseteq Users
      /\ compromised \subseteq Tokens
  BY DEF TypeOK
<1>1. ASSUME NEW s \in Sessions, SignIn(r, s) PROVE OnlyRemoves /\ present' = present
  BY <1>0, <1>1 DEF SignIn, OnlyRemoves
<1>2. ASSUME \/ \E s \in Sessions : Issue(r, s) \/ ExchangeLegacy(r, s) \/ DeleteUser(r, s)
             \/ \E s \in Sessions, c \in Scopes : Logout(r, s, c)
             \/ \E t \in Tokens : Exchange(r, t)
      PROVE  OnlyRemoves /\ present' = present
  <2>1. UNCHANGED <<tokenVars, sessionVars>>
    BY <1>2 DEF Issue, ExchangeLegacy, DeleteUser, Logout, Exchange
  <2> QED BY <1>0, <2>1 DEF OnlyRemoves
<1> QED BY <1>1, <1>2 DEF Arrive, RemovedAreFree

LEMMA EnvironmentStep ==
  ASSUME Inv, Environment \/ UNCHANGED vars
  PROVE  Inv'
<1>1. UNCHANGED <<minted, present, consumed, compromised, access, live, gone, req>>
  BY DEF Environment, IntervalPasses, TokenExpires, SessionExpires
<1>2. recent' \subseteq Tokens /\ expired' \subseteq Tokens /\ lapsed' \subseteq Sessions
  <2>1. recent \subseteq Tokens /\ expired \subseteq Tokens /\ lapsed \subseteq Sessions /\ live \subseteq Sessions
    BY DEF Inv, TypeOK
  <2> QED BY <2>1 DEF Environment, IntervalPasses, TokenExpires, SessionExpires
<1>3. Tokens' = Tokens
  BY <1>1 DEF Tokens
<1>4. ClaimInv' /\ RotationIsLinear'
  BY <1>1, <1>3 DEF Inv, ClaimInv, RotationIsLinear
<1>5. TypeOK'
  BY <1>1, <1>2, <1>3 DEF Inv, TypeOK
<1> QED BY <1>4, <1>5 DEF Inv

(***************************************************************************)
(* The theorems.                                                           *)
(***************************************************************************)
LEMMA InitInv == Init => Inv
<1> SUFFICES ASSUME Init PROVE ClaimInv /\ RotationIsLinear
  BY InitType DEF Inv
<1>1. Tokens \subseteq {1} /\ \A t \in Tokens : minted[t].parent = 0
  <2>1. CASE minted = <<>>
    BY <2>1 DEF Tokens
  <2>2. ASSUME NEW s \in live,
               minted = <<[session |-> s, parent |-> 0, family |-> 1, opaque |-> FALSE]>>
        PROVE  Tokens \subseteq {1} /\ \A t \in Tokens : minted[t].parent = 0
    <3>1. Len(minted) = 1 /\ minted[1] = [session |-> s, parent |-> 0, family |-> 1, opaque |-> FALSE]
      BY <2>2
    <3> QED BY <3>1 DEF Tokens
  <2> QED BY <2>1, <2>2 DEF Init
<1>2. \A r \in Requests : req[r].pc = "idle" /\ req[r].heldT = {}
  BY DEF Init, Blank
<1> QED BY <1>1, <1>2 DEF ClaimInv, RotationIsLinear

\* The invariant is inductive: every request's step and every passage of time keeps it.
THEOREM Invariant == Spec => []Inv
<1>1. Inv /\ [Next]_vars => Inv'
  <2> SUFFICES ASSUME Inv, [Next]_vars PROVE Inv'
    OBVIOUS
  <2>0. TypeOK
    BY DEF Inv
  <2>1. ASSUME NEW r \in Requests, Serve(r) \/ Fail(r) PROVE Inv'
    <3>1. CASE CommitRotation(r)
      BY <3>1, RotateStep
    <3>2. CASE IssueInsert(r)
      BY <3>2, RootStep
    <3>3. CASE Rotate(r) /\ ~Live(req[r].ses)
      BY <3>3, NullStep
    <3>4. CASE ~CommitRotation(r) /\ ~IssueInsert(r) /\ ~(Rotate(r) /\ ~Live(req[r].ses))
      <4>1. Harmless(r)
        BY <2>1, <3>4, ExchangeHarmless, LocksHarmless, EndsHarmless DEF Serve
      <4>2. OnlyRemoves
        BY <2>0, <2>1, <3>4, ServeRemoves
      <4>3. RemovedAreFree
        BY <2>1, <3>4, ServeFrees
      <4> QED BY <4>1, <4>2, <4>3, HarmlessStep
    <3> QED BY <3>1, <3>2, <3>3, <3>4
  <2>2. ASSUME NEW r \in Requests, Arrive(r) PROVE Inv'
    BY <2>0, <2>2, ArriveHarmless, ArriveRemoves, HarmlessStep
  <2> QED BY <2>1, <2>2, EnvironmentStep DEF Next
<1> QED BY <1>1, InitInv, PTL DEF Spec

\* Every variable keeps its type, whatever requests, failures and time do.
THEOREM TypeCorrect == Spec => []TypeOK
<1>1. Inv => TypeOK
  BY DEF Inv
<1> QED BY <1>1, Invariant, PTL

\* However many refreshes, sign-ins, logouts and deletions race, and wherever
\* they fail: no token has two successors, no family two unconsumed tokens.
THEOREM RotationLinear == Spec => []RotationIsLinear
<1>1. Inv => RotationIsLinear
  BY DEF Inv
<1> QED BY <1>1, Invariant, PTL

(***************************************************************************)
(* The rows implement TokenRegister: each step maps to one of its steps or *)
(* to a stutter.                                                           *)
(***************************************************************************)
USE DEF Register!registerVars

\* The family of a token is one of the families there are.
LEMMA FamilyNames ==
  ASSUME TypeOK
  PROVE  /\ Len(minted) \in Nat /\ Families \subseteq Tokens /\ DOMAIN InForce = Families
         /\ \A t \in Tokens : minted[t].family \in Families
  BY DEF TypeOK, Families, InForce, Tokens

\* A step that mints nothing and makes no row fit for rotation ends families, or none.
LEMMA StepsEndFamilies ==
  ASSUME Inv, minted' = minted, present' \ consumed' \subseteq present \ consumed
  PROVE  Register!RegisterNext
<1> DEFINE F == {f \in Families : InForce'[f] = {}}
<1>1. TypeOK /\ Families' = Families /\ DOMAIN InForce = Families
  BY FamilyNames DEF Inv, Families, Tokens
<1>2. InForce' = [f \in Families |-> {t \in present' \ consumed' : minted[t].family = f}]
  BY <1>1 DEF InForce
<1>3. ASSUME NEW f \in Families, f \notin F
      PROVE  InForce'[f] = InForce[f]
  <2>1. PICK t \in present' \ consumed' : minted[t].family = f
    BY <1>2, <1>3
  <2>2. t \in Tokens
    BY <2>1 DEF Inv, TypeOK
  <2>3. \A u \in present \ consumed : minted[u].family = f => u = t
    BY <2>1, <2>2 DEF Inv, TypeOK, RotationIsLinear
  <2> QED BY <1>2, <2>1, <2>3 DEF InForce
<1>4. InForce' = [f \in DOMAIN InForce |-> IF f \in F THEN {} ELSE InForce[f]]
  BY <1>1, <1>2, <1>3
<1>5. F \in SUBSET DOMAIN InForce /\ Len(minted)' = Len(minted)
  BY <1>1
<1> HIDE DEF F
<1> QED BY <1>4, <1>5 DEF Register!RegisterNext, Register!EndFamilies

\* What inserting a row does to the rows that there are.
LEMMA RowsAfterMint ==
  ASSUME TypeOK, NEW s \in Sessions, NEW p \in 0..Len(minted), Mint(s, p)
  PROVE  LET n == Len(minted) IN
         /\ n \in Nat /\ n + 1 \notin Tokens /\ Tokens' = Tokens \cup {n + 1} /\ Len(minted)' = n + 1
         /\ \A u \in Tokens : minted'[u] = minted[u]
         /\ minted'[n + 1].family = IF p = 0 THEN n + 1 ELSE minted[p].family
         /\ present' = present \cup {n + 1}
<1> DEFINE n == Len(minted)
           row == [session |-> s, parent |-> p, family |-> IF p = 0 THEN n + 1 ELSE minted[p].family,
                   opaque |-> TRUE]
<1>1. /\ n \in Nat /\ minted \in Seq([session : Sessions, parent : Nat, family : Nat, opaque : BOOLEAN])
      /\ minted' = Append(minted, row) /\ present' = present \cup {n + 1}
  BY DEF TypeOK, Mint
<1>2. row.family = IF p = 0 THEN n + 1 ELSE minted[p].family
  OBVIOUS
<1> HIDE DEF row
<1>3. /\ Len(minted') = n + 1 /\ minted'[n + 1] = row
      /\ \A u \in 1..n : minted'[u] = minted[u]
  BY <1>1
<1> QED BY <1>1, <1>2, <1>3 DEF Tokens

\* A root token starts a family of its own.
LEMMA RootsStartFamilies ==
  ASSUME Inv, NEW r \in Requests, IssueInsert(r)
  PROVE  Register!StartFamily
<1> DEFINE n == Len(minted)
<1>0. TypeOK /\ n \in Nat /\ req[r].ses \in Sessions
  <2>1. TypeOK
    BY DEF Inv
  <2>2. n \in Nat /\ req[r].ses \in Sessions
    BY <2>1 DEF TypeOK, RequestType
  <2> QED BY <2>1, <2>2
<1>1. TypeOK /\ req[r].ses \in Sessions /\ 0 \in 0..n /\ Mint(req[r].ses, 0) /\ consumed' = consumed
  BY <1>0 DEF IssueInsert
<1>2. /\ n \in Nat /\ n + 1 \notin Tokens /\ Tokens' = Tokens \cup {n + 1} /\ Len(minted)' = n + 1
      /\ \A u \in Tokens : minted'[u] = minted[u]
      /\ minted'[n + 1].family = n + 1
      /\ present' = present \cup {n + 1}
  BY <1>1, RowsAfterMint
<1>3. /\ Families' = Families \cup {n + 1} /\ n + 1 \notin Families
      /\ DOMAIN InForce = Families /\ present \cup consumed \subseteq Tokens
  <2>1. Families \subseteq Tokens /\ DOMAIN InForce = Families
    BY <1>1, FamilyNames
  <2>2. Families' = Families \cup {n + 1}
    BY <1>2 DEF Families
  <2> QED BY <1>1, <1>2, <2>1, <2>2 DEF TypeOK
<1> HIDE DEF n
<1>4. ASSUME NEW f \in Families'
      PROVE  {t \in present' \ consumed' : minted'[t].family = f} =
                IF f = n + 1 THEN {n + 1} ELSE {t \in present \ consumed : minted[t].family = f}
  <2>1. n + 1 \notin present \cup consumed /\ \A u \in present : minted[u].family \in Families /\ u \in Tokens
    BY <1>1, <1>2, <1>3, FamilyNames
  <2> QED BY <1>1, <1>2, <1>3, <2>1
<1>5. InForce' = [f \in Families' |-> IF f = n + 1 THEN {n + 1} ELSE InForce[f]]
  BY <1>3, <1>4 DEF InForce
<1> QED BY <1>2, <1>3, <1>5 DEF Register!StartFamily, n

\* A rotation replaces the only row of its family that was still fit for one.
LEMMA RotationsRotate ==
  ASSUME Inv, NEW r \in Requests, CommitRotation(r)
  PROVE  \E f \in DOMAIN InForce : Register!RotateToken(f)
<1> DEFINE n == Len(minted)
           t == req[r].tok
           f == minted[t].family
<1>0. TypeOK /\ n \in Nat /\ req[r].ses \in Sessions
  <2>1. TypeOK
    BY DEF Inv
  <2>2. n \in Nat /\ req[r].ses \in Sessions
    BY <2>1 DEF TypeOK, RequestType
  <2> QED BY <2>1, <2>2
<1>1. TypeOK /\ n \in Nat /\ req[r].pc = "commit" /\ req[r].ses \in Sessions
      /\ Mint(req[r].ses, t) /\ consumed' = consumed \cup {t}
  BY <1>0 DEF CommitRotation, At
<1>2. t \in present \ consumed /\ t \in Tokens
  BY <1>1 DEF Inv, ClaimInv, TypeOK
<1>3. t \in 0..n /\ t # 0
  BY <1>1, <1>2 DEF Tokens
<1>4. /\ n + 1 \notin Tokens /\ Tokens' = Tokens \cup {n + 1} /\ Len(minted)' = n + 1
      /\ \A u \in Tokens : minted'[u] = minted[u]
      /\ minted'[n + 1].family = f
      /\ present' = present \cup {n + 1}
  BY <1>1, <1>3, RowsAfterMint
<1>5. f \in Families /\ DOMAIN InForce = Families /\ present \cup consumed \subseteq Tokens
  BY <1>1, <1>2, FamilyNames DEF TypeOK
<1>6. Families' = Families
  BY <1>4, <1>5 DEF Families
<1>7. \A u \in present \ consumed : minted[u].family = f => u = t
  BY <1>2, <1>5 DEF Inv, RotationIsLinear
<1> HIDE DEF n, t, f
<1>8. ASSUME NEW g \in Families
      PROVE  {u \in present' \ consumed' : minted'[u].family = g} =
                IF g = f THEN {n + 1} ELSE {u \in present \ consumed : minted[u].family = g}
  <2>1. n + 1 \notin present \cup consumed /\ n + 1 # t /\ minted[t].family = f
    BY <1>2, <1>4, <1>5 DEF f
  <2> QED BY <1>1, <1>2, <1>4, <1>5, <1>7, <2>1
<1>9. InForce' = [InForce EXCEPT ![f] = {n + 1}]
  BY <1>5, <1>6, <1>8 DEF InForce
<1>10. InForce[f] # {}
  BY <1>2, <1>5 DEF InForce, f
<1> QED BY <1>4, <1>5, <1>9, <1>10 DEF Register!RotateToken, n

LEMMA InitIsRegister == Init => Register!RegisterInit
<1> SUFFICES ASSUME Init PROVE Register!RegisterInit
  OBVIOUS
<1>1. Len(minted) \in Nat /\ \A t \in Tokens : minted[t].family = t
  <2>1. CASE minted = <<>>
    BY <2>1 DEF Tokens
  <2>2. ASSUME NEW s \in live,
               minted = <<[session |-> s, parent |-> 0, family |-> 1, opaque |-> FALSE]>>
        PROVE  Len(minted) \in Nat /\ \A t \in Tokens : minted[t].family = t
    <3>1. Len(minted) = 1 /\ minted[1] = [session |-> s, parent |-> 0, family |-> 1, opaque |-> FALSE]
      BY <2>2
    <3> QED BY <3>1 DEF Tokens
  <2> QED BY <2>1, <2>2 DEF Init
<1>2. Families = Tokens /\ present = Tokens /\ consumed = {}
  BY <1>1 DEF Init, Families, Tokens
<1>3. InForce = [f \in Tokens |-> {f}]
  BY <1>1, <1>2 DEF InForce
<1> QED BY <1>1, <1>3 DEF Register!RegisterInit, Tokens

\* Every token either starts a family or takes the place of the only one of its
\* family that could still be rotated, and a family that has ended stays so:
\* however many refreshes, sign-ins, logouts and deletions race and fail.
THEOREM FamiliesStayRegistered == Spec => FamiliesAreRegisters
<1>1. Inv /\ [Next]_vars => [Register!RegisterNext]_(Register!registerVars)
  <2> SUFFICES ASSUME Inv, [Next]_vars PROVE Register!RegisterNext
    OBVIOUS
  <2>0. TypeOK
    BY DEF Inv
  <2>1. ASSUME NEW r \in Requests, Serve(r) \/ Fail(r) PROVE Register!RegisterNext
    <3>1. CASE CommitRotation(r)
      BY <3>1, RotationsRotate DEF Register!RegisterNext
    <3>2. CASE IssueInsert(r)
      BY <3>2, RootsStartFamilies DEF Register!RegisterNext
    <3>3. CASE Rotate(r) /\ ~Live(req[r].ses)
      <4>1. minted' = minted /\ present' = present /\ consumed \subseteq consumed'
        BY <3>3 DEF Rotate
      <4> QED BY <4>1, StepsEndFamilies
    <3>4. CASE ~CommitRotation(r) /\ ~IssueInsert(r) /\ ~(Rotate(r) /\ ~Live(req[r].ses))
      <4>1. OnlyRemoves
        BY <2>0, <2>1, <3>4, ServeRemoves
      <4> QED BY <4>1, StepsEndFamilies DEF OnlyRemoves
    <3> QED BY <3>1, <3>2, <3>3, <3>4
  <2>2. ASSUME NEW r \in Requests, Arrive(r) PROVE Register!RegisterNext
    <3>1. OnlyRemoves
      BY <2>0, <2>2, ArriveRemoves
    <3> QED BY <3>1, StepsEndFamilies DEF OnlyRemoves
  <2>3. CASE Environment \/ UNCHANGED vars
    <3>1. UNCHANGED <<minted, present, consumed>>
      BY <2>3 DEF Environment, IntervalPasses, TokenExpires, SessionExpires
    <3> QED BY <3>1, StepsEndFamilies
  <2> QED BY <2>1, <2>2, <2>3 DEF Next
<1> QED BY <1>1, InitIsRegister, Invariant, PTL DEF Spec, FamiliesAreRegisters, Register!RegisterSpec

(***************************************************************************)
(* Pairs and replays.  A session whose tokens there are has signed in, so  *)
(* it does not come back once it has ended; its access version only grows, *)
(* and grows with every token of it that is consumed while it lives.       *)
(***************************************************************************)
\* The token of the pair that x answers.
PairOf(x) == IF x.pc = "idle" THEN x.tok ELSE x.act
\* What request x relies on.
Fits(x) ==
    /\ x.acc <= access[x.ses]
    /\ x.pc # "idle" \/ x.out = "replay" => access[x.ses] > 0
    /\ x.pc \in TokenPcs => minted[x.tok].session = x.ses
    /\ x.pc \in {"logoutFind", "logoutSessions", "deleteFind"} => x.heldT = {} /\ x.wantT = {}
    /\ x.pc = "logoutTokens" => \A t \in x.heldT \cup x.wantT : minted[t].session \in x.heldS
    /\ x.pc \in {"deleteTokens", "deleteSessions"} =>
         \A t \in x.heldT \cup x.wantT : Owner[minted[t].session] = Owner[x.ses]
    /\ x.pc \in {"idle", "bridge"} /\ x.out = "pair" =>
         /\ PairOf(x) \in Tokens /\ minted[PairOf(x)].session = x.ses
         /\ Live(x.ses) /\ access[x.ses] = x.acc => PairOf(x) \notin consumed
    /\ x.out = "replay" => x.pc = "idle" /\ ~Live(x.ses)
\* Whose tokens there are has signed in, and a token's session is its parent's.
Lineage == \A t \in Tokens :
    /\ access[minted[t].session] > 0
    /\ minted[t].parent # 0 => minted[minted[t].parent].session = minted[t].session
PairInv == Lineage /\ ConsumedHasChild /\ \A r \in Requests : Fits(req[r])

\* What a step may do to the sessions and tokens that there are.
Forward ==
    /\ Tokens \subseteq Tokens' /\ \A t \in Tokens : minted'[t] = minted[t]
    /\ access' \in [Sessions -> Nat] /\ \A s \in Sessions : access[s] <= access'[s]
    /\ \A s \in Sessions : access[s] > 0 /\ Live(s)' => Live(s)
    /\ \A t \in Tokens : t \in consumed' /\ t \notin consumed /\ Live(minted[t].session)' =>
         access'[minted[t].session] > access[minted[t].session]

LEMMA OthersFit ==
  ASSUME Inv, Lineage, Forward, NEW x \in RequestType(Len(minted)), Fits(x)
  PROVE  Fits(x)'
<1>1. /\ x.ses \in Sessions /\ x.acc \in Nat /\ x.heldT \cup x.wantT \subseteq Tokens
      /\ x.pc \in TokenPcs => x.tok \in Tokens
      /\ access \in [Sessions -> Nat] /\ access' \in [Sessions -> Nat]
  BY DEF RequestType, Tokens, Forward, Inv, TypeOK
<1>2. access[x.ses] <= access'[x.ses] /\ access[x.ses] \in Nat /\ access'[x.ses] \in Nat
  BY <1>1 DEF Forward
<1>3. (x.acc <= access[x.ses])'
  BY <1>1, <1>2 DEF Fits
<1>4. (x.pc # "idle" \/ x.out = "replay" => access[x.ses] > 0)'
  BY <1>1, <1>2 DEF Fits
<1>5. /\ (x.pc \in TokenPcs => minted[x.tok].session = x.ses)'
      /\ (x.pc \in {"logoutFind", "logoutSessions", "deleteFind"} => x.heldT = {} /\ x.wantT = {})'
      /\ (x.pc = "logoutTokens" => \A t \in x.heldT \cup x.wantT : minted[t].session \in x.heldS)'
      /\ (x.pc \in {"deleteTokens", "deleteSessions"} =>
            \A t \in x.heldT \cup x.wantT : Owner[minted[t].session] = Owner[x.ses])'
  BY <1>1 DEF Fits, Forward
<1>6. (x.out = "replay" => x.pc = "idle" /\ ~Live(x.ses))'
  <2>1. x.out = "replay" => access[x.ses] > 0 /\ ~Live(x.ses) /\ x.pc = "idle"
    BY DEF Fits
  <2> QED BY <1>1, <2>1 DEF Forward
<1>7. ASSUME x.pc \in {"idle", "bridge"}, x.out = "pair"
      PROVE  /\ PairOf(x) \in Tokens' /\ minted'[PairOf(x)].session = x.ses
             /\ Live(x.ses)' /\ access'[x.ses] = x.acc => PairOf(x) \notin consumed'
  <2>1. PICK t : t = PairOf(x)
    OBVIOUS
  <2>2. t \in Tokens /\ minted[t].session = x.ses /\ (Live(x.ses) /\ access[x.ses] = x.acc => t \notin consumed)
    BY <1>7, <2>1 DEF Fits
  <2>3. access[x.ses] > 0
    BY <2>2 DEF Lineage
  <2>4. ASSUME Live(x.ses)', access'[x.ses] = x.acc PROVE t \notin consumed'
    <3>1. Live(x.ses)
      BY <1>1, <2>3, <2>4 DEF Forward
    <3>2. access[x.ses] = x.acc
      BY <1>1, <1>2, <2>4 DEF Fits
    <3>3. t \notin consumed
      BY <2>2, <3>1, <3>2
    <3>4. t \in consumed' => access'[x.ses] > access[x.ses]
      BY <2>2, <2>4, <3>3 DEF Forward
    <3> QED BY <1>2, <2>4, <3>2, <3>4
  <2> QED BY <2>1, <2>2, <2>4 DEF Forward
<1>8. (x.pc \in {"idle", "bridge"} /\ x.out = "pair" =>
         /\ PairOf(x) \in Tokens /\ minted[PairOf(x)].session = x.ses
         /\ Live(x.ses) /\ access[x.ses] = x.acc => PairOf(x) \notin consumed)'
  BY <1>7 DEF PairOf
<1> QED BY <1>3, <1>4, <1>5, <1>6, <1>8 DEF Fits

LEMMA ReqFacts ==
  ASSUME Inv, PairInv, NEW r \in Requests
  PROVE  /\ req[r] \in RequestType(Len(minted)) /\ Fits(req[r]) /\ Len(minted) \in Nat
         /\ req[r].ses \in Sessions /\ access[req[r].ses] \in Nat /\ req[r].acc \in Nat
         /\ req[r].act \in 0..Len(minted) /\ req[r].heldT \cup req[r].wantT \subseteq Tokens
         /\ req[r].pc \in TokenPcs => req[r].tok \in Tokens
<1>1. req[r] \in RequestType(Len(minted)) /\ Fits(req[r]) /\ Len(minted) \in Nat /\ access \in [Sessions -> Nat]
  BY DEF Inv, TypeOK, PairInv
<1>2. PICK x, n : x = req[r] /\ n = Len(minted)
  OBVIOUS
<1>3. x \in RequestType(n) /\ n \in Nat
  BY <1>1, <1>2
<1>4. /\ x.ses \in Sessions /\ x.acc \in Nat /\ x.act \in 0..n /\ x.heldT \cup x.wantT \subseteq 1..n
      /\ x.pc \in TokenPcs => x.tok \in 1..n
  BY <1>3 DEF RequestType
<1> QED BY <1>1, <1>2, <1>4 DEF Tokens

\* A step of r, which becomes x.
LEMMA FitsAll ==
  ASSUME Inv, PairInv, Forward, NEW r \in Requests, NEW x, Assign(r, x), Fits(x)'
  PROVE  \A q \in Requests : Fits(req[q])'
<1>1. req'[r] = x /\ \A q \in Requests \ {r} : req'[q] = req[q]
  BY DEF Inv, TypeOK
<1>2. ASSUME NEW q \in Requests \ {r} PROVE Fits(req[q])'
  <2>1. PICK y : y = req[q]
    OBVIOUS
  <2>2. y \in RequestType(Len(minted)) /\ Fits(y)
    BY <2>1, ReqFacts
  <2>3. Fits(y)'
    BY <2>2, OthersFit DEF PairInv
  <2> QED BY <1>1, <2>1, <2>3 DEF Fits, PairOf
<1>3. Fits(req[r])'
  BY <1>1 DEF Fits, PairOf
<1> QED BY <1>2, <1>3

\* A step of r that changes nothing of this.
LEMMA LocalStep ==
  ASSUME Inv, PairInv, NEW r \in Requests, UNCHANGED <<minted, present, consumed, sessionVars>>,
         NEW x \in RequestType(Len(minted)), Assign(r, x), Fits(x)
  PROVE  PairInv'
<1>1. Tokens' = Tokens
  BY DEF Tokens
<1>2. \A s : Live(s)' = Live(s)
  BY DEF Live
<1>3. access \in [Sessions -> Nat]
  BY DEF Inv, TypeOK
<1>4. Forward
  BY <1>1, <1>2, <1>3 DEF Forward
<1>5. Fits(x)'
  BY <1>4, OthersFit DEF PairInv
<1>6. \A q \in Requests : Fits(req[q])'
  BY <1>4, <1>5, FitsAll
<1>7. Lineage' /\ ConsumedHasChild'
  BY <1>1, <1>2 DEF PairInv, Lineage, ConsumedHasChild, Children
<1> QED BY <1>6, <1>7 DEF PairInv

\* A request goes on, in the exchange of a token or in issuing one, or with its locks.
LEMMA MoveStep ==
  ASSUME Inv, PairInv, NEW r \in Requests, UNCHANGED <<minted, present, consumed, sessionVars>>,
         NEW x \in RequestType(Len(minted)), Assign(r, x),
         req[r].pc # "idle", x.ses = req[r].ses, x.acc <= access[x.ses], x.out = req[r].out \/ x.out = "pair",
         x.pc \notin {"idle", "bridge", "logoutFind", "logoutSessions", "deleteFind"},
         x.pc \in TokenPcs => req[r].pc \in TokenPcs /\ x.tok = req[r].tok,
         x.pc = "logoutTokens" => \A t \in x.heldT \cup x.wantT : minted[t].session \in x.heldS,
         x.pc \in {"deleteTokens", "deleteSessions"} =>
           \A t \in x.heldT \cup x.wantT : Owner[minted[t].session] = Owner[x.ses]
  PROVE  PairInv'
<1>1. Fits(x)
  BY ReqFacts DEF Fits
<1> QED BY <1>1, LocalStep

LEMMA FinishShape ==
  ASSUME Inv, PairInv, NEW r \in Requests, NEW o \in Outs, Finish(r, o)
  PROVE  \E x \in RequestType(Len(minted)) :
           /\ Assign(r, x) /\ x.pc = "idle" /\ x.out = o
           /\ x.acc = 0 \/ (x.acc = req[r].acc /\ x.ses = req[r].ses)
           /\ o = "replay" => x.ses = req[r].ses
           /\ o = "pair" => x.ses = req[r].ses /\ x.acc = req[r].acc /\ x.tok = req[r].act
<1> DEFINE n == Len(minted)
<1>1. n \in Nat /\ req[r].ses \in Sessions /\ req[r].act \in 0..n /\ req[r].acc \in Nat
  BY ReqFacts
<1>2. CASE o \in {"pair", "reusePair"}
  <2>0. PICK b \in RequestType(n) : b = Blank(req[r].ses)
    BY <1>1, BlankType
  <2>00. b.pc = "idle" /\ b.ses = req[r].ses
    BY <2>0 DEF Blank
  <2>1. PICK x : x = [b EXCEPT !.out = o, !.tok = req[r].act, !.acc = req[r].acc]
    OBVIOUS
  <2>2. /\ x \in RequestType(n) /\ x.pc = "idle" /\ x.out = o /\ x.acc = req[r].acc /\ x.ses = req[r].ses
        /\ x.tok = req[r].act
    BY <1>1, <2>00, <2>1 DEF RequestType, TokenPcs
  <2>3. Assign(r, x)
    BY <1>2, <2>0, <2>1 DEF Finish
  <2> QED BY <1>2, <2>2, <2>3
<1>3. CASE o \notin {"pair", "reusePair"}
  <2>1. PICK s : s = IF o \in {"replay", "bridgeFailed"} THEN req[r].ses ELSE NoSession
    OBVIOUS
  <2>2. s \in Sessions
    BY <1>1, <2>1, NoSessionType
  <2>3. PICK x : x = [Blank(s) EXCEPT !.out = o]
    OBVIOUS
  <2>4. x \in RequestType(n) /\ x.pc = "idle" /\ x.out = o /\ x.acc = 0 /\ x.ses = s
    BY <1>1, <2>2, <2>3 DEF Blank, RequestType, Pcs, Outs, Scopes, TokenPcs
  <2>5. Assign(r, x)
    BY <1>3, <2>1, <2>3 DEF Finish
  <2> QED BY <1>3, <2>1, <2>4, <2>5
<1> QED BY <1>2, <1>3

\* A request ends without a replay, or with the pair it had.
LEMMA FinishStep ==
  ASSUME Inv, PairInv, NEW r \in Requests, NEW o \in Outs \ {"replay"}, Finish(r, o),
         UNCHANGED <<minted, present, consumed, sessionVars>>, o = "pair" => req[r].pc = "bridge" /\ req[r].out = "pair"
  PROVE  PairInv'
<1>1. PICK x \in RequestType(Len(minted)) :
           /\ Assign(r, x) /\ x.pc = "idle" /\ x.out = o
           /\ x.acc = 0 \/ (x.acc = req[r].acc /\ x.ses = req[r].ses)
           /\ o = "pair" => x.ses = req[r].ses /\ x.acc = req[r].acc /\ x.tok = req[r].act
  BY FinishShape
<1>2. x.ses \in Sessions /\ access[x.ses] \in Nat
  BY <1>1 DEF RequestType, Inv, TypeOK
<1>3. x.acc <= access[x.ses]
  BY <1>1, <1>2, ReqFacts DEF Fits
<1>4. o = "pair" => /\ x.tok \in Tokens /\ minted[x.tok].session = x.ses
                    /\ Live(x.ses) /\ access[x.ses] = x.acc => x.tok \notin consumed
  BY <1>1, ReqFacts DEF Fits, PairOf
<1>5. Fits(x)
  BY <1>1, <1>3, <1>4 DEF Fits, PairOf, TokenPcs
<1> QED BY <1>1, <1>5, LocalStep

LEMMA BridgeShape ==
  ASSUME Inv, PairInv, NEW r \in Requests, NEW n \in Nat, NEW a \in Nat, NEW t \in 0..n, NEW o \in Outs, Bridge(r, a, t, o)
  PROVE  \E x \in RequestType(n) : /\ Assign(r, x) /\ x.pc = "bridge" /\ x.out = o /\ x.ses = req[r].ses
                                   /\ x.acc = a /\ x.act = t
<1>0. PICK b \in RequestType(n) : b = Blank(req[r].ses)
  BY ReqFacts, BlankType
<1>00. b.ses = req[r].ses
  BY <1>0 DEF Blank
<1>1. PICK x : x = [b EXCEPT !.pc = "bridge", !.out = o, !.acc = a, !.act = t]
  OBVIOUS
<1>2. x.pc = "bridge" /\ x.out = o /\ x.ses = req[r].ses /\ x.acc = a /\ x.act = t
  BY <1>00, <1>1 DEF RequestType
<1>3. x \in RequestType(n)
  BY <1>1 DEF RequestType, TokenPcs, Pcs
<1> QED BY <1>0, <1>1, <1>2, <1>3 DEF Bridge

\* The pair that a bridge looks up is one of the session, and not consumed while current.
LEMMA BridgeStep ==
  ASSUME Inv, PairInv, NEW r \in Requests, NEW t \in 0..Len(minted), NEW o \in {"pair", "reusePair"},
         Bridge(r, req[r].acc, t, o), UNCHANGED <<minted, present, consumed, sessionVars>>, req[r].pc # "idle",
         o = "pair" => t \in Tokens /\ minted[t].session = req[r].ses /\ t \notin consumed
  PROVE  PairInv'
<1>1. o \in Outs
  BY DEF Outs
<1>2. PICK x \in RequestType(Len(minted)) : /\ Assign(r, x) /\ x.pc = "bridge" /\ x.out = o /\ x.ses = req[r].ses
                                            /\ x.acc = req[r].acc /\ x.act = t
  BY <1>1, ReqFacts, BridgeShape
<1>3. Fits(x)
  BY <1>2, ReqFacts DEF Fits, PairOf, TokenPcs
<1> QED BY <1>2, <1>3, LocalStep

LEMMA GotoStep ==
  ASSUME Inv, PairInv, NEW r \in Requests, NEW l \in Pcs, Goto(r, l), UNCHANGED <<tokenVars, sessionVars>>,
         req[r].pc # "idle",
         l \notin {"idle", "bridge", "logoutFind", "logoutSessions", "logoutTokens", "deleteFind", "deleteTokens",
                   "deleteSessions"},
         l \in TokenPcs => req[r].pc \in TokenPcs
  PROVE  PairInv'
<1>1. req[r] \in RequestType(Len(minted))
  BY ReqFacts
<1>2. PICK x : x = [req[r] EXCEPT !.pc = l]
  OBVIOUS
<1>3. x \in RequestType(Len(minted)) /\ x.pc = l /\ x.ses = req[r].ses /\ x.acc = req[r].acc /\ x.out = req[r].out
      /\ x.tok = req[r].tok
  BY <1>1, <1>2 DEF RequestType
<1>4. x.acc <= access[x.ses]
  BY <1>3, ReqFacts DEF Fits
<1> QED BY <1>2, <1>3, <1>4, MoveStep DEF Goto

\* The exchange of a token up to its claim, and what finds a reuse.
LEMMA ExchangePairs ==
  ASSUME Inv, PairInv, NEW r \in Requests,
         Find(r) \/ Claim(r) \/ (Rotate(r) /\ Live(req[r].ses)) \/ ReadActive(r) \/ ReadSession(r) \/ LockFamily(r) \/ RevokeFamily(r)
  PROVE  PairInv'
<1>1. req[r] \in RequestType(Len(minted)) /\ Fits(req[r]) /\ Len(minted) \in Nat /\ access \in [Sessions -> Nat]
      /\ present \subseteq Tokens /\ req[r].acc <= access[req[r].ses] /\ req[r].ses \in Sessions
  BY ReqFacts DEF Inv, TypeOK, Fits
<1>2. CASE Find(r)
  <2>1. "claim" \in Pcs /\ "refused" \in Outs /\ req[r].pc = "find" /\ "find" \in TokenPcs
    BY <1>2 DEF Pcs, Outs, Find, At, TokenPcs
  <2> QED BY <1>2, <2>1, GotoStep, FinishStep DEF Find
<1>3. CASE Claim(r)
  <2>1. "reuse" \in Pcs /\ "rotate" \in Pcs /\ req[r].pc = "claim" /\ {"claim", "rotate"} \subseteq TokenPcs
        /\ UNCHANGED <<tokenVars, sessionVars>>
    BY <1>3 DEF Pcs, Claim, At, TokenPcs
  <2>2. CASE Goto(r, "reuse")
    BY <2>1, <2>2, GotoStep
  <2>3. CASE Assign(r, [req[r] EXCEPT !.pc = "rotate", !.heldT = {req[r].tok}]) /\ req[r].tok \in present
    <3>1. PICK x : x = [req[r] EXCEPT !.pc = "rotate", !.heldT = {req[r].tok}]
      OBVIOUS
    <3>2. req[r].tok \in 1..Len(minted) /\ req[r].tok # 0
      BY <1>1, <2>3 DEF Tokens
    <3>3. x \in RequestType(Len(minted)) /\ x.pc = "rotate" /\ x.ses = req[r].ses /\ x.acc = req[r].acc
          /\ x.out = req[r].out /\ x.tok = req[r].tok
      BY <1>1, <2>1, <3>1, <3>2 DEF RequestType
    <3> QED BY <1>1, <2>1, <2>3, <3>1, <3>3, MoveStep
  <2> QED BY <1>3, <2>2, <2>3 DEF Claim
<1>4. CASE Rotate(r) /\ Live(req[r].ses)
  <2>1. "commit" \in Pcs /\ req[r].pc = "rotate" /\ {"commit", "rotate"} \subseteq TokenPcs
        /\ UNCHANGED <<tokenVars, sessionVars>>
    BY <1>4 DEF Pcs, Rotate, At, TokenPcs
  <2>2. PICK x : x = [req[r] EXCEPT !.pc = "commit", !.heldS = {req[r].ses}]
    OBVIOUS
  <2>3. Assign(r, x)
    BY <1>4, <2>2 DEF Rotate
  <2>4. x \in RequestType(Len(minted)) /\ x.pc = "commit" /\ x.ses = req[r].ses /\ x.acc = req[r].acc
          /\ x.out = req[r].out /\ x.tok = req[r].tok
    BY <1>1, <2>1, <2>2 DEF RequestType
  <2> QED BY <1>1, <2>1, <2>3, <2>4, MoveStep
<1>5. ASSUME NEW what \in {"active", "session"}, NEW a \in 0..Len(minted), NEW acc \in Nat, acc <= access[req[r].ses],
             Reads(r, what, a, acc)
      PROVE  PairInv'
  <2>1. PICK seen, l : seen = req[r].seen \cup {what} /\ l = IF seen = {"active", "session"} THEN "judge" ELSE "reuse"
    OBVIOUS
  <2>2. l \in {"judge", "reuse"} /\ {"judge", "reuse"} \subseteq Pcs /\ {"judge", "reuse"} \subseteq TokenPcs /\ req[r].pc = "reuse"
        /\ UNCHANGED <<tokenVars, sessionVars>>
    BY <1>5, <2>1 DEF Pcs, TokenPcs, Reads, At
  <2>3. PICK x : x = [req[r] EXCEPT !.act = a, !.acc = acc, !.seen = seen, !.pc = l]
    OBVIOUS
  <2>4. Assign(r, x)
    BY <1>5, <2>1, <2>3 DEF Reads
  <2>5. seen \in SUBSET {"active", "session"}
    BY <1>1, <2>1 DEF RequestType
  <2>6. x \in RequestType(Len(minted)) /\ x.pc = l /\ x.ses = req[r].ses /\ x.acc = acc
          /\ x.out = req[r].out /\ x.tok = req[r].tok
    BY <1>1, <2>2, <2>3, <2>5 DEF RequestType
  <2> QED BY <1>1, <1>5, <2>2, <2>4, <2>6, MoveStep
<1>6. CASE ReadActive(r)
  BY <1>1, <1>5, <1>6, ReqFacts DEF ReadActive
<1>7. CASE ReadSession(r)
  <2>1. PICK acc : acc = IF Live(req[r].ses) THEN access[req[r].ses] ELSE 0
    OBVIOUS
  <2>2. acc \in Nat /\ acc <= access[req[r].ses]
    BY <1>1, <2>1
  <2> QED BY <1>5, <1>7, <2>1, <2>2, ReqFacts DEF ReadSession
<1>8. CASE LockFamily(r)
  <2>1. PICK W : W = Family(req[r].tok)
    OBVIOUS
  <2>2. W \subseteq 1..Len(minted) /\ "revokeFamily" \in Pcs /\ "revokeFamily" \notin TokenPcs
    BY <1>1, <2>1 DEF Family, Tokens, Pcs, TokenPcs
  <2>3. PICK x : x = [req[r] EXCEPT !.pc = "revokeFamily", !.wantT = W]
    OBVIOUS
  <2>4. x \in RequestType(Len(minted)) /\ x.pc = "revokeFamily" /\ x.ses = req[r].ses /\ x.acc = req[r].acc /\ x.out = req[r].out
    BY <1>1, <2>2, <2>3 DEF RequestType
  <2>5. Assign(r, x) /\ req[r].pc = "lockFamily" /\ UNCHANGED <<tokenVars, sessionVars>>
    BY <1>8, <2>1, <2>3 DEF LockFamily, At
  <2> QED BY <1>1, <2>2, <2>4, <2>5, MoveStep
<1>9. CASE RevokeFamily(r)
  <2>1. PICK x : x = [req[r] EXCEPT !.pc = "endSession", !.wantT = {}, !.heldT = {}]
    OBVIOUS
  <2>2. x \in RequestType(Len(minted)) /\ x.pc = "endSession" /\ x.ses = req[r].ses /\ x.acc = req[r].acc /\ x.out = req[r].out
    BY <1>1, <2>1 DEF RequestType, Pcs, TokenPcs
  <2>3. Assign(r, x) /\ req[r].pc = "revokeFamily" /\ UNCHANGED <<minted, present, consumed, sessionVars>>
        /\ "endSession" \notin TokenPcs
    BY <1>9, <2>1 DEF RevokeFamily, At, TokenPcs
  <2> QED BY <1>1, <2>2, <2>3, MoveStep
<1> QED BY <1>2, <1>3, <1>4, <1>6, <1>7, <1>8, <1>9

\* The verdict of a reuse, the issuing of a token that there is, and the bridge.
LEMMA AnswerPairs ==
  ASSUME Inv, PairInv, NEW r \in Requests,
         Judge(r) \/ BridgeLookup(r) \/ IssueFind(r) \/ IssueActive(r) \/ LegacyFind(r) \/ LegacyIssued(r)
  PROVE  PairInv'
<1>1. req[r] \in RequestType(Len(minted)) /\ Fits(req[r]) /\ Len(minted) \in Nat
      /\ present \subseteq Tokens /\ req[r].acc <= access[req[r].ses] /\ req[r].ses \in Sessions
      /\ req[r].act \in 0..Len(minted) /\ req[r].out \in Outs
  BY ReqFacts DEF Inv, TypeOK, Fits, RequestType
<1>2. {"ok", "refused", "reusePair", "pair", "bridgeFailed", "noChild"} \subseteq Outs \ {"replay"}
  BY DEF Outs
<1>3. {"lockFamily", "issueActive", "issueInsert", "legacyIssued", "issueFind"} \subseteq Pcs
      /\ {"lockFamily", "judge"} \subseteq TokenPcs
      /\ {"issueActive", "issueInsert", "legacyIssued", "issueFind"} \cap TokenPcs = {}
  BY DEF Pcs, TokenPcs
<1>4. CASE Judge(r)
  <2>1. req[r].pc = "judge" /\ UNCHANGED <<tokenVars, sessionVars>>
    BY <1>4 DEF Judge, At
  <2>2. Bridge(r, req[r].acc, req[r].act, "reusePair") \/ Finish(r, "noChild") \/ Goto(r, "lockFamily")
    BY <1>4 DEF Judge
  <2> QED BY <1>1, <1>2, <1>3, <2>1, <2>2, GotoStep, FinishStep, BridgeStep
<1>5. CASE BridgeLookup(r)
  <2>1. req[r].pc = "bridge" /\ UNCHANGED <<tokenVars, sessionVars>>
    BY <1>5 DEF BridgeLookup, At
  <2>2. req[r].out # "replay"
    BY <1>1, <2>1 DEF Fits
  <2>3. Finish(r, req[r].out) \/ Finish(r, "bridgeFailed")
    BY <1>5 DEF BridgeLookup
  <2> QED BY <1>1, <1>2, <2>1, <2>2, <2>3, FinishStep
<1>6. CASE IssueFind(r)
  BY <1>2, <1>3, <1>6, GotoStep, FinishStep DEF IssueFind, At
<1>7. CASE LegacyFind(r)
  BY <1>2, <1>3, <1>7, GotoStep, FinishStep DEF LegacyFind, At
<1>8. CASE IssueActive(r)
  <2>1. req[r].pc = "issueActive" /\ UNCHANGED <<tokenVars, sessionVars>>
    BY <1>8 DEF IssueActive, At
  <2>2. PICK a \in 0..Len(minted) : /\ ActiveToken(req[r].ses, a)
                                    /\ IF a = 0 THEN Goto(r, "issueInsert") ELSE Answer(r, a)
    BY <1>8 DEF IssueActive
  <2>3. a # 0 => a \in Tokens /\ minted[a].session = req[r].ses /\ a \notin consumed
    BY <1>1, <2>2 DEF ActiveToken, Usable, TokensOf
  <2>4. Goto(r, "issueInsert") \/ (a # 0 /\ Bridge(r, req[r].acc, a, "pair")) \/ Finish(r, "ok")
    BY <2>2 DEF Answer
  <2> QED BY <1>2, <1>3, <2>1, <2>3, <2>4, GotoStep, FinishStep, BridgeStep
<1>9. CASE LegacyIssued(r)
  <2>1. req[r].pc = "legacyIssued" /\ UNCHANGED <<tokenVars, sessionVars>>
    BY <1>9 DEF LegacyIssued, At
  <2>2. PICK x : x = [req[r] EXCEPT !.pc = "issueFind", !.out = "pair"]
    OBVIOUS
  <2>3. x \in RequestType(Len(minted)) /\ x.pc = "issueFind" /\ x.ses = req[r].ses /\ x.acc = req[r].acc /\ x.out = "pair"
    BY <1>1, <1>2, <1>3, <2>2 DEF RequestType
  <2>4. Assign(r, x) \/ Finish(r, "refused")
    BY <1>9, <2>2 DEF LegacyIssued
  <2> QED BY <1>1, <1>2, <1>3, <2>1, <2>3, <2>4, MoveStep, FinishStep
<1> QED BY <1>4, <1>5, <1>6, <1>7, <1>8, <1>9

\* A row lock that a statement was waiting for.
LEMMA LockPairs ==
  ASSUME Inv, PairInv, NEW r \in Requests,
         (\E t \in Tokens : LockToken(r, t)) \/ (\E s \in Sessions : LockSession(r, s))
  PROVE  PairInv'
<1>1. req[r] \in RequestType(Len(minted)) /\ Fits(req[r])
  BY ReqFacts
<1>2. ASSUME NEW t \in Tokens, LockToken(r, t) PROVE PairInv'
  <2>1. PICK H : H = req[r].heldT \cup {t}
    OBVIOUS
  <2>2. PICK x : x = [req[r] EXCEPT !.heldT = H]
    OBVIOUS
  <2>3. H \subseteq 1..Len(minted) /\ t \in req[r].wantT
    BY <1>1, <1>2, <2>1 DEF RequestType, LockToken, Tokens
  <2>4. x \in RequestType(Len(minted))
    BY <1>1, <2>2, <2>3 DEF RequestType
  <2>5. /\ x.pc = req[r].pc /\ x.ses = req[r].ses /\ x.acc = req[r].acc /\ x.out = req[r].out /\ x.tok = req[r].tok
        /\ x.act = req[r].act /\ x.heldT = H /\ x.wantT = req[r].wantT /\ x.heldS = req[r].heldS
    BY <1>1, <2>2 DEF RequestType
  <2>6. Fits(x)
    BY <1>1, <2>1, <2>3, <2>5 DEF Fits, PairOf
  <2>7. Assign(r, x) /\ UNCHANGED <<tokenVars, sessionVars>>
    BY <1>2, <2>1, <2>2 DEF LockToken
  <2> QED BY <2>4, <2>6, <2>7, LocalStep
<1>3. ASSUME NEW s \in Sessions, LockSession(r, s) PROVE PairInv'
  <2>1. PICK S : S = req[r].heldS \cup {s}
    OBVIOUS
  <2>2. PICK x : x = [req[r] EXCEPT !.heldS = S]
    OBVIOUS
  <2>3. S \subseteq Sessions
    BY <1>1, <2>1 DEF RequestType
  <2>4. x \in RequestType(Len(minted))
    BY <1>1, <2>2, <2>3 DEF RequestType
  <2>5. /\ x.pc = req[r].pc /\ x.ses = req[r].ses /\ x.acc = req[r].acc /\ x.out = req[r].out /\ x.tok = req[r].tok
        /\ x.act = req[r].act /\ x.heldT = req[r].heldT /\ x.wantT = req[r].wantT /\ x.heldS = S
    BY <1>1, <2>2 DEF RequestType
  <2>6. Fits(x)
    BY <1>1, <2>1, <2>5 DEF Fits, PairOf
  <2>7. Assign(r, x) /\ UNCHANGED <<tokenVars, sessionVars>>
    BY <1>3, <2>1, <2>2 DEF LockSession
  <2> QED BY <2>4, <2>6, <2>7, LocalStep
<1> QED BY <1>2, <1>3

\* A logout and a deletion of the user, up to the statement that commits them.
LEMMA EndingPairs ==
  ASSUME Inv, PairInv, NEW r \in Requests,
         \/ LogoutFind(r) \/ LogoutSessions(r) \/ DeleteFind(r) \/ DeleteTokens(r) \/ DeadlockAbort(r) \/ Fail(r)
  PROVE  PairInv'
<1>1. req[r] \in RequestType(Len(minted)) /\ Fits(req[r]) /\ Len(minted) \in Nat
      /\ present \subseteq Tokens /\ live \subseteq Sessions /\ req[r].ses \in Sessions /\ req[r].scope \in Scopes
  BY ReqFacts DEF Inv, TypeOK, RequestType
<1>2. {"ok", "refused"} \subseteq Outs \ {"replay"}
  BY DEF Outs
<1>3. {"logoutSessions", "logoutTokens", "deleteTokens", "deleteSessions"} \subseteq Pcs \ TokenPcs
  BY DEF Pcs, TokenPcs
<1>4. UNCHANGED <<tokenVars, sessionVars>>
  BY DEF LogoutFind, LogoutSessions, DeleteFind, DeleteTokens, DeadlockAbort, Fail
<1>5. CASE Finish(r, "ok") \/ Finish(r, "refused")
  BY <1>2, <1>4, <1>5, FinishStep
<1>6. CASE LogoutFind(r) /\ ~Finish(r, "refused")
  <2>1. PICK S : S = InScope(req[r].ses, req[r].scope)
    OBVIOUS
  <2>2. S \subseteq Sessions
    BY <1>1, <2>1 DEF InScope, SessionsOf, Scopes
  <2>3. PICK x : x = [req[r] EXCEPT !.pc = "logoutSessions", !.wantS = S]
    OBVIOUS
  <2>4. x \in RequestType(Len(minted))
    BY <1>1, <1>3, <2>2, <2>3 DEF RequestType
  <2>5. /\ x.pc = "logoutSessions" /\ x.ses = req[r].ses /\ x.acc = req[r].acc /\ x.out = req[r].out
        /\ x.heldT = req[r].heldT /\ x.wantT = req[r].wantT
    BY <1>1, <2>3 DEF RequestType
  <2>6. Assign(r, x) /\ req[r].pc = "logoutFind"
    BY <1>6, <2>1, <2>3 DEF LogoutFind, At
  <2>7. Fits(x)
    BY <1>1, <1>3, <2>5, <2>6 DEF Fits
  <2> QED BY <1>4, <2>4, <2>6, <2>7, LocalStep
<1>7. CASE LogoutSessions(r) /\ ~Finish(r, "ok")
  <2>1. PICK W : W = TokensOf(req[r].heldS \cap live)
    OBVIOUS
  <2>2. W \subseteq 1..Len(minted) /\ \A t \in W : minted[t].session \in req[r].heldS
    BY <1>1, <2>1 DEF TokensOf, Tokens
  <2>3. PICK x : x = [req[r] EXCEPT !.pc = "logoutTokens", !.wantT = W]
    OBVIOUS
  <2>4. x \in RequestType(Len(minted))
    BY <1>1, <1>3, <2>2, <2>3 DEF RequestType
  <2>5. /\ x.pc = "logoutTokens" /\ x.ses = req[r].ses /\ x.acc = req[r].acc /\ x.out = req[r].out
        /\ x.heldT = req[r].heldT /\ x.wantT = W /\ x.heldS = req[r].heldS
    BY <1>1, <2>3 DEF RequestType
  <2>6. Assign(r, x) /\ req[r].pc = "logoutSessions"
    BY <1>7, <2>1, <2>3 DEF LogoutSessions, At
  <2>7. Fits(x)
    BY <1>1, <1>3, <2>2, <2>5, <2>6 DEF Fits
  <2> QED BY <1>4, <2>4, <2>6, <2>7, LocalStep
<1>8. CASE DeleteFind(r) /\ ~Finish(r, "refused")
  <2>1. PICK W : W = {t \in present : Owner[minted[t].session] = Owner[req[r].ses]}
    OBVIOUS
  <2>2. W \subseteq 1..Len(minted) /\ \A t \in W : Owner[minted[t].session] = Owner[req[r].ses]
    BY <1>1, <2>1 DEF Tokens
  <2>3. PICK x : x = [req[r] EXCEPT !.pc = "deleteTokens", !.heldS = {req[r].ses}, !.wantT = W]
    OBVIOUS
  <2>4. x \in RequestType(Len(minted))
    BY <1>1, <1>3, <2>2, <2>3 DEF RequestType
  <2>5. /\ x.pc = "deleteTokens" /\ x.ses = req[r].ses /\ x.acc = req[r].acc /\ x.out = req[r].out
        /\ x.heldT = req[r].heldT /\ x.wantT = W
    BY <1>1, <2>3 DEF RequestType
  <2>6. Assign(r, x) /\ req[r].pc = "deleteFind"
    BY <1>8, <2>1, <2>3 DEF DeleteFind, At
  <2>7. req[r].heldT = {} /\ req[r].acc <= access[req[r].ses] /\ access[req[r].ses] > 0 /\ req[r].out # "replay"
    BY <1>1, <2>6 DEF Fits
  <2>8. \A t \in x.heldT \cup x.wantT : Owner[minted[t].session] = Owner[x.ses]
    BY <2>2, <2>5, <2>7
  <2>9. Fits(x)
    BY <1>3, <2>5, <2>7, <2>8 DEF Fits
  <2> QED BY <1>4, <2>4, <2>6, <2>9, LocalStep
<1>9. CASE DeleteTokens(r)
  <2>1. PICK S : S = SessionsOf(Owner[req[r].ses])
    OBVIOUS
  <2>2. S \subseteq Sessions
    BY <1>1, <2>1 DEF SessionsOf
  <2>3. PICK x : x = [req[r] EXCEPT !.pc = "deleteSessions", !.wantS = S]
    OBVIOUS
  <2>4. x \in RequestType(Len(minted))
    BY <1>1, <1>3, <2>2, <2>3 DEF RequestType
  <2>5. /\ x.pc = "deleteSessions" /\ x.ses = req[r].ses /\ x.acc = req[r].acc /\ x.out = req[r].out
        /\ x.heldT = req[r].heldT /\ x.wantT = req[r].wantT
    BY <1>1, <2>3 DEF RequestType
  <2>6. Assign(r, x) /\ req[r].pc = "deleteTokens"
    BY <1>9, <2>1, <2>3 DEF DeleteTokens, At
  <2>7. Fits(x)
    BY <1>1, <1>3, <2>5, <2>6 DEF Fits
  <2> QED BY <1>4, <2>4, <2>6, <2>7, LocalStep
<1>10. CASE DeadlockAbort(r) \/ Fail(r)
  BY <1>5, <1>10 DEF DeadlockAbort, Fail
<1> QED BY <1>5, <1>6, <1>7, <1>8, <1>9, <1>10

\* A request arrives with the access token of its session, or with a token of it.
LEMMA BeginShape ==
  ASSUME Inv, PairInv, NEW r \in Requests, NEW l \in Pcs, NEW s \in Sessions, NEW a \in Nat,
         NEW t \in 0..Len(minted), NEW c \in Scopes, Begin(r, l, s, a, t, c), l \in TokenPcs => t # 0
  PROVE  \E x \in RequestType(Len(minted)) :
           /\ Assign(r, x) /\ x.pc = l /\ x.ses = s /\ x.acc = a /\ x.tok = t /\ x.out = "none"
           /\ x.heldT = {} /\ x.wantT = {}
<1>1. Len(minted) \in Nat
  BY ReqFacts
<1>2. PICK b \in RequestType(Len(minted)) : b = Blank(s)
  BY <1>1, BlankType
<1>3. b.ses = s /\ b.out = "none" /\ b.heldT = {} /\ b.wantT = {}
  BY <1>2 DEF Blank
<1>4. PICK x : x = [b EXCEPT !.pc = l, !.acc = a, !.tok = t, !.scope = c]
  OBVIOUS
<1>5. /\ x.pc = l /\ x.ses = s /\ x.acc = a /\ x.tok = t /\ x.out = "none"
      /\ x.heldT = {} /\ x.wantT = {}
  BY <1>3, <1>4 DEF RequestType
<1>6. x \in RequestType(Len(minted))
  BY <1>4 DEF RequestType
<1>7. Assign(r, x)
  BY <1>2, <1>4 DEF Begin
<1> QED BY <1>5, <1>6, <1>7

LEMMA ArrivePairs ==
  ASSUME Inv, PairInv, NEW r \in Requests, Arrive(r)
  PROVE  PairInv'
<1>1. Len(minted) \in Nat /\ access \in [Sessions -> Nat] /\ live \subseteq Sessions /\ present \subseteq Tokens /\ TypeOK
  BY DEF Inv, TypeOK
<1>2. {"issueFind", "legacyFind", "logoutFind", "deleteFind"} \subseteq Pcs \ TokenPcs /\ "find" \in Pcs \cap TokenPcs
      /\ "global" \in Scopes
  BY DEF Pcs, TokenPcs, Scopes
<1>3. ASSUME NEW s \in Sessions, access[s] > 0, NEW c \in Scopes, NEW l \in {"issueFind", "legacyFind", "logoutFind", "deleteFind"},
             Begin(r, l, s, access[s], 0, c), UNCHANGED <<tokenVars, sessionVars>>
      PROVE  PairInv'
  <2>1. PICK x \in RequestType(Len(minted)) :
           /\ Assign(r, x) /\ x.pc = l /\ x.ses = s /\ x.acc = access[s] /\ x.out = "none"
           /\ x.heldT = {} /\ x.wantT = {}
    <3>1. PICK a \in Nat : a = access[s]
      BY <1>1
    <3>2. l \in Pcs /\ l \notin TokenPcs /\ 0 \in 0..Len(minted)
      BY <1>1, <1>2
    <3>3. Begin(r, l, s, a, 0, c)
      BY <1>3, <3>1
    <3> QED BY <1>1, <3>1, <3>2, <3>3, BeginShape, SMTT(60)
  <2>2. Fits(x)
    BY <1>1, <1>2, <1>3, <2>1 DEF Fits
  <2> QED BY <1>3, <2>1, <2>2, LocalStep
<1>4. ASSUME NEW s \in Sessions, NEW c \in Scopes,
             Issue(r, s) \/ ExchangeLegacy(r, s) \/ DeleteUser(r, s) \/ Logout(r, s, c)
      PROVE  PairInv'
  <2>1. access[s] > 0 /\ UNCHANGED <<tokenVars, sessionVars>>
    BY <1>4 DEF Issue, ExchangeLegacy, DeleteUser, Logout
  <2>2. \E l \in {"issueFind", "legacyFind", "logoutFind", "deleteFind"}, d \in {"global", c} :
           Begin(r, l, s, access[s], 0, d)
    BY <1>4 DEF Issue, ExchangeLegacy, DeleteUser, Logout
  <2> QED BY <1>2, <1>3, <2>1, <2>2
<1>5. ASSUME NEW t \in Tokens, Exchange(r, t) PROVE PairInv'
  <2>1. minted[t].session \in Sessions /\ t \in 0..Len(minted) /\ t # 0
    BY <1>1, RowType DEF Tokens
  <2>2. PICK x \in RequestType(Len(minted)) :
           /\ Assign(r, x) /\ x.pc = "find" /\ x.ses = minted[t].session /\ x.acc = 0 /\ x.tok = t /\ x.out = "none"
    <3>1. PICK s \in Sessions : s = minted[t].session
      BY <2>1
    <3>2. Begin(r, "find", s, 0, t, "global") /\ "find" \in Pcs /\ 0 \in Nat
      BY <1>2, <1>5, <3>1 DEF Exchange
    <3> QED BY <1>1, <1>2, <2>1, <3>1, <3>2, BeginShape, SMTT(60)
  <2>3. access[x.ses] > 0 /\ x.acc <= access[x.ses]
    BY <1>1, <2>1, <2>2 DEF PairInv, Lineage
  <2>4. Fits(x)
    BY <2>2, <2>3 DEF Fits
  <2> QED BY <1>5, <2>2, <2>4, LocalStep DEF Exchange
<1>6. ASSUME NEW s \in Sessions, SignIn(r, s) PROVE PairInv'
  <2>1. /\ access[s] = 0 /\ live' = live \cup {s} /\ access' = [access EXCEPT ![s] = 1]
        /\ Begin(r, "issueFind", s, 1, 0, "global")
        /\ UNCHANGED <<tokenVars, lapsed, gone>>
    BY <1>6 DEF SignIn
  <2>2. PICK x \in RequestType(Len(minted)) :
           /\ Assign(r, x) /\ x.pc = "issueFind" /\ x.ses = s /\ x.acc = 1 /\ x.out = "none"
    BY <1>1, <1>2, <2>1, BeginShape
  <2>3. Tokens' = Tokens
    BY <2>1 DEF Tokens
  <2>4. /\ access' \in [Sessions -> Nat] /\ access'[s] = 1
        /\ \A z \in Sessions : access[z] <= access'[z]
        /\ \A z \in Sessions \ {s} : access'[z] = access[z]
    BY <1>1, <2>1
  <2>5. \A z : z # s => Live(z)' = Live(z)
    BY <2>1 DEF Live
  <2>6. \A t \in Tokens : minted[t].session \in Sessions \ {s}
    BY <1>1, <2>1, RowType DEF PairInv, Lineage
  <2>7. Forward
    <3>1. \A z \in Sessions : access[z] > 0 /\ Live(z)' => Live(z)
      BY <2>1, <2>5
    <3> QED BY <2>1, <2>3, <2>4, <3>1 DEF Forward
  <2>8. Lineage'
    BY <2>1, <2>3, <2>4, <2>6 DEF PairInv, Lineage
  <2>9. ConsumedHasChild'
    BY <1>1, <2>1, <2>5, <2>6 DEF PairInv, ConsumedHasChild, Children
  <2>10. Fits(x)'
    BY <1>2, <2>2, <2>4 DEF Fits
  <2>11. \A q \in Requests : Fits(req[q])'
    BY <2>2, <2>7, <2>10, FitsAll
  <2> QED BY <2>8, <2>9, <2>11 DEF PairInv
<1> QED BY <1>2, <1>4, <1>5, <1>6 DEF Arrive

\* Sessions end and tokens go, of ended sessions only.
LEMMA EndingFacts ==
  ASSUME Inv, PairInv, UNCHANGED <<minted, access>>,
         present' \subseteq present, live' \subseteq live, lapsed \subseteq lapsed', gone \subseteq gone',
         \A t \in Tokens : t \in present \ present' \/ t \in consumed' \ consumed => ~Live(minted[t].session)'
  PROVE  Forward /\ Lineage' /\ ConsumedHasChild'
<1>1. Tokens' = Tokens /\ access \in [Sessions -> Nat] /\ present \subseteq Tokens
  BY DEF Tokens, Inv, TypeOK
<1>2. \A s : Live(s)' => Live(s)
  BY DEF Live
<1>3. Forward
  BY <1>1, <1>2 DEF Forward
<1>4. Lineage'
  BY <1>1 DEF PairInv, Lineage
<1>5. ASSUME NEW t \in (present \cap consumed)', Live(minted[t].session)' PROVE Children(t)' # {}
  <2>1. t \in Tokens /\ t \in present /\ t \in consumed /\ Live(minted[t].session)
    BY <1>1, <1>2, <1>5
  <2>2. PICK u \in present : minted[u].parent = t
    BY <2>1 DEF PairInv, ConsumedHasChild, Children
  <2>3. t # 0 /\ u \in Tokens
    BY <1>1, <2>1 DEF Tokens
  <2>4. minted[u].session = minted[t].session
    BY <2>2, <2>3 DEF PairInv, Lineage
  <2>5. u \in present'
    BY <1>5, <2>3, <2>4
  <2> QED BY <2>2, <2>5 DEF Children
<1>6. ConsumedHasChild'
  BY <1>5 DEF ConsumedHasChild
<1> QED BY <1>3, <1>4, <1>6

LEMMA EndPairs ==
  ASSUME Inv, PairInv, NEW r \in Requests,
         EndSession(r) \/ CommitLogout(r) \/ CommitDelete(r) \/ (Rotate(r) /\ ~Live(req[r].ses))
  PROVE  PairInv'
<1>0. PICK e : e = req[r].ses
  OBVIOUS
<1>1. /\ req[r] \in RequestType(Len(minted)) /\ Fits(req[r]) /\ req[r].ses \in Sessions
      /\ {"ok", "refused", "replay"} \subseteq Outs
      /\ access \in [Sessions -> Nat] /\ req[r].acc <= access[req[r].ses] /\ req[r].acc \in Nat
  BY ReqFacts DEF Fits, Outs, Inv, TypeOK
<1>2. ASSUME NEW o \in {"ok", "refused", "replay"}, Finish(r, o), Forward, Lineage', ConsumedHasChild', UNCHANGED access,
             o = "replay" => ~Live(e)' /\ access[e] > 0
      PROVE  PairInv'
  <2>1. PICK x \in RequestType(Len(minted)) :
           /\ Assign(r, x) /\ x.pc = "idle" /\ x.out = o
           /\ x.acc = 0 \/ (x.acc = req[r].acc /\ x.ses = req[r].ses)
           /\ o = "replay" => x.ses = req[r].ses
    BY <1>1, <1>2, FinishShape
  <2>2. x.ses \in Sessions /\ access[x.ses] \in Nat
    BY <1>1, <2>1 DEF RequestType
  <2>3. x.acc <= access[x.ses]
    BY <1>1, <2>1, <2>2
  <2>4. x.out = "replay" => ~Live(x.ses)'
    BY <1>0, <1>2, <2>1
  <2>5. Fits(x)'
    BY <1>0, <1>2, <2>1, <2>3, <2>4 DEF Fits, PairOf, TokenPcs
  <2>6. \A q \in Requests : Fits(req[q])'
    BY <1>2, <2>1, <2>5, FitsAll
  <2> QED BY <1>2, <2>6 DEF PairInv
<1>3. CASE EndSession(r)
  <2>1. /\ req[r].pc = "endSession" /\ live' = live \ {req[r].ses} /\ Finish(r, "replay")
        /\ UNCHANGED <<tokenVars, access, lapsed, gone>>
    BY <1>3 DEF EndSession, At
  <2>2. Forward /\ Lineage' /\ ConsumedHasChild'
    BY <2>1, EndingFacts
  <2>3. access[e] > 0
    BY <1>0, <1>1, <2>1 DEF Fits
  <2>4. ~Live(e)'
    BY <1>0, <2>1 DEF Live
  <2> QED BY <1>2, <2>1, <2>2, <2>3, <2>4
<1>4. CASE CommitLogout(r)
  <2>1. /\ req[r].pc = "logoutTokens" /\ live' = live \ req[r].heldS /\ present' = present \ req[r].heldT /\ Finish(r, "ok")
        /\ UNCHANGED <<minted, consumed, access, lapsed, gone>>
    BY <1>4 DEF CommitLogout, At
  <2>2. \A t \in req[r].heldT : minted[t].session \in req[r].heldS
    BY <1>1, <2>1 DEF Fits
  <2>3. \A t \in Tokens : t \in present \ present' \/ t \in consumed' \ consumed => ~Live(minted[t].session)'
    BY <2>1, <2>2 DEF Live
  <2>4. Forward /\ Lineage' /\ ConsumedHasChild'
    BY <2>1, <2>3, EndingFacts
  <2> QED BY <1>2, <2>1, <2>4
<1>5. CASE CommitDelete(r)
  <2>1. /\ req[r].pc = "deleteSessions" /\ live' = live \ req[r].heldS /\ present' = present \ req[r].heldT /\ Finish(r, "ok")
        /\ gone' = gone \cup {Owner[req[r].ses]}
        /\ UNCHANGED <<minted, consumed, access, lapsed>>
    BY <1>5 DEF CommitDelete, At
  <2>2. \A t \in req[r].heldT : Owner[minted[t].session] = Owner[req[r].ses]
    BY <1>1, <2>1 DEF Fits
  <2>3. \A t \in Tokens : t \in present \ present' \/ t \in consumed' \ consumed => ~Live(minted[t].session)'
    BY <2>1, <2>2 DEF Live
  <2>4. Forward /\ Lineage' /\ ConsumedHasChild'
    BY <2>1, <2>3, EndingFacts
  <2> QED BY <1>2, <2>1, <2>4
<1>6. CASE Rotate(r) /\ ~Live(req[r].ses)
  <2>1. /\ req[r].pc = "rotate" /\ consumed' = consumed \cup {req[r].tok} /\ Finish(r, "refused")
        /\ UNCHANGED <<minted, present, sessionVars>>
    BY <1>6 DEF Rotate, At
  <2>2. minted[req[r].tok].session = req[r].ses
    BY <1>1, <2>1 DEF Fits, TokenPcs
  <2>3. \A t \in Tokens : t \in present \ present' \/ t \in consumed' \ consumed => ~Live(minted[t].session)'
    BY <1>6, <2>1, <2>2 DEF Live
  <2>4. Forward /\ Lineage' /\ ConsumedHasChild'
    BY <2>1, <2>3, EndingFacts
  <2> QED BY <1>2, <2>1, <2>4
<1> QED BY <1>3, <1>4, <1>5, <1>6

\* Time passes for the sessions and the rows.
LEMMA EnvironmentPairs ==
  ASSUME Inv, PairInv, Environment \/ UNCHANGED vars
  PROVE  PairInv'
<1>1. UNCHANGED <<minted, present, consumed, access, live, gone, req>> /\ lapsed \subseteq lapsed'
  BY DEF Environment, IntervalPasses, TokenExpires, SessionExpires
<1>2. Forward /\ Lineage' /\ ConsumedHasChild'
  BY <1>1, EndingFacts
<1>3. ASSUME NEW q \in Requests PROVE Fits(req[q])'
  <2>1. PICK y : y = req[q]
    OBVIOUS
  <2>2. y \in RequestType(Len(minted)) /\ Fits(y)
    BY <2>1, ReqFacts
  <2>3. Fits(y)'
    BY <1>2, <2>2, OthersFit DEF PairInv
  <2> QED BY <1>1, <2>1, <2>3 DEF Fits, PairOf
<1> QED BY <1>2, <1>3 DEF PairInv

\* A row that is inserted: what was there stays, and the new row is of session s.
LEMMA MintFacts ==
  ASSUME Inv, PairInv, NEW s \in Sessions, NEW p \in {0} \cup Tokens, Mint(s, p)
  PROVE  LET n == Len(minted) + 1 IN
         /\ Tokens' = Tokens \cup {n} /\ n \notin Tokens /\ present' = present \cup {n}
         /\ \A t \in Tokens : minted'[t] = minted[t]
         /\ minted'[n].session = s /\ minted'[n].parent = p
<1>1. Len(minted) \in Nat /\ minted \in Seq([session : Sessions, parent : Nat, family : Nat, opaque : BOOLEAN])
  BY DEF Inv, TypeOK
<1>2. PICK f : f = IF p = 0 THEN Len(minted) + 1 ELSE minted[p].family
  OBVIOUS
<1>3. minted' = Append(minted, [session |-> s, parent |-> p, family |-> f, opaque |-> TRUE])
      /\ present' = present \cup {Len(minted) + 1}
  BY <1>2 DEF Mint
<1> QED BY <1>1, <1>3 DEF Tokens

\* After a row was inserted under p: p's session is the row's, and its parent lives on.
LEMMA MintPairs ==
  ASSUME Inv, PairInv, NEW s \in Sessions, NEW p \in {0} \cup Tokens, Mint(s, p),
         access[s] > 0, p # 0 => minted[p].session = s,
         consumed' = consumed \cup ({p} \ {0}), UNCHANGED <<live, lapsed, gone>>,
         access' \in [Sessions -> Nat], \A z \in Sessions : access[z] <= access'[z],
         p # 0 => access'[s] > access[s]
  PROVE  Forward /\ Lineage' /\ ConsumedHasChild'
<1>1. PICK n : n = Len(minted) + 1
  OBVIOUS
<1>2. /\ Tokens' = Tokens \cup {n} /\ n \notin Tokens /\ present' = present \cup {n}
      /\ \A t \in Tokens : minted'[t] = minted[t]
      /\ minted'[n].session = s /\ minted'[n].parent = p
  BY <1>1, MintFacts
<1>3. \A z : Live(z)' = Live(z)
  BY DEF Live
<1>4. access \in [Sessions -> Nat] /\ present \subseteq Tokens /\ consumed \subseteq Tokens
      /\ 0 \notin Tokens /\ \A t \in Tokens : minted[t].session \in Sessions
  <2>1. TypeOK
    BY DEF Inv
  <2>2. \A t \in Tokens : minted[t].session \in Sessions
    BY <2>1, RowType
  <2> QED BY <2>1, <2>2 DEF TypeOK, Tokens
<1>5. Forward
  <2>1. ASSUME NEW t \in Tokens, t \in consumed', t \notin consumed, Live(minted[t].session)'
        PROVE  access'[minted[t].session] > access[minted[t].session]
    BY <2>1
  <2> QED BY <1>2, <1>3, <2>1 DEF Forward
<1>6. \A z \in Sessions : access[z] > 0 => access'[z] > 0
  BY <1>4
<1>7. Lineage'
  <2> SUFFICES ASSUME NEW t \in Tokens'
               PROVE  /\ access'[minted'[t].session] > 0
                      /\ minted'[t].parent # 0 => minted'[minted'[t].parent].session = minted'[t].session
    BY DEF Lineage
  <2>1. CASE t = n
    BY <1>2, <1>6, <2>1
  <2>2. CASE t \in Tokens
    <3>1. minted'[t] = minted[t] /\ access[minted[t].session] > 0
      BY <1>2, <2>2 DEF PairInv, Lineage
    <3>2. minted[t].parent # 0 => minted[t].parent \in Tokens
      BY <1>4, <2>2 DEF Inv, ClaimInv
    <3>3. minted[t].parent # 0 => minted[minted[t].parent].session = minted[t].session
      BY <2>2 DEF PairInv, Lineage
    <3> QED BY <1>2, <1>4, <1>6, <2>2, <3>1, <3>2, <3>3
  <2> QED BY <1>2, <2>1, <2>2
<1>8. ConsumedHasChild'
  <2> SUFFICES ASSUME NEW t \in present', t \in consumed', Live(minted[t].session)'
               PROVE  \E u \in present' : minted'[u].parent = t
    BY DEF ConsumedHasChild, Children
  <2>1. CASE t = p
    BY <1>2, <2>1
  <2>2. CASE t # p
    <3>1. t \in consumed /\ t \in Tokens
      BY <1>4, <2>2
    <3>2. t \in present /\ minted'[t] = minted[t]
      BY <1>2, <3>1
    <3>3. Live(minted[t].session)
      <4>1. PICK z : z = minted'[t].session
        OBVIOUS
      <4>2. Live(z)'
        BY <4>1 DEF Live
      <4> QED BY <1>3, <3>2, <4>1, <4>2
    <3>4. PICK u \in present : minted[u].parent = t
      BY <3>1, <3>2, <3>3 DEF PairInv, ConsumedHasChild, Children
    <3> QED BY <1>2, <1>4, <3>4
  <2> QED BY <2>1, <2>2
<1> QED BY <1>5, <1>7, <1>8

\* A rotation's pair: the new token is the session's newest, and nobody's yet.
LEMMA RotatePairs ==
  ASSUME Inv, PairInv, NEW r \in Requests, CommitRotation(r)
  PROVE  PairInv'
<1>1. PICK s, t, n, a : s = req[r].ses /\ t = req[r].tok /\ n = Len(minted) + 1 /\ a = access[s] + 1
  OBVIOUS
<1>2. s \in Sessions /\ access \in [Sessions -> Nat] /\ req[r].pc = "commit" /\ n \in Nat /\ a \in Nat
      /\ consumed \subseteq Tokens /\ n \in 0..n
  BY <1>1, ReqFacts DEF CommitRotation, At, Inv, TypeOK
<1>3. t \in Tokens /\ minted[t].session = s /\ access[s] > 0 /\ t # 0
  BY <1>1, <1>2, ReqFacts DEF Fits, TokenPcs, Tokens
<1>4. /\ Mint(s, t) /\ consumed' = consumed \cup {t} /\ access' = [access EXCEPT ![s] = access[s] + 1]
      /\ Bridge(r, a, n, "pair") /\ UNCHANGED <<live, lapsed, gone>>
  BY <1>1 DEF CommitRotation
<1>5. /\ access' \in [Sessions -> Nat] /\ access'[s] = a /\ access'[s] > access[s]
      /\ \A z \in Sessions : access[z] <= access'[z]
  <2>1. \A z \in Sessions : access'[z] = IF z = s THEN access[s] + 1 ELSE access[z]
    BY <1>2, <1>4
  <2>2. access' \in [Sessions -> Nat]
    BY <1>2, <1>4
  <2>3. \A z \in Sessions : access[z] \in Nat
    BY <1>2
  <2> QED BY <1>1, <1>2, <2>1, <2>2, <2>3
<1>6. Forward /\ Lineage' /\ ConsumedHasChild'
  BY <1>2, <1>3, <1>4, <1>5, MintPairs
<1>7. "pair" \in Outs
  BY DEF Outs
<1>8. PICK x \in RequestType(n) : /\ Assign(r, x) /\ x.pc = "bridge" /\ x.out = "pair" /\ x.ses = s
                                  /\ x.acc = a /\ x.act = n
  BY <1>1, <1>2, <1>4, <1>7, BridgeShape
<1>9. n \in Tokens' /\ minted'[n].session = s /\ n \notin Tokens
  BY <1>1, <1>2, <1>3, <1>4, MintFacts
<1>10. n \notin consumed'
  BY <1>2, <1>3, <1>4, <1>9
<1>11. x.acc <= access'[x.ses] /\ access'[x.ses] > 0
  BY <1>2, <1>3, <1>5, <1>8
<1>12. Fits(x)'
  BY <1>8, <1>9, <1>10, <1>11 DEF Fits, PairOf, TokenPcs
<1>13. \A q \in Requests : Fits(req[q])'
  BY <1>6, <1>8, <1>12, FitsAll
<1> QED BY <1>6, <1>13 DEF PairInv

\* A root token is inserted for a session that has signed in, and answered.
LEMMA IssuePairs ==
  ASSUME Inv, PairInv, NEW r \in Requests, IssueInsert(r)
  PROVE  PairInv'
<1>1. PICK s, n, a : s = req[r].ses /\ n = Len(minted) + 1 /\ a = req[r].acc
  OBVIOUS
<1>2. /\ s \in Sessions /\ access \in [Sessions -> Nat] /\ req[r].pc = "issueInsert" /\ n \in Nat /\ a \in Nat
      /\ consumed \subseteq Tokens /\ n \in 0..n /\ access[s] > 0 /\ a <= access[s] /\ n = Len(minted) + 1
  BY <1>1, ReqFacts DEF IssueInsert, At, Inv, TypeOK, Fits
<1>3. /\ Mint(s, 0) /\ consumed' = consumed /\ UNCHANGED sessionVars
      /\ Bridge(r, a, n, "pair") \/ Finish(r, "ok")
  BY <1>1 DEF IssueInsert, Answer
<1>4. Forward /\ Lineage' /\ ConsumedHasChild'
  <2>1. consumed' = consumed \cup ({0} \ {0}) /\ \A z \in Sessions : access[z] <= access'[z]
    BY <1>2, <1>3
  <2> QED BY <1>2, <1>3, <2>1, MintPairs
<1>5. n \in Tokens' /\ minted'[n].session = s /\ n \notin Tokens /\ n \notin consumed'
  BY <1>2, <1>3, MintFacts
<1>6. "pair" \in Outs /\ "ok" \in Outs
  BY DEF Outs
<1>7. \A q \in Requests : Fits(req[q])'
  <2>1. CASE Bridge(r, a, n, "pair")
    <3>1. PICK x \in RequestType(n) : /\ Assign(r, x) /\ x.pc = "bridge" /\ x.out = "pair" /\ x.ses = s
                                      /\ x.acc = a /\ x.act = n
      BY <1>1, <1>2, <1>6, <2>1, BridgeShape
    <3>2. Fits(x)'
      BY <1>2, <1>3, <1>5, <3>1 DEF Fits, PairOf, TokenPcs
    <3> QED BY <1>4, <3>1, <3>2, FitsAll
  <2>2. CASE Finish(r, "ok")
    <3>1. PICK x \in RequestType(Len(minted)) :
             /\ Assign(r, x) /\ x.pc = "idle" /\ x.out = "ok"
             /\ x.acc = 0 \/ (x.acc = req[r].acc /\ x.ses = req[r].ses)
      BY <1>6, <2>2, FinishShape
    <3>2. x.ses \in Sessions
      BY <3>1 DEF RequestType
    <3>3. x.acc <= access'[x.ses]
      BY <1>1, <1>2, <1>3, <3>1, <3>2
    <3>4. Fits(x)'
      BY <3>1, <3>3 DEF Fits, PairOf, TokenPcs
    <3> QED BY <1>4, <3>1, <3>4, FitsAll
  <2> QED BY <1>3, <2>1, <2>2
<1> QED BY <1>4, <1>7 DEF PairInv

LEMMA InitPairs == Init => PairInv
<1> SUFFICES ASSUME Init PROVE PairInv
  OBVIOUS
<1>1. \A t \in Tokens : minted[t].session \in live /\ minted[t].parent = 0
  <2>1. CASE minted = <<>>
    BY <2>1 DEF Tokens
  <2>2. ASSUME NEW s \in live,
               minted = <<[session |-> s, parent |-> 0, family |-> 1, opaque |-> FALSE]>>
        PROVE  \A t \in Tokens : minted[t].session \in live /\ minted[t].parent = 0
    <3>1. Len(minted) = 1 /\ minted[1] = [session |-> s, parent |-> 0, family |-> 1, opaque |-> FALSE]
      BY <2>2
    <3> QED BY <3>1 DEF Tokens
  <2> QED BY <2>1, <2>2 DEF Init
<1>2. live \subseteq Sessions /\ access = [s \in Sessions |-> IF s \in live THEN 1 ELSE 0] /\ consumed = {}
  BY LegacyAssumption DEF Init
<1>3. Lineage
  BY <1>1, <1>2 DEF Lineage
<1>4. ASSUME NEW r \in Requests PROVE Fits(req[r])
  <2>1. PICK b : b = Blank(NoSession)
    OBVIOUS
  <2>2. b.pc = "idle" /\ b.out = "none" /\ b.acc = 0 /\ b.ses \in Sessions
    BY <2>1, NoSessionType DEF Blank
  <2>3. access[b.ses] >= 0 /\ req[r] = b
    BY <1>2, <2>1, <2>2 DEF Init
  <2>4. Fits(b)
    BY <2>2, <2>3 DEF Fits, TokenPcs
  <2> QED BY <2>3, <2>4
<1> QED BY <1>2, <1>3, <1>4 DEF PairInv, ConsumedHasChild

\* Every step keeps what the requests rely on.
THEOREM PairInvariant == Spec => []PairInv
<1>1. Inv /\ PairInv /\ [Next]_vars => PairInv'
  <2> SUFFICES ASSUME Inv, PairInv, [Next]_vars PROVE PairInv'
    OBVIOUS
  <2>1. ASSUME NEW r \in Requests, Serve(r) \/ Fail(r) PROVE PairInv'
    <3>1. CASE CommitRotation(r) \/ IssueInsert(r)
      BY <3>1, RotatePairs, IssuePairs
    <3>2. CASE \/ Find(r) \/ Claim(r) \/ (Rotate(r) /\ Live(req[r].ses)) \/ ReadActive(r) \/ ReadSession(r)
               \/ LockFamily(r) \/ RevokeFamily(r)
      BY <3>2, ExchangePairs
    <3>3. CASE Judge(r) \/ BridgeLookup(r) \/ IssueFind(r) \/ IssueActive(r) \/ LegacyFind(r) \/ LegacyIssued(r)
      BY <3>3, AnswerPairs
    <3>4. CASE (\E t \in Tokens : LockToken(r, t)) \/ (\E s \in Sessions : LockSession(r, s))
      BY <3>4, LockPairs
    <3>5. CASE \/ LogoutFind(r) \/ LogoutSessions(r) \/ DeleteFind(r) \/ DeleteTokens(r) \/ DeadlockAbort(r) \/ Fail(r)
      BY <3>5, EndingPairs
    <3>6. CASE EndSession(r) \/ CommitLogout(r) \/ CommitDelete(r) \/ (Rotate(r) /\ ~Live(req[r].ses))
      BY <3>6, EndPairs
    <3> QED BY <2>1, <3>1, <3>2, <3>3, <3>4, <3>5, <3>6 DEF Serve
  <2> QED BY <2>1, ArrivePairs, EnvironmentPairs DEF Next
<1> QED BY <1>1, InitPairs, Invariant, PTL DEF Spec

\* Whatever refreshes, sign-ins, logouts and deletions race, and wherever they
\* fail: what a reuse looks for is there, and the pair a refresh answers belongs
\* together for as long as its access token is the session's current one.
THEOREM PairsBelongTogether == Spec => []PairsFollow
<1>1. PairInv => PairsFollow
  <2> SUFFICES ASSUME PairInv PROVE PairBelongsTogether
    BY DEF PairInv, PairsFollow
  <2> QED BY DEF PairInv, Fits, PairOf, PairBelongsTogether
<1> QED BY <1>1, PairInvariant, PTL

\* A request that answered a replay has ended the session: it does not come back,
\* because its version says that it has signed in.
THEOREM ReplaysEndSessions == Spec => []ReplayEndsSession
<1>1. PairInv => ReplayEndsSession
  BY DEF PairInv, Fits, ReplayEndsSession
<1> QED BY <1>1, PairInvariant, PTL
=============================================================================
