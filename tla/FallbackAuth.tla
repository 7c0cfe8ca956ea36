------------------------------ MODULE FallbackAuth ------------------------------
(***************************************************************************)
(* The refresh tokens of the in-memory auth store (src/apis/auth-store.ts) *)
(* and the handlers that use it (authPlugin of src/apis/auth.ts).          *)
(*                                                                         *)
(* A pair of tokens is known by its number: the refresh token's jti, and,  *)
(* as every pair has a session id of its own, its sid.  A family is known  *)
(* by its first pair.  Handlers run without interruption up to the await   *)
(* that signs the pair.  No caller sets the store's write-through database. *)
(***************************************************************************)
EXTENDS Integers, Sequences, FiniteSets

CONSTANTS
    Handlers,   \* slots for concurrent requests
    MaxPairs    \* bound: pairs ever signed

ASSUME MaxPairsAssumption == MaxPairs \in Nat

VARIABLES
    pairs,     \* every pair ever signed: its family, and the pair it replaces or 0
    answered,  \* pairs that clients were sent
    stored,    \* the keys of the refreshTokens map
    used,      \* stored tokens that are consumed
    families,  \* the keys of the refreshTokenFamilies map
    revoked,   \* families that are compromised
    aged,      \* pairs whose refresh token expired
    signing,   \* the pair each handler is signing, 0 for none
    replayed   \* history: families of which a consumed token was presented

fallbackVars == <<pairs, answered, stored, used, families, revoked, aged, signing, replayed>>

PairIds == 1..MaxPairs
Family(p) == pairs[p].family
TokenIds(f) == {p \in DOMAIN pairs : Family(p) = f /\ p \in answered}

FallbackInit ==
    /\ pairs = <<>> /\ answered = {} /\ stored = {} /\ used = {} /\ families = {} /\ revoked = {}
    /\ aged = {} /\ signing = [h \in Handlers |-> 0] /\ replayed = {}

\* generateAccessToken and generateRefreshToken are called and awaited.
Sign(h, pair) ==
    /\ signing[h] = 0 /\ Len(pairs) < MaxPairs
    /\ pairs' = Append(pairs, pair)
    /\ signing' = [signing EXCEPT ![h] = Len(pairs) + 1]

\* A sign-up or sign-in whose password was hashed or verified.
SignIn(h) ==
    /\ Sign(h, [family |-> Len(pairs) + 1, parent |-> 0])
    /\ UNCHANGED <<answered, stored, used, families, revoked, aged, replayed>>

\* addRefreshToken and the answer.
AddRefreshToken(h) ==
    LET p == signing[h] IN
    /\ p # 0
    /\ families' = families \cup {Family(p)}
    /\ stored' = stored \cup {p} /\ answered' = answered \cup {p}
    /\ signing' = [signing EXCEPT ![h] = 0]
    /\ UNCHANGED <<pairs, used, revoked, aged, replayed>>

\* validateTokenForRotation: valid.
Valid(p) == p \in stored \ aged /\ Family(p) \notin revoked /\ p \notin used
\* consumeRefreshToken.
Consume(p) == used' = used \cup {p}

\* The refresh grant of a token that may be rotated.
Rotate(h, p) ==
    /\ p \in answered /\ Valid(p)
    /\ Consume(p)
    /\ Sign(h, [family |-> Family(p), parent |-> p])
    /\ UNCHANGED <<answered, stored, families, revoked, aged, replayed>>

\* A consumed token is presented: its family goes, the tokens stored so far with it.
\* Mutant: only the tokens go.
Replay_ForgetsMark(p) ==
    /\ p \in stored \ aged /\ Family(p) \notin revoked /\ p \in used
    /\ stored' = stored \ TokenIds(Family(p))
    /\ replayed' = replayed \cup {Family(p)}
    /\ UNCHANGED <<pairs, answered, used, families, revoked, aged, signing>>
Replay(p) ==
    /\ p \in stored \ aged /\ Family(p) \notin revoked /\ p \in used
    /\ revoked' = revoked \cup {Family(p)}
    /\ stored' = stored \ TokenIds(Family(p))
    /\ replayed' = replayed \cup {Family(p)}
    /\ UNCHANGED <<pairs, answered, used, families, aged, signing>>

\* POST /logout with the pair's access token: invalidateSession of its sid, which
\* is the sid of no other token, and of a family only if the pair started it.
Logout(p) ==
    /\ p \in answered
    /\ stored' = stored \ {p}
    /\ revoked' = revoked \cup ({p} \cap families)
    /\ UNCHANGED <<pairs, answered, used, families, aged, signing, replayed>>

\* A week passes.
Expires(p) ==
    /\ p \in stored /\ p \notin aged
    /\ aged' = aged \cup {p}
    /\ UNCHANGED <<pairs, answered, stored, used, families, revoked, signing, replayed>>

\* The process restarts; tokens signed with the same JWT_SECRET are still about.
Restart ==
    /\ stored' = {} /\ used' = {} /\ families' = {} /\ revoked' = {}
    /\ signing' = [h \in Handlers |-> 0]
    /\ UNCHANGED <<pairs, answered, aged, replayed>>

FallbackNext ==
    \/ \E h \in Handlers : SignIn(h) \/ AddRefreshToken(h)
    \/ \E h \in Handlers, p \in DOMAIN pairs : Rotate(h, p)
    \/ \E p \in DOMAIN pairs : Replay(p) \/ Logout(p) \/ Expires(p)
    \/ Restart

FallbackSpec == FallbackInit /\ [][FallbackNext]_fallbackVars

(***************************************************************************)
(* Properties.                                                             *)
(***************************************************************************)
\* Every variable has its type.
FallbackTypeOK ==
    /\ pairs \in Seq([family : PairIds, parent : 0..MaxPairs]) /\ Len(pairs) <= MaxPairs
    /\ answered \subseteq DOMAIN pairs /\ stored \subseteq answered
    /\ aged \subseteq DOMAIN pairs /\ used \subseteq DOMAIN pairs
    /\ families \subseteq DOMAIN pairs /\ revoked \subseteq families
    /\ signing \in [Handlers -> 0..Len(pairs)] /\ replayed \subseteq DOMAIN pairs

\* A refresh token has one successor at most, however many requests present it:
\* it is consumed before the handler first awaits.
OneSuccessor == \A p, q \in DOMAIN pairs :
    pairs[p].parent = pairs[q].parent /\ pairs[p].parent # 0 => p = q

\* "invalidating all current and future tokens in that family chain": after a
\* replay no token of the family is rotated, the one that was being signed included.
ReplayEndsFamily ==
    [][\A h \in Handlers, p \in DOMAIN pairs : Rotate(h, p) => Family(p) \notin replayed]_fallbackVars

\* Both: a family is one chain, and a replay ends it.
FamiliesAreChains == []OneSuccessor /\ ReplayEndsFamily

\* "Invalidate a session: removes all its refresh tokens and marks the session's
\* families as compromised": false once the family was rotated, as a family keeps
\* the sid of its first pair (see the README).
LogoutEndsFamily ==
    [][\A p \in DOMAIN pairs : Logout(p) /\ Family(p) \in families => Family(p) \in revoked']_fallbackVars
=================================================================================
