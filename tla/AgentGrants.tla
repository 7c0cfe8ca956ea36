------------------------------ MODULE AgentGrants ------------------------------
(***************************************************************************)
(* Agent grants (src/apis/agent-grants.ts,                                 *)
(* src/tools/auth-better/agent-grants.ts): a user lets a client act in one *)
(* tenant.  Better Auth writes the consent, the code and the tokens; here  *)
(* that is the least the code relies on: it reads and writes in statements *)
(* of its own, and nothing but the handler tells it the tenant.            *)
(*                                                                         *)
(* A request is a job that remembers the user and what it is about; one    *)
(* that dies never runs again.  A token names its binding.  A signed       *)
(* authorization request can be had for every client at any time.          *)
(***************************************************************************)
EXTENDS Integers, FiniteSets

CONSTANTS
    Users,
    Agents,         \* registered clients
    Tenants,
    Member,         \* [Users -> SUBSET Tenants]: agent_grant_tenant_allowed says true
    GrantJobs,      \* slots for concurrent requests
    NoBinding,
    MaxGrants,      \* bound: consent rows ever inserted
    MaxCodes        \* bound: codes ever made

Bindings == [user : Users, agent : Agents, tenant : Tenants]

ASSUME MemberAssumption == Member \in [Users -> SUBSET Tenants]
ASSUME MaxGrantsAssumption == MaxGrants \in Nat /\ MaxCodes \in Nat
ASSUME NoBindingAssumption == NoBinding \notin Bindings

VARIABLES
    signedIn,  \* users with a session
    deleted,   \* users with deletedAt
    enabled,   \* clients that are not disabled
    grants,    \* oauthConsent: rows with their id and binding
    granted,   \* ids used so far
    lastUsed,  \* ids of the rows whose lastUsedAt was set
    authCodes, \* unredeemed authorization codes: how many of each binding
    coded,     \* codes made so far
    tokens,    \* bindings with oauthAccessToken rows
    renewals,  \* bindings with oauthRefreshToken rows
    gjob,      \* the requests in progress
    chosen,    \* history: bindings whose user asked for them and may
    standing   \* history: bindings consented to since they were last revoked

grantVars == <<signedIn, deleted, enabled, grants, granted, lastUsed, authCodes, coded, tokens,
               renewals, gjob, chosen, standing>>

NoGrantJob == [pc |-> "idle", is |-> NoBinding, id |-> 0]
At(j, l) == gjob[j].pc = l
Is(j) == gjob[j].is
Go(j, l) == gjob' = [gjob EXCEPT ![j].pc = l]
End(j) == gjob' = [gjob EXCEPT ![j] = NoGrantJob]
Begin(j, l, b, id) == At(j, "idle") /\ gjob' = [gjob EXCEPT ![j] = [pc |-> l, is |-> b, id |-> id]]
RowsOf(b) == {g \in grants : g.is = b}
BindingsOf(u) == {b \in Bindings : b.user = u}

GrantInit ==
    /\ signedIn = Users /\ deleted = {} /\ enabled = Agents
    /\ grants = {} /\ granted = 0 /\ lastUsed = {}
    /\ authCodes = [b \in Bindings |-> 0] /\ coded = 0 /\ tokens = {} /\ renewals = {}
    /\ gjob = [j \in GrantJobs |-> NoGrantJob]
    /\ chosen = {} /\ standing = {}

(***************************************************************************)
(* POST /agent-grants.                                                     *)
(***************************************************************************)
\* sessionUser answers.
Accept(j, b) ==
    /\ b.user \in signedIn
    /\ Begin(j, "bind", b, 0)
    /\ UNCHANGED <<signedIn, deleted, enabled, grants, granted, lastUsed, authCodes, coded, tokens,
                   renewals, chosen, standing>>

\* canBindTenant, which also refuses when the database fails.
CanBindTenant(j) ==
    /\ At(j, "bind")
    /\ \/ /\ Is(j).tenant \in Member[Is(j).user]
          /\ chosen' = chosen \cup {Is(j)}
          /\ Go(j, "consent")
       \/ End(j) /\ UNCHANGED chosen
    /\ UNCHANGED <<signedIn, deleted, enabled, grants, granted, lastUsed, authCodes, coded, tokens,
                   renewals, standing>>

\* decide: Better Auth takes the cookie's session and an enabled client.
Consent(j) ==
    /\ At(j, "consent")
    /\ IF Is(j).user \in signedIn /\ Is(j).agent \in enabled THEN Go(j, "write") ELSE End(j)
    /\ UNCHANGED <<signedIn, deleted, enabled, grants, granted, lastUsed, authCodes, coded, tokens,
                   renewals, chosen, standing>>

\* agentGrantTenant.getStore(), run around the handler of this request.
\* Mutant: a variable of the module, which the latest request set.
TenantInStore_Global(j) ==
    Is(CHOOSE k \in GrantJobs : At(k, "write") /\ (k # j \/ \A l \in GrantJobs \ {j} : ~At(l, "write"))).tenant
TenantInStore(j) == Is(j).tenant

\* UNIQUE ("clientId", "userId", "referenceId").  Mutant: the constraint is missing.
NewRow_NotUnique(b) == {[id |-> granted + 1, is |-> b]}
NewRow(b) == IF RowsOf(b) = {} THEN {[id |-> granted + 1, is |-> b]} ELSE {}

\* The consent row is found or inserted, and a code made for it.
WriteConsent(j) ==
    /\ At(j, "write") /\ coded < MaxCodes /\ granted < MaxGrants
    /\ LET b == [Is(j) EXCEPT !.tenant = TenantInStore(j)]
           new == NewRow(b)
       IN /\ grants' = grants \cup new
          /\ granted' = granted + Cardinality(new)
          /\ authCodes' = [authCodes EXCEPT ![b] = @ + 1]
          /\ standing' = standing \cup {b}
    /\ coded' = coded + 1
    /\ End(j)
    /\ UNCHANGED <<signedIn, deleted, enabled, lastUsed, tokens, renewals, chosen>>

(***************************************************************************)
(* The client's token endpoint: Better Auth takes the code or finds the    *)
(* refresh token, and later inserts the rows of the new tokens.            *)
(***************************************************************************)
ExchangeCode(j, b) ==
    /\ authCodes[b] > 0 /\ b.agent \in enabled
    /\ Begin(j, "issue", b, 0)
    /\ authCodes' = [authCodes EXCEPT ![b] = @ - 1]
    /\ UNCHANGED <<signedIn, deleted, enabled, grants, granted, lastUsed, coded, tokens, renewals,
                   chosen, standing>>
Renew(j, b) ==
    /\ b \in renewals /\ b.agent \in enabled
    /\ Begin(j, "issue", b, 0)
    /\ UNCHANGED <<signedIn, deleted, enabled, grants, granted, lastUsed, authCodes, coded, tokens,
                   renewals, chosen, standing>>
IssueTokens(j) ==
    /\ At(j, "issue")
    /\ tokens' = tokens \cup {Is(j)} /\ renewals' = renewals \cup {Is(j)}
    /\ End(j)
    /\ UNCHANGED <<signedIn, deleted, enabled, grants, granted, lastUsed, authCodes, coded, chosen,
                   standing>>

(***************************************************************************)
(* lookupAgentGrantToken: the token joined with its grant and its client,  *)
(* then the grant's lastUsedAt.                                            *)
(***************************************************************************)
\* Mutant: the join with the consent is left out.
Lookup_NoJoin(j, b) ==
    /\ b \in tokens /\ b.agent \in enabled
    /\ Begin(j, "touch", b, 0)
    /\ UNCHANGED <<signedIn, deleted, enabled, grants, granted, lastUsed, authCodes, coded, tokens,
                   renewals, chosen, standing>>
Lookup(j, b) ==
    /\ b \in tokens /\ b.agent \in enabled
    /\ \E g \in RowsOf(b) : Begin(j, "touch", b, g.id)
    /\ UNCHANGED <<signedIn, deleted, enabled, grants, granted, lastUsed, authCodes, coded, tokens,
                   renewals, chosen, standing>>
Touch(j) ==
    /\ At(j, "touch")
    /\ lastUsed' = lastUsed \cup {g.id : g \in {h \in grants : h.id = gjob[j].id}}
    /\ End(j)
    /\ UNCHANGED <<signedIn, deleted, enabled, grants, granted, authCodes, coded, tokens, renewals,
                   chosen, standing>>

\* revokeAgentGrant, one transaction; codes stay.
RevokeAgentGrant(g) ==
    /\ g \in grants /\ g.is.user \in signedIn
    /\ grants' = grants \ {g} /\ lastUsed' = lastUsed \ {g.id}
    /\ tokens' = tokens \ {g.is} /\ renewals' = renewals \ {g.is}
    /\ standing' = standing \ {g.is}
    /\ UNCHANGED <<signedIn, deleted, enabled, granted, authCodes, coded, gjob, chosen>>

\* tombstoneUser with revokeUserAgentGrants, one transaction.
DeleteUser(u) ==
    /\ u \in signedIn
    /\ deleted' = deleted \cup {u} /\ signedIn' = signedIn \ {u}
    /\ grants' = {g \in grants : g.is.user # u}
    /\ lastUsed' = {g.id : g \in {h \in grants : h.is.user # u}} \cap lastUsed
    /\ tokens' = tokens \ BindingsOf(u) /\ renewals' = renewals \ BindingsOf(u)
    /\ standing' = standing \ BindingsOf(u)
    /\ UNCHANGED <<enabled, granted, authCodes, coded, gjob, chosen>>

\* The user logs out, an operator disables a client, a token expires.
SessionEnds(u) ==
    /\ u \in signedIn /\ signedIn' = signedIn \ {u}
    /\ UNCHANGED <<deleted, enabled, grants, granted, lastUsed, authCodes, coded, tokens, renewals,
                   gjob, chosen, standing>>
DisableClient(a) ==
    /\ a \in enabled /\ enabled' = enabled \ {a}
    /\ UNCHANGED <<signedIn, deleted, grants, granted, lastUsed, authCodes, coded, tokens, renewals,
                   gjob, chosen, standing>>
TokenExpires(b) ==
    /\ b \in tokens /\ tokens' = tokens \ {b}
    /\ UNCHANGED <<signedIn, deleted, enabled, grants, granted, lastUsed, authCodes, coded, renewals,
                   gjob, chosen, standing>>

GrantNext ==
    \/ \E j \in GrantJobs, b \in Bindings :
         Accept(j, b) \/ ExchangeCode(j, b) \/ Renew(j, b) \/ Lookup(j, b)
    \/ \E j \in GrantJobs :
         CanBindTenant(j) \/ Consent(j) \/ WriteConsent(j) \/ IssueTokens(j) \/ Touch(j)
    \/ \E g \in grants : RevokeAgentGrant(g)
    \/ \E u \in Users : DeleteUser(u) \/ SessionEnds(u)
    \/ \E a \in Agents : DisableClient(a)
    \/ \E b \in Bindings : TokenExpires(b)

GrantSpec == GrantInit /\ [][GrantNext]_grantVars

(***************************************************************************)
(* Properties.                                                             *)
(***************************************************************************)
\* Every variable has its type, and grants are unique per user, client and tenant.
GrantTypeOK ==
    /\ signedIn \subseteq Users /\ deleted \subseteq Users /\ enabled \subseteq Agents
    /\ grants \subseteq [id : 1..MaxGrants, is : Bindings] /\ granted \in 0..MaxGrants
    /\ \A g, h \in grants : g.id = h.id \/ g.is = h.is => g = h
    /\ lastUsed \subseteq {g.id : g \in grants}
    /\ authCodes \in [Bindings -> 0..MaxCodes] /\ coded \in 0..MaxCodes
    /\ tokens \subseteq Bindings /\ renewals \subseteq Bindings
    /\ gjob \in [GrantJobs -> [pc : {"idle", "bind", "consent", "write", "issue", "touch"},
                               is : Bindings \cup {NoBinding}, id : 0..MaxGrants]]
    /\ chosen \subseteq Bindings /\ standing \subseteq Bindings

\* Whatever a client can act with, grant, code or token, names a tenant that its
\* user asked for and may bind ("binding the grant to exactly one tenant the User
\* belongs to"), however the requests of users for several tenants interleave.
BindingsAreChosen ==
    /\ {g.is : g \in grants} \cup tokens \cup renewals \subseteq chosen
    /\ {b \in Bindings : authCodes[b] > 0} \subseteq chosen
    /\ \A b \in chosen : b.tenant \in Member[b.user]

\* Revoking ends access on the next call: a token is accepted only for a binding
\* its user has consented to since it was last revoked, whatever the client
\* exchanged or renewed while it was being revoked.
RevokedEndsAccess ==
    [][\A j \in GrantJobs, b \in Bindings : At(j, "idle") /\ Lookup(j, b) => b \in standing]_grantVars
================================================================================
