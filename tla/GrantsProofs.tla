----------------------------- MODULE GrantsProofs -----------------------------
(***************************************************************************)
(* Theorems about agent grants and about the refresh tokens of the         *)
(* in-memory store, for any users, clients, tenants, requests and pairs.   *)
(***************************************************************************)
EXTENDS MCGrants, SequenceTheorems, FiniteSetTheorems, TLAPS

(***************************************************************************)
(* Agent grants.                                                           *)
(*                                                                         *)
(* A binding gets from the request to the consent, the code and the tokens *)
(* by way of jobs that may be interrupted anywhere: the invariant says     *)
(* what each job may carry (JobsCarry), that a grant stands as long as its *)
(* row is there (GrantsStand), and what the bounds count (Counted).        *)
(***************************************************************************)
JobsCarry == \A j \in GrantJobs :
    /\ gjob[j].pc # "idle" => Is(j) \in Bindings
    /\ gjob[j].pc \in {"consent", "write", "issue"} => Is(j) \in chosen
GrantsStand == \A g \in grants : g.is \in standing
Counted ==
    /\ \A g \in grants : g.id <= granted
    /\ \A b \in Bindings : authCodes[b] <= coded

GrantInv == GrantTypeOK /\ BindingsAreChosen /\ JobsCarry /\ GrantsStand /\ Counted

GrantPcs == {"idle", "bind", "consent", "write", "issue", "touch"}
GrantJob == [pc : GrantPcs, is : Bindings \cup {NoBinding}, id : 0..MaxGrants]

\* A step of one job, which becomes x, and of nothing else but what may act.
LEMMA JobStep ==
  ASSUME GrantInv, NEW j \in GrantJobs, NEW x \in GrantJob,
         gjob' = [gjob EXCEPT ![j] = x], x.pc # "idle" => x.is \in Bindings,
         x.pc \in {"consent", "write", "issue"} => x.is \in chosen',
         chosen \subseteq chosen'
  PROVE  /\ gjob' \in [GrantJobs -> GrantJob] /\ JobsCarry'
<1>1. gjob' \in [GrantJobs -> GrantJob] /\ gjob'[j] = x /\ \A k \in GrantJobs \ {j} : gjob'[k] = gjob[k]
  BY DEF GrantInv, GrantTypeOK, GrantJob, GrantPcs
<1> QED BY <1>1 DEF GrantInv, JobsCarry, Is

LEMMA JobType ==
  ASSUME GrantInv, NEW j \in GrantJobs
  PROVE  gjob[j] \in GrantJob /\ MaxGrants \in Nat /\ MaxCodes \in Nat
BY MaxGrantsAssumption DEF GrantInv, GrantTypeOK, GrantJob, GrantPcs

LEMMA Ending ==
  ASSUME GrantInv, NEW j \in GrantJobs, End(j), chosen \subseteq chosen'
  PROVE  gjob' \in [GrantJobs -> GrantJob] /\ JobsCarry'
<1>1. NoGrantJob \in GrantJob /\ NoGrantJob.pc = "idle"
  BY JobType DEF NoGrantJob, GrantJob, GrantPcs
<1> QED BY <1>1, JobStep DEF End

LEMMA Beginning ==
  ASSUME GrantInv, NEW j \in GrantJobs, NEW b \in Bindings, NEW l \in {"bind", "issue", "touch"},
         NEW id \in 0..MaxGrants, Begin(j, l, b, id), l = "issue" => b \in chosen, UNCHANGED chosen
  PROVE  gjob' \in [GrantJobs -> GrantJob] /\ JobsCarry'
<1> DEFINE x == [pc |-> l, is |-> b, id |-> id]
<1>1. x \in GrantJob /\ x.pc = l /\ x.is = b
  BY DEF GrantJob, GrantPcs
<1>2. gjob' = [gjob EXCEPT ![j] = x]
  BY DEF Begin
<1> HIDE DEF x
<1> QED BY <1>1, <1>2, JobStep

LEMMA Going ==
  ASSUME GrantInv, NEW j \in GrantJobs, NEW l \in {"consent", "write"}, Go(j, l),
         gjob[j].pc # "idle", Is(j) \in chosen', chosen \subseteq chosen'
  PROVE  gjob' \in [GrantJobs -> GrantJob] /\ JobsCarry'
<1> DEFINE x == [gjob[j] EXCEPT !.pc = l]
<1>1. x \in GrantJob /\ x.pc = l /\ x.is = Is(j) /\ Is(j) \in Bindings
  BY JobType DEF GrantJob, GrantPcs, GrantInv, JobsCarry, Is
<1>2. gjob' = [gjob EXCEPT ![j] = x]
  BY DEF Go
<1> HIDE DEF x
<1> QED BY <1>1, <1>2, JobStep

\* What is left to show when a step changes jobs and what the rest says of it.
LEMMA OnlyJobs ==
  ASSUME GrantInv, gjob' \in [GrantJobs -> GrantJob], JobsCarry',
         UNCHANGED <<signedIn, deleted, enabled, grants, granted, lastUsed, authCodes, coded, tokens,
                     renewals, chosen, standing>>
  PROVE  GrantInv'
<1>1. GrantTypeOK'
  BY DEF GrantInv, GrantTypeOK, GrantJob, GrantPcs
<1> QED BY <1>1 DEF GrantInv, BindingsAreChosen, GrantsStand, Counted

(***************************************************************************)
(* Every step preserves the invariant.                                     *)
(***************************************************************************)
LEMMA AcceptInv == ASSUME GrantInv, NEW j \in GrantJobs, NEW b \in Bindings, Accept(j, b) PROVE GrantInv'
<1>1. 0 \in 0..MaxGrants
  BY MaxGrantsAssumption
<1> QED BY <1>1, Beginning, OnlyJobs DEF Accept

LEMMA CanBindTenantInv == ASSUME GrantInv, NEW j \in GrantJobs, CanBindTenant(j) PROVE GrantInv'
<1>1. gjob[j].pc = "bind" /\ Is(j) \in Bindings
      /\ UNCHANGED <<signedIn, deleted, enabled, grants, granted, lastUsed, authCodes, coded, tokens,
                     renewals, standing>>
  BY DEF CanBindTenant, At, GrantInv, JobsCarry
<1>2. CASE End(j) /\ UNCHANGED chosen
  BY <1>1, <1>2, Ending, OnlyJobs
<1>3. CASE Is(j).tenant \in Member[Is(j).user] /\ chosen' = chosen \cup {Is(j)} /\ Go(j, "consent")
  <2>1. gjob' \in [GrantJobs -> GrantJob] /\ JobsCarry'
    BY <1>1, <1>3, Going
  <2>2. GrantTypeOK'
    BY <1>1, <1>3, <2>1 DEF GrantInv, GrantTypeOK, GrantJob, GrantPcs
  <2>3. BindingsAreChosen'
    BY <1>1, <1>3 DEF GrantInv, BindingsAreChosen
  <2>4. GrantsStand' /\ Counted'
    BY <1>1 DEF GrantInv, GrantsStand, Counted
  <2> QED BY <2>1, <2>2, <2>3, <2>4 DEF GrantInv
<1> QED BY <1>2, <1>3 DEF CanBindTenant

LEMMA ConsentInv == ASSUME GrantInv, NEW j \in GrantJobs, Consent(j) PROVE GrantInv'
<1>1. gjob[j].pc = "consent" /\ Is(j) \in chosen
  BY DEF Consent, At, GrantInv, JobsCarry
<1>2. CASE Go(j, "write")
  BY <1>1, <1>2, Going, OnlyJobs DEF Consent
<1>3. CASE End(j)
  BY <1>3, Ending, OnlyJobs DEF Consent
<1> QED BY <1>2, <1>3 DEF Consent

\* The row is of a binding that was chosen, and is the only one of it.
LEMMA WriteConsentInv == ASSUME GrantInv, NEW j \in GrantJobs, WriteConsent(j) PROVE GrantInv'
<1> DEFINE b == Is(j)
           new == NewRow(b)
<1>1. /\ gjob[j].pc = "write" /\ b \in chosen /\ b \in Bindings
      /\ coded < MaxCodes /\ granted < MaxGrants /\ coded' = coded + 1 /\ End(j)
      /\ UNCHANGED <<signedIn, deleted, enabled, lastUsed, tokens, renewals, chosen>>
  BY DEF WriteConsent, At, GrantInv, JobsCarry
<1>2. [Is(j) EXCEPT !.tenant = TenantInStore(j)] = b
  BY <1>1 DEF TenantInStore, Bindings
<1>3. /\ grants' = grants \cup new /\ granted' = granted + Cardinality(new)
      /\ authCodes' = [authCodes EXCEPT ![b] = @ + 1] /\ standing' = standing \cup {b}
  BY <1>2 DEF WriteConsent
<1>4. granted \in Nat /\ coded \in Nat /\ MaxGrants \in Nat /\ MaxCodes \in Nat
  BY MaxGrantsAssumption DEF GrantInv, GrantTypeOK
<1>5. \/ new = {} /\ Cardinality(new) = 0
      \/ RowsOf(b) = {} /\ new = {[id |-> granted + 1, is |-> b]} /\ Cardinality(new) = 1
  BY FS_EmptySet, FS_Singleton DEF NewRow
<1> HIDE DEF b, new
<1>6. granted' \in granted..(granted + 1) /\ \A g \in new : g.id = granted + 1 /\ g.is = b /\ granted' = granted + 1
  BY <1>3, <1>4, <1>5
<1>7. new \subseteq [id : 1..MaxGrants, is : Bindings] /\ \A g, h \in new : g = h
  BY <1>1, <1>4, <1>5
<1>8. \A g \in grants, h \in new : g.id # h.id /\ g.is # h.is
  <2> TAKE g \in grants, h \in new
  <2>1. g.is # b
    BY <1>5 DEF RowsOf
  <2>2. g.id <= granted /\ g.id \in Nat
    BY DEF GrantInv, Counted, GrantTypeOK
  <2> QED BY <1>4, <1>6, <2>1, <2>2
<1>9. \A c \in Bindings : /\ authCodes[c] \in Nat /\ authCodes'[c] \in Nat /\ authCodes'[c] <= coded + 1
                          /\ authCodes'[c] = IF c = b THEN authCodes[c] + 1 ELSE authCodes[c]
  <2>1. \A c \in Bindings : authCodes[c] \in Nat /\ authCodes[c] <= coded
    BY DEF GrantInv, GrantTypeOK, Counted
  <2>2. \A c \in Bindings : authCodes'[c] = IF c = b THEN authCodes[c] + 1 ELSE authCodes[c]
    BY <1>3 DEF GrantInv, GrantTypeOK
  <2> QED BY <1>4, <2>1, <2>2
<1>10. gjob' \in [GrantJobs -> GrantJob] /\ JobsCarry'
  BY <1>1, Ending
<1>11. GrantTypeOK'
  <2>1. grants' \subseteq [id : 1..MaxGrants, is : Bindings] /\ \A g, h \in grants' : g.id = h.id \/ g.is = h.is => g = h
    BY <1>3, <1>7, <1>8 DEF GrantInv, GrantTypeOK
  <2>2. granted' \in 0..MaxGrants /\ coded' \in 0..MaxCodes
    BY <1>1, <1>4, <1>6
  <2>3. authCodes' \in [Bindings -> 0..MaxCodes]
    <3>1. \A c \in Bindings : authCodes'[c] \in 0..MaxCodes
      BY <1>1, <1>4, <1>9
    <3>2. authCodes' = [c \in Bindings |-> authCodes'[c]]
      BY <1>3 DEF GrantInv, GrantTypeOK
    <3> QED BY <3>1, <3>2
  <2>4. lastUsed' \subseteq {g.id : g \in grants'}
    BY <1>1, <1>3 DEF GrantInv, GrantTypeOK
  <2>5. standing' \subseteq Bindings
    BY <1>1, <1>3 DEF GrantInv, GrantTypeOK
  <2> QED BY <1>1, <1>10, <2>1, <2>2, <2>3, <2>4, <2>5 DEF GrantInv, GrantTypeOK, GrantJob, GrantPcs
<1>12. BindingsAreChosen'
  <2>1. \A c \in Bindings : authCodes'[c] > 0 => c = b \/ authCodes[c] > 0
    BY <1>9
  <2>2. {g.is : g \in grants'} \subseteq {g.is : g \in grants} \cup {b}
    BY <1>3, <1>6
  <2> QED BY <1>1, <2>1, <2>2 DEF GrantInv, BindingsAreChosen
<1>13. GrantsStand'
  BY <1>3, <1>6 DEF GrantInv, GrantsStand
<1>14. Counted'
  <2>1. \A g \in grants' : g.id <= granted'
    <3> TAKE g \in grants'
    <3>1. CASE g \in new
      BY <1>4, <1>6, <3>1
    <3>2. CASE g \in grants
      <4>1. g.id <= granted /\ g.id \in Nat
        BY <3>2 DEF GrantInv, Counted, GrantTypeOK
      <4> QED BY <1>4, <1>6, <4>1
    <3> QED BY <1>3, <3>1, <3>2
  <2> QED BY <1>1, <1>9, <2>1 DEF Counted
<1> QED BY <1>10, <1>11, <1>12, <1>13, <1>14 DEF GrantInv

LEMMA ExchangeCodeInv ==
  ASSUME GrantInv, NEW j \in GrantJobs, NEW b \in Bindings, ExchangeCode(j, b) PROVE GrantInv'
<1>1. /\ authCodes[b] > 0 /\ Begin(j, "issue", b, 0) /\ authCodes' = [authCodes EXCEPT ![b] = @ - 1]
      /\ UNCHANGED <<signedIn, deleted, enabled, grants, granted, lastUsed, coded, tokens, renewals,
                     chosen, standing>>
  BY DEF ExchangeCode
<1>2. b \in chosen /\ 0 \in 0..MaxGrants
  BY <1>1, MaxGrantsAssumption DEF GrantInv, BindingsAreChosen
<1>3. gjob' \in [GrantJobs -> GrantJob] /\ JobsCarry'
  BY <1>1, <1>2, Beginning
<1>4. \A c \in Bindings : authCodes'[c] \in Nat /\ authCodes'[c] <= authCodes[c] /\ authCodes[c] \in Nat
                          /\ authCodes[c] <= coded
  <2>1. \A c \in Bindings : authCodes[c] \in Nat /\ authCodes[c] <= coded
    BY DEF GrantInv, GrantTypeOK, Counted
  <2>2. \A c \in Bindings : authCodes'[c] = IF c = b THEN authCodes[c] - 1 ELSE authCodes[c]
    BY <1>1 DEF GrantInv, GrantTypeOK
  <2> QED BY <1>1, <2>1, <2>2
<1>5. coded \in Nat /\ coded <= MaxCodes /\ MaxCodes \in Nat
  BY MaxGrantsAssumption DEF GrantInv, GrantTypeOK
<1>6. authCodes' \in [Bindings -> 0..MaxCodes]
  <2>1. \A c \in Bindings : authCodes'[c] \in 0..MaxCodes
    BY <1>4, <1>5
  <2>2. authCodes' = [c \in Bindings |-> authCodes'[c]]
    BY <1>1 DEF GrantInv, GrantTypeOK
  <2> QED BY <2>1, <2>2
<1>7. GrantTypeOK'
  BY <1>1, <1>3, <1>6 DEF GrantInv, GrantTypeOK, GrantJob, GrantPcs
<1>8. BindingsAreChosen'
  <2>1. \A c \in Bindings : authCodes'[c] > 0 => authCodes[c] > 0
    BY <1>4
  <2> QED BY <1>1, <2>1 DEF GrantInv, BindingsAreChosen
<1>9. GrantsStand' /\ Counted'
  <2>1. \A c \in Bindings : authCodes'[c] <= coded
    BY <1>4, <1>5
  <2> QED BY <1>1, <2>1 DEF GrantInv, GrantsStand, Counted
<1> QED BY <1>3, <1>7, <1>8, <1>9 DEF GrantInv

LEMMA RenewInv == ASSUME GrantInv, NEW j \in GrantJobs, NEW b \in Bindings, Renew(j, b) PROVE GrantInv'
<1>1. b \in chosen /\ 0 \in 0..MaxGrants
  BY MaxGrantsAssumption DEF Renew, GrantInv, BindingsAreChosen
<1> QED BY <1>1, Beginning, OnlyJobs DEF Renew

LEMMA IssueTokensInv == ASSUME GrantInv, NEW j \in GrantJobs, IssueTokens(j) PROVE GrantInv'
<1>1. /\ Is(j) \in chosen /\ Is(j) \in Bindings /\ End(j)
      /\ tokens' = tokens \cup {Is(j)} /\ renewals' = renewals \cup {Is(j)}
      /\ UNCHANGED <<signedIn, deleted, enabled, grants, granted, lastUsed, authCodes, coded, chosen,
                     standing>>
  BY DEF IssueTokens, At, GrantInv, JobsCarry
<1>2. gjob' \in [GrantJobs -> GrantJob] /\ JobsCarry'
  BY <1>1, Ending
<1>3. GrantTypeOK'
  BY <1>1, <1>2 DEF GrantInv, GrantTypeOK, GrantJob, GrantPcs
<1>4. BindingsAreChosen'
  BY <1>1 DEF GrantInv, BindingsAreChosen
<1>5. GrantsStand' /\ Counted'
  BY <1>1 DEF GrantInv, GrantsStand, Counted
<1> QED BY <1>2, <1>3, <1>4, <1>5 DEF GrantInv

LEMMA LookupInv == ASSUME GrantInv, NEW j \in GrantJobs, NEW b \in Bindings, Lookup(j, b) PROVE GrantInv'
<1>1. PICK g \in RowsOf(b) : Begin(j, "touch", b, g.id)
  BY DEF Lookup
<1>2. g.id \in 0..MaxGrants
  BY MaxGrantsAssumption DEF GrantInv, GrantTypeOK, RowsOf
<1> QED BY <1>1, <1>2, Beginning, OnlyJobs DEF Lookup

LEMMA TouchInv == ASSUME GrantInv, NEW j \in GrantJobs, Touch(j) PROVE GrantInv'
<1>1. /\ End(j) /\ lastUsed' = lastUsed \cup {g.id : g \in {h \in grants : h.id = gjob[j].id}}
      /\ UNCHANGED <<signedIn, deleted, enabled, grants, granted, authCodes, coded, tokens, renewals,
                     chosen, standing>>
  BY DEF Touch
<1>2. gjob' \in [GrantJobs -> GrantJob] /\ JobsCarry'
  BY <1>1, Ending
<1>3. lastUsed' \subseteq {g.id : g \in grants'}
  BY <1>1 DEF GrantInv, GrantTypeOK
<1>4. GrantTypeOK'
  BY <1>1, <1>2, <1>3 DEF GrantInv, GrantTypeOK, GrantJob, GrantPcs
<1> QED BY <1>1, <1>2, <1>4 DEF GrantInv, BindingsAreChosen, GrantsStand, Counted

\* Fewer grants, tokens and renewals, and no binding of a remaining grant stops
\* standing: what revoking and deleting have in common.
LEMMA Fewer ==
  ASSUME GrantInv, grants' \subseteq grants, lastUsed' \subseteq {g.id : g \in grants'},
         tokens' \subseteq tokens, renewals' \subseteq renewals, standing' \subseteq standing,
         \A g \in grants' : g.is \in standing',
         signedIn' \subseteq signedIn, deleted' \subseteq Users, enabled' \subseteq enabled,
         UNCHANGED <<granted, authCodes, coded, gjob, chosen>>
  PROVE  GrantInv'
<1>1. GrantTypeOK'
  BY DEF GrantInv, GrantTypeOK
<1>2. BindingsAreChosen'
  BY DEF GrantInv, BindingsAreChosen
<1>3. JobsCarry' /\ Counted'
  BY DEF GrantInv, JobsCarry, Counted, Is
<1>4. GrantsStand'
  BY DEF GrantsStand
<1> QED BY <1>1, <1>2, <1>3, <1>4 DEF GrantInv

\* No other row is of the revoked binding, so the others stand.
LEMMA RevokeAgentGrantInv == ASSUME GrantInv, NEW g \in grants, RevokeAgentGrant(g) PROVE GrantInv'
<1>1. /\ grants' = grants \ {g} /\ lastUsed' = lastUsed \ {g.id}
      /\ tokens' = tokens \ {g.is} /\ renewals' = renewals \ {g.is}
      /\ standing' = standing \ {g.is}
      /\ UNCHANGED <<signedIn, deleted, enabled, granted, authCodes, coded, gjob, chosen>>
  BY DEF RevokeAgentGrant
<1>2. \A h \in grants' : h \in grants /\ h.is # g.is /\ h.is \in standing
  BY <1>1 DEF GrantInv, GrantTypeOK, GrantsStand
<1>3. lastUsed' \subseteq {h.id : h \in grants'}
  <2>1. lastUsed \subseteq {h.id : h \in grants}
    BY DEF GrantInv, GrantTypeOK
  <2> QED BY <1>1, <2>1
<1>4. deleted \subseteq Users
  BY DEF GrantInv, GrantTypeOK
<1> QED BY <1>1, <1>2, <1>3, <1>4, Fewer

LEMMA DeleteUserInv == ASSUME GrantInv, NEW u \in Users, DeleteUser(u) PROVE GrantInv'
<1>1. /\ deleted' = deleted \cup {u} /\ signedIn' = signedIn \ {u}
      /\ grants' = {g \in grants : g.is.user # u}
      /\ lastUsed' = {g.id : g \in {h \in grants : h.is.user # u}} \cap lastUsed
      /\ tokens' = tokens \ BindingsOf(u) /\ renewals' = renewals \ BindingsOf(u)
      /\ standing' = standing \ BindingsOf(u)
      /\ UNCHANGED <<enabled, granted, authCodes, coded, gjob, chosen>>
  BY DEF DeleteUser
<1>2. deleted' \subseteq Users /\ lastUsed' \subseteq {g.id : g \in grants'}
  BY <1>1 DEF GrantInv, GrantTypeOK
<1>3. \A g \in grants' : g.is \in standing'
  BY <1>1 DEF GrantInv, GrantsStand, BindingsOf
<1> QED BY <1>1, <1>2, <1>3, Fewer

LEMMA EndingsInv ==
  ASSUME GrantInv,
         \/ \E u \in Users : SessionEnds(u)
         \/ \E a \in Agents : DisableClient(a)
         \/ \E b \in Bindings : TokenExpires(b)
  PROVE  GrantInv'
<1>1. /\ lastUsed \subseteq {g.id : g \in grants} /\ deleted \subseteq Users
      /\ \A g \in grants : g.is \in standing
  BY DEF GrantInv, GrantTypeOK, GrantsStand
<1>2. CASE \E u \in Users : SessionEnds(u)
  BY <1>1, <1>2, Fewer DEF SessionEnds
<1>3. CASE \E a \in Agents : DisableClient(a)
  BY <1>1, <1>3, Fewer DEF DisableClient
<1>4. CASE \E b \in Bindings : TokenExpires(b)
  BY <1>1, <1>4, Fewer DEF TokenExpires
<1> QED BY <1>2, <1>3, <1>4

LEMMA GrantInitInv == GrantInit => GrantInv
<1> SUFFICES ASSUME GrantInit PROVE GrantInv
  OBVIOUS
<1>1. MaxGrants \in Nat /\ MaxCodes \in Nat
  BY MaxGrantsAssumption
<1>2. gjob \in [GrantJobs -> GrantJob] /\ \A j \in GrantJobs : gjob[j].pc = "idle"
  BY <1>1 DEF GrantInit, NoGrantJob, GrantJob, GrantPcs
<1>3. authCodes \in [Bindings -> 0..MaxCodes] /\ \A b \in Bindings : authCodes[b] = 0
  BY <1>1 DEF GrantInit
<1>4. GrantTypeOK
  BY <1>1, <1>2, <1>3 DEF GrantInit, GrantTypeOK, GrantJob, GrantPcs
<1>5. BindingsAreChosen /\ GrantsStand
  BY <1>3 DEF GrantInit, BindingsAreChosen, GrantsStand
<1>6. JobsCarry /\ Counted
  BY <1>2, <1>3 DEF GrantInit, JobsCarry, Counted
<1> QED BY <1>4, <1>5, <1>6 DEF GrantInv

LEMMA GrantNextInv == ASSUME GrantInv, [GrantNext]_grantVars PROVE GrantInv'
<1>1. CASE UNCHANGED grantVars
  BY <1>1 DEF grantVars, GrantInv, GrantTypeOK, BindingsAreChosen, JobsCarry, GrantsStand, Counted, Is
<1>2. ASSUME NEW j \in GrantJobs, NEW b \in Bindings,
             Accept(j, b) \/ ExchangeCode(j, b) \/ Renew(j, b) \/ Lookup(j, b)
      PROVE  GrantInv'
  BY <1>2, AcceptInv, ExchangeCodeInv, RenewInv, LookupInv
<1>3. ASSUME NEW j \in GrantJobs,
             CanBindTenant(j) \/ Consent(j) \/ WriteConsent(j) \/ IssueTokens(j) \/ Touch(j)
      PROVE  GrantInv'
  BY <1>3, CanBindTenantInv, ConsentInv, WriteConsentInv, IssueTokensInv, TouchInv
<1>4. ASSUME NEW g \in grants, RevokeAgentGrant(g) PROVE GrantInv'
  BY <1>4, RevokeAgentGrantInv
<1>5. ASSUME NEW u \in Users, DeleteUser(u) PROVE GrantInv'
  BY <1>5, DeleteUserInv
<1> QED BY <1>1, <1>2, <1>3, <1>4, <1>5, EndingsInv DEF GrantNext

\* Whatever a client can act with names a tenant its user asked for and may bind,
\* for any users, clients, tenants and requests in progress at once.
THEOREM GrantsBindWhatWasChosen == GrantSpec => []BindingsAreChosen
<1>1. GrantInv => BindingsAreChosen
  BY DEF GrantInv
<1> QED BY <1>1, GrantInitInv, GrantNextInv, PTL DEF GrantSpec

\* A token is accepted only for a binding that stands: the lookup joins it with
\* its consent row, and the rows that are there stand.
THEOREM RevokingEndsAccess == GrantSpec => RevokedEndsAccess
<1> DEFINE Accepted == \A j \in GrantJobs, b \in Bindings : At(j, "idle") /\ Lookup(j, b) => b \in standing
<1>1. ASSUME GrantInv PROVE Accepted
  BY <1>1 DEF Lookup, RowsOf, GrantInv, GrantsStand
<1>2. GrantInv => [Accepted]_grantVars
  BY <1>1
<1> HIDE DEF Accepted
<1>3. GrantSpec => [][Accepted]_grantVars
  BY <1>2, GrantInitInv, GrantNextInv, PTL DEF GrantSpec
<1> QED BY <1>3 DEF RevokedEndsAccess, Accepted

(***************************************************************************)
(* The refresh tokens of the in-memory store.                              *)
(*                                                                         *)
(* That a token is consumed before the handler awaits is not enough by     *)
(* itself: the pair being signed belongs to nobody else, and is not        *)
(* answered before it is stored (Signing), so that a token with a          *)
(* successor is consumed or no longer stored (ParentsSpent).  After a      *)
(* restart the mark of a family is gone, and its tokens too (Replayed).    *)
(***************************************************************************)
Pair == [family : PairIds, parent : 0..MaxPairs]
FamiliesKnown ==
    /\ \A p \in DOMAIN pairs : Family(p) \in DOMAIN pairs
    /\ \A p \in stored : Family(p) \in families
Signing ==
    /\ \A h \in Handlers : signing[h] # 0 => signing[h] \notin answered
    /\ \A h, k \in Handlers : signing[h] = signing[k] /\ signing[h] # 0 => h = k
ParentsSpent == \A p \in DOMAIN pairs : pairs[p].parent # 0 =>
    /\ pairs[p].parent \in answered
    /\ pairs[p].parent \in used \/ pairs[p].parent \notin stored
Replayed ==
    /\ \A p \in stored : Family(p) \in replayed => Family(p) \in revoked
    /\ \A h \in Handlers : signing[h] # 0 /\ Family(signing[h]) \in replayed => Family(signing[h]) \in revoked

FallbackInv == FallbackTypeOK /\ FamiliesKnown /\ Signing /\ ParentsSpent /\ OneSuccessor /\ Replayed

LEMMA Domains ==
  ASSUME FallbackInv
  PROVE  /\ Len(pairs) \in Nat /\ DOMAIN pairs = 1..Len(pairs) /\ Len(pairs) <= MaxPairs /\ MaxPairs \in Nat
         /\ \A p \in DOMAIN pairs : pairs[p] \in Pair
         /\ \A h \in Handlers : signing[h] # 0 => signing[h] \in DOMAIN pairs
<1>1. pairs \in Seq(Pair) /\ Len(pairs) <= MaxPairs /\ signing \in [Handlers -> 0..Len(pairs)]
  BY DEF FallbackInv, FallbackTypeOK, Pair
<1>2. Len(pairs) \in Nat /\ DOMAIN pairs = 1..Len(pairs) /\ \A p \in DOMAIN pairs : pairs[p] \in Pair
  BY <1>1
<1> QED BY <1>1, <1>2, MaxPairsAssumption

\* The pair a handler begins to sign is new, and the others are what they were.
LEMMA Signed ==
  ASSUME FallbackInv, NEW h \in Handlers, NEW x \in Pair, Sign(h, x)
  PROVE  LET n == Len(pairs) + 1 IN
         /\ n \in 1..MaxPairs /\ n \notin DOMAIN pairs /\ DOMAIN pairs' = DOMAIN pairs \cup {n}
         /\ pairs'[n] = x /\ \A p \in DOMAIN pairs : pairs'[p] = pairs[p]
         /\ pairs' \in Seq(Pair) /\ Len(pairs') = n /\ Len(pairs') <= MaxPairs
         /\ signing' \in [Handlers -> 0..n] /\ signing'[h] = n
         /\ \A k \in Handlers \ {h} : signing'[k] = signing[k]
<1> DEFINE n == Len(pairs) + 1
<1>1. pairs' = Append(pairs, x) /\ signing' = [signing EXCEPT ![h] = n] /\ Len(pairs) < MaxPairs
  BY DEF Sign
<1>2. Len(pairs) \in Nat /\ DOMAIN pairs = 1..Len(pairs) /\ MaxPairs \in Nat
  BY Domains
<1>3. n \in 1..MaxPairs /\ n \notin DOMAIN pairs /\ 1..n = 1..Len(pairs) \cup {n} /\ 0..Len(pairs) \subseteq 0..n /\ n \in 0..n
  BY <1>1, <1>2
<1>4. pairs \in Seq(Pair) /\ signing \in [Handlers -> 0..Len(pairs)]
  BY DEF FallbackInv, FallbackTypeOK, Pair
<1>5. /\ pairs' \in Seq(Pair) /\ Len(pairs') = n /\ pairs'[n] = x
      /\ \A p \in 1..Len(pairs) : pairs'[p] = pairs[p]
  BY <1>1, <1>2, <1>4, AppendProperties
<1>6. DOMAIN pairs' = 1..n
  BY <1>5
<1>7. /\ signing' \in [Handlers -> 0..n] /\ signing'[h] = n
      /\ \A k \in Handlers \ {h} : signing'[k] = signing[k]
  BY <1>1, <1>3, <1>4
<1>8. Len(pairs') <= MaxPairs
  BY <1>2, <1>3, <1>5
<1> QED BY <1>2, <1>3, <1>5, <1>6, <1>7, <1>8

LEMMA SignInInv == ASSUME FallbackInv, NEW h \in Handlers, SignIn(h) PROVE FallbackInv'
<1> DEFINE n == Len(pairs) + 1
           x == [family |-> n, parent |-> 0]
<1>1. Sign(h, x) /\ Len(pairs) < MaxPairs /\ UNCHANGED <<answered, stored, used, families, revoked, aged, replayed>>
  BY DEF SignIn, Sign
<1>2. x \in Pair /\ x.family = n /\ x.parent = 0
  <2>1. n \in 1..MaxPairs /\ 0 \in 0..MaxPairs
    BY <1>1, Domains
  <2> QED BY <2>1 DEF Pair, PairIds
<1> HIDE DEF x
<1>3. /\ n \in 1..MaxPairs /\ n \notin DOMAIN pairs /\ DOMAIN pairs' = DOMAIN pairs \cup {n}
      /\ pairs'[n] = x /\ \A p \in DOMAIN pairs : pairs'[p] = pairs[p]
      /\ pairs' \in Seq(Pair) /\ Len(pairs') = n /\ Len(pairs') <= MaxPairs
      /\ signing' \in [Handlers -> 0..n] /\ signing'[h] = n
      /\ \A k \in Handlers \ {h} : signing'[k] = signing[k]
  BY <1>1, <1>2, Signed
<1> HIDE DEF n
<1>4. \A k \in Handlers : signing[k] # 0 => signing[k] \in DOMAIN pairs
  BY Domains
<1>5. n # 0
  BY <1>3
<1>6. answered \subseteq DOMAIN pairs /\ stored \subseteq answered /\ replayed \subseteq DOMAIN pairs
  BY DEF FallbackInv, FallbackTypeOK
<1>7. FallbackTypeOK'
  BY <1>1, <1>3 DEF FallbackInv, FallbackTypeOK, Pair
<1>8. FamiliesKnown'
  BY <1>1, <1>2, <1>3, <1>6 DEF FallbackInv, FamiliesKnown, Family
<1>9. Signing'
  BY <1>1, <1>3, <1>4, <1>6 DEF FallbackInv, Signing
<1>10. ParentsSpent' /\ OneSuccessor'
  BY <1>1, <1>2, <1>3 DEF FallbackInv, ParentsSpent, OneSuccessor
<1>11. Replayed'
  BY <1>1, <1>2, <1>3, <1>4, <1>6 DEF FallbackInv, Replayed, Family
<1> QED BY <1>7, <1>8, <1>9, <1>10, <1>11 DEF FallbackInv

\* The token rotated has no successor yet, as it is stored and not consumed.
LEMMA RotateInv ==
  ASSUME FallbackInv, NEW h \in Handlers, NEW q \in DOMAIN pairs, Rotate(h, q) PROVE FallbackInv'
<1> DEFINE n == Len(pairs) + 1
           x == [family |-> Family(q), parent |-> q]
<1>1. /\ Sign(h, x) /\ q \in answered /\ q \in stored /\ q \notin used /\ Family(q) \notin revoked
      /\ used' = used \cup {q} /\ UNCHANGED <<answered, stored, families, revoked, aged, replayed>>
  BY DEF Rotate, Valid, Consume
<1>2. x \in Pair /\ x.family = Family(q) /\ x.parent = q /\ q # 0
  <2>1. pairs[q] \in Pair /\ q \in 0..MaxPairs /\ q # 0
    BY Domains
  <2> QED BY <2>1 DEF Pair, Family
<1> HIDE DEF x
<1>3. /\ n \in 1..MaxPairs /\ n \notin DOMAIN pairs /\ DOMAIN pairs' = DOMAIN pairs \cup {n}
      /\ pairs'[n] = x /\ \A p \in DOMAIN pairs : pairs'[p] = pairs[p]
      /\ pairs' \in Seq(Pair) /\ Len(pairs') = n /\ Len(pairs') <= MaxPairs
      /\ signing' \in [Handlers -> 0..n] /\ signing'[h] = n
      /\ \A k \in Handlers \ {h} : signing'[k] = signing[k]
  BY <1>1, <1>2, Signed
<1> HIDE DEF n
<1>4. \A k \in Handlers : signing[k] # 0 => signing[k] \in DOMAIN pairs
  BY Domains
<1>5. n # 0
  BY <1>3
<1>6. answered \subseteq DOMAIN pairs /\ stored \subseteq answered /\ replayed \subseteq DOMAIN pairs
      /\ Family(q) \in DOMAIN pairs /\ Family(q) \notin replayed
  BY <1>1 DEF FallbackInv, FallbackTypeOK, FamiliesKnown, Replayed
<1>7. FallbackTypeOK'
  BY <1>1, <1>3 DEF FallbackInv, FallbackTypeOK, Pair
<1>8. FamiliesKnown'
  BY <1>1, <1>2, <1>3, <1>6 DEF FallbackInv, FamiliesKnown, Family
<1>9. Signing'
  BY <1>1, <1>3, <1>4, <1>6 DEF FallbackInv, Signing
<1>10. \A p \in DOMAIN pairs : pairs[p].parent # q
  BY <1>1, <1>2 DEF FallbackInv, ParentsSpent
<1>11. ParentsSpent' /\ OneSuccessor'
  BY <1>1, <1>2, <1>3, <1>10 DEF FallbackInv, ParentsSpent, OneSuccessor
<1>12. Replayed'
  BY <1>1, <1>2, <1>3, <1>4, <1>6 DEF FallbackInv, Replayed, Family
<1> QED BY <1>7, <1>8, <1>9, <1>11, <1>12 DEF FallbackInv

\* The pair stored was nobody's before, so none descends from it.
LEMMA AddRefreshTokenInv == ASSUME FallbackInv, NEW h \in Handlers, AddRefreshToken(h) PROVE FallbackInv'
<1> DEFINE p == signing[h]
<1>1. /\ p # 0 /\ families' = families \cup {Family(p)}
      /\ stored' = stored \cup {p} /\ answered' = answered \cup {p}
      /\ signing' = [signing EXCEPT ![h] = 0]
      /\ UNCHANGED <<pairs, used, revoked, aged, replayed>>
  BY DEF AddRefreshToken
<1>2. p \in DOMAIN pairs /\ p \notin answered /\ Family(p) \in DOMAIN pairs
  BY <1>1, Domains DEF FallbackInv, Signing, FamiliesKnown
<1>3. Family(p) \in replayed => Family(p) \in revoked
  BY <1>1 DEF FallbackInv, Replayed
<1>4. /\ signing' \in [Handlers -> 0..Len(pairs)] /\ signing'[h] = 0
      /\ \A k \in Handlers \ {h} : signing'[k] = signing[k] /\ (signing[k] # 0 => signing[k] # p)
  <2>1. signing \in [Handlers -> 0..Len(pairs)] /\ 0 \in 0..Len(pairs)
    BY Domains DEF FallbackInv, FallbackTypeOK
  <2> QED BY <1>1, <2>1 DEF FallbackInv, Signing
<1> HIDE DEF p
<1>5. FallbackTypeOK'
  BY <1>1, <1>2, <1>4 DEF FallbackInv, FallbackTypeOK
<1>6. FamiliesKnown'
  BY <1>1, <1>2 DEF FallbackInv, FamiliesKnown, Family
<1>7. Signing'
  BY <1>1, <1>4 DEF FallbackInv, Signing
<1>8. ParentsSpent' /\ OneSuccessor'
  BY <1>1, <1>2 DEF FallbackInv, ParentsSpent, OneSuccessor
<1>9. Replayed'
  BY <1>1, <1>3, <1>4 DEF FallbackInv, Replayed, Family
<1> QED BY <1>5, <1>6, <1>7, <1>8, <1>9 DEF FallbackInv

\* Tokens that go and families that are marked: a replay, a log-out, an expiry.
LEMMA FewerMarked ==
  ASSUME FallbackInv, stored' \subseteq stored, families' = families, revoked \subseteq revoked',
         revoked' \subseteq families, aged' \subseteq DOMAIN pairs,
         replayed \subseteq replayed', replayed' \subseteq replayed \cup revoked',
         UNCHANGED <<pairs, answered, used, signing>>
  PROVE  FallbackInv'
<1>1. FallbackTypeOK'
  BY DEF FallbackInv, FallbackTypeOK
<1>2. FamiliesKnown' /\ Signing'
  BY DEF FallbackInv, FamiliesKnown, Signing, Family
<1>3. ParentsSpent' /\ OneSuccessor'
  BY DEF FallbackInv, ParentsSpent, OneSuccessor
<1>4. Replayed'
  BY DEF FallbackInv, Replayed, Family
<1> QED BY <1>1, <1>2, <1>3, <1>4 DEF FallbackInv

LEMMA MarksInv ==
  ASSUME FallbackInv, NEW p \in DOMAIN pairs, Replay(p) \/ Logout(p) \/ Expires(p) PROVE FallbackInv'
<1>1. revoked \subseteq families /\ aged \subseteq DOMAIN pairs /\ (p \in stored => Family(p) \in families)
  BY DEF FallbackInv, FallbackTypeOK, FamiliesKnown
<1>2. CASE Replay(p)
  BY <1>1, <1>2, FewerMarked DEF Replay
<1>3. CASE Logout(p)
  BY <1>1, <1>3, FewerMarked DEF Logout
<1>4. CASE Expires(p)
  BY <1>1, <1>4, FewerMarked DEF Expires
<1> QED BY <1>2, <1>3, <1>4

LEMMA RestartInv == ASSUME FallbackInv, Restart PROVE FallbackInv'
<1>1. signing' = [h \in Handlers |-> 0] /\ 0 \in 0..Len(pairs)
  BY Domains DEF Restart
<1>2. FallbackTypeOK'
  BY <1>1 DEF Restart, FallbackInv, FallbackTypeOK
<1>3. FamiliesKnown' /\ Signing' /\ Replayed'
  BY <1>1 DEF Restart, FallbackInv, FamiliesKnown, Signing, Replayed, Family
<1>4. ParentsSpent' /\ OneSuccessor'
  BY DEF Restart, FallbackInv, ParentsSpent, OneSuccessor
<1> QED BY <1>2, <1>3, <1>4 DEF FallbackInv

LEMMA FallbackInitInv == FallbackInit => FallbackInv
<1> SUFFICES ASSUME FallbackInit PROVE FallbackInv
  OBVIOUS
<1>1. pairs = <<>> /\ Len(pairs) = 0 /\ DOMAIN pairs = {} /\ pairs \in Seq(Pair) /\ 0 <= MaxPairs
  BY MaxPairsAssumption DEF FallbackInit
<1>2. signing \in [Handlers -> 0..Len(pairs)] /\ \A h \in Handlers : signing[h] = 0
  BY <1>1 DEF FallbackInit
<1>3. FallbackTypeOK
  BY <1>1, <1>2 DEF FallbackInit, FallbackTypeOK, Pair
<1>4. FamiliesKnown /\ Signing /\ ParentsSpent /\ OneSuccessor /\ Replayed
  BY <1>1, <1>2 DEF FallbackInit, FamiliesKnown, Signing, ParentsSpent, OneSuccessor, Replayed
<1> QED BY <1>3, <1>4 DEF FallbackInv

LEMMA FallbackNextInv == ASSUME FallbackInv, [FallbackNext]_fallbackVars PROVE FallbackInv'
<1>1. CASE UNCHANGED fallbackVars
  BY <1>1 DEF fallbackVars, FallbackInv, FallbackTypeOK, FamiliesKnown, Signing, ParentsSpent, OneSuccessor,
              Replayed, Family
<1>2. CASE FallbackNext
  BY <1>2, SignInInv, AddRefreshTokenInv, RotateInv, MarksInv, RestartInv DEF FallbackNext
<1> QED BY <1>1, <1>2

\* A refresh token has at most one successor and a replay ends its family, for any
\* number of handlers and pairs and however often the process restarts.
THEOREM FallbackFamiliesAreChains == FallbackSpec => FamiliesAreChains
<1> DEFINE Allowed == \A h \in Handlers, p \in DOMAIN pairs : Rotate(h, p) => Family(p) \notin replayed
<1>1. ASSUME FallbackInv PROVE Allowed
  BY <1>1 DEF Rotate, Valid, FallbackInv, Replayed
<1>2. FallbackInv => OneSuccessor /\ [Allowed]_fallbackVars
  BY <1>1 DEF FallbackInv
<1> HIDE DEF Allowed
<1>3. FallbackSpec => []OneSuccessor /\ [][Allowed]_fallbackVars
  BY <1>2, FallbackInitInv, FallbackNextInv, PTL DEF FallbackSpec
<1> QED BY <1>3 DEF FamiliesAreChains, ReplayEndsFamily, Allowed

\* The variables of both keep their types, in the specification the run checks.
THEOREM GrantTypes == Spec => []TypeOK
<1>1. Init => GrantInv /\ FallbackInv
  BY GrantInitInv, FallbackInitInv DEF Init
<1>2. [Next]_vars => [GrantNext]_grantVars /\ [FallbackNext]_fallbackVars
  BY DEF Next, vars, InGrants, InFallback, grantVars, fallbackVars
<1>3. GrantInv /\ FallbackInv => TypeOK
  BY DEF TypeOK, GrantInv, FallbackInv
<1> QED BY <1>1, <1>2, <1>3, GrantNextInv, FallbackNextInv, PTL DEF Spec
===============================================================================
