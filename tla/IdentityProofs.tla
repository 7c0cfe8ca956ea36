---------------------------- MODULE IdentityProofs ----------------------------
(***************************************************************************)
(* Theorems about the mailed links of an account and about its provider    *)
(* identities, for any users, addresses, requests, flows and links.        *)
(***************************************************************************)
EXTENDS MCIdentity, SequenceTheorems, FiniteSetTheorems, TLAPS

(***************************************************************************)
(* Mailed links.                                                           *)
(*                                                                         *)
(* Requests overlap in any way, so the invariant says what a request in    *)
(* progress carries (JobsFit), that a token is used up, voided or still of *)
(* use but never two of these (Spent), that of the tokens nobody is still  *)
(* working on one at most remains, unless a request is about to retire the *)
(* others (OneEach), and that a token whose mail was not sent has a        *)
(* request that will send or drop it (Delivering).                         *)
(***************************************************************************)
Job == [pc : JobPcs, to : Addresses, prev : SUBSET (1..MaxLinks), tok : 0..MaxLinks]
Link == [from : Addresses, to : Addresses, mute : BOOLEAN]
Login == [live : BOOLEAN, recovery : BOOLEAN]

AccountTyped ==
    /\ address \in Addresses \cup {Tomb}
    /\ confirmed \in BOOLEAN /\ federated \in BOOLEAN /\ lately \in BOOLEAN /\ interval \in BOOLEAN
    /\ links \in Seq(Link) /\ Len(links) <= MaxLinks
    /\ delivered \subseteq DOMAIN links /\ resets \subseteq DOMAIN links /\ bound \subseteq DOMAIN links
    /\ pending \subseteq DOMAIN links /\ presented \subseteq DOMAIN links /\ killed \subseteq DOMAIN links
    /\ logged \in Seq(Login) /\ others \subseteq Addresses /\ job \in [Jobs -> Job]

Working == {"bind", "mail", "drop", "settle"}
Opening == {"confirm", "openRecovery", "openSession"}
Fits(x) ==
    /\ x.prev \subseteq DOMAIN links /\ x.tok \in {0} \cup DOMAIN links
    /\ x.pc \in {"bind", "mail", "drop", "retire", "apply", "deliver", "dropChange"} \cup Opening => x.tok # 0
    /\ x.pc \in {"claim", "lookup", "token"} => x.tok = 0
    /\ x.pc \in Working => x.tok \notin x.prev
    /\ x.pc \in Opening => x.tok \in presented
JobsFit == \A j \in Jobs : Fits(job[j])

Spent ==
    /\ resets \cap pending = {} /\ presented \cap killed = {}
    /\ (presented \cup killed) \cap (resets \cup pending) = {}

\* The tokens of no request that still has to settle.
Standing == {t \in resets : \A j \in Jobs : job[j].pc \in Working => job[j].tok # t}
OneEach ==
    /\ \A t, u \in pending : t = u
    /\ (\A j \in Jobs : job[j].pc # "retire") => \A t, u \in Standing : t = u

RecoveriesMailed == \A t \in resets \cap bound :
    t \in delivered \/ \E j \in Jobs : job[j].pc \in {"mail", "drop"} /\ job[j].tok = t
ChangesMailed == \A t \in pending :
    t \in delivered \/ links[t].mute \/ \E j \in Jobs : job[j].pc \in {"deliver", "dropChange"} /\ job[j].tok = t
Delivering == RecoveriesMailed /\ ChangesMailed

AccountInv == AccountTyped /\ JobsFit /\ Spent /\ DeletedStaysOut /\ OneEach /\ Delivering

\* Request j becomes x.
LEMMA Becomes ==
  ASSUME AccountInv, NEW j \in Jobs, NEW x \in Job, job' = [job EXCEPT ![j] = x]
  PROVE  job' \in [Jobs -> Job] /\ job'[j] = x /\ \A k \in Jobs \ {j} : job'[k] = job[k]
BY DEF AccountInv, AccountTyped

LEMMA FitsOn ==
  ASSUME AccountInv, NEW j \in Jobs, NEW x \in Job, job' = [job EXCEPT ![j] = x], Fits(x)',
         DOMAIN links \subseteq DOMAIN links', presented \subseteq presented'
  PROVE  JobsFit'
<1>1. ASSUME NEW k \in Jobs \ {j} PROVE Fits(job[k])'
  <2>1. Fits(job[k]) /\ job'[k] = job[k]
    BY Becomes DEF AccountInv, JobsFit
  <2>2. PICK y : y = job[k]
    OBVIOUS
  <2>3. Fits(y)'
    BY <2>1, <2>2 DEF Fits
  <2> QED BY <2>1, <2>2, <2>3 DEF Fits
<1>2. Fits(job[j])'
  BY Becomes DEF Fits
<1> QED BY <1>1, <1>2 DEF JobsFit

\* A token is made or left by a request that is still to settle only.
LEMMA OneStands ==
  ASSUME AccountInv, NEW j \in Jobs, NEW x \in Job, job' = [job EXCEPT ![j] = x],
         x.pc = "retire" \/ job[j].pc # "retire",
         \A t \in resets' : /\ t \in resets \/ (x.pc \in Working /\ x.tok = t)
                            /\ job[j].pc \in Working /\ job[j].tok = t => x.pc \in Working /\ x.tok = t
  PROVE  (\A k \in Jobs : job'[k].pc # "retire") => \A t, u \in Standing' : t = u
<1> SUFFICES ASSUME \A k \in Jobs : job'[k].pc # "retire" PROVE \A t, u \in Standing' : t = u
  OBVIOUS
<1>1. \A k \in Jobs : job[k].pc # "retire"
  BY Becomes
<1>2. ASSUME NEW t \in Standing' PROVE t \in Standing
  BY Becomes DEF Standing
<1> QED BY <1>1, <1>2 DEF AccountInv, OneEach

LEMMA RecoveriesGoOn ==
  ASSUME AccountInv, NEW j \in Jobs, NEW x \in Job, job' = [job EXCEPT ![j] = x], delivered \subseteq delivered',
         \A t \in resets' \cap bound' :
            /\ t \in resets \cap bound \/ (x.pc \in {"mail", "drop"} /\ x.tok = t)
            /\ job[j].pc \in {"mail", "drop"} /\ job[j].tok = t
                 => t \in delivered' \/ (x.pc \in {"mail", "drop"} /\ x.tok = t)
  PROVE  RecoveriesMailed'
BY Becomes DEF AccountInv, Delivering, RecoveriesMailed

LEMMA ChangesGoOn ==
  ASSUME AccountInv, NEW j \in Jobs, NEW x \in Job, job' = [job EXCEPT ![j] = x], delivered \subseteq delivered',
         pending' \subseteq pending, \A t \in pending : links'[t].mute = links[t].mute,
         \A t \in pending' : job[j].pc \in {"deliver", "dropChange"} /\ job[j].tok = t
            => t \in delivered' \/ (x.pc \in {"deliver", "dropChange"} /\ x.tok = t)
  PROVE  ChangesMailed'
BY Becomes DEF AccountInv, Delivering, ChangesMailed

LEMMA LinkFacts ==
  ASSUME AccountInv
  PROVE  /\ MaxLinks \in Nat /\ Len(links) \in Nat /\ Len(links) <= MaxLinks
         /\ DOMAIN links = 1..Len(links) /\ NewLink \notin DOMAIN links
         /\ DOMAIN links \subseteq 1..MaxLinks
         /\ \A t \in DOMAIN links : links[t] \in Link
BY MaxLinksAssumption DEF AccountInv, AccountTyped, NewLink

LEMMA JobFacts ==
  ASSUME AccountInv, NEW j \in Jobs
  PROVE  /\ job[j] \in Job /\ Fits(job[j]) /\ job[j].pc \in JobPcs /\ job[j].to \in Addresses
         /\ job[j].prev \subseteq DOMAIN links /\ job[j].tok \in {0} \cup DOMAIN links
BY DEF AccountInv, AccountTyped, JobsFit, Job, Fits

LEMMA Idling ==
  ASSUME AccountInv
  PROVE  NoJob \in Job /\ Fits(NoJob) /\ NoJob.pc = "idle"
BY MaxLinksAssumption, HomeAssumption DEF NoJob, Job, JobPcs, Fits, Working, Opening

\* What an account's jobs do to nothing but themselves and the interval.
LEMMA OnlyJob ==
  ASSUME AccountInv, NEW j \in Jobs, NEW x \in Job, job' = [job EXCEPT ![j] = x], Fits(x), interval' \in BOOLEAN,
         UNCHANGED <<address, confirmed, federated, links, delivered, resets, bound, pending, lately,
                     logged, others, presented, killed>>,
         x.pc = "retire" \/ job[j].pc # "retire",
         \A t \in resets : job[j].pc \in Working /\ job[j].tok = t => x.pc \in Working /\ x.tok = t,
         job[j].pc \in {"mail", "drop"} => x.pc \in {"mail", "drop"} /\ x.tok = job[j].tok,
         job[j].pc \in {"deliver", "dropChange"} => x.pc \in {"deliver", "dropChange"} /\ x.tok = job[j].tok
  PROVE  AccountInv'
<1>0. resets' = resets /\ bound' = bound
  OBVIOUS
<1>1. job' \in [Jobs -> Job]
  BY Becomes
<1>2. AccountTyped'
  BY <1>1 DEF AccountInv, AccountTyped
<1>3. Fits(x)'
  BY DEF Fits
<1>4. JobsFit'
  BY <1>3, FitsOn
<1>5. Spent' /\ DeletedStaysOut'
  BY DEF AccountInv, Spent, DeletedStaysOut
<1>6. (\A k \in Jobs : job'[k].pc # "retire") => \A t, u \in Standing' : t = u
  <2>1. \A t \in resets' : /\ t \in resets \/ (x.pc \in Working /\ x.tok = t)
                           /\ job[j].pc \in Working /\ job[j].tok = t => x.pc \in Working /\ x.tok = t
    BY <1>0
  <2> QED BY <2>1, OneStands
<1>7. OneEach'
  BY <1>6 DEF AccountInv, OneEach
<1>8. RecoveriesMailed'
  <2>1. \A t \in resets' \cap bound' :
           /\ t \in resets \cap bound \/ (x.pc \in {"mail", "drop"} /\ x.tok = t)
           /\ job[j].pc \in {"mail", "drop"} /\ job[j].tok = t
                => t \in delivered' \/ (x.pc \in {"mail", "drop"} /\ x.tok = t)
    BY <1>0
  <2> QED BY <2>1, RecoveriesGoOn
<1>9. ChangesMailed'
  BY ChangesGoOn
<1> QED BY <1>2, <1>4, <1>5, <1>7, <1>8, <1>9 DEF AccountInv, Delivering

LEMMA RecoverInv == ASSUME AccountInv, NEW j \in Jobs, NEW a \in Addresses, Recover(j, a) PROVE AccountInv'
<1>1. PICK x : x = [NoJob EXCEPT !.pc = "claim", !.to = a]
  OBVIOUS
<1>2. x = [pc |-> "claim", to |-> a, prev |-> {}, tok |-> 0]
  BY <1>1 DEF NoJob
<1>3. x \in Job
  BY <1>2, MaxLinksAssumption DEF Job, JobPcs
<1>4. Fits(x) /\ x.pc = "claim"
  BY <1>2 DEF Fits, Working, Opening
<1> QED BY <1>1, <1>3, <1>4, OnlyJob DEF Recover, Work, On, Working, AccountInv, AccountTyped

LEMMA ClaimIntervalInv == ASSUME AccountInv, NEW j \in Jobs, ClaimInterval(j) PROVE AccountInv'
<1>1. CASE interval
  BY <1>1, Idling, OnlyJob DEF ClaimInterval, Reply, Work, On, Working
<1>2. CASE ~interval
  <2>1. PICK x : x = [job[j] EXCEPT !.pc = "lookup", !.prev = resets]
    OBVIOUS
  <2>2. job[j] \in Job /\ Fits(job[j]) /\ resets \subseteq DOMAIN links /\ resets \subseteq 1..MaxLinks
    BY JobFacts, LinkFacts DEF AccountInv, AccountTyped
  <2>3. x \in Job /\ x.pc = "lookup" /\ Fits(x)
    BY <2>1, <2>2 DEF Job, JobPcs, Fits, Working, Opening, ClaimInterval, On
  <2> QED BY <1>2, <2>1, <2>3, OnlyJob DEF ClaimInterval, Work, On, Working
<1> QED BY <1>1, <1>2

LEMMA LookUpUserInv == ASSUME AccountInv, NEW j \in Jobs, LookUpUser(j) PROVE AccountInv'
<1>1. PICK l \in {"token", "settle"} : Then(j, l)
  BY DEF LookUpUser
<1>2. PICK x : x = [job[j] EXCEPT !.pc = l]
  OBVIOUS
<1>3. job[j] \in Job /\ Fits(job[j]) /\ job[j].prev \subseteq 1..Len(links)
  BY JobFacts, LinkFacts
<1>4. x \in Job /\ x.pc = l /\ Fits(x)
  BY <1>2, <1>3, LinkFacts DEF Job, JobPcs, Fits, Working, Opening, LookUpUser, On
<1> QED BY <1>1, <1>2, <1>4, OnlyJob DEF LookUpUser, Then, Work, On, Working, AccountInv, AccountTyped

LEMMA ReadPendingInv == ASSUME AccountInv, NEW j \in Jobs, NEW t \in DOMAIN links, ReadPending(j, t) PROVE AccountInv'
<1>1. PICK x : x = [NoJob EXCEPT !.pc = "apply", !.tok = t]
  OBVIOUS
<1>2. t \in 1..MaxLinks /\ t \in DOMAIN links /\ x = [pc |-> "apply", to |-> Home, prev |-> {}, tok |-> t]
  BY <1>1, LinkFacts DEF NoJob
<1>3. x \in Job
  BY <1>2, HomeAssumption DEF Job, JobPcs
<1>4. Fits(x) /\ x.pc = "apply"
  BY <1>2 DEF Fits, Working, Opening
<1> QED BY <1>1, <1>3, <1>4, OnlyJob DEF ReadPending, Work, On, Working, AccountInv, AccountTyped

\* A step of one job that makes no token.
LEMMA Less ==
  ASSUME AccountInv, AccountTyped', Spent', DeletedStaysOut',
         NEW j \in Jobs, NEW x \in Job, job' = [job EXCEPT ![j] = x], Fits(x)',
         links' = links, delivered \subseteq delivered', resets' \subseteq resets, pending' \subseteq pending,
         presented \subseteq presented', x.pc = "retire" \/ job[j].pc # "retire",
         \A t \in resets' : job[j].pc \in Working /\ job[j].tok = t => x.pc \in Working /\ x.tok = t,
         \A t \in resets' \cap bound' :
            /\ t \in bound \/ (x.pc \in {"mail", "drop"} /\ x.tok = t)
            /\ job[j].pc \in {"mail", "drop"} /\ job[j].tok = t
                 => t \in delivered' \/ (x.pc \in {"mail", "drop"} /\ x.tok = t),
         \A t \in pending' : job[j].pc \in {"deliver", "dropChange"} /\ job[j].tok = t
            => t \in delivered' \/ (x.pc \in {"deliver", "dropChange"} /\ x.tok = t)
  PROVE  AccountInv'
<1>1. JobsFit'
  BY FitsOn
<1>2. (\A k \in Jobs : job'[k].pc # "retire") => \A t, u \in Standing' : t = u
  <2>1. \A t \in resets' : /\ t \in resets \/ (x.pc \in Working /\ x.tok = t)
                           /\ job[j].pc \in Working /\ job[j].tok = t => x.pc \in Working /\ x.tok = t
    OBVIOUS
  <2> QED BY <2>1, OneStands
<1>3. OneEach'
  BY <1>2 DEF AccountInv, OneEach
<1>4. RecoveriesMailed'
  <2>1. \A t \in resets' \cap bound' :
           /\ t \in resets \cap bound \/ (x.pc \in {"mail", "drop"} /\ x.tok = t)
           /\ job[j].pc \in {"mail", "drop"} /\ job[j].tok = t
                => t \in delivered' \/ (x.pc \in {"mail", "drop"} /\ x.tok = t)
    OBVIOUS
  <2> QED BY <2>1, RecoveriesGoOn
<1>5. ChangesMailed'
  BY ChangesGoOn
<1> QED BY <1>1, <1>3, <1>4, <1>5 DEF AccountInv, Delivering

\* A step of no job, after which there are no more tokens than before.
LEMMA NoJobLess ==
  ASSUME AccountInv, AccountTyped', Spent', DeletedStaysOut', UNCHANGED <<job, links, delivered>>,
         resets' \subseteq resets, bound' \subseteq bound, pending' \subseteq pending, presented \subseteq presented'
  PROVE  AccountInv'
<1>1. JobsFit'
  BY DEF AccountInv, JobsFit, Fits
<1>2. OneEach'
  <2>1. Standing' \subseteq Standing
    BY DEF Standing
  <2> QED BY <2>1 DEF AccountInv, OneEach
<1>3. RecoveriesMailed' /\ ChangesMailed'
  BY DEF AccountInv, Delivering, RecoveriesMailed, ChangesMailed
<1> QED BY <1>1, <1>2, <1>3 DEF AccountInv, Delivering

LEMMA LoggedFacts ==
  ASSUME AccountInv
  PROVE  /\ LogOutAll \in Seq(Login) /\ Append(logged, [live |-> TRUE, recovery |-> FALSE]) \in Seq(Login)
         /\ Append(logged, [live |-> TRUE, recovery |-> TRUE]) \in Seq(Login)
         /\ \A s \in DOMAIN logged : [logged EXCEPT ![s].live = FALSE] \in Seq(Login)
         /\ \A s \in DOMAIN logged :
              [r \in DOMAIN logged |-> IF r = s THEN [logged[r] EXCEPT !.recovery = FALSE]
                                       ELSE [logged[r] EXCEPT !.live = FALSE]] \in Seq(Login)
<1>1. logged \in Seq(Login) /\ \A s \in DOMAIN logged : logged[s] \in Login
  BY DEF AccountInv, AccountTyped
<1>2. \A b \in BOOLEAN : [live |-> TRUE, recovery |-> b] \in Login
  BY DEF Login
<1>3. \A s \in DOMAIN logged : /\ [logged[s] EXCEPT !.live = FALSE] \in Login
                               /\ [logged[s] EXCEPT !.recovery = FALSE] \in Login
  BY <1>1 DEF Login
<1> HIDE DEF Login
<1>4. \A f : DOMAIN f = DOMAIN logged /\ f = [r \in DOMAIN logged |-> f[r]] /\ (\A r \in DOMAIN logged : f[r] \in Login)
              => f \in Seq(Login)
  <2> SUFFICES ASSUME NEW f, f = [r \in 1..Len(logged) |-> f[r]], \A r \in 1..Len(logged) : f[r] \in Login
               PROVE  f \in Seq(Login)
    BY <1>1
  <2>1. Len(logged) \in Nat
    BY <1>1
  <2> QED BY <2>1, IsASeq
<1>5. LogOutAll \in Seq(Login)
  BY <1>3, <1>4 DEF LogOutAll
<1>6. ASSUME NEW b \in BOOLEAN PROVE Append(logged, [live |-> TRUE, recovery |-> b]) \in Seq(Login)
  BY <1>1, <1>2
<1>7. ASSUME NEW s \in DOMAIN logged PROVE [logged EXCEPT ![s].live = FALSE] \in Seq(Login)
  <2> DEFINE f == [logged EXCEPT ![s].live = FALSE]
  <2>1. DOMAIN f = DOMAIN logged /\ f = [r \in DOMAIN logged |-> f[r]]
    BY <1>1
  <2>2. \A r \in DOMAIN logged : f[r] \in Login
    BY <1>1, <1>3
  <2> QED BY <2>1, <2>2, <1>4
<1>8. ASSUME NEW s \in DOMAIN logged
      PROVE  [r \in DOMAIN logged |-> IF r = s THEN [logged[r] EXCEPT !.recovery = FALSE]
                                      ELSE [logged[r] EXCEPT !.live = FALSE]] \in Seq(Login)
  BY <1>3, <1>4
<1> QED BY <1>5, <1>6, <1>7, <1>8

LEMMA ChangePasswordInv == ASSUME AccountInv, NEW s \in DOMAIN logged, ChangePassword(s) PROVE AccountInv'
<1>1. AccountTyped'
  BY LoggedFacts DEF ChangePassword, AccountInv, AccountTyped, RetireAll, Retire
<1>2. Spent' /\ DeletedStaysOut'
  BY DEF ChangePassword, AccountInv, Spent, DeletedStaysOut, RetireAll, Retire
<1> QED BY <1>1, <1>2, NoJobLess DEF ChangePassword, RetireAll, Retire

LEMMA DeleteAccountInv == ASSUME AccountInv, NEW s \in DOMAIN logged, DeleteAccount(s) PROVE AccountInv'
<1>1. AccountTyped'
  BY LoggedFacts DEF DeleteAccount, AccountInv, AccountTyped, RetireAll, Retire
<1>2. Spent' /\ DeletedStaysOut'
  BY DEF DeleteAccount, AccountInv, Spent, DeletedStaysOut, RetireAll, Retire
<1> QED BY <1>1, <1>2, NoJobLess DEF DeleteAccount, RetireAll, Retire

LEMMA AroundInv ==
  ASSUME AccountInv,
         MinutePasses \/ (\E a \in Addresses : OtherTakes(a)) \/ (\E s \in DOMAIN logged : LogOut(s))
  PROVE  AccountInv'
<1>1. AccountTyped'
  BY LoggedFacts DEF MinutePasses, OtherTakes, LogOut, AccountInv, AccountTyped
<1>2. Spent' /\ DeletedStaysOut'
  BY DEF MinutePasses, OtherTakes, LogOut, AccountInv, Spent, DeletedStaysOut
<1>3. UNCHANGED <<job, links, delivered, resets, bound, pending, presented>>
  BY DEF MinutePasses, OtherTakes, LogOut
<1> QED BY <1>1, <1>2, <1>3, NoJobLess

LEMMA MakeTokenInv == ASSUME AccountInv, NEW j \in Jobs, MakeToken(j) PROVE AccountInv'
<1>1. PICK t : t = NewLink
  OBVIOUS
<1>2. PICK x : x = [job[j] EXCEPT !.pc = "bind", !.tok = t]
  OBVIOUS
<1>3. job[j] \in Job /\ Fits(job[j]) /\ job[j].prev \subseteq DOMAIN links /\ job[j].tok = 0 /\ job[j].pc = "token"
  BY JobFacts DEF Fits, MakeToken, On
<1>4. /\ t \notin DOMAIN links /\ t \in 1..MaxLinks /\ t # 0 /\ links' \in Seq(Link)
      /\ DOMAIN links' = DOMAIN links \cup {t} /\ Len(links') <= MaxLinks
      /\ \A u \in DOMAIN links : links'[u] = links[u]
  <2>1. links \in Seq(Link) /\ [from |-> job[j].to, to |-> job[j].to, mute |-> FALSE] \in Link
    BY JobFacts DEF AccountInv, AccountTyped, Link
  <2> QED BY <1>1, <2>1, LinkFacts DEF MakeToken, NewLink
<1>5. x \in Job /\ x.pc = "bind" /\ x.tok = t /\ Fits(x)' /\ job' = [job EXCEPT ![j] = x]
  <2>1. x \in Job /\ x.pc = "bind" /\ x.tok = t /\ x.prev = job[j].prev
    <3>1. x = [pc |-> "bind", to |-> job[j].to, prev |-> job[j].prev, tok |-> t]
      BY <1>2, <1>3 DEF Job
    <3>2. t \in 0..MaxLinks /\ job[j].to \in Addresses /\ job[j].prev \in SUBSET (1..MaxLinks)
      BY <1>3, <1>4 DEF Job
    <3> QED BY <3>1, <3>2 DEF Job, JobPcs
  <2>2. Fits(x)'
    BY <2>1, <1>3, <1>4 DEF Fits, Working, Opening
  <2> QED BY <1>1, <1>2, <2>1, <2>2 DEF MakeToken, Work
<1>6. resets' = resets \cup {t} /\ UNCHANGED <<bound, pending, presented, killed, delivered>>
  BY <1>1 DEF MakeToken
<1>7. t \notin resets \cup bound \cup pending \cup presented \cup killed
  BY <1>4 DEF AccountInv, AccountTyped
<1>8. AccountTyped'
  <2>1. job' \in [Jobs -> Job]
    BY <1>5, Becomes
  <2> QED BY <2>1, <1>4, <1>6 DEF AccountInv, AccountTyped, MakeToken
<1>9. Spent' /\ DeletedStaysOut'
  BY <1>6, <1>7 DEF AccountInv, Spent, DeletedStaysOut, MakeToken
<1>10. JobsFit'
  BY <1>4, <1>5, <1>6, FitsOn
<1>11. OneEach'
  <2>1. \A u \in resets' : /\ u \in resets \/ (x.pc \in Working /\ x.tok = u)
                           /\ job[j].pc \in Working /\ job[j].tok = u => x.pc \in Working /\ x.tok = u
    BY <1>3, <1>5, <1>6 DEF Working
  <2>2. (\A k \in Jobs : job'[k].pc # "retire") => \A u, v \in Standing' : u = v
    BY <2>1, <1>3, <1>5, OneStands
  <2> QED BY <2>2, <1>6 DEF AccountInv, OneEach
<1>12. RecoveriesMailed'
  <2>1. \A u \in resets' \cap bound' : u \in resets \cap bound
    BY <1>6, <1>7
  <2> QED BY <2>1, <1>3, <1>5, <1>6, RecoveriesGoOn
<1>13. ChangesMailed'
  <2>1. \A u \in pending : links'[u].mute = links[u].mute
    BY <1>4 DEF AccountInv, AccountTyped
  <2> QED BY <2>1, <1>3, <1>5, <1>6, ChangesGoOn
<1> QED BY <1>8, <1>9, <1>10, <1>11, <1>12, <1>13 DEF AccountInv, Delivering

\* A request with a token goes on to l.
LEMMA GoesOn ==
  ASSUME AccountInv, NEW j \in Jobs, NEW l \in JobPcs, job[j].tok # 0, presented \subseteq presented',
         DOMAIN links \subseteq DOMAIN links', l \notin {"claim", "lookup", "token"},
         l \in Working => job[j].pc \in Working, l \in Opening => job[j].tok \in presented'
  PROVE  \E x \in Job : x = [job[j] EXCEPT !.pc = l] /\ x.pc = l /\ x.tok = job[j].tok /\ Fits(x)'
<1>1. PICK x : x = [job[j] EXCEPT !.pc = l]
  OBVIOUS
<1>2. x \in Job /\ x.pc = l /\ x.tok = job[j].tok /\ x.prev = job[j].prev /\ Fits(job[j])
  BY <1>1, JobFacts DEF Job
<1>3. Fits(x)'
  BY <1>2 DEF Fits
<1> QED BY <1>1, <1>2, <1>3

LEMMA BindRecoveryLinkInv == ASSUME AccountInv, NEW j \in Jobs, BindRecoveryLink(j) PROVE AccountInv'
<1>1. job[j].pc = "bind" /\ job[j].tok # 0 /\ job[j].tok \in DOMAIN links
  BY JobFacts DEF Fits, BindRecoveryLink, On
<1>2. PICK x \in Job : x = [job[j] EXCEPT !.pc = "mail"] /\ x.pc = "mail" /\ x.tok = job[j].tok /\ Fits(x)'
  BY <1>1, GoesOn DEF BindRecoveryLink, JobPcs, Working, Opening
<1>3. job' = [job EXCEPT ![j] = x] /\ bound' = bound \cup {x.tok}
  BY <1>2 DEF BindRecoveryLink, Then, Work
<1>4. AccountTyped'
  BY <1>1, <1>2, <1>3, Becomes DEF BindRecoveryLink, AccountInv, AccountTyped
<1>5. Spent' /\ DeletedStaysOut'
  BY DEF BindRecoveryLink, AccountInv, Spent, DeletedStaysOut
<1> QED BY <1>1, <1>2, <1>3, <1>4, <1>5, Less DEF BindRecoveryLink, Working

LEMMA SendResetPasswordInv == ASSUME AccountInv, NEW j \in Jobs, SendResetPassword(j) PROVE AccountInv'
<1>1. job[j].pc = "mail" /\ job[j].tok # 0 /\ job[j].tok \in DOMAIN links
  BY JobFacts DEF Fits, SendResetPassword, On
<1>2. PICK l \in {"settle", "drop"} : /\ Then(j, l) /\ delivered' \in {delivered, delivered \cup {job[j].tok}}
                                      /\ l = "settle" => job[j].tok \in delivered'
  BY DEF SendResetPassword
<1>3. PICK x \in Job : x = [job[j] EXCEPT !.pc = l] /\ x.pc = l /\ x.tok = job[j].tok /\ Fits(x)'
  BY <1>1, GoesOn DEF SendResetPassword, JobPcs, Working, Opening
<1>4. job' = [job EXCEPT ![j] = x]
  BY <1>2, <1>3 DEF Then, Work
<1>5. AccountTyped'
  BY <1>1, <1>2, <1>4, Becomes DEF SendResetPassword, AccountInv, AccountTyped
<1>6. Spent' /\ DeletedStaysOut'
  BY DEF SendResetPassword, AccountInv, Spent, DeletedStaysOut
<1> QED BY <1>1, <1>2, <1>3, <1>4, <1>5, <1>6, Less DEF SendResetPassword, Working

LEMMA DropRecoveryLinkInv == ASSUME AccountInv, NEW j \in Jobs, DropRecoveryLink(j) PROVE AccountInv'
<1>1. job[j].pc = "drop" /\ job[j].tok # 0
  BY JobFacts DEF Fits, DropRecoveryLink, On
<1>2. PICK x \in Job : x = [job[j] EXCEPT !.pc = "settle"] /\ x.pc = "settle" /\ x.tok = job[j].tok /\ Fits(x)'
  BY <1>1, GoesOn DEF DropRecoveryLink, JobPcs, Working, Opening
<1>3. job' = [job EXCEPT ![j] = x] /\ resets' = resets \ {x.tok} /\ bound' = bound \ {x.tok}
  BY <1>2 DEF DropRecoveryLink, Then, Work, Retire
<1>4. AccountTyped'
  BY <1>3, Becomes DEF DropRecoveryLink, AccountInv, AccountTyped
<1>5. Spent' /\ DeletedStaysOut'
  BY <1>3 DEF DropRecoveryLink, AccountInv, Spent, DeletedStaysOut
<1> QED BY <1>1, <1>2, <1>3, <1>4, <1>5, Less DEF DropRecoveryLink, Working

LEMMA SettleIntervalInv == ASSUME AccountInv, NEW j \in Jobs, SettleInterval(j) PROVE AccountInv'
<1>1. job[j] \in Job /\ Fits(job[j]) /\ job[j].pc = "settle" /\ job[j].tok \notin job[j].prev
  BY JobFacts DEF Fits, SettleInterval, On, Working
<1>2. CASE Issued(j) = {}
  <2>1. \A t \in resets : job[j].tok # t
    BY <1>1, <1>2 DEF Issued
  <2> QED BY <2>1, <1>1, <1>2, Idling, OnlyJob DEF SettleInterval, Reply, Work
<1>3. CASE Issued(j) # {}
  <2>1. PICK t \in Issued(j) : Work(j, [job[j] EXCEPT !.pc = "retire", !.tok = t])
    BY <1>3 DEF SettleInterval
  <2>2. t \in DOMAIN links /\ t \in 1..MaxLinks /\ t # 0
    BY LinkFacts DEF Issued, AccountInv, AccountTyped
  <2>3. PICK x : x = [job[j] EXCEPT !.pc = "retire", !.tok = t]
    OBVIOUS
  <2>4. x \in Job /\ x.pc = "retire" /\ Fits(x)
    <3>1. x \in Job /\ x.pc = "retire" /\ x.tok = t /\ x.prev = job[j].prev
      <4>1. x = [pc |-> "retire", to |-> job[j].to, prev |-> job[j].prev, tok |-> t]
        BY <1>1, <2>3 DEF Job
      <4>2. t \in 0..MaxLinks /\ job[j].to \in Addresses /\ job[j].prev \in SUBSET (1..MaxLinks)
        BY <1>1, <2>2 DEF Job
      <4> QED BY <4>1, <4>2 DEF Job, JobPcs
    <3> QED BY <3>1, <1>1, <2>2 DEF Fits, Working, Opening
  <2>5. AccountTyped'
    BY <1>3, <2>1, <2>3, <2>4, Becomes DEF SettleInterval, AccountInv, AccountTyped, Work
  <2>6. Spent' /\ DeletedStaysOut' /\ Fits(x)'
    BY <2>4 DEF SettleInterval, AccountInv, Spent, DeletedStaysOut, Fits
  <2>7. /\ JobsFit' /\ RecoveriesMailed' /\ ChangesMailed'
    BY <1>1, <2>1, <2>3, <2>4, <2>6, FitsOn, RecoveriesGoOn, ChangesGoOn DEF SettleInterval, Work
  <2>8. job'[j].pc = "retire"
    BY <2>1, <2>3, <2>4, Becomes DEF Work
  <2>9. OneEach'
    BY <2>8 DEF AccountInv, OneEach, SettleInterval
  <2> QED BY <2>5, <2>6, <2>7, <2>9 DEF AccountInv, Delivering
<1> QED BY <1>2, <1>3

LEMMA RetireOlderInv == ASSUME AccountInv, NEW j \in Jobs, RetireOlder(j) PROVE AccountInv'
<1>1. /\ job[j].pc = "retire" /\ job' = [job EXCEPT ![j] = NoJob]
      /\ resets' \subseteq resets \cap {job[j].tok} /\ bound' \subseteq bound
  BY DEF RetireOlder, On, Reply, Work, Retire
<1>2. NoJob \in Job /\ NoJob.pc = "idle" /\ Fits(NoJob)'
  BY Idling DEF RetireOlder, Fits
<1>3. AccountTyped'
  BY <1>1, <1>2, Becomes DEF RetireOlder, AccountInv, AccountTyped
<1>4. Spent' /\ DeletedStaysOut'
  BY <1>1 DEF RetireOlder, AccountInv, Spent, DeletedStaysOut
<1>5. JobsFit' /\ ChangesMailed'
  BY <1>1, <1>2, FitsOn, ChangesGoOn DEF RetireOlder
<1>6. RecoveriesMailed'
  BY <1>1, <1>2, RecoveriesGoOn DEF RetireOlder
<1>7. OneEach'
  BY <1>1 DEF AccountInv, OneEach, Standing, RetireOlder
<1> QED BY <1>3, <1>4, <1>5, <1>6, <1>7 DEF AccountInv, Delivering

LEMMA ConsumeResetInv == ASSUME AccountInv, NEW j \in Jobs, NEW t \in DOMAIN links, ConsumeReset(j, t) PROVE AccountInv'
<1>1. PICK x : x = [NoJob EXCEPT !.pc = "confirm", !.tok = t]
  OBVIOUS
<1>2. /\ t \in 1..MaxLinks /\ t # 0 /\ t \in resets /\ job[j].pc = "idle"
      /\ job' = [job EXCEPT ![j] = x] /\ presented' = presented \cup {t} /\ resets' = resets \ {t}
  BY <1>1, LinkFacts DEF ConsumeReset, On, Work
<1>3. x \in Job /\ x.pc = "confirm" /\ x.tok = t /\ x.prev = {}
  <2>1. x = [pc |-> "confirm", to |-> Home, prev |-> {}, tok |-> t]
    BY <1>1 DEF NoJob
  <2> QED BY <2>1, <1>2, HomeAssumption DEF Job, JobPcs
<1>4. Fits(x)'
  BY <1>2, <1>3 DEF Fits, Working, Opening, ConsumeReset
<1>5. AccountTyped'
  BY <1>2, <1>3, Becomes DEF ConsumeReset, AccountInv, AccountTyped
<1>6. Spent' /\ DeletedStaysOut'
  BY <1>2 DEF ConsumeReset, AccountInv, Spent, DeletedStaysOut
<1> QED BY <1>2, <1>3, <1>4, <1>5, <1>6, Less DEF ConsumeReset, Working

LEMMA ConfirmRecoveredUserInv == ASSUME AccountInv, NEW j \in Jobs, ConfirmRecoveredUser(j) PROVE AccountInv'
<1>1. /\ job[j].pc = "confirm" /\ job[j].tok # 0 /\ job[j].tok \in presented /\ job[j].tok \in DOMAIN links
      /\ links[job[j].tok].to \in Addresses
  BY JobFacts, LinkFacts DEF Fits, ConfirmRecoveredUser, On, Opening, Link
<1>2. bound' \subseteq bound /\ UNCHANGED <<links, delivered, resets, pending, presented>>
  BY DEF ConfirmRecoveredUser
<1>3. \E x \in Job : job' = [job EXCEPT ![j] = x] /\ Fits(x)' /\ x.pc \notin Working \cup {"deliver", "dropChange"}
  <2>1. CASE job[j].tok \in bound /\ links[job[j].tok].to = address
    <3>1. PICK x \in Job : x = [job[j] EXCEPT !.pc = "openRecovery"] /\ x.pc = "openRecovery" /\ Fits(x)'
      BY <1>1, <1>2, GoesOn DEF JobPcs, Working, Opening
    <3> QED BY <2>1, <3>1 DEF ConfirmRecoveredUser, Then, Work, Working
  <2>2. CASE ~(job[j].tok \in bound /\ links[job[j].tok].to = address)
    <3>1. NoJob \in Job /\ Fits(NoJob)' /\ NoJob.pc = "idle"
      BY <1>2, Idling DEF Fits
    <3> QED BY <2>2, <3>1 DEF ConfirmRecoveredUser, Reply, Work, Working
  <2> QED BY <2>1, <2>2
<1>4. PICK x \in Job : job' = [job EXCEPT ![j] = x] /\ Fits(x)' /\ x.pc \notin Working \cup {"deliver", "dropChange"}
  BY <1>3
<1>5. logged' \in Seq(Login) /\ confirmed' \in BOOLEAN /\ federated' \in BOOLEAN
  BY LoggedFacts DEF ConfirmRecoveredUser, AccountInv, AccountTyped
<1>6. AccountTyped'
  BY <1>2, <1>4, <1>5, Becomes DEF ConfirmRecoveredUser, AccountInv, AccountTyped
<1>7. Spent'
  BY DEF ConfirmRecoveredUser, AccountInv, Spent
<1>8. DeletedStaysOut'
  BY <1>1, HomeAssumption DEF ConfirmRecoveredUser, AccountInv, DeletedStaysOut
<1> QED BY <1>1, <1>2, <1>4, <1>6, <1>7, <1>8, Less DEF Working

LEMMA OpenSessionInv == ASSUME AccountInv, NEW j \in Jobs, OpenSession(j) PROVE AccountInv'
<1>1. /\ job[j].pc \in {"openRecovery", "openSession"} /\ job' = [job EXCEPT ![j] = NoJob]
      /\ NoJob \in Job /\ NoJob.pc = "idle" /\ Fits(NoJob)'
  BY Idling DEF OpenSession, Reply, Work, Fits
<1>2. logged' \in Seq(Login)
  <2>1. CASE On(j, "openRecovery")
    BY <2>1, LoggedFacts DEF OpenSession
  <2>2. CASE ~On(j, "openRecovery")
    <3>1. On(j, "openRecovery") = FALSE
      BY <2>2 DEF On
    <3> QED BY <3>1, LoggedFacts DEF OpenSession
  <2> QED BY <2>1, <2>2
<1>3. AccountTyped'
  BY <1>1, <1>2, Becomes DEF OpenSession, AccountInv, AccountTyped
<1>4. Spent' /\ DeletedStaysOut'
  BY DEF OpenSession, AccountInv, Spent, DeletedStaysOut
<1> QED BY <1>1, <1>3, <1>4, Less DEF OpenSession, Working

LEMMA ApplyEmailChangeInv == ASSUME AccountInv, NEW j \in Jobs, ApplyEmailChange(j) PROVE AccountInv'
<1> DEFINE t == job[j].tok
<1>1. job[j].pc = "apply" /\ t # 0 /\ t \in DOMAIN links /\ links[t].to \in Addresses
  BY JobFacts, LinkFacts DEF Fits, ApplyEmailChange, On, Link
<1>2. CASE t \in pending /\ links[t].from = address /\ links[t].to \notin others
  <2>1. /\ killed' = killed \cup resets \cup (pending \ {t}) /\ presented' = presented \cup {t}
        /\ resets' = {} /\ bound' = bound \ resets /\ pending' = {} /\ address' = links[t].to /\ confirmed' = TRUE
        /\ UNCHANGED <<federated, links, delivered, lately, interval, logged, others>>
    BY <1>2 DEF ApplyEmailChange, RetireAll, Retire
  <2>2. PICK x \in Job : x = [job[j] EXCEPT !.pc = "openSession"] /\ x.pc = "openSession" /\ Fits(x)'
    BY <1>1, <2>1, GoesOn DEF JobPcs, Working, Opening
  <2>3. job' = [job EXCEPT ![j] = x]
    BY <1>2, <2>2 DEF ApplyEmailChange, Then, Work
  <2>4. AccountTyped'
    BY <1>1, <2>1, <2>3, Becomes DEF AccountInv, AccountTyped
  <2>5. Spent'
    BY <1>2, <2>1 DEF AccountInv, Spent
  <2>6. DeletedStaysOut'
    BY <1>1, <2>1, HomeAssumption DEF DeletedStaysOut
  <2> QED BY <1>1, <2>1, <2>2, <2>3, <2>4, <2>5, <2>6, Less DEF Working
<1>3. CASE ~(t \in pending /\ links[t].from = address /\ links[t].to \notin others)
  <2>1. /\ pending' \subseteq pending /\ job' = [job EXCEPT ![j] = NoJob]
        /\ UNCHANGED <<address, confirmed, resets, bound, presented, killed, federated, links, delivered,
                       lately, interval, logged, others>>
    BY <1>3 DEF ApplyEmailChange, Reply, Work
  <2>2. NoJob \in Job /\ NoJob.pc = "idle" /\ Fits(NoJob)'
    BY <2>1, Idling DEF Fits
  <2>3. AccountTyped'
    BY <2>1, <2>2, Becomes DEF AccountInv, AccountTyped
  <2>4. Spent' /\ DeletedStaysOut'
    BY <2>1 DEF AccountInv, Spent, DeletedStaysOut
  <2> QED BY <1>1, <2>1, <2>2, <2>3, <2>4, Less DEF Working
<1> QED BY <1>2, <1>3

LEMMA StageAddressChangeInv ==
  ASSUME AccountInv, NEW j \in Jobs, NEW s \in DOMAIN logged, NEW a \in Addresses, StageAddressChange(j, s, a)
  PROVE  AccountInv'
<1>1. PICK t : t = NewLink
  OBVIOUS
<1>2. /\ t \notin DOMAIN links /\ t \in 1..MaxLinks /\ t # 0 /\ links' \in Seq(Link)
      /\ DOMAIN links' = DOMAIN links \cup {t} /\ Len(links') <= MaxLinks /\ links'[t].mute = (a \in others)
  <2>1. links \in Seq(Link) /\ [from |-> address, to |-> a, mute |-> a \in others] \in Link
    BY DEF AccountInv, AccountTyped, Link, StageAddressChange
  <2> QED BY <1>1, <2>1, LinkFacts DEF StageAddressChange, NewLink
<1>3. /\ job[j].pc = "idle" /\ pending' = {t} /\ lately' = TRUE /\ address # Tomb
      /\ UNCHANGED <<address, confirmed, federated, delivered, resets, bound, interval, logged, others,
                     presented, killed>>
  BY <1>1 DEF StageAddressChange, On
<1>4. PICK x \in Job : /\ job' = [job EXCEPT ![j] = x] /\ Fits(x)' /\ x.pc \notin Working \cup {"retire"}
                       /\ a \notin others => x.pc = "deliver" /\ x.tok = t
  <2>1. CASE a \in others
    <3>1. PICK x : x = job[j]
      OBVIOUS
    <3>2. x \in Job /\ Fits(x)' /\ x.pc = "idle"
      BY <3>1, <1>2, <1>3, JobFacts DEF Fits
    <3>3. job' = [job EXCEPT ![j] = x]
      BY <2>1, <3>1 DEF StageAddressChange, AccountInv, AccountTyped
    <3> QED BY <2>1, <3>2, <3>3 DEF Working
  <2>2. CASE a \notin others
    <3>1. PICK x : x = [NoJob EXCEPT !.pc = "deliver", !.tok = t]
      OBVIOUS
    <3>2. x \in Job /\ x.pc = "deliver" /\ x.tok = t /\ x.prev = {}
      <4>1. x = [pc |-> "deliver", to |-> Home, prev |-> {}, tok |-> t]
        BY <3>1 DEF NoJob
      <4> QED BY <4>1, <1>2, HomeAssumption DEF Job, JobPcs
    <3>3. Fits(x)'
      BY <1>2, <3>2 DEF Fits, Working, Opening
    <3> QED BY <1>1, <2>2, <3>1, <3>2, <3>3 DEF StageAddressChange, Work, Working
  <2> QED BY <2>1, <2>2
<1>5. AccountTyped'
  <2>1. job' \in [Jobs -> Job]
    BY <1>4, Becomes
  <2> QED BY <2>1, <1>2, <1>3 DEF AccountInv, AccountTyped
<1>6. Spent' /\ DeletedStaysOut'
  <2>1. t \notin resets \cup presented \cup killed
    BY <1>2 DEF AccountInv, AccountTyped
  <2> QED BY <2>1, <1>3 DEF AccountInv, Spent, DeletedStaysOut
<1>7. JobsFit'
  BY <1>2, <1>3, <1>4, FitsOn
<1>8. OneEach'
  <2>1. \A u \in resets' : /\ u \in resets \/ (x.pc \in Working /\ x.tok = u)
                           /\ job[j].pc \in Working /\ job[j].tok = u => x.pc \in Working /\ x.tok = u
    BY <1>3 DEF Working
  <2>2. (\A k \in Jobs : job'[k].pc # "retire") => \A u, v \in Standing' : u = v
    BY <2>1, <1>3, <1>4, OneStands
  <2> QED BY <2>2, <1>3 DEF OneEach
<1>9. RecoveriesMailed'
  BY <1>3, <1>4, RecoveriesGoOn
<1>10. ChangesMailed'
  BY <1>2, <1>3, <1>4, Becomes DEF ChangesMailed
<1> QED BY <1>5, <1>6, <1>7, <1>8, <1>9, <1>10 DEF AccountInv, Delivering

LEMMA DeliverAddressChangeInv == ASSUME AccountInv, NEW j \in Jobs, DeliverAddressChange(j) PROVE AccountInv'
<1>1. job[j].pc = "deliver" /\ job[j].tok # 0 /\ job[j].tok \in DOMAIN links
  BY JobFacts DEF Fits, DeliverAddressChange, On
<1>2. CASE Reply(j) /\ delivered' = delivered \cup {job[j].tok}
  <2>1. job' = [job EXCEPT ![j] = NoJob] /\ NoJob \in Job /\ NoJob.pc = "idle" /\ Fits(NoJob)'
    BY <1>2, Idling DEF Reply, Work, Fits, DeliverAddressChange
  <2>2. AccountTyped'
    BY <1>1, <1>2, <2>1, Becomes DEF DeliverAddressChange, AccountInv, AccountTyped
  <2>3. Spent' /\ DeletedStaysOut'
    BY DEF DeliverAddressChange, AccountInv, Spent, DeletedStaysOut
  <2> QED BY <1>1, <1>2, <2>1, <2>2, <2>3, Less DEF DeliverAddressChange, Working
<1>3. CASE Then(j, "dropChange") /\ delivered' = delivered
  <2>1. PICK x \in Job : /\ x = [job[j] EXCEPT !.pc = "dropChange"]
                         /\ x.pc = "dropChange" /\ x.tok = job[j].tok /\ Fits(x)'
    BY <1>1, GoesOn DEF DeliverAddressChange, JobPcs, Working, Opening
  <2>2. job' = [job EXCEPT ![j] = x]
    BY <1>3, <2>1 DEF Then, Work
  <2>3. AccountTyped'
    BY <1>1, <1>3, <2>2, Becomes DEF DeliverAddressChange, AccountInv, AccountTyped
  <2>4. Spent' /\ DeletedStaysOut'
    BY DEF DeliverAddressChange, AccountInv, Spent, DeletedStaysOut
  <2> QED BY <1>1, <1>3, <2>1, <2>2, <2>3, <2>4, Less DEF DeliverAddressChange, Working
<1> QED BY <1>2, <1>3 DEF DeliverAddressChange

LEMMA DropEmailChangeInv == ASSUME AccountInv, NEW j \in Jobs, DropEmailChange(j) PROVE AccountInv'
<1>1. /\ job[j].pc = "dropChange" /\ job' = [job EXCEPT ![j] = NoJob] /\ pending' = pending \ {job[j].tok}
      /\ NoJob \in Job /\ NoJob.pc = "idle" /\ Fits(NoJob)'
  BY Idling DEF DropEmailChange, On, Reply, Work, Fits
<1>2. AccountTyped'
  BY <1>1, Becomes DEF DropEmailChange, AccountInv, AccountTyped
<1>3. Spent' /\ DeletedStaysOut'
  BY <1>1 DEF DropEmailChange, AccountInv, Spent, DeletedStaysOut
<1> QED BY <1>1, <1>2, <1>3, Less DEF DropEmailChange, Working

LEMMA AccountInitInv == AccountInit => AccountInv
<1> SUFFICES ASSUME AccountInit PROVE AccountInv
  OBVIOUS
<1>1. links = <<>> /\ DOMAIN links = {} /\ links \in Seq(Link) /\ Len(links) <= MaxLinks
  BY MaxLinksAssumption DEF AccountInit
<1>2. logged \in Seq(Login)
  BY DEF AccountInit, Login
<1>3. NoJob \in Job /\ NoJob.pc = "idle" /\ Fits(NoJob)
  BY <1>1, HomeAssumption, MaxLinksAssumption DEF NoJob, Job, JobPcs, Fits, Working, Opening
<1>4. job \in [Jobs -> Job] /\ \A j \in Jobs : job[j] = NoJob
  BY <1>3 DEF AccountInit
<1>5. AccountTyped
  BY <1>1, <1>2, <1>4, HomeAssumption DEF AccountInit, AccountTyped
<1>6. JobsFit
  BY <1>3, <1>4 DEF JobsFit
<1>7. Spent /\ OneEach /\ Delivering
  BY DEF AccountInit, Spent, OneEach, Standing, Delivering, RecoveriesMailed, ChangesMailed
<1>8. DeletedStaysOut
  BY HomeAssumption DEF AccountInit, DeletedStaysOut
<1> QED BY <1>5, <1>6, <1>7, <1>8 DEF AccountInv

LEMMA AccountNextInv == ASSUME AccountInv, [AccountNext]_accountVars PROVE AccountInv'
<1>1. CASE UNCHANGED accountVars
  BY <1>1, NoJobLess DEF accountVars, AccountInv, AccountTyped, Spent, DeletedStaysOut
<1>2. ASSUME NEW j \in Jobs, AccountServe(j) PROVE AccountInv'
  BY <1>2, ClaimIntervalInv, LookUpUserInv, MakeTokenInv, BindRecoveryLinkInv, SendResetPasswordInv,
     DropRecoveryLinkInv, SettleIntervalInv, RetireOlderInv, ConfirmRecoveredUserInv, OpenSessionInv,
     ApplyEmailChangeInv, DeliverAddressChangeInv, DropEmailChangeInv DEF AccountServe
<1>3. CASE AccountNext
  BY <1>2, <1>3, RecoverInv, StageAddressChangeInv, ConsumeResetInv, ReadPendingInv, ChangePasswordInv,
     DeleteAccountInv, AroundInv DEF AccountNext
<1> QED BY <1>1, <1>3

LEMMA AccountTypes == AccountInv => AccountTypeOK
<1> SUFFICES ASSUME AccountInv PROVE AccountTypeOK
  OBVIOUS
<1>1. /\ {confirmed, federated, lately, interval} \subseteq BOOLEAN
      /\ delivered \cup resets \cup bound \cup pending \cup presented \cup killed \subseteq DOMAIN links
  BY DEF AccountInv, AccountTyped
<1>2. ASSUME NEW j \in Jobs
      PROVE  job[j] \in [pc : JobPcs, to : Addresses, prev : SUBSET DOMAIN links, tok : {0} \cup DOMAIN links]
  BY JobFacts DEF Job
<1>3. job \in [Jobs -> [pc : JobPcs, to : Addresses, prev : SUBSET DOMAIN links, tok : {0} \cup DOMAIN links]]
  BY <1>2 DEF AccountInv, AccountTyped
<1> QED BY <1>1, <1>3 DEF AccountInv, AccountTyped, AccountTypeOK, Link, Login

LEMMA OneOrNone == ASSUME NEW S, \A t, u \in S : t = u PROVE Cardinality(S) <= 1
<1>1. CASE S = {}
  BY <1>1, FS_EmptySet
<1>2. CASE S # {}
  <2>1. PICK t : S = {t}
    BY <1>2
  <2>2. Cardinality({t}) = 1
    BY FS_Singleton
  <2> QED BY <2>1, <2>2
<1> QED BY <1>1, <1>2

\* Whatever recoveries and address changes overlap, and whichever of their mails fail:
\* once their requests are answered, an account has one link of a kind at most and it was
\* delivered; and a deleted account has none and stays unconfirmed (settleRecoveryInterval,
\* dropRecoveryLink, dropEmailChange, tombstoneUser).
THEOREM LinksEndWell == AccountSpec => []LinksEnd
<1>1. ASSUME AccountInv PROVE LinksEnd
  <2>1. ASSUME AllReplied PROVE OneLinkEach /\ UndeliveredIsDropped
    <3>1. \A j \in Jobs : job[j].pc = "idle"
      BY <2>1 DEF AllReplied, On
    <3>2. Standing = resets
      BY <3>1 DEF Standing, Working
    <3>3. (\A t, u \in resets : t = u) /\ \A t, u \in pending : t = u
      BY <1>1, <3>1, <3>2 DEF AccountInv, OneEach
    <3>4. Cardinality(resets) <= 1 /\ Cardinality(pending) <= 1
      BY <3>3, OneOrNone
    <3>5. UndeliveredIsDropped
      BY <1>1, <3>1 DEF AccountInv, Delivering, RecoveriesMailed, ChangesMailed, UndeliveredIsDropped
    <3> QED BY <3>4, <3>5 DEF OneLinkEach
  <2>2. LinksSettle
    BY <2>1 DEF LinksSettle, OneLinkEach, UndeliveredIsDropped
  <2> QED BY <1>1, <2>2 DEF LinksEnd, AccountInv
<1> QED BY <1>1, AccountInitInv, AccountNextInv, PTL DEF AccountSpec

\* No session opens through a link that a change of password or address or the deletion
\* found unused, and an address is confirmed only by a link that was mailed to it
\* (retireRecoveryLinks, applyEmailChange, confirmRecoveredUser).
THEOREM LinksProveAddresses == AccountSpec => LinksProve
<1> DEFINE OldLinks == \A j \in Jobs : OpenSession(j) => job[j].tok \notin killed
           Proven == confirmed' => (confirmed /\ address' = address) \/ \E t \in presented' : links[t].to = address'
<1>1. ASSUME AccountInv PROVE OldLinks
  <2>1. \A j \in Jobs : OpenSession(j) => job[j].pc \in Opening
    BY DEF OpenSession, Opening
  <2> QED BY <1>1, <2>1, JobFacts DEF AccountInv, Spent, Fits
<1>2. ASSUME AccountInv, AccountNext PROVE Proven
  <2>1. CASE UNCHANGED <<address, confirmed>>
    BY <2>1
  <2>2. ASSUME NEW j \in Jobs, ConfirmRecoveredUser(j) PROVE Proven
    <3>1. job[j].tok \in presented /\ UNCHANGED <<presented, address>>
      BY <1>2, <2>2, JobFacts DEF ConfirmRecoveredUser, On, Fits, Opening
    <3> QED BY <2>2, <3>1 DEF ConfirmRecoveredUser
  <2>3. ASSUME NEW j \in Jobs, ApplyEmailChange(j) PROVE Proven
    BY <2>3 DEF ApplyEmailChange
  <2>4. ASSUME NEW s \in DOMAIN logged, DeleteAccount(s) PROVE Proven
    BY <2>4 DEF DeleteAccount
  <2>5. ASSUME NEW j \in Jobs, AccountServe(j) PROVE Proven
    BY <2>1, <2>2, <2>3, <2>5 DEF AccountServe, ClaimInterval, LookUpUser, MakeToken, BindRecoveryLink,
       SendResetPassword, DropRecoveryLink, SettleInterval, RetireOlder, OpenSession, DeliverAddressChange,
       DropEmailChange
  <2>6. \/ \E j \in Jobs : AccountServe(j)
        \/ \E s \in DOMAIN logged : DeleteAccount(s)
        \/ UNCHANGED <<address, confirmed>>
    BY <1>2 DEF AccountNext, Recover, StageAddressChange, ConsumeReset, ReadPending, ChangePassword, LogOut,
       MinutePasses, OtherTakes
  <2> QED BY <2>1, <2>4, <2>5, <2>6
<1>3. AccountInv /\ [AccountNext]_accountVars => [OldLinks]_accountVars /\ [Proven]_accountVars
  BY <1>1, <1>2
<1> HIDE DEF OldLinks, Proven
<1>4. AccountSpec => [][OldLinks]_accountVars /\ [][Proven]_accountVars
  BY <1>3, AccountInitInv, AccountNextInv, PTL DEF AccountSpec
<1> QED BY <1>4 DEF LinksProve, OldLinksDie, ConfirmedIsProven, OldLinks, Proven

(***************************************************************************)
(* Provider identities.                                                    *)
(*                                                                         *)
(* A flow is completed by the slot that took its row, and no other slot    *)
(* and no code has it (FlowsOnce); likewise a code (CodesOnce).  A user    *)
(* who is about to lose a method has another one, for as long as no        *)
(* unproven link is dropped (Sparing), which the user's lock makes true    *)
(* (OneUnlinks).  A row with a code, and one that a session came through   *)
(* while it was held, is held, proven or gone (Guarded).                   *)
(***************************************************************************)
Account == [user : Users, identity : Identities, there : BOOLEAN]
LoginRow == [user : Users, live : BOOLEAN, via : Nat, held : BOOLEAN]
Code == [ses : Nat, row : Nat, flow : Nat, there : BOOLEAN, granted : Nat]
SlotRow == [pc : SlotPcs, flow : Nat, row : Nat, rows : SUBSET Nat, ses : Nat, code : Nat, ok : BOOLEAN]

IdentityTyped ==
    /\ passwords \subseteq known /\ known \subseteq Users /\ dropped \subseteq known
    /\ accounts \in Seq(Account) /\ logins \in Seq(LoginRow) /\ flows \in Seq(FlowType) /\ codes \in Seq(Code)
    /\ tickets \subseteq DOMAIN logins /\ proven \subseteq DOMAIN accounts
    /\ holds \subseteq [row : DOMAIN accounts, by : DOMAIN flows, late : BOOLEAN]
    /\ cookie \in [Browsers -> {0} \cup DOMAIN flows] /\ jar \in [Browsers -> {0} \cup DOMAIN logins]
    /\ slot \in [Slots -> SlotRow]

\* Held, proven or gone.
Guarded(r) == r \in proven \/ r \notin Rows \/ Held(r)

Owned == \A r \in DOMAIN accounts : accounts[r].user \in known
LoginFits(l) ==
    /\ l.user \in known /\ l.via \in {0} \cup DOMAIN accounts
    /\ l.held => l.via # 0 /\ accounts[l.via].user = l.user /\ Guarded(l.via)
LoginsFit == \A s \in DOMAIN logins : LoginFits(logins[s])
CodeFits(c) ==
    /\ c.ses \in DOMAIN logins /\ c.row \in {0} \cup DOMAIN accounts /\ c.flow \in DOMAIN flows
    /\ ~flows[c.flow].there /\ (c.row # 0 => Guarded(c.row))
    /\ c.granted <= 1 /\ (c.there => c.granted = 0)
CodesFit == \A c \in DOMAIN codes : CodeFits(codes[c])

Completing == {"refused", "linked", "hold", "code", "who", "rows", "holds", "drop", "refuse"}
\* What slot x says of itself.
Shaped(x) ==
    /\ x.pc \in Completing => x.flow # 0 /\ x.code = 0
    /\ x.pc \in {"hold", "dropRow", "release"} => x.row # 0
    /\ x.pc \in {"linked", "who", "rows", "holds"} => x.row = 0
    /\ x.pc \in {"dropRow", "release"} /\ x.code = 0 => x.flow # 0
    /\ x.pc = "grant" => x.code # 0
    /\ x.pc \in {"idle", "refused", "linked", "who"} \/ x.ses # 0
    /\ x.pc = "dropRow" \/ x.code = 0 => ~x.ok
\* What it says of the rest.
Relates(x) ==
    /\ x.flow \in {0} \cup DOMAIN flows /\ x.row \in {0} \cup DOMAIN accounts /\ x.rows \subseteq DOMAIN accounts
    /\ x.ses \in {0} \cup DOMAIN logins /\ x.code \in {0} \cup DOMAIN codes
    /\ x.flow # 0 => ~flows[x.flow].there
    /\ x.pc \in {"linked", "hold"} => flows[x.flow].ses # 0
    /\ x.code # 0 => ~codes[x.code].there /\ codes[x.code].granted = 0
    /\ x.pc = "release" /\ ~x.ok => x.row \notin Rows
    /\ x.pc = "code" /\ x.row # 0 => Guarded(x.row)
    /\ x.pc = "holds" /\ logins[x.ses].held /\ logins[x.ses].via \in Rows => logins[x.ses].via \in x.rows
    /\ x.pc = "code" /\ flows[x.flow].ses = 0 /\ logins[x.ses].held
         => logins[x.ses].via \in proven \/ logins[x.ses].via \notin Rows
    /\ x.pc = "delete" /\ x.row # 0 => accounts[x.row].user = logins[x.ses].user
    /\ x.pc = "delete" /\ logins[x.ses].user \notin dropped => \E m \in Methods(logins[x.ses].user) : m # x.row
SlotsFit == \A q \in Slots : Shaped(slot[q]) /\ Relates(slot[q])

FlowsOnce ==
    /\ \A p, q \in Slots : slot[p].flow # 0 /\ slot[p].flow = slot[q].flow => p = q
    /\ \A q \in Slots, c \in DOMAIN codes : codes[c].flow # slot[q].flow
    /\ \A c, d \in DOMAIN codes : codes[c].flow = codes[d].flow => c = d
CodesOnce == \A p, q \in Slots : slot[p].code # 0 /\ slot[p].code = slot[q].code => p = q
OneUnlinks == \A p, q \in Slots :
    slot[p].pc \in Unlinking /\ slot[q].pc \in Unlinking /\ Caller(p) = Caller(q) => p = q

IdentityInv ==
    /\ IdentityTyped /\ Owned /\ LoginsFit /\ CodesFit /\ SlotsFit
    /\ FlowsOnce /\ CodesOnce /\ OneUnlinks /\ KeepsAMethod

\* What every step leaves as it is, and what only grows or only goes.
Grows ==
    /\ known \subseteq known' /\ dropped \subseteq dropped' /\ proven \subseteq proven'
    /\ DOMAIN accounts \subseteq DOMAIN accounts'
    /\ \A r \in DOMAIN accounts : /\ accounts'[r].user = accounts[r].user
                                  /\ accounts'[r].there => accounts[r].there
                                  /\ Guarded(r) => Guarded(r)'
    /\ DOMAIN logins \subseteq DOMAIN logins'
    /\ \A s \in DOMAIN logins : /\ logins'[s].user = logins[s].user /\ logins'[s].via = logins[s].via
                                /\ logins'[s].held = logins[s].held
    /\ DOMAIN flows \subseteq DOMAIN flows' /\ \A f \in DOMAIN flows : flows'[f].there => flows[f].there
    /\ DOMAIN codes \subseteq DOMAIN codes'
    /\ \A c \in DOMAIN codes : /\ codes'[c].ses = codes[c].ses /\ codes'[c].row = codes[c].row
                               /\ codes'[c].flow = codes[c].flow

LEMMA Domains ==
  ASSUME IdentityTyped
  PROVE  /\ DOMAIN accounts = 1..Len(accounts) /\ Len(accounts) \in Nat
         /\ DOMAIN logins = 1..Len(logins) /\ Len(logins) \in Nat
         /\ DOMAIN flows = 1..Len(flows) /\ Len(flows) \in Nat
         /\ DOMAIN codes = 1..Len(codes) /\ Len(codes) \in Nat
         /\ 0 \notin DOMAIN accounts /\ 0 \notin DOMAIN logins /\ 0 \notin DOMAIN flows /\ 0 \notin DOMAIN codes
         /\ \A r \in DOMAIN accounts : accounts[r] \in Account
         /\ \A s \in DOMAIN logins : logins[s] \in LoginRow
         /\ \A f \in DOMAIN flows : flows[f] \in FlowType
         /\ \A c \in DOMAIN codes : codes[c] \in Code
BY DEF IdentityTyped

LEMMA SlotFacts ==
  ASSUME IdentityInv, NEW q \in Slots
  PROVE  slot[q] \in SlotRow /\ Shaped(slot[q]) /\ Relates(slot[q])
BY DEF IdentityInv, IdentityTyped, SlotsFit

LEMMA OthersRelate ==
  ASSUME IdentityInv, Grows, NEW x \in SlotRow, Shaped(x), Relates(x),
         x.flow # 0 => flows'[x.flow].ses = flows[x.flow].ses,
         x.code # 0 => codes'[x.code] = codes[x.code],
         x.pc = "delete" /\ logins[x.ses].user \notin dropped' => \E m \in Methods(logins[x.ses].user)' : m # x.row
  PROVE  Relates(x)'
<1>1. /\ x.flow \in {0} \cup DOMAIN flows /\ x.row \in {0} \cup DOMAIN accounts /\ x.rows \subseteq DOMAIN accounts
      /\ x.ses \in {0} \cup DOMAIN logins /\ x.code \in {0} \cup DOMAIN codes
  BY DEF Relates
<1>2. /\ x.pc \in {"linked", "hold", "code"} => x.flow # 0
      /\ x.pc \in {"release", "code", "holds", "delete"} => x.ses # 0
      /\ x.pc = "release" => x.row # 0
  BY DEF Shaped, Completing
<1>3. \A r \in DOMAIN accounts : r \in Rows' => r \in Rows
  BY DEF Grows, Rows
<1>4. /\ (x.flow \in {0} \cup DOMAIN flows /\ x.row \in {0} \cup DOMAIN accounts /\ x.rows \subseteq DOMAIN accounts)'
      /\ (x.ses \in {0} \cup DOMAIN logins /\ x.code \in {0} \cup DOMAIN codes)'
  BY <1>1 DEF Grows
<1>5. /\ (x.flow # 0 => ~flows[x.flow].there)'
      /\ (x.pc \in {"linked", "hold"} => flows[x.flow].ses # 0)'
  BY <1>1, <1>2 DEF Grows, Relates
<1>6. (x.code # 0 => ~codes[x.code].there /\ codes[x.code].granted = 0)'
  BY DEF Relates
<1>7. (x.pc = "release" /\ ~x.ok => x.row \notin Rows)'
  BY <1>1, <1>2, <1>3 DEF Relates
<1>8. (x.pc = "code" /\ x.row # 0 => Guarded(x.row))'
  BY <1>1 DEF Grows, Relates
<1>9. x.ses # 0 => (x.ses \in DOMAIN logins /\ logins'[x.ses].via = logins[x.ses].via /\ logins'[x.ses].held = logins[x.ses].held
                     /\ logins'[x.ses].user = logins[x.ses].user)
  BY <1>1 DEF Grows
<1>10. x.ses # 0 /\ logins[x.ses].held => logins[x.ses].via \in DOMAIN accounts
  BY <1>1 DEF IdentityInv, LoginsFit, LoginFits
<1>11. (x.pc = "holds" /\ logins[x.ses].held /\ logins[x.ses].via \in Rows => logins[x.ses].via \in x.rows)'
  BY <1>2, <1>3, <1>9, <1>10 DEF Relates
<1>12. (x.pc = "code" /\ flows[x.flow].ses = 0 /\ logins[x.ses].held
         => logins[x.ses].via \in proven \/ logins[x.ses].via \notin Rows)'
  BY <1>2, <1>3, <1>9, <1>10 DEF Relates, Grows
<1>13. (x.pc = "delete" /\ x.row # 0 => accounts[x.row].user = logins[x.ses].user)'
  BY <1>1, <1>2, <1>9 DEF Relates, Grows
<1>14. (x.pc = "delete" /\ logins[x.ses].user \notin dropped => \E m \in Methods(logins[x.ses].user) : m # x.row)'
  <2>1. x.pc = "delete" => logins'[x.ses].user = logins[x.ses].user
    BY <1>2, <1>9
  <2> QED BY <2>1
<1> HIDE DEF Completing
<1> QED BY <1>4, <1>5, <1>6, <1>7, <1>8, <1>11, <1>12, <1>13, <1>14 DEF Relates

LEMMA OthersFit ==
  ASSUME IdentityInv, Grows, NEW p \in Slots, slot'[p] = slot[p],
         slot[p].flow # 0 => flows'[slot[p].flow].ses = flows[slot[p].flow].ses,
         slot[p].code # 0 => codes'[slot[p].code] = codes[slot[p].code],
         \A u \in known \ dropped' : slot[p].pc = "delete" /\ Caller(p) = u => Methods(u) \subseteq Methods(u)'
  PROVE  Shaped(slot[p])' /\ Relates(slot[p])'
<1>1. PICK x : x = slot[p]
  OBVIOUS
<1>2. x \in SlotRow /\ Shaped(x) /\ Relates(x) /\ x = slot'[p]
  BY <1>1, SlotFacts
<1>3. x.pc = "delete" /\ logins[x.ses].user \notin dropped' => \E m \in Methods(logins[x.ses].user)' : m # x.row
  <2> SUFFICES ASSUME x.pc = "delete", logins[x.ses].user \notin dropped'
               PROVE  \E m \in Methods(logins[x.ses].user)' : m # x.row
    OBVIOUS
  <2>1. x.ses \in DOMAIN logins
    BY <1>2 DEF Shaped, Relates
  <2>2. PICK u : u = logins[x.ses].user
    OBVIOUS
  <2>3. u \in known \ dropped' /\ u \notin dropped /\ u = Caller(p) /\ u = logins'[x.ses].user
    BY <1>1, <2>1, <2>2 DEF IdentityInv, LoginsFit, LoginFits, Grows, Caller
  <2>4. PICK m \in Methods(u) : m # x.row
    BY <1>2, <2>2, <2>3 DEF Relates
  <2>5. m \in Methods(u)'
    BY <1>1, <2>3, <2>4
  <2> QED BY <2>3, <2>4, <2>5 DEF Methods, RowsOf, Rows
<1>4. Shaped(slot[p])'
  BY <1>2 DEF Shaped
<1>5. Relates(x)'
  BY <1>1, <1>2, <1>3, OthersRelate
<1>6. Relates(slot[p])'
  BY <1>2, <1>5 DEF Relates
<1> QED BY <1>4, <1>6

LEMMA OldCodesFit ==
  ASSUME IdentityInv, Grows, NEW c \in DOMAIN codes, codes'[c].granted <= 1, codes'[c].there => codes'[c].granted = 0
  PROVE  CodeFits(codes[c])'
<1>1. CodeFits(codes[c])
  BY DEF IdentityInv, CodesFit
<1>2. codes'[c].ses = codes[c].ses /\ codes'[c].row = codes[c].row /\ codes'[c].flow = codes[c].flow
  BY DEF Grows
<1>3. codes'[c].row # 0 => Guarded(codes[c].row)'
  <2>1. PICK r : r = codes[c].row
    OBVIOUS
  <2>2. r # 0 => Guarded(r)'
    BY <1>1, <2>1 DEF Grows, CodeFits
  <2> QED BY <1>2, <2>1, <2>2 DEF Guarded, Rows, Held
<1>4. /\ codes'[c].ses \in DOMAIN logins' /\ codes'[c].row \in {0} \cup DOMAIN accounts'
      /\ codes'[c].flow \in DOMAIN flows' /\ ~flows'[codes'[c].flow].there
  BY <1>1, <1>2 DEF Grows, CodeFits
<1> QED BY <1>3, <1>4 DEF CodeFits

LEMMA OldLoginsFit ==
  ASSUME IdentityInv, Grows, NEW s \in DOMAIN logins
  PROVE  LoginFits(logins[s])'
<1>1. LoginFits(logins[s])
  BY DEF IdentityInv, LoginsFit
<1>2. logins'[s].user = logins[s].user /\ logins'[s].via = logins[s].via /\ logins'[s].held = logins[s].held
  BY DEF Grows
<1>3. logins'[s].held => Guarded(logins[s].via)'
  <2>1. PICK r : r = logins[s].via
    OBVIOUS
  <2>2. logins[s].held => Guarded(r)'
    BY <1>1, <2>1 DEF Grows, LoginFits
  <2> QED BY <1>2, <2>1, <2>2 DEF Guarded, Rows, Held
<1>4. /\ logins'[s].user \in known' /\ logins'[s].via \in {0} \cup DOMAIN accounts'
      /\ logins'[s].held => logins'[s].via # 0 /\ accounts'[logins'[s].via].user = logins'[s].user
  BY <1>1, <1>2 DEF Grows, LoginFits
<1> QED BY <1>3, <1>4 DEF LoginFits

LEMMA OldOwned ==
  ASSUME IdentityInv, Grows
  PROVE  \A r \in DOMAIN accounts : accounts'[r].user \in known'
BY DEF IdentityInv, Owned, Grows

\* Methods that are not unlinked or dropped stay.
LEMMA MethodsStay ==
  ASSUME DOMAIN accounts \subseteq DOMAIN accounts', NEW u,
         \A r \in DOMAIN accounts : accounts'[r].user = accounts[r].user,
         \A r \in DOMAIN accounts : accounts[r].user = u => accounts'[r].there = accounts[r].there,
         u \in passwords => u \in passwords'
  PROVE  Methods(u) \subseteq Methods(u)'
BY DEF Methods, RowsOf, Rows

\* A step that no slot takes.
LEMMA NoSlotStep ==
  ASSUME IdentityInv, Grows, IdentityTyped', UNCHANGED <<slot, codes, passwords, dropped>>,
         \A p \in Slots : slot[p].flow # 0 => flows'[slot[p].flow].ses = flows[slot[p].flow].ses,
         \A r \in DOMAIN accounts : accounts'[r].there = accounts[r].there,
         Owned', LoginsFit', \A u \in known' \ known : Methods(u)' # {}
  PROVE  IdentityInv'
<1>1. \A u : Methods(u) \subseteq Methods(u)'
  BY MethodsStay DEF Grows
<1>2. SlotsFit'
  <2>1. ASSUME NEW p \in Slots PROVE Shaped(slot[p])' /\ Relates(slot[p])'
    BY <1>1, OthersFit
  <2> QED BY <2>1 DEF SlotsFit
<1>3. CodesFit'
  <2>1. ASSUME NEW c \in DOMAIN codes PROVE CodeFits(codes[c])'
    BY OldCodesFit DEF IdentityInv, CodesFit, CodeFits
  <2> QED BY <2>1 DEF CodesFit
<1>4. FlowsOnce' /\ CodesOnce'
  BY DEF IdentityInv, FlowsOnce, CodesOnce
<1>5. OneUnlinks'
  <2>1. ASSUME NEW p \in Slots, slot[p].pc \in Unlinking PROVE Caller(p)' = Caller(p)
    <3>1. slot[p].ses \in DOMAIN logins
      BY <2>1, SlotFacts DEF Shaped, Relates, Unlinking
    <3> QED BY <3>1 DEF Caller, Grows
  <2> QED BY <2>1 DEF IdentityInv, OneUnlinks
<1>6. KeepsAMethod'
  BY <1>1 DEF IdentityInv, KeepsAMethod
<1> QED BY <1>2, <1>3, <1>4, <1>5, <1>6 DEF IdentityInv

\* A step of slot q, which becomes x, that makes no row, session or code, and takes
\* no method of a user that another slot is unlinking a method of.
LEMMA SlotMoves ==
  ASSUME IdentityInv, Grows, IdentityTyped', NEW q \in Slots, NEW x \in SlotRow, slot' = [slot EXCEPT ![q] = x],
         Shaped(x), Relates(x)', UNCHANGED <<known>>, DOMAIN accounts' = DOMAIN accounts,
         DOMAIN logins' = DOMAIN logins, DOMAIN codes' = DOMAIN codes,
         KeepsAMethod',
         \A p \in Slots \ {q} : \A u \in known \ dropped' :
           slot[p].pc = "delete" /\ Caller(p) = u => Methods(u) \subseteq Methods(u)',
         \A p \in Slots \ {q} : slot[p].flow # 0 => flows'[slot[p].flow].ses = flows[slot[p].flow].ses,
         \A p \in Slots \ {q} : slot[p].code # 0 => codes'[slot[p].code] = codes[slot[p].code],
         \A c \in DOMAIN codes : codes'[c].granted <= 1 /\ (codes'[c].there => codes'[c].granted = 0),
         \/ x.flow \in {0, slot[q].flow}
         \/ (\A p \in Slots : slot[p].flow # x.flow) /\ \A c \in DOMAIN codes : codes[c].flow # x.flow,
         x.code \in {0, slot[q].code} \/ \A p \in Slots : slot[p].code # x.code,
         \A p \in Slots \ {q} : x.pc \in Unlinking /\ slot[p].pc \in Unlinking => Caller(p) # logins[x.ses].user
  PROVE  IdentityInv'
<1>1. slot'[q] = x /\ \A p \in Slots \ {q} : slot'[p] = slot[p]
  BY DEF IdentityInv, IdentityTyped
<1>2. SlotsFit'
  <2>1. ASSUME NEW p \in Slots \ {q} PROVE Shaped(slot[p])' /\ Relates(slot[p])'
    BY <1>1, OthersFit
  <2>2. Shaped(slot[q])' /\ Relates(slot[q])'
    BY <1>1 DEF Shaped, Relates
  <2> QED BY <2>1, <2>2 DEF SlotsFit
<1>3. CodesFit'
  <2>1. ASSUME NEW c \in DOMAIN codes PROVE CodeFits(codes[c])'
    BY OldCodesFit
  <2> QED BY <2>1 DEF CodesFit
<1>4. FlowsOnce'
  <2>1. \A c \in DOMAIN codes : codes'[c].flow = codes[c].flow /\ codes[c].flow # 0
    BY Domains DEF Grows, IdentityInv, CodesFit, CodeFits
  <2> QED BY <1>1, <2>1 DEF IdentityInv, FlowsOnce
<1>5. CodesOnce'
  BY <1>1 DEF IdentityInv, CodesOnce
<1>6. OneUnlinks'
  <2>1. ASSUME NEW p \in Slots \ {q}, slot[p].pc \in Unlinking PROVE Caller(p)' = Caller(p)
    <3>1. slot[p].ses \in DOMAIN logins
      BY <2>1, SlotFacts DEF Shaped, Relates, Unlinking
    <3> QED BY <1>1, <3>1 DEF Caller, Grows
  <2>2. x.pc \in Unlinking => Caller(q)' = logins[x.ses].user
    <3>1. x.pc \in Unlinking => x.ses \in DOMAIN logins
      <4>1. x.pc \in Unlinking => x.ses # 0
        BY DEF Shaped, Unlinking
      <4>2. x.ses \in {0} \cup DOMAIN logins'
        BY DEF Relates
      <4> QED BY <4>1, <4>2
    <3> QED BY <1>1, <3>1 DEF Caller, Grows
  <2>3. ASSUME NEW p \in Slots, NEW r \in Slots, slot'[p].pc \in Unlinking, slot'[r].pc \in Unlinking,
               Caller(p)' = Caller(r)'
        PROVE  p = r
    BY <1>1, <2>1, <2>2, <2>3 DEF IdentityInv, OneUnlinks
  <2> QED BY <2>3 DEF OneUnlinks
<1>7. Owned' /\ LoginsFit'
  BY OldOwned, OldLoginsFit DEF Owned, LoginsFit
<1> QED BY <1>2, <1>3, <1>4, <1>5, <1>6, <1>7 DEF IdentityInv

\* A step of slot q, which becomes x, that takes no method either.
LEMMA SlotStep ==
  ASSUME IdentityInv, Grows, IdentityTyped', NEW q \in Slots, NEW x \in SlotRow, slot' = [slot EXCEPT ![q] = x],
         Shaped(x), Relates(x)', UNCHANGED <<known>>, DOMAIN accounts' = DOMAIN accounts,
         DOMAIN logins' = DOMAIN logins, DOMAIN codes' = DOMAIN codes,
         \A u \in known \ dropped' : Methods(u) \subseteq Methods(u)',
         \A p \in Slots \ {q} : slot[p].flow # 0 => flows'[slot[p].flow].ses = flows[slot[p].flow].ses,
         \A p \in Slots \ {q} : slot[p].code # 0 => codes'[slot[p].code] = codes[slot[p].code],
         \A c \in DOMAIN codes : codes'[c].granted <= 1 /\ (codes'[c].there => codes'[c].granted = 0),
         \/ x.flow \in {0, slot[q].flow}
         \/ (\A p \in Slots : slot[p].flow # x.flow) /\ \A c \in DOMAIN codes : codes[c].flow # x.flow,
         x.code \in {0, slot[q].code} \/ \A p \in Slots : slot[p].code # x.code,
         \A p \in Slots \ {q} : x.pc \in Unlinking /\ slot[p].pc \in Unlinking => Caller(p) # logins[x.ses].user
  PROVE  IdentityInv'
<1>1. KeepsAMethod'
  BY DEF IdentityInv, KeepsAMethod, Grows
<1> QED BY <1>1, SlotMoves

LEMMA SlotTyped ==
  ASSUME IdentityInv, NEW q \in Slots, NEW x \in SlotRow, slot' = [slot EXCEPT ![q] = x]
  PROVE  slot' \in [Slots -> SlotRow]
BY DEF IdentityInv, IdentityTyped

LEMMA OnlySlot ==
  ASSUME IdentityInv, NEW q \in Slots, NEW x \in SlotRow, slot' = [slot EXCEPT ![q] = x],
         UNCHANGED <<known, passwords, accounts, logins, tickets, flows, holds, codes, cookie, jar, proven, dropped>>,
         Shaped(x), Relates(x), x.flow \in {0, slot[q].flow}, x.code \in {0, slot[q].code},
         \A p \in Slots \ {q} : x.pc \in Unlinking /\ slot[p].pc \in Unlinking => Caller(p) # logins[x.ses].user
  PROVE  IdentityInv'
<1>1. IdentityTyped'
  BY SlotTyped DEF IdentityInv, IdentityTyped
<1>2. Grows
  BY DEF Grows, Guarded, Rows, Held
<1>3. Relates(x)'
  BY DEF Relates, Guarded, Rows, Held, Methods, RowsOf
<1>4. \A u : Methods(u) \subseteq Methods(u)'
  BY DEF Methods, RowsOf, Rows
<1>5. \A c \in DOMAIN codes : codes'[c].granted <= 1 /\ (codes'[c].there => codes'[c].granted = 0)
  BY DEF IdentityInv, CodesFit, CodeFits
<1> QED BY <1>1, <1>2, <1>3, <1>4, <1>5, SlotStep

LEMMA EmptyFits ==
  ASSUME IdentityInv
  PROVE  Empty \in SlotRow /\ Shaped(Empty) /\ Relates(Empty) /\ Empty.pc = "idle" /\ Empty.flow = 0 /\ Empty.code = 0
<1>1. Empty \in SlotRow
  BY DEF Empty, SlotRow, SlotPcs
<1>2. Shaped(Empty) /\ Relates(Empty)
  BY DEF Empty, Shaped, Relates, Completing
<1> QED BY <1>1, <1>2 DEF Empty

LEMMA FindLinkedInv == ASSUME IdentityInv, NEW q \in Slots, FindLinked(q) PROVE IdentityInv'
<1> DEFINE f == slot[q].flow
<1>1. /\ slot[q] \in SlotRow /\ Shaped(slot[q]) /\ Relates(slot[q]) /\ slot[q].pc = "linked"
      /\ f \in DOMAIN flows /\ flows[f].ses # 0 /\ slot[q].code = 0 /\ ~slot[q].ok
  BY SlotFacts DEF FindLinked, InSlot, Shaped, Relates, Completing
<1>2. CASE \E r \in Completable(f) :
             /\ LiveLogin(flows[f].ses)
             /\ Set(q, [slot[q] EXCEPT !.ses = flows[f].ses, !.row = IF r > flows[f].rows THEN r ELSE 0,
                                       !.pc = IF r > flows[f].rows THEN "hold" ELSE "code"])
  <2>1. PICK r \in Completable(f) :
             /\ LiveLogin(flows[f].ses)
             /\ Set(q, [slot[q] EXCEPT !.ses = flows[f].ses, !.row = IF r > flows[f].rows THEN r ELSE 0,
                                       !.pc = IF r > flows[f].rows THEN "hold" ELSE "code"])
    BY <1>2
  <2>2. r \in DOMAIN accounts /\ flows[f].ses \in DOMAIN logins /\ r # 0 /\ r \in Nat /\ flows[f].ses \in Nat
    BY <2>1, Domains DEF Completable, RowsOf, Rows, LiveLogin, IdentityInv
  <2>3. PICK x : x = [slot[q] EXCEPT !.ses = flows[f].ses, !.row = IF r > flows[f].rows THEN r ELSE 0,
                                     !.pc = IF r > flows[f].rows THEN "hold" ELSE "code"]
    OBVIOUS
  <2>4. /\ x.ses = flows[f].ses /\ x.flow = f /\ x.code = 0 /\ ~x.ok /\ x.rows = slot[q].rows
        /\ (x.pc = "hold" /\ x.row = r) \/ (x.pc = "code" /\ x.row = 0)
    BY <1>1, <2>3 DEF SlotRow
  <2>5. x \in SlotRow
    BY <1>1, <2>2, <2>3 DEF SlotRow, SlotPcs
  <2>6. Shaped(x) /\ Relates(x)
    BY <1>1, <2>2, <2>4 DEF Shaped, Relates, Completing
  <2>7. x.pc \notin Unlinking
    BY <2>4 DEF Unlinking
  <2> QED BY <2>1, <2>3, <2>4, <2>5, <2>6, <2>7, OnlySlot DEF FindLinked, Set
<1>3. CASE Next_(q, "refused")
  <2>1. PICK x : x = [slot[q] EXCEPT !.pc = "refused"]
    OBVIOUS
  <2>2. x \in SlotRow /\ Shaped(x) /\ Relates(x) /\ x.pc \notin Unlinking /\ x.flow = f /\ x.code = 0
    BY <1>1, <2>1 DEF SlotRow, SlotPcs, Shaped, Relates, Completing, Unlinking
  <2> QED BY <1>3, <2>1, <2>2, OnlySlot DEF FindLinked, Next_, Set
<1> QED BY <1>2, <1>3 DEF FindLinked

LEMMA WhoSignedInInv == ASSUME IdentityInv, NEW q \in Slots, WhoSignedIn(q) PROVE IdentityInv'
<1> DEFINE s == jar[Browser(q)]
<1>1. /\ slot[q] \in SlotRow /\ Shaped(slot[q]) /\ Relates(slot[q]) /\ slot[q].pc = "who"
      /\ slot[q].flow # 0 /\ slot[q].code = 0 /\ ~slot[q].ok
  BY SlotFacts DEF WhoSignedIn, InSlot, Shaped, Completing
<1>2. CASE Set(q, [slot[q] EXCEPT !.pc = "rows", !.ses = s]) /\ LiveLogin(s)
  <2>1. s \in DOMAIN logins /\ s \in Nat /\ s # 0
    BY <1>2, Domains DEF LiveLogin, IdentityInv
  <2>2. PICK x : x = [slot[q] EXCEPT !.pc = "rows", !.ses = s]
    OBVIOUS
  <2>3. x \in SlotRow /\ Shaped(x) /\ Relates(x) /\ x.pc \notin Unlinking /\ x.flow = slot[q].flow /\ x.code = 0
    <3>1. /\ x \in SlotRow /\ x.pc = "rows" /\ x.ses = s /\ x.flow = slot[q].flow /\ x.code = 0 /\ ~x.ok
          /\ x.row = slot[q].row /\ x.rows = slot[q].rows
      BY <1>1, <2>1, <2>2 DEF SlotRow, SlotPcs
    <3> QED BY <1>1, <2>1, <3>1 DEF Shaped, Relates, Completing, Unlinking
  <2> QED BY <1>2, <2>2, <2>3, OnlySlot DEF WhoSignedIn, Set
<1>3. CASE Next_(q, "refused")
  <2>1. PICK x : x = [slot[q] EXCEPT !.pc = "refused"]
    OBVIOUS
  <2>2. x \in SlotRow /\ Shaped(x) /\ Relates(x) /\ x.pc \notin Unlinking /\ x.flow = slot[q].flow /\ x.code = 0
    BY <1>1, <2>1 DEF SlotRow, SlotPcs, Shaped, Relates, Completing, Unlinking
  <2> QED BY <1>3, <2>1, <2>2, OnlySlot DEF WhoSignedIn, Next_, Set
<1> QED BY <1>2, <1>3 DEF WhoSignedIn

LEMMA ListRowsInv == ASSUME IdentityInv, NEW q \in Slots, ListRows(q) PROVE IdentityInv'
<1>1. /\ slot[q] \in SlotRow /\ Shaped(slot[q]) /\ Relates(slot[q]) /\ slot[q].pc = "rows"
      /\ slot[q].flow # 0 /\ slot[q].code = 0 /\ ~slot[q].ok /\ slot[q].ses \in DOMAIN logins /\ slot[q].ses # 0
  BY SlotFacts DEF ListRows, InSlot, Shaped, Relates, Completing
<1>2. PICK R : R = RowsOf(logins[slot[q].ses].user)
  OBVIOUS
<1>3. R \subseteq DOMAIN accounts /\ R \in SUBSET Nat
  BY <1>2, Domains DEF RowsOf, Rows, IdentityInv
<1>4. PICK x : x = [slot[q] EXCEPT !.rows = R, !.pc = "holds"]
  OBVIOUS
<1>5. /\ x \in SlotRow /\ x.pc = "holds" /\ x.ses = slot[q].ses /\ x.flow = slot[q].flow /\ x.code = 0 /\ ~x.ok
      /\ x.row = slot[q].row /\ x.rows = R
  BY <1>1, <1>3, <1>4 DEF SlotRow, SlotPcs
<1>6. logins[x.ses].held /\ logins[x.ses].via \in Rows => logins[x.ses].via \in R
  BY <1>1, <1>2, <1>5 DEF RowsOf, IdentityInv, LoginsFit, LoginFits
<1>7. Shaped(x) /\ Relates(x) /\ x.pc \notin Unlinking
  BY <1>1, <1>3, <1>5, <1>6 DEF Shaped, Relates, Completing, Unlinking
<1> QED BY <1>2, <1>4, <1>5, <1>7, OnlySlot DEF ListRows, Set

LEMMA HeldLinksInv == ASSUME IdentityInv, NEW q \in Slots, HeldLinks(q) PROVE IdentityInv'
<1>1. /\ slot[q] \in SlotRow /\ Shaped(slot[q]) /\ Relates(slot[q]) /\ slot[q].pc = "holds"
      /\ slot[q].flow # 0 /\ slot[q].code = 0 /\ ~slot[q].ok /\ slot[q].ses \in DOMAIN logins /\ slot[q].ses # 0
      /\ slot[q].row \in DOMAIN accounts \cup {0}
  BY SlotFacts DEF HeldLinks, InSlot, Shaped, Relates, Completing
<1>2. CASE Holding(q) = {}
  <2>1. PICK x : x = [slot[q] EXCEPT !.pc = "code"]
    OBVIOUS
  <2>2. /\ x \in SlotRow /\ x.pc = "code" /\ x.ses = slot[q].ses /\ x.flow = slot[q].flow /\ x.code = 0 /\ ~x.ok
        /\ x.row = slot[q].row /\ x.rows = slot[q].rows
    BY <1>1, <2>1 DEF SlotRow, SlotPcs
  <2>3. logins[x.ses].held => logins[x.ses].via \in proven \/ logins[x.ses].via \notin Rows
    BY <1>1, <1>2, <2>2 DEF Relates, Holding, Held, Guarded, IdentityInv, LoginsFit, LoginFits
  <2>4. Shaped(x) /\ Relates(x) /\ x.pc \notin Unlinking
    BY <1>1, <2>2, <2>3 DEF Shaped, Relates, Completing, Unlinking
  <2> QED BY <1>2, <2>1, <2>2, <2>4, OnlySlot DEF HeldLinks, Set
<1>3. CASE Holding(q) # {}
  <2>1. PICK R : R = {h.row : h \in {g \in Holding(q) : g.late}}
    OBVIOUS
  <2>2. R \subseteq DOMAIN accounts /\ R \in SUBSET Nat
    BY <2>1, Domains DEF Holding, IdentityInv, IdentityTyped
  <2>3. PICK x : x = [slot[q] EXCEPT !.rows = R, !.pc = "drop"]
    OBVIOUS
  <2>4. /\ x \in SlotRow /\ x.pc = "drop" /\ x.ses = slot[q].ses /\ x.flow = slot[q].flow /\ x.code = 0 /\ ~x.ok
        /\ x.row = slot[q].row /\ x.rows = R
    BY <1>1, <2>2, <2>3 DEF SlotRow, SlotPcs
  <2>5. Shaped(x) /\ Relates(x) /\ x.pc \notin Unlinking
    BY <1>1, <2>2, <2>4 DEF Shaped, Relates, Completing, Unlinking
  <2> QED BY <1>3, <2>1, <2>3, <2>4, <2>5, OnlySlot DEF HeldLinks, Set
<1> QED BY <1>2, <1>3

LEMMA OnlyAnswered ==
  ASSUME IdentityInv, NEW q \in Slots, Answered(q),
         UNCHANGED <<known, passwords, accounts, logins, tickets, flows, holds, codes, cookie, jar, proven, dropped>>
  PROVE  IdentityInv'
<1>1. PICK x : x = Empty
  OBVIOUS
<1>2. x \in SlotRow /\ Shaped(x) /\ Relates(x) /\ x.pc = "idle" /\ x.flow = 0 /\ x.code = 0
  BY <1>1, EmptyFits
<1> QED BY <1>1, <1>2, OnlySlot DEF Answered, Set, Unlinking

LEMMA NextAbandonedInv == ASSUME IdentityInv, NEW q \in Slots, NextAbandoned(q) PROVE IdentityInv'
<1>1. /\ slot[q] \in SlotRow /\ Shaped(slot[q]) /\ Relates(slot[q]) /\ slot[q].pc = "drop"
      /\ slot[q].flow # 0 /\ slot[q].code = 0 /\ ~slot[q].ok /\ slot[q].ses # 0 /\ slot[q].rows \subseteq DOMAIN accounts
  BY SlotFacts DEF NextAbandoned, InSlot, Shaped, Relates, Completing
<1>2. CASE Next_(q, "refuse")
  <2>1. PICK x : x = [slot[q] EXCEPT !.pc = "refuse"]
    OBVIOUS
  <2>2. /\ x \in SlotRow /\ x.pc = "refuse" /\ x.ses = slot[q].ses /\ x.flow = slot[q].flow /\ x.code = 0 /\ ~x.ok
        /\ x.row = slot[q].row /\ x.rows = slot[q].rows
    BY <1>1, <2>1 DEF SlotRow, SlotPcs
  <2>3. Shaped(x) /\ Relates(x) /\ x.pc \notin Unlinking
    BY <1>1, <2>2 DEF Shaped, Relates, Completing, Unlinking
  <2> QED BY <1>2, <2>1, <2>2, <2>3, OnlySlot DEF NextAbandoned, Next_, Set
<1>3. CASE \E r \in slot[q].rows : Set(q, [slot[q] EXCEPT !.rows = @ \ {r}, !.row = r, !.pc = "dropRow"])
  <2>1. PICK r \in slot[q].rows : Set(q, [slot[q] EXCEPT !.rows = @ \ {r}, !.row = r, !.pc = "dropRow"])
    BY <1>3
  <2>2. r \in DOMAIN accounts /\ r # 0 /\ r \in Nat
    BY <1>1, Domains DEF IdentityInv
  <2>3. PICK x : x = [slot[q] EXCEPT !.rows = @ \ {r}, !.row = r, !.pc = "dropRow"]
    OBVIOUS
  <2>4. /\ x \in SlotRow /\ x.pc = "dropRow" /\ x.ses = slot[q].ses /\ x.flow = slot[q].flow /\ x.code = 0 /\ ~x.ok
        /\ x.row = r /\ x.rows \subseteq slot[q].rows
    BY <1>1, <2>2, <2>3 DEF SlotRow, SlotPcs
  <2>5. Shaped(x) /\ Relates(x) /\ x.pc \notin Unlinking
    BY <1>1, <2>2, <2>4 DEF Shaped, Relates, Completing, Unlinking
  <2> QED BY <2>1, <2>3, <2>4, <2>5, OnlySlot DEF NextAbandoned, Set
<1> QED BY <1>2, <1>3 DEF NextAbandoned

LEMMA UnlinkInv ==
  ASSUME IdentityInv, NEW q \in Slots, NEW s \in DOMAIN logins, NEW m \in {0} \cup DOMAIN accounts, Unlink(q, s, m)
  PROVE  IdentityInv'
<1>1. s # 0 /\ s \in Nat /\ m \in Nat
  BY Domains DEF IdentityInv
<1>2. PICK x : x = [Empty EXCEPT !.pc = "lock", !.ses = s, !.row = m]
  OBVIOUS
<1>3. /\ x \in SlotRow /\ x.pc = "lock" /\ x.ses = s /\ x.flow = 0 /\ x.code = 0 /\ ~x.ok
      /\ x.row = m /\ x.rows = {}
  BY <1>1, <1>2 DEF Empty, SlotRow, SlotPcs
<1>4. Shaped(x) /\ Relates(x) /\ x.pc \notin Unlinking
  BY <1>1, <1>3 DEF Shaped, Relates, Completing, Unlinking
<1>5. slot' = [slot EXCEPT ![q] = x]
  BY <1>2 DEF Unlink, Set
<1> QED BY <1>3, <1>4, <1>5, OnlySlot DEF Unlink

LEMMA LockUserInv == ASSUME IdentityInv, NEW q \in Slots, LockUser(q) PROVE IdentityInv'
<1>1. CASE Answered(q)
  BY <1>1, OnlyAnswered DEF LockUser
<1>2. CASE Next_(q, "methods")
  <2>1. /\ slot[q] \in SlotRow /\ Shaped(slot[q]) /\ Relates(slot[q]) /\ slot[q].pc = "lock" /\ slot[q].ses # 0
    BY SlotFacts DEF LockUser, InSlot, Shaped
  <2>2. PICK x : x = [slot[q] EXCEPT !.pc = "methods"]
    OBVIOUS
  <2>3. /\ x \in SlotRow /\ x.pc = "methods" /\ x.ses = slot[q].ses /\ x.flow = slot[q].flow /\ x.code = slot[q].code
        /\ x.ok = slot[q].ok /\ x.row = slot[q].row /\ x.rows = slot[q].rows
    BY <2>1, <2>2 DEF SlotRow, SlotPcs
  <2>4. Shaped(x)
    BY <2>1, <2>3 DEF Shaped, Completing
  <2>5. Relates(x)
    BY <2>1, <2>3 DEF Relates
  <2>6. \A p \in Slots \ {q} : x.pc \in Unlinking /\ slot[p].pc \in Unlinking => Caller(p) # logins[x.ses].user
    BY <2>3 DEF LockUser, Caller
  <2> QED BY <1>2, <2>2, <2>3, <2>4, <2>5, <2>6, OnlySlot DEF LockUser, Next_, Set
<1> QED BY <1>1, <1>2 DEF LockUser

\* Of two methods, one is another.
LEMMA AnotherOne == ASSUME NEW S, NEW r, Cardinality(S) >= 2 PROVE \E m \in S : m # r
<1> SUFFICES ASSUME \A m \in S : m = r PROVE FALSE
  OBVIOUS
<1>1. Cardinality(S) <= 1
  BY OneOrNone
<1>2. S = {} \/ S = {r}
  OBVIOUS
<1>3. Cardinality(S) \in Nat
  BY <1>2, FS_EmptySet, FS_Singleton
<1> QED BY <1>1, <1>3

LEMMA JudgeRemovalInv == ASSUME IdentityInv, NEW q \in Slots, JudgeRemoval(q) PROVE IdentityInv'
<1>1. CASE Answered(q)
  BY <1>1, OnlyAnswered DEF JudgeRemoval
<1>2. CASE Removable(q) /\ Next_(q, "delete")
  <2>1. /\ slot[q] \in SlotRow /\ Shaped(slot[q]) /\ Relates(slot[q]) /\ slot[q].pc = "methods" /\ slot[q].ses # 0
    BY SlotFacts DEF JudgeRemoval, InSlot, Shaped
  <2>2. PICK x : x = [slot[q] EXCEPT !.pc = "delete"]
    OBVIOUS
  <2>3. /\ x \in SlotRow /\ x.pc = "delete" /\ x.ses = slot[q].ses /\ x.flow = slot[q].flow /\ x.code = slot[q].code
        /\ x.ok = slot[q].ok /\ x.row = slot[q].row /\ x.rows = slot[q].rows
    BY <2>1, <2>2 DEF SlotRow, SlotPcs
  <2>4. Shaped(x)
    BY <2>1, <2>3 DEF Shaped, Completing
  <2>5. \E m \in Methods(Caller(q)) : m # x.row
    BY <1>2, AnotherOne DEF Removable
  <2>6. x.row # 0 => accounts[x.row].user = logins[x.ses].user
    BY <1>2, <2>3 DEF Removable, Methods, RowsOf, Caller
  <2>7. Relates(x)
    BY <2>1, <2>3, <2>5, <2>6 DEF Relates, Caller
  <2>8. \A p \in Slots \ {q} : x.pc \in Unlinking /\ slot[p].pc \in Unlinking => Caller(p) # logins[x.ses].user
    BY <2>1, <2>3 DEF IdentityInv, OneUnlinks, Caller, Unlinking
  <2> QED BY <1>2, <2>2, <2>3, <2>4, <2>7, <2>8, OnlySlot DEF JudgeRemoval, Next_, Set
<1> QED BY <1>1, <1>2 DEF JudgeRemoval

LEMMA Replaced ==
  ASSUME NEW T, NEW s \in Seq(T), NEW i \in DOMAIN s, NEW e \in T
  PROVE  /\ [s EXCEPT ![i] = e] \in Seq(T) /\ DOMAIN [s EXCEPT ![i] = e] = DOMAIN s
         /\ [s EXCEPT ![i] = e][i] = e /\ \A j \in DOMAIN s : j # i => [s EXCEPT ![i] = e][j] = s[j]
BY ExceptSeq

LEMMA OverFlow ==
  ASSUME IdentityTyped, NEW f \in DOMAIN flows
  PROVE  Over(f) \in FlowType /\ ~Over(f).there /\ Over(f).ses = 0
<1>1. flows[f] \in FlowType
  BY Domains
<1>2. PICK y : y = flows[f]
  OBVIOUS
<1> QED BY <1>1, <1>2 DEF Over, FlowType

\* A step that leaves what Grows and the methods depend on.
LEMMA Grown ==
  ASSUME UNCHANGED <<known, dropped, proven, accounts, holds>>,
         DOMAIN logins \subseteq DOMAIN logins',
         \A s \in DOMAIN logins : /\ logins'[s].user = logins[s].user /\ logins'[s].via = logins[s].via
                                  /\ logins'[s].held = logins[s].held,
         DOMAIN flows \subseteq DOMAIN flows', \A f \in DOMAIN flows : flows'[f].there => flows[f].there,
         DOMAIN codes \subseteq DOMAIN codes',
         \A c \in DOMAIN codes : /\ codes'[c].ses = codes[c].ses /\ codes'[c].row = codes[c].row
                                 /\ codes'[c].flow = codes[c].flow
  PROVE  Grows
BY DEF Grows, Guarded, Rows, Held

LEMMA SameMethods ==
  ASSUME UNCHANGED <<accounts, passwords>>
  PROVE  \A u : Methods(u) \subseteq Methods(u)'
BY DEF Methods, RowsOf, Rows

LEMMA OldGrants ==
  ASSUME IdentityInv
  PROVE  \A c \in DOMAIN codes : codes[c].granted <= 1 /\ (codes[c].there => codes[c].granted = 0)
BY DEF IdentityInv, CodesFit, CodeFits

\* The cookies that an answer clears.
LEMMA Cleared ==
  ASSUME IdentityTyped, NEW b, ClearCookies(b)
  PROVE  cookie' \in [Browsers -> {0} \cup DOMAIN flows] /\ jar' \in [Browsers -> {0} \cup DOMAIN logins]
BY DEF ClearCookies, IdentityTyped

LEMMA RefusedInv == ASSUME IdentityInv, NEW q \in Slots, Refused(q) PROVE IdentityInv'
<1> DEFINE f == slot[q].flow
<1>1. f \in DOMAIN flows
  BY SlotFacts DEF Refused, InSlot, Shaped, Relates, Completing
<1>2. PICK x : x = Empty
  OBVIOUS
<1>3. x \in SlotRow /\ Shaped(x) /\ Relates(x) /\ x.pc = "idle" /\ x.flow = 0 /\ x.code = 0
  BY <1>2, EmptyFits
<1>4. PICK y : y = Over(f)
  OBVIOUS
<1>5. y \in FlowType /\ ~y.there /\ y.ses = 0
  BY <1>1, <1>4, OverFlow DEF IdentityInv
<1>6. flows' = [flows EXCEPT ![f] = y]
  BY <1>4 DEF Refused, Close_
<1>7. flows' \in Seq(FlowType) /\ DOMAIN flows' = DOMAIN flows /\ flows'[f] = y /\ \A g \in DOMAIN flows : g # f => flows'[g] = flows[g]
  BY <1>1, <1>5, <1>6, Replaced DEF IdentityInv, IdentityTyped
<1>8. slot' = [slot EXCEPT ![q] = x]
  BY <1>2 DEF Refused, Answered, Set
<1>9. IdentityTyped'
  BY <1>3, <1>7, <1>8, SlotTyped, Cleared DEF Refused, IdentityInv, IdentityTyped
<1>10. Grows
  BY <1>5, <1>7, Grown DEF Refused
<1>11. Relates(x)'
  <2>1. x.row = 0 /\ x.rows = {} /\ x.ses = 0
    BY <1>2 DEF Empty
  <2> QED BY <1>3, <2>1 DEF Relates
<1>12. \A p \in Slots \ {q} : slot[p].flow # 0 => flows'[slot[p].flow].ses = flows[slot[p].flow].ses
  <2>1. ASSUME NEW p \in Slots \ {q}, slot[p].flow # 0 PROVE slot[p].flow \in DOMAIN flows /\ slot[p].flow # f
    BY <1>1, <2>1, SlotFacts DEF Relates, IdentityInv, FlowsOnce
  <2> QED BY <1>7, <2>1
<1>13. \A u : Methods(u) \subseteq Methods(u)'
  BY SameMethods DEF Refused
<1>14. UNCHANGED <<known, accounts, logins, codes>>
  BY DEF Refused
<1> QED BY <1>3, <1>8, <1>9, <1>10, <1>11, <1>12, <1>13, <1>14, OldGrants, SlotStep DEF Unlinking

LEMMA HoldLinkInv == ASSUME IdentityInv, NEW q \in Slots, HoldLink(q) PROVE IdentityInv'
<1>1. /\ slot[q] \in SlotRow /\ Shaped(slot[q]) /\ Relates(slot[q]) /\ slot[q].pc = "hold" /\ slot[q].ses # 0
      /\ slot[q].flow \in DOMAIN flows /\ slot[q].code = 0 /\ ~slot[q].ok /\ slot[q].row \in DOMAIN accounts
      /\ flows[slot[q].flow].ses # 0
  BY SlotFacts DEF HoldLink, InSlot, Shaped, Relates, Completing
<1>2. PICK x : x = [slot[q] EXCEPT !.pc = "code"]
  OBVIOUS
<1>3. /\ x \in SlotRow /\ x.pc = "code" /\ x.ses = slot[q].ses /\ x.flow = slot[q].flow /\ x.code = 0 /\ ~x.ok
      /\ x.row = slot[q].row /\ x.rows = slot[q].rows
  BY <1>1, <1>2 DEF SlotRow, SlotPcs
<1>4. slot' = [slot EXCEPT ![q] = x]
  BY <1>2 DEF HoldLink, Next_, Set
<1>5. PICK h : h = [row |-> slot[q].row, by |-> slot[q].flow, late |-> FALSE]
  OBVIOUS
<1>6. h \in [row : DOMAIN accounts, by : DOMAIN flows, late : BOOLEAN] /\ h.row = slot[q].row
  BY <1>1, <1>5
<1>7. holds' = holds \cup {h}
  BY <1>5 DEF HoldLink
<1>8. IdentityTyped'
  BY <1>3, <1>4, <1>6, <1>7, SlotTyped DEF HoldLink, IdentityInv, IdentityTyped
<1>9. \A r : Guarded(r) => Guarded(r)'
  BY <1>7 DEF HoldLink, Guarded, Rows, Held
<1>10. Grows
  BY <1>9 DEF HoldLink, Grows
<1>11. Shaped(x)
  BY <1>1, <1>3 DEF Shaped, Completing
<1>12. Relates(x)'
  <2>1. Held(x.row)'
    BY <1>3, <1>6, <1>7 DEF Held
  <2>2. UNCHANGED <<accounts, logins, flows, codes, proven, dropped>>
    BY DEF HoldLink
  <2> QED BY <1>1, <1>3, <2>1, <2>2 DEF Relates, Guarded, Held
<1>13. \A u : Methods(u) \subseteq Methods(u)'
  BY SameMethods DEF HoldLink
<1> QED BY <1>3, <1>4, <1>8, <1>10, <1>11, <1>12, <1>13, OldGrants, SlotStep DEF HoldLink, Unlinking

\* A session ends.
LEMMA Ended ==
  ASSUME IdentityTyped, NEW s \in DOMAIN logins, logins' = [logins EXCEPT ![s].live = FALSE]
  PROVE  /\ logins' \in Seq(LoginRow) /\ DOMAIN logins' = DOMAIN logins
         /\ \A t \in DOMAIN logins : /\ logins'[t].user = logins[t].user /\ logins'[t].via = logins[t].via
                                     /\ logins'[t].held = logins[t].held
<1>1. logins \in Seq(LoginRow) /\ logins[s] \in LoginRow
  BY Domains DEF IdentityTyped
<1>2. PICK e : e = [logins[s] EXCEPT !.live = FALSE]
  OBVIOUS
<1>3. e \in LoginRow /\ e.user = logins[s].user /\ e.via = logins[s].via /\ e.held = logins[s].held
  BY <1>1, <1>2 DEF LoginRow
<1>4. logins' = [logins EXCEPT ![s] = e]
  BY <1>2
<1>5. /\ logins' \in Seq(LoginRow) /\ DOMAIN logins' = DOMAIN logins
      /\ logins'[s] = e /\ \A t \in DOMAIN logins : t # s => logins'[t] = logins[t]
  <2> DEFINE l == [logins EXCEPT ![s] = e]
  <2>1. /\ l \in Seq(LoginRow) /\ DOMAIN l = DOMAIN logins
        /\ l[s] = e /\ \A t \in DOMAIN logins : t # s => l[t] = logins[t]
    BY <1>1, <1>3, Replaced
  <2>2. logins' = l
    BY <1>4
  <2> HIDE DEF l
  <2> QED BY <2>1, <2>2
<1> QED BY <1>3, <1>5

LEMMA RefuseHeldInv == ASSUME IdentityInv, NEW q \in Slots, RefuseHeld(q) PROVE IdentityInv'
<1>1. /\ slot[q] \in SlotRow /\ Shaped(slot[q]) /\ Relates(slot[q]) /\ slot[q].pc = "refuse" /\ slot[q].ses \in DOMAIN logins
      /\ slot[q].flow \in DOMAIN flows /\ slot[q].code = 0 /\ ~slot[q].ok
  BY SlotFacts DEF RefuseHeld, InSlot, Shaped, Relates, Completing
<1>2. PICK x : x = [slot[q] EXCEPT !.pc = "refused"]
  OBVIOUS
<1>3. /\ x \in SlotRow /\ x.pc = "refused" /\ x.ses = slot[q].ses /\ x.flow = slot[q].flow /\ x.code = 0 /\ ~x.ok
      /\ x.row = slot[q].row /\ x.rows = slot[q].rows
  BY <1>1, <1>2 DEF SlotRow, SlotPcs
<1>4. slot' = [slot EXCEPT ![q] = x]
  BY <1>2 DEF RefuseHeld, Next_, Set
<1>5. /\ logins' \in Seq(LoginRow) /\ DOMAIN logins' = DOMAIN logins
      /\ \A t \in DOMAIN logins : /\ logins'[t].user = logins[t].user /\ logins'[t].via = logins[t].via
                                  /\ logins'[t].held = logins[t].held
  BY <1>1, Ended DEF RefuseHeld, IdentityInv
<1>6. IdentityTyped'
  BY <1>3, <1>4, <1>5, SlotTyped DEF RefuseHeld, IdentityInv, IdentityTyped
<1>7. Grows
  BY <1>5, Grown DEF RefuseHeld
<1>8. Shaped(x)
  BY <1>1, <1>3 DEF Shaped, Completing
<1>9. Relates(x)'
  <2>1. UNCHANGED <<accounts, flows, codes, proven, dropped>> /\ DOMAIN logins' = DOMAIN logins
    BY <1>5 DEF RefuseHeld
  <2> QED BY <1>1, <1>3, <2>1 DEF Relates
<1>10. \A u : Methods(u) \subseteq Methods(u)'
  BY SameMethods DEF RefuseHeld
<1> QED BY <1>3, <1>4, <1>5, <1>6, <1>7, <1>8, <1>9, <1>10, OldGrants, SlotStep DEF RefuseHeld, Unlinking

\* Slot q stays idle.
LEMMA Idles ==
  ASSUME IdentityInv, NEW q \in Slots, Idle(q), UNCHANGED slot
  PROVE  \E x \in SlotRow : /\ x = slot[q] /\ slot' = [slot EXCEPT ![q] = x] /\ x.pc = "idle" /\ Shaped(x) /\ Relates(x)
<1>1. slot[q] \in SlotRow /\ Shaped(slot[q]) /\ Relates(slot[q]) /\ slot[q].pc = "idle"
  BY SlotFacts DEF Idle, InSlot
<1>2. slot' = [slot EXCEPT ![q] = slot[q]]
  BY DEF IdentityInv, IdentityTyped
<1> QED BY <1>1, <1>2

\* Nobody else has a flow whose row is there.
LEMMA FreeFlow ==
  ASSUME IdentityInv, NEW f \in DOMAIN flows, flows[f].there
  PROVE  (\A p \in Slots : slot[p].flow # f) /\ \A c \in DOMAIN codes : codes[c].flow # f
<1>1. f # 0
  BY Domains DEF IdentityInv
<1>2. ASSUME NEW p \in Slots PROVE slot[p].flow # f
  BY <1>1, SlotFacts DEF Relates
<1>3. ASSUME NEW c \in DOMAIN codes PROVE codes[c].flow # f
  BY DEF IdentityInv, CodesFit, CodeFits
<1> QED BY <1>2, <1>3

LEMMA TakeFlowInv ==
  ASSUME IdentityInv, NEW q \in Slots, NEW f \in DOMAIN flows, NEW expired \in BOOLEAN, TakeFlow(q, f, expired)
  PROVE  IdentityInv'
<1>1. \A u : Methods(u) \subseteq Methods(u)'
  BY SameMethods DEF TakeFlow
<1>2. f # 0 /\ f \in Nat /\ flows[f] \in FlowType /\ flows \in Seq(FlowType)
  BY Domains DEF IdentityInv, IdentityTyped
<1>3. CASE flows[f].there /\ ~expired /\ cookie[flows[f].browser] = f
  <2>1. PICK y : y = [flows[f] EXCEPT !.there = FALSE]
    OBVIOUS
  <2>2. y \in FlowType /\ ~y.there /\ y.ses = flows[f].ses
    BY <1>2, <2>1 DEF FlowType
  <2>3. flows' = [flows EXCEPT ![f] = y]
    BY <1>3, <2>1 DEF TakeFlow
  <2>4. flows' \in Seq(FlowType) /\ DOMAIN flows' = DOMAIN flows /\ flows'[f] = y
        /\ \A g \in DOMAIN flows : g # f => flows'[g] = flows[g]
    BY <1>2, <2>2, <2>3, Replaced
  <2>5. PICK x : x = [Empty EXCEPT !.flow = f, !.pc = Branch(f)]
    OBVIOUS
  <2>6. Branch(f) \in {"refused", "linked", "who"} /\ (Branch(f) = "linked" => flows[f].ses # 0)
    BY DEF Branch
  <2>7. x \in SlotRow /\ x.pc \in {"refused", "linked", "who"} /\ (x.pc = "linked" => flows[f].ses # 0)
        /\ x.flow = f /\ x.row = 0 /\ x.rows = {} /\ x.ses = 0 /\ x.code = 0 /\ ~x.ok
    BY <1>2, <2>5, <2>6 DEF Empty, SlotRow, SlotPcs
  <2>8. slot' = [slot EXCEPT ![q] = x]
    BY <1>3, <2>5 DEF TakeFlow, Set
  <2>9. IdentityTyped'
    BY <1>3, <2>4, <2>7, <2>8, SlotTyped DEF TakeFlow, IdentityInv, IdentityTyped
  <2>10. Grows
    BY <2>2, <2>4, Grown DEF TakeFlow
  <2>11. Shaped(x) /\ x.pc \notin Unlinking
    BY <1>2, <2>7 DEF Shaped, Completing, Unlinking
  <2>12. Relates(x)'
    BY <2>2, <2>4, <2>7 DEF Relates
  <2>13. UNCHANGED <<known, accounts, logins, codes>>
    BY DEF TakeFlow
  <2>14. (\A p \in Slots : slot[p].flow # x.flow) /\ \A c \in DOMAIN codes : codes[c].flow # x.flow
    BY <1>3, <2>7, FreeFlow
  <2>15. \A p \in Slots \ {q} : slot[p].flow # 0 => flows'[slot[p].flow].ses = flows[slot[p].flow].ses
    BY <2>4, <2>7, <2>14, SlotFacts DEF Relates
  <2> QED BY <1>1, <2>7, <2>8, <2>9, <2>10, <2>11, <2>12, <2>13, <2>14, <2>15, OldGrants, SlotStep
<1>4. CASE ~(flows[f].there /\ ~expired /\ cookie[flows[f].browser] = f)
  <2>1. ClearCookies(flows[f].browser) /\ UNCHANGED slot /\ Idle(q)
    BY <1>4 DEF TakeFlow
  <2>2. PICK x \in SlotRow : x = slot[q] /\ slot' = [slot EXCEPT ![q] = x] /\ x.pc = "idle" /\ Shaped(x) /\ Relates(x)
    BY <2>1, Idles
  <2>3. UNCHANGED <<known, passwords, accounts, logins, tickets, holds, codes, proven, dropped>>
    BY DEF TakeFlow
  <2>4. /\ flows' \in Seq(FlowType) /\ DOMAIN flows' = DOMAIN flows
        /\ \A g \in DOMAIN flows : flows'[g].there => flows[g].there
        /\ \A p \in Slots : slot[p].flow # 0 => flows'[slot[p].flow].ses = flows[slot[p].flow].ses
    <3>1. CASE flows[f].there
      <4>1. PICK y : y = Over(f)
        OBVIOUS
      <4>2. y \in FlowType /\ ~y.there
        BY <4>1, OverFlow DEF IdentityInv
      <4>3. flows' = [flows EXCEPT ![f] = y]
        BY <1>4, <3>1, <4>1 DEF TakeFlow
      <4>4. flows' \in Seq(FlowType) /\ DOMAIN flows' = DOMAIN flows /\ flows'[f] = y
            /\ \A g \in DOMAIN flows : g # f => flows'[g] = flows[g]
        BY <1>2, <4>2, <4>3, Replaced
      <4>5. \A p \in Slots : slot[p].flow # f /\ (slot[p].flow # 0 => slot[p].flow \in DOMAIN flows)
        BY <3>1, FreeFlow, SlotFacts DEF Relates
      <4> QED BY <4>2, <4>4, <4>5
    <3>2. CASE ~flows[f].there
      BY <1>2, <1>4, <3>2 DEF TakeFlow
    <3> QED BY <3>1, <3>2
  <2>5. IdentityTyped'
    BY <2>1, <2>3, <2>4, Cleared DEF IdentityInv, IdentityTyped
  <2>6. Grows
    BY <2>3, <2>4, Grown
  <2>7. Relates(x)'
    BY <2>2, <2>3, <2>4 DEF Relates
  <2> QED BY <1>1, <2>2, <2>3, <2>4, <2>5, <2>6, <2>7, OldGrants, SlotStep DEF Unlinking
<1> QED BY <1>3, <1>4

\* A code is changed, and remains of its session, row and flow.
LEMMA CodeChanged ==
  ASSUME IdentityTyped, NEW c \in DOMAIN codes, NEW y \in Code, codes' = [codes EXCEPT ![c] = y],
         y.ses = codes[c].ses, y.row = codes[c].row, y.flow = codes[c].flow
  PROVE  /\ codes' \in Seq(Code) /\ DOMAIN codes' = DOMAIN codes /\ codes'[c] = y
         /\ \A d \in DOMAIN codes : d # c => codes'[d] = codes[d]
         /\ \A d \in DOMAIN codes : /\ codes'[d].ses = codes[d].ses /\ codes'[d].row = codes[d].row
                                    /\ codes'[d].flow = codes[d].flow
<1>1. codes' \in Seq(Code) /\ DOMAIN codes' = DOMAIN codes /\ codes'[c] = y
      /\ \A d \in DOMAIN codes : d # c => codes'[d] = codes[d]
  BY Replaced DEF IdentityTyped
<1> QED BY <1>1

LEMMA RedeemInv ==
  ASSUME IdentityInv, NEW q \in Slots, NEW c \in DOMAIN codes, NEW verified \in BOOLEAN, NEW expired \in BOOLEAN,
         Redeem(q, c, verified, expired)
  PROVE  IdentityInv'
<1>1. PICK y : y = [codes[c] EXCEPT !.there = FALSE]
  OBVIOUS
<1>2. codes[c] \in Code /\ CodeFits(codes[c]) /\ c # 0 /\ c \in Nat
  BY Domains DEF IdentityInv, CodesFit
<1>3. y \in Code /\ ~y.there /\ y.granted = 0 /\ y.ses = codes[c].ses /\ y.row = codes[c].row /\ y.flow = codes[c].flow
  BY <1>1, <1>2 DEF Code, CodeFits, Redeem
<1>4. codes' = [codes EXCEPT ![c] = y]
  BY <1>1 DEF Redeem
<1>5. /\ codes' \in Seq(Code) /\ DOMAIN codes' = DOMAIN codes /\ codes'[c] = y
      /\ \A d \in DOMAIN codes : d # c => codes'[d] = codes[d]
      /\ \A d \in DOMAIN codes : /\ codes'[d].ses = codes[d].ses /\ codes'[d].row = codes[d].row
                                 /\ codes'[d].flow = codes[d].flow
  BY <1>3, <1>4, CodeChanged DEF IdentityInv
<1>6. UNCHANGED <<known, passwords, accounts, logins, tickets, flows, holds, cookie, jar, proven, dropped>>
  BY DEF Redeem
<1>7. Grows
  BY <1>5, <1>6, Grown
<1>8. \A u : Methods(u) \subseteq Methods(u)'
  BY <1>6, SameMethods
<1>9. \A d \in DOMAIN codes : codes'[d].granted <= 1 /\ (codes'[d].there => codes'[d].granted = 0)
  <2>1. ASSUME NEW d \in DOMAIN codes PROVE codes'[d].granted <= 1 /\ (codes'[d].there => codes'[d].granted = 0)
    BY <1>3, <1>5, OldGrants
  <2> QED BY <2>1
<1>10. \A p \in Slots : slot[p].code # c
  BY <1>2, SlotFacts DEF Relates, Redeem
<1>11. \A p \in Slots : slot[p].code # 0 => codes'[slot[p].code] = codes[slot[p].code]
  BY <1>5, <1>10, SlotFacts DEF Relates
<1>12. CASE UNCHANGED slot
  <2>1. PICK x \in SlotRow : x = slot[q] /\ slot' = [slot EXCEPT ![q] = x] /\ x.pc = "idle" /\ Shaped(x) /\ Relates(x)
    BY <1>12, Idles DEF Redeem
  <2>2. IdentityTyped'
    BY <1>5, <1>6, <1>12 DEF IdentityInv, IdentityTyped
  <2>3. Relates(x)'
    BY <1>5, <1>6, <1>11, <2>1 DEF Relates
  <2> QED BY <1>5, <1>6, <1>7, <1>8, <1>9, <1>11, <2>1, <2>2, <2>3, SlotStep DEF Unlinking
<1>13. CASE Set(q, [Empty EXCEPT !.code = c, !.ok = verified, !.row = codes[c].row, !.ses = codes[c].ses,
                !.pc = IF codes[c].row = 0 THEN "grant" ELSE IF verified THEN "release" ELSE "dropRow"])
            /\ ~(~verified /\ codes[c].row = 0)
  <2>1. PICK x : x = [Empty EXCEPT !.code = c, !.ok = verified, !.row = codes[c].row, !.ses = codes[c].ses,
                !.pc = IF codes[c].row = 0 THEN "grant" ELSE IF verified THEN "release" ELSE "dropRow"]
    OBVIOUS
  <2>2. codes[c].row \in Nat /\ codes[c].ses \in Nat
    BY <1>2 DEF Code
  <2>3. x \in SlotRow /\ x.flow = 0 /\ x.code = c /\ x.ok = verified /\ x.row = codes[c].row /\ x.rows = {}
        /\ x.ses = codes[c].ses
    BY <1>2, <2>1, <2>2 DEF Empty, SlotRow, SlotPcs
  <2>4. \/ x.pc = "grant"
        \/ x.pc = "release" /\ x.row # 0 /\ x.ok
        \/ x.pc = "dropRow" /\ x.row # 0 /\ ~x.ok
    BY <1>13, <2>1 DEF Empty
  <2>5. slot' = [slot EXCEPT ![q] = x]
    BY <1>13, <2>1 DEF Set
  <2>6. IdentityTyped'
    BY <1>5, <1>6, <2>3, <2>5, SlotTyped DEF IdentityInv, IdentityTyped
  <2>7. x.ses \in DOMAIN logins /\ x.ses # 0 /\ x.row \in {0} \cup DOMAIN accounts
    BY <1>2, <2>3, Domains DEF CodeFits, IdentityInv
  <2>8. Shaped(x) /\ x.pc \notin Unlinking
    BY <1>2, <2>3, <2>4, <2>7 DEF Shaped, Completing, Unlinking
  <2>9. Relates(x)'
    BY <1>3, <1>5, <1>6, <2>3, <2>4, <2>7 DEF Relates
  <2> QED BY <1>5, <1>6, <1>7, <1>8, <1>9, <1>10, <1>11, <2>3, <2>5, <2>6, <2>8, <2>9, SlotStep
<1> QED BY <1>12, <1>13 DEF Redeem

LEMMA SessionGrantInv == ASSUME IdentityInv, NEW q \in Slots, SessionGrant(q) PROVE IdentityInv'
<1> DEFINE c == slot[q].code
<1>1. c \in DOMAIN codes /\ c # 0 /\ ~codes[c].there /\ codes[c].granted = 0
  BY SlotFacts DEF SessionGrant, InSlot, Shaped, Relates
<1>2. PICK x : x = Empty
  OBVIOUS
<1>3. x \in SlotRow /\ Shaped(x) /\ Relates(x) /\ x.pc = "idle" /\ x.flow = 0 /\ x.code = 0 /\ slot' = [slot EXCEPT ![q] = x]
  BY <1>2, EmptyFits DEF SessionGrant, Answered, Set
<1>4. x.row = 0 /\ x.rows = {} /\ x.ses = 0
  BY <1>2 DEF Empty
<1>5. /\ codes' \in Seq(Code) /\ DOMAIN codes' = DOMAIN codes
      /\ \A d \in DOMAIN codes : d # c => codes'[d] = codes[d]
      /\ \A d \in DOMAIN codes : /\ codes'[d].ses = codes[d].ses /\ codes'[d].row = codes[d].row
                                 /\ codes'[d].flow = codes[d].flow
      /\ \A d \in DOMAIN codes : codes'[d].granted <= 1 /\ (codes'[d].there => codes'[d].granted = 0)
  <2>1. CASE UNCHANGED codes
    BY <2>1, OldGrants DEF IdentityInv, IdentityTyped
  <2>2. CASE codes' = [codes EXCEPT ![c].granted = @ + 1]
    <3>1. PICK y : y = [codes[c] EXCEPT !.granted = @ + 1]
      OBVIOUS
    <3>2. codes[c] \in Code
      BY <1>1, Domains DEF IdentityInv
    <3>3. y \in Code /\ ~y.there /\ y.granted = 1 /\ y.ses = codes[c].ses /\ y.row = codes[c].row /\ y.flow = codes[c].flow
      BY <1>1, <3>1, <3>2 DEF Code
    <3>4. codes' = [codes EXCEPT ![c] = y]
      BY <2>2, <3>1
    <3>5. /\ codes' \in Seq(Code) /\ DOMAIN codes' = DOMAIN codes /\ codes'[c] = y
          /\ \A d \in DOMAIN codes : d # c => codes'[d] = codes[d]
          /\ \A d \in DOMAIN codes : /\ codes'[d].ses = codes[d].ses /\ codes'[d].row = codes[d].row
                                     /\ codes'[d].flow = codes[d].flow
      BY <1>1, <3>3, <3>4, CodeChanged DEF IdentityInv
    <3>6. ASSUME NEW d \in DOMAIN codes PROVE codes'[d].granted <= 1 /\ (codes'[d].there => codes'[d].granted = 0)
      BY <3>3, <3>5, OldGrants
    <3> QED BY <3>5, <3>6
  <2> QED BY <2>1, <2>2 DEF SessionGrant
<1>6. UNCHANGED <<known, passwords, accounts, logins, tickets, flows, holds, cookie, jar, proven, dropped>>
  BY DEF SessionGrant
<1>7. IdentityTyped'
  BY <1>3, <1>5, <1>6, SlotTyped DEF IdentityInv, IdentityTyped
<1>8. Grows
  BY <1>5, <1>6, Grown
<1>9. \A u : Methods(u) \subseteq Methods(u)'
  BY <1>6, SameMethods
<1>10. Relates(x)'
  BY <1>3, <1>4 DEF Relates
<1>11. \A p \in Slots \ {q} : slot[p].code # 0 => codes'[slot[p].code] = codes[slot[p].code]
  <2>1. ASSUME NEW p \in Slots \ {q}, slot[p].code # 0 PROVE slot[p].code # c /\ slot[p].code \in DOMAIN codes
    BY <1>1, <2>1, SlotFacts DEF Relates, IdentityInv, CodesOnce
  <2> QED BY <1>5, <2>1
<1> QED BY <1>3, <1>5, <1>6, <1>7, <1>8, <1>9, <1>10, <1>11, SlotStep DEF Unlinking

\* Row r goes.
LEMMA RowGone ==
  ASSUME IdentityTyped, NEW r \in DOMAIN accounts, accounts' = [accounts EXCEPT ![r].there = FALSE]
  PROVE  /\ accounts' \in Seq(Account) /\ DOMAIN accounts' = DOMAIN accounts /\ ~accounts'[r].there
         /\ \A t \in DOMAIN accounts : t # r => accounts'[t] = accounts[t]
         /\ \A t \in DOMAIN accounts : accounts'[t].user = accounts[t].user
<1>1. accounts \in Seq(Account) /\ accounts[r] \in Account
  BY Domains DEF IdentityTyped
<1>2. PICK e : e = [accounts[r] EXCEPT !.there = FALSE]
  OBVIOUS
<1>3. e \in Account /\ ~e.there /\ e.user = accounts[r].user
  BY <1>1, <1>2 DEF Account
<1>4. accounts' = [accounts EXCEPT ![r] = e]
  BY <1>2
<1>5. /\ accounts' \in Seq(Account) /\ DOMAIN accounts' = DOMAIN accounts
      /\ accounts'[r] = e /\ \A t \in DOMAIN accounts : t # r => accounts'[t] = accounts[t]
  <2> DEFINE a == [accounts EXCEPT ![r] = e]
  <2>1. /\ a \in Seq(Account) /\ DOMAIN a = DOMAIN accounts
        /\ a[r] = e /\ \A t \in DOMAIN accounts : t # r => a[t] = accounts[t]
    BY <1>1, <1>3, Replaced
  <2>2. accounts' = a
    BY <1>4
  <2> HIDE DEF a
  <2> QED BY <2>1, <2>2
<1> QED BY <1>3, <1>5

\* What goes is not held against anybody.
LEMMA GoneGrows ==
  ASSUME IdentityTyped, NEW r \in DOMAIN accounts, accounts' = [accounts EXCEPT ![r].there = FALSE],
         dropped \subseteq dropped', UNCHANGED <<known, logins, flows, holds, codes, proven>>
  PROVE  Grows
<1>1. /\ DOMAIN accounts' = DOMAIN accounts /\ ~accounts'[r].there
      /\ \A t \in DOMAIN accounts : t # r => accounts'[t] = accounts[t]
      /\ \A t \in DOMAIN accounts : accounts'[t].user = accounts[t].user
  BY RowGone
<1>2. \A t \in DOMAIN accounts : accounts'[t].there => accounts[t].there
  BY <1>1
<1>3. \A t : Guarded(t) => Guarded(t)'
  BY <1>1, <1>2 DEF Guarded, Rows, Held
<1> QED BY <1>1, <1>2, <1>3 DEF Grows

LEMMA DropRowInv == ASSUME IdentityInv, NEW q \in Slots, DropRow(q) PROVE IdentityInv'
<1> DEFINE r == slot[q].row
<1>1. /\ slot[q] \in SlotRow /\ Shaped(slot[q]) /\ Relates(slot[q]) /\ slot[q].pc = "dropRow" /\ slot[q].ses # 0
      /\ r \in DOMAIN accounts /\ r # 0 /\ ~slot[q].ok
  BY SlotFacts DEF DropRow, InSlot, Shaped, Relates
<1>2. PICK x : x = [slot[q] EXCEPT !.pc = "release"]
  OBVIOUS
<1>3. /\ x \in SlotRow /\ x.pc = "release" /\ x.ses = slot[q].ses /\ x.flow = slot[q].flow /\ x.code = slot[q].code
      /\ ~x.ok /\ x.row = r /\ x.rows = slot[q].rows
  BY <1>1, <1>2 DEF SlotRow, SlotPcs
<1>4. slot' = [slot EXCEPT ![q] = x]
  BY <1>2 DEF DropRow, Next_, Set
<1>5. /\ accounts' \in Seq(Account) /\ DOMAIN accounts' = DOMAIN accounts /\ ~accounts'[r].there
      /\ \A t \in DOMAIN accounts : t # r => accounts'[t] = accounts[t]
      /\ \A t \in DOMAIN accounts : accounts'[t].user = accounts[t].user
  BY <1>1, RowGone DEF DropRow, IdentityInv
<1>6. dropped' = dropped \cup {accounts[r].user} /\ UNCHANGED <<known, passwords, logins, tickets, flows, holds, codes,
                                                              cookie, jar, proven>>
  BY DEF DropRow
<1>7. dropped' \subseteq known
  BY <1>1, <1>6 DEF IdentityInv, IdentityTyped, Owned
<1>8. IdentityTyped'
  BY <1>3, <1>4, <1>5, <1>6, <1>7, SlotTyped DEF IdentityInv, IdentityTyped
<1>9. Grows
  BY <1>1, <1>6, GoneGrows DEF DropRow, IdentityInv
<1>10. ASSUME NEW u \in known \ dropped' PROVE Methods(u) \subseteq Methods(u)'
  BY <1>5, <1>6, MethodsStay
<1>11. Shaped(x) /\ x.pc \notin Unlinking
  BY <1>1, <1>3 DEF Shaped, Completing, Unlinking
<1>12. Relates(x)'
  <2>1. x.row \notin Rows'
    BY <1>3, <1>5 DEF Rows
  <2> QED BY <1>1, <1>3, <1>5, <1>6, <2>1 DEF Relates
<1> QED BY <1>3, <1>4, <1>5, <1>6, <1>8, <1>9, <1>10, <1>11, <1>12, OldGrants, SlotStep

LEMMA ReleaseLinkInv == ASSUME IdentityInv, NEW q \in Slots, ReleaseLink(q) PROVE IdentityInv'
<1> DEFINE r == slot[q].row
<1>1. /\ slot[q] \in SlotRow /\ Shaped(slot[q]) /\ Relates(slot[q]) /\ slot[q].pc = "release" /\ slot[q].ses # 0
      /\ r \in DOMAIN accounts /\ r # 0 /\ (~slot[q].ok => r \notin Rows)
      /\ (slot[q].code = 0 => slot[q].flow # 0 /\ ~slot[q].ok)
  BY SlotFacts DEF ReleaseLink, InSlot, Shaped, Relates
<1>2. holds' = {h \in holds : h.row # r} /\ proven' = (IF slot[q].ok THEN proven \cup {r} ELSE proven)
      /\ UNCHANGED <<known, passwords, accounts, logins, tickets, flows, codes, cookie, jar, dropped>>
  BY DEF ReleaseLink
<1>3. \E x \in SlotRow : /\ slot' = [slot EXCEPT ![q] = x] /\ Shaped(x) /\ Relates(x)
                         /\ x.pc \in {"idle", "drop", "grant"} /\ x.flow \in {0, slot[q].flow} /\ x.code \in {0, slot[q].code}
  <2>1. CASE Answered(q)
    <3>1. PICK x : x = Empty
      OBVIOUS
    <3> QED BY <2>1, <3>1, EmptyFits DEF Answered, Set
  <2>2. CASE slot[q].code = 0 /\ Next_(q, "drop")
    <3>1. PICK x : x = [slot[q] EXCEPT !.pc = "drop"]
      OBVIOUS
    <3>2. /\ x \in SlotRow /\ x.pc = "drop" /\ x.ses = slot[q].ses /\ x.flow = slot[q].flow /\ x.code = slot[q].code
          /\ x.ok = slot[q].ok /\ x.row = r /\ x.rows = slot[q].rows
      BY <1>1, <3>1 DEF SlotRow, SlotPcs
    <3>3. Shaped(x) /\ Relates(x)
      BY <1>1, <2>2, <3>2 DEF Shaped, Relates, Completing
    <3> QED BY <2>2, <3>1, <3>2, <3>3 DEF Next_, Set
  <2>3. CASE slot[q].code # 0 /\ Next_(q, "grant")
    <3>1. PICK x : x = [slot[q] EXCEPT !.pc = "grant"]
      OBVIOUS
    <3>2. /\ x \in SlotRow /\ x.pc = "grant" /\ x.ses = slot[q].ses /\ x.flow = slot[q].flow /\ x.code = slot[q].code
          /\ x.ok = slot[q].ok /\ x.row = r /\ x.rows = slot[q].rows
      BY <1>1, <3>1 DEF SlotRow, SlotPcs
    <3>3. Shaped(x) /\ Relates(x)
      BY <1>1, <2>3, <3>2 DEF Shaped, Relates, Completing
    <3> QED BY <2>3, <3>1, <3>2, <3>3 DEF Next_, Set
  <2> QED BY <2>1, <2>2, <2>3 DEF ReleaseLink
<1>4. PICK x \in SlotRow : /\ slot' = [slot EXCEPT ![q] = x] /\ Shaped(x) /\ Relates(x)
                           /\ x.pc \in {"idle", "drop", "grant"} /\ x.flow \in {0, slot[q].flow} /\ x.code \in {0, slot[q].code}
  BY <1>3
<1>5. IdentityTyped'
  BY <1>1, <1>2, <1>4, SlotTyped DEF IdentityInv, IdentityTyped
<1>6. ASSUME NEW t, Guarded(t) PROVE Guarded(t)'
  <2>1. CASE t = r
    BY <1>1, <1>2, <2>1 DEF Guarded, Rows
  <2>2. CASE t # r
    BY <1>2, <1>6, <2>2 DEF Guarded, Rows, Held
  <2> QED BY <2>1, <2>2
<1>7. Grows
  BY <1>2, <1>6 DEF Grows
<1>8. Relates(x)'
  BY <1>2, <1>4 DEF Relates
<1>9. \A u : Methods(u) \subseteq Methods(u)'
  BY <1>2, SameMethods
<1> QED BY <1>2, <1>4, <1>5, <1>7, <1>8, <1>9, OldGrants, SlotStep DEF Unlinking

LEMMA RemoveMethodInv == ASSUME IdentityInv, NEW q \in Slots, RemoveMethod(q) PROVE IdentityInv'
<1>0. PICK r, u : r = slot[q].row /\ u = Caller(q)
  OBVIOUS
<1>1. /\ slot[q] \in SlotRow /\ Shaped(slot[q]) /\ Relates(slot[q]) /\ slot[q].pc = "delete" /\ slot[q].ses # 0
      /\ r \in {0} \cup DOMAIN accounts /\ (r # 0 => accounts[r].user = u)
      /\ (u \notin dropped => \E m \in Methods(u) : m # r)
  BY <1>0, SlotFacts DEF RemoveMethod, InSlot, Shaped, Relates, Caller
<1>2. PICK x : x = Empty
  OBVIOUS
<1>3. x \in SlotRow /\ Shaped(x) /\ Relates(x) /\ x.pc = "idle" /\ x.flow = 0 /\ x.code = 0 /\ slot' = [slot EXCEPT ![q] = x]
  BY <1>2, EmptyFits DEF RemoveMethod, Answered, Set
<1>4. x.row = 0 /\ x.rows = {} /\ x.ses = 0
  BY <1>2 DEF Empty
<1>5. UNCHANGED <<known, logins, tickets, flows, holds, codes, cookie, jar, proven, dropped>>
  BY DEF RemoveMethod
<1>6. /\ accounts' \in Seq(Account) /\ DOMAIN accounts' = DOMAIN accounts /\ passwords' \subseteq passwords
      /\ \A t \in DOMAIN accounts : t # r => accounts'[t] = accounts[t]
      /\ \A t \in DOMAIN accounts : accounts'[t].user = accounts[t].user
      /\ \A v : v \in passwords /\ (v # u \/ r # 0) => v \in passwords'
      /\ Grows
  <2>1. CASE r = 0
    <3>1. passwords' = passwords \ {u} /\ UNCHANGED accounts
      BY <1>0, <2>1 DEF RemoveMethod
    <3>2. Grows
      BY <1>5, <3>1, Grown
    <3> QED BY <2>1, <3>1, <3>2 DEF IdentityInv, IdentityTyped
  <2>2. CASE r # 0
    <3>1. accounts' = [accounts EXCEPT ![r].there = FALSE] /\ UNCHANGED passwords /\ r \in DOMAIN accounts
      BY <1>0, <1>1, <2>2 DEF RemoveMethod
    <3>2. Grows
      BY <1>5, <3>1, GoneGrows DEF IdentityInv
    <3>3. /\ accounts' \in Seq(Account) /\ DOMAIN accounts' = DOMAIN accounts
          /\ \A t \in DOMAIN accounts : t # r => accounts'[t] = accounts[t]
          /\ \A t \in DOMAIN accounts : accounts'[t].user = accounts[t].user
      BY <3>1, RowGone DEF IdentityInv
    <3> QED BY <2>2, <3>1, <3>2, <3>3
  <2> QED BY <2>1, <2>2
<1>7. IdentityTyped'
  BY <1>3, <1>5, <1>6, SlotTyped DEF IdentityInv, IdentityTyped
<1>8. ASSUME NEW v, v # u PROVE Methods(v) \subseteq Methods(v)'
  <2>1. \A t \in DOMAIN accounts : accounts[t].user = v => accounts'[t].there = accounts[t].there
    BY <1>1, <1>6, <1>8
  <2> QED BY <1>6, <1>8, <2>1, MethodsStay
<1>9. ASSUME NEW m \in Methods(u), m # r PROVE m \in Methods(u)'
  BY <1>6, <1>9 DEF Methods, RowsOf, Rows
<1>10. KeepsAMethod'
  <2>1. ASSUME NEW v \in known \ dropped PROVE \E m : m \in Methods(v)'
    <3>1. \E m : m \in Methods(v)
      BY DEF IdentityInv, KeepsAMethod
    <3>2. CASE v # u
      BY <1>8, <3>1, <3>2
    <3>3. CASE v = u
      BY <1>1, <1>9, <3>3
    <3> QED BY <3>2, <3>3
  <2> QED BY <1>5, <2>1 DEF KeepsAMethod
<1>11. ASSUME NEW p \in Slots \ {q}, NEW v, slot[p].pc = "delete", Caller(p) = v PROVE Methods(v) \subseteq Methods(v)'
  <2>1. v # u
    BY <1>0, <1>1, <1>11 DEF IdentityInv, OneUnlinks, Unlinking
  <2> QED BY <1>8, <2>1
<1>12. Relates(x)'
  BY <1>3, <1>4 DEF Relates
<1>13. \A p \in Slots \ {q} : \A v \in known \ dropped' :
           slot[p].pc = "delete" /\ Caller(p) = v => Methods(v) \subseteq Methods(v)'
  BY <1>11
<1> QED BY <1>3, <1>5, <1>6, <1>7, <1>10, <1>12, <1>13, OldGrants, SlotMoves DEF Unlinking

LEMMA CreateCodeInv == ASSUME IdentityInv, NEW q \in Slots, CreateCode(q) PROVE IdentityInv'
<1>0. PICK f, n : f = slot[q].flow /\ n = Len(codes) + 1
  OBVIOUS
<1>1. /\ slot[q] \in SlotRow /\ Shaped(slot[q]) /\ Relates(slot[q]) /\ slot[q].pc = "code" /\ slot[q].ses \in DOMAIN logins
      /\ f \in DOMAIN flows /\ f # 0 /\ slot[q].row \in {0} \cup DOMAIN accounts
      /\ (slot[q].row # 0 => Guarded(slot[q].row))
  BY <1>0, SlotFacts, Domains DEF CreateCode, InSlot, Shaped, Relates, Completing, IdentityInv
<1>2. PICK y : y = Over(f)
  OBVIOUS
<1>3. y \in FlowType /\ ~y.there
  BY <1>1, <1>2, OverFlow DEF IdentityInv
<1>4. flows' = [flows EXCEPT ![f] = y]
  BY <1>0, <1>2 DEF CreateCode, Close_
<1>5. flows' \in Seq(FlowType) /\ DOMAIN flows' = DOMAIN flows /\ flows'[f] = y /\ \A g \in DOMAIN flows : g # f => flows'[g] = flows[g]
  BY <1>1, <1>3, <1>4, Replaced DEF IdentityInv, IdentityTyped
<1>6. PICK c : c = [ses |-> slot[q].ses, row |-> slot[q].row, flow |-> f, there |-> TRUE, granted |-> 0]
  OBVIOUS
<1>7. c \in Code /\ c.ses = slot[q].ses /\ c.row = slot[q].row /\ c.flow = f /\ c.there /\ c.granted = 0
  BY <1>0, <1>1, <1>6, Domains DEF Code, SlotRow, IdentityInv
<1>8. codes' = Append(codes, c) /\ codes \in Seq(Code)
  BY <1>0, <1>6 DEF CreateCode, IdentityInv, IdentityTyped
<1>9. /\ codes' \in Seq(Code) /\ DOMAIN codes' = DOMAIN codes \cup {n} /\ codes'[n] = c /\ n \notin DOMAIN codes
      /\ \A d \in DOMAIN codes : codes'[d] = codes[d]
  BY <1>0, <1>7, <1>8, AppendProperties
<1>10. UNCHANGED <<known, passwords, accounts, logins, tickets, holds, proven, dropped>>
       /\ slot' = [slot EXCEPT ![q] = Empty]
  BY DEF CreateCode, Answered, Set
<1>11. slot'[q] = Empty /\ \A p \in Slots \ {q} : slot'[p] = slot[p]
  BY <1>10 DEF IdentityInv, IdentityTyped
<1>12. IdentityTyped'
  <2>1. slot' \in [Slots -> SlotRow]
    BY <1>10, EmptyFits, SlotTyped
  <2> QED BY <1>5, <1>9, <1>10, <2>1, Cleared DEF CreateCode, IdentityInv, IdentityTyped
<1>13. Grows
  BY <1>3, <1>5, <1>9, <1>10, Grown
<1>14. \A u : Methods(u) \subseteq Methods(u)'
  BY <1>10, SameMethods
<1>15. SlotsFit'
  <2>1. ASSUME NEW p \in Slots \ {q} PROVE Shaped(slot[p])' /\ Relates(slot[p])'
    <3>1. slot[p].flow # 0 => slot[p].flow \in DOMAIN flows /\ slot[p].flow # f
      BY <1>0, <1>1, SlotFacts DEF Relates, IdentityInv, FlowsOnce
    <3>2. slot[p].code # 0 => slot[p].code \in DOMAIN codes
      BY SlotFacts DEF Relates
    <3> QED BY <1>5, <1>9, <1>11, <1>13, <1>14, <3>1, <3>2, OthersFit
  <2>2. Shaped(slot[q])' /\ Relates(slot[q])'
    <3>1. PICK x : x = Empty
      OBVIOUS
    <3>2. x \in SlotRow /\ Shaped(x) /\ Relates(x) /\ x.pc = "idle" /\ x.flow = 0 /\ x.code = 0
      BY <3>1, EmptyFits
    <3>3. x.row = 0 /\ x.rows = {} /\ x.ses = 0
      BY <3>1 DEF Empty
    <3>4. Shaped(x) /\ Relates(x)'
      BY <3>2, <3>3 DEF Relates
    <3> QED BY <1>11, <3>1, <3>4 DEF Shaped, Relates
  <2> QED BY <2>1, <2>2 DEF SlotsFit
<1>16. CodesFit'
  <2>1. ASSUME NEW d \in DOMAIN codes PROVE CodeFits(codes[d])'
    BY <1>9, <1>13, OldCodesFit, OldGrants
  <2>2. CodeFits(codes[n])'
    <3>1. c.row # 0 => Guarded(c.row)'
      BY <1>1, <1>7, <1>13 DEF Grows
    <3>2. CodeFits(c)'
      BY <1>0, <1>1, <1>3, <1>5, <1>7, <1>10, <3>1 DEF CodeFits
    <3> QED BY <1>9, <3>2 DEF CodeFits, Guarded, Rows, Held
  <2> QED BY <1>9, <2>1, <2>2 DEF CodesFit
<1>17. FlowsOnce'
  <2>1. \A p \in Slots \ {q} : slot[p].flow # f
    BY <1>0, <1>1 DEF IdentityInv, FlowsOnce
  <2>2. \A d \in DOMAIN codes : codes[d].flow # f /\ codes[d].flow # 0
    BY <1>0, <1>1, Domains DEF IdentityInv, FlowsOnce, CodesFit, CodeFits
  <2>3. slot'[q].flow = 0
    BY <1>11, EmptyFits
  <2>4. (\A p, s \in Slots : slot[p].flow # 0 /\ slot[p].flow = slot[s].flow => p = s)'
    BY <1>11, <2>3 DEF IdentityInv, FlowsOnce
  <2>5. (\A p \in Slots, d \in DOMAIN codes : codes[d].flow # slot[p].flow)'
    BY <1>1, <1>7, <1>9, <1>11, <2>1, <2>2, <2>3 DEF IdentityInv, FlowsOnce
  <2>6. (\A d, e \in DOMAIN codes : codes[d].flow = codes[e].flow => d = e)'
    BY <1>7, <1>9, <2>2 DEF IdentityInv, FlowsOnce
  <2> QED BY <2>4, <2>5, <2>6 DEF FlowsOnce
<1>18. CodesOnce'
  BY <1>11, EmptyFits DEF IdentityInv, CodesOnce
<1>19. OneUnlinks'
  <2>1. slot'[q].pc \notin Unlinking
    BY <1>11, EmptyFits DEF Unlinking
  <2>2. \A p \in Slots \ {q} : Caller(p)' = Caller(p)
    BY <1>10, <1>11 DEF Caller
  <2> QED BY <1>11, <2>1, <2>2 DEF IdentityInv, OneUnlinks
<1>20. Owned' /\ LoginsFit' /\ KeepsAMethod'
  BY <1>10, <1>13, <1>14, OldOwned, OldLoginsFit DEF Owned, LoginsFit, KeepsAMethod, IdentityInv
<1> QED BY <1>12, <1>15, <1>16, <1>17, <1>18, <1>19, <1>20 DEF IdentityInv

\* No row and no session is made.
LEMMA QuietStep ==
  ASSUME IdentityInv, Grows, IdentityTyped', UNCHANGED <<slot, codes, passwords, dropped, known, accounts>>,
         DOMAIN logins' = DOMAIN logins,
         \A f \in DOMAIN flows : flows'[f].ses = flows[f].ses
  PROVE  IdentityInv'
<1>1. \A p \in Slots : slot[p].flow # 0 => flows'[slot[p].flow].ses = flows[slot[p].flow].ses
  BY SlotFacts DEF Relates
<1>2. Owned' /\ LoginsFit'
  BY OldOwned, OldLoginsFit DEF Owned, LoginsFit
<1> QED BY <1>1, <1>2, NoSlotStep

LEMMA Started ==
  ASSUME IdentityTyped, NEW b \in Browsers, NEW u \in Users \cup {NoUser}, NEW s \in Nat, StartFlow(b, u, s)
  PROVE  /\ flows' \in Seq(FlowType) /\ DOMAIN flows \subseteq DOMAIN flows' /\ \A f \in DOMAIN flows : flows'[f] = flows[f]
         /\ cookie' \in [Browsers -> {0} \cup DOMAIN flows']
<1>1. PICK y : y = NewFlow(b, u, s)
  OBVIOUS
<1>2. Len(accounts) \in Nat /\ Len(logins) \in Nat /\ flows \in Seq(FlowType)
  BY DEF IdentityTyped
<1>3. y \in FlowType
  BY <1>1, <1>2 DEF NewFlow, FlowType
<1>4. flows' = Append(flows, y)
  BY <1>1 DEF StartFlow
<1>5. /\ flows' \in Seq(FlowType) /\ DOMAIN flows' = DOMAIN flows \cup {Len(flows) + 1}
      /\ \A f \in DOMAIN flows : flows'[f] = flows[f]
  BY <1>2, <1>3, <1>4, AppendProperties
<1>6. cookie' \in [Browsers -> {0} \cup DOMAIN flows']
  BY <1>5 DEF StartFlow, IdentityTyped
<1> QED BY <1>5, <1>6

LEMMA AuthorizeInv == ASSUME IdentityInv, NEW b \in Browsers, Authorize(b) PROVE IdentityInv'
<1>1. /\ flows' \in Seq(FlowType) /\ DOMAIN flows \subseteq DOMAIN flows' /\ \A f \in DOMAIN flows : flows'[f] = flows[f]
      /\ cookie' \in [Browsers -> {0} \cup DOMAIN flows']
  BY Started DEF Authorize, IdentityInv
<1>2. UNCHANGED <<known, passwords, accounts, logins, tickets, holds, codes, jar, slot, proven, dropped>>
  BY DEF Authorize
<1>3. IdentityTyped'
  BY <1>1, <1>2 DEF IdentityInv, IdentityTyped
<1>4. Grows
  BY <1>1, <1>2, Grown
<1> QED BY <1>1, <1>2, <1>3, <1>4, QuietStep

LEMMA AuthorizeLinkInv == ASSUME IdentityInv, NEW s \in DOMAIN logins, AuthorizeLink(s) PROVE IdentityInv'
<1>1. UNCHANGED <<known, passwords, accounts, logins, flows, holds, codes, cookie, jar, slot, proven, dropped>>
  BY DEF AuthorizeLink
<1>2. IdentityTyped'
  BY <1>1 DEF AuthorizeLink, IdentityInv, IdentityTyped
<1>3. Grows
  BY <1>1, Grown
<1> QED BY <1>1, <1>2, <1>3, QuietStep

LEMMA StartLinkInv ==
  ASSUME IdentityInv, NEW b \in Browsers, NEW s \in DOMAIN logins, StartLink(b, s) PROVE IdentityInv'
<1>1. /\ flows' \in Seq(FlowType) /\ DOMAIN flows \subseteq DOMAIN flows' /\ \A f \in DOMAIN flows : flows'[f] = flows[f]
      /\ cookie' \in [Browsers -> {0} \cup DOMAIN flows']
  <2>1. CASE StartFlow(b, logins[s].user, s)
    <3>1. logins[s].user \in Users \cup {NoUser} /\ s \in Nat
      BY Domains DEF IdentityInv, LoginRow
    <3> QED BY <2>1, <3>1, Started DEF IdentityInv
  <2>2. CASE UNCHANGED <<flows, cookie>>
    BY <2>2 DEF IdentityInv, IdentityTyped
  <2> QED BY <2>1, <2>2 DEF StartLink
<1>2. UNCHANGED <<known, passwords, accounts, logins, holds, codes, jar, slot, proven, dropped>> /\ tickets' = tickets \ {s}
  BY DEF StartLink
<1>3. IdentityTyped'
  BY <1>1, <1>2 DEF IdentityInv, IdentityTyped
<1>4. Grows
  BY <1>1, <1>2, Grown
<1> QED BY <1>1, <1>2, <1>3, <1>4, QuietStep

LEMMA ErrorBack ==
  ASSUME IdentityTyped, NEW f \in DOMAIN flows, flows' = [flows EXCEPT ![f].back = "error"]
  PROVE  /\ flows' \in Seq(FlowType) /\ DOMAIN flows' = DOMAIN flows
         /\ \A g \in DOMAIN flows : flows'[g].ses = flows[g].ses /\ flows'[g].there = flows[g].there
<1>1. flows \in Seq(FlowType) /\ flows[f] \in FlowType
  BY Domains DEF IdentityTyped
<1>2. PICK y : y = [flows[f] EXCEPT !.back = "error"]
  OBVIOUS
<1>3. y \in FlowType /\ y.ses = flows[f].ses /\ y.there = flows[f].there
  BY <1>1, <1>2 DEF FlowType
<1>4. flows' = [flows EXCEPT ![f] = y]
  BY <1>2
<1> DEFINE F == [flows EXCEPT ![f] = y]
<1>5. F \in Seq(FlowType) /\ DOMAIN F = DOMAIN flows /\ F[f] = y /\ \A g \in DOMAIN flows : g # f => F[g] = flows[g]
  BY <1>1, <1>3, Replaced
<1>6. flows' = F
  BY <1>4
<1> HIDE DEF F
<1> QED BY <1>3, <1>5, <1>6

LEMMA ProviderRefusesInv == ASSUME IdentityInv, NEW f \in DOMAIN flows, ProviderRefuses(f) PROVE IdentityInv'
<1>1. /\ flows' \in Seq(FlowType) /\ DOMAIN flows' = DOMAIN flows
      /\ \A g \in DOMAIN flows : flows'[g].ses = flows[g].ses /\ flows'[g].there = flows[g].there
  BY ErrorBack DEF ProviderRefuses, IdentityInv
<1>2. UNCHANGED <<known, passwords, accounts, logins, tickets, holds, codes, cookie, jar, slot, proven, dropped>>
  BY DEF ProviderRefuses
<1>3. IdentityTyped'
  BY <1>1, <1>2 DEF IdentityInv, IdentityTyped
<1>4. Grows
  BY <1>1, <1>2, Grown
<1> QED BY <1>1, <1>2, <1>3, <1>4, QuietStep

LEMMA HoldExpiresInv == ASSUME IdentityInv, NEW h \in holds, HoldExpires(h) PROVE IdentityInv'
<1>1. UNCHANGED <<known, passwords, accounts, logins, tickets, flows, codes, cookie, jar, slot, proven, dropped>>
  BY DEF HoldExpires
<1>2. PICK k : k = [h EXCEPT !.late = TRUE]
  OBVIOUS
<1>3. h \in [row : DOMAIN accounts, by : DOMAIN flows, late : BOOLEAN]
  BY DEF IdentityInv, IdentityTyped
<1>4. k \in [row : DOMAIN accounts, by : DOMAIN flows, late : BOOLEAN] /\ k.row = h.row
  BY <1>2, <1>3
<1>5. holds' = (holds \ {h}) \cup {k}
  BY <1>2 DEF HoldExpires
<1>6. IdentityTyped'
  BY <1>1, <1>4, <1>5 DEF IdentityInv, IdentityTyped
<1>7. \A r : Held(r) => Held(r)'
  BY <1>4, <1>5 DEF Held
<1>8. Grows
  BY <1>1, <1>7 DEF Grows, Guarded, Rows
<1> QED BY <1>1, <1>6, <1>8, QuietStep

LEMMA LoginEndsInv == ASSUME IdentityInv, NEW s \in DOMAIN logins, LoginEnds(s) PROVE IdentityInv'
<1>1. UNCHANGED <<known, passwords, accounts, tickets, flows, holds, codes, cookie, jar, slot, proven, dropped>>
  BY DEF LoginEnds
<1>2. /\ logins' \in Seq(LoginRow) /\ DOMAIN logins' = DOMAIN logins
      /\ \A t \in DOMAIN logins : /\ logins'[t].user = logins[t].user /\ logins'[t].via = logins[t].via
                                  /\ logins'[t].held = logins[t].held
  BY Ended DEF LoginEnds, IdentityInv
<1>3. IdentityTyped'
  BY <1>1, <1>2 DEF IdentityInv, IdentityTyped
<1>4. Grows
  BY <1>1, <1>2, Grown
<1> QED BY <1>1, <1>2, <1>3, <1>4, QuietStep

\* Whom the callback signs in or links, as far as it does.
LEMMA Existings ==
  ASSUME IdentityInv, NEW i \in Identities
  PROVE  /\ Existing(i).user \in Users
         /\ Existing(i).kind = "identity_owner" => /\ RowOf(i) \in Rows /\ RowOf(i) \in DOMAIN accounts
                                                   /\ Existing(i).user = accounts[RowOf(i)].user
                                                   /\ Existing(i).user \in known
         /\ Existing(i).kind \in {"identity_owner", "email_match", "none"}
<1>1. CASE RowOf(i) # 0
  <2>1. RowOf(i) \in Rows /\ RowOf(i) \in DOMAIN accounts
    BY <1>1 DEF RowOf, Rows
  <2>2. accounts[RowOf(i)].user \in known /\ accounts[RowOf(i)].user \in Users
    BY <2>1 DEF IdentityInv, IdentityTyped, Owned
  <2> QED BY <1>1, <2>1, <2>2 DEF Existing
<1>2. CASE RowOf(i) = 0
  BY <1>2, ClaimsAssumption DEF Existing
<1> QED BY <1>1, <1>2

LEMMA TouchedFlows ==
  ASSUME IdentityTyped, NEW f, NEW r \in Nat, flows' = Touched(f, r)
  PROVE  /\ flows' \in Seq(FlowType) /\ DOMAIN flows' = DOMAIN flows
         /\ \A g \in DOMAIN flows : flows'[g].ses = flows[g].ses /\ flows'[g].there = flows[g].there
<1>1. DOMAIN flows' = DOMAIN flows
  BY DEF Touched
<1>2. ASSUME NEW g \in DOMAIN flows
      PROVE  flows'[g] \in FlowType /\ flows'[g].ses = flows[g].ses /\ flows'[g].there = flows[g].there
  <2>1. flows[g] \in FlowType
    BY Domains
  <2>2. PICK x : x = [flows[g] EXCEPT !.touched = IF flows[g].ses = 0 \/ flows[g].back = "over" THEN @ ELSE @ \cup {r}]
    OBVIOUS
  <2>3. x \in FlowType /\ x.ses = flows[g].ses /\ x.there = flows[g].there
    BY <2>1, <2>2 DEF FlowType
  <2>4. PICK y : y = [x EXCEPT !.back = "ok"]
    OBVIOUS
  <2>5. y \in FlowType /\ y.ses = flows[g].ses /\ y.there = flows[g].there
    BY <2>3, <2>4 DEF FlowType
  <2>6. flows'[g] = IF g = f THEN y ELSE x
    BY <2>2, <2>4 DEF Touched
  <2> QED BY <2>3, <2>5, <2>6
<1>3. flows' = [g \in 1..Len(flows) |-> flows'[g]] /\ Len(flows) \in Nat
  BY Domains DEF Touched
<1>4. flows' \in Seq(FlowType)
  BY <1>1, <1>2, <1>3, Domains
<1> QED BY <1>1, <1>2, <1>4

LEMMA OnlyOwnersSignIn ==
  ASSUME IdentityInv, NEW i \in Identities, NEW u,
         Decide(i, Existing(i).kind, Existing(i).user, u) = "sign_in"
  PROVE  Existing(i).kind = "identity_owner"
BY Existings DEF Decide

LEMMA CallbackInv ==
  ASSUME IdentityInv, NEW f \in DOMAIN flows, NEW i \in Identities, Callback(f, i)
  PROVE  IdentityInv'
<1>1. UNCHANGED <<passwords, tickets, holds, codes, cookie, slot, proven, dropped>>
  BY DEF Callback
<1>2. PICK e, signedIn : e = Existing(i) /\ signedIn = flows[f].user
  OBVIOUS
<1>3. PICK action : action = Decide(i, e.kind, e.user, signedIn)
  OBVIOUS
<1>4. PICK owner, r : /\ owner = IF action = "link" /\ signedIn # NoUser THEN signedIn ELSE e.user
                      /\ r = IF action = "sign_in" THEN RowOf(i) ELSE Len(accounts) + 1
  OBVIOUS
<1>5. CASE action = "refuse"
  <2>1. flows' = [flows EXCEPT ![f].back = "error"] /\ UNCHANGED <<known, accounts, logins, jar>>
    BY <1>2, <1>3, <1>5 DEF Callback
  <2>2. /\ flows' \in Seq(FlowType) /\ DOMAIN flows' = DOMAIN flows
        /\ \A g \in DOMAIN flows : flows'[g].ses = flows[g].ses /\ flows'[g].there = flows[g].there
    BY <2>1, ErrorBack DEF IdentityInv
  <2>3. IdentityTyped'
    BY <1>1, <2>1, <2>2 DEF IdentityInv, IdentityTyped
  <2>4. Grows
    BY <1>1, <2>1, <2>2, Grown
  <2> QED BY <1>1, <2>1, <2>2, <2>3, <2>4, QuietStep
<1>6. CASE action # "refuse"
  <2>1. known' = known \cup {owner} /\ flows' = Touched(f, r)
    BY <1>2, <1>3, <1>4, <1>6 DEF Callback
  <2>2. accounts' = IF action = "sign_in" THEN accounts
                    ELSE Append(accounts, [user |-> owner, identity |-> i, there |-> TRUE])
    BY <1>2, <1>3, <1>4, <1>6 DEF Callback
  <2>3. IF signedIn # NoUser THEN UNCHANGED <<logins, jar>>
        ELSE /\ logins' = Append(logins, [user |-> owner, live |-> TRUE, via |-> r, held |-> Held(r) /\ r \notin proven])
             /\ jar' = [jar EXCEPT ![flows[f].browser] = Len(logins) + 1]
    BY <1>2, <1>3, <1>4, <1>6 DEF Callback
  <2>4. flows[f] \in FlowType /\ accounts \in Seq(Account) /\ logins \in Seq(LoginRow) /\ Len(accounts) \in Nat
        /\ DOMAIN accounts = 1..Len(accounts) /\ DOMAIN logins = 1..Len(logins) /\ Len(logins) \in Nat
    BY Domains DEF IdentityInv, IdentityTyped
  <2>5. owner \in Users
    <3>1. signedIn \in Users \cup {NoUser}
      BY <1>2, <2>4 DEF FlowType
    <3> QED BY <1>2, <1>4, <3>1, Existings
  <2>6. action = "sign_in" => r \in DOMAIN accounts /\ owner = accounts[r].user /\ owner \in known
    BY <1>2, <1>3, <1>4, OnlyOwnersSignIn, Existings
  <2>7. /\ accounts' \in Seq(Account) /\ DOMAIN accounts \subseteq DOMAIN accounts'
        /\ \A t \in DOMAIN accounts : accounts'[t] = accounts[t]
        /\ r \in DOMAIN accounts' /\ accounts'[r].user = owner /\ r \in Nat /\ r # 0
        /\ (action # "sign_in" => accounts'[r].there)
        /\ DOMAIN accounts' \subseteq DOMAIN accounts \cup {r}
    <3>1. CASE action = "sign_in"
      BY <2>2, <2>4, <2>6, <3>1
    <3>2. CASE action # "sign_in"
      <4>1. PICK a : a = [user |-> owner, identity |-> i, there |-> TRUE]
        OBVIOUS
      <4>2. a \in Account /\ a.user = owner /\ a.there
        BY <2>5, <4>1 DEF Account
      <4>3. accounts' = Append(accounts, a) /\ r = Len(accounts) + 1
        BY <1>4, <2>2, <3>2, <4>1
      <4> QED BY <2>4, <4>2, <4>3, AppendProperties
    <3> QED BY <3>1, <3>2
  <2>8. /\ flows' \in Seq(FlowType) /\ DOMAIN flows' = DOMAIN flows
        /\ \A g \in DOMAIN flows : flows'[g].ses = flows[g].ses /\ flows'[g].there = flows[g].there
    BY <2>1, <2>7, TouchedFlows DEF IdentityInv
  <2>9. PICK l : l = [user |-> owner, live |-> TRUE, via |-> r, held |-> Held(r) /\ r \notin proven]
    OBVIOUS
  <2>10. /\ l \in LoginRow /\ l.user = owner /\ l.via = r
         /\ (l.held => Held(r))
    <3>1. (Held(r) /\ r \notin proven) \in BOOLEAN
      BY DEF Held
    <3> QED BY <2>5, <2>7, <2>9, <3>1 DEF LoginRow
  <2>11. /\ logins' \in Seq(LoginRow) /\ DOMAIN logins \subseteq DOMAIN logins'
         /\ \A s \in DOMAIN logins : logins'[s] = logins[s]
         /\ \A s \in DOMAIN logins' : s \in DOMAIN logins \/ logins'[s] = l
         /\ jar' \in [Browsers -> {0} \cup DOMAIN logins']
    <3>1. CASE signedIn # NoUser
      BY <2>3, <2>4, <3>1 DEF IdentityInv, IdentityTyped
    <3>2. CASE signedIn = NoUser
      <4>1. logins' = Append(logins, l) /\ jar' = [jar EXCEPT ![flows[f].browser] = Len(logins) + 1]
        BY <2>3, <2>9, <3>2
      <4>2. /\ logins' \in Seq(LoginRow) /\ DOMAIN logins' = DOMAIN logins \cup {Len(logins) + 1}
            /\ \A s \in DOMAIN logins : logins'[s] = logins[s]
            /\ logins'[Len(logins) + 1] = l
        BY <2>4, <2>10, <4>1, AppendProperties
      <4>3. jar' \in [Browsers -> {0} \cup DOMAIN logins']
        BY <4>1, <4>2 DEF IdentityInv, IdentityTyped
      <4> QED BY <4>2, <4>3
    <3> QED BY <3>1, <3>2
  <2>12. IdentityTyped'
    <3>1. known' \subseteq Users /\ passwords' \subseteq known' /\ dropped' \subseteq known'
      BY <1>1, <2>1, <2>5 DEF IdentityInv, IdentityTyped
    <3>2. tickets' \subseteq DOMAIN logins' /\ proven' \subseteq DOMAIN accounts'
          /\ holds' \subseteq [row : DOMAIN accounts', by : DOMAIN flows', late : BOOLEAN]
      BY <1>1, <2>7, <2>8, <2>11 DEF IdentityInv, IdentityTyped
    <3>3. cookie' \in [Browsers -> {0} \cup DOMAIN flows'] /\ slot' \in [Slots -> SlotRow] /\ codes' \in Seq(Code)
      BY <1>1, <2>8 DEF IdentityInv, IdentityTyped
    <3> QED BY <2>7, <2>8, <2>11, <3>1, <3>2, <3>3 DEF IdentityTyped
  <2>13. \A t \in DOMAIN accounts : Guarded(t) => Guarded(t)'
    BY <1>1, <2>7 DEF Guarded, Rows, Held
  <2>14. Grows
    BY <1>1, <2>1, <2>7, <2>8, <2>11, <2>13 DEF Grows
  <2>15. Owned'
    <3>1. ASSUME NEW t \in DOMAIN accounts' PROVE accounts'[t].user \in known'
      BY <2>1, <2>7, <2>14, <3>1, OldOwned
    <3> QED BY <3>1 DEF Owned
  <2>16. LoginsFit'
    <3>1. ASSUME NEW s \in DOMAIN logins PROVE LoginFits(logins[s])'
      BY <2>14, OldLoginsFit
    <3>2. LoginFits(l)'
      <4>1. l.held => Guarded(r)'
        BY <1>1, <2>10 DEF Guarded, Held
      <4> QED BY <2>1, <2>7, <2>10, <4>1 DEF LoginFits
    <3>3. ASSUME NEW s \in DOMAIN logins', logins'[s] = l PROVE LoginFits(logins[s])'
      BY <3>2, <3>3 DEF LoginFits, Guarded, Rows, Held
    <3> QED BY <2>11, <3>1, <3>3 DEF LoginsFit
  <2>17. \A u \in known' \ known : Methods(u)' # {}
    <3>1. ASSUME NEW u \in known' \ known PROVE r \in Methods(u)'
      BY <2>1, <2>6, <2>7 DEF Methods, RowsOf, Rows
    <3> QED BY <3>1
  <2>18. \A p \in Slots : slot[p].flow # 0 => flows'[slot[p].flow].ses = flows[slot[p].flow].ses
    BY <2>8, SlotFacts DEF Relates
  <2> QED BY <1>1, <2>7, <2>12, <2>14, <2>15, <2>16, <2>17, <2>18, NoSlotStep
<1> QED BY <1>5, <1>6

LEMMA IdentityInitInv == IdentityInit => IdentityInv
<1> SUFFICES ASSUME IdentityInit PROVE IdentityInv
  OBVIOUS
<1>1. PICK order \in [1..Cardinality(Registered) -> Registered] :
        logins = [s \in DOMAIN order |-> [user |-> order[s], live |-> TRUE, via |-> 0, held |-> FALSE]]
  BY DEF IdentityInit
<1>2. PICK n \in Nat : n = Cardinality(Registered)
  BY RegisteredAssumption, FS_CardinalityType
<1>3. order \in [1..n -> Registered] /\ DOMAIN logins = 1..n
  BY <1>1, <1>2
<1>4. ASSUME NEW s \in DOMAIN logins
      PROVE  logins[s] \in LoginRow /\ logins[s].user \in Registered /\ logins[s].via = 0 /\ ~logins[s].held
  <2>1. order[s] \in Registered /\ order[s] \in Users
    BY <1>3, RegisteredAssumption
  <2>2. logins[s] = [user |-> order[s], live |-> TRUE, via |-> 0, held |-> FALSE]
    BY <1>1, <1>3
  <2> QED BY <2>1, <2>2 DEF LoginRow
<1>5. logins \in Seq(LoginRow)
  <2>1. logins = [s \in 1..n |-> logins[s]]
    BY <1>1, <1>3
  <2> QED BY <1>3, <1>4, <2>1
<1>6. /\ known = Registered /\ passwords = Registered /\ accounts = <<>> /\ tickets = {} /\ flows = <<>>
      /\ holds = {} /\ codes = <<>> /\ cookie = [b \in Browsers |-> 0] /\ jar = [b \in Browsers |-> 0]
      /\ proven = {} /\ dropped = {} /\ slot = [q \in Slots |-> Empty]
  BY DEF IdentityInit
<1>7. Empty \in SlotRow /\ Empty.pc = "idle" /\ Empty.flow = 0 /\ Empty.row = 0 /\ Empty.rows = {} /\ Empty.ses = 0
      /\ Empty.code = 0 /\ ~Empty.ok
  BY DEF Empty, SlotRow, SlotPcs
<1>8. \A q \in Slots : slot[q] = Empty
  BY <1>6
<1>9. DOMAIN accounts = {} /\ DOMAIN flows = {} /\ DOMAIN codes = {}
  BY <1>6
<1>10. IdentityTyped
  BY <1>5, <1>6, <1>7, <1>9, RegisteredAssumption DEF IdentityTyped
<1>11. Owned /\ CodesFit /\ FlowsOnce /\ CodesOnce /\ OneUnlinks
  BY <1>7, <1>8, <1>9 DEF Owned, CodesFit, FlowsOnce, CodesOnce, OneUnlinks, Unlinking
<1>12. LoginsFit
  BY <1>4, <1>6 DEF LoginsFit, LoginFits
<1>13. SlotsFit
  <2>1. PICK x : x = Empty
    OBVIOUS
  <2>2. Shaped(x) /\ Relates(x)
    BY <1>7, <2>1 DEF Shaped, Relates, Completing
  <2> QED BY <1>8, <2>1, <2>2 DEF SlotsFit, Shaped, Relates
<1>14. KeepsAMethod
  BY <1>6 DEF KeepsAMethod, Methods
<1> QED BY <1>10, <1>11, <1>12, <1>13, <1>14 DEF IdentityInv

LEMMA IdentityNextInv == ASSUME IdentityInv, [IdentityNext]_identityVars PROVE IdentityInv'
<1>1. CASE UNCHANGED identityVars
  <2>1. IdentityTyped'
    BY <1>1 DEF identityVars, IdentityInv, IdentityTyped
  <2>2. Grows
    BY <1>1, Grown DEF identityVars
  <2> QED BY <1>1, <2>1, <2>2, QuietStep DEF identityVars
<1>2. ASSUME NEW b \in Browsers, Authorize(b) \/ \E s \in DOMAIN logins : StartLink(b, s) PROVE IdentityInv'
  BY <1>2, AuthorizeInv, StartLinkInv
<1>3. ASSUME NEW s \in DOMAIN logins, AuthorizeLink(s) \/ LoginEnds(s) PROVE IdentityInv'
  BY <1>3, AuthorizeLinkInv, LoginEndsInv
<1>4. ASSUME NEW f \in DOMAIN flows, ProviderRefuses(f) \/ \E i \in Identities : Callback(f, i) PROVE IdentityInv'
  BY <1>4, ProviderRefusesInv, CallbackInv
<1>5. ASSUME NEW h \in holds, HoldExpires(h) PROVE IdentityInv'
  BY <1>5, HoldExpiresInv
<1>6. ASSUME NEW q \in Slots, IdentityServe(q) PROVE IdentityInv'
  BY <1>6, RefusedInv, FindLinkedInv, HoldLinkInv, WhoSignedInInv, ListRowsInv, HeldLinksInv, NextAbandonedInv,
     RefuseHeldInv, CreateCodeInv, DropRowInv, ReleaseLinkInv, SessionGrantInv, LockUserInv, JudgeRemovalInv,
     RemoveMethodInv DEF IdentityServe, Complete
<1>7. ASSUME NEW q \in Slots, \E f \in DOMAIN flows : \E expired \in BOOLEAN : TakeFlow(q, f, expired) PROVE IdentityInv'
  BY <1>7, TakeFlowInv
<1>8. ASSUME NEW q \in Slots, \E c \in DOMAIN codes : \E verified, expired \in BOOLEAN : Redeem(q, c, verified, expired)
      PROVE  IdentityInv'
  BY <1>8, RedeemInv
<1>9. ASSUME NEW q \in Slots, \E s \in DOMAIN logins : \E m \in {0} \cup DOMAIN accounts : Unlink(q, s, m)
      PROVE  IdentityInv'
  BY <1>9, UnlinkInv
<1> QED BY <1>1, <1>2, <1>3, <1>4, <1>5, <1>6, <1>7, <1>8, <1>9 DEF IdentityNext

LEMMA IdentityHolds == IdentitySpec => []IdentityInv
<1>1. IdentityInit => IdentityInv
  BY IdentityInitInv
<1>2. IdentityInv /\ [IdentityNext]_identityVars => IdentityInv'
  BY IdentityNextInv
<1> QED BY <1>1, <1>2, PTL DEF IdentitySpec

\* A code has one session response at most, and a flow one code (issueCode and
\* takeCode of auth-oauth.ts, whatever the slots interleave).
THEOREM ArtefactsAreSpent == IdentitySpec => []SingleUse
<1>1. IdentityInv => SingleUse
  BY OldGrants DEF SingleUse, IdentityInv, FlowsOnce
<1> QED BY <1>1, IdentityHolds, PTL

\* Whoever has lost no unproven link can still sign in (removeSignInMethod of auth.ts).
THEOREM EverybodyKeepsAMethod == IdentitySpec => []KeepsAMethod
<1>1. IdentityInv => KeepsAMethod
  BY DEF IdentityInv
<1> QED BY <1>1, IdentityHolds, PTL

\* A link whose code was never redeemed is held for as long as its row is there, and
\* nobody who came through it while it was held is handed a code (heldLinks of auth-oauth.ts).
THEOREM UnprovenLinksStayOut == IdentitySpec => UnprovenStaysOut
<1>1. IdentityInv => HeldUntilProven
  <2> SUFFICES ASSUME IdentityInv, NEW c \in DOMAIN codes, codes[c].row \in Rows \ proven PROVE Held(codes[c].row)
    BY DEF HeldUntilProven
  <2>1. codes[c].row # 0
    BY Domains DEF Rows, IdentityInv
  <2> QED BY <2>1 DEF IdentityInv, CodesFit, CodeFits, Guarded
<1> DEFINE Outside == \A q \in Slots : LET login == logins[slot[q].ses] IN
         CreateCode(q) /\ flows[slot[q].flow].ses = 0 /\ login.held
           => login.via \in proven \/ login.via \notin Rows
<1>2. IdentityInv => Outside
  BY SlotFacts DEF Relates, CreateCode, InSlot
<1>3. IdentityInv /\ [IdentityNext]_identityVars => [Outside]_identityVars
  BY <1>2
<1> QED BY <1>1, <1>3, IdentityHolds, PTL DEF IdentitySpec, UnprovenStaysOut, HeldSignsInNobody, Outside

LEMMA SeqOf ==
  ASSUME NEW S, NEW T, NEW s \in Seq(S), \A i \in DOMAIN s : s[i] \in T
  PROVE  s \in Seq(T)
OBVIOUS

LEMMA IdentityTypes == IdentityInv => IdentityTypeOK
<1> SUFFICES ASSUME IdentityInv PROVE IdentityTypeOK
  OBVIOUS
<1>1. accounts \in Seq([user : known, identity : Identities, there : BOOLEAN])
  <2>0. PICK T : T = [user : known, identity : Identities, there : BOOLEAN]
    OBVIOUS
  <2>1. ASSUME NEW r \in DOMAIN accounts PROVE accounts[r] \in T
    <3>1. accounts[r] \in Account /\ accounts[r].user \in known
      BY Domains DEF IdentityInv, Owned
    <3> QED BY <2>0, <3>1 DEF Account
  <2>2. accounts \in Seq(Account)
    BY DEF IdentityInv, IdentityTyped
  <2>3. accounts \in Seq(T)
    BY <2>1, <2>2, SeqOf
  <2> QED BY <2>0, <2>3
<1>2. logins \in Seq([user : known, live : BOOLEAN, via : {0} \cup DOMAIN accounts, held : BOOLEAN])
  <2>0. PICK T : T = [user : known, live : BOOLEAN, via : {0} \cup DOMAIN accounts, held : BOOLEAN]
    OBVIOUS
  <2>1. ASSUME NEW s \in DOMAIN logins PROVE logins[s] \in T
    <3>1. logins[s] \in LoginRow /\ LoginFits(logins[s])
      BY Domains DEF IdentityInv, LoginsFit
    <3> QED BY <2>0, <3>1 DEF LoginRow, LoginFits
  <2>2. logins \in Seq(LoginRow)
    BY DEF IdentityInv, IdentityTyped
  <2>3. logins \in Seq(T)
    BY <2>1, <2>2, SeqOf
  <2> QED BY <2>0, <2>3
<1>3. codes \in Seq([ses : DOMAIN logins, row : {0} \cup DOMAIN accounts, flow : DOMAIN flows,
                     there : BOOLEAN, granted : Nat])
  <2>0. PICK T : T = [ses : DOMAIN logins, row : {0} \cup DOMAIN accounts, flow : DOMAIN flows,
                   there : BOOLEAN, granted : Nat]
    OBVIOUS
  <2>1. ASSUME NEW c \in DOMAIN codes PROVE codes[c] \in T
    <3>1. codes[c] \in Code /\ CodeFits(codes[c])
      BY Domains DEF IdentityInv, CodesFit
    <3> QED BY <2>0, <3>1 DEF Code, CodeFits
  <2>2. codes \in Seq(Code)
    BY DEF IdentityInv, IdentityTyped
  <2>3. codes \in Seq(T)
    BY <2>1, <2>2, SeqOf
  <2> QED BY <2>0, <2>3
<1>4. slot \in [Slots -> [pc : SlotPcs, flow : {0} \cup DOMAIN flows, row : {0} \cup DOMAIN accounts,
                 rows : SUBSET DOMAIN accounts, ses : {0} \cup DOMAIN logins, code : {0} \cup DOMAIN codes,
                 ok : BOOLEAN]]
  <2>0. PICK T : T = [pc : SlotPcs, flow : {0} \cup DOMAIN flows, row : {0} \cup DOMAIN accounts,
                   rows : SUBSET DOMAIN accounts, ses : {0} \cup DOMAIN logins, code : {0} \cup DOMAIN codes,
                   ok : BOOLEAN]
    OBVIOUS
  <2>1. ASSUME NEW q \in Slots PROVE slot[q] \in T
    <3>1. PICK x : x = slot[q]
      OBVIOUS
    <3>2. /\ x \in SlotRow /\ x.flow \in {0} \cup DOMAIN flows /\ x.row \in {0} \cup DOMAIN accounts
          /\ x.rows \subseteq DOMAIN accounts /\ x.ses \in {0} \cup DOMAIN logins /\ x.code \in {0} \cup DOMAIN codes
      BY <3>1, SlotFacts DEF Relates
    <3>3. x \in T
      BY <2>0, <3>2 DEF SlotRow
    <3> QED BY <3>1, <3>3
  <2>2. slot \in [Slots -> T]
    BY <2>1 DEF IdentityInv, IdentityTyped
  <2> QED BY <2>0, <2>2
<1> QED BY <1>1, <1>2, <1>3, <1>4 DEF IdentityInv, IdentityTyped, IdentityTypeOK

\* What is named in a cookie, a code or a hold was created, and every variable of
\* both components has its type.
THEOREM EverythingIsTyped == Spec => []TypeOK
<1>1. Init => IdentityInv /\ AccountInv
  BY IdentityInitInv, AccountInitInv DEF Init
<1>2. IdentityInv /\ AccountInv /\ [Next]_vars => (IdentityInv /\ AccountInv)'
  <2> SUFFICES ASSUME IdentityInv, AccountInv, [Next]_vars PROVE IdentityInv' /\ AccountInv'
    OBVIOUS
  <2>1. [IdentityNext]_identityVars /\ [AccountNext]_accountVars
    BY DEF Next, vars, InIdentities, InAccount
  <2> QED BY <2>1, IdentityNextInv, AccountNextInv
<1>3. IdentityInv /\ AccountInv => TypeOK
  BY IdentityTypes, AccountTypes DEF TypeOK
<1> QED BY <1>1, <1>2, <1>3, PTL DEF Spec
===============================================================================
