------------------------------ MODULE AccountLinks ------------------------------
(***************************************************************************)
(* Mailed links of one account: recovery and email change, and the         *)
(* password change and deletion that void them (src/apis/auth.ts,          *)
(* src/tools/auth-better/recovery-links.ts, email-change.ts, delete-user.ts *)
(* and the mailer callback of index.ts).                                   *)
(*                                                                         *)
(* Transactions that start with the user's row lock exclude each other and *)
(* are one step; every other statement is a step of its own.  A request is *)
(* a job with the handler's locals; one that dies never runs again.        *)
(* A token that expired is one that nobody presents any more.              *)
(***************************************************************************)
EXTENDS Integers, Sequences, FiniteSets

CONSTANTS
    Addresses, Home, \* the account's first address
    Tomb,            \* deletedEmail(user)
    Jobs,            \* slots for concurrent requests
    MaxLinks         \* bound: links ever made

ASSUME HomeAssumption == Home \in Addresses /\ Tomb \notin Addresses
ASSUME MaxLinksAssumption == MaxLinks \in Nat

VARIABLES
    address, confirmed,  \* user.email, user.emailVerified
    federated,           \* the account has provider identities
    links,               \* every recovery or change token ever made
    delivered,           \* tokens whose mail was sent
    resets, bound,       \* recovery tokens with a reset row, with an address row
    pending,             \* change tokens with a row
    lately,              \* the pending change is less than a minute old
    interval,            \* a live row marks the recovery interval
    logged,              \* every session opened
    others,              \* addresses of other accounts
    job,                 \* the requests in progress
    presented,           \* tokens that were used up
    killed               \* tokens that a change or deletion found unused

accountVars == <<address, confirmed, federated, links, delivered, resets, bound, pending, lately,
                 interval, logged, others, job, presented, killed>>

NoJob == [pc |-> "idle", to |-> Home, prev |-> {}, tok |-> 0]
On(j, l) == job[j].pc = l
Work(j, x) == job' = [job EXCEPT ![j] = x]
Then(j, l) == Work(j, [job[j] EXCEPT !.pc = l])
Reply(j) == Work(j, NoJob)
LoggedIn(s) == logged[s].live
NewLink == Len(links) + 1

AccountInit ==
    /\ address = Home /\ confirmed \in BOOLEAN /\ federated = TRUE
    /\ links = <<>> /\ delivered = {} /\ resets = {} /\ bound = {} /\ pending = {}
    /\ lately = FALSE /\ interval = FALSE
    /\ logged = <<[live |-> TRUE, recovery |-> FALSE]>> /\ others = {}
    /\ job = [j \in Jobs |-> NoJob] /\ presented = {} /\ killed = {}

\* retireRecoveryLinks: the tokens in T go, with their address rows.
Retire(T) == resets' = resets \ T /\ bound' = bound \ T
\* Mutant: nothing is retired.
RetireAll_Not == UNCHANGED <<resets, bound>>
RetireAll == Retire(resets)

(***************************************************************************)
(* POST /recover.                                                          *)
(***************************************************************************)
Recover(j, a) ==
    /\ On(j, "idle") /\ address = a
    /\ Work(j, [NoJob EXCEPT !.pc = "claim", !.to = a])
    /\ UNCHANGED <<address, confirmed, federated, links, delivered, resets, bound, pending, lately,
                   interval, logged, others, presented, killed>>

\* claimRecoveryInterval, under its advisory lock.
ClaimInterval(j) ==
    /\ On(j, "claim")
    /\ IF interval THEN Reply(j) ELSE Work(j, [job[j] EXCEPT !.pc = "lookup", !.prev = resets])
    /\ interval' = TRUE
    /\ UNCHANGED <<address, confirmed, federated, links, delivered, resets, bound, pending, lately,
                   logged, others, presented, killed>>

\* Better Auth's requestPasswordReset looks the user up again and makes a token.
LookUpUser(j) ==
    /\ On(j, "lookup")
    /\ Then(j, IF address = job[j].to THEN "token" ELSE "settle")
    /\ UNCHANGED <<address, confirmed, federated, links, delivered, resets, bound, pending, lately,
                   interval, logged, others, presented, killed>>
MakeToken(j) ==
    /\ On(j, "token") /\ Len(links) < MaxLinks
    /\ links' = Append(links, [from |-> job[j].to, to |-> job[j].to, mute |-> FALSE])
    /\ resets' = resets \cup {NewLink}
    /\ Work(j, [job[j] EXCEPT !.pc = "bind", !.tok = NewLink])
    /\ UNCHANGED <<address, confirmed, federated, delivered, bound, pending, lately,
                   interval, logged, others, presented, killed>>

BindRecoveryLink(j) ==
    /\ On(j, "bind")
    /\ bound' = bound \cup {job[j].tok}
    /\ Then(j, "mail")
    /\ UNCHANGED <<address, confirmed, federated, links, delivered, resets, pending, lately,
                   interval, logged, others, presented, killed>>

SendResetPassword(j) ==
    /\ On(j, "mail")
    /\ \/ delivered' = delivered \cup {job[j].tok} /\ Then(j, "settle")
       \/ UNCHANGED delivered /\ Then(j, "drop")
    /\ UNCHANGED <<address, confirmed, federated, links, resets, bound, pending, lately,
                   interval, logged, others, presented, killed>>

DropRecoveryLink(j) ==
    /\ On(j, "drop")
    /\ Retire({job[j].tok}) /\ Then(j, "settle")
    /\ UNCHANGED <<address, confirmed, federated, links, delivered, pending, lately,
                   interval, logged, others, presented, killed>>

\* settleRecoveryInterval: the newest token that is not an earlier one replaces
\* the others; without one the interval is reopened.
Issued(j) == resets \ job[j].prev
SettleInterval(j) ==
    /\ On(j, "settle")
    /\ IF Issued(j) # {}
         THEN \E t \in Issued(j) : (\A u \in Issued(j) : u <= t)
                /\ Work(j, [job[j] EXCEPT !.pc = "retire", !.tok = t]) /\ UNCHANGED interval
         ELSE Reply(j) /\ interval' = FALSE
    /\ UNCHANGED <<address, confirmed, federated, links, delivered, resets, bound, pending, lately,
                   logged, others, presented, killed>>
\* Mutant: earlier links are left to expire.
RetireOlder_None(j) ==
    /\ On(j, "retire") /\ Reply(j)
    /\ UNCHANGED <<address, confirmed, federated, links, delivered, resets, bound, pending, lately,
                   interval, logged, others, presented, killed>>
RetireOlder(j) ==
    /\ On(j, "retire")
    /\ Retire(resets \ {job[j].tok}) /\ Reply(j)
    /\ UNCHANGED <<address, confirmed, federated, links, delivered, pending, lately,
                   interval, logged, others, presented, killed>>

(***************************************************************************)
(* POST /verify.                                                           *)
(***************************************************************************)
ConsumeReset(j, t) ==
    /\ On(j, "idle") /\ t \in resets \cap delivered
    /\ resets' = resets \ {t} /\ presented' = presented \cup {t}
    /\ Work(j, [NoJob EXCEPT !.pc = "confirm", !.tok = t])
    /\ UNCHANGED <<address, confirmed, federated, links, delivered, bound, pending, lately,
                   interval, logged, others, killed>>

LogOutAll == [s \in DOMAIN logged |-> [logged[s] EXCEPT !.live = FALSE]]

\* The address the token was mailed to must still be the account's.  When it is
\* confirmed for the first time, identities and sessions go.
ConfirmRecoveredUser(j) ==
    LET t == job[j].tok IN
    /\ On(j, "confirm")
    /\ bound' = bound \ {t}
    /\ IF t \in bound /\ links[t].to = address
         THEN /\ confirmed' = TRUE /\ Then(j, "openRecovery")
              /\ IF confirmed THEN UNCHANGED <<federated, logged>>
                              ELSE federated' = FALSE /\ logged' = LogOutAll
         ELSE Reply(j) /\ UNCHANGED <<confirmed, federated, logged>>
    /\ UNCHANGED <<address, links, delivered, resets, pending, lately, interval, others, presented, killed>>

OpenSession(j) ==
    /\ job[j].pc \in {"openRecovery", "openSession"}
    /\ logged' = Append(logged, [live |-> TRUE, recovery |-> On(j, "openRecovery")])
    /\ Reply(j)
    /\ UNCHANGED <<address, confirmed, federated, links, delivered, resets, bound, pending, lately,
                   interval, others, presented, killed>>

\* pendingEmailChange, before the lock.
ReadPending(j, t) ==
    /\ On(j, "idle") /\ t \in pending \cap delivered
    /\ Work(j, [NoJob EXCEPT !.pc = "apply", !.tok = t])
    /\ UNCHANGED <<address, confirmed, federated, links, delivered, resets, bound, pending, lately,
                   interval, logged, others, presented, killed>>

\* The rest of applyEmailChange: refused and rolled back when the address is taken.
ApplyEmailChange(j) ==
    LET t == job[j].tok IN
    /\ On(j, "apply")
    /\ IF t \in pending /\ links[t].from = address /\ links[t].to \notin others
         THEN /\ killed' = killed \cup resets \cup (pending \ {t}) /\ presented' = presented \cup {t}
              /\ RetireAll /\ pending' = {}
              /\ address' = links[t].to /\ confirmed' = TRUE
              /\ Then(j, "openSession")
         ELSE /\ pending' = IF links[t].from = address THEN pending ELSE pending \ {t}
              /\ Reply(j) /\ UNCHANGED <<address, confirmed, resets, bound, presented, killed>>
    /\ UNCHANGED <<federated, links, delivered, lately, interval, logged, others>>

(***************************************************************************)
(* PUT /user and DELETE /user, under the user's lock.                      *)
(***************************************************************************)
\* updateNativeCredential and finishPasswordChange, once the policy is met.
ChangePassword(s) ==
    /\ LoggedIn(s) /\ address # Tomb
    /\ logged' = [r \in DOMAIN logged |-> IF r = s THEN [logged[r] EXCEPT !.recovery = FALSE]
                                          ELSE [logged[r] EXCEPT !.live = FALSE]]
    /\ killed' = killed \cup resets /\ RetireAll
    /\ UNCHANGED <<address, confirmed, federated, links, delivered, pending, lately,
                   interval, others, job, presented>>

\* Once a minute; a new change replaces the pending one.  An address another
\* account has is staged and not mailed.
StageAddressChange(j, s, a) ==
    /\ On(j, "idle") /\ LoggedIn(s) /\ address # Tomb /\ a # address /\ ~(pending # {} /\ lately)
    /\ Len(links) < MaxLinks
    /\ links' = Append(links, [from |-> address, to |-> a, mute |-> a \in others])
    /\ pending' = {NewLink} /\ lately' = TRUE
    /\ IF a \in others THEN UNCHANGED job ELSE Work(j, [NoJob EXCEPT !.pc = "deliver", !.tok = NewLink])
    /\ UNCHANGED <<address, confirmed, federated, delivered, resets, bound,
                   interval, logged, others, presented, killed>>

DeliverAddressChange(j) ==
    /\ On(j, "deliver")
    /\ \/ delivered' = delivered \cup {job[j].tok} /\ Reply(j)
       \/ UNCHANGED delivered /\ Then(j, "dropChange")
    /\ UNCHANGED <<address, confirmed, federated, links, resets, bound, pending, lately,
                   interval, logged, others, presented, killed>>
DropEmailChange(j) ==
    /\ On(j, "dropChange")
    /\ pending' = pending \ {job[j].tok} /\ Reply(j)
    /\ UNCHANGED <<address, confirmed, federated, links, delivered, resets, bound, lately,
                   interval, logged, others, presented, killed>>

\* deleteSessionUser and tombstoneUser, within ten minutes of the sign-in.
DeleteAccount(s) ==
    /\ LoggedIn(s) /\ address # Tomb
    /\ address' = Tomb /\ confirmed' = FALSE /\ federated' = FALSE
    /\ killed' = killed \cup resets \cup pending /\ RetireAll
    /\ interval' = FALSE /\ pending' = {} /\ logged' = LogOutAll
    /\ UNCHANGED <<links, delivered, lately, others, job, presented>>

(***************************************************************************)
(* Time, sessions that end, and other accounts.                            *)
(***************************************************************************)
MinutePasses ==
    /\ interval \/ lately
    /\ interval' = FALSE /\ lately' = FALSE
    /\ UNCHANGED <<address, confirmed, federated, links, delivered, resets, bound, pending,
                   logged, others, job, presented, killed>>
LogOut(s) ==
    /\ LoggedIn(s) /\ logged' = [logged EXCEPT ![s].live = FALSE]
    /\ UNCHANGED <<address, confirmed, federated, links, delivered, resets, bound, pending, lately,
                   interval, others, job, presented, killed>>
OtherTakes(a) ==
    /\ a # address /\ a \notin others /\ others' = others \cup {a}
    /\ UNCHANGED <<address, confirmed, federated, links, delivered, resets, bound, pending, lately,
                   interval, logged, job, presented, killed>>

AccountServe(j) ==
    \/ ClaimInterval(j) \/ LookUpUser(j) \/ MakeToken(j) \/ BindRecoveryLink(j) \/ SendResetPassword(j)
    \/ DropRecoveryLink(j) \/ SettleInterval(j) \/ RetireOlder(j)
    \/ ConfirmRecoveredUser(j) \/ OpenSession(j) \/ ApplyEmailChange(j)
    \/ DeliverAddressChange(j) \/ DropEmailChange(j)

AccountNext ==
    \/ \E j \in Jobs :
         \/ AccountServe(j)
         \/ \E a \in Addresses : Recover(j, a) \/ \E s \in DOMAIN logged : StageAddressChange(j, s, a)
         \/ \E t \in DOMAIN links : ConsumeReset(j, t) \/ ReadPending(j, t)
    \/ \E s \in DOMAIN logged : ChangePassword(s) \/ DeleteAccount(s) \/ LogOut(s)
    \/ MinutePasses \/ \E a \in Addresses : OtherTakes(a)

AccountSpec == AccountInit /\ [][AccountNext]_accountVars

(***************************************************************************)
(* Properties.                                                             *)
(***************************************************************************)
JobPcs == {"idle", "claim", "lookup", "token", "bind", "mail", "drop", "settle", "retire",
           "confirm", "openRecovery", "openSession", "apply", "deliver", "dropChange"}

\* Every variable has its type, and rows name tokens that were made.
AccountTypeOK ==
    /\ address \in Addresses \cup {Tomb} /\ {confirmed, federated, lately, interval} \subseteq BOOLEAN
    /\ links \in Seq([from : Addresses, to : Addresses, mute : BOOLEAN]) /\ Len(links) <= MaxLinks
    /\ delivered \cup resets \cup bound \cup pending \cup presented \cup killed \subseteq DOMAIN links
    /\ logged \in Seq([live : BOOLEAN, recovery : BOOLEAN]) /\ others \subseteq Addresses
    /\ job \in [Jobs -> [pc : JobPcs, to : Addresses, prev : SUBSET DOMAIN links,
                         tok : {0} \cup DOMAIN links]]

AllReplied == \A j \in Jobs : On(j, "idle")

\* "GoTrue keeps one recovery token per user", and one email-change token: once all
\* requests are answered, however they overlapped and whichever mails failed.
OneLinkEach == AllReplied => Cardinality(resets) <= 1 /\ Cardinality(pending) <= 1

\* "An undelivered link must not stay valid."
UndeliveredIsDropped == AllReplied =>
    /\ resets \cap bound \subseteq delivered
    /\ \A t \in pending : t \in delivered \/ links[t].mute

\* Once all requests are answered, an account has one link of a kind at most, and it
\* was delivered.
LinksSettle == OneLinkEach /\ UndeliveredIsDropped

\* "Pending recovery links die" with a password change, and all links with a change of
\* address or a deletion: no session opens through a link that was unused then.
OldLinksDie == [][\A j \in Jobs : OpenSession(j) => job[j].tok \notin killed]_accountVars

\* An address is confirmed only by a link that was mailed to it, also when address
\* changes, recoveries and deletion overlap.
ConfirmedIsProven ==
    [][confirmed' => (confirmed /\ address' = address) \/ \E t \in presented' : links[t].to = address']_accountVars

\* "Every pending recovery or email-change link of the user is removed": nothing
\* stages or confirms anything for a deleted account.
DeletedStaysOut == address = Tomb => pending = {} /\ ~confirmed /\ ~federated

\* What an account has once its requests are answered, and what it has no more once deleted.
LinksEnd == LinksSettle /\ DeletedStaysOut
\* What a link is good for.
LinksProve == OldLinksDie /\ ConfirmedIsProven
=============================================================================
