------------------------------ MODULE FallbackUsers ------------------------------
(***************************************************************************)
(* The users of the in-memory auth store (auth-store.ts) and the handlers  *)
(* of the fallback routes that read and change them (authPlugin of         *)
(* auth.ts).  A user is one object that two maps lead to, by its id and by *)
(* the address it signed up with.  Hashing and verifying a password are    *)
(* awaited, with what was read before.                                     *)
(*                                                                         *)
(* A hash is known by its password.  Refresh tokens are in FallbackAuth;   *)
(* an access token is known by its user's id and outlives a restart.  A    *)
(* change of the address stands for one of the metadata as well.           *)
(***************************************************************************)
EXTENDS Integers, Sequences, FiniteSets

CONSTANTS Mails,          \* addresses
          Passwords,      \* passwords
          NotGiven,       \* what a body leaves out
          UserCalls,      \* slots for concurrent requests
          MaxPeople,      \* bound: users ever made
          MaxPatches      \* bound: requests of PATCH /user that are let in

VARIABLES people,         \* every user ever made, by its id: [email, password, had], the last a history
          byId, byMail,   \* the maps: ids, and address -> id
          awaited,        \* what each call awaits
          issued,         \* access tokens: ids of users
          patches         \* requests let in
accountsVars == <<people, byId, byMail, awaited, issued, patches>>

NotAwaiting == [pc |-> "idle"]
AccountsInit ==
    /\ people = <<>> /\ byId = {} /\ byMail = [m \in {} |-> 0]
    /\ awaited = [h \in UserCalls |-> NotAwaiting] /\ issued = {} /\ patches = 0

StartCall(h, call) == awaited[h] = NotAwaiting /\ awaited' = [awaited EXCEPT ![h] = call]
EndCall(h) == awaited' = [awaited EXCEPT ![h] = NotAwaiting]
GiveToken(id) == issued' = issued \cup {id}

(* -------- sign-up and sign-in -------- *)
SignUp(h, mail, password) ==
    /\ mail \notin DOMAIN byMail /\ StartCall(h, [pc |-> "signUp", mail |-> mail, password |-> password])
    /\ UNCHANGED <<people, byId, byMail, issued, patches>>

NewUser(mail, password) ==
    LET id == Len(people) + 1 IN
    /\ people' = Append(people, [email |-> mail, password |-> password, had |-> {password}])
    /\ byId' = byId \cup {id}
    /\ byMail' = [m \in DOMAIN byMail \cup {mail} |-> IF m = mail THEN id ELSE byMail[m]]
    /\ GiveToken(id)
MakeUser(h) ==
    /\ awaited[h].pc = "signUp" /\ Len(people) < MaxPeople /\ EndCall(h) /\ UNCHANGED patches
    /\ IF awaited[h].mail \in DOMAIN byMail THEN UNCHANGED <<people, byId, byMail, issued>>
       ELSE NewUser(awaited[h].mail, awaited[h].password)

\* What a proof is taken against is the hash of the user found, as it is now.
AgainstHash(id, given) == [id |-> id, given |-> given, hash |-> people[id].password]
SignInWith(h, mail, password) ==
    /\ mail \in DOMAIN byMail
    /\ StartCall(h, [pc |-> "signIn", proof |-> AgainstHash(byMail[mail], password)])
    /\ UNCHANGED <<people, byId, byMail, issued, patches>>

Proves(h) == awaited[h].proof.given = awaited[h].proof.hash
\* The user answered is the one found before.
EndSignIn(h) ==
    /\ awaited[h].pc = "signIn" /\ EndCall(h) /\ UNCHANGED <<people, byId, byMail, patches>>
    /\ IF Proves(h) THEN GiveToken(awaited[h].proof.id) ELSE UNCHANGED issued

(* -------- a user with a token -------- *)
\* GET /session and GET /user: the user as the store has it, or none.
SessionUser(token) == IF token \in byId THEN {people[token]} ELSE {}

\* Users in the calls that await see each other's changes: the object is the same.
PatchUser(id, body) ==
    people' = [people EXCEPT ![id].email = IF body.email = NotGiven THEN @ ELSE body.email]
\* A password that comes without the current one is refused.
StartPatch(h, token, body) ==
    /\ token \in byId /\ patches < MaxPatches /\ patches' = patches + 1
    /\ UNCHANGED <<byId, byMail, issued>>
    /\ IF body.password = NotGiven
       THEN PatchUser(token, body) /\ UNCHANGED awaited
       ELSE /\ UNCHANGED people
            /\ StartCall(h, [pc |-> "prove", body |-> body, proof |-> AgainstHash(token, body.current)])
ProvePatch(h) ==
    /\ awaited[h].pc = "prove" /\ UNCHANGED <<people, byId, byMail, issued, patches>>
    /\ IF Proves(h) THEN awaited' = [awaited EXCEPT ![h].pc = "patch"] ELSE EndCall(h)
\* The new hash, the address and the data, whatever another request wrote meanwhile; the map by address
\* stays as it is.
FinishPatch(h) ==
    LET id == awaited[h].proof.id  body == awaited[h].body IN
    /\ awaited[h].pc = "patch" /\ EndCall(h) /\ UNCHANGED <<byId, byMail, issued, patches>>
    /\ people' = [people EXCEPT ![id] = [email |-> IF body.email = NotGiven THEN @.email ELSE body.email,
                                         password |-> body.password, had |-> @.had \cup {body.password}]]

\* The process restarts: the maps are empty, tokens are not.
ForgetUsers ==
    /\ byId # {} /\ byId' = {} /\ byMail' = [m \in {} |-> 0] /\ awaited' = [h \in UserCalls |-> NotAwaiting]
    /\ UNCHANGED <<people, issued, patches>>

(* -------- next -------- *)
PatchBodies ==
    {[email |-> m, password |-> NotGiven, current |-> NotGiven] : m \in Mails}
    \cup [email : {NotGiven}, password : Passwords, current : Passwords]
AccountsNext ==
    \/ \E h \in UserCalls :
          \/ \E m \in Mails, p \in Passwords : SignUp(h, m, p) \/ SignInWith(h, m, p)
          \/ MakeUser(h) \/ EndSignIn(h) \/ ProvePatch(h) \/ FinishPatch(h)
          \/ \E t \in issued, b \in PatchBodies : StartPatch(h, t, b)
    \/ ForgetUsers

AccountsSpec == AccountsInit /\ [][AccountsNext]_accountsVars

AccountsTypeOK ==
    /\ byId \subseteq DOMAIN people /\ issued \subseteq DOMAIN people /\ DOMAIN byMail \subseteq Mails
    /\ \A h \in UserCalls : awaited[h].pc \in {"idle", "signUp", "signIn", "prove", "patch"}

(* -------- properties -------- *)
\* Each user has one address to sign in by, and no two have the same, however their sign-ups overlap.
OneAddressEach ==
    /\ byId = {byMail[m] : m \in DOMAIN byMail}
    /\ \A m, n \in DOMAIN byMail : byMail[m] = byMail[n] => m = n
\* A change of the password is made only for one who gave a password that the user has or has had.
PasswordsProven ==
    \A h \in UserCalls : awaited[h].pc = "patch" => awaited[h].proof.given \in people[awaited[h].proof.id].had
\* A user signs in by the address it shows.  False: a change of address leaves the map as it is.
ShownAddressLeads == \A id \in byId : people[id].email \in DOMAIN byMail /\ byMail[people[id].email] = id
\* One change of the password is proved by the password it replaces.  False: two that overlap are
\* proved by the same one.
ReplacesWhatItProved ==
    \A h \in UserCalls : awaited[h].pc = "patch" => people[awaited[h].proof.id].password = awaited[h].proof.hash
==================================================================================
