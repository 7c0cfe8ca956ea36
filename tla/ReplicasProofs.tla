---------------------------- MODULE ReplicasProofs ----------------------------
(***************************************************************************)
(* Proofs about Replicas, for any number of replicas, migrations, versions *)
(* and faults.                                                             *)
(*                                                                         *)
(* A migration can be committed twice only if two sessions have it in      *)
(* their transactions at once, or if one ran it from a ledger it read too  *)
(* early.  So the invariant says who may have a transaction at all: the    *)
(* session that holds the advisory lock (TxInv), from the time its replica *)
(* learns of it until it unlocks (ProcInv); whoever loses the connection   *)
(* can no longer write, and PostgreSQL drops lock and transaction at once. *)
(***************************************************************************)
EXTENDS Replicas, TLAPS, SequenceTheorems

\* The transaction of the session y, by where its replica x is.
TxOf(x, y) ==
    /\ x.pc # "commit" => ~y.commit
    /\ x.pc \in {"load", "apply"} => y.done = y.named
    /\ x.pc \in {"apply", "record"} => x.todo \in SUBSET (Migrations \ ledger)
    /\ x.pc = "record" => y.done = y.named \cup {x.cur} /\ x.cur \in Migrations \ ledger
    /\ x.pc = "commit" /\ ~y.commit => y.done = {} /\ y.named = {}
    /\ x.pc \in {"lock", "unlock", "unlockFailed"} => y.done = {} /\ y.named = {}

ProcInv(x) ==
    /\ x.timer => x.timers > 0
    /\ x.pc = "createTrigger" => x.cur \in Tables
    /\ \A s \in x.pooled : s \in DOMAIN sessions /\ s \notin Range(queue) /\ s # lock
    /\ x.pc \in LockPcs => x.ses \in DOMAIN sessions
    /\ x.pc \in LockPcs /\ ~sessions[x.ses].lost =>
         /\ x.pc # "lock" => lock = x.ses
         /\ TxOf(x, sessions[x.ses])

\* Only the holder of the lock has a transaction, and it repeats nothing.
TxInv == \A s \in DOMAIN sessions :
    /\ sessions[s].done # {} \/ sessions[s].named # {} \/ sessions[s].commit => lock = s
    /\ sessions[s].done \cap ledger = {}
    /\ sessions[s].commit => sessions[s].done = sessions[s].named

QueueInv ==
    /\ \A i, j \in DOMAIN queue : queue[i] = queue[j] => i = j
    /\ lock \notin Range(queue)

OwnSession == \A r, q \in Replicas :
    r # q /\ rep[r].pc \in LockPcs /\ rep[q].pc \in LockPcs => rep[r].ses # rep[q].ses

Inv ==
    /\ TypeOK /\ MigratedOnce /\ TxInv /\ QueueInv /\ OwnSession
    /\ \A r \in Replicas : ProcInv(rep[r])

(***************************************************************************)
(* Steps of one replica, by what they change.                              *)
(***************************************************************************)
\* A step that leaves PostgreSQL alone.
LEMMA LocalStep ==
  ASSUME Inv, NEW r \in Replicas, NEW x \in ProcessType,
         rep' = [rep EXCEPT ![r] = x], UNCHANGED pgVars, ProcInv(x),
         x.pc \in LockPcs => rep[r].pc \in LockPcs /\ x.ses = rep[r].ses
  PROVE  Inv'
<1>1. TypeOK'
  BY DEF Inv, TypeOK, pgVars
<1>2. MigratedOnce' /\ TxInv' /\ QueueInv'
  BY DEF Inv, MigratedOnce, TxInv, QueueInv, pgVars
<1>3. /\ rep'[r] = x
      /\ \A q \in Replicas \ {r} : rep'[q] = rep[q]
  BY DEF Inv, TypeOK
<1>4. OwnSession'
  BY <1>3 DEF Inv, OwnSession
<1>5. \A q \in Replicas : ProcInv(rep[q])'
  <2> SUFFICES ASSUME NEW q \in Replicas PROVE ProcInv(rep[q])'
    OBVIOUS
  <2>1. \A z : ProcInv(z) /\ rep'[q] = z => ProcInv(rep[q])'
    BY DEF ProcInv, TxOf, pgVars
  <2>2. ProcInv(rep'[q])
    BY <1>3 DEF Inv
  <2> QED BY <2>1, <2>2
<1> QED BY <1>1, <1>2, <1>4, <1>5 DEF Inv

\* A statement of the replica's transaction, which becomes y.
LEMMA SessionStep ==
  ASSUME Inv, NEW r \in Replicas, NEW x \in ProcessType, NEW y \in SessionType,
         rep' = [rep EXCEPT ![r] = x],
         sessions' = [sessions EXCEPT ![rep[r].ses] = y],
         UNCHANGED <<lock, queue, ledger, applied, tables, triggers>>,
         rep[r].pc \in LockPcs, ~sessions[rep[r].ses].lost, lock = rep[r].ses,
         x.pc \in LockPcs, x.ses = rep[r].ses, x.pooled = rep[r].pooled, x.timer => x.timers > 0,
         TxOf(x, y), y.done \cap ledger = {}, y.commit => y.done = y.named
  PROVE  Inv'
<1> DEFINE s == rep[r].ses
<1>0. /\ s \in DOMAIN sessions
      /\ sessions \in Seq(SessionType)
      /\ \A q \in Replicas : ProcInv(rep[q])
  BY DEF Inv, ProcInv, TypeOK
<1>1. /\ sessions' \in Seq(SessionType)
      /\ Len(sessions') = Len(sessions)
      /\ DOMAIN sessions' = DOMAIN sessions
      /\ sessions'[s] = y
      /\ \A t \in DOMAIN sessions \ {s} : sessions'[t] = sessions[t]
  BY <1>0, ExceptSeq, LenProperties
<1>2. TypeOK'
  BY <1>1 DEF Inv, TypeOK
<1>3. /\ rep'[r] = x
      /\ \A q \in Replicas \ {r} : rep'[q] = rep[q]
  BY DEF Inv, TypeOK
<1>4. MigratedOnce' /\ QueueInv'
  BY DEF Inv, MigratedOnce, QueueInv
<1>5. TxInv'
  BY <1>1 DEF Inv, TxInv
<1>6. OwnSession'
  BY <1>3 DEF Inv, OwnSession
<1>7. \A q \in Replicas : ProcInv(rep[q])'
  <2> SUFFICES ASSUME NEW q \in Replicas PROVE ProcInv(rep[q])'
    OBVIOUS
  <2>1. CASE q = r
    BY <1>0, <1>1, <1>3, <2>1 DEF ProcInv, TxOf, LockPcs
  <2>2. CASE q # r
    <3>1. rep[q].pc \in LockPcs => rep[q].ses # s
      BY <2>2 DEF Inv, OwnSession
    <3>2. ProcInv(rep[q])
      BY <1>0
    <3>3. /\ rep'[q] = rep[q]
          /\ rep[q].pc \in LockPcs => sessions'[rep[q].ses] = sessions[rep[q].ses]
      BY <1>1, <1>3, <2>2, <3>1, <3>2 DEF ProcInv
    <3> QED BY <1>1, <3>1, <3>2, <3>3 DEF ProcInv, TxOf
  <2> QED BY <2>1, <2>2
<1> QED BY <1>2, <1>4, <1>5, <1>6, <1>7 DEF Inv

\* What closing connections changes: PostgreSQL has not noticed yet.
ClosedOnly ==
    /\ sessions' \in Seq(SessionType)
    /\ Len(sessions') = Len(sessions)
    /\ DOMAIN sessions' = DOMAIN sessions
    /\ \A t \in DOMAIN sessions :
         /\ sessions'[t].done = sessions[t].done /\ sessions'[t].named = sessions[t].named
         /\ sessions'[t].commit = sessions[t].commit
         /\ sessions[t].lost => sessions'[t].lost

LEMMA Closing ==
  ASSUME TypeOK, NEW S, sessions' = Closed(S) \/ UNCHANGED sessions
  PROVE  ClosedOnly
<1>1. /\ sessions \in Seq(SessionType) /\ DOMAIN sessions = 1..Len(sessions) /\ Len(sessions) \in Nat
      /\ \A t \in DOMAIN sessions : sessions[t] \in SessionType
  BY LenProperties DEF TypeOK
<1>2. CASE UNCHANGED sessions
  BY <1>1, <1>2 DEF ClosedOnly
<1>3. CASE sessions' = Closed(S)
  <2>2. \A t \in DOMAIN sessions :
          LET y == IF t \in S THEN [sessions[t] EXCEPT !.lost = TRUE] ELSE sessions[t]
          IN /\ y \in SessionType
             /\ y.done = sessions[t].done /\ y.named = sessions[t].named
             /\ y.commit = sessions[t].commit /\ (sessions[t].lost => y.lost)
    BY <1>1 DEF SessionType
  <2>3. sessions' \in [1..Len(sessions) -> SessionType]
    BY <1>1, <1>3, <2>2 DEF Closed
  <2>4. sessions' \in Seq(SessionType) /\ Len(sessions') = Len(sessions) /\ DOMAIN sessions' = DOMAIN sessions
    BY <1>1, <2>3, SeqDef, LenProperties
  <2> QED BY <1>3, <2>2, <2>4 DEF Closed, ClosedOnly
<1> QED BY <1>2, <1>3

\* A step outside the lock that creates tables or triggers or closes connections.
LEMMA OtherStep ==
  ASSUME Inv, NEW r \in Replicas, NEW x \in ProcessType,
         rep' = [rep EXCEPT ![r] = x], ClosedOnly, UNCHANGED <<lock, queue, ledger, applied>>,
         tables' \subseteq Tables, triggers' \subseteq Tables,
         x = rep[r] \/ x.pc \notin LockPcs \cup {"createTrigger"},
         x.pooled \subseteq rep[r].pooled, x.timer => x.timers > 0
  PROVE  Inv'
<1>1. TypeOK'
  BY DEF Inv, TypeOK, ClosedOnly
<1>2. MigratedOnce' /\ TxInv' /\ QueueInv'
  BY DEF Inv, MigratedOnce, TxInv, QueueInv, ClosedOnly
<1>3. /\ rep'[r] = x
      /\ \A q \in Replicas \ {r} : rep'[q] = rep[q]
  BY DEF Inv, TypeOK
<1>4. OwnSession'
  BY <1>3 DEF Inv, OwnSession
<1>5. \A q \in Replicas : ProcInv(rep[q])'
  <2> SUFFICES ASSUME NEW q \in Replicas PROVE ProcInv(rep[q])'
    OBVIOUS
  <2>1. ProcInv(rep[q]) /\ ProcInv(rep[r])
    BY DEF Inv
  <2>2. CASE rep'[q] = rep[q]
    BY <2>1, <2>2 DEF ProcInv, TxOf, ClosedOnly
  <2>3. CASE rep'[q] # rep[q]
    BY <1>3, <2>1, <2>3 DEF ProcInv, ClosedOnly
  <2> QED BY <2>2, <2>3
<1> QED BY <1>1, <1>2, <1>4, <1>5 DEF Inv

(***************************************************************************)
(* The steps.                                                              *)
(***************************************************************************)
LEMMA CallKeeps ==
  ASSUME Inv, NEW r \in Replicas, NEW op \in {"start", "stop"}, Call(r, op)
  PROVE  Inv'
<1> DEFINE x == [rep[r] EXCEPT !.called = op, !.ops = Append(@, op)]
<1>1. rep[r] \in ProcessType /\ ProcInv(rep[r])
  BY DEF Inv, TypeOK
<1>2. /\ x \in ProcessType /\ x.pc = rep[r].pc /\ x.todo = rep[r].todo /\ x.cur = rep[r].cur
      /\ x.ses = rep[r].ses /\ x.pooled = rep[r].pooled /\ x.timer = rep[r].timer /\ x.timers = rep[r].timers
  BY <1>1, AppendProperties DEF ProcessType
<1>3. rep' = [rep EXCEPT ![r] = x] /\ UNCHANGED pgVars
  BY DEF Call, Assign
<1> HIDE DEF x
<1>4. ProcInv(x)
  BY <1>1, <1>2 DEF ProcInv, TxOf
<1> QED BY <1>1, <1>2, <1>3, <1>4, LocalStep

LEMMA LifecycleKeeps ==
  ASSUME Inv, NEW r \in Replicas, StartServer(r) \/ StopServer(r) \/ StartFailed(r) \/ Crash(r)
  PROVE  Inv'
<1>1. rep[r] \in ProcessType /\ ProcInv(rep[r]) /\ TypeOK /\ tables \subseteq Tables /\ triggers \subseteq Tables
  BY DEF Inv, TypeOK
<1>2. rep[r].ops # <<>> => Tail(rep[r].ops) \in Seq({"start", "stop"})
  BY <1>1, HeadTailProperties DEF ProcessType
<1>3. CASE StartServer(r)
  <2> DEFINE x == [rep[r] EXCEPT !.ops = Tail(@), !.pc = IF @ = "serving" THEN @ ELSE "connect"]
  <2>1. x \in ProcessType /\ x.pc \in {"serving", "connect"} /\ x.pooled = rep[r].pooled
        /\ x.timer = rep[r].timer /\ x.timers = rep[r].timers
    BY <1>1, <1>2, <1>3 DEF ProcessType, StartServer, Calls, Pcs, LockPcs
  <2>2. rep' = [rep EXCEPT ![r] = x] /\ UNCHANGED pgVars
    BY <1>3 DEF StartServer, Assign
  <2> HIDE DEF x
  <2>3. ClosedOnly
    BY <1>1, <2>2, Closing DEF pgVars
  <2> QED BY <1>1, <2>1, <2>2, <2>3, OtherStep DEF pgVars, LockPcs, ProcInv
<1>4. CASE StopServer(r)
  <2>1. CASE rep' = [rep EXCEPT ![r] = [rep[r] EXCEPT !.ops = Tail(@), !.called = "none"]] /\ UNCHANGED sessions /\ At(r, "serving")
    <3> DEFINE x == [rep[r] EXCEPT !.ops = Tail(@), !.called = "none"]
    <3>1. x \in ProcessType /\ x.pc = "serving" /\ x.pooled = rep[r].pooled
          /\ x.timer = rep[r].timer /\ x.timers = rep[r].timers
      BY <1>1, <1>2, <1>4, <2>1 DEF ProcessType, StopServer, Calls, At
    <3> HIDE DEF x
    <3>2. rep' = [rep EXCEPT ![r] = x]
      BY <2>1 DEF x
    <3>3. ClosedOnly
      BY <1>1, <2>1, Closing
    <3> QED BY <1>1, <1>4, <3>1, <3>2, <3>3, OtherStep DEF LockPcs, ProcInv, StopServer
  <2>2. CASE /\ sessions' = Closed(rep[r].pooled)
             /\ rep' = [rep EXCEPT ![r] = [rep[r] EXCEPT !.ops = Tail(@), !.pc = "down", !.pooled = {}, !.listener = FALSE,
                          !.timers = IF rep[r].timer THEN @ - 1 ELSE @, !.timer = FALSE]]
    <3> DEFINE x == [rep[r] EXCEPT !.ops = Tail(@), !.pc = "down", !.pooled = {}, !.listener = FALSE,
                          !.timers = IF rep[r].timer THEN @ - 1 ELSE @, !.timer = FALSE]
    <3>0. (IF rep[r].timer THEN rep[r].timers - 1 ELSE rep[r].timers) \in Nat
      BY <1>1 DEF ProcessType, ProcInv
    <3>1. x \in ProcessType /\ x.pc = "down" /\ x.pooled = {} /\ x.timer = FALSE
      BY <1>1, <1>2, <1>4, <3>0 DEF ProcessType, StopServer, Calls, Pcs
    <3> HIDE DEF x
    <3>2. rep' = [rep EXCEPT ![r] = x]
      BY <2>2 DEF x
    <3>3. ClosedOnly
      BY <1>1, <2>2, Closing
    <3> QED BY <1>1, <1>4, <3>1, <3>2, <3>3, OtherStep DEF LockPcs, StopServer
  <2> QED BY <1>4, <2>1, <2>2 DEF StopServer, Assign
<1>5. CASE StartFailed(r)
  <2> DEFINE x == [rep[r] EXCEPT !.pc = "down", !.listener = FALSE, !.pooled = {}]
  <2>1. x \in ProcessType /\ x.pc = "down" /\ x.pooled = {} /\ x.timer = rep[r].timer /\ x.timers = rep[r].timers
    BY <1>1 DEF ProcessType, Pcs
  <2>2. rep' = [rep EXCEPT ![r] = x]
    BY <1>5 DEF StartFailed, Assign
  <2> HIDE DEF x
  <2>3. ClosedOnly
    BY <1>1, <1>5, Closing DEF StartFailed
  <2> QED BY <1>1, <1>5, <2>1, <2>2, <2>3, OtherStep DEF LockPcs, ProcInv, StartFailed
<1>6. CASE Crash(r)
  <2>1. NewProcess \in ProcessType /\ NewProcess.pc = "down" /\ NewProcess.pooled = {} /\ NewProcess.timer = FALSE
    BY EmptySeq DEF NewProcess, ProcessType, Pcs, Stages
  <2>2. rep' = [rep EXCEPT ![r] = NewProcess]
    BY <1>6 DEF Crash, Assign
  <2>3. ClosedOnly
    BY <1>1, <1>6, Closing DEF Crash
  <2> QED BY <1>1, <1>6, <2>1, <2>2, <2>3, OtherStep DEF LockPcs, Crash
<1> QED BY <1>3, <1>4, <1>5, <1>6

\* What a connected replica knows of its session.
LEMMA LockSession ==
  ASSUME Inv, NEW r \in Replicas, rep[r].pc \in LockPcs, Connected(r)
  PROVE  /\ rep[r] \in ProcessType /\ ProcInv(rep[r])
         /\ rep[r].ses \in DOMAIN sessions /\ Session(r) \in SessionType
         /\ ~sessions[rep[r].ses].lost /\ TxOf(rep[r], Session(r))
         /\ rep[r].pc # "lock" => lock = rep[r].ses
<1>1. rep[r] \in ProcessType /\ ProcInv(rep[r]) /\ sessions \in Seq(SessionType)
  BY DEF Inv, TypeOK
<1>2. rep[r].ses \in DOMAIN sessions
  BY <1>1 DEF ProcInv
<1>3. Session(r) \in SessionType
  BY <1>1, <1>2, ElementOfSeq, LenProperties DEF Session
<1> QED BY <1>1, <1>2, <1>3 DEF ProcInv, Connected, Session

LEMMA LockAcquiredKeeps ==
  ASSUME Inv, NEW r \in Replicas, LockAcquired(r)
  PROVE  Inv'
<1> DEFINE x == [rep[r] EXCEPT !.pc = "load", !.stage = "system"]
<1>1. rep[r].pc = "lock" /\ lock = rep[r].ses /\ "lock" \in LockPcs
  BY DEF LockAcquired, At, LockPcs
<1>2. rep[r] \in ProcessType /\ ProcInv(rep[r]) /\ TxOf(rep[r], Session(r)) /\ rep[r].ses \in DOMAIN sessions
  BY <1>1, LockSession DEF LockAcquired
<1>3. /\ x \in ProcessType /\ x.pc = "load" /\ x.ses = rep[r].ses /\ x.pooled = rep[r].pooled
      /\ x.timer = rep[r].timer /\ x.timers = rep[r].timers
  BY <1>2 DEF ProcessType, Pcs, LockPcs, Stages
<1>4. rep' = [rep EXCEPT ![r] = x] /\ UNCHANGED pgVars
  BY DEF LockAcquired, Assign
<1> HIDE DEF x
<1>5. ProcInv(x)
  BY <1>1, <1>2, <1>3 DEF ProcInv, TxOf, Session
<1> QED BY <1>1, <1>3, <1>4, <1>5, LocalStep

LEMMA LoadAppliedKeeps ==
  ASSUME Inv, NEW r \in Replicas, LoadApplied(r)
  PROVE  Inv'
<1> DEFINE T == Range(List(r)) \ (ledger \cup Session(r).named)
           x == [rep[r] EXCEPT !.pc = "apply", !.todo = T]
<1>1. rep[r].pc = "load" /\ "load" \in LockPcs
  BY DEF LoadApplied, At, LockPcs
<1>2. /\ rep[r] \in ProcessType /\ ProcInv(rep[r]) /\ TxOf(rep[r], Session(r))
      /\ rep[r].ses \in DOMAIN sessions /\ lock = rep[r].ses
  BY <1>1, LockSession DEF LoadApplied
<1>3. List(r) \in Seq(Migrations)
  BY <1>2, ListsAssumption DEF List, ProcessType
<1>4. T \in SUBSET (Migrations \ ledger)
  BY <1>3, ElementOfSeq, LenProperties DEF Range
<1> HIDE DEF T
<1>5. /\ x \in ProcessType /\ x.pc = "apply" /\ x.todo = T /\ x.ses = rep[r].ses /\ x.pooled = rep[r].pooled
      /\ x.timer = rep[r].timer /\ x.timers = rep[r].timers
  BY <1>2, <1>4 DEF ProcessType, Pcs, LockPcs, Tables
<1>6. rep' = [rep EXCEPT ![r] = x] /\ UNCHANGED pgVars
  BY DEF LoadApplied, Assign, T
<1> HIDE DEF x
<1>7. ProcInv(x)
  BY <1>1, <1>2, <1>4, <1>5 DEF ProcInv, TxOf, Session
<1> QED BY <1>1, <1>5, <1>6, <1>7, LocalStep

LEMMA UpKeeps ==
  ASSUME Inv, NEW r \in Replicas, Up(r)
  PROVE  Inv'
<1>1. rep[r].pc = "apply" /\ "apply" \in LockPcs
  BY DEF Up, At, LockPcs
<1>2. /\ rep[r] \in ProcessType /\ ProcInv(rep[r]) /\ TxOf(rep[r], Session(r)) /\ Session(r) \in SessionType
      /\ rep[r].ses \in DOMAIN sessions /\ lock = rep[r].ses /\ ~sessions[rep[r].ses].lost
  BY <1>1, LockSession DEF Up
<1>3. PICK i \in DOMAIN List(r) :
        /\ List(r)[i] \in rep[r].todo
        /\ sessions' = [sessions EXCEPT ![rep[r].ses] = [Session(r) EXCEPT !.done = @ \cup {List(r)[i]}]]
        /\ rep' = [rep EXCEPT ![r] = [rep[r] EXCEPT !.pc = "record", !.cur = List(r)[i]]]
  BY DEF Up, SetSession, Assign
<1> DEFINE m == List(r)[i]
           x == [rep[r] EXCEPT !.pc = "record", !.cur = m]
           y == [Session(r) EXCEPT !.done = @ \cup {m}]
<1>4. m \in Migrations \ ledger /\ rep[r].todo \in SUBSET (Migrations \ ledger)
  BY <1>1, <1>2, <1>3 DEF TxOf
<1> HIDE DEF m
<1>5. /\ x \in ProcessType /\ x.pc = "record" /\ x.cur = m /\ x.todo = rep[r].todo /\ x.ses = rep[r].ses /\ x.pooled = rep[r].pooled
      /\ x.timer = rep[r].timer /\ x.timers = rep[r].timers
  BY <1>2, <1>4 DEF ProcessType, Pcs, LockPcs, Tables
<1>6. /\ y \in SessionType /\ y.done = Session(r).done \cup {m} /\ y.named = Session(r).named
      /\ y.commit = Session(r).commit
  BY <1>2, <1>4 DEF SessionType
<1>7. rep' = [rep EXCEPT ![r] = x] /\ sessions' = [sessions EXCEPT ![rep[r].ses] = y]
      /\ UNCHANGED <<lock, queue, ledger, applied, tables, triggers>>
  BY <1>3 DEF Up, m
<1> HIDE DEF x, y
<1>8. Session(r).done \cap ledger = {} /\ ~Session(r).commit /\ Session(r).done = Session(r).named
  BY <1>1, <1>2 DEF Inv, TxInv, Session, TxOf
<1>9. TxOf(x, y) /\ y.done \cap ledger = {} /\ ~y.commit /\ x.pc \in LockPcs
  BY <1>4, <1>5, <1>6, <1>8 DEF TxOf, LockPcs
<1>10. x.timer => x.timers > 0
  BY <1>2, <1>5 DEF ProcInv
<1> QED BY <1>1, <1>2, <1>5, <1>6, <1>7, <1>9, <1>10, SessionStep

LEMMA RecordKeeps ==
  ASSUME Inv, NEW r \in Replicas, Record(r)
  PROVE  Inv'
<1>1. rep[r].pc = "record" /\ "record" \in LockPcs
  BY DEF Record, At, LockPcs
<1>2. /\ rep[r] \in ProcessType /\ ProcInv(rep[r]) /\ TxOf(rep[r], Session(r)) /\ Session(r) \in SessionType
      /\ rep[r].ses \in DOMAIN sessions /\ lock = rep[r].ses /\ ~sessions[rep[r].ses].lost
  BY <1>1, LockSession DEF Record
<1> DEFINE m == rep[r].cur
           x == [rep[r] EXCEPT !.pc = "apply", !.todo = @ \ {m}, !.cur = "none"]
           y == [Session(r) EXCEPT !.named = @ \cup {m}]
<1>3. m \in Migrations \ ledger /\ ~Session(r).commit /\ Session(r).done = Session(r).named \cup {m}
  BY <1>1, <1>2 DEF TxOf
<1>4. rep[r].todo \in SUBSET (Migrations \ ledger)
  BY <1>1, <1>2 DEF TxOf
<1> HIDE DEF m
<1>5. /\ x \in ProcessType /\ x.pc = "apply" /\ x.todo \subseteq rep[r].todo /\ x.ses = rep[r].ses /\ x.pooled = rep[r].pooled
      /\ x.timer = rep[r].timer /\ x.timers = rep[r].timers
  BY <1>2 DEF ProcessType, Pcs, LockPcs
<1>6. /\ y \in SessionType /\ y.named = Session(r).named \cup {m} /\ y.done = Session(r).done
      /\ y.commit = Session(r).commit
  BY <1>2, <1>3 DEF SessionType
<1>7. rep' = [rep EXCEPT ![r] = x] /\ sessions' = [sessions EXCEPT ![rep[r].ses] = y]
      /\ UNCHANGED <<lock, queue, ledger, applied, tables, triggers>>
  BY DEF Record, SetSession, Assign, m
<1> HIDE DEF x, y
<1>8. Session(r).done \cap ledger = {}
  BY <1>2 DEF Inv, TxInv, Session
<1>9. TxOf(x, y) /\ y.done \cap ledger = {} /\ ~y.commit /\ x.pc \in LockPcs
  BY <1>3, <1>4, <1>5, <1>6, <1>8 DEF TxOf, LockPcs
<1>10. x.timer => x.timers > 0
  BY <1>2, <1>5 DEF ProcInv
<1> QED BY <1>1, <1>2, <1>5, <1>6, <1>7, <1>9, <1>10, SessionStep

LEMMA SendCommitKeeps ==
  ASSUME Inv, NEW r \in Replicas, SendCommit(r)
  PROVE  Inv'
<1>1. rep[r].pc = "apply" /\ "apply" \in LockPcs
  BY DEF SendCommit, At, LockPcs
<1>2. /\ rep[r] \in ProcessType /\ ProcInv(rep[r]) /\ TxOf(rep[r], Session(r)) /\ Session(r) \in SessionType
      /\ rep[r].ses \in DOMAIN sessions /\ lock = rep[r].ses /\ ~sessions[rep[r].ses].lost
  BY <1>1, LockSession DEF SendCommit
<1> DEFINE x == [rep[r] EXCEPT !.pc = "commit"]
           y == [Session(r) EXCEPT !.commit = TRUE]
<1>3. /\ x \in ProcessType /\ x.pc = "commit" /\ x.ses = rep[r].ses /\ x.pooled = rep[r].pooled
      /\ x.timer = rep[r].timer /\ x.timers = rep[r].timers
  BY <1>2 DEF ProcessType, Pcs, LockPcs
<1>4. y \in SessionType /\ y.done = Session(r).done /\ y.named = Session(r).named /\ y.commit = TRUE
  BY <1>2 DEF SessionType
<1>5. rep' = [rep EXCEPT ![r] = x] /\ sessions' = [sessions EXCEPT ![rep[r].ses] = y]
      /\ UNCHANGED <<lock, queue, ledger, applied, tables, triggers>>
  BY DEF SendCommit, SetSession, Goto, Assign
<1> HIDE DEF x, y
<1>6. Session(r).done \cap ledger = {} /\ Session(r).done = Session(r).named
  BY <1>1, <1>2 DEF Inv, TxInv, Session, TxOf
<1>7. TxOf(x, y) /\ y.done \cap ledger = {} /\ y.done = y.named /\ x.pc \in LockPcs
  BY <1>3, <1>4, <1>6 DEF TxOf, LockPcs
<1>8. x.timer => x.timers > 0
  BY <1>2, <1>3 DEF ProcInv
<1> QED BY <1>1, <1>2, <1>3, <1>4, <1>5, <1>7, <1>8, SessionStep

LEMMA RollbackKeeps ==
  ASSUME Inv, NEW r \in Replicas, Rollback(r)
  PROVE  Inv'
<1>1. rep[r].pc = "rollback" /\ "rollback" \in LockPcs
  BY DEF Rollback, At, LockPcs
<1>2. /\ rep[r] \in ProcessType /\ ProcInv(rep[r]) /\ TxOf(rep[r], Session(r)) /\ Session(r) \in SessionType
      /\ rep[r].ses \in DOMAIN sessions /\ lock = rep[r].ses /\ ~sessions[rep[r].ses].lost
  BY <1>1, LockSession DEF Rollback
<1> DEFINE x == [rep[r] EXCEPT !.pc = "unlockFailed"]
           y == [Session(r) EXCEPT !.done = {}, !.named = {}]
<1>3. /\ x \in ProcessType /\ x.pc = "unlockFailed" /\ x.ses = rep[r].ses /\ x.pooled = rep[r].pooled
      /\ x.timer = rep[r].timer /\ x.timers = rep[r].timers
  BY <1>2 DEF ProcessType, Pcs, LockPcs
<1>4. y \in SessionType /\ y.done = {} /\ y.named = {} /\ y.commit = Session(r).commit
  BY <1>2 DEF SessionType
<1>5. rep' = [rep EXCEPT ![r] = x] /\ sessions' = [sessions EXCEPT ![rep[r].ses] = y]
      /\ UNCHANGED <<lock, queue, ledger, applied, tables, triggers>>
  BY DEF Rollback, SetSession, Goto, Assign
<1> HIDE DEF x, y
<1>6. ~Session(r).commit
  BY <1>1, <1>2 DEF TxOf
<1>7. TxOf(x, y) /\ y.done \cap ledger = {} /\ ~y.commit /\ x.pc \in LockPcs
  BY <1>3, <1>4, <1>6 DEF TxOf, LockPcs
<1>8. x.timer => x.timers > 0
  BY <1>2, <1>3 DEF ProcInv
<1> QED BY <1>1, <1>2, <1>3, <1>4, <1>5, <1>7, <1>8, SessionStep

\* The remaining steps under the lock change the replica only.
LEMMA LockLocalKeeps ==
  ASSUME Inv, NEW r \in Replicas, NextStage(r) \/ Committed(r) \/ MigrationFails(r) \/ Aborted(r)
  PROVE  Inv'
<1>0. rep[r] \in ProcessType /\ ProcInv(rep[r])
  BY DEF Inv, TypeOK
<1>1. CASE NextStage(r)
  <2> DEFINE x == [rep[r] EXCEPT !.pc = "load", !.stage = "app"]
  <2>1. /\ x \in ProcessType /\ x.pc = "load" /\ x.ses = rep[r].ses /\ x.pooled = rep[r].pooled
        /\ x.timer = rep[r].timer /\ x.timers = rep[r].timers
    BY <1>0 DEF ProcessType, Pcs, LockPcs, Stages
  <2>2. rep' = [rep EXCEPT ![r] = x] /\ UNCHANGED pgVars /\ rep[r].pc = "apply"
    BY <1>1 DEF NextStage, Assign, At
  <2> HIDE DEF x
  <2>3. ProcInv(x)
    BY <1>0, <2>1, <2>2 DEF ProcInv, TxOf, LockPcs
  <2> QED BY <2>1, <2>2, <2>3, LocalStep DEF LockPcs
<1>2. CASE Committed(r)
  <2> DEFINE x == [rep[r] EXCEPT !.pc = "unlock"]
  <2>1. /\ x \in ProcessType /\ x.pc = "unlock" /\ x.ses = rep[r].ses /\ x.pooled = rep[r].pooled
        /\ x.timer = rep[r].timer /\ x.timers = rep[r].timers
    BY <1>0 DEF ProcessType, Pcs, LockPcs
  <2>2. rep' = [rep EXCEPT ![r] = x] /\ UNCHANGED pgVars /\ rep[r].pc = "commit" /\ ~Session(r).commit
    BY <1>2 DEF Committed, Assign, Goto, At
  <2> HIDE DEF x
  <2>3. ProcInv(x)
    BY <1>0, <2>1, <2>2 DEF ProcInv, TxOf, LockPcs, Session
  <2> QED BY <2>1, <2>2, <2>3, LocalStep DEF LockPcs
<1>3. CASE MigrationFails(r)
  <2> DEFINE x == [rep[r] EXCEPT !.pc = "rollback", !.todo = {}]
  <2>1. /\ x \in ProcessType /\ x.pc = "rollback" /\ x.ses = rep[r].ses /\ x.pooled = rep[r].pooled
        /\ x.timer = rep[r].timer /\ x.timers = rep[r].timers
    BY <1>0 DEF ProcessType, Pcs, LockPcs
  <2>2. rep' = [rep EXCEPT ![r] = x] /\ UNCHANGED pgVars /\ rep[r].pc \in {"load", "apply"}
    BY <1>3 DEF MigrationFails, Assign
  <2> HIDE DEF x
  <2>3. ProcInv(x)
    BY <1>0, <2>1, <2>2 DEF ProcInv, TxOf, LockPcs
  <2> QED BY <2>1, <2>2, <2>3, LocalStep DEF LockPcs
<1>4. CASE Aborted(r)
  <2> DEFINE x == [rep[r] EXCEPT !.pc = "failed", !.ses = 0, !.todo = {}, !.cur = "none"]
  <2>1. /\ x \in ProcessType /\ x.pc = "failed" /\ x.pooled = rep[r].pooled
        /\ x.timer = rep[r].timer /\ x.timers = rep[r].timers
    BY <1>0 DEF ProcessType, Pcs
  <2>2. rep' = [rep EXCEPT ![r] = x] /\ UNCHANGED pgVars
    BY <1>4 DEF Aborted, Assign
  <2> HIDE DEF x
  <2>3. ProcInv(x)
    BY <1>0, <2>1 DEF ProcInv, LockPcs
  <2> QED BY <2>1, <2>2, <2>3, LocalStep DEF LockPcs
<1> QED BY <1>1, <1>2, <1>3, <1>4

\* The steps of a start on the pool.
LEMMA StartKeeps ==
  ASSUME Inv, NEW r \in Replicas, Start(r) \/ StartFails(r), ~StartFailed(r)
  PROVE  Inv'
<1>0. /\ rep[r] \in ProcessType /\ ProcInv(rep[r]) /\ TypeOK
      /\ tables \subseteq Tables /\ triggers \subseteq Tables
  BY DEF Inv, TypeOK
<1>1. ASSUME NEW x \in ProcessType, rep' = [rep EXCEPT ![r] = x],
             x.pc \notin LockPcs \cup {"createTrigger"}, x.pooled = rep[r].pooled, x.timer => x.timers > 0,
             UNCHANGED <<sessions, lock, queue, ledger, applied>>, tables' \subseteq Tables, triggers' \subseteq Tables
      PROVE  Inv'
  <2>1. ClosedOnly
    BY <1>0, <1>1, Closing
  <2> QED BY <1>0, <1>1, <2>1, OtherStep
<1>2. ASSUME NEW l \in Pcs \ (LockPcs \cup {"createTrigger"}), Goto(r, l),
             UNCHANGED <<sessions, lock, queue, ledger, applied>>, tables' \subseteq Tables, triggers' \subseteq Tables
      PROVE  Inv'
  <2> DEFINE x == [rep[r] EXCEPT !.pc = l]
  <2>1. x \in ProcessType /\ x.pc = l /\ x.pooled = rep[r].pooled /\ x.timer = rep[r].timer /\ x.timers = rep[r].timers
    BY <1>0 DEF ProcessType
  <2>2. rep' = [rep EXCEPT ![r] = x]
    BY <1>2 DEF Goto, Assign
  <2> HIDE DEF x
  <2>3. x.timer => x.timers > 0
    BY <1>0, <2>1 DEF ProcInv
  <2> QED BY <1>1, <1>2, <2>1, <2>2, <2>3
<1>3. CASE CreateAuth(r) \/ EnsureTables(r) \/ CreateTodos(r) \/ TriggersAttached(r) \/ Listen(r) \/ StartFails(r)
  <2>1. {"todos", "createTodos", "listener", "failed", "plugins", "serving"} \subseteq Pcs \ (LockPcs \cup {"createTrigger"})
    BY DEF Pcs, LockPcs
  <2>2. "user" \in Tables /\ "todos" \in Tables
    BY DEF Tables
  <2>3. PICK l \in {"todos", "createTodos", "listener", "failed", "plugins", "serving"} : Goto(r, l)
    BY <1>3 DEF CreateAuth, EnsureTables, CreateTodos, TriggersAttached, Listen, StartFails
  <2>4. UNCHANGED <<sessions, lock, queue, ledger, applied>> /\ tables' \subseteq Tables /\ triggers' \subseteq Tables
    BY <1>0, <1>3, <2>2 DEF CreateAuth, EnsureTables, CreateTodos, TriggersAttached, Listen, StartFails, pgVars
  <2> QED BY <1>2, <2>1, <2>3, <2>4
<1>4. CASE StartListener(r)
  <2> DEFINE x == [rep[r] EXCEPT !.pc = "discover", !.listener = TRUE]
  <2>1. x \in ProcessType /\ x.pc = "discover" /\ x.pooled = rep[r].pooled /\ x.timer = rep[r].timer /\ x.timers = rep[r].timers
    BY <1>0 DEF ProcessType, Pcs
  <2>2. rep' = [rep EXCEPT ![r] = x] /\ UNCHANGED pgVars
    BY <1>4 DEF StartListener, Assign
  <2> HIDE DEF x
  <2> QED BY <1>0, <1>1, <2>1, <2>2 DEF ProcInv, LockPcs, pgVars
<1>5. CASE DiscoverTables(r)
  <2> DEFINE x == [rep[r] EXCEPT !.pc = "attach", !.todo = tables]
  <2>1. x \in ProcessType /\ x.pc = "attach" /\ x.pooled = rep[r].pooled /\ x.timer = rep[r].timer /\ x.timers = rep[r].timers
    BY <1>0 DEF ProcessType, Pcs
  <2>2. rep' = [rep EXCEPT ![r] = x] /\ UNCHANGED pgVars
    BY <1>5 DEF DiscoverTables, Assign
  <2> HIDE DEF x
  <2> QED BY <1>0, <1>1, <2>1, <2>2 DEF ProcInv, LockPcs, pgVars
<1>6. CASE PruneLogs(r)
  <2> DEFINE x == [rep[r] EXCEPT !.pc = "preflight", !.timer = TRUE, !.timers = @ + 1]
  <2>0. rep[r].timers + 1 \in Nat /\ rep[r].timers + 1 > 0
    BY <1>0 DEF ProcessType
  <2>1. x \in ProcessType /\ x.pc = "preflight" /\ x.pooled = rep[r].pooled /\ x.timers = rep[r].timers + 1
    BY <1>0, <2>0 DEF ProcessType, Pcs
  <2>2. rep' = [rep EXCEPT ![r] = x] /\ UNCHANGED pgVars
    BY <1>6 DEF PruneLogs, Assign
  <2> HIDE DEF x
  <2> QED BY <1>0, <1>1, <2>0, <2>1, <2>2 DEF LockPcs, pgVars
<1>7. CASE CreateTrigger(r)
  <2> DEFINE x == [rep[r] EXCEPT !.pc = "attach", !.todo = @ \ {rep[r].cur}, !.cur = "none"]
  <2>1. x \in ProcessType /\ x.pc = "attach" /\ x.pooled = rep[r].pooled /\ x.timer = rep[r].timer /\ x.timers = rep[r].timers
    BY <1>0 DEF ProcessType, Pcs
  <2>2. rep' = [rep EXCEPT ![r] = x] /\ UNCHANGED <<sessions, lock, queue, ledger, applied, tables>>
    BY <1>7 DEF CreateTrigger, Assign
  <2>3. triggers' \subseteq Tables
    BY <1>0, <1>7 DEF CreateTrigger, At, ProcInv
  <2> HIDE DEF x
  <2> QED BY <1>0, <1>1, <2>1, <2>2, <2>3 DEF ProcInv, LockPcs
<1>8. ASSUME NEW t \in rep[r].todo, CheckTrigger(r, t) PROVE Inv'
  <2>0. t \in Tables
    BY <1>0 DEF ProcessType
  <2>1. CASE t \in triggers
    <3> DEFINE x == [rep[r] EXCEPT !.todo = @ \ {t}]
    <3>1. x \in ProcessType /\ x.pc = rep[r].pc /\ x.pooled = rep[r].pooled /\ x.timer = rep[r].timer /\ x.timers = rep[r].timers
      BY <1>0 DEF ProcessType, Pcs
    <3>2. rep' = [rep EXCEPT ![r] = x] /\ UNCHANGED pgVars /\ rep[r].pc = "attach"
      BY <1>8, <2>1 DEF CheckTrigger, Assign, At
    <3> HIDE DEF x
    <3> QED BY <1>0, <1>1, <3>1, <3>2 DEF ProcInv, LockPcs, pgVars
  <2>2. CASE t \notin triggers
    <3> DEFINE x == [rep[r] EXCEPT !.pc = "createTrigger", !.cur = t]
    <3>1. x \in ProcessType /\ x.pc = "createTrigger" /\ x.cur = t /\ x.pooled = rep[r].pooled /\ x.timer = rep[r].timer /\ x.timers = rep[r].timers
      BY <1>0, <2>0 DEF ProcessType, Pcs
    <3>2. rep' = [rep EXCEPT ![r] = x] /\ UNCHANGED pgVars
      BY <1>8, <2>2 DEF CheckTrigger, Assign
    <3> HIDE DEF x
    <3>3. ProcInv(x)
      BY <1>0, <2>0, <3>1 DEF ProcInv, LockPcs
    <3> QED BY <3>1, <3>2, <3>3, LocalStep DEF LockPcs
  <2> QED BY <2>1, <2>2
<1> QED BY <1>3, <1>4, <1>5, <1>6, <1>7, <1>8 DEF Start

\* A new session waits for the lock behind the others.
LEMMA RequestLockKeeps ==
  ASSUME Inv, NEW r \in Replicas, RequestLock(r)
  PROVE  Inv'
<1> DEFINE n == Len(sessions) + 1
           x == [rep[r] EXCEPT !.pc = "lock", !.ses = n]
<1>1. /\ rep \in [Replicas -> ProcessType] /\ ProcInv(rep[r]) /\ sessions \in Seq(SessionType)
      /\ queue \in Seq(1..Len(sessions)) /\ lock \in 0..Len(sessions)
      /\ Len(sessions) \in Nat /\ DOMAIN sessions = 1..Len(sessions)
  BY LenProperties DEF Inv, TypeOK
<1>2. /\ NewSession \in SessionType /\ NewSession.done = {} /\ NewSession.named = {}
      /\ NewSession.commit = FALSE /\ NewSession.lost = FALSE
  BY DEF NewSession, SessionType
<1>3. /\ sessions' \in Seq(SessionType) /\ Len(sessions') = n /\ DOMAIN sessions' = 1..n
      /\ sessions'[n] = NewSession /\ \A s \in DOMAIN sessions : sessions'[s] = sessions[s]
  BY <1>1, <1>2, AppendProperties, LenProperties DEF RequestLock
<1>4. queue \in Seq(1..n)
  BY <1>1, ElementOfSeq, LenProperties, SeqDef
<1>5. /\ queue' \in Seq(1..n) /\ Len(queue) \in Nat /\ DOMAIN queue = 1..Len(queue)
      /\ DOMAIN queue' = 1..(Len(queue) + 1)
      /\ queue'[Len(queue) + 1] = n /\ \A i \in DOMAIN queue : queue'[i] = queue[i]
  BY <1>1, <1>4, AppendProperties, LenProperties DEF RequestLock
<1>6. \A i \in DOMAIN queue : queue[i] \in 1..Len(sessions)
  BY <1>1, ElementOfSeq, LenProperties
<1>7. Range(queue') = Range(queue) \cup {n} /\ Range(queue) \subseteq 1..Len(sessions)
  <2>1. \A i \in DOMAIN queue' : i \in DOMAIN queue \/ i = Len(queue) + 1
    BY <1>5
  <2>2. Len(queue) + 1 \in DOMAIN queue' /\ \A i \in DOMAIN queue : i \in DOMAIN queue'
    BY <1>5
  <2>3. \A v : v \in Range(queue') <=> \E i \in DOMAIN queue' : queue'[i] = v
    BY DEF Range
  <2>4. \A v : v \in Range(queue) <=> \E i \in DOMAIN queue : queue[i] = v
    BY DEF Range
  <2> HIDE DEF n
  <2>5. \A v : v \in Range(queue') <=> v \in Range(queue) \/ v = n
    BY <1>5, <2>1, <2>2, <2>3, <2>4
  <2>6. \A v : v \in Range(queue) => v \in 1..Len(sessions)
    BY <1>6, <2>4
  <2> QED BY <2>5, <2>6
<1>80. n \in Nat
  BY <1>1
<1> HIDE DEF n
<1>8. /\ x \in ProcessType /\ x.pc = "lock" /\ x.ses = n /\ x.pooled = rep[r].pooled
      /\ x.timer = rep[r].timer /\ x.timers = rep[r].timers
  <2>1. rep[r] \in ProcessType
    BY <1>1
  <2> QED BY <1>80, <2>1 DEF ProcessType, Pcs, LockPcs
<1>9. /\ rep' = [rep EXCEPT ![r] = x] /\ UNCHANGED <<lock, ledger, applied, tables, triggers>>
  BY DEF RequestLock, Assign, n
<1> HIDE DEF x
<1>10. n = Len(sessions) + 1
  BY DEF n
<1>11. TypeOK'
  BY <1>1, <1>3, <1>5, <1>8, <1>9, <1>10 DEF Inv, TypeOK
<1>12. MigratedOnce'
  BY <1>9 DEF Inv, MigratedOnce
<1>13. TxInv'
  <2> SUFFICES ASSUME NEW s \in DOMAIN sessions'
               PROVE  /\ sessions'[s].done # {} \/ sessions'[s].named # {} \/ sessions'[s].commit => lock = s
                      /\ sessions'[s].done \cap ledger = {}
                      /\ sessions'[s].commit => sessions'[s].done = sessions'[s].named
    BY <1>9 DEF TxInv
  <2>1. s \in DOMAIN sessions \/ s = n
    BY <1>1, <1>3, <1>10
  <2> QED BY <1>2, <1>3, <2>1 DEF Inv, TxInv
<1>14. QueueInv'
  <2>1. n \notin 1..Len(sessions) /\ n \notin 0..Len(sessions)
    BY <1>1, <1>10
  <2>2. \A i, j \in DOMAIN queue' : queue'[i] = queue'[j] => i = j
    <3>1. \A i \in DOMAIN queue' : i \in DOMAIN queue \/ i = Len(queue) + 1
      BY <1>5
    <3> QED BY <1>5, <1>6, <2>1, <3>1 DEF Inv, QueueInv
  <2>3. lock' \notin Range(queue')
    BY <1>1, <1>7, <1>9, <2>1 DEF Inv, QueueInv
  <2> QED BY <2>2, <2>3 DEF QueueInv
<1>15. /\ rep'[r] = x /\ \A q \in Replicas \ {r} : rep'[q] = rep[q]
       /\ \A q \in Replicas : ProcInv(rep[q])
  BY <1>1, <1>9 DEF Inv
<1>16. OwnSession'
  <2>1. \A q \in Replicas : rep[q].pc \in LockPcs => rep[q].ses # n
    BY <1>1, <1>10, <1>15 DEF ProcInv
  <2> QED BY <1>8, <1>15, <2>1 DEF Inv, OwnSession
<1>17. \A q \in Replicas : ProcInv(rep[q])'
  <2> SUFFICES ASSUME NEW q \in Replicas PROVE ProcInv(rep[q])'
    OBVIOUS
  <2>1. CASE q = r
    BY <1>1, <1>2, <1>3, <1>7, <1>8, <1>9, <1>10, <1>15, <2>1 DEF ProcInv, TxOf
  <2>2. CASE q # r
    <3>1. rep'[q] = rep[q] /\ ProcInv(rep[q])
      BY <1>15, <2>2
    <3> QED BY <1>1, <1>3, <1>7, <1>9, <1>10, <3>1 DEF ProcInv, TxOf
  <2> QED BY <2>1, <2>2
<1> QED BY <1>11, <1>12, <1>13, <1>14, <1>16, <1>17 DEF Inv

\* The lock is released before the connection goes back to the pool.
LEMMA UnlockKeeps ==
  ASSUME Inv, NEW r \in Replicas, Unlock(r)
  PROVE  Inv'
<1> DEFINE l == IF rep[r].pc = "unlock" THEN "auth" ELSE "failed"
           x == [rep[r] EXCEPT !.pc = l, !.pooled = @ \cup {rep[r].ses}, !.ses = 0]
<1>1. rep[r].pc \in {"unlock", "unlockFailed"} /\ rep[r].pc \in LockPcs
  BY DEF Unlock, LockPcs
<1>2. /\ rep[r] \in ProcessType /\ ProcInv(rep[r]) /\ TxOf(rep[r], Session(r))
      /\ rep[r].ses \in DOMAIN sessions /\ lock = rep[r].ses
  BY <1>1, LockSession DEF Unlock
<1>3. /\ rep \in [Replicas -> ProcessType] /\ sessions \in Seq(SessionType) /\ Len(sessions) \in Nat
      /\ queue \in Seq(1..Len(sessions)) /\ DOMAIN sessions = 1..Len(sessions)
      /\ \A i \in DOMAIN queue : queue[i] \in 1..Len(sessions)
  BY ElementOfSeq, LenProperties DEF Inv, TypeOK
<1>4. /\ x \in ProcessType /\ x.pc \in {"auth", "failed"} /\ x.pooled = rep[r].pooled \cup {rep[r].ses}
      /\ x.timer = rep[r].timer /\ x.timers = rep[r].timers
  BY <1>2, <1>3 DEF ProcessType, Pcs
<1>5. rep' = [rep EXCEPT ![r] = x] /\ lock' = 0 /\ UNCHANGED <<sessions, queue, ledger, applied, tables, triggers>>
  BY DEF Unlock, Assign
<1> HIDE DEF x
<1>6. TypeOK'
  BY <1>3, <1>4, <1>5 DEF Inv, TypeOK
<1>7. MigratedOnce'
  BY <1>5 DEF Inv, MigratedOnce
<1>8. sessions[rep[r].ses].done = {} /\ sessions[rep[r].ses].named = {} /\ ~sessions[rep[r].ses].commit
  BY <1>1, <1>2 DEF TxOf, Session
<1>9. TxInv'
  BY <1>2, <1>5, <1>8 DEF Inv, TxInv
<1>10. QueueInv'
  BY <1>3, <1>5 DEF Inv, QueueInv, Range
<1>11. /\ rep'[r] = x /\ \A q \in Replicas \ {r} : rep'[q] = rep[q]
       /\ \A q \in Replicas : ProcInv(rep[q])
  BY <1>3, <1>5 DEF Inv
<1>12. OwnSession'
  BY <1>4, <1>11 DEF Inv, OwnSession, LockPcs
<1>13. \A q \in Replicas : ProcInv(rep[q])'
  <2> SUFFICES ASSUME NEW q \in Replicas PROVE ProcInv(rep[q])'
    OBVIOUS
  <2>1. CASE q = r
    <3>1. \A s \in x.pooled : s \in DOMAIN sessions /\ s \notin Range(queue) /\ s # 0
      BY <1>2, <1>3, <1>4 DEF Inv, QueueInv, ProcInv
    <3> QED BY <1>2, <1>4, <1>5, <1>11, <2>1, <3>1 DEF ProcInv, LockPcs
  <2>2. CASE q # r
    <3>1. rep'[q] = rep[q] /\ ProcInv(rep[q])
      BY <1>11, <2>2
    <3>2. rep[q].pc \in LockPcs => rep[q].ses # rep[r].ses
      BY <1>1, <2>2 DEF Inv, OwnSession
    <3> QED BY <1>2, <1>3, <1>5, <3>1, <3>2 DEF ProcInv, TxOf
  <2> QED BY <2>1, <2>2
<1> QED BY <1>6, <1>7, <1>9, <1>10, <1>12, <1>13 DEF Inv

(***************************************************************************)
(* PostgreSQL.                                                             *)
(***************************************************************************)
\* The types of what PostgreSQL keeps.
LEMMA ServerTypes ==
  ASSUME Inv
  PROVE  /\ rep \in [Replicas -> ProcessType] /\ \A q \in Replicas : ProcInv(rep[q])
         /\ sessions \in Seq(SessionType) /\ Len(sessions) \in Nat /\ DOMAIN sessions = 1..Len(sessions)
         /\ \A s \in DOMAIN sessions : sessions[s] \in SessionType
         /\ queue \in Seq(1..Len(sessions)) /\ Len(queue) \in Nat /\ DOMAIN queue = 1..Len(queue)
         /\ \A i \in DOMAIN queue : queue[i] \in 1..Len(sessions)
         /\ lock \in 0..Len(sessions)
BY ElementOfSeq, LenProperties DEF Inv, TypeOK

LEMMA GrantKeeps ==
  ASSUME Inv, Grant
  PROVE  Inv'
<1>1. /\ lock = 0 /\ queue # <<>> /\ lock' = Head(queue) /\ queue' = Tail(queue)
      /\ UNCHANGED <<rep, sessions, ledger, applied, tables, triggers>>
  BY DEF Grant
<1>2. /\ queue' \in Seq(1..Len(sessions)) /\ Len(queue') = Len(queue) - 1
      /\ \A i \in 1..Len(queue') : queue'[i] = queue[i + 1]
  BY <1>1, ServerTypes, HeadTailProperties
<1>3. DOMAIN queue' = 1..Len(queue') /\ Len(queue) > 0
  BY <1>1, <1>2, ServerTypes, LenProperties, EmptySeq
<1>4. lock' = queue[1] /\ 1 \in DOMAIN queue /\ lock' \in 1..Len(sessions)
  BY <1>1, <1>3, ServerTypes
<1>5. \A i \in DOMAIN queue' : i + 1 \in DOMAIN queue /\ i + 1 # 1
  BY <1>2, <1>3, ServerTypes
<1>6. \A v : v \in Range(queue) <=> \E i \in DOMAIN queue : queue[i] = v
  BY DEF Range
<1>7. \A v : v \in Range(queue') <=> \E i \in DOMAIN queue' : queue'[i] = v
  BY DEF Range
<1>8. Range(queue') \subseteq Range(queue) /\ lock' \notin Range(queue') /\ lock' \in Range(queue)
  BY <1>2, <1>3, <1>4, <1>5, <1>6, <1>7 DEF Inv, QueueInv
<1>9. QueueInv'
  <2>1. \A i, j \in DOMAIN queue' : queue'[i] = queue'[j] => i = j
    <3> SUFFICES ASSUME NEW i \in DOMAIN queue', NEW j \in DOMAIN queue', queue'[i] = queue'[j] PROVE i = j
      OBVIOUS
    <3>1. i + 1 = j + 1
      BY <1>2, <1>3, <1>5 DEF Inv, QueueInv
    <3> QED BY <1>2, <1>3, <3>1
  <2> QED BY <1>8, <2>1 DEF QueueInv
<1>10. TypeOK'
  BY <1>1, <1>2, <1>4, ServerTypes DEF Inv, TypeOK
<1>11. MigratedOnce' /\ OwnSession'
  BY <1>1 DEF Inv, MigratedOnce, OwnSession
<1>12. TxInv'
  BY <1>1, ServerTypes DEF Inv, TxInv
<1>13. \A q \in Replicas : ProcInv(rep[q])'
  <2> SUFFICES ASSUME NEW q \in Replicas PROVE ProcInv(rep[q])'
    OBVIOUS
  <2>1. ProcInv(rep[q])
    BY ServerTypes
  <2>2. 0 \notin DOMAIN sessions
    BY ServerTypes
  <2> QED BY <1>1, <1>8, <2>1, <2>2 DEF ProcInv, TxOf
<1> QED BY <1>9, <1>10, <1>11, <1>12, <1>13 DEF Inv

LEMMA ExecuteCommitKeeps ==
  ASSUME Inv, NEW s \in DOMAIN sessions, ExecuteCommit(s)
  PROVE  Inv'
<1> DEFINE y == [sessions[s] EXCEPT !.done = {}, !.named = {}, !.commit = FALSE]
<1>1. /\ y \in SessionType /\ y.done = {} /\ y.named = {} /\ y.commit = FALSE /\ y.lost = sessions[s].lost
  BY ServerTypes DEF SessionType
<1>2. /\ sessions' = [sessions EXCEPT ![s] = y]
      /\ UNCHANGED <<rep, lock, queue, triggers>>
      /\ ledger' = ledger \cup sessions[s].named /\ tables' = tables \cup sessions[s].done
      /\ applied' = [m \in Migrations |-> IF m \in sessions[s].done THEN applied[m] + 1 ELSE applied[m]]
  BY DEF ExecuteCommit, SetSession
<1> HIDE DEF y
<1>3. /\ sessions' \in Seq(SessionType) /\ Len(sessions') = Len(sessions) /\ DOMAIN sessions' = DOMAIN sessions
      /\ sessions'[s] = y /\ \A t \in DOMAIN sessions \ {s} : sessions'[t] = sessions[t]
  BY <1>1, <1>2, ServerTypes, ExceptSeq, LenProperties
<1>4. lock = s /\ sessions[s].done = sessions[s].named /\ sessions[s].done \cap ledger = {}
  BY DEF ExecuteCommit, Inv, TxInv
<1>5. sessions[s].done \subseteq Migrations /\ sessions[s].named \subseteq Migrations
  BY ServerTypes DEF SessionType
<1>6. applied \in [Migrations -> Nat] /\ applied' \in [Migrations -> Nat]
  BY <1>2 DEF Inv, TypeOK
<1>7. TypeOK'
  BY <1>2, <1>3, <1>5, <1>6 DEF Inv, TypeOK, Tables
<1>8. MigratedOnce'
  <2> SUFFICES ASSUME NEW m \in Migrations PROVE applied'[m] = IF m \in ledger' THEN 1 ELSE 0
    BY DEF MigratedOnce
  <2>1. applied[m] = IF m \in ledger THEN 1 ELSE 0
    BY DEF Inv, MigratedOnce
  <2>2. CASE m \in sessions[s].done
    BY <1>2, <1>4, <2>1, <2>2
  <2>3. CASE m \notin sessions[s].done
    BY <1>2, <1>4, <2>1, <2>3
  <2> QED BY <2>2, <2>3
<1>9. \A t \in DOMAIN sessions \ {s} : sessions[t].done = {} /\ sessions[t].named = {} /\ ~sessions[t].commit
  BY <1>4 DEF Inv, TxInv
<1>10. TxInv'
  BY <1>1, <1>2, <1>3, <1>9 DEF TxInv
<1>11. QueueInv' /\ OwnSession'
  BY <1>2 DEF Inv, QueueInv, OwnSession
<1>12. \A q \in Replicas : ProcInv(rep[q])'
  <2> SUFFICES ASSUME NEW q \in Replicas PROVE ProcInv(rep[q])'
    OBVIOUS
  <2>1. ProcInv(rep[q]) /\ sessions[s].commit
    BY ServerTypes DEF ExecuteCommit
  <2>2. CASE rep[q].pc \in LockPcs /\ rep[q].ses = s
    BY <1>1, <1>2, <1>3, <2>1, <2>2 DEF ProcInv, TxOf
  <2>3. CASE rep[q].pc \notin LockPcs
    BY <1>2, <1>3, <2>1, <2>3 DEF ProcInv
  <2>4. CASE rep[q].pc \in LockPcs /\ rep[q].ses # s
    BY <1>2, <1>3, <1>4, <2>1, <2>4 DEF ProcInv, TxOf
  <2> QED BY <2>2, <2>3, <2>4
<1> QED BY <1>7, <1>8, <1>10, <1>11, <1>12 DEF Inv

\* What the queue is without its i-th session.
LEMMA RemovedFromQueue ==
  ASSUME Inv, NEW i \in DOMAIN queue, NEW q, q = RemoveAt(queue, i)
  PROVE  /\ q \in Seq(1..Len(sessions)) /\ Range(q) \subseteq Range(queue)
         /\ \A j, k \in DOMAIN q : q[j] = q[k] => j = k
<1> DEFINE n == Len(queue)
           f == SubSeq(queue, 1, i - 1)
           g == SubSeq(queue, i + 1, n)
           old(j) == IF j < i THEN j ELSE j + 1
<1>1. i \in 1..n /\ n \in Nat /\ \A j \in 1..n : queue[j] \in 1..Len(sessions)
  BY ServerTypes
<1>2. /\ f \in Seq(1..Len(sessions)) /\ Len(f) = i - 1 /\ \A j \in 1..i-1 : f[j] = queue[j]
  BY <1>1, SubSeqProperties
<1>3. /\ g \in Seq(1..Len(sessions)) /\ Len(g) = n - i /\ \A j \in 1..n-i : g[j] = queue[j + i]
  <2>1. i + 1 \in Int /\ n \in Int /\ \A j \in i+1..n : queue[j] \in 1..Len(sessions)
    BY <1>1
  <2>2. /\ g \in Seq(1..Len(sessions)) /\ Len(g) = (IF i + 1 <= n THEN n - (i + 1) + 1 ELSE 0)
        /\ \A j \in 1..n-(i+1)+1 : g[j] = queue[(i + 1) + j - 1]
    BY <2>1, SubSeqProperties
  <2> QED BY <1>1, <2>2
<1>4. q = f \o g
  BY DEF RemoveAt
<1> HIDE DEF f, g
<1>5. /\ q \in Seq(1..Len(sessions)) /\ Len(q) = n - 1
      /\ \A j \in 1..n-1 : q[j] = IF j <= i - 1 THEN f[j] ELSE g[j - (i - 1)]
  <2>1. /\ q \in Seq(1..Len(sessions)) /\ Len(q) = Len(f) + Len(g)
        /\ \A j \in 1..Len(f)+Len(g) : q[j] = IF j <= Len(f) THEN f[j] ELSE g[j - Len(f)]
    BY <1>2, <1>3, <1>4, ConcatProperties
  <2>2. Len(f) = i - 1 /\ Len(f) + Len(g) = n - 1
    BY <1>1, <1>2, <1>3
  <2> HIDE DEF n
  <2> QED BY <2>1, <2>2
<1>6. \A j \in 1..n-1 : old(j) \in 1..n /\ q[j] = queue[old(j)]
  <2> SUFFICES ASSUME NEW j \in 1..n-1 PROVE old(j) \in 1..n /\ q[j] = queue[old(j)]
    OBVIOUS
  <2>1. CASE j < i
    BY <1>1, <1>2, <1>5, <2>1
  <2>2. CASE ~(j < i)
    <3>1. j - (i - 1) \in 1..n-i /\ (j - (i - 1)) + i = j + 1
      BY <1>1, <2>2
    <3>2. q[j] = g[j - (i - 1)]
      BY <1>1, <1>5, <2>2
    <3>3. g[j - (i - 1)] = queue[j + 1]
      BY <1>3, <3>1
    <3> QED BY <1>1, <2>2, <3>2, <3>3
  <2> QED BY <2>1, <2>2
<1>7. DOMAIN q = 1..n-1
  BY <1>5, LenProperties
<1>8. Range(q) \subseteq Range(queue)
  <2>1. DOMAIN queue = 1..n
    BY ServerTypes
  <2> HIDE DEF old, n
  <2> QED BY <1>6, <1>7, <2>1 DEF Range
<1>9. \A j, k \in DOMAIN q : q[j] = q[k] => j = k
  <2> SUFFICES ASSUME NEW j \in 1..n-1, NEW k \in 1..n-1, q[j] = q[k] PROVE j = k
    BY <1>7
  <2>1. old(j) = old(k)
    BY <1>6, ServerTypes DEF Inv, QueueInv
  <2> QED BY <1>1, <2>1
<1> QED BY <1>5, <1>8, <1>9

\* The end of a connection takes its transaction, its lock and its turn.
LEMMA BackendExitsKeeps ==
  ASSUME Inv, NEW s \in DOMAIN sessions, BackendExits(s)
  PROVE  Inv'
<1>1. /\ Gone \in SessionType /\ Gone.done = {} /\ Gone.named = {} /\ Gone.commit = FALSE /\ Gone.lost = TRUE
  BY DEF Gone, NewSession, SessionType
<1>2. /\ sessions[s].lost /\ sessions' = [sessions EXCEPT ![s] = Gone]
      /\ lock' = IF lock = s THEN 0 ELSE lock
      /\ UNCHANGED <<rep, ledger, applied, tables, triggers>>
  BY DEF BackendExits, SetSession
<1>3. /\ sessions' \in Seq(SessionType) /\ Len(sessions') = Len(sessions) /\ DOMAIN sessions' = DOMAIN sessions
      /\ sessions'[s] = Gone /\ \A t \in DOMAIN sessions \ {s} : sessions'[t] = sessions[t]
  BY <1>1, <1>2, ServerTypes, ExceptSeq, LenProperties
<1>4. /\ queue' \in Seq(1..Len(sessions)) /\ Range(queue') \subseteq Range(queue)
      /\ \A j, k \in DOMAIN queue' : queue'[j] = queue'[k] => j = k
  <2>1. CASE queue' = queue
    BY <2>1, ServerTypes DEF Inv, QueueInv
  <2>2. CASE queue' # queue
    <3>1. PICK i \in DOMAIN queue : queue' = RemoveAt(queue, i)
      BY <2>2 DEF BackendExits
    <3> QED BY <3>1, RemovedFromQueue
  <2> QED BY <2>1, <2>2
<1>5. 0 \notin Range(queue) /\ lock \notin Range(queue)
  BY ServerTypes DEF Inv, QueueInv, Range
<1>6. QueueInv'
  BY <1>2, <1>4, <1>5 DEF QueueInv
<1>7. TypeOK'
  BY <1>2, <1>3, <1>4, ServerTypes DEF Inv, TypeOK
<1>8. MigratedOnce' /\ OwnSession'
  BY <1>2 DEF Inv, MigratedOnce, OwnSession
<1>9. TxInv'
  BY <1>1, <1>2, <1>3 DEF Inv, TxInv
<1>10. \A q \in Replicas : ProcInv(rep[q])'
  <2> SUFFICES ASSUME NEW q \in Replicas PROVE ProcInv(rep[q])'
    OBVIOUS
  <2>1. ProcInv(rep[q]) /\ 0 \notin DOMAIN sessions
    BY ServerTypes
  <2>2. \A t \in rep[q].pooled : t \in DOMAIN sessions' /\ t \notin Range(queue') /\ t # lock'
    BY <1>2, <1>3, <1>4, <2>1 DEF ProcInv
  <2>3. CASE rep[q].pc \in LockPcs /\ rep[q].ses = s
    BY <1>1, <1>2, <1>3, <2>1, <2>2, <2>3 DEF ProcInv
  <2>4. CASE rep[q].pc \in LockPcs /\ rep[q].ses # s
    BY <1>2, <1>3, <2>1, <2>2, <2>4 DEF ProcInv, TxOf
  <2>5. CASE rep[q].pc \notin LockPcs
    BY <1>2, <1>3, <2>1, <2>2, <2>5 DEF ProcInv
  <2> QED BY <2>3, <2>4, <2>5
<1> QED BY <1>6, <1>7, <1>8, <1>9, <1>10 DEF Inv

LEMMA LoseConnectionKeeps ==
  ASSUME Inv, NEW r \in Replicas, LoseConnection(r)
  PROVE  Inv'
<1>1. rep[r] \in ProcessType /\ TypeOK /\ rep = [rep EXCEPT ![r] = rep[r]] /\ ProcInv(rep[r])
      /\ tables \subseteq Tables /\ triggers \subseteq Tables
  BY DEF Inv, TypeOK
<1>2. ClosedOnly
  BY <1>1, Closing DEF LoseConnection
<1> QED BY <1>1, <1>2, OtherStep DEF LoseConnection, ProcInv

(***************************************************************************)
(* The theorems.                                                           *)
(***************************************************************************)
LEMMA InitInv == Init => Inv
<1> SUFFICES ASSUME Init PROVE Inv
  OBVIOUS
<1>1. /\ NewProcess \in ProcessType /\ NewProcess.pc = "down" /\ NewProcess.pooled = {} /\ NewProcess.timer = FALSE
  BY EmptySeq DEF NewProcess, ProcessType, Pcs, Stages
<1>2. /\ \A r \in Replicas : rep[r] = NewProcess
      /\ rep \in [Replicas -> ProcessType]
  BY <1>1 DEF Init
<1>3. /\ sessions = <<>> /\ queue = <<>> /\ lock = 0 /\ Len(sessions) = 0
      /\ sessions \in Seq(SessionType) /\ queue \in Seq(1..Len(sessions))
      /\ DOMAIN sessions = {} /\ DOMAIN queue = {}
  BY EmptySeq, LenProperties DEF Init
<1>4. TypeOK
  BY <1>2, <1>3 DEF Init, TypeOK
<1>5. MigratedOnce /\ TxInv
  BY <1>3 DEF Init, MigratedOnce, TxInv
<1>6. QueueInv
  BY <1>3 DEF QueueInv, Range
<1>7. OwnSession /\ \A r \in Replicas : ProcInv(rep[r])
  BY <1>1, <1>2 DEF OwnSession, ProcInv, LockPcs
<1> QED BY <1>4, <1>5, <1>6, <1>7 DEF Inv

LEMMA StepKeeps ==
  ASSUME Inv, NEW r \in Replicas,
         Step(r) \/ MigrationFails(r) \/ StartFails(r) \/ LoseConnection(r) \/ Crash(r)
  PROVE  Inv'
<1>1. CASE Start(r) \/ StartFails(r)
  BY <1>1, StartKeeps, LifecycleKeeps
<1>2. CASE Migrate(r)
  BY <1>2, RequestLockKeeps, LockAcquiredKeeps, LoadAppliedKeeps, UpKeeps, RecordKeeps, SendCommitKeeps,
     RollbackKeeps, UnlockKeeps, LockLocalKeeps DEF Migrate
<1> QED BY <1>1, <1>2, LifecycleKeeps, LockLocalKeeps, LoseConnectionKeeps DEF Step

LEMMA NextKeeps == Inv /\ [Next]_vars => Inv'
<1> SUFFICES ASSUME Inv, [Next]_vars PROVE Inv'
  OBVIOUS
<1>1. CASE UNCHANGED vars
  BY <1>1 DEF vars, pgVars, Inv, TypeOK, MigratedOnce, TxInv, QueueInv, OwnSession, ProcInv, TxOf
<1>2. ASSUME NEW r \in Replicas, NEW op \in {"start", "stop"}, Call(r, op) PROVE Inv'
  BY <1>2, CallKeeps
<1>3. CASE Postgres
  BY <1>3, GrantKeeps, ExecuteCommitKeeps, BackendExitsKeeps DEF Postgres
<1> QED BY <1>1, <1>2, <1>3, StepKeeps DEF Next

\* The inductive invariant holds in every state.
THEOREM Invariant == Spec => []Inv
BY InitInv, NextKeeps, PTL DEF Spec

\* Every variable keeps its type.
THEOREM TypeCorrect == Spec => []TypeOK
<1>1. Inv => TypeOK
  BY DEF Inv
<1> QED BY <1>1, Invariant, PTL

\* No migration is ever committed twice, and the ledger names the committed ones,
\* for any number of replicas, failures, lost connections and crashes.
THEOREM MigratesOnce == Spec => []MigratedOnce
<1>1. Inv => MigratedOnce
  BY DEF Inv
<1> QED BY <1>1, Invariant, PTL

\* A connection that went back to a pool carries neither the lock nor a transaction.
THEOREM PoolStaysClean == Spec => []PoolIsClean
<1>1. Inv => PoolIsClean
  BY DEF Inv, ProcInv, TxInv, PoolIsClean
<1> QED BY <1>1, Invariant, PTL

(***************************************************************************)
(* What a server that listens has.  A start earns it step by step: the     *)
(* invariant says what r has at each of its places.  The ledger, the       *)
(* tables and the triggers only grow, so it stays true of r while others   *)
(* move; and what r has in its transaction nobody else can take away.      *)
(***************************************************************************)
Watched(r) == Mine(r) \cup {"todos", "user"}

\* What the last lifecycle call asked is done, or still waits at the end of the queue.
CallInv(x) == x.called = "stop" =>
    IF x.ops = <<>> THEN x.pc = "down" ELSE x.ops[Len(x.ops)] = "stop"

\* What the transaction y of r, which is at x, has in the ledger by now.
LedgerOf(r, x, y) ==
    /\ x.pc \in {"load", "apply", "record"} /\ x.stage = "app" => Range(Lists[r]["system"]) \subseteq ledger \cup y.named
    /\ x.pc \in {"apply", "record"} => Range(Lists[r][x.stage]) \subseteq ledger \cup y.named \cup x.todo
    /\ x.pc = "commit" => Mine(r) \subseteq ledger \cup (IF y.commit THEN y.named ELSE {})

Listening == {"discover", "attach", "createTrigger", "plugins", "preflight", "serving"}
\* What a start has done when it is at x.
ReadyInv(r, x) ==
    /\ x.pc \in LockPcs /\ ~sessions[x.ses].lost => LedgerOf(r, x, sessions[x.ses])
    /\ x.pc \in {"unlock", "auth", "todos", "createTodos", "listener"} \cup Listening => Mine(r) \subseteq ledger
    /\ x.pc \in {"todos", "createTodos", "listener"} \cup Listening => "user" \in tables
    /\ x.pc \in {"listener"} \cup Listening => "todos" \in tables
    /\ x.pc \in Listening => x.listener
    /\ x.pc \in {"attach", "createTrigger"} => Watched(r) \subseteq triggers \cup x.todo
    /\ x.pc \in {"plugins", "preflight", "serving"} => Watched(r) \subseteq triggers

StartInv == ledger \subseteq tables /\ \A r \in Replicas : CallInv(rep[r]) /\ ReadyInv(r, rep[r])

\* What is committed stays, and a migration's table is there with its row.
Grows ==
    /\ ledger \subseteq ledger' /\ tables \subseteq tables' /\ triggers \subseteq triggers'
    /\ ledger' \subseteq tables'
\* A transaction that is not r's own, or not touched.
Untouched(x) ==
    x.pc \in LockPcs /\ ~sessions'[x.ses].lost =>
      ~sessions[x.ses].lost /\ sessions'[x.ses].named = sessions[x.ses].named
      /\ sessions'[x.ses].commit = sessions[x.ses].commit

LEMMA OthersReady ==
  ASSUME NEW q \in Replicas, NEW x \in ProcessType, ReadyInv(q, x), Grows, Untouched(x)
  PROVE  ReadyInv(q, x)'
<1>1. x.pc \in LockPcs /\ ~sessions'[x.ses].lost => LedgerOf(q, x, sessions[x.ses])
  BY DEF ReadyInv, Untouched
<1>2. (x.pc \in LockPcs /\ ~sessions[x.ses].lost => LedgerOf(q, x, sessions[x.ses]))'
  <2> SUFFICES ASSUME x.pc \in LockPcs, ~sessions'[x.ses].lost
               PROVE  LedgerOf(q, x, sessions[x.ses])'
    OBVIOUS
  <2>1. PICK y, z : y = sessions[x.ses] /\ z = sessions'[x.ses]
    OBVIOUS
  <2>2. LedgerOf(q, x, y) /\ z.named = y.named /\ z.commit = y.commit
    BY <1>1, <2>1 DEF Untouched
  <2>3. LedgerOf(q, x, z)'
    BY <2>2 DEF LedgerOf, Grows
  <2> QED BY <2>1, <2>3 DEF LedgerOf
<1>3. (x.pc \in {"unlock", "auth", "todos", "createTodos", "listener"} \cup Listening => Mine(q) \subseteq ledger)'
  BY DEF ReadyInv, Grows, Mine, Listening
<1>4. /\ (x.pc \in {"todos", "createTodos", "listener"} \cup Listening => "user" \in tables)'
      /\ (x.pc \in {"listener"} \cup Listening => "todos" \in tables)'
  BY DEF ReadyInv, Grows, Listening
<1>5. /\ (x.pc \in {"attach", "createTrigger"} => Watched(q) \subseteq triggers \cup x.todo)'
      /\ (x.pc \in {"plugins", "preflight", "serving"} => Watched(q) \subseteq triggers)'
  BY DEF ReadyInv, Grows, Watched, Mine
<1> QED BY <1>2, <1>3, <1>4, <1>5 DEF ReadyInv, Listening

LEMMA ReadyStep ==
  ASSUME Inv, StartInv, NEW r \in Replicas, NEW x \in ProcessType, rep' = [rep EXCEPT ![r] = x], Grows,
         \A q \in Replicas \ {r} : Untouched(rep[q]), CallInv(x), ReadyInv(r, x)'
  PROVE  StartInv'
<1>1. rep'[r] = x /\ \A q \in Replicas \ {r} : rep'[q] = rep[q] /\ rep[q] \in ProcessType
  BY DEF Inv, TypeOK
<1>2. ASSUME NEW q \in Replicas \ {r} PROVE CallInv(rep[q])' /\ ReadyInv(q, rep[q])'
  <2>1. PICK z : z = rep[q]
    OBVIOUS
  <2>2. CallInv(z) /\ ReadyInv(q, z) /\ Untouched(z) /\ z \in ProcessType
    BY <1>1, <2>1 DEF StartInv
  <2>3. ReadyInv(q, z)'
    BY <2>2, OthersReady
  <2> QED BY <1>1, <2>1, <2>2, <2>3 DEF CallInv, ReadyInv, LedgerOf
<1>3. CallInv(rep[r])' /\ ReadyInv(r, rep[r])'
  BY <1>1 DEF CallInv, ReadyInv, LedgerOf
<1> QED BY <1>2, <1>3 DEF StartInv, Grows

LEMMA LocalReady ==
  ASSUME Inv, StartInv, NEW r \in Replicas, NEW x \in ProcessType, rep' = [rep EXCEPT ![r] = x], UNCHANGED pgVars,
         CallInv(x), ReadyInv(r, x)
  PROVE  StartInv'
<1>1. Grows /\ (\A q \in Replicas \ {r} : Untouched(rep[q])) /\ Untouched(x)
  BY DEF Grows, Untouched, pgVars, StartInv
<1>2. ReadyInv(r, x)'
  BY <1>1, OthersReady
<1> QED BY <1>1, <1>2, ReadyStep

\* A start that goes on leaves the calls in the queue.
LEMMA Going ==
  ASSUME StartInv, NEW r \in Replicas, NEW x, x.ops = rep[r].ops, x.called = rep[r].called, rep[r].pc # "down"
  PROVE  CallInv(x)
BY DEF StartInv, CallInv

LEMMA TailLast ==
  ASSUME NEW S, NEW s \in Seq(S), s # <<>>
  PROVE  /\ Tail(s) = <<>> => s[Len(s)] = Head(s)
         /\ Tail(s) # <<>> => Tail(s)[Len(Tail(s))] = s[Len(s)]
<1>1. Len(s) \in Nat /\ Len(s) # 0 /\ Head(s) = s[1]
  BY LenProperties
<1>2. Tail(s) \in Seq(S) /\ Len(Tail(s)) = Len(s) - 1 /\ \A i \in 1..Len(Tail(s)) : Tail(s)[i] = s[i + 1]
  BY HeadTailProperties
<1>3. CASE Tail(s) = <<>>
  BY <1>1, <1>2, <1>3
<1>4. CASE Tail(s) # <<>>
  <2>1. Len(Tail(s)) # 0
    BY <1>2, <1>4
  <2>0. Len(Tail(s)) \in Nat
    BY <1>2, LenProperties
  <2>2. PICK n \in Nat : n = Len(Tail(s)) /\ n # 0 /\ Len(s) = n + 1
    <3>1. \A k \in Nat, l \in Nat : k = l - 1 => l = k + 1
      OBVIOUS
    <3>2. Len(s) = Len(Tail(s)) + 1
      BY <1>1, <1>2, <2>0, <3>1
    <3> QED BY <2>0, <2>1, <3>2
  <2>3. Tail(s)[n] = s[n + 1]
    BY <1>2, <2>2
  <2> QED BY <1>4, <2>2, <2>3
<1> QED BY <1>3, <1>4

LEMMA CallReady ==
  ASSUME Inv, StartInv, NEW r \in Replicas, NEW op \in {"start", "stop"}, Call(r, op)
  PROVE  StartInv'
<1>1. rep[r] \in ProcessType /\ ReadyInv(r, rep[r]) /\ rep[r].ops \in Seq({"start", "stop"})
  BY DEF Inv, TypeOK, StartInv, ProcessType
<1>2. PICK o : o = Append(rep[r].ops, op)
  OBVIOUS
<1>3. o \in Seq({"start", "stop"}) /\ o # <<>> /\ o[Len(o)] = op
  BY <1>1, <1>2, AppendProperties
<1>4. PICK x : x = [rep[r] EXCEPT !.called = op, !.ops = o]
  OBVIOUS
<1>5. x \in ProcessType /\ x.called = op /\ x.ops = o
  BY <1>1, <1>3, <1>4 DEF ProcessType
<1>6. x.pc = rep[r].pc /\ x.stage = rep[r].stage /\ x.todo = rep[r].todo /\ x.ses = rep[r].ses /\ x.listener = rep[r].listener
  BY <1>1, <1>4 DEF ProcessType
<1>7. CallInv(x)
  BY <1>3, <1>5 DEF CallInv
<1>8. ReadyInv(r, x)
  BY <1>1, <1>6 DEF ReadyInv, LedgerOf
<1>9. rep' = [rep EXCEPT ![r] = x] /\ UNCHANGED pgVars
  BY <1>2, <1>4 DEF Call, Assign
<1> QED BY <1>5, <1>7, <1>8, <1>9, LocalReady

\* Connections are closed: whoever has one that is not closed has what it had.
LEMMA ClosedUntouched ==
  ASSUME NEW S, sessions' = Closed(S), NEW x, x.pc \in LockPcs => x.ses \in DOMAIN sessions
  PROVE  Untouched(x)
<1> SUFFICES ASSUME x.pc \in LockPcs, ~sessions'[x.ses].lost
             PROVE  ~sessions[x.ses].lost /\ sessions'[x.ses].named = sessions[x.ses].named
                    /\ sessions'[x.ses].commit = sessions[x.ses].commit
  BY DEF Untouched
<1>1. sessions'[x.ses] = IF x.ses \in S THEN [sessions[x.ses] EXCEPT !.lost = TRUE] ELSE sessions[x.ses]
  BY DEF Closed
<1> QED BY <1>1

\* A step of a start that leaves PostgreSQL alone.
LEMMA GoOn ==
  ASSUME Inv, Inv', StartInv, NEW r \in Replicas, NEW x, rep' = [rep EXCEPT ![r] = x], UNCHANGED pgVars,
         x.ops = rep[r].ops, x.called = rep[r].called, rep[r].pc # "down", ReadyInv(r, x)
  PROVE  StartInv'
<1>1. x \in ProcessType
  BY DEF Inv, TypeOK
<1>2. CallInv(x)
  BY Going
<1> QED BY <1>1, <1>2, LocalReady

LEMMA MigrateReady ==
  ASSUME Inv, Inv', StartInv, NEW r \in Replicas,
         LockAcquired(r) \/ LoadApplied(r) \/ NextStage(r) \/ Committed(r) \/ Aborted(r) \/ MigrationFails(r)
  PROVE  StartInv'
<1>1. PICK o : o = rep[r]
  OBVIOUS
<1>2. o \in ProcessType /\ ReadyInv(r, o) /\ ProcInv(o)
  BY <1>1 DEF Inv, TypeOK, StartInv
<1>3. CASE LockAcquired(r)
  <2>1. PICK x : x = [o EXCEPT !.pc = "load", !.stage = "system"]
    OBVIOUS
  <2>2. /\ x.pc = "load" /\ x.stage = "system" /\ x.ops = o.ops /\ x.called = o.called
    BY <1>2, <2>1 DEF ProcessType
  <2>3. ReadyInv(r, x)
    BY <2>2 DEF ReadyInv, LedgerOf, Listening
  <2> QED BY <1>1, <1>3, <2>1, <2>2, <2>3, GoOn DEF LockAcquired, Assign, At
<1>4. CASE LoadApplied(r)
  <2>1. PICK x : x = [o EXCEPT !.pc = "apply", !.todo = Range(List(r)) \ (ledger \cup Session(r).named)]
    OBVIOUS
  <2>2. /\ x.pc = "apply" /\ x.stage = o.stage /\ x.ses = o.ses /\ x.ops = o.ops /\ x.called = o.called
        /\ x.todo = Range(Lists[r][o.stage]) \ (ledger \cup sessions[o.ses].named)
    BY <1>1, <1>2, <2>1 DEF ProcessType, List, Session
  <2>3. o.pc = "load" /\ ~sessions[o.ses].lost
    BY <1>1, <1>4 DEF LoadApplied, At, Connected, Session
  <2>4. LedgerOf(r, o, sessions[o.ses])
    BY <1>2, <2>3 DEF ReadyInv, LockPcs
  <2>5. LedgerOf(r, x, sessions[x.ses])
    BY <2>2, <2>3, <2>4 DEF LedgerOf
  <2>6. ReadyInv(r, x)
    BY <2>2, <2>5 DEF ReadyInv, Listening
  <2> QED BY <1>1, <1>4, <2>1, <2>2, <2>3, <2>6, GoOn DEF LoadApplied, Assign
<1>5. CASE NextStage(r)
  <2>1. PICK x : x = [o EXCEPT !.pc = "load", !.stage = "app"]
    OBVIOUS
  <2>2. /\ x.pc = "load" /\ x.stage = "app" /\ x.ses = o.ses /\ x.ops = o.ops /\ x.called = o.called
    BY <1>2, <2>1 DEF ProcessType
  <2>3. o.pc = "apply" /\ o.stage = "system" /\ o.todo = {}
    BY <1>1, <1>5 DEF NextStage, At
  <2>4. ~sessions[o.ses].lost => LedgerOf(r, o, sessions[o.ses])
    BY <1>2, <2>3 DEF ReadyInv, LockPcs
  <2>5. ~sessions[x.ses].lost => LedgerOf(r, x, sessions[x.ses])
    BY <2>2, <2>3, <2>4 DEF LedgerOf
  <2>6. ReadyInv(r, x)
    BY <2>2, <2>5 DEF ReadyInv, Listening
  <2> QED BY <1>1, <1>5, <2>1, <2>2, <2>3, <2>6, GoOn DEF NextStage, Assign
<1>6. CASE Committed(r)
  <2>1. PICK x : x = [o EXCEPT !.pc = "unlock"]
    OBVIOUS
  <2>2. /\ x.pc = "unlock" /\ x.ses = o.ses /\ x.ops = o.ops /\ x.called = o.called
    BY <1>2, <2>1 DEF ProcessType
  <2>3. o.pc = "commit" /\ ~sessions[o.ses].lost /\ ~sessions[o.ses].commit
    BY <1>1, <1>6 DEF Committed, At, Connected, Session
  <2>4. LedgerOf(r, o, sessions[o.ses])
    BY <1>2, <2>3 DEF ReadyInv, LockPcs
  <2>5. Mine(r) \subseteq ledger
    BY <2>3, <2>4 DEF LedgerOf
  <2>6. ReadyInv(r, x)
    BY <2>2, <2>5 DEF ReadyInv, LedgerOf, Listening
  <2> QED BY <1>1, <1>6, <2>1, <2>2, <2>3, <2>6, GoOn DEF Committed, Goto, Assign
<1>7. CASE Aborted(r)
  <2>1. PICK x : x = [o EXCEPT !.pc = "failed", !.ses = 0, !.todo = {}, !.cur = "none"]
    OBVIOUS
  <2>2. /\ x.pc = "failed" /\ x.ops = o.ops /\ x.called = o.called
    BY <1>2, <2>1 DEF ProcessType
  <2>3. ReadyInv(r, x)
    BY <2>2 DEF ReadyInv, LockPcs, Listening
  <2> QED BY <1>1, <1>7, <2>1, <2>2, <2>3, GoOn DEF Aborted, Assign, LockPcs
<1>8. CASE MigrationFails(r)
  <2>1. PICK x : x = [o EXCEPT !.pc = "rollback", !.todo = {}]
    OBVIOUS
  <2>2. /\ x.pc = "rollback" /\ x.ops = o.ops /\ x.called = o.called
    BY <1>2, <2>1 DEF ProcessType
  <2>3. ReadyInv(r, x)
    BY <2>2 DEF ReadyInv, LedgerOf, Listening
  <2> QED BY <1>1, <1>8, <2>1, <2>2, <2>3, GoOn DEF MigrationFails, Assign
<1> QED BY <1>3, <1>4, <1>5, <1>6, <1>7, <1>8

LEMMA StartReady ==
  ASSUME Inv, Inv', StartInv, NEW r \in Replicas,
         StartFails(r) \/ EnsureTables(r) \/ StartListener(r) \/ DiscoverTables(r)
         \/ TriggersAttached(r) \/ PruneLogs(r) \/ Listen(r)
  PROVE  StartInv'
<1>1. PICK o : o = rep[r]
  OBVIOUS
<1>2. o \in ProcessType /\ ReadyInv(r, o) /\ ledger \subseteq tables
  BY <1>1 DEF Inv, TypeOK, StartInv
<1>3. CASE StartFails(r)
  <2>1. PICK x : x = [o EXCEPT !.pc = "failed"]
    OBVIOUS
  <2>2. /\ x.pc = "failed" /\ x.ops = o.ops /\ x.called = o.called
    BY <1>2, <2>1 DEF ProcessType
  <2>3. ReadyInv(r, x)
    BY <2>2 DEF ReadyInv, LockPcs, Listening
  <2> QED BY <1>1, <1>3, <2>1, <2>2, <2>3, GoOn DEF StartFails, Goto, Assign
<1>4. CASE EnsureTables(r)
  <2>1. PICK x : x = [o EXCEPT !.pc = IF "todos" \in tables THEN "listener" ELSE "createTodos"]
    OBVIOUS
  <2>2. /\ x.pc = (IF "todos" \in tables THEN "listener" ELSE "createTodos")
        /\ x.ops = o.ops /\ x.called = o.called /\ o.pc = "todos"
    BY <1>1, <1>2, <1>4, <2>1 DEF ProcessType, EnsureTables, At
  <2>3. ReadyInv(r, x)
    BY <1>2, <2>2 DEF ReadyInv, LockPcs, Listening
  <2> QED BY <1>1, <1>4, <2>1, <2>2, <2>3, GoOn DEF EnsureTables, Goto, Assign
<1>5. CASE StartListener(r)
  <2>1. PICK x : x = [o EXCEPT !.pc = "discover", !.listener = TRUE]
    OBVIOUS
  <2>2. /\ x.pc = "discover" /\ x.listener /\ x.ops = o.ops /\ x.called = o.called /\ o.pc = "listener"
    BY <1>1, <1>2, <1>5, <2>1 DEF ProcessType, StartListener, At
  <2>3. ReadyInv(r, x)
    BY <1>2, <2>2 DEF ReadyInv, LockPcs, Listening
  <2> QED BY <1>1, <1>5, <2>1, <2>2, <2>3, GoOn DEF StartListener, Assign
<1>6. CASE DiscoverTables(r)
  <2>1. PICK x : x = [o EXCEPT !.pc = "attach", !.todo = tables]
    OBVIOUS
  <2>2. /\ x.pc = "attach" /\ x.todo = tables /\ x.listener = o.listener
        /\ x.ops = o.ops /\ x.called = o.called /\ o.pc = "discover"
    BY <1>1, <1>2, <1>6, <2>1 DEF ProcessType, DiscoverTables, At
  <2>3. Mine(r) \subseteq ledger /\ "user" \in tables /\ "todos" \in tables /\ o.listener
    BY <1>2, <2>2 DEF ReadyInv, Listening
  <2>4. Watched(r) \subseteq tables
    BY <1>2, <2>3 DEF Watched
  <2>5. ReadyInv(r, x)
    BY <2>2, <2>3, <2>4 DEF ReadyInv, LockPcs, Listening
  <2> QED BY <1>1, <1>6, <2>1, <2>2, <2>5, GoOn DEF DiscoverTables, Assign
<1>7. CASE TriggersAttached(r)
  <2>1. PICK x : x = [o EXCEPT !.pc = "plugins"]
    OBVIOUS
  <2>2. /\ x.pc = "plugins" /\ x.listener = o.listener /\ x.ops = o.ops /\ x.called = o.called
        /\ o.pc = "attach" /\ o.todo = {}
    BY <1>1, <1>2, <1>7, <2>1 DEF ProcessType, TriggersAttached, At
  <2>3. ReadyInv(r, x)
    BY <1>2, <2>2 DEF ReadyInv, LockPcs, Listening
  <2> QED BY <1>1, <1>7, <2>1, <2>2, <2>3, GoOn DEF TriggersAttached, Goto, Assign
<1>8. CASE PruneLogs(r)
  <2>1. PICK x : x = [o EXCEPT !.pc = "preflight", !.timer = TRUE, !.timers = @ + 1]
    OBVIOUS
  <2>2. /\ x.pc = "preflight" /\ x.listener = o.listener /\ x.ops = o.ops /\ x.called = o.called /\ o.pc = "plugins"
    BY <1>1, <1>2, <1>8, <2>1 DEF ProcessType, PruneLogs, At
  <2>3. ReadyInv(r, x)
    BY <1>2, <2>2 DEF ReadyInv, LockPcs, Listening
  <2> QED BY <1>1, <1>8, <2>1, <2>2, <2>3, GoOn DEF PruneLogs, Assign
<1>9. CASE Listen(r)
  <2>1. PICK x : x = [o EXCEPT !.pc = "serving"]
    OBVIOUS
  <2>2. /\ x.pc = "serving" /\ x.listener = o.listener /\ x.ops = o.ops /\ x.called = o.called /\ o.pc = "preflight"
    BY <1>1, <1>2, <1>9, <2>1 DEF ProcessType, Listen, At
  <2>3. ReadyInv(r, x)
    BY <1>2, <2>2 DEF ReadyInv, LockPcs, Listening
  <2> QED BY <1>1, <1>9, <2>1, <2>2, <2>3, GoOn DEF Listen, Goto, Assign
<1> QED BY <1>3, <1>4, <1>5, <1>6, <1>7, <1>8, <1>9

LEMMA CheckTriggerReady ==
  ASSUME Inv, Inv', StartInv, NEW r \in Replicas, NEW t \in rep[r].todo, CheckTrigger(r, t)
  PROVE  StartInv'
<1>1. PICK o : o = rep[r]
  OBVIOUS
<1>2. o \in ProcessType /\ ReadyInv(r, o) /\ o.pc = "attach"
  BY <1>1 DEF Inv, TypeOK, StartInv, CheckTrigger, At
<1>3. PICK x : x = IF t \in triggers THEN [o EXCEPT !.todo = @ \ {t}] ELSE [o EXCEPT !.pc = "createTrigger", !.cur = t]
  OBVIOUS
<1>4. /\ x.pc \in {"attach", "createTrigger"} /\ x.listener = o.listener /\ x.ops = o.ops /\ x.called = o.called
      /\ o.todo \subseteq x.todo \cup triggers
  BY <1>2, <1>3 DEF ProcessType
<1>5. ReadyInv(r, x)
  BY <1>2, <1>4 DEF ReadyInv, LockPcs, Listening
<1> QED BY <1>1, <1>2, <1>3, <1>4, <1>5, GoOn DEF CheckTrigger, Assign

\* A step of a start that adds a table or a trigger, or gives up the lock.
LEMMA AddOn ==
  ASSUME Inv, Inv', StartInv, NEW r \in Replicas, NEW x, rep' = [rep EXCEPT ![r] = x], UNCHANGED <<sessions, ledger>>,
         tables \subseteq tables', triggers \subseteq triggers',
         x.ops = rep[r].ops, x.called = rep[r].called, rep[r].pc # "down", ReadyInv(r, x)'
  PROVE  StartInv'
<1>1. x \in ProcessType
  BY DEF Inv, TypeOK
<1>2. CallInv(x)
  BY Going
<1>3. Grows /\ \A q \in Replicas \ {r} : Untouched(rep[q])
  BY DEF Grows, Untouched, StartInv
<1> QED BY <1>1, <1>2, <1>3, ReadyStep

LEMMA TablesReady ==
  ASSUME Inv, Inv', StartInv, NEW r \in Replicas, CreateAuth(r) \/ CreateTodos(r) \/ CreateTrigger(r) \/ Unlock(r)
  PROVE  StartInv'
<1>1. PICK o : o = rep[r]
  OBVIOUS
<1>2. o \in ProcessType /\ ReadyInv(r, o)
  BY <1>1 DEF Inv, TypeOK, StartInv
<1>3. CASE CreateAuth(r)
  <2>1. PICK x : x = [o EXCEPT !.pc = "todos"]
    OBVIOUS
  <2>2. /\ x.pc = "todos" /\ x.ops = o.ops /\ x.called = o.called /\ o.pc = "auth"
    BY <1>1, <1>2, <1>3, <2>1 DEF ProcessType, CreateAuth, At
  <2>3. Mine(r) \subseteq ledger /\ ledger' = ledger /\ "user" \in tables'
    BY <1>2, <1>3, <2>2 DEF ReadyInv, CreateAuth
  <2>4. ReadyInv(r, x)'
    BY <2>2, <2>3 DEF ReadyInv, LockPcs, Listening, Mine
  <2> QED BY <1>1, <1>3, <2>1, <2>2, <2>4, AddOn DEF CreateAuth, Goto, Assign
<1>4. CASE CreateTodos(r)
  <2>1. PICK x : x = [o EXCEPT !.pc = IF "todos" \in tables THEN "failed" ELSE "listener"]
    OBVIOUS
  <2>2. /\ x.pc \in {"failed", "listener"} /\ x.ops = o.ops /\ x.called = o.called /\ o.pc = "createTodos"
    BY <1>1, <1>2, <1>4, <2>1 DEF ProcessType, CreateTodos, At
  <2>3. Mine(r) \subseteq ledger /\ ledger' = ledger /\ "user" \in tables' /\ "todos" \in tables'
    BY <1>2, <1>4, <2>2 DEF ReadyInv, CreateTodos
  <2>4. ReadyInv(r, x)'
    BY <2>2, <2>3 DEF ReadyInv, LockPcs, Listening, Mine
  <2> QED BY <1>1, <1>4, <2>1, <2>2, <2>4, AddOn DEF CreateTodos, Goto, Assign
<1>5. CASE CreateTrigger(r)
  <2>1. PICK x : x = [o EXCEPT !.pc = "attach", !.todo = @ \ {o.cur}, !.cur = "none"]
    OBVIOUS
  <2>2. /\ x.pc = "attach" /\ x.listener = o.listener /\ x.todo = o.todo \ {o.cur} /\ x.ops = o.ops /\ x.called = o.called
        /\ o.pc = "createTrigger"
    BY <1>1, <1>2, <1>5, <2>1 DEF ProcessType, CreateTrigger, At
  <2>3. /\ Mine(r) \subseteq ledger /\ ledger' = ledger /\ "user" \in tables' /\ "todos" \in tables' /\ x.listener
        /\ triggers' = triggers \cup {o.cur}
    BY <1>1, <1>2, <1>5, <2>2 DEF ReadyInv, CreateTrigger, Listening
  <2>4. Watched(r) \subseteq triggers' \cup x.todo
    BY <1>2, <2>2, <2>3 DEF ReadyInv
  <2>5. ReadyInv(r, x)'
    BY <2>2, <2>3, <2>4 DEF ReadyInv, LockPcs, Listening, Mine, Watched
  <2> QED BY <1>1, <1>5, <2>1, <2>2, <2>5, AddOn DEF CreateTrigger, Assign
<1>6. CASE Unlock(r)
  <2>1. PICK x : x = [o EXCEPT !.pc = IF @ = "unlock" THEN "auth" ELSE "failed", !.pooled = @ \cup {o.ses}, !.ses = 0]
    OBVIOUS
  <2>2. /\ x.pc = (IF o.pc = "unlock" THEN "auth" ELSE "failed") /\ x.ops = o.ops /\ x.called = o.called
        /\ o.pc \in {"unlock", "unlockFailed"}
    BY <1>1, <1>2, <1>6, <2>1 DEF ProcessType, Unlock
  <2>3. (o.pc = "unlock" => Mine(r) \subseteq ledger) /\ ledger' = ledger
    BY <1>2, <1>6 DEF ReadyInv, Unlock
  <2>4. ReadyInv(r, x)'
    BY <2>2, <2>3 DEF ReadyInv, LockPcs, Listening, Mine
  <2> QED BY <1>1, <1>6, <2>1, <2>2, <2>4, AddOn DEF Unlock, Assign
<1> QED BY <1>3, <1>4, <1>5, <1>6

\* A statement of r's transaction, which becomes y.
LEMMA Stated ==
  ASSUME Inv, Inv', StartInv, NEW r \in Replicas, NEW x, NEW y, rep' = [rep EXCEPT ![r] = x],
         sessions' = [sessions EXCEPT ![rep[r].ses] = y], UNCHANGED <<ledger, tables, triggers>>,
         rep[r].pc \in LockPcs, x.pc \in LockPcs, x.ses = rep[r].ses, x.ops = rep[r].ops, x.called = rep[r].called,
         LedgerOf(r, x, y), x.pc # "unlock"
  PROVE  StartInv'
<1>1. x \in ProcessType /\ rep[r].ses \in DOMAIN sessions
  BY DEF Inv, TypeOK, ProcInv
<1>2. sessions'[rep[r].ses] = y /\ \A t \in DOMAIN sessions \ {rep[r].ses} : sessions'[t] = sessions[t]
  BY <1>1
<1>3. CallInv(x)
  BY Going DEF LockPcs
<1>4. Grows
  BY DEF Grows, StartInv
<1>5. \A q \in Replicas \ {r} : Untouched(rep[q])
  <2> SUFFICES ASSUME NEW q \in Replicas \ {r}, rep[q].pc \in LockPcs PROVE Untouched(rep[q])
    BY DEF Untouched
  <2>1. rep[q].ses # rep[r].ses /\ rep[q].ses \in DOMAIN sessions
    BY DEF Inv, OwnSession, ProcInv
  <2> QED BY <1>2, <2>1 DEF Untouched
<1>6. LedgerOf(r, x, y)'
  BY DEF LedgerOf, Mine
<1>7. ReadyInv(r, x)'
  <2>1. PICK z : z = sessions'[x.ses]
    OBVIOUS
  <2>2. z = y
    BY <1>2, <2>1
  <2>3. LedgerOf(r, x, z)'
    BY <1>6, <2>2
  <2> QED BY <2>1, <2>3 DEF ReadyInv, LedgerOf, LockPcs, Listening
<1> QED BY <1>1, <1>3, <1>4, <1>5, <1>7, ReadyStep

LEMMA TransactionReady ==
  ASSUME Inv, Inv', StartInv, NEW r \in Replicas, Up(r) \/ Record(r) \/ SendCommit(r) \/ Rollback(r)
  PROVE  StartInv'
<1>1. PICK o, s : o = rep[r] /\ s = sessions[rep[r].ses]
  OBVIOUS
<1>2. rep[r].pc \in LockPcs /\ Connected(r)
  BY DEF Up, Record, SendCommit, Rollback, At, LockPcs
<1>3. o \in ProcessType /\ s \in SessionType
  BY <1>1, <1>2, LockSession DEF Session
<1>4. LedgerOf(r, o, s) /\ TxOf(o, s)
  BY <1>1, <1>2, LockSession DEF StartInv, ReadyInv, Session
<1>5. CASE Up(r)
  <2>1. PICK i \in DOMAIN List(r) : rep' = [rep EXCEPT ![r] = [o EXCEPT !.pc = "record", !.cur = List(r)[i]]]
                /\ sessions' = [sessions EXCEPT ![o.ses] = [s EXCEPT !.done = @ \cup {List(r)[i]}]]
    BY <1>1, <1>5 DEF Up, Assign, SetSession, Session
  <2>2. PICK x, y : x = [o EXCEPT !.pc = "record", !.cur = List(r)[i]] /\ y = [s EXCEPT !.done = @ \cup {List(r)[i]}]
    OBVIOUS
  <2>3. /\ x.pc = "record" /\ x.stage = o.stage /\ x.todo = o.todo /\ x.ses = o.ses /\ x.ops = o.ops /\ x.called = o.called
        /\ y.named = s.named /\ o.pc = "apply"
    BY <1>1, <1>3, <1>5, <2>2 DEF ProcessType, SessionType, Up, At
  <2>4. LedgerOf(r, x, y)
    BY <1>4, <2>3 DEF LedgerOf
  <2> QED BY <1>1, <1>2, <1>5, <2>1, <2>2, <2>3, <2>4, Stated DEF Up, LockPcs
<1>6. CASE Record(r)
  <2>1. PICK x, y : x = [o EXCEPT !.pc = "apply", !.todo = @ \ {o.cur}, !.cur = "none"] /\ y = [s EXCEPT !.named = @ \cup {o.cur}]
    OBVIOUS
  <2>2. /\ x.pc = "apply" /\ x.stage = o.stage /\ x.todo = o.todo \ {o.cur} /\ x.ses = o.ses /\ x.ops = o.ops /\ x.called = o.called
        /\ y.named = s.named \cup {o.cur} /\ o.pc = "record"
    BY <1>1, <1>3, <1>6, <2>1 DEF ProcessType, SessionType, Record, At
  <2>3. LedgerOf(r, x, y)
    BY <1>4, <2>2 DEF LedgerOf
  <2> QED BY <1>1, <1>2, <1>6, <2>1, <2>2, <2>3, Stated DEF Record, Assign, SetSession, Session, LockPcs
<1>7. CASE SendCommit(r)
  <2>1. PICK x, y : x = [o EXCEPT !.pc = "commit"] /\ y = [s EXCEPT !.commit = TRUE]
    OBVIOUS
  <2>2. /\ x.pc = "commit" /\ x.ses = o.ses /\ x.ops = o.ops /\ x.called = o.called
        /\ y.named = s.named /\ y.commit /\ o.pc = "apply" /\ o.stage = "app" /\ o.todo = {}
    BY <1>1, <1>3, <1>7, <2>1 DEF ProcessType, SessionType, SendCommit, At
  <2>3. Mine(r) \subseteq ledger \cup s.named
    <3>1. Range(Lists[r]["system"]) \subseteq ledger \cup s.named /\ Range(Lists[r]["app"]) \subseteq ledger \cup s.named
      BY <1>4, <2>2 DEF LedgerOf
    <3> QED BY <3>1 DEF Mine, Stages
  <2>4. LedgerOf(r, x, y)
    BY <2>2, <2>3 DEF LedgerOf
  <2> QED BY <1>1, <1>2, <1>7, <2>1, <2>2, <2>4, Stated DEF SendCommit, Goto, Assign, SetSession, Session, LockPcs
<1>8. CASE Rollback(r)
  <2>1. PICK x, y : x = [o EXCEPT !.pc = "unlockFailed"] /\ y = [s EXCEPT !.done = {}, !.named = {}]
    OBVIOUS
  <2>2. /\ x.pc = "unlockFailed" /\ x.ses = o.ses /\ x.ops = o.ops /\ x.called = o.called
    BY <1>3, <2>1 DEF ProcessType
  <2>3. LedgerOf(r, x, y)
    BY <2>2 DEF LedgerOf
  <2> QED BY <1>1, <1>2, <1>8, <2>1, <2>2, <2>3, Stated DEF Rollback, Goto, Assign, SetSession, Session, LockPcs
<1> QED BY <1>5, <1>6, <1>7, <1>8

\* The connection to take the lock on is nobody else's yet.
LEMMA RequestLockReady ==
  ASSUME Inv, Inv', StartInv, NEW r \in Replicas, RequestLock(r)
  PROVE  StartInv'
<1>1. PICK o, n : o = rep[r] /\ n = Len(sessions) + 1
  OBVIOUS
<1>2. PICK x : x = [o EXCEPT !.pc = "lock", !.ses = n]
  OBVIOUS
<1>3. rep' = [rep EXCEPT ![r] = x] /\ x \in ProcessType
  BY <1>1, <1>2 DEF RequestLock, Assign, Inv, TypeOK
<1>4. o \in ProcessType /\ o.pc = "connect" /\ x.pc = "lock" /\ x.ops = o.ops /\ x.called = o.called
  BY <1>1, <1>2 DEF RequestLock, At, Inv, TypeOK, ProcessType
<1>5. CallInv(x)
  BY <1>1, <1>4, Going
<1>6. Grows
  BY DEF Grows, StartInv, RequestLock
<1>7. \A q \in Replicas \ {r} : Untouched(rep[q])
  <2>1. \A t \in DOMAIN sessions : sessions'[t] = sessions[t]
    <3>1. sessions' = Append(sessions, NewSession) /\ sessions \in Seq(SessionType) /\ DOMAIN sessions = 1..Len(sessions)
          /\ NewSession \in SessionType
      BY ServerTypes DEF RequestLock, NewSession, SessionType
    <3> QED BY <3>1, AppendProperties
  <2>2. \A q \in Replicas : rep[q].pc \in LockPcs => rep[q].ses \in DOMAIN sessions
    BY DEF Inv, ProcInv
  <2> QED BY <2>1, <2>2 DEF Untouched
<1>8. ReadyInv(r, x)'
  BY <1>4 DEF ReadyInv, LedgerOf, Listening
<1> QED BY <1>3, <1>5, <1>6, <1>7, <1>8, ReadyStep

\* The first call is taken from the queue: the last one is still the last.
LEMMA Taken ==
  ASSUME Inv, StartInv, NEW r \in Replicas, rep[r].ops # <<>>, NEW x, x.ops = Tail(rep[r].ops), x.called = rep[r].called,
         x.ops = <<>> /\ rep[r].called = "stop" /\ Head(rep[r].ops) = "stop" => x.pc = "down"
  PROVE  CallInv(x)
<1> SUFFICES ASSUME x.called = "stop" PROVE IF x.ops = <<>> THEN x.pc = "down" ELSE x.ops[Len(x.ops)] = "stop"
  BY DEF CallInv
<1>1. PICK o : o = rep[r].ops
  OBVIOUS
<1>2. o \in Seq({"start", "stop"}) /\ o # <<>> /\ x.ops = Tail(o)
  BY <1>1 DEF Inv, TypeOK, ProcessType
<1>3. o[Len(o)] = "stop"
  BY <1>1, <1>2 DEF StartInv, CallInv
<1>4. /\ Tail(o) = <<>> => Head(o) = "stop"
      /\ Tail(o) # <<>> => Tail(o)[Len(Tail(o))] = "stop"
  BY <1>2, <1>3, TailLast
<1> QED BY <1>1, <1>2, <1>4

\* A replica whose connections are closed, and that is down or serves on.
LEMMA ClosedReady ==
  ASSUME Inv, Inv', StartInv, NEW r \in Replicas, NEW x, rep' = [rep EXCEPT ![r] = x], NEW S,
         sessions' = Closed(S) \/ UNCHANGED sessions, UNCHANGED <<ledger, tables, triggers>>,
         CallInv(x), x.pc \notin LockPcs, ReadyInv(r, x)
  PROVE  StartInv'
<1>1. x \in ProcessType /\ \A q \in Replicas : rep[q].pc \in LockPcs => rep[q].ses \in DOMAIN sessions
  BY DEF Inv, TypeOK, ProcInv
<1>2. Grows
  BY DEF Grows, StartInv
<1>3. \A q \in Replicas \ {r} : Untouched(rep[q])
  <2>1. CASE UNCHANGED sessions
    BY <2>1 DEF Untouched
  <2>2. CASE sessions' = Closed(S)
    BY <1>1, <2>2, ClosedUntouched
  <2> QED BY <2>1, <2>2
<1>4. Untouched(x)
  BY DEF Untouched
<1>5. ReadyInv(r, x)'
  BY <1>1, <1>2, <1>4, OthersReady
<1> QED BY <1>1, <1>2, <1>3, <1>5, ReadyStep

LEMMA LifecycleReady ==
  ASSUME Inv, Inv', StartInv, NEW r \in Replicas, StartServer(r) \/ StopServer(r) \/ StartFailed(r) \/ Crash(r)
  PROVE  StartInv'
<1>1. PICK o : o = rep[r]
  OBVIOUS
<1>2. o \in ProcessType /\ ReadyInv(r, o) /\ CallInv(o)
  BY <1>1 DEF Inv, TypeOK, StartInv
<1>3. CASE StartServer(r)
  <2>1. PICK x : x = [o EXCEPT !.ops = Tail(@), !.pc = IF @ = "serving" THEN @ ELSE "connect"]
    OBVIOUS
  <2>2. /\ x.pc = (IF o.pc = "serving" THEN "serving" ELSE "connect") /\ x.listener = o.listener
        /\ x.ops = Tail(o.ops) /\ x.called = o.called /\ o.ops # <<>> /\ Head(o.ops) = "start"
    BY <1>1, <1>2, <1>3, <2>1 DEF ProcessType, StartServer, Calls
  <2>3. CallInv(x)
    BY <1>1, <2>2, Taken
  <2>4. ReadyInv(r, x)
    BY <1>2, <2>2 DEF ReadyInv, LockPcs, Listening
  <2>5. rep' = [rep EXCEPT ![r] = x] /\ UNCHANGED sessions /\ UNCHANGED <<ledger, tables, triggers>>
    BY <1>1, <1>3, <2>1 DEF StartServer, Assign, pgVars
  <2>6. x.pc \notin LockPcs
    BY <2>2 DEF LockPcs
  <2> QED BY <2>3, <2>4, <2>5, <2>6, ClosedReady
<1>4. CASE StopServer(r)
  <2>1. o.ops # <<>>
    BY <1>1, <1>4 DEF StopServer, Calls
  <2>2. PICK x : x = [o EXCEPT !.ops = Tail(@), !.pc = "down", !.pooled = {}, !.listener = FALSE,
                       !.timers = IF o.timer THEN @ - 1 ELSE @, !.timer = FALSE]
    OBVIOUS
  <2>3. x.pc = "down" /\ x.ops = Tail(o.ops) /\ x.called = o.called
    BY <1>2, <2>2 DEF ProcessType
  <2>4. CallInv(x) /\ ReadyInv(r, x)
    <3>1. CallInv(x)
      BY <1>1, <2>1, <2>3, Taken
    <3> QED BY <2>3, <3>1 DEF ReadyInv, LockPcs, Listening
  <2>5. PICK w : w = [o EXCEPT !.ops = Tail(@), !.called = "none"]
    OBVIOUS
  <2>6. w.pc = o.pc /\ w.called = "none" /\ w.listener = o.listener
    BY <1>2, <2>5 DEF ProcessType
  <2>7. CallInv(w) /\ (o.pc = "serving" => ReadyInv(r, w))
    BY <1>2, <2>6 DEF CallInv, ReadyInv, LockPcs, Listening
  <2>8. UNCHANGED <<ledger, tables, triggers>>
    BY <1>4 DEF StopServer
  <2>9. CASE rep' = [rep EXCEPT ![r] = x] /\ sessions' = Closed(o.pooled)
    BY <2>3, <2>4, <2>8, <2>9, ClosedReady DEF LockPcs
  <2>10. CASE rep' = [rep EXCEPT ![r] = w] /\ UNCHANGED sessions /\ o.pc = "serving"
    BY <2>6, <2>7, <2>8, <2>10, ClosedReady DEF LockPcs
  <2> QED BY <1>1, <1>4, <2>2, <2>5, <2>9, <2>10 DEF StopServer, Assign, At
<1>5. CASE StartFailed(r)
  <2>1. PICK x : x = [o EXCEPT !.pc = "down", !.listener = FALSE, !.pooled = {}]
    OBVIOUS
  <2>2. x.pc = "down" /\ x.ops = o.ops /\ x.called = o.called /\ o.pc = "failed"
    BY <1>1, <1>2, <1>5, <2>1 DEF ProcessType, StartFailed, At
  <2>3. CallInv(x) /\ ReadyInv(r, x)
    BY <1>2, <2>2 DEF CallInv, ReadyInv, LockPcs, Listening
  <2> QED BY <1>1, <1>5, <2>1, <2>2, <2>3, ClosedReady DEF StartFailed, Assign, LockPcs
<1>6. CASE Crash(r)
  <2>1. PICK x : x = NewProcess
    OBVIOUS
  <2>2. x.pc = "down" /\ x.called = "none"
    BY <2>1 DEF NewProcess
  <2>3. CallInv(x) /\ ReadyInv(r, x)
    BY <2>2 DEF CallInv, ReadyInv, LockPcs, Listening
  <2> QED BY <1>6, <2>1, <2>2, <2>3, ClosedReady DEF Crash, Assign, LockPcs
<1> QED BY <1>3, <1>4, <1>5, <1>6

LEMMA LoseConnectionReady ==
  ASSUME Inv, Inv', StartInv, NEW r \in Replicas, LoseConnection(r)
  PROVE  StartInv'
<1>1. rep[r] \in ProcessType /\ rep[r].ses \in DOMAIN sessions /\ rep' = [rep EXCEPT ![r] = rep[r]]
  BY DEF Inv, TypeOK, ProcInv, LoseConnection
<1>2. Grows /\ \A q \in Replicas : Untouched(rep[q])
  <2>1. Grows
    BY DEF Grows, StartInv, LoseConnection
  <2>2. \A q \in Replicas : Untouched(rep[q])
    BY ClosedUntouched DEF Inv, ProcInv, LoseConnection
  <2> QED BY <2>1, <2>2
<1>3. PICK x : x = rep[r]
  OBVIOUS
<1>4. ReadyInv(r, x)'
  BY <1>1, <1>2, <1>3, OthersReady DEF StartInv
<1>5. CallInv(x)
  BY <1>3 DEF StartInv
<1> QED BY <1>1, <1>2, <1>3, <1>4, <1>5, ReadyStep

LEMMA PostgresReady ==
  ASSUME Inv, Inv', StartInv, Postgres
  PROVE  StartInv'
<1>1. \A q \in Replicas : rep[q] \in ProcessType /\ (rep[q].pc \in LockPcs => rep[q].ses \in DOMAIN sessions)
      /\ CallInv(rep[q]) /\ ReadyInv(q, rep[q]) /\ ProcInv(rep[q])
  BY DEF Inv, TypeOK, ProcInv, StartInv
<1>2. UNCHANGED rep
  BY DEF Postgres, Grant, ExecuteCommit, BackendExits
<1>3. ASSUME Grows, NEW q \in Replicas, Untouched(rep[q]) PROVE CallInv(rep[q])' /\ ReadyInv(q, rep[q])'
  <2>1. PICK x : x = rep[q]
    OBVIOUS
  <2>2. ReadyInv(q, x)'
    BY <1>1, <1>3, <2>1, OthersReady
  <2> QED BY <1>1, <1>2, <2>1, <2>2 DEF CallInv, ReadyInv, LedgerOf
<1>4. CASE Grant
  <2>1. Grows /\ \A q \in Replicas : Untouched(rep[q])
    BY <1>4 DEF Grant, Grows, Untouched, StartInv
  <2> QED BY <1>3, <2>1 DEF StartInv, Grows
<1>5. ASSUME NEW s \in DOMAIN sessions, BackendExits(s) PROVE StartInv'
  <2>1. Grows
    BY <1>5 DEF BackendExits, Grows, StartInv
  <2>2. \A q \in Replicas : Untouched(rep[q])
    <3> SUFFICES ASSUME NEW q \in Replicas, rep[q].pc \in LockPcs PROVE Untouched(rep[q])
      BY DEF Untouched
    <3>1. Gone.lost
      BY DEF Gone, NewSession
    <3>2. sessions' = [sessions EXCEPT ![s] = Gone] /\ sessions[s].lost
      BY <1>5 DEF BackendExits, SetSession
    <3> QED BY <1>1, <3>1, <3>2 DEF Untouched
  <2> QED BY <1>3, <2>1, <2>2 DEF StartInv, Grows
<1>6. ASSUME NEW s \in DOMAIN sessions, ExecuteCommit(s) PROVE StartInv'
  <2>1. PICK y, z : y = sessions[s] /\ z = [y EXCEPT !.done = {}, !.named = {}, !.commit = FALSE]
    OBVIOUS
  <2>2. z.named = {} /\ z.commit = FALSE /\ z.lost = y.lost /\ y.commit /\ lock = s /\ y.done = y.named
    BY <1>6, <2>1, ServerTypes DEF ExecuteCommit, SessionType, Inv, TxInv
  <2>3. sessions'[s] = z /\ \A t \in DOMAIN sessions \ {s} : sessions'[t] = sessions[t]
    BY <1>6, <2>1 DEF ExecuteCommit, SetSession
  <2>4. ledger' = ledger \cup y.named /\ tables' = tables \cup y.done /\ UNCHANGED triggers
    BY <1>6, <2>1 DEF ExecuteCommit
  <2>5. Grows
    BY <2>2, <2>4 DEF Grows, StartInv
  <2>6. ASSUME NEW q \in Replicas, rep[q].pc \notin LockPcs \/ rep[q].ses # s PROVE CallInv(rep[q])' /\ ReadyInv(q, rep[q])'
    <3>1. Untouched(rep[q])
      BY <1>1, <2>3, <2>6 DEF Untouched
    <3> QED BY <1>3, <2>5, <3>1
  <2>7. ASSUME NEW q \in Replicas, rep[q].pc \in LockPcs, rep[q].ses = s PROVE CallInv(rep[q])' /\ ReadyInv(q, rep[q])'
    <3>1. PICK x : x = rep[q]
      OBVIOUS
    <3>2. rep'[q] = x /\ CallInv(x) /\ x.pc \in LockPcs /\ x.ses = s
      BY <1>1, <1>2, <2>7, <3>1
    <3>3. ~y.lost => x.pc = "commit" /\ LedgerOf(q, x, y)
      <4>1. ~y.lost => TxOf(x, y) /\ LedgerOf(q, x, y)
        BY <1>1, <2>1, <2>7, <3>1 DEF ProcInv, ReadyInv
      <4> QED BY <2>2, <4>1 DEF TxOf
    <3>4. ~z.lost => LedgerOf(q, x, z)'
      BY <2>2, <2>4, <3>3 DEF LedgerOf, Mine
    <3>5. x.pc = "unlock" => Mine(q) \subseteq ledger'
      BY <1>1, <2>4, <2>7, <3>1 DEF ReadyInv
    <3>6. ReadyInv(q, x)'
      BY <2>3, <3>2, <3>4, <3>5 DEF ReadyInv, LedgerOf, Mine, LockPcs, Listening
    <3> QED BY <3>2, <3>6 DEF CallInv, ReadyInv, LedgerOf
  <2> QED BY <2>5, <2>6, <2>7 DEF StartInv, Grows
<1> QED BY <1>4, <1>5, <1>6 DEF Postgres

LEMMA StartStep == Inv /\ Inv' /\ StartInv /\ [Next]_vars => StartInv'
<1> SUFFICES ASSUME Inv, Inv', StartInv, [Next]_vars PROVE StartInv'
  OBVIOUS
<1>1. CASE UNCHANGED vars
  BY <1>1 DEF vars, pgVars, StartInv, CallInv, ReadyInv, LedgerOf, Watched, Mine
<1>2. ASSUME NEW r \in Replicas, NEW op \in {"start", "stop"}, Call(r, op) PROVE StartInv'
  BY <1>2, CallReady
<1>3. ASSUME NEW r \in Replicas, Start(r) \/ StartFails(r) PROVE StartInv'
  BY <1>3, StartReady, TablesReady, CheckTriggerReady, LifecycleReady DEF Start
<1>4. ASSUME NEW r \in Replicas, Migrate(r) \/ MigrationFails(r) PROVE StartInv'
  BY <1>4, MigrateReady, TransactionReady, RequestLockReady, TablesReady DEF Migrate
<1>5. ASSUME NEW r \in Replicas, StartServer(r) \/ StopServer(r) \/ Crash(r) \/ LoseConnection(r) PROVE StartInv'
  BY <1>5, LifecycleReady, LoseConnectionReady
<1> QED BY <1>1, <1>2, <1>3, <1>4, <1>5, PostgresReady DEF Next, Step

LEMMA StartInit == Init => StartInv
<1> SUFFICES ASSUME Init, NEW r \in Replicas PROVE CallInv(rep[r]) /\ ReadyInv(r, rep[r])
  BY DEF StartInv, Init
<1>1. PICK x : x = rep[r]
  OBVIOUS
<1>2. x.pc = "down" /\ x.called = "none"
  BY <1>1 DEF Init, NewProcess
<1>3. CallInv(x) /\ ReadyInv(r, x)
  BY <1>2 DEF CallInv, ReadyInv, LockPcs, Listening
<1> QED BY <1>1, <1>3

\* A server listens only when its migrations are committed, its tables exist and all of
\* them notify the listener it started, whatever other replicas do; and when nothing is
\* in progress, a replica that was last asked to stop is down.
THEOREM ServersServeAsCalled == Spec => []ServesAsCalled
<1>1. Inv /\ StartInv => ServesAsCalled
  <2> SUFFICES ASSUME Inv, StartInv, NEW r \in Replicas
               PROVE  /\ At(r, "serving") => /\ Mine(r) \subseteq ledger /\ rep[r].listener
                                             /\ Mine(r) \cup {"todos", "user"} \subseteq triggers
                      /\ Settled(r) /\ rep[r].ops = <<>> /\ rep[r].called = "stop" => At(r, "down")
    BY DEF ServesAsCalled, ServingIsReady, LastCallDecides, Mine
  <2>1. CallInv(rep[r]) /\ ReadyInv(r, rep[r])
    BY DEF StartInv
  <2> QED BY <2>1 DEF CallInv, ReadyInv, At, Listening, Watched
<1> QED BY <1>1, Invariant, StartInit, StartStep, PTL DEF Spec

(***************************************************************************)
(* The refinement of MigrationLedger.  A transaction holds migrations of   *)
(* its replica's version only; one that is about to be committed, also     *)
(* when its replica has lost the connection, holds all that the ledger     *)
(* does not name.                                                          *)
(***************************************************************************)
OfVersion(r, x) == x.pc \in LockPcs /\ ~sessions[x.ses].lost =>
    /\ sessions[x.ses].named \subseteq Mine(r)
    /\ x.pc \in {"apply", "record"} => x.todo \subseteq Mine(r)
    /\ x.pc = "record" => x.cur \in Mine(r)
Whole(y) == y.commit => \E v \in Replicas : y.named = Mine(v) \ ledger

PlanInv ==
    /\ \A r \in Replicas : OfVersion(r, rep[r])
    /\ \A s \in DOMAIN sessions : Whole(sessions[s])

\* Whatever is sent to be committed was sent before.
NoneSent == \A s \in DOMAIN sessions' : sessions'[s].commit =>
    s \in DOMAIN sessions /\ sessions[s].commit /\ sessions'[s].named = sessions[s].named

\* A step of one replica, in or outside the lock.
LEMMA PlanStep ==
  ASSUME Inv, PlanInv, NEW r \in Replicas, NEW x, rep' = [rep EXCEPT ![r] = x], UNCHANGED ledger,
         \A q \in Replicas \ {r} : Untouched(rep[q]), OfVersion(r, x)',
         \A s \in DOMAIN sessions' : Whole(sessions'[s])
  PROVE  PlanInv'
<1>1. rep'[r] = x /\ \A q \in Replicas \ {r} : rep'[q] = rep[q]
  BY DEF Inv, TypeOK
<1>2. ASSUME NEW q \in Replicas PROVE OfVersion(q, rep[q])'
  <2>1. CASE q = r
    BY <1>1, <2>1 DEF OfVersion, Mine
  <2>2. CASE q # r
    <3>1. OfVersion(q, rep[q]) /\ Untouched(rep[q]) /\ rep'[q] = rep[q]
      BY <1>1, <2>2 DEF PlanInv
    <3> QED BY <3>1 DEF OfVersion, Untouched, Mine
  <2> QED BY <2>1, <2>2
<1>3. ASSUME NEW s \in DOMAIN sessions' PROVE Whole(sessions[s])'
  BY <1>3 DEF Whole, Mine
<1> QED BY <1>2, <1>3 DEF PlanInv

LEMMA NothingSent ==
  ASSUME PlanInv, NoneSent, UNCHANGED ledger
  PROVE  \A s \in DOMAIN sessions' : Whole(sessions'[s])
BY DEF PlanInv, NoneSent, Whole

\* A step that leaves the connections alone.
LEMMA PlanLocal ==
  ASSUME Inv, PlanInv, NEW r \in Replicas, NEW x, rep' = [rep EXCEPT ![r] = x], UNCHANGED <<ledger, sessions>>,
         OfVersion(r, x)
  PROVE  PlanInv'
<1>1. (\A q \in Replicas \ {r} : Untouched(rep[q])) /\ NoneSent
  BY DEF Untouched, NoneSent
<1>2. OfVersion(r, x)'
  BY DEF OfVersion, Mine
<1> QED BY <1>1, <1>2, NothingSent, PlanStep

LEMMA MigratePlans ==
  ASSUME Inv, PlanInv, NEW r \in Replicas,
         LockAcquired(r) \/ LoadApplied(r) \/ NextStage(r) \/ Committed(r) \/ MigrationFails(r)
  PROVE  PlanInv'
<1>1. PICK o : o = rep[r]
  OBVIOUS
<1>2. o \in ProcessType /\ OfVersion(r, o)
  BY <1>1 DEF Inv, TypeOK, PlanInv
<1>3. UNCHANGED <<ledger, sessions>>
  BY DEF LockAcquired, LoadApplied, NextStage, Committed, MigrationFails, pgVars
<1>4. CASE LockAcquired(r)
  <2>1. PICK x : x = [o EXCEPT !.pc = "load", !.stage = "system"]
    OBVIOUS
  <2>2. x.pc = "load" /\ x.ses = o.ses /\ o.pc = "lock"
    BY <1>1, <1>2, <1>4, <2>1 DEF ProcessType, LockAcquired, At
  <2>3. OfVersion(r, x)
    BY <1>2, <2>2 DEF OfVersion, LockPcs
  <2> QED BY <1>1, <1>3, <1>4, <2>1, <2>3, PlanLocal DEF LockAcquired, Assign
<1>5. CASE LoadApplied(r)
  <2>1. PICK T : T = Range(List(r)) \ (ledger \cup Session(r).named)
    OBVIOUS
  <2>2. PICK x : x = [o EXCEPT !.pc = "apply", !.todo = T]
    OBVIOUS
  <2>3. x.pc = "apply" /\ x.ses = o.ses /\ x.todo = T /\ o.pc = "load"
    BY <1>1, <1>2, <1>5, <2>2 DEF ProcessType, LoadApplied, At
  <2>4. T \subseteq Mine(r)
    BY <1>1, <1>2, <2>1 DEF List, Mine, ProcessType
  <2>5. OfVersion(r, x)
    BY <1>2, <2>3, <2>4 DEF OfVersion, LockPcs
  <2> QED BY <1>1, <1>3, <1>5, <2>1, <2>2, <2>5, PlanLocal DEF LoadApplied, Assign
<1>6. CASE NextStage(r)
  <2>1. PICK x : x = [o EXCEPT !.pc = "load", !.stage = "app"]
    OBVIOUS
  <2>2. x.pc = "load" /\ x.ses = o.ses /\ o.pc = "apply"
    BY <1>1, <1>2, <1>6, <2>1 DEF ProcessType, NextStage, At
  <2>3. OfVersion(r, x)
    BY <1>2, <2>2 DEF OfVersion, LockPcs
  <2> QED BY <1>1, <1>3, <1>6, <2>1, <2>3, PlanLocal DEF NextStage, Assign
<1>7. CASE Committed(r)
  <2>1. PICK x : x = [o EXCEPT !.pc = "unlock"]
    OBVIOUS
  <2>2. x.pc = "unlock" /\ x.ses = o.ses /\ o.pc = "commit"
    BY <1>1, <1>2, <1>7, <2>1 DEF ProcessType, Committed, At
  <2>3. OfVersion(r, x)
    BY <1>2, <2>2 DEF OfVersion, LockPcs
  <2> QED BY <1>1, <1>3, <1>7, <2>1, <2>3, PlanLocal DEF Committed, Goto, Assign
<1>8. CASE MigrationFails(r)
  <2>1. PICK x : x = [o EXCEPT !.pc = "rollback", !.todo = {}]
    OBVIOUS
  <2>2. x.pc = "rollback" /\ x.ses = o.ses /\ o.pc \in {"load", "apply"}
    BY <1>1, <1>2, <1>8, <2>1 DEF ProcessType, MigrationFails
  <2>3. OfVersion(r, x)
    BY <1>2, <2>2 DEF OfVersion, LockPcs
  <2> QED BY <1>1, <1>3, <1>8, <2>1, <2>3, PlanLocal DEF MigrationFails, Assign
<1> QED BY <1>4, <1>5, <1>6, <1>7, <1>8

\* A step of a replica that is then not migrating.
LEMMA Outside ==
  ASSUME Inv, PlanInv, NEW r \in Replicas, NEW x, rep' = [rep EXCEPT ![r] = x], x.pc \notin LockPcs,
         UNCHANGED ledger, NEW S, sessions' = Closed(S) \/ UNCHANGED sessions
  PROVE  PlanInv'
<1>1. \A q \in Replicas \ {r} : Untouched(rep[q])
  <2>1. CASE UNCHANGED sessions
    BY <2>1 DEF Untouched
  <2>2. CASE sessions' = Closed(S)
    BY <2>2, ClosedUntouched DEF Inv, ProcInv
  <2> QED BY <2>1, <2>2
<1>2. NoneSent
  BY Closing DEF Inv, ClosedOnly, NoneSent
<1>3. OfVersion(r, x)'
  BY DEF OfVersion
<1> QED BY <1>1, <1>2, <1>3, NothingSent, PlanStep

LEMMA LeavingPlans ==
  ASSUME Inv, PlanInv, NEW r \in Replicas, Unlock(r) \/ Aborted(r) \/ StartFails(r) \/ StartServer(r)
                                           \/ StopServer(r) \/ StartFailed(r) \/ Crash(r)
  PROVE  PlanInv'
<1>1. PICK o : o = rep[r]
  OBVIOUS
<1>2. o \in ProcessType
  BY <1>1 DEF Inv, TypeOK
<1>3. CASE Unlock(r)
  <2>1. PICK x : x = [o EXCEPT !.pc = IF @ = "unlock" THEN "auth" ELSE "failed", !.pooled = @ \cup {o.ses}, !.ses = 0]
    OBVIOUS
  <2>2. x.pc \notin LockPcs
    BY <1>2, <2>1 DEF ProcessType, LockPcs
  <2> QED BY <1>1, <1>3, <2>1, <2>2, Outside DEF Unlock, Assign
<1>4. CASE Aborted(r)
  <2>1. PICK x : x = [o EXCEPT !.pc = "failed", !.ses = 0, !.todo = {}, !.cur = "none"]
    OBVIOUS
  <2>2. x.pc \notin LockPcs
    BY <1>2, <2>1 DEF ProcessType, LockPcs
  <2> QED BY <1>1, <1>4, <2>1, <2>2, Outside DEF Aborted, Assign, pgVars
<1>5. CASE StartFails(r)
  <2>1. PICK x : x = [o EXCEPT !.pc = "failed"]
    OBVIOUS
  <2>2. x.pc \notin LockPcs
    BY <1>2, <2>1 DEF ProcessType, LockPcs
  <2> QED BY <1>1, <1>5, <2>1, <2>2, Outside DEF StartFails, Goto, Assign, pgVars
<1>6. CASE StartServer(r)
  <2>1. PICK x : x = [o EXCEPT !.ops = Tail(@), !.pc = IF @ = "serving" THEN @ ELSE "connect"]
    OBVIOUS
  <2>2. x.pc \notin LockPcs
    BY <1>2, <2>1 DEF ProcessType, LockPcs
  <2> QED BY <1>1, <1>6, <2>1, <2>2, Outside DEF StartServer, Assign, pgVars
<1>7. CASE StopServer(r)
  <2>1. PICK x : x = [o EXCEPT !.ops = Tail(@), !.pc = "down", !.pooled = {}, !.listener = FALSE,
                       !.timers = IF o.timer THEN @ - 1 ELSE @, !.timer = FALSE]
    OBVIOUS
  <2>2. PICK w : w = [o EXCEPT !.ops = Tail(@), !.called = "none"]
    OBVIOUS
  <2>3. x.pc \notin LockPcs /\ w.pc = o.pc /\ "serving" \notin LockPcs
    BY <1>2, <2>1, <2>2 DEF ProcessType, LockPcs
  <2>4. CASE rep' = [rep EXCEPT ![r] = x] /\ sessions' = Closed(o.pooled)
    BY <1>7, <2>3, <2>4, Outside DEF StopServer
  <2>5. CASE rep' = [rep EXCEPT ![r] = w] /\ UNCHANGED sessions /\ o.pc = "serving"
    BY <1>7, <2>3, <2>5, Outside DEF StopServer
  <2> QED BY <1>1, <1>7, <2>1, <2>2, <2>4, <2>5 DEF StopServer, Assign, At
<1>8. CASE StartFailed(r)
  <2>1. PICK x : x = [o EXCEPT !.pc = "down", !.listener = FALSE, !.pooled = {}]
    OBVIOUS
  <2>2. x.pc \notin LockPcs
    BY <1>2, <2>1 DEF ProcessType, LockPcs
  <2> QED BY <1>1, <1>8, <2>1, <2>2, Outside DEF StartFailed, Assign
<1>9. CASE Crash(r)
  <2>1. PICK x : x = NewProcess
    OBVIOUS
  <2>2. x.pc \notin LockPcs
    BY <2>1 DEF NewProcess, LockPcs
  <2> QED BY <1>9, <2>1, <2>2, Outside DEF Crash, Assign
<1> QED BY <1>3, <1>4, <1>5, <1>6, <1>7, <1>8, <1>9

LEMMA StartPlans ==
  ASSUME Inv, PlanInv, NEW r \in Replicas, Start(r)
  PROVE  PlanInv'
<1>1. PICK o : o = rep[r]
  OBVIOUS
<1>2. o \in ProcessType
  BY <1>1 DEF Inv, TypeOK
<1>3. ASSUME NEW l, l \notin LockPcs, Goto(r, l), UNCHANGED <<ledger, sessions>> PROVE PlanInv'
  <2>1. PICK x : x = [o EXCEPT !.pc = l]
    OBVIOUS
  <2>2. x.pc \notin LockPcs
    BY <1>2, <1>3, <2>1 DEF ProcessType
  <2> QED BY <1>1, <1>3, <2>1, <2>2, Outside DEF Goto, Assign
<1>4. CASE CreateAuth(r) \/ EnsureTables(r) \/ CreateTodos(r) \/ TriggersAttached(r) \/ Listen(r)
  <2>1. UNCHANGED <<ledger, sessions>>
    BY <1>4 DEF CreateAuth, EnsureTables, CreateTodos, TriggersAttached, Listen, pgVars
  <2>2. PICK l \in {"todos", "listener", "createTodos", "failed", "plugins", "serving"} : Goto(r, l)
    <3>1. CreateAuth(r) => Goto(r, "todos")
      BY DEF CreateAuth
    <3>2. TriggersAttached(r) => Goto(r, "plugins")
      BY DEF TriggersAttached
    <3>3. Listen(r) => Goto(r, "serving")
      BY DEF Listen
    <3>4. EnsureTables(r) => Goto(r, "listener") \/ Goto(r, "createTodos")
      BY DEF EnsureTables
    <3>5. CreateTodos(r) => Goto(r, "listener") \/ Goto(r, "failed")
      BY DEF CreateTodos
    <3> QED BY <1>4, <3>1, <3>2, <3>3, <3>4, <3>5
  <2>3. l \notin LockPcs
    BY <2>2 DEF LockPcs
  <2> QED BY <1>3, <2>1, <2>2, <2>3
<1>5. CASE StartListener(r)
  <2>1. PICK x : x = [o EXCEPT !.pc = "discover", !.listener = TRUE]
    OBVIOUS
  <2>2. x.pc \notin LockPcs
    BY <1>2, <2>1 DEF ProcessType, LockPcs
  <2> QED BY <1>1, <1>5, <2>1, <2>2, Outside DEF StartListener, Assign, pgVars
<1>6. CASE DiscoverTables(r)
  <2>1. PICK x : x = [o EXCEPT !.pc = "attach", !.todo = tables]
    OBVIOUS
  <2>2. x.pc \notin LockPcs
    BY <1>2, <2>1 DEF ProcessType, LockPcs
  <2> QED BY <1>1, <1>6, <2>1, <2>2, Outside DEF DiscoverTables, Assign, pgVars
<1>7. ASSUME NEW t, CheckTrigger(r, t) PROVE PlanInv'
  <2>1. PICK x, w : x = [o EXCEPT !.todo = @ \ {t}] /\ w = [o EXCEPT !.pc = "createTrigger", !.cur = t]
    OBVIOUS
  <2>2. x.pc \notin LockPcs /\ w.pc \notin LockPcs
    BY <1>1, <1>2, <1>7, <2>1 DEF ProcessType, LockPcs, CheckTrigger, At
  <2>3. rep' = [rep EXCEPT ![r] = x] \/ rep' = [rep EXCEPT ![r] = w]
    BY <1>1, <1>7, <2>1 DEF CheckTrigger, Assign
  <2> QED BY <1>7, <2>2, <2>3, Outside DEF CheckTrigger, pgVars
<1>8. CASE CreateTrigger(r)
  <2>1. PICK x : x = [o EXCEPT !.pc = "attach", !.todo = @ \ {o.cur}, !.cur = "none"]
    OBVIOUS
  <2>2. x.pc \notin LockPcs
    BY <1>2, <2>1 DEF ProcessType, LockPcs
  <2> QED BY <1>1, <1>8, <2>1, <2>2, Outside DEF CreateTrigger, Assign
<1>9. CASE PruneLogs(r)
  <2>1. PICK x : x = [o EXCEPT !.pc = "preflight", !.timer = TRUE, !.timers = @ + 1]
    OBVIOUS
  <2>2. x.pc \notin LockPcs
    BY <1>2, <2>1 DEF ProcessType, LockPcs
  <2> QED BY <1>1, <1>9, <2>1, <2>2, Outside DEF PruneLogs, Assign, pgVars
<1> QED BY <1>4, <1>5, <1>6, <1>7, <1>8, <1>9, LeavingPlans DEF Start

\* A statement of r's transaction, which becomes y.
LEMMA PlanStated ==
  ASSUME Inv, PlanInv, NEW r \in Replicas, NEW x, NEW y, rep' = [rep EXCEPT ![r] = x],
         sessions' = [sessions EXCEPT ![rep[r].ses] = y], UNCHANGED ledger,
         rep[r].pc \in LockPcs, x.ses = rep[r].ses, Whole(y),
         /\ y.named \subseteq Mine(r)
         /\ x.pc \in {"apply", "record"} => x.todo \subseteq Mine(r)
         /\ x.pc = "record" => x.cur \in Mine(r)
  PROVE  PlanInv'
<1>1. rep[r].ses \in DOMAIN sessions
  BY DEF Inv, ProcInv
<1>2. /\ DOMAIN sessions' = DOMAIN sessions /\ sessions'[rep[r].ses] = y
      /\ \A t \in DOMAIN sessions \ {rep[r].ses} : sessions'[t] = sessions[t]
  BY <1>1
<1>3. \A q \in Replicas \ {r} : Untouched(rep[q])
  <2> SUFFICES ASSUME NEW q \in Replicas \ {r}, rep[q].pc \in LockPcs PROVE Untouched(rep[q])
    BY DEF Untouched
  <2>1. rep[q].ses # rep[r].ses /\ rep[q].ses \in DOMAIN sessions
    BY DEF Inv, OwnSession, ProcInv
  <2> QED BY <1>2, <2>1 DEF Untouched
<1>4. OfVersion(r, x)'
  BY <1>2 DEF OfVersion, Mine
<1>5. \A s \in DOMAIN sessions' : Whole(sessions'[s])
  BY <1>2 DEF PlanInv
<1> QED BY <1>3, <1>4, <1>5, PlanStep

\* The only step that sends anything to be committed is that of the last stage, which
\* has all of its version in the transaction or in the ledger (LedgerOf).
LEMMA TransactionPlans ==
  ASSUME Inv, StartInv, PlanInv, NEW r \in Replicas, Up(r) \/ Record(r) \/ SendCommit(r) \/ Rollback(r)
  PROVE  PlanInv'
<1>1. PICK o, s : o = rep[r] /\ s = Session(r)
  OBVIOUS
<1>2. o.pc \in LockPcs /\ Connected(r)
  BY <1>1 DEF Up, Record, SendCommit, Rollback, At, LockPcs
<1>3. o \in ProcessType /\ s \in SessionType /\ TxOf(o, s) /\ o.ses \in DOMAIN sessions /\ ~s.lost
  BY <1>1, <1>2, LockSession DEF Session
<1>4. /\ LedgerOf(r, o, s) /\ s.named \subseteq Mine(r)
      /\ o.pc \in {"apply", "record"} => o.todo \subseteq Mine(r)
      /\ o.pc = "record" => o.cur \in Mine(r)
  BY <1>1, <1>2, <1>3 DEF StartInv, ReadyInv, PlanInv, OfVersion, Session
<1>5. CASE Up(r)
  <2>1. PICK i \in DOMAIN List(r) : /\ List(r)[i] \in o.todo
                /\ rep' = [rep EXCEPT ![r] = [o EXCEPT !.pc = "record", !.cur = List(r)[i]]]
                /\ sessions' = [sessions EXCEPT ![o.ses] = [s EXCEPT !.done = @ \cup {List(r)[i]}]]
    BY <1>1, <1>5 DEF Up, Assign, SetSession, Session
  <2>2. PICK m : m = List(r)[i]
    OBVIOUS
  <2>3. PICK x, y : x = [o EXCEPT !.pc = "record", !.cur = m] /\ y = [s EXCEPT !.done = @ \cup {m}]
    OBVIOUS
  <2>4. /\ x.pc = "record" /\ x.cur = m /\ x.todo = o.todo /\ x.ses = o.ses
        /\ y.named = s.named /\ y.commit = s.commit /\ o.pc = "apply"
    BY <1>1, <1>3, <1>5, <2>3 DEF ProcessType, SessionType, Up, At
  <2>5. ~y.commit
    BY <1>3, <2>4 DEF TxOf
  <2>6. m \in o.todo /\ o.todo \subseteq Mine(r) /\ Whole(y)
    BY <1>4, <2>1, <2>2, <2>4, <2>5 DEF Whole
  <2>7. rep' = [rep EXCEPT ![r] = x] /\ sessions' = [sessions EXCEPT ![rep[r].ses] = y] /\ UNCHANGED ledger
    BY <1>1, <1>5, <2>1, <2>2, <2>3 DEF Up
  <2> QED BY <1>1, <1>2, <1>4, <2>4, <2>6, <2>7, PlanStated
<1>6. CASE Record(r)
  <2>1. PICK x, y : x = [o EXCEPT !.pc = "apply", !.todo = @ \ {o.cur}, !.cur = "none"] /\ y = [s EXCEPT !.named = @ \cup {o.cur}]
    OBVIOUS
  <2>2. /\ x.pc = "apply" /\ x.todo = o.todo \ {o.cur} /\ x.ses = o.ses
        /\ y.named = s.named \cup {o.cur} /\ y.commit = s.commit /\ o.pc = "record"
    BY <1>1, <1>3, <1>6, <2>1 DEF ProcessType, SessionType, Record, At
  <2>3. ~y.commit
    BY <1>3, <2>2 DEF TxOf
  <2>4. Whole(y) /\ y.named \subseteq Mine(r) /\ x.todo \subseteq Mine(r)
    BY <1>4, <2>2, <2>3 DEF Whole
  <2>5. rep' = [rep EXCEPT ![r] = x] /\ sessions' = [sessions EXCEPT ![rep[r].ses] = y] /\ UNCHANGED ledger
    BY <1>1, <1>6, <2>1 DEF Record, Assign, SetSession, Session
  <2> QED BY <1>1, <1>2, <2>2, <2>4, <2>5, PlanStated
<1>7. CASE SendCommit(r)
  <2>1. PICK x, y : x = [o EXCEPT !.pc = "commit"] /\ y = [s EXCEPT !.commit = TRUE]
    OBVIOUS
  <2>2. /\ x.pc = "commit" /\ x.ses = o.ses /\ y.named = s.named
        /\ o.pc = "apply" /\ o.stage = "app" /\ o.todo = {}
    BY <1>1, <1>3, <1>7, <2>1 DEF ProcessType, SessionType, SendCommit, At
  <2>3. Mine(r) \subseteq ledger \cup s.named
    <3>1. Range(Lists[r]["system"]) \subseteq ledger \cup s.named /\ Range(Lists[r]["app"]) \subseteq ledger \cup s.named
      BY <1>4, <2>2 DEF LedgerOf
    <3> QED BY <3>1 DEF Mine, Stages
  <2>4. s.named \cap ledger = {}
    <3>1. s.done \cap ledger = {} /\ s.done = s.named
      BY <1>1, <1>3, <2>2 DEF Inv, TxInv, TxOf, Session
    <3> QED BY <3>1
  <2>5. Whole(y) /\ y.named \subseteq Mine(r)
    <3>1. y.named = Mine(r) \ ledger
      BY <1>4, <2>2, <2>3, <2>4
    <3> QED BY <1>4, <2>2, <3>1 DEF Whole
  <2>6. rep' = [rep EXCEPT ![r] = x] /\ sessions' = [sessions EXCEPT ![rep[r].ses] = y] /\ UNCHANGED ledger
    BY <1>1, <1>7, <2>1 DEF SendCommit, Goto, Assign, SetSession, Session
  <2> QED BY <1>1, <1>2, <2>2, <2>5, <2>6, PlanStated
<1>8. CASE Rollback(r)
  <2>1. PICK x, y : x = [o EXCEPT !.pc = "unlockFailed"] /\ y = [s EXCEPT !.done = {}, !.named = {}]
    OBVIOUS
  <2>2. /\ x.pc = "unlockFailed" /\ x.ses = o.ses /\ o.pc = "rollback" /\ y.named = {} /\ y.commit = s.commit
    BY <1>1, <1>3, <1>8, <2>1 DEF ProcessType, SessionType, Rollback, At
  <2>3. ~y.commit
    BY <1>3, <2>2 DEF TxOf
  <2>4. rep' = [rep EXCEPT ![r] = x] /\ sessions' = [sessions EXCEPT ![rep[r].ses] = y] /\ UNCHANGED ledger
    BY <1>1, <1>8, <2>1 DEF Rollback, Goto, Assign, SetSession, Session
  <2> QED BY <1>1, <1>2, <2>2, <2>3, <2>4, PlanStated DEF Whole
<1> QED BY <1>5, <1>6, <1>7, <1>8

LEMMA ConnectionPlans ==
  ASSUME Inv, PlanInv, NEW r \in Replicas, RequestLock(r) \/ LoseConnection(r)
  PROVE  PlanInv'
<1>1. PICK o, n : o = rep[r] /\ n = Len(sessions) + 1
  OBVIOUS
<1>2. o \in ProcessType /\ sessions \in Seq(SessionType) /\ DOMAIN sessions = 1..Len(sessions) /\ Len(sessions) \in Nat
      /\ \A q \in Replicas : rep[q].pc \in LockPcs => rep[q].ses \in DOMAIN sessions
  BY <1>1, LenProperties DEF Inv, TypeOK, ProcInv
<1>3. CASE RequestLock(r)
  <2>1. PICK x : x = [o EXCEPT !.pc = "lock", !.ses = n]
    OBVIOUS
  <2>2. x.pc = "lock" /\ x.ses = n
    BY <1>2, <2>1 DEF ProcessType
  <2>3. NewSession \in SessionType /\ NewSession.named = {} /\ NewSession.commit = FALSE
    BY DEF NewSession, SessionType
  <2>4. /\ DOMAIN sessions' = 1..n /\ sessions'[n] = NewSession
        /\ \A t \in DOMAIN sessions : sessions'[t] = sessions[t]
    <3>1. sessions' = Append(sessions, NewSession)
      BY <1>3 DEF RequestLock
    <3> QED BY <1>1, <1>2, <2>3, <3>1, AppendProperties
  <2>5. \A q \in Replicas \ {r} : Untouched(rep[q])
    BY <1>2, <2>4 DEF Untouched
  <2>6. NoneSent
    BY <1>1, <1>2, <2>3, <2>4 DEF NoneSent
  <2>7. OfVersion(r, x)'
    BY <2>2, <2>3, <2>4 DEF OfVersion
  <2>8. rep' = [rep EXCEPT ![r] = x] /\ UNCHANGED ledger
    BY <1>1, <1>3, <2>1 DEF RequestLock, Assign
  <2> QED BY <2>5, <2>6, <2>7, <2>8, NothingSent, PlanStep
<1>4. CASE LoseConnection(r)
  <2>1. \A q \in Replicas : Untouched(rep[q])
    BY <1>2, <1>4, ClosedUntouched DEF LoseConnection
  <2>2. NoneSent
    BY <1>4, Closing DEF LoseConnection, Inv, ClosedOnly, NoneSent
  <2>3. UNCHANGED <<rep, ledger>> /\ rep' = [rep EXCEPT ![r] = o]
    BY <1>1, <1>4 DEF LoseConnection, Inv, TypeOK
  <2>4. OfVersion(r, o)'
    BY <1>1, <2>1 DEF PlanInv, OfVersion, Untouched, Mine
  <2> QED BY <2>1, <2>2, <2>3, <2>4, NothingSent, PlanStep
<1> QED BY <1>3, <1>4

\* Only the holder of the lock can have a transaction to commit, so executing it leaves
\* what others plan as it was.
LEMMA PostgresPlans ==
  ASSUME Inv, PlanInv, Postgres
  PROVE  PlanInv'
<1>1. UNCHANGED rep
  BY DEF Postgres, Grant, ExecuteCommit, BackendExits
<1>2. CASE Grant
  BY <1>2 DEF Grant, PlanInv, OfVersion, Whole, Mine
<1>3. ASSUME NEW s \in DOMAIN sessions, NEW z, sessions' = [sessions EXCEPT ![s] = z],
             z.named = {}, z.commit = FALSE, z.lost = sessions[s].lost,
             UNCHANGED ledger \/ \A t \in DOMAIN sessions \ {s} : ~sessions[t].commit
      PROVE  PlanInv'
  <2>1. /\ DOMAIN sessions' = DOMAIN sessions /\ sessions'[s] = z
        /\ \A t \in DOMAIN sessions \ {s} : sessions'[t] = sessions[t]
    BY <1>3
  <2>2. ASSUME NEW q \in Replicas PROVE OfVersion(q, rep[q])'
    <3>1. OfVersion(q, rep[q]) /\ (rep[q].pc \in LockPcs => rep[q].ses \in DOMAIN sessions)
      BY DEF PlanInv, Inv, ProcInv
    <3> QED BY <1>1, <1>3, <2>1, <3>1 DEF OfVersion, Mine
  <2>3. ASSUME NEW t \in DOMAIN sessions' PROVE Whole(sessions[t])'
    <3>1. CASE t = s
      BY <1>3, <2>1, <3>1 DEF Whole
    <3>2. CASE t # s
      BY <1>3, <2>1, <2>3, <3>2 DEF PlanInv, Whole, Mine
    <3> QED BY <3>1, <3>2
  <2> QED BY <2>2, <2>3 DEF PlanInv
<1>4. ASSUME NEW s \in DOMAIN sessions, BackendExits(s) PROVE PlanInv'
  <2>1. Gone.named = {} /\ Gone.commit = FALSE /\ Gone.lost = TRUE
    BY DEF Gone, NewSession
  <2>2. sessions[s].lost = TRUE
    BY <1>4, ServerTypes DEF BackendExits, SessionType, Inv
  <2> QED BY <1>3, <1>4, <2>1, <2>2 DEF BackendExits, SetSession
<1>5. ASSUME NEW s \in DOMAIN sessions, ExecuteCommit(s) PROVE PlanInv'
  <2>1. PICK y, z : y = sessions[s] /\ z = [y EXCEPT !.done = {}, !.named = {}, !.commit = FALSE]
    OBVIOUS
  <2>2. z.named = {} /\ z.commit = FALSE /\ z.lost = y.lost
    BY <2>1, ServerTypes DEF SessionType, Inv
  <2>3. \A t \in DOMAIN sessions \ {s} : ~sessions[t].commit
    BY <1>5 DEF ExecuteCommit, Inv, TxInv
  <2> QED BY <1>3, <1>5, <2>1, <2>2, <2>3 DEF ExecuteCommit, SetSession
<1> QED BY <1>2, <1>4, <1>5 DEF Postgres

LEMMA PlanNext == Inv /\ Inv' /\ StartInv /\ PlanInv /\ [Next]_vars => PlanInv'
<1> SUFFICES ASSUME Inv, StartInv, PlanInv, [Next]_vars PROVE PlanInv'
  OBVIOUS
<1>1. CASE UNCHANGED vars
  BY <1>1 DEF vars, pgVars, PlanInv, OfVersion, Whole, Mine
<1>2. ASSUME NEW r \in Replicas, NEW op \in {"start", "stop"}, Call(r, op) PROVE PlanInv'
  <2>1. PICK x : x = [rep[r] EXCEPT !.called = op, !.ops = Append(@, op)]
    OBVIOUS
  <2>2. x.pc = rep[r].pc /\ x.todo = rep[r].todo /\ x.cur = rep[r].cur /\ x.ses = rep[r].ses
    BY <2>1 DEF Inv, TypeOK, ProcessType
  <2>3. OfVersion(r, x)
    BY <2>2 DEF PlanInv, OfVersion
  <2> QED BY <1>2, <2>1, <2>3, PlanLocal DEF Call, Assign, pgVars
<1>3. ASSUME NEW r \in Replicas, Start(r) \/ StartFails(r) PROVE PlanInv'
  BY <1>3, StartPlans, LeavingPlans
<1>4. ASSUME NEW r \in Replicas, Migrate(r) \/ MigrationFails(r) PROVE PlanInv'
  BY <1>4, MigratePlans, TransactionPlans, ConnectionPlans, LeavingPlans DEF Migrate
<1>5. ASSUME NEW r \in Replicas, StartServer(r) \/ StopServer(r) \/ Crash(r) \/ LoseConnection(r) PROVE PlanInv'
  BY <1>5, LeavingPlans, ConnectionPlans
<1> QED BY <1>1, <1>2, <1>3, <1>4, <1>5, PostgresPlans DEF Next, Step

LEMMA PlanInit == Init => PlanInv
BY DEF Init, PlanInv, OfVersion, NewProcess, LockPcs

(***************************************************************************)
(* The refinement.                                                         *)
(***************************************************************************)
\* What is committed is what one version needed and the ledger did not name.
LEMMA CommitUpgrades ==
  ASSUME Inv, PlanInv, NEW s \in DOMAIN sessions, ExecuteCommit(s)
  PROVE  \E v \in Replicas : Ledger!Upgrade(v)
<1>1. PICK v \in Replicas : sessions[s].named = Mine(v) \ ledger
  BY DEF ExecuteCommit, PlanInv, Whole
<1>2. PICK M : M = Mine(v) \ ledger
  OBVIOUS
<1>3. sessions[s].done = M /\ sessions[s].named = M /\ M \subseteq Migrations
  BY <1>1, <1>2, ServerTypes DEF ExecuteCommit, Inv, TxInv, SessionType
<1>4. /\ ledger' = ledger \cup M /\ tables' = tables \cup M
      /\ applied' = [m \in Migrations |-> IF m \in M THEN applied[m] + 1 ELSE applied[m]]
  BY <1>3 DEF ExecuteCommit
<1>5. tables' \cap Migrations = (tables \cap Migrations) \cup M
  BY <1>3, <1>4
<1>6. Ledger!Upgrade(v)
  BY <1>2, <1>4, <1>5 DEF Ledger!Upgrade
<1> QED BY <1>6

\* No other step is seen: neither the ledger nor what migrations made of the schema changes.
LEMMA OthersStutter ==
  ASSUME Inv, [Next]_vars, \A s \in DOMAIN sessions : ~ExecuteCommit(s)
  PROVE  UNCHANGED <<ledger, applied, tables \cap Migrations>>
<1>1. CASE UNCHANGED vars
  BY <1>1 DEF vars, pgVars
<1>2. ASSUME NEW r \in Replicas, NEW op, Call(r, op) PROVE UNCHANGED <<ledger, applied, tables>>
  BY <1>2 DEF Call, pgVars
<1>3. ASSUME NEW r \in Replicas, StartServer(r) \/ StopServer(r) \/ MigrationFails(r) \/ LoseConnection(r) \/ Crash(r)
      PROVE  UNCHANGED <<ledger, applied, tables>>
  BY <1>3 DEF StartServer, StopServer, MigrationFails, LoseConnection, Crash, pgVars
<1>4. ASSUME NEW r \in Replicas, Migrate(r) PROVE UNCHANGED <<ledger, applied, tables>>
  BY <1>4 DEF Migrate, RequestLock, LockAcquired, LoadApplied, Up, Record, NextStage, SendCommit, Committed,
              Rollback, Unlock, Aborted, pgVars
<1>5. ASSUME NEW r \in Replicas, Start(r) \/ StartFails(r) PROVE UNCHANGED <<ledger, applied, tables \cap Migrations>>
  <2>1. CASE CreateAuth(r) \/ CreateTodos(r)
    BY <2>1, TablesAssumption DEF CreateAuth, CreateTodos
  <2>2. CASE ~(CreateAuth(r) \/ CreateTodos(r))
    BY <1>5, <2>2 DEF Start, EnsureTables, StartListener, DiscoverTables, CreateTrigger, TriggersAttached,
                PruneLogs, Listen, CheckTrigger, StartFails, StartFailed, pgVars
  <2> QED BY <2>1, <2>2
<1>6. CASE Postgres
  BY <1>6 DEF Postgres, Grant, BackendExits
<1> QED BY <1>1, <1>2, <1>3, <1>4, <1>5, <1>6 DEF Next, Step

\* Whichever replicas start, fail, lose their connection or crash, migrating goes from one
\* version's migrations to another's in one step: what a version lacks is run once, together
\* or not at all, and the tables of migrations are those the ledger names.
THEOREM UpgradesRunWhole == Spec => UpgradesAreWhole
<1>1. Init => Ledger!LedgerInit
  BY DEF Init, Ledger!LedgerInit
<1>2. Inv /\ PlanInv /\ [Next]_vars => [Ledger!LedgerNext]_(Ledger!ledgerVars)
  <2> SUFFICES ASSUME Inv, PlanInv, [Next]_vars PROVE [Ledger!LedgerNext]_(Ledger!ledgerVars)
    OBVIOUS
  <2>1. CASE \E s \in DOMAIN sessions : ExecuteCommit(s)
    BY <2>1, CommitUpgrades DEF Ledger!LedgerNext
  <2>2. CASE ~\E s \in DOMAIN sessions : ExecuteCommit(s)
    BY <2>2, OthersStutter DEF Ledger!ledgerVars
  <2> QED BY <2>1, <2>2
<1> QED BY <1>1, <1>2, Invariant, StartInit, StartStep, PlanInit, PlanNext, PTL DEF Spec, UpgradesAreWhole, Ledger!LedgerSpec
=============================================================================
