------------------------------ MODULE FeedProofs ------------------------------
(***************************************************************************)
(* Theorems about the realtime hub, the listener of the change feed and    *)
(* the delivery of row changes, for any connections, topics, failures,     *)
(* writers and clients.                                                    *)
(***************************************************************************)
EXTENDS MCFeed, FiniteSetTheorems, SequenceTheorems, TLAPS

(***************************************************************************)
(* The listener.                                                           *)
(*                                                                         *)
(* A second connection would have to come from a second start(): a retry   *)
(* that fires while another start is under way, or while the listener      *)
(* still has its connection.  So the invariant counts the starts there can *)
(* be (OneStart) and says what a start in progress may rely on (AtStart).  *)
(***************************************************************************)

\* A start is in progress or will be, never both; and it finds no connection.
OneStart ==
    /\ Len(calls) + retries <= 1
    /\ retries > 0 => client = 0 /\ ~beat

\* While a start is in progress nothing calls reconnect(): no heartbeat, no 'end'
\* to come, no handler and no check of the connection it has checked out.
AtStart == calls # <<>> =>
    /\ ~beat
    /\ \A c \in DOMAIN conns : ~conns[c].ends
    /\ client # 0 => ~conns[client].handled /\ checking # client
    /\ calls[1] = "connect" => client = 0

NotStarted == app = "new" => ~running /\ calls = <<>> /\ retries = 0 /\ client = 0 /\ conns = <<>> /\ ~beat

ListenerInv == ListenerTypeOK /\ OneConnection /\ OneStart /\ AtStart /\ NotStarted

(***************************************************************************)
(* The operators of the listener.                                          *)
(***************************************************************************)
LEMMA ReleasedConns ==
  ASSUME NEW cs \in Seq(Connection), NEW c \in {0} \cup DOMAIN cs
  PROVE  /\ Released(cs, c) \in Seq(Connection)
         /\ Len(Released(cs, c)) = Len(cs) /\ DOMAIN Released(cs, c) = DOMAIN cs
         /\ \A d \in DOMAIN cs \ {c} : Released(cs, c)[d] = cs[d]
         /\ c # 0 => /\ ~Released(cs, c)[c].out
                     /\ Released(cs, c)[c].ends = (cs[c].handled /\ cs[c].out)
                     /\ Released(cs, c)[c].handled = cs[c].handled
<1>1. CASE c = 0
  BY <1>1 DEF Released
<1>2. CASE c # 0
  <2> DEFINE x == [cs[c] EXCEPT !.out = FALSE, !.up = FALSE, !.ends = cs[c].handled /\ cs[c].out]
  <2>1. c \in DOMAIN cs /\ DOMAIN cs = 1..Len(cs) /\ Len(cs) \in Nat
    BY <1>2, LenProperties
  <2>2. cs[c] \in Connection
    BY <2>1, ElementOfSeq
  <2>3. /\ x \in Connection /\ ~x.out /\ x.handled = cs[c].handled
        /\ x.ends = (cs[c].handled /\ cs[c].out)
    BY <2>2 DEF Connection
  <2>4. Released(cs, c) = [cs EXCEPT ![c] = x]
    BY <1>2 DEF Released
  <2> HIDE DEF x
  <2>5. /\ Released(cs, c) \in Seq(Connection)
        /\ Len(Released(cs, c)) = Len(cs) /\ DOMAIN Released(cs, c) = DOMAIN cs
        /\ Released(cs, c)[c] = x
        /\ \A d \in DOMAIN cs \ {c} : Released(cs, c)[d] = cs[d]
    BY <2>1, <2>3, <2>4, ExceptSeq, LenProperties
  <2> QED BY <2>3, <2>5
<1> QED BY <1>1, <1>2

\* At most one start is in progress: removing it leaves none.
LEMMA LastCall ==
  ASSUME ListenerTypeOK, OneStart, NEW i \in DOMAIN calls
  PROVE  i = 1 /\ Len(calls) = 1 /\ RemoveAt(calls, i) = <<>> /\ retries = 0
<1>1. Len(calls) \in Nat /\ DOMAIN calls = 1..Len(calls) /\ retries \in Nat
  BY LenProperties DEF ListenerTypeOK
<1>2. i = 1 /\ Len(calls) = 1 /\ retries = 0
  BY <1>1 DEF OneStart
<1>3. SubSeq(calls, 1, 0) = <<>> /\ SubSeq(calls, 2, 1) = <<>>
  BY SubSeqEmpty DEF ListenerTypeOK
<1>4. RemoveAt(calls, i) = <<>>
  BY <1>2, <1>3, ConcatEmptySeq, EmptySeq DEF RemoveAt
<1> QED BY <1>2, <1>4

\* What a start that ends leaves behind, whether it listens or failed.
LEMMA StartReturns ==
  ASSUME ListenerInv, Returned
  PROVE  app' \in {"new", "starting", "up", "stopped"} /\ (app' = "new" => app = "new")
BY DEF ListenerInv, ListenerTypeOK, Returned

LEMMA ConnType ==
  ASSUME ListenerInv
  PROVE  /\ conns \in Seq(Connection) /\ DOMAIN conns = 1..Len(conns) /\ Len(conns) \in Nat
         /\ \A c \in DOMAIN conns : conns[c] \in Connection
<1>1. conns \in Seq(Connection)
  BY DEF ListenerInv, ListenerTypeOK
<1> QED BY <1>1, LenProperties, ElementOfSeq

\* The types after a step that released the client.
LEMMA ReleasedTypes ==
  ASSUME ListenerTypeOK, client' = 0, conns' \in Seq(Connection), Len(conns') = Len(conns),
         running' \in BOOLEAN, beat' \in BOOLEAN, retries' \in Nat, beats' \in Nat,
         checking' \in {0, checking}, fails' \in 0..MaxFails,
         calls' \in Seq({"connect", "config", "listen"}),
         app' \in {"new", "starting", "up", "stopped"}
  PROVE  ListenerTypeOK'
<1>1. checking' \in 0..Len(conns') /\ Len(conns') <= MaxConns
  BY LenProperties DEF ListenerTypeOK
<1>2. client' \in {0} \cup {c \in DOMAIN conns' : conns'[c].out}
  OBVIOUS
<1> QED BY <1>1, <1>2 DEF ListenerTypeOK

(***************************************************************************)
(* Every step preserves the invariant.                                     *)
(***************************************************************************)
\* reconnect(), called while no start is in progress.
LEMMA Reconnecting ==
  ASSUME ListenerInv, calls = <<>>, NEW cs \in Seq(Connection), Len(cs) = Len(conns),
         \A d \in DOMAIN conns : cs[d].out = conns[d].out,
         Reconnect(cs), checking' \in {0, checking}, UNCHANGED <<running, calls, app, fails>>
  PROVE  ListenerInv'
<1>1. /\ DOMAIN cs = DOMAIN conns /\ DOMAIN conns = 1..Len(conns) /\ Len(conns) \in Nat
      /\ client \in {0} \cup {c \in DOMAIN cs : cs[c].out}
      /\ Len(calls) = 0
  BY LenProperties, EmptySeq DEF ListenerInv, ListenerTypeOK
<1>2. CASE running
  <2> DEFINE rs == Released(cs, client)
  <2>1. /\ rs \in Seq(Connection) /\ Len(rs) = Len(cs) /\ DOMAIN rs = DOMAIN cs
        /\ \A d \in DOMAIN cs : ~rs[d].out
    <3>1. /\ rs \in Seq(Connection) /\ Len(rs) = Len(cs) /\ DOMAIN rs = DOMAIN cs
          /\ \A d \in DOMAIN cs \ {client} : rs[d] = cs[d]
          /\ client # 0 => ~rs[client].out
      BY <1>1, ReleasedConns
    <3>2. \A d \in DOMAIN cs \ {client} : ~cs[d].out
      BY <1>1 DEF ListenerInv, OneConnection
    <3>3. client = 0 => client \notin DOMAIN cs
      BY <1>1
    <3> QED BY <3>1, <3>2, <3>3
  <2>2. conns' = rs /\ client' = 0 /\ beat' = FALSE /\ beats' = 0 /\ retries' = 1
    BY <1>1, <1>2 DEF Reconnect, ClearHeartbeat, Scheduled, ListenerInv, ListenerTypeOK, OneConnection, OneStart
  <2> HIDE DEF rs
  <2>3. ListenerTypeOK'
    BY <1>1, <2>1, <2>2, ReleasedTypes DEF ListenerInv, ListenerTypeOK
  <2>4. OneConnection' /\ OneStart' /\ AtStart'
    BY <1>1, <2>1, <2>2 DEF OneConnection, OneStart, AtStart
  <2>5. NotStarted'
    BY <1>2 DEF ListenerInv, NotStarted
  <2> QED BY <2>3, <2>4, <2>5 DEF ListenerInv
<1>3. CASE ~running
  <2>1. conns' = cs /\ UNCHANGED <<client, retries, beat, beats>>
    BY <1>3 DEF Reconnect
  <2>2. ListenerTypeOK'
    BY <1>1, <2>1 DEF ListenerInv, ListenerTypeOK
  <2>3. OneConnection' /\ OneStart' /\ AtStart'
    BY <1>1, <2>1 DEF ListenerInv, OneConnection, OneStart, AtStart
  <2>4. NotStarted'
    BY <1>1, <2>1, EmptySeq DEF ListenerInv, NotStarted
  <2> QED BY <2>2, <2>3, <2>4 DEF ListenerInv
<1> QED BY <1>2, <1>3 DEF ListenerInv, ListenerTypeOK

LEMMA ConnectInv == ASSUME ListenerInv, NEW i \in DOMAIN calls, Connect(i) PROVE ListenerInv'
<1>1. /\ i = 1 /\ Len(calls) = 1 /\ retries = 0 /\ client = 0 /\ calls # <<>>
      /\ DOMAIN conns = 1..Len(conns) /\ Len(conns) \in Nat
  BY LastCall, LenProperties, EmptySeq DEF ListenerInv, AtStart, Connect, ListenerTypeOK
<1>2. calls' \in Seq({"connect", "config", "listen"}) /\ Len(calls') = 1 /\ calls'[1] = "config" /\ calls' # <<>>
  BY <1>1, ExceptSeq, EmptySeq DEF Connect, ListenerInv, ListenerTypeOK
<1>3. Opened \in Connection /\ Opened.out /\ ~Opened.handled /\ ~Opened.ends
  BY DEF Opened, Connection
<1>4. /\ conns' \in Seq(Connection) /\ Len(conns') = Len(conns) + 1 /\ DOMAIN conns' = 1..Len(conns) + 1
      /\ conns'[Len(conns) + 1] = Opened
      /\ \A c \in DOMAIN conns : conns'[c] = conns[c]
  BY <1>1, <1>3, AppendProperties, LenProperties DEF Connect, ListenerInv, ListenerTypeOK
<1>5. ListenerTypeOK'
  BY <1>1, <1>2, <1>3, <1>4, ListenerBounds DEF Connect, ListenerInv, ListenerTypeOK
<1>6. OneConnection'
  BY <1>1, <1>4 DEF Connect, ListenerInv, OneConnection
<1>7. OneStart' /\ AtStart' /\ NotStarted'
  <2>1. OneStart' /\ NotStarted'
    <3>1. OneStart'
       <4>1. retries' = 0 BY <1>1 DEF Connect
       <4>2. Len(calls') = 1 BY <1>2
       <4> QED BY <4>1, <4>2 DEF OneStart
    <3>2. NotStarted' BY <1>1 DEF Connect, ListenerInv, NotStarted
    <3> QED BY <3>1, <3>2
  <2>2. \A c \in DOMAIN conns' : ~conns'[c].ends
    BY <1>1, <1>3, <1>4 DEF ListenerInv, AtStart
  <2>3. ~conns'[client'].handled /\ checking' # client'
    BY <1>1, <1>3, <1>4 DEF Connect, ListenerInv, ListenerTypeOK
  <2>4. ~beat'
    BY <1>1 DEF Connect, ListenerInv, AtStart
  <2> QED BY <1>2, <2>1, <2>2, <2>3, <2>4 DEF AtStart
<1> QED BY <1>5, <1>6, <1>7 DEF ListenerInv

LEMMA ConfigureInv == ASSUME ListenerInv, NEW i \in DOMAIN calls, Configure(i) PROVE ListenerInv'
<1>1. i = 1 /\ Len(calls) = 1 /\ calls # <<>>
  BY LastCall, EmptySeq DEF ListenerInv
<1>2. calls' \in Seq({"connect", "config", "listen"}) /\ Len(calls') = 1 /\ calls'[1] = "listen" /\ calls' # <<>>
  BY <1>1, ExceptSeq, EmptySeq DEF Configure, ListenerInv, ListenerTypeOK
<1> QED BY <1>1, <1>2 DEF Configure, ListenerInv, ListenerTypeOK, OneConnection, OneStart, AtStart, NotStarted

LEMMA ListeningInv == ASSUME ListenerInv, NEW i \in DOMAIN calls, Listening(i) PROVE ListenerInv'
<1>1. calls' = <<>> /\ retries' = 0 /\ calls # <<>> /\ retries = 0 /\ client # 0 /\ client \in DOMAIN conns
  BY LastCall, EmptySeq DEF ListenerInv, Listening, ClientUp, ListenerTypeOK
<1> DEFINE x == [conns[client] EXCEPT !.handled = TRUE]
<1>2. x \in Connection /\ x.out = conns[client].out
  BY <1>1, ConnType DEF Connection
<1>3. conns' = [conns EXCEPT ![client] = x]
  BY DEF Listening
<1> HIDE DEF x
<1>4. /\ conns' \in Seq(Connection) /\ Len(conns') = Len(conns) /\ DOMAIN conns' = DOMAIN conns
      /\ \A c \in DOMAIN conns : conns'[c].out = conns[c].out
  BY <1>1, <1>2, <1>3, ExceptSeq, LenProperties DEF ListenerInv, ListenerTypeOK
<1>5. beat' = TRUE /\ beats' = 1
  BY <1>1 DEF Listening, ListenerInv, AtStart, OneConnection
<1>6. Len(calls') = 0 /\ calls' \in Seq({"connect", "config", "listen"})
  BY <1>1, EmptySeq
<1>7. ListenerTypeOK' /\ (app' = "new" => app = "new")
  BY <1>1, <1>4, <1>5, <1>6, StartReturns DEF Listening, ListenerInv, ListenerTypeOK
<1>8. OneConnection'
  BY <1>4, <1>5 DEF Listening, ListenerInv, OneConnection
<1>9. OneStart' /\ AtStart' /\ NotStarted'
  BY <1>1, <1>6, <1>7 DEF ListenerInv, OneStart, AtStart, NotStarted
<1> QED BY <1>7, <1>8, <1>9 DEF ListenerInv

\* What releasing the client leaves, while a start is in progress and when not.
LEMMA ReleasedClient ==
  ASSUME ListenerInv, conns' = Released(conns, client), client' = 0
  PROVE  /\ conns' \in Seq(Connection) /\ Len(conns') = Len(conns) /\ DOMAIN conns' = DOMAIN conns
         /\ \A c \in DOMAIN conns : ~conns'[c].out
         /\ calls # <<>> => \A c \in DOMAIN conns : ~conns'[c].ends
         /\ conns = <<>> => conns' = <<>>
<1>1. client \in {0} \cup DOMAIN conns /\ conns \in Seq(Connection)
  BY DEF ListenerInv, ListenerTypeOK
<1>2. \A c \in DOMAIN conns \ {client} : ~conns[c].out
  BY DEF ListenerInv, OneConnection
<1>3. conns = <<>> => Len(conns) = 0
  BY EmptySeq
<1>4. /\ conns' \in Seq(Connection) /\ Len(conns') = Len(conns) /\ DOMAIN conns' = DOMAIN conns
      /\ \A c \in DOMAIN conns \ {client} : conns'[c] = conns[c]
      /\ client # 0 => ~conns'[client].out /\ conns'[client].ends = (conns[client].handled /\ conns[client].out)
  BY <1>1, ReleasedConns
<1>5. \A c \in DOMAIN conns : c # 0
  BY ConnType
<1>6. \A c \in DOMAIN conns : ~conns'[c].out
  BY <1>2, <1>4, <1>5
<1>7. calls # <<>> => \A c \in DOMAIN conns : ~conns'[c].ends
  BY <1>4, <1>5 DEF ListenerInv, AtStart
<1> QED BY <1>3, <1>4, <1>6, <1>7, EmptySeq

LEMMA StartThrowsInv == ASSUME ListenerInv, NEW i \in DOMAIN calls, StartThrows(i) PROVE ListenerInv'
<1>1. calls' = <<>> /\ calls # <<>> /\ retries = 0 /\ ~beat /\ Len(calls') = 0
      /\ calls' \in Seq({"connect", "config", "listen"})
  <2>1. i = 1 /\ Len(calls) = 1 /\ RemoveAt(calls, i) = <<>> /\ retries = 0
    BY LastCall DEF ListenerInv
  <2>2. calls' = <<>> /\ calls # <<>>
    BY <2>1, EmptySeq DEF StartThrows
  <2> QED BY <2>1, <2>2, EmptySeq DEF ListenerInv, AtStart
<1>2. /\ conns' \in Seq(Connection) /\ Len(conns') = Len(conns) /\ DOMAIN conns' = DOMAIN conns
      /\ \A c \in DOMAIN conns : ~conns'[c].out
  BY ReleasedClient DEF StartThrows
<1>3. retries' \in {0, 1} /\ client' = 0 /\ UNCHANGED <<running, beat, beats, checking>>
  BY <1>1 DEF StartThrows, Scheduled
<1>4. fails' \in 0..MaxFails
  BY ListenerBounds DEF StartThrows, ListenerInv, ListenerTypeOK
<1>5. ListenerTypeOK' /\ (app' = "new" => app = "new")
  BY <1>1, <1>2, <1>3, <1>4, StartReturns, ReleasedTypes DEF StartThrows, ListenerInv, ListenerTypeOK
<1>6. OneConnection' /\ OneStart' /\ AtStart' /\ NotStarted'
  <2>1. OneConnection' /\ OneStart' /\ AtStart'
    <3>1. OneConnection'
      BY <1>2, <1>3 DEF ListenerInv, OneConnection
    <3>2. OneStart' /\ AtStart'
      <4>1. ~beat' BY <1>1, <1>3
      <4>2. Len(calls') + retries' <= 1
        <5>1. Len(calls') = 0 BY <1>1
        <5>2. retries' = 0 \/ retries' = 1 BY <1>3
        <5> QED BY <5>1, <5>2
      <4>3. AtStart' BY <1>1 DEF AtStart
      <4>4. OneStart' BY <1>3, <4>1, <4>2 DEF OneStart
      <4> QED BY <4>3, <4>4
    <3> QED BY <3>1, <3>2
  <2>2. NotStarted'
    BY <1>1, <1>5 DEF ListenerInv, NotStarted
  <2> QED BY <2>1, <2>2
<1> QED BY <1>5, <1>6 DEF ListenerInv

LEMMA RetryInv == ASSUME ListenerInv, Retry PROVE ListenerInv'
<1>1. calls = <<>> /\ retries = 1 /\ retries' = 0 /\ client = 0 /\ ~beat
  BY LenProperties, EmptySeq DEF ListenerInv, ListenerTypeOK, OneStart, Retry
<1>2. /\ calls' \in Seq({"connect", "config", "listen"})
      /\ Len(calls') \in {0, 1}
      /\ calls' # <<>> => calls'[1] = "connect"
  <2>1. CASE running
    BY <1>1, <2>1, AppendProperties, EmptySeq DEF Retry
  <2>2. CASE ~running
    BY <1>1, <2>2, EmptySeq DEF Retry
  <2> QED BY <2>1, <2>2
<1>3. UNCHANGED <<running, client, beat, beats, checking, conns, app, fails>>
  BY DEF Retry
<1>4. ListenerTypeOK'
  BY <1>1, <1>2, <1>3 DEF ListenerInv, ListenerTypeOK
<1>5. OneConnection' /\ OneStart' /\ AtStart' /\ NotStarted'
  BY <1>1, <1>2, <1>3 DEF Retry, ListenerInv, OneConnection, OneStart, AtStart, NotStarted
<1> QED BY <1>4, <1>5 DEF ListenerInv

LEMMA StartListeningInv == ASSUME ListenerInv, StartListening PROVE ListenerInv'
<1>1. calls = <<>> /\ retries = 0 /\ client = 0 /\ ~beat /\ conns = <<>>
  BY DEF ListenerInv, NotStarted, StartListening
<1>2. calls' \in Seq({"connect", "config", "listen"}) /\ Len(calls') = 1 /\ calls'[1] = "connect"
  BY <1>1, AppendProperties, EmptySeq DEF StartListening
<1>3. DOMAIN conns = {}
  BY <1>1, EmptySeq
<1> QED BY <1>1, <1>2, <1>3 DEF StartListening, ListenerInv, ListenerTypeOK, OneConnection, OneStart, AtStart, NotStarted

LEMMA StopListeningInv == ASSUME ListenerInv, StopListening PROVE ListenerInv'
<1>1. /\ conns' \in Seq(Connection) /\ Len(conns') = Len(conns) /\ DOMAIN conns' = DOMAIN conns
      /\ \A c \in DOMAIN conns : ~conns'[c].out
      /\ calls # <<>> => \A c \in DOMAIN conns : ~conns'[c].ends
  BY ReleasedClient DEF StopListening
<1>2. beat' = FALSE /\ beats' = 0 /\ retries' = 0 /\ client' = 0 /\ app' = "stopped" /\ running' = FALSE
  BY DEF StopListening, ClearHeartbeat, ListenerInv, OneConnection, ListenerTypeOK
<1>3. Len(calls) \in Nat
  BY LenProperties DEF ListenerInv, ListenerTypeOK
<1>4. ListenerTypeOK'
  <2>1. /\ fails' \in 0..MaxFails /\ calls' \in Seq({"connect", "config", "listen"})
        /\ ListenerTypeOK /\ checking' = checking
    BY DEF StopListening, ListenerInv, ListenerTypeOK
  <2> QED BY <1>1, <1>2, <2>1, ReleasedTypes
<1>5. OneConnection' /\ OneStart' /\ AtStart' /\ NotStarted'
  <2>1. OneConnection' /\ NotStarted'
    BY <1>1, <1>2 DEF OneConnection, NotStarted
  <2>2. OneStart' /\ AtStart'
    BY <1>1, <1>2, <1>3 DEF StopListening, ListenerInv, ListenerTypeOK, OneStart, AtStart
  <2> QED BY <2>1, <2>2
<1> QED BY <1>4, <1>5 DEF ListenerInv

\* One connection changes; what it is to the listener does not.
LEMMA ChangedConn ==
  ASSUME ListenerInv, NEW c \in DOMAIN conns, NEW x \in Connection, x.out = conns[c].out
  PROVE  /\ [conns EXCEPT ![c] = x] \in Seq(Connection)
         /\ Len([conns EXCEPT ![c] = x]) = Len(conns)
         /\ DOMAIN [conns EXCEPT ![c] = x] = DOMAIN conns
         /\ [conns EXCEPT ![c] = x][c] = x
         /\ \A d \in DOMAIN conns \ {c} : [conns EXCEPT ![c] = x][d] = conns[d]
         /\ \A d \in DOMAIN conns : [conns EXCEPT ![c] = x][d].out = conns[d].out
<1>1. conns \in Seq(Connection) /\ DOMAIN conns = 1..Len(conns)
  BY LenProperties DEF ListenerInv, ListenerTypeOK
<1> QED BY <1>1, ExceptSeq, LenProperties

LEMMA LostInv == ASSUME ListenerInv, NEW c \in DOMAIN conns, Lost(c) PROVE ListenerInv'
<1> DEFINE x == [conns[c] EXCEPT !.up = FALSE]
<1>1. x \in Connection /\ x.out = conns[c].out
  BY ConnType DEF Connection
<1>2. calls = <<>>
  <2>1. c = client /\ client # 0 /\ conns[client].handled
    BY LenProperties DEF Lost, ListenerInv, ListenerTypeOK, OneConnection
  <2> QED BY <2>1 DEF ListenerInv, AtStart
<1>3. Reconnect([conns EXCEPT ![c] = x])
  BY DEF Lost
<1> HIDE DEF x
<1> QED BY <1>1, <1>2, <1>3, ChangedConn, Reconnecting DEF Lost

LEMMA SilentInv == ASSUME ListenerInv, NEW c \in DOMAIN conns, Silent(c) PROVE ListenerInv'
<1> DEFINE x == [conns[c] EXCEPT !.up = FALSE]
<1>1. x \in Connection /\ x.out = conns[c].out /\ x.handled = conns[c].handled /\ x.ends = conns[c].ends
  BY ConnType DEF Connection
<1>2. conns' = [conns EXCEPT ![c] = x]
  BY DEF Silent
<1> HIDE DEF x
<1>3. /\ conns' \in Seq(Connection) /\ Len(conns') = Len(conns) /\ DOMAIN conns' = DOMAIN conns
      /\ \A d \in DOMAIN conns : /\ conns'[d].out = conns[d].out /\ conns'[d].ends = conns[d].ends
                                 /\ conns'[d].handled = conns[d].handled
  BY <1>1, <1>2, ChangedConn
<1>4. ListenerTypeOK' /\ OneConnection'
  BY <1>3 DEF Silent, ListenerInv, ListenerTypeOK, OneConnection
<1>5. OneStart' /\ AtStart'
  BY <1>3 DEF Silent, ListenerInv, ListenerTypeOK, OneStart, AtStart
<1>6. NotStarted'
  BY <1>3, EmptySeq DEF Silent, ListenerInv, NotStarted
<1> QED BY <1>4, <1>5, <1>6 DEF ListenerInv

LEMMA EndedInv == ASSUME ListenerInv, NEW c \in DOMAIN conns, Ended(c) PROVE ListenerInv'
<1> DEFINE x == [conns[c] EXCEPT !.ends = FALSE]
<1>1. x \in Connection /\ x.out = conns[c].out
  BY ConnType DEF Connection
<1>2. calls = <<>>
  BY DEF Ended, ListenerInv, AtStart
<1>3. Reconnect([conns EXCEPT ![c] = x])
  BY DEF Ended
<1> HIDE DEF x
<1> QED BY <1>1, <1>2, <1>3, ChangedConn, Reconnecting DEF Ended

LEMMA HeartbeatsInv == ASSUME ListenerInv, Heartbeat_ \/ Alive \/ HeartbeatFails PROVE ListenerInv'
<1>1. CASE Heartbeat_
  <2>1. calls = <<>>
    BY <1>1 DEF Heartbeat_, ListenerInv, OneConnection, AtStart
  <2>2. client \in 1..Len(conns)
    BY <1>1, LenProperties DEF Heartbeat_, ListenerInv, ListenerTypeOK
  <2> QED BY <1>1, <2>1, <2>2 DEF Heartbeat_, ListenerInv, ListenerTypeOK, OneConnection, OneStart, AtStart, NotStarted
<1>2. CASE Alive \/ (HeartbeatFails /\ client # checking)
  <2>1. checking' = 0 /\ UNCHANGED <<running, client, retries, beat, beats, calls, conns, app, fails>>
    BY <1>2 DEF Alive, HeartbeatFails
  <2>2. Len(conns) \in Nat
    BY LenProperties DEF ListenerInv, ListenerTypeOK
  <2> QED BY <2>1, <2>2 DEF ListenerInv, ListenerTypeOK, OneConnection, OneStart, AtStart, NotStarted
<1>3. CASE HeartbeatFails /\ client = checking
  <2>1. calls = <<>>
    BY <1>3 DEF HeartbeatFails, ListenerInv, AtStart
  <2> QED BY <1>3, <2>1, Reconnecting DEF HeartbeatFails, ListenerInv, ListenerTypeOK
<1> QED BY <1>1, <1>2, <1>3

(***************************************************************************)
(* For any number of connections and failures the listener holds one       *)
(* connection of the pool at most, the one it knows, and one heartbeat     *)
(* when that connection is listening: two starts are never in progress.    *)
(***************************************************************************)
THEOREM ListenerHoldsOne == ListenerSpec => []OneConnection /\ []ListenerTypeOK
<1>1. ListenerInit => ListenerInv
  <2>1. ListenerInit => Len(calls) = 0 /\ Len(conns) = 0 /\ DOMAIN conns = {}
    BY EmptySeq DEF ListenerInit
  <2>2. ListenerInit => ListenerTypeOK
    <3> SUFFICES ASSUME ListenerInit PROVE ListenerTypeOK
      OBVIOUS
    <3>1. conns \in Seq(Connection) /\ calls \in Seq({"connect", "config", "listen"})
      BY EmptySeq DEF ListenerInit
    <3>2. running \in BOOLEAN /\ beat \in BOOLEAN /\ app \in {"new", "starting", "up", "stopped"}
      BY DEF ListenerInit
    <3>3. client \in {0} \cup {c \in DOMAIN conns : conns[c].out} 
      BY DEF ListenerInit
    <3>4. checking \in 0..Len(conns) /\ retries \in Nat /\ beats \in Nat /\ fails \in 0..MaxFails /\ Len(conns) <= MaxConns
      BY <2>1, ListenerBounds DEF ListenerInit
    <3> QED BY <3>1, <3>2, <3>3, <3>4 DEF ListenerTypeOK
  <2> QED BY <2>1, <2>2 DEF ListenerInit, ListenerInv, OneConnection, OneStart, AtStart, NotStarted
<1>2. ListenerInv /\ [ListenerNext]_listenerVars => ListenerInv'
  <2> SUFFICES ASSUME ListenerInv, [ListenerNext]_listenerVars PROVE ListenerInv'
    OBVIOUS
  <2>1. CASE StartListening
    BY <2>1, StartListeningInv
  <2>2. CASE StopListening
    BY <2>2, StopListeningInv
  <2>3. CASE \E i \in DOMAIN calls : Connect(i) \/ Configure(i) \/ Listening(i) \/ StartThrows(i)
    BY <2>3, ConnectInv, ConfigureInv, ListeningInv, StartThrowsInv
  <2>4. CASE Retry
    BY <2>4, RetryInv
  <2>5. CASE Heartbeat_ \/ Alive \/ HeartbeatFails
    BY <2>5, HeartbeatsInv
  <2>6. CASE \E c \in DOMAIN conns : Ended(c) \/ Lost(c) \/ Silent(c)
    BY <2>6, EndedInv, LostInv, SilentInv
  <2>7. CASE UNCHANGED listenerVars
    BY <2>7 DEF listenerVars, ListenerInv, ListenerTypeOK, OneConnection, OneStart, AtStart, NotStarted
  <2> QED BY <2>1, <2>2, <2>3, <2>4, <2>5, <2>6, <2>7 DEF ListenerNext, ListenerStep
<1>3. ListenerInv => OneConnection /\ ListenerTypeOK
  BY DEF ListenerInv
<1> QED BY <1>1, <1>2, <1>3, PTL DEF ListenerSpec

(***************************************************************************)
(* Row changes.                                                            *)
(*                                                                         *)
(* A change has two ways to the clients, and several places to be in on    *)
(* each.  The invariant follows it: it is in one place at a time           *)
(* (Committed to SentOnce), its writer answers when it has left the last   *)
(* of them (at, in each), and the publication that carries it has admitted *)
(* once every client it has passed that can read the row (AskedOnce and    *)
(* Heard).                                                                 *)
(***************************************************************************)
\* The change w was sent to whoever can read the row, or will be: it is on its way
\* to the listener, or a publication of it has admitted every reader it has passed.
OnItsWay(w) ==
    \/ w \in Range(notes)
    \/ \E p \in pubs : p.of = w /\ \A c \in (Readers \cup Service) \ left :
         c \in p.seen /\ c # p.asking /\ Reaches(c, w) => p.hits[c] > 0
    \/ Hears(w)
Heard == \A w \in Range(log) : op[w] # "DELETE" /\ Published(w) => OnItsWay(w)

\* Whoever has not left is joined; the row is the last change's, and when there is no
\* row, a DELETE follows every other change.
StayJoined == Clients \ left \subseteq joined
RowGone ==
    /\ row # NoWriter => log # <<>> /\ row = log[Len(log)]
    /\ row = NoWriter => \A w \in Range(log) : op[w] # "DELETE" => DeletedAfter(w)

\* A change is in one place: committed by the one run of its writer, then on its
\* way to the listener, being published, or sent.
Committed == \A w \in Range(log) :
    at[w] \in {"publishing", "done"} \/ (at[w] = "failed" /\ w \in missed)
GivenUp == ~notify => \A w \in missed : at[w] = "failed"
Deleting == \A w \in Writers : at[w] = "delete" => op[w] = "DELETE" /\ Direct(w)
NotesOnce ==
    /\ IsInjective(notes)
    /\ \A w \in Range(notes) : notify /\ w \in Range(log) /\ at[w] = "done" /\ \A p \in pubs : p.of # w
PubsOnce ==
    /\ \A p, q \in pubs : p.of = q.of => p = q
    /\ \A p \in pubs :
         /\ at[p.of] = IF p.held THEN "delete" ELSE IF notify THEN "done" ELSE "publishing"
         /\ op[p.of] # "DELETE" => p.of \in Range(log)
AskedOnce == \A p \in pubs :
    /\ Over(p) => p.seen = Clients
    /\ \A c \in Clients \ left : /\ c = p.asking => c \in p.seen
                                 /\ p.hits[c] <= 1
                                 /\ c \notin p.seen \/ c = p.asking => p.hits[c] = 0
SentOnce == \A c \in Clients :
    /\ c \notin left => IsInjective(got[c])
    /\ \A w \in Range(got[c]) :
         /\ at[w] = "done" /\ w \notin Range(notes) /\ \A p \in pubs : p.of # w
         /\ op[w] # "DELETE" => w \in Range(log)

FeedInv ==
    /\ FeedTypeOK /\ StayJoined /\ RowGone /\ Committed /\ GivenUp
    /\ Deleting /\ NotesOnce /\ PubsOnce /\ AskedOnce /\ SentOnce /\ Heard

(***************************************************************************)
(* Sequences without repetitions.                                          *)
(***************************************************************************)
LEMMA AppendOnce ==
  ASSUME NEW S, NEW s \in Seq(S), NEW e \in S
  PROVE  /\ Append(s, e) \in Seq(S) /\ Range(s) \subseteq S
         /\ Range(Append(s, e)) = Range(s) \cup {e}
         /\ IsInjective(s) /\ e \notin Range(s) => IsInjective(Append(s, e))
<1> DEFINE t == Append(s, e)
<1>1. /\ t \in Seq(S) /\ DOMAIN s = 1..Len(s) /\ DOMAIN t = 1..(Len(s) + 1) /\ Len(s) \in Nat
      /\ t[Len(s) + 1] = e /\ \A i \in 1..Len(s) : t[i] = s[i] /\ s[i] \in S
  BY AppendProperties, LenProperties, ElementOfSeq
<1> HIDE DEF t
<1>2. \A i \in DOMAIN t : i \in DOMAIN s \/ i = Len(s) + 1
  BY <1>1
<1>3. DOMAIN s \subseteq DOMAIN t /\ Len(s) + 1 \in DOMAIN t
  BY <1>1
<1>4. Range(t) = Range(s) \cup {e} /\ Range(s) \subseteq S
  BY <1>1, <1>2, <1>3 DEF Range
<1>5. IsInjective(s) /\ e \notin Range(s) => IsInjective(t)
  <2> SUFFICES ASSUME IsInjective(s), e \notin Range(s), NEW i \in DOMAIN t, NEW j \in DOMAIN t, t[i] = t[j]
               PROVE  i = j
    BY DEF IsInjective
  <2> QED BY <1>1, <1>2 DEF IsInjective, Range
<1> QED BY <1>1, <1>4, <1>5 DEF t

LEMMA TailOnce ==
  ASSUME NEW S, NEW s \in Seq(S), s # <<>>, IsInjective(s)
  PROVE  /\ Head(s) \in Range(s) /\ Head(s) \in S
         /\ Tail(s) \in Seq(S) /\ IsInjective(Tail(s))
         /\ Range(Tail(s)) = Range(s) \ {Head(s)}
<1> DEFINE t == Tail(s)
<1>1. /\ t \in Seq(S) /\ DOMAIN s = 1..Len(s) /\ DOMAIN t = 1..(Len(s) - 1) /\ Len(s) \in Nat \ {0}
      /\ \A i \in 1..(Len(s) - 1) : t[i] = s[i + 1]
  BY HeadTailProperties, LenProperties, EmptySeq
<1>2. Head(s) = s[1] /\ s[1] \in S /\ 1 \in DOMAIN s
  BY <1>1, ElementOfSeq, HeadTailProperties
<1> HIDE DEF t
<1>3. IsInjective(t)
  <2> SUFFICES ASSUME NEW i \in DOMAIN t, NEW j \in DOMAIN t, t[i] = t[j] PROVE i = j
    BY DEF IsInjective
  <2>1. i + 1 \in DOMAIN s /\ j + 1 \in DOMAIN s /\ s[i + 1] = s[j + 1] /\ i \in Nat /\ j \in Nat
    BY <1>1
  <2>2. i + 1 = j + 1
    BY <2>1 DEF IsInjective
  <2> QED BY <2>1, <2>2
<1>4. \A i \in DOMAIN t : i + 1 \in DOMAIN s /\ i + 1 # 1
  BY <1>1
<1>5. \A i \in DOMAIN s \ {1} : i - 1 \in DOMAIN t /\ t[i - 1] = s[i]
  BY <1>1
<1>6. Range(t) \subseteq Range(s) \ {s[1]}
  BY <1>1, <1>2, <1>4 DEF Range, IsInjective
<1>7. Range(s) \ {s[1]} \subseteq Range(t)
  BY <1>5 DEF Range
<1> QED BY <1>1, <1>2, <1>3, <1>6, <1>7 DEF Range, t

LEMMA RangeInSet == ASSUME NEW S, NEW s \in Seq(S) PROVE Range(s) \subseteq S
BY LenProperties, ElementOfSeq DEF Range

LEMMA NoneOnce == Range(<<>>) = {} /\ IsInjective(<<>>)
BY EmptySeq DEF Range, IsInjective

\* What a publication sends a client: nothing, the change, or the change again.
LEMMA HitsAppended ==
  ASSUME NEW S, NEW s \in Seq(S), NEW e \in S, NEW n \in Nat,
         NEW u \in Seq(S), Len(u) = n, \A i \in 1..n : u[i] = e
  PROVE  LET t == s \o u IN
         /\ t \in Seq(S) /\ Range(s) \subseteq Range(t) /\ Range(t) \subseteq Range(s) \cup {e}
         /\ (n > 0 => e \in Range(t))
         /\ n <= 1 /\ IsInjective(s) /\ (n = 1 => e \notin Range(s)) => IsInjective(t)
<1> DEFINE t == s \o u
<1>1. /\ t \in Seq(S) /\ Len(s) \in Nat /\ DOMAIN s = 1..Len(s) /\ DOMAIN t = 1..(Len(s) + n)
      /\ \A i \in 1..(Len(s) + n) : t[i] = IF i <= Len(s) THEN s[i] ELSE e
  <2>1. t \in Seq(S) /\ Len(t) = Len(s) + n /\ \A i \in 1..(Len(s) + n) : t[i] = IF i <= Len(s) THEN s[i] ELSE u[i - Len(s)]
    BY ConcatProperties
  <2>2. Len(s) \in Nat /\ DOMAIN s = 1..Len(s) /\ DOMAIN t = 1..(Len(s) + n)
    BY <2>1, LenProperties
  <2> QED BY <2>1, <2>2
<1> HIDE DEF t
<1>2. n > 0 => Len(s) + n \in DOMAIN t /\ t[Len(s) + n] = e
  BY <1>1
<1>3. \A i \in DOMAIN s : i \in DOMAIN t /\ t[i] = s[i]
  BY <1>1
<1>4. \A i \in DOMAIN t : (i \in DOMAIN s /\ t[i] = s[i]) \/ (i > Len(s) /\ n > 0 /\ t[i] = e)
  BY <1>1
<1>5. Range(s) \subseteq Range(t) /\ (n > 0 => e \in Range(t)) /\ Range(t) \subseteq Range(s) \cup {e}
  BY <1>2, <1>3, <1>4 DEF Range
<1>6. ASSUME n <= 1, IsInjective(s), n = 1 => e \notin Range(s), NEW i \in DOMAIN t, NEW j \in DOMAIN t, t[i] = t[j]
      PROVE  i = j
  <2>1. \A k \in DOMAIN t : k \in DOMAIN s \/ (k = Len(s) + 1 /\ n = 1 /\ t[k] = e)
    <3>1. n = 0 \/ n = 1
      BY <1>6
    <3> QED BY <1>1, <3>1
  <2>2. \A k \in DOMAIN s : t[k] = s[k] /\ s[k] \in Range(s)
    BY <1>3 DEF Range
  <2> QED BY <1>6, <2>1, <2>2 DEF IsInjective
<1> QED BY <1>1, <1>5, <1>6 DEF IsInjective, t

(***************************************************************************)
(* The log and the row.                                                    *)
(***************************************************************************)
LEMMA SameLog ==
  ASSUME FeedInv, UNCHANGED <<row, log, op>>
  PROVE  /\ RowGone' /\ \A w \in Writers : (DeletedAfter(w))' = DeletedAfter(w)
         /\ \A w \in Writers, c \in Clients : (Reaches(c, w))' = Reaches(c, w)
         /\ \A w \in Writers : (TooLarge(w))' = TooLarge(w)
BY DEF FeedInv, RowGone, DeletedAfter, Reaches, TooLarge, Payload

LEMMA FeedWriters ==
  ASSUME FeedInv
  PROVE  /\ Range(log) \subseteq Writers /\ Range(notes) \subseteq Writers
         /\ \A c \in Clients : got[c] \in Seq(Writers) /\ Range(got[c]) \subseteq Writers
         /\ \A p \in pubs : p.of \in Writers /\ p \in Publication /\ p.held \in BOOLEAN
         /\ at \in [Writers -> Pcs] /\ notify \in BOOLEAN
BY RangeInSet DEF FeedInv, FeedTypeOK, Publication

\* A change that is still to be written finds the previous change's row.
LEMMA TakesLog ==
  ASSUME FeedInv, NEW w \in Writers, at[w] \in {"idle", "delete"}, Effect(w), Takes(w), UNCHANGED op
  PROVE  /\ log' \in Seq(Writers) /\ Range(log') = Range(log) \cup {w} /\ w \notin Range(log)
         /\ row' \in Writers \cup {NoWriter} /\ RowGone'
         /\ \A v \in Writers : DeletedAfter(v) => (DeletedAfter(v))'
         /\ \A v \in Writers : TooLarge(v) => (TooLarge(v))'
         /\ (TooLarge(w))' \/ Payload(w, row) < PayloadLimit
<1> DEFINE n == Len(log) + 1
<1>1. /\ log' = Append(log, w) /\ log \in Seq(Writers)
      /\ DOMAIN log = 1..Len(log) /\ DOMAIN log' = 1..n /\ Len(log) \in Nat /\ Len(log') = n
      /\ log'[n] = w /\ \A i \in 1..Len(log) : log'[i] = log[i] /\ log[i] \in Writers
  BY AppendProperties, LenProperties, ElementOfSeq DEF Takes, FeedInv, FeedTypeOK
<1>2. log' \in Seq(Writers) /\ Range(log') = Range(log) \cup {w} /\ w \notin Range(log)
  BY <1>1, AppendOnce DEF FeedInv, Committed
<1>3. row' = (IF op[w] = "DELETE" THEN NoWriter ELSE w) /\ w # NoWriter
  BY NoWriterAssumption DEF Takes
<1>4. \A v \in Writers : DeletedAfter(v) => (DeletedAfter(v))'
  BY <1>1 DEF DeletedAfter
<1>5. RowGone'
  <2>1. row' # NoWriter => log' # <<>> /\ row' = log'[Len(log')]
    BY <1>1, <1>3, EmptySeq
  <2>2. ASSUME row' = NoWriter, NEW v \in Range(log'), op[v] # "DELETE" PROVE (DeletedAfter(v))'
    <3>1. op[w] = "DELETE" /\ v # w
      BY <1>3, <2>2
    <3>2. PICK i \in DOMAIN log : log[i] = v
      BY <1>2, <2>2, <3>1 DEF Range
    <3>3. i \in DOMAIN log' /\ n \in DOMAIN log' /\ i < n /\ log'[i] = v
      BY <1>1, <3>2
    <3> QED BY <1>1, <3>1, <3>3 DEF DeletedAfter
  <2> QED BY <2>1, <2>2 DEF RowGone
<1>6. \A v \in Writers : TooLarge(v) => (TooLarge(v))'
  <2> SUFFICES ASSUME NEW v \in Writers, TooLarge(v) PROVE (TooLarge(v))'
    OBVIOUS
  <2>1. PICK i \in DOMAIN log : log[i] = v /\ Payload(v, IF i = 1 THEN NoWriter ELSE log[i - 1]) >= PayloadLimit
    BY DEF TooLarge
  <2>2. i \in DOMAIN log' /\ log'[i] = v /\ (i # 1 => log'[i - 1] = log[i - 1])
    BY <1>1, <2>1
  <2>3. Payload(v, IF i = 1 THEN NoWriter ELSE log'[i - 1]) = Payload(v, IF i = 1 THEN NoWriter ELSE log[i - 1])
    BY <2>2
  <2>4. \A x : (Payload(v, x))' = Payload(v, x)'
    OBVIOUS
  <2> QED BY <2>1, <2>2, <2>3 DEF TooLarge, Payload
<1>7. (TooLarge(w))' \/ Payload(w, row) < PayloadLimit
  <2> SUFFICES ASSUME ~(Payload(w, row) < PayloadLimit) PROVE (TooLarge(w))'
    OBVIOUS
  <2>1. op[w] \in Ops /\ row \in Writers \cup {NoWriter} /\ Size \in [Writers -> Nat] /\ PayloadLimit \in Nat
    BY SizeAssumption DEF FeedInv, FeedTypeOK
  <2>2. op[w] # "INSERT" => row \in Writers /\ row = log'[n - 1] /\ n # 1
    <3>1. op[w] # "INSERT" => row # NoWriter
      BY <2>1 DEF Effect, Ops
    <3>2. op[w] # "INSERT" => log # <<>> /\ row = log[Len(log)]
      BY <3>1 DEF FeedInv, RowGone
    <3>3. log # <<>> => Len(log) # 0
      BY <1>1, EmptySeq
    <3>4. n - 1 = Len(log) /\ (Len(log) # 0 => log'[n - 1] = log[Len(log)])
      <4>1. n - 1 = Len(log)
        BY <1>1
      <4>2. Len(log) # 0 => Len(log) \in 1..Len(log)
        BY <1>1
      <4> QED BY <1>1, <4>1, <4>2
    <3>5. Len(log) # 0 => n # 1
      BY <1>1
    <3> HIDE DEF n
    <3> QED BY <2>1, <3>1, <3>2, <3>3, <3>4, <3>5
  <2>3. Payload(w, row) \in Nat /\ Payload(w, row) >= PayloadLimit
    <3>1. Payload(w, row) \in Nat
      BY <2>1, <2>2 DEF Payload
    <3> QED BY <2>1, <3>1
  <2>4. op[w] = "INSERT" => \A x, y : Payload(w, x) = Payload(w, y)
    BY DEF Payload
  <2>5. Payload(w, IF n = 1 THEN NoWriter ELSE log'[n - 1]) >= PayloadLimit
    BY <2>2, <2>3, <2>4
  <2>6. n \in DOMAIN log' /\ log'[n] = w
    BY <1>1
  <2> HIDE DEF n
  <2> QED BY <2>5, <2>6 DEF TooLarge, Payload
<1> QED BY <1>2, <1>3, <1>4, <1>5, <1>6, <1>7

\* Where the changes are whose writers have not run, or not committed.
LEMMA NotCommitted ==
  ASSUME FeedInv, NEW w \in Writers, at[w] \in {"idle", "delete"}
  PROVE  /\ w \notin Range(notes) /\ w \notin Range(log) /\ \A c \in Clients : w \notin Range(got[c])
         /\ at[w] # "delete" => \A p \in pubs : p.of # w
<1>1. \A p \in pubs : at[p.of] \in {"delete", "done", "publishing"}
  BY FeedWriters DEF FeedInv, PubsOnce
<1>2. w \notin Range(notes) /\ w \notin Range(log) /\ \A c \in Clients : w \notin Range(got[c])
  BY DEF FeedInv, Committed, NotesOnce, SentOnce
<1> QED BY <1>1, <1>2

\* A change stays on its way when the log grows, clients leave or join again, and
\* nothing it is waiting for is taken away.
LEMMA StaysOnItsWay ==
  ASSUME FeedInv, NEW w \in Writers, OnItsWay(w), left \subseteq left',
         DeletedAfter(w) => (DeletedAfter(w))',
         Range(notes) \subseteq Range(notes'),
         \A p \in pubs : p.of = w =>
           \E q \in pubs' : q.of = w /\ q.seen \subseteq p.seen /\ q.asking = p.asking /\ q.hits = p.hits,
         \A c \in Clients : Range(got[c]) \subseteq Range(got'[c])
  PROVE  (OnItsWay(w))'
<1>1. Readers \cup Service \subseteq Clients
  BY ClientsAssumption
<1>2. CASE w \in Range(notes)
  BY <1>2 DEF OnItsWay
<1>3. CASE \E p \in pubs : p.of = w /\ \A c \in (Readers \cup Service) \ left :
             c \in p.seen /\ c # p.asking /\ Reaches(c, w) => p.hits[c] > 0
  <2>1. PICK p \in pubs : p.of = w /\ \A c \in (Readers \cup Service) \ left :
             c \in p.seen /\ c # p.asking /\ Reaches(c, w) => p.hits[c] > 0
    BY <1>3
  <2>2. PICK q \in pubs' : q.of = w /\ q.seen \subseteq p.seen /\ q.asking = p.asking /\ q.hits = p.hits
    BY <2>1
  <2>3. \A c \in (Readers \cup Service) \ left' :
             c \in q.seen /\ c # q.asking /\ (Reaches(c, w))' => q.hits[c] > 0
    BY <2>1, <2>2 DEF Reaches
  <2> QED BY <2>2, <2>3 DEF OnItsWay
<1>4. CASE Hears(w)
  <2>1. \A c \in (Readers \cup Service) \ left' : (Reaches(c, w))' => w \in Range(got'[c])
    BY <1>1, <1>4 DEF Hears, Reaches
  <2> QED BY <2>1 DEF OnItsWay, Hears
<1> QED BY <1>2, <1>3, <1>4 DEF OnItsWay

(***************************************************************************)
(* The iterator.                                                           *)
(***************************************************************************)
\* Of the clients that stay it passes only the one it asks for next.
LEMMA OnwardIs ==
  ASSUME FeedTypeOK, StayJoined, NEW p \in Publication, NEW q \in Onward(p)
  PROVE  /\ q \in Publication /\ q.of = p.of /\ q.held = p.held /\ q.hits = p.hits
         /\ Over(q) => q.seen = Clients
         /\ \A c \in Clients \ left : /\ c = q.asking => c \in q.seen /\ c \notin p.seen
                                      /\ c \in q.seen => c \in p.seen \/ c = q.asking
                                      /\ c \in p.seen => c \in q.seen
<1>0. joined \subseteq Clients
  BY DEF FeedTypeOK
<1>1. CASE joined \subseteq p.seen
  <2>1. q = [p EXCEPT !.seen = Clients, !.asking = NoClient]
    BY <1>1 DEF Onward
  <2>2. q \in Publication /\ q.of = p.of /\ q.held = p.held /\ q.hits = p.hits /\ q.seen = Clients /\ q.asking = NoClient
    BY <2>1 DEF Publication
  <2> QED BY <1>1, <2>2, NoClientAssumption DEF StayJoined
<1>2. CASE ~(joined \subseteq p.seen)
  <2>1. PICK c \in joined \ p.seen : q \in StopsAt(p, c)
    BY <1>2 DEF Onward
  <2>2. PICK passed \in SUBSET (Clients \ joined) :
          q = [p EXCEPT !.seen = @ \cup passed \cup {c}, !.asking = c]
    BY <2>1 DEF StopsAt
  <2>3. /\ q \in Publication /\ q.of = p.of /\ q.held = p.held /\ q.hits = p.hits
        /\ q.seen = p.seen \cup passed \cup {c} /\ q.asking = c
    BY <1>0, <2>1, <2>2 DEF Publication
  <2>4. c # NoClient
    BY <1>0, NoClientAssumption
  <2> QED BY <2>3, <2>4 DEF StayJoined, Over
<1> QED BY <1>1, <1>2

\* A new publication has asked nobody yet.
LEMMA PublishIs ==
  ASSUME FeedTypeOK, StayJoined, NEW w \in Writers, NEW h \in BOOLEAN, NEW q \in Publish(w, h)
  PROVE  /\ q \in Publication /\ q.of = w /\ q.held = h /\ (Over(q) => q.seen = Clients)
         /\ \A c \in Clients : q.hits[c] = 0
         /\ \A c \in Clients \ left : /\ c = q.asking => c \in q.seen
                                      /\ c \in q.seen => c = q.asking
<1> DEFINE n == [of |-> w, seen |-> {}, asking |-> NoClient, hits |-> [c \in Clients |-> 0], held |-> h]
<1>1. n \in Publication /\ n.of = w /\ n.held = h /\ n.seen = {} /\ n.hits = [c \in Clients |-> 0]
  BY DEF Publication
<1>2. q \in Onward(n)
  BY DEF Publish
<1> HIDE DEF n
<1> QED BY <1>1, <1>2, OnwardIs

\* One writer's publication is added, of a change that is nowhere else.
LEMMA AddsPublication ==
  ASSUME FeedInv, NEW w \in Writers, NEW h \in BOOLEAN, \A p \in pubs : p.of # w,
         NEW n \in Publish(w, h), pubs' = pubs \cup {n}, UNCHANGED <<op, notify, joined, left>>,
         at'[w] = IF h THEN "delete" ELSE IF notify THEN "done" ELSE "publishing",
         \A v \in Writers \ {w} : at'[v] = at[v],
         Range(log) \subseteq Range(log'), op[w] # "DELETE" => w \in Range(log')
  PROVE  /\ PubsOnce' /\ AskedOnce' /\ pubs' \subseteq Publication
         /\ \A p \in pubs' : p \in pubs \/ p.of = w
         /\ \A p \in pubs' : p.held => at'[p.of] = "delete"
         /\ (OnItsWay(w))'
<1>1. /\ n \in Publication /\ n.of = w /\ n.held = h /\ (Over(n) => n.seen = Clients)
      /\ \A c \in Clients : n.hits[c] = 0
      /\ \A c \in Clients \ left : /\ c = n.asking => c \in n.seen
                                   /\ c \in n.seen => c = n.asking
  BY PublishIs DEF FeedInv
<1>3. \A p, q \in pubs' : p.of = q.of => p = q
  BY <1>1 DEF FeedInv, PubsOnce
<1>4. \A p \in pubs : at'[p.of] = at[p.of]
  BY FeedWriters
<1>5. \A p \in pubs : /\ at'[p.of] = IF p.held THEN "delete" ELSE IF notify THEN "done" ELSE "publishing"
                      /\ op[p.of] # "DELETE" => p.of \in Range(log')
  BY <1>4 DEF FeedInv, PubsOnce
<1>6. \A p \in pubs' : /\ at'[p.of] = IF p.held THEN "delete" ELSE IF notify THEN "done" ELSE "publishing"
                       /\ op[p.of] # "DELETE" => p.of \in Range(log')
  BY <1>1, <1>5
<1>7. pubs' \subseteq Publication /\ \A p \in pubs' : p \in pubs \/ p.of = w
  BY <1>1, FeedWriters
<1>8. AskedOnce'
  <2>1. \A c \in Clients \ left : n.hits[c] <= 1
    BY <1>1
  <2> QED BY <1>1, <2>1 DEF FeedInv, AskedOnce, Over
<1>9. (OnItsWay(w))'
  <2>1. n \in pubs' /\ Readers \cup Service \subseteq Clients
    BY ClientsAssumption
  <2> QED BY <1>1, <2>1 DEF OnItsWay
<1> QED BY <1>3, <1>6, <1>7, <1>8, <1>9 DEF PubsOnce

(***************************************************************************)
(* The writers' steps.                                                     *)
(***************************************************************************)
LEMMA PrepareInv == ASSUME FeedInv, NEW w \in Writers, Prepare(w) PROVE FeedInv'
<1>1. /\ at[w] = "idle" /\ op[w] = "DELETE" /\ Direct(w)
      /\ at' = [at EXCEPT ![w] = "delete"] /\ (pubs' = pubs \/ \E p \in Publish(w, TRUE) : pubs' = pubs \cup {p})
      /\ UNCHANGED <<notify, row, log, op, notes, listening, missed, joined, left, got>>
  BY DEF Prepare, Goto
<1>2. at' \in [Writers -> Pcs] /\ at'[w] = "delete"
      /\ \A v \in Writers \ {w} : at'[v] = at[v]
  BY <1>1, FeedWriters DEF Pcs
<1>3. /\ \A p \in pubs : p.of # w /\ p.of \in Writers
      /\ w \notin Range(notes) /\ w \notin Range(log) /\ \A c \in Clients : w \notin Range(got[c])
  BY <1>1, NotCommitted, FeedWriters
<1>4. /\ PubsOnce' /\ AskedOnce' /\ pubs' \subseteq Publication
      /\ \A p \in pubs' : p \in pubs \/ p.of = w
      /\ \A p \in pubs' : p.held => at'[p.of] = "delete"
  <2>1. CASE pubs' = pubs
    BY <1>1, <1>2, <1>3, <2>1 DEF FeedInv, FeedTypeOK, PubsOnce, AskedOnce, Over
  <2>2. CASE \E p \in Publish(w, TRUE) : pubs' = pubs \cup {p}
    BY <1>1, <1>2, <1>3, <2>2, AddsPublication
  <2> QED BY <1>1, <2>1, <2>2
<1>5. FeedTypeOK'
  BY <1>1, <1>2, <1>4 DEF FeedInv, FeedTypeOK
<1>6. StayJoined' /\ RowGone' /\ Committed' /\ GivenUp'
  BY <1>1, <1>2, <1>3, SameLog, FeedWriters DEF FeedInv, FeedTypeOK, StayJoined, Committed, GivenUp
<1>7. Deleting' /\ NotesOnce'
  BY <1>1, <1>2, <1>3, <1>4, FeedWriters DEF FeedInv, Deleting, Direct, NotesOnce
<1>8. SentOnce'
  <2>1. \A c \in Clients : \A v \in Range(got[c]) : v # w /\ at'[v] = at[v]
    BY <1>2, <1>3, FeedWriters
  <2> QED BY <1>1, <1>4, <2>1 DEF FeedInv, SentOnce
<1>9. Heard'
  <2> SUFFICES ASSUME NEW v \in Range(log), op[v] # "DELETE", Published(v) PROVE (OnItsWay(v))'
    BY <1>1, SameLog, FeedWriters DEF Heard, Published
  <2>1. OnItsWay(v) /\ v \in Writers
    BY FeedWriters DEF FeedInv, Heard
  <2>2. pubs \subseteq pubs'
    BY <1>1
  <2> QED BY <1>1, <2>1, <2>2, SameLog, StaysOnItsWay
<1> QED BY <1>4, <1>5, <1>6, <1>7, <1>8, <1>9 DEF FeedInv

LEMMA MutateInv == ASSUME FeedInv, NEW w \in Writers, Mutate(w) PROVE FeedInv'
<1> DEFINE l == IF Direct(w) /\ Effect(w) THEN "publishing" ELSE "done"
<1>1. /\ at[w] = "idle" /\ at' = [at EXCEPT ![w] = l]
      /\ UNCHANGED <<notify, op, listening, joined, left, got>>
  BY DEF Mutate, Goto
<1>2. at' \in [Writers -> Pcs] /\ at'[w] = l /\ l \in {"publishing", "done"}
      /\ \A v \in Writers \ {w} : at'[v] = at[v]
  BY <1>1, FeedWriters DEF Pcs
<1>3. /\ \A p \in pubs : p.of # w /\ p.of \in Writers
      /\ w \notin Range(notes) /\ w \notin Range(log) /\ \A c \in Clients : w \notin Range(got[c])
  BY <1>1, NotCommitted, FeedWriters
<1>4. \A c \in Clients : \A v \in Range(got[c]) : v # w /\ v \in Writers /\ at'[v] = at[v]
  BY <1>2, <1>3, FeedWriters
<1>5. Deleting' /\ StayJoined'
  BY <1>1, <1>2 DEF FeedInv, Deleting, Direct, StayJoined
<1>6. CASE ~Effect(w)
  <2>1. UNCHANGED <<row, log, notes, missed, pubs>>
    BY <1>6 DEF Mutate
  <2>2. PubsOnce' /\ AskedOnce' /\ FeedTypeOK'
    BY <1>1, <1>2, <1>3, <2>1 DEF FeedInv, FeedTypeOK, PubsOnce, AskedOnce, Over
  <2>3. RowGone' /\ Committed' /\ GivenUp' /\ NotesOnce' /\ SentOnce'
    <3>1. \A v \in Range(log) \cup Range(notes) : at'[v] = at[v]
      BY <1>2, <1>3, FeedWriters
    <3>2. RowGone' /\ Committed' /\ NotesOnce'
      BY <1>1, <2>1, <3>1, SameLog DEF FeedInv, Committed, NotesOnce
    <3>3. GivenUp'
      BY <1>1, <1>2, <2>1 DEF FeedInv, FeedTypeOK, GivenUp
    <3>4. SentOnce'
      BY <1>1, <1>4, <2>1 DEF FeedInv, SentOnce
    <3> QED BY <3>2, <3>3, <3>4
  <2>4. Heard'
    <3> SUFFICES ASSUME NEW v \in Range(log), op[v] # "DELETE", Published(v) PROVE (OnItsWay(v))'
      BY <1>1, <2>1, SameLog, FeedWriters DEF Heard, Published
    <3>1. OnItsWay(v) /\ v \in Writers
      BY FeedWriters DEF FeedInv, Heard
    <3> QED BY <1>1, <2>1, <3>1, SameLog, StaysOnItsWay
  <2> QED BY <1>5, <2>2, <2>3, <2>4 DEF FeedInv
<1>7. CASE Effect(w)
  <2>1. /\ Takes(w) /\ l = (IF Direct(w) THEN "publishing" ELSE "done")
        /\ IF Direct(w) THEN \E p \in Publish(w, FALSE) : pubs' = pubs \cup {p} ELSE pubs' = pubs
    BY <1>7 DEF Mutate
  <2>2. /\ log' \in Seq(Writers) /\ Range(log') = Range(log) \cup {w}
        /\ row' \in Writers \cup {NoWriter} /\ RowGone'
        /\ \A v \in Writers : DeletedAfter(v) => (DeletedAfter(v))'
        /\ \A v \in Writers : TooLarge(v) => (TooLarge(v))'
        /\ (TooLarge(w))' \/ Payload(w, row) < PayloadLimit
    BY <1>1, <1>7, <2>1, TakesLog
  <2>3. /\ PubsOnce' /\ AskedOnce' /\ pubs' \subseteq Publication
        /\ \A p \in pubs' : p \in pubs \/ p.of = w
        /\ \A p \in pubs' : p.held => at'[p.of] = "delete"
        /\ Direct(w) => (OnItsWay(w))'
    <3>1. CASE Direct(w)
      <4>1. PICK p \in Publish(w, FALSE) : pubs' = pubs \cup {p}
        BY <2>1, <3>1
      <4>2. at'[w] = IF FALSE THEN "delete" ELSE IF notify THEN "done" ELSE "publishing"
        BY <1>2, <2>1, <3>1 DEF Direct
      <4> HIDE DEF l
      <4> QED BY <1>1, <1>2, <1>3, <2>2, <4>1, <4>2, AddsPublication
    <3>2. CASE ~Direct(w)
      BY <1>1, <1>2, <1>3, <2>1, <2>2, <3>2 DEF FeedInv, FeedTypeOK, PubsOnce, AskedOnce, Over
    <3> QED BY <3>1, <3>2
  <2>4. /\ notes' \in Seq(Writers) /\ IsInjective(notes') /\ Range(notes) \subseteq Range(notes')
        /\ Range(notes') \subseteq Range(notes) \cup {w}
        /\ notify /\ listening /\ Payload(w, row) < PayloadLimit => w \in Range(notes')
        /\ ~notify => notes' = notes
    <3>1. /\ notes \in Seq(Writers) /\ IsInjective(notes) /\ notes' \in {notes, Append(notes, w)}
          /\ notify /\ listening /\ Payload(w, row) < PayloadLimit => notes' = Append(notes, w)
          /\ ~notify => notes' = notes
      <4>1. notes' = IF notify /\ listening /\ Payload(w, row) < PayloadLimit THEN Append(notes, w) ELSE notes
        BY <2>1 DEF Takes
      <4> QED BY <4>1 DEF FeedInv, FeedTypeOK, NotesOnce
    <3>2. /\ Append(notes, w) \in Seq(Writers) /\ IsInjective(Append(notes, w))
          /\ Range(Append(notes, w)) = Range(notes) \cup {w}
      BY <1>3, <3>1, AppendOnce
    <3> QED BY <3>1, <3>2
  <2>5. /\ missed' \subseteq Writers /\ missed \subseteq missed' /\ (notify /\ ~listening => w \in missed')
        /\ ~notify => missed' = missed
    BY <2>1 DEF Takes, FeedInv, FeedTypeOK
  <2>6. FeedTypeOK'
    BY <1>1, <1>2, <2>2, <2>3, <2>4, <2>5 DEF FeedInv, FeedTypeOK
  <2>7. Committed' /\ GivenUp'
    <3>1. \A v \in Writers : at[v] = "failed" => v # w
      BY <1>1
    <3>2. Committed'
      BY <1>2, <2>2, <2>5, <3>1, FeedWriters DEF FeedInv, Committed
    <3>3. GivenUp'
      BY <1>1, <1>2, <2>5, <3>1 DEF FeedInv, FeedTypeOK, GivenUp
    <3> QED BY <3>2, <3>3
  <2>8. NotesOnce'
    <3>1. \A v \in Range(notes') : v # w => v \in Range(notes)
      BY <2>4
    <3>2. w \in Range(notes') => notify /\ pubs' = pubs /\ at'[w] = "done"
      BY <1>2, <1>3, <2>1, <2>4 DEF Direct, FeedInv, FeedTypeOK
    <3>3. \A v \in Range(notes) : notify /\ v \in Range(log') /\ at'[v] = "done" /\ \A p \in pubs' : p.of # v
      BY <1>2, <1>3, <2>2, <2>3, FeedWriters DEF FeedInv, NotesOnce
    <3>4. w \in Range(log')
      BY <2>2
    <3> QED BY <1>1, <1>3, <2>4, <3>1, <3>2, <3>3, <3>4 DEF NotesOnce
  <2>9. SentOnce'
    <3>1. \A c \in Clients : \A v \in Range(got[c]) : v \notin Range(notes') /\ \A p \in pubs' : p.of # v
      BY <1>4, <2>3, <2>4 DEF FeedInv, SentOnce
    <3> QED BY <1>1, <1>4, <2>2, <3>1 DEF FeedInv, SentOnce
  <2>10. Heard'
    <3> SUFFICES ASSUME NEW v \in Range(log'), op[v] # "DELETE", (Published(v))' PROVE (OnItsWay(v))'
      BY <1>1 DEF Heard
    <3>1. CASE v # w
      <4>1. v \in Range(log) /\ v \in Writers
        BY <2>2, <3>1, FeedWriters
      <4>2. Published(v)
        BY <1>1, <2>2, <2>5, <4>1 DEF Published
      <4>3. OnItsWay(v)
        BY <4>1, <4>2 DEF FeedInv, Heard
      <4>4. \A p \in pubs : p \in pubs'
        BY <2>1
      <4> QED BY <1>1, <2>2, <2>4, <4>1, <4>3, <4>4, StaysOnItsWay
    <3>2. CASE v = w
      <4>1. CASE notify
        <5>1. listening /\ ~(TooLarge(w))'
          BY <1>1, <2>5, <3>2, <4>1 DEF Published, FeedInv, FeedTypeOK
        <5>2. w \in Range(notes')
          BY <2>2, <2>4, <4>1, <5>1
        <5> QED BY <3>2, <5>2 DEF OnItsWay
      <4>2. CASE ~notify
        BY <1>1, <2>3, <3>2, <4>2 DEF Published, Direct
      <4> QED BY <4>1, <4>2
    <3> QED BY <3>1, <3>2
  <2> QED BY <1>5, <2>2, <2>3, <2>6, <2>7, <2>8, <2>9, <2>10 DEF FeedInv
<1> QED BY <1>6, <1>7

LEMMA DeleteInv == ASSUME FeedInv, NEW w \in Writers, Delete(w) PROVE FeedInv'
<1> DEFINE f(p) == [p EXCEPT !.held = @ /\ p.of # w]
           l == IF \E p \in pubs : p.of = w THEN "publishing" ELSE "done"
<1>1. /\ at[w] = "delete" /\ at' = [at EXCEPT ![w] = l] /\ op[w] = "DELETE" /\ Direct(w) /\ ~notify
      /\ pubs' = {f(p) : p \in pubs}
      /\ IF Effect(w) THEN Takes(w) ELSE UNCHANGED <<row, log, notes, missed>>
      /\ UNCHANGED <<notify, op, listening, joined, left, got>>
  BY DEF Delete, Goto, FeedInv, Deleting, Direct
<1>2. at' \in [Writers -> Pcs] /\ at'[w] = l /\ l \in {"publishing", "done"}
      /\ ((\E p \in pubs : p.of = w) => l = "publishing")
      /\ \A v \in Writers \ {w} : at'[v] = at[v]
  BY <1>1, FeedWriters DEF Pcs
<1>3. w \notin Range(notes) /\ w \notin Range(log) /\ \A c \in Clients : w \notin Range(got[c])
  BY <1>1, NotCommitted
<1>4. \A p \in pubs : /\ f(p) \in Publication /\ f(p).of = p.of /\ f(p).seen = p.seen /\ f(p).asking = p.asking
                      /\ f(p).hits = p.hits /\ f(p).held = (p.held /\ p.of # w)
  BY FeedWriters DEF Publication
<1> HIDE DEF l
<1>5. /\ log' \in Seq(Writers) /\ Range(log) \subseteq Range(log') /\ Range(log') \subseteq Range(log) \cup {w}
      /\ row' \in Writers \cup {NoWriter} /\ RowGone'
      /\ \A v \in Writers : DeletedAfter(v) => (DeletedAfter(v))'
      /\ UNCHANGED <<notes, missed>>
  <2>1. CASE Effect(w)
    <3>1. Takes(w)
      BY <1>1, <2>1
    <3>2. UNCHANGED <<notes, missed>>
      BY <1>1, <3>1 DEF Takes
    <3> QED BY <1>1, <2>1, <3>1, <3>2, TakesLog
  <2>2. CASE ~Effect(w)
    BY <1>1, <2>2, SameLog DEF FeedInv, FeedTypeOK
  <2> QED BY <2>1, <2>2
<1> HIDE DEF f
<1>6. FeedTypeOK' /\ PubsOnce' /\ AskedOnce'
  <2>1. pubs' \subseteq Publication
    BY <1>1, <1>4
  <2>2. \A p \in pubs : at'[f(p).of] = IF f(p).held THEN "delete" ELSE "publishing"
    <3> TAKE p \in pubs
    <3>1. at[p.of] = IF p.held THEN "delete" ELSE "publishing"
      BY <1>1 DEF FeedInv, PubsOnce
    <3>2. p.of \in Writers /\ p.held \in BOOLEAN
      BY FeedWriters
    <3>3. CASE p.of = w
      BY <1>2, <1>4, <3>3
    <3>4. CASE p.of # w
      BY <1>2, <1>4, <3>1, <3>2, <3>4
    <3> QED BY <3>3, <3>4
  <2>3. \A p \in pubs : op[f(p).of] # "DELETE" => f(p).of \in Range(log')
    BY <1>4, <1>5 DEF FeedInv, PubsOnce
  <2>4. \A p, q \in pubs : f(p).of = f(q).of => f(p) = f(q)
    BY <1>4 DEF FeedInv, PubsOnce
  <2>5. FeedTypeOK'
    BY <1>1, <1>2, <1>5, <2>1, <2>2 DEF FeedInv, FeedTypeOK
  <2>6. \A p, q \in pubs' : p.of = q.of => p = q
    BY <1>1, <2>4
  <2>7. \A p \in pubs' : /\ at'[p.of] = IF p.held THEN "delete" ELSE IF notify' THEN "done" ELSE "publishing"
                         /\ op'[p.of] # "DELETE" => p.of \in Range(log')
    BY <1>1, <2>2, <2>3
  <2>8. AskedOnce'
    <3>1. \A p \in pubs : /\ Over(f(p)) => f(p).seen = Clients
                          /\ \A c \in Clients \ left : /\ c = f(p).asking => c \in f(p).seen
                                                       /\ f(p).hits[c] <= 1
                                                       /\ c \notin f(p).seen \/ c = f(p).asking => f(p).hits[c] = 0
      BY <1>4 DEF FeedInv, AskedOnce, Over
    <3> QED BY <1>1, <3>1 DEF AskedOnce, Over
  <2> QED BY <2>5, <2>6, <2>7, <2>8 DEF PubsOnce
<1>7. \A v \in Writers : (\A p \in pubs : p.of # v) => \A p \in pubs' : p.of # v
  BY <1>1, <1>4
<1>8. StayJoined' /\ Deleting' /\ Committed' /\ GivenUp'
  <2>1. StayJoined' /\ Deleting'
    BY <1>1, <1>2 DEF FeedInv, StayJoined, Deleting, Direct
  <2>2. \A v \in Writers : at[v] = "failed" => at'[v] = "failed"
    BY <1>1, <1>2
  <2>3. Committed' /\ GivenUp'
    BY <1>1, <1>2, <1>3, <1>5, <2>2, FeedWriters DEF FeedInv, FeedTypeOK, Committed, GivenUp
  <2> QED BY <2>1, <2>3
<1>9. NotesOnce'
  <2>1. \A v \in Range(notes) : v \in Writers /\ at'[v] = at[v]
    BY <1>2, <1>3, FeedWriters
  <2> QED BY <1>1, <1>5, <1>7, <2>1 DEF FeedInv, NotesOnce
<1>10. SentOnce'
  <2>1. \A c \in Clients : \A v \in Range(got[c]) : v \in Writers /\ at'[v] = at[v]
    BY <1>2, <1>3, FeedWriters
  <2> QED BY <1>1, <1>5, <1>7, <2>1 DEF FeedInv, SentOnce
<1>11. Heard'
  <2> SUFFICES ASSUME NEW v \in Range(log'), op[v] # "DELETE", (Published(v))' PROVE (OnItsWay(v))'
    BY <1>1 DEF Heard
  <2>1. v \in Range(log) /\ v \in Writers /\ Published(v)
    BY <1>1, <1>5, FeedWriters DEF Published
  <2>2. OnItsWay(v)
    BY <1>1, <2>1 DEF FeedInv, Heard
  <2>3. \A p \in pubs : f(p) \in pubs'
    BY <1>1
  <2> QED BY <1>1, <1>4, <1>5, <2>1, <2>2, <2>3, StaysOnItsWay
<1> QED BY <1>5, <1>6, <1>8, <1>9, <1>10, <1>11 DEF FeedInv

\* A writer whose transaction fails is nowhere else: giving up what it had prepared
\* takes nothing away from another.
LEMMA FailsInv ==
  ASSUME FeedInv, NEW w \in Writers, at[w] \in {"idle", "delete"},
         at' = [at EXCEPT ![w] = "failed"], pubs' = {p \in pubs : p.of # w},
         UNCHANGED <<notify, row, log, op, notes, listening, missed, joined, left, got>>
  PROVE  FeedInv'
<1>1. at' \in [Writers -> Pcs] /\ at'[w] = "failed"
      /\ \A v \in Writers \ {w} : at'[v] = at[v]
  BY FeedWriters DEF Pcs
<1>2. w \notin Range(notes) /\ w \notin Range(log) /\ \A c \in Clients : w \notin Range(got[c])
  BY NotCommitted
<1>3. FeedTypeOK'
  BY <1>1 DEF FeedInv, FeedTypeOK, Publication
<1>4. StayJoined' /\ RowGone' /\ Committed' /\ GivenUp' /\ Deleting' /\ NotesOnce'
  <2>1. \A v \in Range(log) \cup Range(notes) : at'[v] = at[v]
    BY <1>1, <1>2, FeedWriters
  <2>2. \A v \in Writers : at[v] = "failed" => at'[v] = "failed"
    BY <1>1
  <2>3. StayJoined' /\ RowGone' /\ Committed' /\ NotesOnce'
    BY <2>1, SameLog DEF FeedInv, StayJoined, Committed, NotesOnce
  <2>4. GivenUp' /\ Deleting'
    BY <1>1, <2>2 DEF FeedInv, FeedTypeOK, GivenUp, Deleting, Direct
  <2> QED BY <2>3, <2>4
<1>5. PubsOnce' /\ AskedOnce'
  BY <1>1, FeedWriters DEF FeedInv, PubsOnce, AskedOnce, Over
<1>6. SentOnce'
  <2>1. \A c \in Clients : \A v \in Range(got[c]) : at'[v] = at[v]
    BY <1>1, <1>2, FeedWriters
  <2> QED BY <2>1 DEF FeedInv, SentOnce
<1>7. Heard'
  <2> SUFFICES ASSUME NEW v \in Range(log), op[v] # "DELETE", Published(v) PROVE (OnItsWay(v))'
    BY SameLog, FeedWriters DEF Heard, Published
  <2>1. OnItsWay(v) /\ v \in Writers /\ v # w
    BY <1>2, FeedWriters DEF FeedInv, Heard
  <2> QED BY <2>1, SameLog, StaysOnItsWay
<1> QED BY <1>3, <1>4, <1>5, <1>6, <1>7 DEF FeedInv

LEMMA AbortInv == ASSUME FeedInv, NEW w \in Writers, Abort(w) PROVE FeedInv'
BY FailsInv DEF Abort, Goto

(***************************************************************************)
(* The listener's steps.                                                   *)
(***************************************************************************)
LEMMA HearInv == ASSUME FeedInv, Hear PROVE FeedInv'
<1>1. /\ notes' = Tail(notes) /\ listening
      /\ UNCHANGED <<notify, row, log, op, at, listening, missed, joined, left, got>>
  BY DEF Hear
<1>2. PICK w \in Writers : /\ w = Head(notes) /\ w \in Range(notes)
                           /\ notes' \in Seq(Writers) /\ IsInjective(notes') /\ Range(notes') = Range(notes) \ {w}
  BY <1>1, TailOnce DEF Hear, FeedInv, FeedTypeOK, NotesOnce
<1>3. PICK n \in Publish(w, FALSE) : pubs' = pubs \cup {n}
  BY <1>2 DEF Hear
<1>4. w \in Range(log) /\ at[w] = "done" /\ notify /\ \A p \in pubs : p.of # w
  BY <1>2 DEF FeedInv, NotesOnce
<1>5. /\ PubsOnce' /\ AskedOnce' /\ pubs' \subseteq Publication
      /\ \A p \in pubs' : p \in pubs \/ p.of = w
      /\ \A p \in pubs' : p.held => at'[p.of] = "delete"
      /\ (OnItsWay(w))'
  <2>1. at'[w] = IF FALSE THEN "delete" ELSE IF notify THEN "done" ELSE "publishing"
    BY <1>1, <1>4
  <2>2. /\ Range(log) \subseteq Range(log') /\ (op[w] # "DELETE" => w \in Range(log'))
        /\ \A v \in Writers \ {w} : at'[v] = at[v]
        /\ UNCHANGED <<op, notify, joined, left>> /\ FALSE \in BOOLEAN
    BY <1>1, <1>4
  <2> QED BY <1>3, <1>2, <1>4, <2>1, <2>2, AddsPublication
<1>6. FeedTypeOK'
  BY <1>1, <1>2, <1>5 DEF FeedInv, FeedTypeOK
<1>7. StayJoined' /\ RowGone' /\ Committed' /\ GivenUp' /\ Deleting'
  BY <1>1, SameLog DEF FeedInv, StayJoined, Committed, GivenUp, Deleting, Direct
<1>8. NotesOnce'
  BY <1>1, <1>2, <1>5 DEF FeedInv, NotesOnce
<1>9. SentOnce'
  BY <1>1, <1>2, <1>5 DEF FeedInv, SentOnce
<1>10. Heard'
  <2> SUFFICES ASSUME NEW v \in Range(log), op[v] # "DELETE", Published(v) PROVE (OnItsWay(v))'
    BY <1>1, SameLog, FeedWriters DEF Heard, Published
  <2>1. OnItsWay(v) /\ v \in Writers
    BY FeedWriters DEF FeedInv, Heard
  <2>2. CASE v = w
    BY <1>5, <2>2
  <2>3. CASE v # w /\ v \in Range(notes)
    BY <1>2, <2>3 DEF OnItsWay
  <2>4. CASE v # w /\ v \notin Range(notes)
    <3>1. Readers \cup Service \subseteq Clients /\ pubs \subseteq pubs'
      BY <1>3, ClientsAssumption
    <3>2. \A c \in (Readers \cup Service) \ left' : (Reaches(c, v))' => Reaches(c, v)
      BY <1>1, <2>1, <3>1, SameLog
    <3>3. CASE Hears(v)
      BY <1>1, <3>2, <3>3 DEF OnItsWay, Hears
    <3>4. CASE \E p \in pubs : p.of = v /\ \A c \in (Readers \cup Service) \ left :
               c \in p.seen /\ c # p.asking /\ Reaches(c, v) => p.hits[c] > 0
      BY <1>1, <3>1, <3>2, <3>4 DEF OnItsWay
    <3> QED BY <2>1, <2>4, <3>3, <3>4 DEF OnItsWay
  <2> QED BY <2>2, <2>3, <2>4
<1> QED BY <1>5, <1>6, <1>7, <1>8, <1>9, <1>10 DEF FeedInv

LEMMA DisconnectInv == ASSUME FeedInv, Disconnect PROVE FeedInv'
<1>1. /\ notes' = <<>> /\ missed' = missed \cup Range(notes) /\ listening' = FALSE /\ listening
      /\ UNCHANGED <<notify, row, log, op, at, pubs, joined, left, got>>
  BY DEF Disconnect
<1>2. notes' \in Seq(Writers) /\ Range(notes') = {} /\ IsInjective(notes') /\ notify
  BY <1>1, NoneOnce, EmptySeq DEF FeedInv, FeedTypeOK
<1>3. FeedTypeOK'
  BY <1>1, <1>2, FeedWriters DEF FeedInv, FeedTypeOK
<1>4. /\ StayJoined' /\ RowGone' /\ Committed' /\ GivenUp' /\ Deleting' /\ NotesOnce'
      /\ PubsOnce' /\ AskedOnce' /\ SentOnce'
  BY <1>1, <1>2, SameLog
     DEF FeedInv, StayJoined, Committed, GivenUp, Deleting, Direct, NotesOnce, PubsOnce, AskedOnce, Over, SentOnce
<1>5. Heard'
  <2> SUFFICES ASSUME NEW v \in Range(log), op[v] # "DELETE", Published(v), v \notin Range(notes)
               PROVE  (OnItsWay(v))'
    BY <1>1, SameLog, FeedWriters DEF Heard, Published
  <2>1. OnItsWay(v) /\ v \in Writers
    BY FeedWriters DEF FeedInv, Heard
  <2>2. \A c \in (Readers \cup Service) \ left' : (Reaches(c, v))' => Reaches(c, v)
    BY <1>1, <2>1, SameLog, ClientsAssumption
  <2>3. CASE Hears(v)
    BY <1>1, <2>2, <2>3 DEF OnItsWay, Hears
  <2>4. CASE \E p \in pubs : p.of = v /\ \A c \in (Readers \cup Service) \ left :
             c \in p.seen /\ c # p.asking /\ Reaches(c, v) => p.hits[c] > 0
    BY <1>1, <2>2, <2>4 DEF OnItsWay
  <2> QED BY <2>1, <2>3, <2>4 DEF OnItsWay
<1> QED BY <1>3, <1>4, <1>5 DEF FeedInv

\* Whoever leaves, or connects again, takes nothing from a change.
LEMMA ClientsInv ==
  ASSUME FeedInv, UNCHANGED <<notify, row, log, op, at, pubs, notes, missed, got>>,
         joined' \subseteq Clients, left' \subseteq Clients, listening' \in BOOLEAN, listening' => notify,
         Clients \ left' \subseteq joined', left \subseteq left'
  PROVE  FeedInv'
<1>1. FeedTypeOK' /\ StayJoined'
  BY DEF FeedInv, FeedTypeOK, StayJoined
<1>2. RowGone' /\ Committed' /\ GivenUp' /\ Deleting' /\ NotesOnce' /\ PubsOnce' /\ AskedOnce' /\ SentOnce'
  BY SameLog DEF FeedInv, Committed, GivenUp, Deleting, Direct, NotesOnce, PubsOnce, AskedOnce, Over, SentOnce
<1>3. Heard'
  <2> SUFFICES ASSUME NEW v \in Range(log), op[v] # "DELETE", Published(v) PROVE (OnItsWay(v))'
    BY SameLog, FeedWriters DEF Heard, Published
  <2>1. OnItsWay(v) /\ v \in Writers
    BY FeedWriters DEF FeedInv, Heard
  <2> QED BY <2>1, SameLog, StaysOnItsWay
<1> QED BY <1>1, <1>2, <1>3 DEF FeedInv

\* A client that joins again is one that has left: what a publication forgets of it is
\* owed to nobody.
LEMMA JoinFeedInv == ASSUME FeedInv, NEW c \in Clients, JoinFeed(c) PROVE FeedInv'
<1> DEFINE f(p) == [p EXCEPT !.seen = IF p.asking = c THEN @ \ {c} ELSE @]
<1>1. /\ c \notin joined /\ joined' = joined \cup {c} /\ pubs' = {f(p) : p \in pubs}
      /\ UNCHANGED <<notify, row, log, op, at, notes, listening, missed, left, got>>
  BY DEF JoinFeed
<1>2. c \in left
  BY <1>1 DEF FeedInv, StayJoined
<1>3. \A p \in pubs : /\ f(p) \in Publication /\ f(p).of = p.of /\ f(p).asking = p.asking /\ f(p).hits = p.hits
                      /\ f(p).held = p.held /\ f(p).seen \subseteq p.seen /\ p.seen \subseteq f(p).seen \cup {c}
                      /\ Over(p) => f(p).seen = p.seen
  BY FeedWriters, NoClientAssumption DEF Publication, Over
<1> HIDE DEF f
<1>4. FeedTypeOK' /\ StayJoined'
  BY <1>1, <1>3 DEF FeedInv, FeedTypeOK, StayJoined
<1>5. PubsOnce' /\ AskedOnce'
  <2>1. PubsOnce'
    BY <1>1, <1>3 DEF FeedInv, PubsOnce
  <2>2. \A p \in pubs : /\ Over(f(p)) => f(p).seen = Clients
                        /\ \A d \in Clients \ left : /\ d = f(p).asking => d \in f(p).seen
                                                     /\ f(p).hits[d] <= 1
                                                     /\ d \notin f(p).seen \/ d = f(p).asking => f(p).hits[d] = 0
    <3> TAKE p \in pubs
    <3>1. Over(f(p)) => f(p).seen = Clients
      BY <1>3 DEF FeedInv, AskedOnce, Over
    <3>2. \A d \in Clients \ left : d \in f(p).seen <=> d \in p.seen
      BY <1>2, <1>3
    <3> QED BY <1>3, <3>1, <3>2 DEF FeedInv, AskedOnce
  <2> QED BY <1>1, <2>1, <2>2 DEF AskedOnce, Over
<1>6. \A v : (\A p \in pubs : p.of # v) => \A p \in pubs' : p.of # v
  BY <1>1, <1>3
<1>7. RowGone' /\ Committed' /\ GivenUp' /\ Deleting' /\ NotesOnce' /\ SentOnce'
  BY <1>1, <1>6, SameLog DEF FeedInv, Committed, GivenUp, Deleting, Direct, NotesOnce, SentOnce
<1>8. Heard'
  <2> SUFFICES ASSUME NEW v \in Range(log), op[v] # "DELETE", Published(v) PROVE (OnItsWay(v))'
    BY <1>1, SameLog, FeedWriters DEF Heard, Published
  <2>1. OnItsWay(v) /\ v \in Writers
    BY FeedWriters DEF FeedInv, Heard
  <2>2. \A p \in pubs : f(p) \in pubs'
    BY <1>1
  <2> QED BY <1>1, <1>3, <2>1, <2>2, SameLog, StaysOnItsWay
<1> QED BY <1>4, <1>5, <1>7, <1>8 DEF FeedInv

LEMMA FeedClientsInv ==
  ASSUME FeedInv, Reconnected \/ \E c \in Clients : JoinFeed(c) \/ LeaveFeed(c)
  PROVE  FeedInv'
<1>1. CASE Reconnected
  BY <1>1, ClientsInv DEF Reconnected, FeedInv, FeedTypeOK, StayJoined
<1>2. ASSUME NEW c \in Clients, JoinFeed(c) PROVE FeedInv'
  BY <1>2, JoinFeedInv
<1>3. ASSUME NEW c \in Clients, LeaveFeed(c) PROVE FeedInv'
  BY <1>3, ClientsInv DEF LeaveFeed, FeedInv, FeedTypeOK, StayJoined
<1> QED BY <1>1, <1>2, <1>3

(***************************************************************************)
(* The hub's steps.                                                        *)
(***************************************************************************)
\* A reader is refused only when the row is gone, deleted after the change.
LEMMA AnswerInv == ASSUME FeedInv, NEW p \in pubs, Answer(p) PROVE FeedInv'
<1> DEFINE c == p.asking
           n == [p EXCEPT !.hits[c] = IF CanRead(c) THEN @ + 1 ELSE @]
<1>1. UNCHANGED <<notify, row, log, op, at, notes, listening, missed, joined, left, got>>
  BY DEF Answer
<1>2. PICK a \in Onward(n) : pubs' = (pubs \ {p}) \cup {a}
  BY DEF Answer
<1>3. p \in Publication /\ c \in Clients
  BY FeedWriters, ClientsAssumption DEF Answer, Over, Publication
<1>4. /\ n \in Publication /\ n.of = p.of /\ n.held = p.held /\ n.seen = p.seen
      /\ n.hits[c] = IF CanRead(c) THEN p.hits[c] + 1 ELSE p.hits[c]
      /\ \A d \in Clients \ {c} : n.hits[d] = p.hits[d]
  BY <1>3 DEF Publication
<1> HIDE DEF n
<1>5. /\ a \in Publication /\ a.of = p.of /\ a.held = p.held /\ a.hits = n.hits /\ (Over(a) => a.seen = Clients)
      /\ \A d \in Clients \ left : /\ d = a.asking => d \in a.seen /\ d \notin p.seen
                                   /\ d \in a.seen => d \in p.seen \/ d = a.asking
                                   /\ d \in p.seen => d \in a.seen
  BY <1>4, OnwardIs DEF FeedInv
<1>6. FeedTypeOK' /\ PubsOnce'
  <2>1. \A q \in pubs' : q \in pubs \/ q = a
    BY <1>2
  <2>2. FeedTypeOK'
    BY <1>1, <1>2, <1>5, <2>1 DEF FeedInv, FeedTypeOK
  <2>3. \A q, r \in pubs' : q.of = r.of => q = r
    BY <1>2, <1>5 DEF FeedInv, PubsOnce
  <2>4. \A q \in pubs' : /\ at'[q.of] = IF q.held THEN "delete" ELSE IF notify' THEN "done" ELSE "publishing"
                         /\ op'[q.of] # "DELETE" => q.of \in Range(log')
    BY <1>1, <1>5, <2>1 DEF FeedInv, PubsOnce
  <2> QED BY <2>2, <2>3, <2>4 DEF PubsOnce
<1>7. AskedOnce'
  <2>1. /\ Over(p) => p.seen = Clients
        /\ \A d \in Clients \ left : /\ d = c => d \in p.seen
                                     /\ p.hits[d] <= 1
                                     /\ d \notin p.seen \/ d = c => p.hits[d] = 0
    BY DEF FeedInv, AskedOnce
  <2>2. \A d \in Clients \ left : a.hits[d] <= 1
    BY <1>3, <1>4, <1>5, <2>1
  <2>3. \A d \in Clients \ left : d \notin a.seen \/ d = a.asking => a.hits[d] = 0
    <3> TAKE d \in Clients \ left
    <3>1. d \notin a.seen \/ d = a.asking => d \notin p.seen
      BY <1>5
    <3>2. d \notin p.seen => d # c /\ p.hits[d] = 0
      BY <2>1
    <3> QED BY <1>4, <1>5, <3>1, <3>2
  <2> QED BY <1>1, <1>2, <1>5, <2>2, <2>3 DEF FeedInv, AskedOnce, Over
<1>8. \A v : (\A q \in pubs : q.of # v) => \A q \in pubs' : q.of # v
  BY <1>2, <1>5
<1>9. StayJoined' /\ RowGone' /\ Committed' /\ GivenUp' /\ Deleting' /\ NotesOnce' /\ SentOnce'
  BY <1>1, <1>8, SameLog DEF FeedInv, StayJoined, Committed, GivenUp, Deleting, Direct, NotesOnce, SentOnce
<1>10. Heard'
  <2> SUFFICES ASSUME NEW v \in Range(log), op[v] # "DELETE", Published(v) PROVE (OnItsWay(v))'
    BY <1>1, SameLog, FeedWriters DEF Heard, Published
  <2>1. OnItsWay(v) /\ v \in Writers /\ Readers \cup Service \subseteq Clients
    BY FeedWriters, ClientsAssumption DEF FeedInv, Heard
  <2>2. CASE v \in Range(notes)
    BY <1>1, <2>2 DEF OnItsWay
  <2>3. \A d \in (Readers \cup Service) \ left' : (Reaches(d, v))' => Reaches(d, v)
    BY <1>1, <2>1, SameLog
  <2>4. CASE Hears(v)
    BY <1>1, <2>3, <2>4 DEF OnItsWay, Hears
  <2>5. ASSUME NEW q \in pubs, q.of = v, \A d \in (Readers \cup Service) \ left :
                 d \in q.seen /\ d # q.asking /\ Reaches(d, v) => q.hits[d] > 0
        PROVE  (OnItsWay(v))'
    <3>1. CASE q # p
      BY <1>1, <1>2, <2>3, <2>5, <3>1 DEF OnItsWay
    <3>2. CASE q = p
      <4>1. c \in Readers \cup Service /\ Reaches(c, v) => CanRead(c)
        BY DEF Reaches, CanRead, FeedInv, RowGone
      <4>2. ASSUME NEW d \in (Readers \cup Service) \ left, d \in a.seen, d # a.asking, Reaches(d, v)
            PROVE  a.hits[d] > 0
        <5>1. d \in p.seen /\ d \in Clients /\ p.hits \in [Clients -> Nat]
          BY <1>3, <1>5, <2>1, <4>2 DEF Publication
        <5>2. CASE d = c
          BY <1>4, <1>5, <4>1, <4>2, <5>1, <5>2
        <5>3. CASE d # c
          BY <1>4, <1>5, <2>5, <3>2, <4>2, <5>1, <5>3
        <5> QED BY <5>2, <5>3
      <4> QED BY <1>1, <1>2, <1>5, <2>3, <2>5, <3>2, <4>2 DEF OnItsWay
    <3> QED BY <3>1, <3>2
  <2> QED BY <2>1, <2>2, <2>4, <2>5 DEF OnItsWay
<1> QED BY <1>6, <1>7, <1>9, <1>10 DEF FeedInv

LEMMA CheckFailsInv == ASSUME FeedInv, NEW p \in pubs, CheckFails(p) PROVE FeedInv'
<1> DEFINE w == p.of
<1>1. /\ pubs' = pubs \ {p} /\ w \in Writers /\ at \in [Writers -> Pcs]
      /\ at' = IF at[w] = "done" THEN at ELSE [at EXCEPT ![w] = "failed"]
      /\ UNCHANGED <<notify, row, log, op, notes, listening, joined, left, got>>
      /\ \A q \in pubs : q.of = w => q = p
      /\ at[w] = IF p.held THEN "delete" ELSE IF notify THEN "done" ELSE "publishing"
  BY FeedWriters DEF CheckFails, FeedInv, PubsOnce
<1>2. CASE p.held
  <2>1. at' = [at EXCEPT ![w] = "failed"] /\ UNCHANGED missed /\ at[w] = "delete"
    BY <1>1, <1>2 DEF CheckFails
  <2>2. pubs' = {q \in pubs : q.of # w}
    BY <1>1
  <2> HIDE DEF w
  <2> QED BY <1>1, <2>1, <2>2, FailsInv
<1>3. CASE ~p.held
  <2>1. missed' = missed \cup {w}
    BY <1>3 DEF CheckFails
  <2>2. /\ at' \in [Writers -> Pcs] /\ at'[w] = IF notify THEN "done" ELSE "failed"
        /\ \A v \in Writers \ {w} : at'[v] = at[v]
    BY <1>1, <1>3 DEF Pcs
  <2>3. /\ \A q \in pubs' : q.of \in Writers /\ q.of # w /\ q \in pubs
        /\ w \notin Range(notes) /\ \A c \in Clients : w \notin Range(got[c])
    BY <1>1, FeedWriters DEF FeedInv, NotesOnce, SentOnce
  <2> HIDE DEF w
  <2>4. FeedTypeOK'
    BY <1>1, <2>1, <2>2, <2>3 DEF FeedInv, FeedTypeOK
  <2>5. PubsOnce' /\ AskedOnce'
    BY <1>1, <2>2, <2>3 DEF FeedInv, PubsOnce, AskedOnce, Over
  <2>6. StayJoined' /\ RowGone' /\ Deleting'
    BY <1>1, <2>2, SameLog DEF FeedInv, StayJoined, Deleting, Direct
  <2>7. Committed' /\ GivenUp'
    BY <1>1, <2>1, <2>2, FeedWriters DEF FeedInv, FeedTypeOK, Committed, GivenUp
  <2>8. NotesOnce' /\ SentOnce'
    <3>1. \A v \in Range(notes) : v # w /\ v \in Writers
      BY <2>3, FeedWriters
    <3>2. \A c \in Clients : \A v \in Range(got[c]) : v # w /\ v \in Writers
      BY <2>3, FeedWriters
    <3>3. NotesOnce'
      BY <1>1, <2>2, <2>3, <3>1 DEF FeedInv, NotesOnce
    <3>4. SentOnce'
      BY <1>1, <2>2, <2>3, <3>2 DEF FeedInv, SentOnce
    <3> QED BY <3>3, <3>4
  <2>9. Heard'
    <3> SUFFICES ASSUME NEW v \in Range(log), op[v] # "DELETE", Published(v), v # w PROVE (OnItsWay(v))'
      BY <1>1, <2>1, SameLog, FeedWriters DEF Heard, Published
    <3>1. OnItsWay(v) /\ v \in Writers
      BY FeedWriters DEF FeedInv, Heard
    <3>2. \A q \in pubs : q.of = v => q \in pubs'
      BY <1>1 DEF w
    <3> QED BY <1>1, <3>1, <3>2, SameLog, StaysOnItsWay
  <2> QED BY <2>4, <2>5, <2>6, <2>7, <2>8, <2>9 DEF FeedInv
<1> QED BY <1>2, <1>3

LEMMA DeliverInv == ASSUME FeedInv, NEW p \in pubs, Deliver(p) PROVE FeedInv'
<1> DEFINE w == p.of
<1>1. /\ ~p.held /\ Over(p) /\ pubs' = pubs \ {p} /\ at' = [at EXCEPT ![w] = "done"]
      /\ got' = [c \in Clients |-> got[c] \o [i \in 1..p.hits[c] |-> w]]
      /\ UNCHANGED <<notify, row, log, op, notes, listening, missed, joined, left>>
  BY DEF Deliver, Goto
<1>2. /\ w \in Writers /\ at[w] \in {"done", "publishing"} /\ w \notin Range(notes)
      /\ (op[w] # "DELETE" => w \in Range(log))
      /\ \A q \in pubs : q.of = w => q = p
      /\ \A c \in Clients : w \notin Range(got[c])
      /\ p.hits \in [Clients -> Nat] /\ p.seen = Clients /\ p.asking \notin Clients
      /\ \A c \in Clients \ left : p.hits[c] <= 1
  <2>1. w \in Writers /\ (\A q \in pubs : q.of = w => q = p) /\ p.hits \in [Clients -> Nat]
    BY FeedWriters DEF FeedInv, PubsOnce, Publication
  <2>2. at[w] \in {"done", "publishing"} /\ (op[w] # "DELETE" => w \in Range(log))
    BY <1>1 DEF FeedInv, PubsOnce
  <2>3. w \notin Range(notes) /\ \A c \in Clients : w \notin Range(got[c])
    BY DEF FeedInv, NotesOnce, SentOnce
  <2>4. p.seen = Clients /\ p.asking \notin Clients /\ \A c \in Clients \ left : p.hits[c] <= 1
    BY <1>1, NoClientAssumption DEF FeedInv, AskedOnce, Over
  <2> QED BY <2>1, <2>2, <2>3, <2>4
<1>3. at' \in [Writers -> Pcs] /\ at'[w] = "done" /\ \A v \in Writers \ {w} : at'[v] = at[v]
  BY <1>1, <1>2, FeedWriters DEF Pcs
<1>4. \A q \in pubs' : q.of # w /\ q.of \in Writers /\ q \in pubs
  BY <1>1, <1>2, FeedWriters
<1> HIDE DEF w
<1>5. \A c \in Clients :
        /\ got'[c] \in Seq(Writers) /\ (c \notin left => IsInjective(got'[c]))
        /\ Range(got[c]) \subseteq Range(got'[c]) /\ Range(got'[c]) \subseteq Range(got[c]) \cup {w}
        /\ p.hits[c] > 0 => w \in Range(got'[c])
  <2> TAKE c \in Clients
  <2>1. got[c] \in Seq(Writers) /\ (c \notin left => IsInjective(got[c])) /\ p.hits[c] \in Nat
    BY <1>2, FeedWriters DEF FeedInv, SentOnce
  <2> DEFINE u == [i \in 1..p.hits[c] |-> w]
  <2>2. u \in Seq(Writers) /\ Len(u) = p.hits[c] /\ \A i \in 1..p.hits[c] : u[i] = w
    <3>1. u \in [1..p.hits[c] -> Writers]
      BY <1>2
    <3> QED BY <2>1, <3>1, SeqDef
  <2>3. got'[c] = got[c] \o u
    BY <1>1
  <2> HIDE DEF u
  <2>4. /\ got'[c] \in Seq(Writers)
        /\ Range(got[c]) \subseteq Range(got'[c]) /\ Range(got'[c]) \subseteq Range(got[c]) \cup {w}
        /\ p.hits[c] > 0 => w \in Range(got'[c])
        /\ p.hits[c] <= 1 /\ IsInjective(got[c]) /\ (p.hits[c] = 1 => w \notin Range(got[c])) => IsInjective(got'[c])
    <3> DEFINE s == got[c]
              n == p.hits[c]
    <3>1. w \in Writers /\ n \in Nat /\ s \in Seq(Writers)
      BY <1>2, <2>1
    <3>2. u \in Seq(Writers) /\ Len(u) = n /\ \A i \in 1..n : u[i] = w
      BY <2>2
    <3> HIDE DEF s, n
    <3>3. /\ s \o u \in Seq(Writers) /\ Range(s) \subseteq Range(s \o u) /\ Range(s \o u) \subseteq Range(s) \cup {w}
          /\ (n > 0 => w \in Range(s \o u))
          /\ n <= 1 /\ IsInjective(s) /\ (n = 1 => w \notin Range(s)) => IsInjective(s \o u)
      BY ONLY <3>1, <3>2, HitsAppended
    <3> QED BY <2>3, <3>3 DEF s, n
  <2> QED BY <1>2, <2>1, <2>4
<1>6. got' \in [Clients -> Seq(Writers)]
  BY <1>1, <1>5
<1>7. FeedTypeOK'
  BY <1>1, <1>3, <1>4, <1>6 DEF FeedInv, FeedTypeOK
<1>8. StayJoined' /\ RowGone' /\ Committed' /\ GivenUp' /\ Deleting' /\ NotesOnce' /\ PubsOnce' /\ AskedOnce'
  <2>1. \A v \in Range(log) \cup Range(notes) : v \in Writers
    BY FeedWriters
  <2>2. StayJoined' /\ RowGone' /\ Committed' /\ NotesOnce'
    BY <1>1, <1>2, <1>3, <1>4, <2>1, SameLog DEF FeedInv, StayJoined, Committed, NotesOnce
  <2>3. PubsOnce' /\ AskedOnce' /\ Deleting'
    BY <1>1, <1>3, <1>4 DEF FeedInv, PubsOnce, AskedOnce, Over, Deleting, Direct
  <2>4. GivenUp'
    BY <1>1, <1>2, <1>3 DEF FeedInv, FeedTypeOK, GivenUp
  <2> QED BY <2>2, <2>3, <2>4
<1>9. SentOnce'
  <2>1. \A c \in Clients : \A v \in Range(got'[c]) : v = w \/ (v \in Range(got[c]) /\ v # w /\ v \in Writers)
    BY <1>2, <1>5, FeedWriters
  <2>2. \A c \in Clients : \A v \in Range(got'[c]) :
          at'[v] = "done" /\ v \notin Range(notes) /\ (op[v] # "DELETE" => v \in Range(log))
    BY <1>2, <1>3, <2>1 DEF FeedInv, SentOnce
  <2>3. \A c \in Clients : \A v \in Range(got'[c]) : \A q \in pubs' : q.of # v
    BY <1>4, <2>1 DEF FeedInv, SentOnce
  <2> QED BY <1>1, <1>5, <2>2, <2>3 DEF SentOnce
<1>10. Heard'
  <2> SUFFICES ASSUME NEW v \in Range(log), op[v] # "DELETE", Published(v) PROVE (OnItsWay(v))'
    BY <1>1, SameLog, FeedWriters DEF Heard, Published
  <2>1. OnItsWay(v) /\ v \in Writers /\ Readers \cup Service \subseteq Clients
    BY FeedWriters, ClientsAssumption DEF FeedInv, Heard
  <2>2. \A c \in Clients : Range(got[c]) \subseteq Range(got'[c])
    BY <1>5
  <2>3. CASE v # w
    <3>1. \A q \in pubs : q.of = v => q \in pubs'
      BY <1>1, <2>3 DEF w
    <3> QED BY <1>1, <2>1, <2>2, <3>1, SameLog, StaysOnItsWay
  <2>4. CASE v = w
    <3>1. \A c \in (Readers \cup Service) \ left : Reaches(c, v) => p.hits[c] > 0 \/ v \in Range(got[c])
      BY <1>2, <2>1, <2>4 DEF OnItsWay, Hears
    <3>2. \A c \in (Readers \cup Service) \ left : Reaches(c, v) => v \in Range(got'[c])
      BY <1>2, <1>5, <2>1, <2>4, <3>1
    <3>3. \A c \in (Readers \cup Service) \ left' : (Reaches(c, v))' => v \in Range(got'[c])
      BY <1>1, <2>1, <3>2, SameLog
    <3> QED BY <3>3 DEF OnItsWay, Hears
  <2> QED BY <2>3, <2>4
<1> QED BY <1>7, <1>8, <1>9, <1>10 DEF FeedInv

(***************************************************************************)
(* Whatever the writers, losses of the listener, failing checks, deletions *)
(* and clients that come and go do: a change reaches a client that stays   *)
(* once at most, an INSERT or UPDATE only once it is committed, and every  *)
(* joined client that can read the row unless the change was given up or   *)
(* was too large to notify.  A handler that publishes itself answers with  *)
(* success only afterwards, and with an error after it has committed only  *)
(* when the publication was given up.                                      *)
(***************************************************************************)
THEOREM ChangesReachReadersOnce == FeedSpec => []ReadersHearOnce /\ []FeedTypeOK
<1>1. FeedInit => FeedInv
  <2> SUFFICES ASSUME FeedInit PROVE FeedInv
    OBVIOUS
  <2>1. /\ log \in Seq(Writers) /\ notes \in Seq(Writers) /\ got \in [Clients -> Seq(Writers)]
        /\ Range(log) = {} /\ Range(notes) = {} /\ IsInjective(notes)
        /\ \A c \in Clients : Range(got[c]) = {} /\ IsInjective(got[c])
    BY NoneOnce, EmptySeq DEF FeedInit
  <2>2. FeedTypeOK /\ StayJoined
    BY <2>1 DEF FeedInit, FeedTypeOK, StayJoined, Pcs
  <2>3. RowGone /\ Committed /\ GivenUp /\ Deleting /\ NotesOnce /\ PubsOnce /\ AskedOnce /\ SentOnce /\ Heard
    BY <2>1 DEF FeedInit, RowGone, Committed, GivenUp, Deleting, NotesOnce, PubsOnce, AskedOnce, SentOnce, Heard
  <2> QED BY <2>2, <2>3 DEF FeedInv
<1>2. FeedInv /\ [FeedNext]_feedVars => FeedInv'
  <2> SUFFICES ASSUME FeedInv, [FeedNext]_feedVars PROVE FeedInv'
    OBVIOUS
  <2>1. CASE \E w \in Writers : Prepare(w) \/ Mutate(w) \/ Delete(w) \/ Abort(w)
    BY <2>1, PrepareInv, MutateInv, DeleteInv, AbortInv
  <2>2. CASE Hear \/ Disconnect
    BY <2>2, HearInv, DisconnectInv
  <2>3. CASE Reconnected \/ \E c \in Clients : JoinFeed(c) \/ LeaveFeed(c)
    BY <2>3, FeedClientsInv
  <2>4. CASE \E p \in pubs : Answer(p) \/ CheckFails(p) \/ Deliver(p)
    BY <2>4, DeliverInv, CheckFailsInv, AnswerInv
  <2>5. CASE UNCHANGED feedVars
    BY <2>5, ClientsInv DEF feedVars, FeedInv, FeedTypeOK, StayJoined
  <2> QED BY <2>1, <2>2, <2>3, <2>4, <2>5 DEF FeedNext
<1>3. FeedInv => ReadersHearOnce
  <2> SUFFICES ASSUME FeedInv PROVE ReadersHearOnce
    OBVIOUS
  <2>1. DeliveredOnce
    BY DEF FeedInv, SentOnce, DeliveredOnce
  <2>2. ReadersHear
    BY NoneOnce DEF FeedInv, Heard, OnItsWay, ReadersHear, Quiet
  <2>3. AnswersFollow
    <3> SUFFICES ASSUME NEW w \in Range(log), Direct(w)
                 PROVE  /\ at[w] = "done" /\ op[w] # "DELETE" => Hears(w)
                        /\ at[w] = "failed" => w \in missed
      BY DEF AnswersFollow
    <3>1. at[w] = "failed" => w \in missed
      BY DEF FeedInv, Committed
    <3>2. ASSUME at[w] = "done", op[w] # "DELETE" PROVE Hears(w)
      <4>1. Published(w)
        BY <3>2 DEF FeedInv, GivenUp, Direct, Published
      <4>2. w \notin Range(notes) /\ \A p \in pubs : p.of # w
        BY <3>2 DEF FeedInv, NotesOnce, PubsOnce, Direct
      <4> QED BY <3>2, <4>1, <4>2 DEF FeedInv, Heard, OnItsWay
    <3> QED BY <3>1, <3>2
  <2> QED BY <2>1, <2>2, <2>3 DEF ReadersHearOnce
<1>4. FeedInv => FeedTypeOK
  BY DEF FeedInv
<1> QED BY <1>1, <1>2, <1>3, <1>4, PTL DEF FeedSpec

(***************************************************************************)
(* The hub: messages of one connection.                                    *)
(*                                                                         *)
(* Whatever expires or closes, the messages that share a promise are       *)
(* evaluated one at a time (InTurn).  That is all messages of a connection *)
(* as long as no heartbeat forgets its promise (OnePromise).               *)
(***************************************************************************)
HeapTypes ==
    /\ heap \in [Conns -> Seq(EntryType)] /\ clients \in [Conns -> Nat]
    /\ \A c \in Conns : clients[c] <= Len(heap[c])
QueueTypes == queue \in [Conns -> Seq(MessageType)] /\ gen \in [Conns -> Nat]

InTurn == \A c \in Conns : \A i, j \in DOMAIN queue[c] :
    i < j /\ queue[c][i].gen = queue[c][j].gen => queue[c][j].pc = "queued"

OnePromise ==
    /\ \A c \in Conns : \A i, j \in DOMAIN queue[c] : queue[c][i].gen = queue[c][j].gen
    /\ \A c \in Conns : c \in open => \A i \in DOMAIN queue[c] : queue[c][i].gen = gen[c]

HubInv == HeapTypes /\ QueueTypes /\ InTurn

LEMMA QueueType ==
  ASSUME HubInv, NEW c \in Conns
  PROVE  /\ queue[c] \in Seq(MessageType) /\ Len(queue[c]) \in Nat /\ DOMAIN queue[c] = 1..Len(queue[c])
         /\ \A i \in DOMAIN queue[c] : queue[c][i] \in MessageType
         /\ heap[c] \in Seq(EntryType) /\ Len(heap[c]) \in Nat /\ clients[c] \in Nat /\ clients[c] <= Len(heap[c])
         /\ gen[c] \in Nat
<1>1. queue[c] \in Seq(MessageType) /\ heap[c] \in Seq(EntryType) /\ clients[c] \in Nat /\ clients[c] <= Len(heap[c])
      /\ gen[c] \in Nat
  BY DEF HubInv, HeapTypes, QueueTypes
<1>2. Len(queue[c]) \in Nat /\ DOMAIN queue[c] = 1..Len(queue[c]) /\ Len(heap[c]) \in Nat
      /\ \A i \in DOMAIN queue[c] : queue[c][i] \in MessageType
  BY <1>1
<1> QED BY <1>1, <1>2

LEMMA RemovingOne ==
  ASSUME NEW S, NEW q \in Seq(S), NEW i \in 1..Len(q)
  PROVE  /\ RemoveAt(q, i) \in Seq(S) /\ Len(RemoveAt(q, i)) = Len(q) - 1
         /\ \A j \in 1..(Len(q) - 1) : RemoveAt(q, i)[j] = q[IF j < i THEN j ELSE j + 1]
<1> DEFINE f == SubSeq(q, 1, i - 1)
           l == SubSeq(q, i + 1, Len(q))
<1>1. Len(q) \in Nat /\ i \in 1..Len(q)
  OBVIOUS
<1>2. /\ f \in Seq(S) /\ Len(f) = i - 1 /\ \A j \in 1..(i - 1) : f[j] = q[j]
  BY <1>1
<1>3. /\ l \in Seq(S) /\ Len(l) = Len(q) - i /\ \A j \in 1..(Len(q) - i) : l[j] = q[i + j]
  BY <1>1
<1>4. RemoveAt(q, i) = f \o l
  BY DEF RemoveAt
<1> HIDE DEF f, l
<1>5. f \o l \in Seq(S) /\ Len(f \o l) = Len(q) - 1
  <2>1. f \o l \in Seq(S) /\ Len(f \o l) = Len(f) + Len(l)
    BY <1>2, <1>3, ConcatProperties
  <2>2. (i - 1) + (Len(q) - i) = Len(q) - 1
    BY <1>1
  <2> QED BY <1>2, <1>3, <2>1, <2>2
<1>6. ASSUME NEW j \in 1..(Len(q) - 1) PROVE (f \o l)[j] = q[IF j < i THEN j ELSE j + 1]
  <2>1. CASE j < i
    BY <1>1, <1>2, <1>3, <2>1
  <2>2. CASE ~(j < i)
    <3>1. (f \o l)[j] = l[j - (i - 1)] /\ j - (i - 1) \in 1..(Len(q) - i)
      BY <1>1, <1>2, <1>3, <2>2
    <3>2. l[j - (i - 1)] = q[i + (j - (i - 1))]
      BY <1>3, <3>1
    <3>3. i + (j - (i - 1)) = j + 1
      BY <1>1
    <3> QED BY <2>2, <3>1, <3>2, <3>3
  <2> QED BY <2>1, <2>2
<1> QED BY <1>4, <1>5, <1>6

(***************************************************************************)
(* What a step does to a connection's messages.                            *)
(***************************************************************************)
LEMMA Answering ==
  ASSUME HubInv, NEW c \in Conns, NEW i \in DOMAIN queue[c], Done(c, i), gen' \in [Conns -> Nat]
  PROVE  /\ QueueTypes' /\ InTurn'
         /\ \A d \in Conns : \A j \in DOMAIN queue'[d] : \E k \in DOMAIN queue[d] : queue'[d][j] = queue[d][k]
<1> DEFINE q == queue[c]
           r == RemoveAt(q, i)
<1>1. q \in Seq(MessageType) /\ Len(q) \in Nat /\ DOMAIN q = 1..Len(q) /\ i \in 1..Len(q)
  BY QueueType
<1>2. queue' = [queue EXCEPT ![c] = r]
  BY DEF Done
<1>3. /\ r \in Seq(MessageType) /\ Len(r) = Len(q) - 1
      /\ \A j \in 1..(Len(q) - 1) : r[j] = q[IF j < i THEN j ELSE j + 1]
  BY <1>1, RemovingOne
<1>4. DOMAIN r = 1..(Len(q) - 1)
  BY <1>3
<1> HIDE DEF r
<1>5. /\ queue' \in [Conns -> Seq(MessageType)] /\ queue'[c] = r
      /\ \A d \in Conns \ {c} : queue'[d] = queue[d]
  BY <1>2, <1>3 DEF HubInv, QueueTypes
<1>6. \A j \in DOMAIN r : (IF j < i THEN j ELSE j + 1) \in DOMAIN q /\ r[j] = q[IF j < i THEN j ELSE j + 1]
  BY <1>1, <1>3, <1>4
<1>7. \A j, k \in DOMAIN r : j < k => (IF j < i THEN j ELSE j + 1) < (IF k < i THEN k ELSE k + 1)
  BY <1>1, <1>4
<1>8. \A j, k \in DOMAIN q : j < k /\ q[j].gen = q[k].gen => q[k].pc = "queued"
  BY DEF HubInv, InTurn
<1> HIDE DEF q
<1>9. \A j, k \in DOMAIN r : j < k /\ r[j].gen = r[k].gen => r[k].pc = "queued"
  BY <1>6, <1>7, <1>8
<1>10. QueueTypes'
  BY <1>5 DEF QueueTypes
<1>11. InTurn'
  <2>1. ASSUME NEW d \in Conns, NEW j \in DOMAIN queue'[d], NEW k \in DOMAIN queue'[d],
               j < k, queue'[d][j].gen = queue'[d][k].gen
        PROVE  queue'[d][k].pc = "queued"
    <3>1. CASE d = c
      BY <1>5, <1>9, <2>1, <3>1
    <3>2. CASE d # c
      BY <1>5, <2>1, <3>2 DEF HubInv, InTurn
    <3> QED BY <3>1, <3>2
  <2> QED BY <2>1 DEF InTurn
<1>12. \A d \in Conns : \A j \in DOMAIN queue'[d] : \E k \in DOMAIN queue[d] : queue'[d][j] = queue[d][k]
  BY <1>5, <1>6 DEF q
<1> QED BY <1>10, <1>11, <1>12

LEMMA Sending ==
  ASSUME HubInv, NEW c \in Conns, NEW m \in MessageType, m.pc = "queued",
         queue' = [queue EXCEPT ![c] = Append(@, m)], UNCHANGED gen
  PROVE  /\ QueueTypes' /\ InTurn'
         /\ \A d \in Conns \ {c} : queue'[d] = queue[d]
         /\ DOMAIN queue'[c] = DOMAIN queue[c] \cup {Len(queue[c]) + 1}
         /\ queue'[c][Len(queue[c]) + 1] = m
         /\ \A j \in DOMAIN queue[c] : queue'[c][j] = queue[c][j]
<1> DEFINE q == queue[c]
           r == Append(q, m)
           n == Len(q) + 1
<1>1. q \in Seq(MessageType) /\ Len(q) \in Nat /\ DOMAIN q = 1..Len(q)
  BY QueueType
<1>2. /\ r \in Seq(MessageType) /\ Len(r) = n /\ r[n] = m /\ \A j \in 1..Len(q) : r[j] = q[j]
  BY <1>1, AppendProperties
<1>3. DOMAIN r = DOMAIN q \cup {n} /\ n \notin DOMAIN q /\ \A j \in DOMAIN q : j < n
  BY <1>1, <1>2
<1>4. \A j, k \in DOMAIN q : j < k /\ q[j].gen = q[k].gen => q[k].pc = "queued"
  BY DEF HubInv, InTurn
<1> HIDE DEF r
<1>5. /\ queue' \in [Conns -> Seq(MessageType)] /\ queue'[c] = r
      /\ \A d \in Conns \ {c} : queue'[d] = queue[d]
  BY <1>2 DEF HubInv, QueueTypes, r
<1>6. QueueTypes'
  BY <1>5 DEF HubInv, QueueTypes
<1> HIDE DEF q, n
<1>7. \A j, k \in DOMAIN r : j < k /\ r[j].gen = r[k].gen => r[k].pc = "queued"
  <2> TAKE j, k \in DOMAIN r
  <2>1. CASE k = n
    BY <1>2, <2>1
  <2>2. CASE k # n
    <3>1. k \in DOMAIN q /\ (j < k => j \in DOMAIN q)
      <4>1. k \in DOMAIN q /\ k < n /\ k \in Nat /\ n \in Nat
        BY <1>1, <1>3, <2>2 DEF n
      <4>2. j = n => ~(j < k)
        BY <4>1
      <4> QED BY <1>3, <4>1, <4>2
    <3> QED BY <1>1, <1>2, <1>4, <3>1
  <2> QED BY <2>1, <2>2
<1>8. InTurn'
  <2>1. ASSUME NEW d \in Conns, NEW j \in DOMAIN queue'[d], NEW k \in DOMAIN queue'[d],
               j < k, queue'[d][j].gen = queue'[d][k].gen
        PROVE  queue'[d][k].pc = "queued"
    <3>1. CASE d = c
      BY <1>5, <1>7, <2>1, <3>1
    <3>2. CASE d # c
      BY <1>5, <2>1, <3>2 DEF HubInv, InTurn
    <3> QED BY <3>1, <3>2
  <2> QED BY <2>1 DEF InTurn
<1> QED BY <1>1, <1>2, <1>3, <1>5, <1>6, <1>8 DEF q, n

\* The one that starts to wait is the first of its promise.
LEMMA Waiting ==
  ASSUME HubInv, NEW c \in Conns, NEW i \in DOMAIN queue[c], NEW ev, Turn(c, i, ev), Await(c, i), Ref(c) \in Nat,
         UNCHANGED gen
  PROVE  /\ QueueTypes' /\ InTurn'
         /\ \A d \in Conns : \A j \in DOMAIN queue'[d] : j \in DOMAIN queue[d] /\ queue'[d][j].gen = queue[d][j].gen
         /\ \A d \in Conns : \A j \in DOMAIN queue'[d] :
              queue'[d][j] = IF d = c /\ j = i THEN [queue[c][i] EXCEPT !.pc = "authorize", !.entry = Ref(c)]
                                              ELSE queue[d][j]
<1> DEFINE q == queue[c]
           x == [q[i] EXCEPT !.pc = "authorize", !.entry = Ref(c)]
           r == [q EXCEPT ![i] = x]
<1>1. q \in Seq(MessageType) /\ Len(q) \in Nat /\ DOMAIN q = 1..Len(q) /\ i \in 1..Len(q) /\ q[i] \in MessageType
  BY QueueType
<1>2. x \in MessageType /\ x.gen = q[i].gen
  BY <1>1 DEF MessageType
<1>3. queue' = [queue EXCEPT ![c] = r]
  BY DEF Await
<1> HIDE DEF x
<1>4. r \in Seq(MessageType) /\ Len(r) = Len(q) /\ r[i] = x /\ \A j \in 1..Len(q) : j # i => r[j] = q[j]
  BY <1>1, <1>2, ExceptSeq
<1>5. DOMAIN r = DOMAIN q /\ \A j \in DOMAIN q : r[j].gen = q[j].gen
  BY <1>1, <1>2, <1>4
<1>6. \A j, k \in DOMAIN q : j < k /\ q[j].gen = q[k].gen => q[k].pc = "queued"
  BY DEF HubInv, InTurn
<1>7. \A j \in DOMAIN q : j < i => q[j].gen # q[i].gen
  <2>1. \A j \in 1..(i - 1) : q[j].gen # q[i].gen
    BY DEF Turn
  <2> QED BY <1>1, <2>1
<1> HIDE DEF r
<1>8. /\ queue' \in [Conns -> Seq(MessageType)] /\ queue'[c] = r
      /\ \A d \in Conns \ {c} : queue'[d] = queue[d]
  BY <1>3, <1>4 DEF HubInv, QueueTypes
<1>9. QueueTypes'
  BY <1>8 DEF HubInv, QueueTypes
<1> HIDE DEF q
<1>10. \A j, k \in DOMAIN r : j < k /\ r[j].gen = r[k].gen => r[k].pc = "queued"
  <2> TAKE j, k \in DOMAIN r
  <2>1. CASE k = i
    BY <1>5, <1>7, <2>1
  <2>2. CASE k # i
    BY <1>1, <1>4, <1>5, <1>6, <2>2
  <2> QED BY <2>1, <2>2
<1>11. InTurn'
  <2>1. ASSUME NEW d \in Conns, NEW j \in DOMAIN queue'[d], NEW k \in DOMAIN queue'[d],
               j < k, queue'[d][j].gen = queue'[d][k].gen
        PROVE  queue'[d][k].pc = "queued"
    <3>1. CASE d = c
      BY <1>8, <1>10, <2>1, <3>1
    <3>2. CASE d # c
      BY <1>8, <2>1, <3>2 DEF HubInv, InTurn
    <3> QED BY <3>1, <3>2
  <2> QED BY <2>1 DEF InTurn
<1>12. ASSUME NEW d \in Conns, NEW j \in DOMAIN queue'[d]
       PROVE  queue'[d][j] = IF d = c /\ j = i THEN x ELSE queue[d][j]
  BY <1>1, <1>4, <1>5, <1>8 DEF q
<1> QED BY <1>5, <1>8, <1>9, <1>11, <1>12 DEF q, x

(***************************************************************************)
(* The client entries.                                                     *)
(***************************************************************************)
LEMMA HeapOf ==
  ASSUME HubInv, NEW c \in Conns
  PROVE  /\ Heap(c) \in Seq(EntryType) /\ Ref(c) \in 1..Len(Heap(c)) /\ Ref(c) \in Nat
         /\ Entry(c) \in EntryType /\ Entry(c) = Heap(c)[Ref(c)] /\ Len(heap[c]) <= Len(Heap(c))
<1>1. heap[c] \in Seq(EntryType) /\ Len(heap[c]) \in Nat /\ clients[c] \in Nat /\ clients[c] <= Len(heap[c])
  BY QueueType
<1>2. NewEntry \in EntryType
  BY DEF NewEntry, EntryType
<1>3. CASE clients[c] = 0
  <2>1. Heap(c) = Append(heap[c], NewEntry) /\ Ref(c) = Len(heap[c]) + 1
    BY <1>3 DEF Heap, Ref
  <2>2. Heap(c) \in Seq(EntryType) /\ Len(Heap(c)) = Len(heap[c]) + 1 /\ Heap(c)[Ref(c)] = NewEntry
    BY <1>1, <1>2, <2>1, AppendProperties
  <2> QED BY <1>1, <1>2, <2>1, <2>2 DEF Entry
<1>4. CASE clients[c] # 0
  <2>1. Heap(c) = heap[c] /\ Ref(c) = clients[c]
    BY <1>4 DEF Heap, Ref
  <2>2. Ref(c) \in 1..Len(heap[c])
    BY <1>1, <1>4, <2>1
  <2>3. heap[c][Ref(c)] \in EntryType
    BY <1>1, <2>2, ElementOfSeq
  <2> QED BY <1>1, <2>1, <2>2, <2>3 DEF Entry
<1> QED BY <1>3, <1>4

\* An entry is appended or changed in place, and the map refers to one there is.
LEMMA Heaping ==
  ASSUME HubInv, NEW c \in Conns, NEW h \in Seq(EntryType), NEW n \in Nat,
         heap' = [heap EXCEPT ![c] = h], clients' = [clients EXCEPT ![c] = n], n <= Len(h)
  PROVE  HeapTypes'
BY DEF HubInv, HeapTypes

LEMMA Fetching == ASSUME HubInv, NEW c \in Conns, Fetch(c) PROVE HeapTypes'
<1>1. PICK h \in Seq(EntryType), n \in Nat : h = Heap(c) /\ n = Ref(c) /\ n <= Len(h)
  <2>1. Len(Heap(c)) \in Nat
    BY HeapOf
  <2> QED BY <2>1, HeapOf
<1> QED BY <1>1, Heaping DEF Fetch

LEMMA FetchingSet == ASSUME HubInv, NEW c \in Conns, NEW x \in EntryType, FetchSet(c, x) PROVE HeapTypes'
<1>1. PICK g \in Seq(EntryType), n \in Nat : g = Heap(c) /\ n = Ref(c) /\ n \in 1..Len(g)
  BY HeapOf
<1>2. PICK h : h = [g EXCEPT ![n] = x]
  OBVIOUS
<1>3. h \in Seq(EntryType) /\ Len(h) = Len(g) /\ Len(g) \in Nat
  BY <1>1, <1>2, ExceptSeq
<1>4. n \in Nat /\ n <= Len(h)
  BY <1>1, <1>3
<1> QED BY <1>1, <1>2, <1>3, <1>4, Heaping DEF FetchSet

\* What a heartbeat or a join sets in the entry it kept across the await.
LEMMA Keeping ==
  ASSUME HubInv, NEW c \in Conns, NEW e, NEW x, e \in DOMAIN heap[c] => x \in EntryType,
         heap' = [heap EXCEPT ![c] = [heap[c] EXCEPT ![e] = x]], UNCHANGED clients
  PROVE  HeapTypes'
<1>1. heap[c] \in Seq(EntryType) /\ Len(heap[c]) \in Nat /\ DOMAIN heap[c] = 1..Len(heap[c])
      /\ clients[c] \in Nat /\ clients[c] <= Len(heap[c])
  BY QueueType
<1>2. PICK h : h = [heap[c] EXCEPT ![e] = x]
  OBVIOUS
<1>3. h \in Seq(EntryType) /\ Len(h) = Len(heap[c])
  <2>1. CASE e \in DOMAIN heap[c]
    BY <1>1, <1>2, <2>1, ExceptSeq
  <2>2. CASE e \notin DOMAIN heap[c]
    <3>1. heap[c] = [i \in 1..Len(heap[c]) |-> heap[c][i]]
      BY <1>1
    <3>2. h = [i \in 1..Len(heap[c]) |-> heap[c][i]]
      BY <1>1, <1>2, <2>2
    <3> QED BY <1>1, <3>1, <3>2
  <2> QED BY <2>1, <2>2
<1>4. clients' = [clients EXCEPT ![c] = clients[c]]
  BY DEF HubInv, HeapTypes
<1> QED BY <1>1, <1>2, <1>3, <1>4, Heaping

(***************************************************************************)
(* The actions.  No message of another promise appears in a queue.         *)
(***************************************************************************)
Kept == \A c \in Conns : \A j \in DOMAIN queue'[c] : \E k \in DOMAIN queue[c] : queue'[c][j].gen = queue[c][k].gen

LEMMA Answered ==
  ASSUME HubInv, NEW c \in Conns, NEW i \in DOMAIN queue[c], Done(c, i), HeapTypes', gen' \in [Conns -> Nat]
  PROVE  HubInv' /\ Kept
<1>1. /\ QueueTypes' /\ InTurn'
      /\ \A d \in Conns : \A j \in DOMAIN queue'[d] : \E k \in DOMAIN queue[d] : queue'[d][j] = queue[d][k]
  BY Answering
<1>2. Kept
  BY <1>1 DEF Kept
<1> QED BY <1>1, <1>2 DEF HubInv

LEMMA Awaiting ==
  ASSUME HubInv, NEW c \in Conns, NEW i \in DOMAIN queue[c], NEW ev, Turn(c, i, ev), Await(c, i), HeapTypes',
         UNCHANGED gen
  PROVE  HubInv' /\ Kept
<1>1. Ref(c) \in Nat
  BY HeapOf
<1>2. /\ QueueTypes' /\ InTurn'
      /\ \A d \in Conns : \A j \in DOMAIN queue'[d] : j \in DOMAIN queue[d] /\ queue'[d][j].gen = queue[d][j].gen
  BY <1>1, Waiting
<1>3. Kept
  BY <1>2 DEF Kept
<1> QED BY <1>2, <1>3 DEF HubInv

LEMMA SameHeap == ASSUME HubInv, UNCHANGED <<heap, clients>> PROVE HeapTypes'
BY DEF HubInv, HeapTypes

LEMMA Forgotten ==
  ASSUME HubInv, NEW c \in Conns, RemoveClient(c), UNCHANGED heap
  PROVE  HeapTypes' /\ gen' \in [Conns -> Nat] /\ \A d \in Conns \ {c} : gen'[d] = gen[d]
<1>1. clients' = [clients EXCEPT ![c] = 0] /\ gen' = [gen EXCEPT ![c] = @ + 1]
  BY DEF RemoveClient
<1>2. gen \in [Conns -> Nat] /\ \A d \in Conns : Len(heap[d]) \in Nat
  BY QueueType DEF HubInv, QueueTypes
<1>3. gen' \in [Conns -> Nat] /\ \A d \in Conns \ {c} : gen'[d] = gen[d]
  BY <1>1, <1>2
<1>4. HeapTypes'
  BY <1>1, <1>2 DEF HubInv, HeapTypes
<1> QED BY <1>3, <1>4

LEMMA ProcessInv ==
  ASSUME HubInv, NEW c \in Conns, NEW i \in DOMAIN queue[c], Process(c, i)
  PROVE  HubInv' /\ Kept /\ UNCHANGED <<open, gen>>
<1> DEFINE t == queue[c][i].topic
           k == queue[c][i].key
<1>1. gen \in [Conns -> Nat] /\ t \in Topics /\ k \in Keys \cup {NoKey}
  BY QueueType DEF HubInv, QueueTypes, MessageType
<1>2. Entry(c) \in EntryType
  BY HeapOf
<1>3. CASE Limited(c, i)
  BY <1>1, <1>3, SameHeap, Answered DEF Limited
<1>4. CASE JoinStart(c, i)
  BY <1>4, Fetching, Awaiting DEF JoinStart
<1>5. CASE Leave(c, i)
  <2>1. PICK x : x = [Entry(c) EXCEPT !.topics = @ \ {t}, !.keys[t] = NoKey]
    OBVIOUS
  <2>2. x \in EntryType
    BY <1>1, <1>2, <2>1 DEF EntryType
  <2>3. HeapTypes'
    BY <1>5, <2>1, <2>2, FetchingSet DEF Leave
  <2> QED BY <1>1, <1>5, <2>3, Answered DEF Leave
<1>6. CASE Broadcast(c, i)
  BY <1>1, <1>6, Fetching, Answered DEF Broadcast
<1>7. CASE Track(c, i)
  <2>1. PICK x : x = [Entry(c) EXCEPT !.keys[t] = k]
    OBVIOUS
  <2>2. x \in EntryType
    BY <1>1, <1>2, <2>1 DEF EntryType
  <2>3. HeapTypes'
    BY <1>7, <2>1, <2>2, FetchingSet, Fetching DEF Track
  <2> QED BY <1>1, <1>7, <2>3, Answered DEF Track
<1>8. CASE Untrack(c, i)
  <2>1. PICK x : x = [Entry(c) EXCEPT !.keys[t] = NoKey]
    OBVIOUS
  <2>2. x \in EntryType
    BY <1>1, <1>2, <2>1 DEF EntryType
  <2>3. HeapTypes'
    BY <1>8, <2>1, <2>2, FetchingSet, Fetching DEF Untrack
  <2> QED BY <1>1, <1>8, <2>3, Answered DEF Untrack
<1>9. CASE Heartbeat(c, i)
  <2>1. HeapTypes' /\ Turn(c, i, "heartbeat") /\ UNCHANGED <<open, gen>>
    BY <1>9, Fetching DEF Heartbeat
  <2>2. CASE Await(c, i)
    BY <2>1, <2>2, Awaiting
  <2>3. CASE Done(c, i)
    BY <1>1, <2>1, <2>3, Answered
  <2> QED BY <1>9, <2>2, <2>3, <2>1 DEF Heartbeat
<1> QED BY <1>3, <1>4, <1>5, <1>6, <1>7, <1>8, <1>9 DEF Process

LEMMA AuthorizedInv ==
  ASSUME HubInv, NEW c \in Conns, NEW i \in DOMAIN queue[c], Authorized(c, i)
  PROVE  HubInv' /\ Kept /\ UNCHANGED open /\ ("expire" \notin Kinds => UNCHANGED gen)
<1> DEFINE m == queue[c][i]
           t == m.topic
           k == m.key
           e == m.entry
<1>1. gen \in [Conns -> Nat] /\ t \in Topics /\ k \in Keys \cup {NoKey}
  BY QueueType DEF HubInv, QueueTypes, MessageType
<1>2. e \in DOMAIN heap[c] => heap[c][e] \in EntryType
  BY QueueType
<1>3. CASE JoinDenied(c, i)
  BY <1>1, <1>3, SameHeap, Answered DEF JoinDenied
<1>4. CASE JoinAccepted(c, i)
  <2>1. PICK x : x = Entered(heap[c][e], t, k)
    OBVIOUS
  <2>2. e \in DOMAIN heap[c] => x \in EntryType
    BY <1>1, <1>2, <2>1 DEF EntryType, Entered
  <2>3. UNCHANGED <<open, gen, clients>> /\ Done(c, i)
    BY <1>4 DEF JoinAccepted
  <2>4. heap' = [heap EXCEPT ![c][e] = x]
    BY <1>4, <2>1 DEF JoinAccepted
  <2>5. heap' = [heap EXCEPT ![c] = [heap[c] EXCEPT ![e] = x]]
    BY <2>4
  <2>6. HeapTypes'
    BY <2>2, <2>3, <2>5, Keeping
  <2> QED BY <1>1, <2>3, <2>6, Answered
<1>5. CASE HeartbeatValid(c, i)
  <2>1. PICK x : x = [heap[c][e] EXCEPT !.context = TRUE]
    OBVIOUS
  <2>2. e \in DOMAIN heap[c] => x \in EntryType
    BY <1>2, <2>1 DEF EntryType
  <2>3. heap' = [heap EXCEPT ![c] = [heap[c] EXCEPT ![e] = x]] /\ UNCHANGED <<open, gen, clients>> /\ Done(c, i)
    BY <1>5, <2>1 DEF HeartbeatValid
  <2>4. HeapTypes'
    BY <2>2, <2>3, Keeping
  <2> QED BY <1>1, <2>3, <2>4, Answered
<1>6. CASE HeartbeatInvalid(c, i)
  <2>1. Done(c, i) /\ UNCHANGED <<open, heap>> /\ "expire" \in Kinds
    BY <1>6 DEF HeartbeatInvalid
  <2>2. CASE RemoveClient(c)
    BY <2>1, <2>2, Forgotten, Answered
  <2>3. CASE UNCHANGED <<gen, clients, presence, told, knows>>
    BY <1>1, <2>1, <2>3, SameHeap, Answered
  <2> QED BY <1>6, <2>2, <2>3, <2>1 DEF HeartbeatInvalid
<1> QED BY <1>3, <1>4, <1>5, <1>6 DEF Authorized

LEMMA SendInv ==
  ASSUME HubInv, NEW c \in Conns, NEW ev \in Events, NEW t \in Topics, NEW k \in Keys \cup {NoKey},
         NEW token \in BOOLEAN, Send(c, ev, t, k, token)
  PROVE  HubInv' /\ (OnePromise => OnePromise')
<1>1. PICK m : m = [ev |-> ev, topic |-> t, key |-> k, token |-> token, gen |-> gen[c], pc |-> "queued", entry |-> 0]
  OBVIOUS
<1>2. m \in MessageType /\ m.pc = "queued" /\ m.gen = gen[c]
  BY <1>1, QueueType DEF MessageType
<1>3. /\ c \in open /\ queue' = [queue EXCEPT ![c] = Append(@, m)]
      /\ UNCHANGED <<open, gen, heap, clients, subscribed, presence, told, knows>>
  BY <1>1 DEF Send
<1>4. /\ QueueTypes' /\ InTurn'
      /\ \A d \in Conns \ {c} : queue'[d] = queue[d]
      /\ DOMAIN queue'[c] = DOMAIN queue[c] \cup {Len(queue[c]) + 1}
      /\ queue'[c][Len(queue[c]) + 1] = m
      /\ \A j \in DOMAIN queue[c] : queue'[c][j] = queue[c][j]
  BY <1>2, <1>3, Sending
<1>5. HubInv'
  BY <1>3, <1>4, SameHeap DEF HubInv
<1>6. ASSUME OnePromise PROVE OnePromise'
  <2>1. \A j \in DOMAIN queue'[c] : queue'[c][j].gen = gen[c]
    BY <1>2, <1>3, <1>4, <1>6 DEF OnePromise
  <2>2. \A d \in Conns : \A i, j \in DOMAIN queue'[d] : queue'[d][i].gen = queue'[d][j].gen
    BY <1>4, <1>6, <2>1 DEF OnePromise
  <2>3. \A d \in Conns : d \in open => \A i \in DOMAIN queue'[d] : queue'[d][i].gen = gen[d]
    BY <1>3, <1>4, <1>6, <2>1 DEF OnePromise
  <2> QED BY <1>3, <2>2, <2>3 DEF OnePromise
<1> QED BY <1>5, <1>6

LEMMA Promised ==
  ASSUME HubInv, OnePromise, Kept, open' \subseteq open, \A c \in Conns : c \in open' => gen'[c] = gen[c]
  PROVE  OnePromise'
<1>1. ASSUME NEW c \in Conns, NEW i \in DOMAIN queue'[c], NEW j \in DOMAIN queue'[c]
      PROVE  queue'[c][i].gen = queue'[c][j].gen /\ (c \in open' => queue'[c][i].gen = gen'[c])
  BY DEF OnePromise, Kept
<1> QED BY <1>1 DEF OnePromise

\* Nothing is sent or answered, and nobody's promise is forgotten but c's, who is gone.
LEMMA NothingSent ==
  ASSUME HubInv, HeapTypes', gen' \in [Conns -> Nat], UNCHANGED queue, open' \subseteq open,
         \A c \in Conns : c \in open' => gen'[c] = gen[c]
  PROVE  HubInv' /\ (OnePromise => OnePromise')
<1>1. QueueTypes'
  BY DEF HubInv, QueueTypes
<1>2. InTurn'
  BY DEF HubInv, InTurn
<1>3. Kept
  BY DEF Kept
<1>4. HubInv'
  BY <1>1, <1>2 DEF HubInv
<1> QED BY <1>3, <1>4, Promised

LEMMA CloseInv == ASSUME HubInv, NEW c \in Conns, Close(c) PROVE HubInv' /\ (OnePromise => OnePromise')
<1>1. HeapTypes' /\ gen' \in [Conns -> Nat] /\ \A d \in Conns \ {c} : gen'[d] = gen[d]
  BY Forgotten DEF Close
<1>2. open' = open \ {c} /\ UNCHANGED queue
  BY DEF Close
<1>3. open' \subseteq open /\ \A d \in Conns : d \in open' => gen'[d] = gen[d]
  BY <1>1, <1>2
<1> QED BY <1>1, <1>2, <1>3, NothingSent

LEMMA TimeInv ==
  ASSUME HubInv, UNCHANGED <<open, queue, gen, heap, clients>> PROVE HubInv' /\ (OnePromise => OnePromise')
<1>1. gen' \in [Conns -> Nat] /\ open' \subseteq open /\ \A c \in Conns : c \in open' => gen'[c] = gen[c]
  BY DEF HubInv, QueueTypes
<1>2. HeapTypes'
  BY SameHeap
<1> QED BY <1>1, <1>2, NothingSent

LEMMA HubInitInv == HubInit => HubInv /\ OnePromise
<1> SUFFICES ASSUME HubInit PROVE HubInv /\ OnePromise
  OBVIOUS
<1>1. \A c \in Conns : queue[c] = <<>> /\ DOMAIN queue[c] = {} /\ heap[c] = <<>> /\ Len(heap[c]) = 0 /\ clients[c] = 0
  BY DEF HubInit
<1>2. HeapTypes /\ QueueTypes
  BY <1>1 DEF HubInit, HeapTypes, QueueTypes
<1>3. InTurn /\ OnePromise
  BY <1>1 DEF InTurn, OnePromise
<1> QED BY <1>2, <1>3 DEF HubInv

LEMMA HubNextInv ==
  ASSUME HubInv, [HubNext]_hubVars
  PROVE  HubInv' /\ ("expire" \notin Kinds /\ OnePromise => OnePromise')
<1>1. CASE UNCHANGED hubVars
  BY <1>1, TimeInv DEF hubVars
<1>2. ASSUME NEW c \in Conns, Arrive(c) PROVE HubInv' /\ (OnePromise => OnePromise')
  <2>1. \A t \in Topics, k \in KeysOf[c] \cup {NoKey} : k \in Keys \cup {NoKey}
    BY KeysOfAssumption
  <2>2. PICK ev \in Events, t \in Topics, k \in Keys \cup {NoKey}, token \in BOOLEAN : Send(c, ev, t, k, token)
    BY <1>2, <2>1 DEF Arrive, Events
  <2> QED BY <2>2, SendInv
<1>3. ASSUME NEW c \in Conns, Serve(c) PROVE HubInv' /\ ("expire" \notin Kinds /\ OnePromise => OnePromise')
  <2>1. PICK i \in DOMAIN queue[c] : Process(c, i) \/ Authorized(c, i)
    BY <1>3 DEF Serve
  <2>2. HubInv' /\ Kept /\ UNCHANGED open /\ ("expire" \notin Kinds => UNCHANGED gen)
    BY <2>1, ProcessInv, AuthorizedInv
  <2> QED BY <2>2, Promised
<1>4. ASSUME NEW c \in Conns, Close(c) PROVE HubInv' /\ (OnePromise => OnePromise')
  BY <1>4, CloseInv
<1>5. CASE Ages \/ Sweep
  <2>1. UNCHANGED <<open, queue, gen, heap, clients>>
    BY <1>5 DEF Ages, Age, Sweep
  <2> QED BY <2>1, TimeInv
<1> QED BY <1>1, <1>2, <1>3, <1>4, <1>5 DEF HubNext

\* Whatever expires, closes or is denied, a message is evaluated only when those
\* that were chained before it on the same promise are done.
THEOREM PromisesRunInTurn == HubSpec => []InTurn
<1>1. HubInv => InTurn
  BY DEF HubInv
<1> QED BY <1>1, HubInitInv, HubNextInv, PTL DEF HubSpec

\* All messages of a client are serialised as long as no token that a heartbeat
\* presents has expired, for any connections, topics and keys: removeClient, which
\* that heartbeat calls, forgets the promise of a connection that may go on sending.
THEOREM MessagesAreSerialised ==
  ASSUME "expire" \notin Kinds
  PROVE  HubSpec => []Serialised
<1>1. HubInv /\ OnePromise => Serialised
  <2> SUFFICES ASSUME HubInv, OnePromise, NEW c \in Conns, NEW i \in DOMAIN queue[c], i > 1
               PROVE  queue[c][i].pc = "queued"
    BY DEF Serialised
  <2>1. 1 \in DOMAIN queue[c] /\ 1 < i
    BY QueueType
  <2> QED BY <2>1 DEF HubInv, InTurn, OnePromise
<1>2. HubInv /\ OnePromise /\ [HubNext]_hubVars => HubInv' /\ OnePromise'
  BY HubNextInv
<1> QED BY <1>1, <1>2, HubInitInv, PTL DEF HubSpec

(***************************************************************************)
(* Presence.  What is left of a sequence is in step with the places it is  *)
(* taken from, so a topic's presence may be looked at as the keys that     *)
(* each connection has in it (Has).                                        *)
(***************************************************************************)
\* The places have as many ranks as there are places, one each.
LEMMA RanksAreUnique ==
  ASSUME NEW n \in Nat, NEW I \in SUBSET (1..n)
  PROVE  /\ IsFiniteSet(I) /\ Cardinality(I) \in Nat
         /\ \A i \in I : Rank(I, i) \in 1..Cardinality(I)
         /\ \A i, j \in I : Rank(I, i) = Rank(I, j) => i = j
         /\ \A k \in 1..Cardinality(I) : \E i \in I : Rank(I, i) = k
<1>1. IsFiniteSet(I) /\ Cardinality(I) \in Nat
  <2>1. IsFiniteSet(1..n)
    BY FS_Interval
  <2> QED BY <2>1, FS_Subset, FS_CardinalityType
<1>2. ASSUME NEW i \in I PROVE Rank(I, i) \in 1..Cardinality(I)
  <2>1. PICK A : A = {j \in I : j <= i}
    OBVIOUS
  <2>2. A \in SUBSET I /\ A # {}
    BY <2>1
  <2>3. IsFiniteSet(A) /\ Cardinality(A) \in Nat /\ Cardinality(A) <= Cardinality(I) /\ Cardinality(A) # 0
    BY <1>1, <2>2, FS_Subset, FS_CardinalityType, FS_EmptySet
  <2> QED BY <1>1, <2>1, <2>3 DEF Rank
<1>3. ASSUME NEW i \in I, NEW j \in I, i < j PROVE Rank(I, i) # Rank(I, j)
  <2>1. PICK A, B : A = {h \in I : h <= i} /\ B = {h \in I : h <= j}
    OBVIOUS
  <2>2. A \in SUBSET B /\ j \in B \ A /\ B \in SUBSET I
    <3>1. i \in Int /\ j \in Int /\ (\A h \in I : h \in Int) /\ i < j
      BY <1>3
    <3>2. \A h \in I : h <= i => h <= j
      BY <3>1
    <3>3. j <= j /\ ~(j <= i)
      BY <3>1
    <3> QED BY <2>1, <3>2, <3>3
  <2>3. IsFiniteSet(B)
    BY <1>1, <2>2, FS_Subset
  <2>4. Cardinality(A) # Cardinality(B)
    BY <2>2, <2>3, FS_Subset
  <2> QED BY <2>1, <2>4 DEF Rank
<1>4. \A i, j \in I : Rank(I, i) = Rank(I, j) => i = j
  BY <1>3
<1>5. PICK r : r = [i \in I |-> Rank(I, i)]
  OBVIOUS
<1>6. PICK N : N = 1..Cardinality(I)
  OBVIOUS
<1>7. r \in Injection(I, N) /\ IsFiniteSet(N) /\ Cardinality(N) = Cardinality(I)
  <2>1. IsFiniteSet(N) /\ Cardinality(N) = Cardinality(I)
    BY <1>1, <1>6, FS_Interval
  <2> QED BY <1>2, <1>4, <1>5, <1>6, <2>1 DEF Injection, IsInjective
<1>8. r \in Surjection(I, N)
  BY <1>1, <1>7, FS_Injection
<1>9. \A k \in N : \E i \in I : Rank(I, i) = k
  BY <1>5, <1>8 DEF Surjection
<1> QED BY <1>1, <1>2, <1>4, <1>6, <1>9

\* Every place has its element, and every element its place.
LEMMA RemainingPlaces ==
  ASSUME NEW S, NEW P \in Seq(S), NEW I \in SUBSET DOMAIN P
  PROVE  /\ Remaining(P, I) \in Seq(S)
         /\ \E f \in [DOMAIN Remaining(P, I) -> I] :
              /\ \A k \in DOMAIN Remaining(P, I) : Remaining(P, I)[k] = P[f[k]]
              /\ \A k, l \in DOMAIN Remaining(P, I) : f[k] = f[l] => k = l
              /\ \A i \in I : \E k \in DOMAIN Remaining(P, I) : f[k] = i
<1>1. PICK n \in Nat : n = Len(P) /\ DOMAIN P = 1..n
  BY LenProperties
<1>2. PICK N : N = 1..Cardinality(I)
  OBVIOUS
<1>3. /\ \A i \in I : Rank(I, i) \in N
      /\ \A i, j \in I : Rank(I, i) = Rank(I, j) => i = j
      /\ \A k \in N : \E i \in I : Rank(I, i) = k
      /\ Cardinality(I) \in Nat
  BY <1>1, <1>2, RanksAreUnique
<1>4. PICK f : f = [k \in N |-> CHOOSE i \in I : Rank(I, i) = k]
  OBVIOUS
<1>5. \A k \in N : f[k] \in I /\ Rank(I, f[k]) = k
  BY <1>3, <1>4
<1>6. f \in [N -> I] /\ (\A k, l \in N : f[k] = f[l] => k = l) /\ \A i \in I : \E k \in N : f[k] = i
  <2>1. f \in [N -> I] /\ \A k, l \in N : f[k] = f[l] => k = l
    BY <1>4, <1>5
  <2>2. ASSUME NEW i \in I PROVE f[Rank(I, i)] = i
    BY <1>3, <1>5
  <2> QED BY <1>3, <2>1, <2>2
<1>7. Remaining(P, I) = [k \in N |-> P[f[k]]] /\ DOMAIN Remaining(P, I) = N
  BY <1>2, <1>4 DEF Remaining
<1>8. \A i \in I : P[i] \in S
  BY ElementOfSeq, LenProperties
<1>9. Remaining(P, I) \in Seq(S)
  <2>1. [k \in 1..Cardinality(I) |-> P[f[k]]] \in [1..Cardinality(I) -> S]
    BY <1>2, <1>6, <1>8
  <2> QED BY <1>2, <1>3, <1>7, <2>1, SeqDef
<1> QED BY <1>6, <1>7, <1>9

Member == [conn : Conns, key : Keys, stale : BOOLEAN]
Has(P, c, k) == \E i \in EntriesOf(P, c) : P[i].key = k
Single(P) == \A c \in Conns : \A i, j \in EntriesOf(P, c) : P[i].key = P[j].key => i = j
Fits(P) == P \in Seq(Member) /\ Single(P) /\ \A c \in Conns : Cardinality(EntriesOf(P, c)) <= MaxEntries

LEMMA EntriesFinite ==
  ASSUME NEW P \in Seq(Member), NEW c \in Conns
  PROVE  /\ DOMAIN P = 1..Len(P) /\ Len(P) \in Nat
         /\ EntriesOf(P, c) \in SUBSET DOMAIN P /\ IsFiniteSet(EntriesOf(P, c)) /\ Cardinality(EntriesOf(P, c)) \in Nat
<1>1. DOMAIN P = 1..Len(P) /\ Len(P) \in Nat
  BY LenProperties
<1>2. EntriesOf(P, c) \in SUBSET DOMAIN P
  BY DEF EntriesOf
<1>3. IsFiniteSet(1..Len(P))
  BY <1>1, FS_Interval
<1> QED BY <1>1, <1>2, <1>3, FS_Subset, FS_CardinalityType

LEMMA KeysHad ==
  ASSUME NEW P \in Seq(Member)
  PROVE  KeysIn(P) = {k \in Keys : \E c \in Conns : Has(P, c, k)}
<1>1. \A i \in DOMAIN P : P[i] \in Member
  BY ElementOfSeq, LenProperties
<1>2. \A i \in DOMAIN P : P[i].conn \in Conns /\ P[i].key \in Keys
  BY <1>1 DEF Member
<1>3. ASSUME NEW k \in KeysIn(P) PROVE k \in Keys /\ \E c \in Conns : Has(P, c, k)
  <2>1. PICK i \in DOMAIN P : k = P[i].key
    BY DEF KeysIn
  <2>2. Has(P, P[i].conn, k)
    BY <2>1 DEF Has, EntriesOf
  <2> QED BY <1>2, <2>1, <2>2
<1>4. ASSUME NEW k, NEW c \in Conns, Has(P, c, k) PROVE k \in KeysIn(P)
  BY <1>4 DEF Has, EntriesOf, KeysIn
<1> QED BY <1>3, <1>4

\* Taking entries away leaves the others as they are.
LEMMA Thinned ==
  ASSUME NEW P, Fits(P), NEW I \in SUBSET DOMAIN P
  PROVE  /\ Fits(Remaining(P, I))
         /\ \A c \in Conns : Cardinality(EntriesOf(Remaining(P, I), c)) <= Cardinality(EntriesOf(P, c) \cap I)
         /\ \A c \in Conns, k \in Keys : Has(Remaining(P, I), c, k) <=> \E i \in EntriesOf(P, c) \cap I : P[i].key = k
<1>1. PICK Q : Q = Remaining(P, I)
  OBVIOUS
<1>2. P \in Seq(Member) /\ Q \in Seq(Member)
  BY <1>1, RemainingPlaces DEF Fits
<1>3. PICK f \in [DOMAIN Q -> I] :
        /\ \A k \in DOMAIN Q : Q[k] = P[f[k]]
        /\ \A k, l \in DOMAIN Q : f[k] = f[l] => k = l
        /\ \A i \in I : \E k \in DOMAIN Q : f[k] = i
  BY <1>1, <1>2, RemainingPlaces
<1>4. ASSUME NEW c \in Conns PROVE \A k \in EntriesOf(Q, c) : k \in DOMAIN Q /\ f[k] \in EntriesOf(P, c) \cap I
  BY <1>3 DEF EntriesOf
<1>5. Single(Q)
  <2> SUFFICES ASSUME NEW c \in Conns, NEW i \in EntriesOf(Q, c), NEW j \in EntriesOf(Q, c), Q[i].key = Q[j].key
               PROVE  i = j
    BY DEF Single
  <2>1. f[i] \in EntriesOf(P, c) /\ f[j] \in EntriesOf(P, c) /\ P[f[i]].key = P[f[j]].key
    BY <1>3, <1>4
  <2>2. f[i] = f[j]
    BY <2>1 DEF Fits, Single
  <2> QED BY <1>3, <1>4, <2>2
<1>6. ASSUME NEW c \in Conns
      PROVE  /\ Cardinality(EntriesOf(Q, c)) <= Cardinality(EntriesOf(P, c) \cap I)
             /\ Cardinality(EntriesOf(Q, c)) <= MaxEntries
  <2>1. PICK A, B : A = EntriesOf(Q, c) /\ B = EntriesOf(P, c) \cap I
    OBVIOUS
  <2>2. PICK g : g = [k \in A |-> f[k]]
    OBVIOUS
  <2>3. g \in Injection(A, B)
    BY <1>3, <1>4, <2>1, <2>2 DEF Injection, IsInjective
  <2>4. IsFiniteSet(EntriesOf(P, c)) /\ Cardinality(EntriesOf(P, c)) \in Nat /\ B \in SUBSET EntriesOf(P, c)
    BY <1>2, <2>1, EntriesFinite
  <2>5. IsFiniteSet(B) /\ Cardinality(B) <= Cardinality(EntriesOf(P, c))
    BY <2>4, FS_Subset
  <2>6. IsFiniteSet(A) /\ Cardinality(A) <= Cardinality(B)
    BY <2>3, <2>5, FS_Injection
  <2>7. Cardinality(A) \in Nat /\ Cardinality(B) \in Nat
    BY <2>5, <2>6, FS_CardinalityType
  <2>8. Cardinality(EntriesOf(P, c)) <= MaxEntries /\ MaxEntries \in Nat
    BY MaxEntriesAssumption DEF Fits
  <2> QED BY <2>1, <2>4, <2>5, <2>6, <2>7, <2>8
<1>7. ASSUME NEW c \in Conns, NEW k \in Keys PROVE Has(Q, c, k) <=> \E i \in EntriesOf(P, c) \cap I : P[i].key = k
  <2>1. Has(Q, c, k) => \E i \in EntriesOf(P, c) \cap I : P[i].key = k
    BY <1>3, <1>4 DEF Has
  <2>2. ASSUME NEW i \in EntriesOf(P, c) \cap I, P[i].key = k PROVE Has(Q, c, k)
    <3>1. PICK j \in DOMAIN Q : f[j] = i
      BY <1>3
    <3>2. Q[j] = P[i]
      BY <1>3, <3>1
    <3> QED BY <2>2, <3>2 DEF Has, EntriesOf
  <2> QED BY <2>1, <2>2
<1>8. Fits(Q)
  BY <1>2, <1>5, <1>6 DEF Fits
<1> QED BY <1>1, <1>6, <1>7, <1>8

\* The connection's own entry of that key goes, and nothing else.
LEMMA WithoutOne ==
  ASSUME NEW P, Fits(P), NEW c \in Conns, NEW k
  PROVE  /\ Fits(Without(P, c, k))
         /\ \A d \in Conns, l \in Keys : Has(Without(P, c, k), d, l) <=> Has(P, d, l) /\ ~(d = c /\ l = k)
<1>1. PICK I \in SUBSET DOMAIN P : I = {i \in DOMAIN P : ~(P[i].conn = c /\ P[i].key = k)}
  OBVIOUS
<1>2. Without(P, c, k) = Remaining(P, I)
  BY <1>1 DEF Without
<1>3. ASSUME NEW d \in Conns, NEW l \in Keys
      PROVE  (\E i \in EntriesOf(P, d) \cap I : P[i].key = l) <=> Has(P, d, l) /\ ~(d = c /\ l = k)
  BY <1>1 DEF Has, EntriesOf
<1> QED BY <1>2, <1>3, Thinned

\* Where there is room no entry makes room; an entry that does is the connection's own.
LEMMA EvictOne ==
  ASSUME NEW P, Fits(P), NEW c \in Conns
  PROVE  /\ Fits(Evict(P, c)) /\ Cardinality(EntriesOf(Evict(P, c), c)) < MaxEntries
         /\ Cardinality(EntriesOf(P, c)) < MaxEntries => Evict(P, c) = P
         /\ \A d \in Conns, l \in Keys : Has(Evict(P, c), d, l) => Has(P, d, l)
         /\ \A d \in Conns, l \in Keys : d # c /\ Has(P, d, l) => Has(Evict(P, c), d, l)
<1>1. PICK own : own = EntriesOf(P, c)
  OBVIOUS
<1>2. own \in SUBSET DOMAIN P /\ IsFiniteSet(own) /\ Cardinality(own) \in Nat /\ Cardinality(own) <= MaxEntries
      /\ DOMAIN P = 1..Len(P) /\ Len(P) \in Nat /\ MaxEntries \in Nat /\ MaxEntries # 0
  BY <1>1, EntriesFinite, MaxEntriesAssumption DEF Fits
<1>3. CASE Cardinality(own) < MaxEntries
  <2>1. Evict(P, c) = P
    BY <1>1, <1>3 DEF Evict
  <2> QED BY <1>1, <1>3, <2>1
<1>4. CASE ~(Cardinality(own) < MaxEntries)
  <2>1. PICK x : x = CHOOSE i \in own : \A j \in own : i <= j
    OBVIOUS
  <2>2. x \in own
    <3>1. own # {}
      BY <1>2, <1>4, FS_EmptySet
    <3>2. PICK i \in own : Rank(own, i) = 1
      <4>1. own \in SUBSET (1..Len(P)) /\ 1 \in 1..Cardinality(own)
        BY <1>2, <3>1, FS_EmptySet
      <4> QED BY <1>2, <4>1, RanksAreUnique
    <3>3. PICK A : A = {j \in own : j <= i}
      OBVIOUS
    <3>4. Cardinality(A) = 1 /\ A \in SUBSET own
      BY <3>2, <3>3 DEF Rank
    <3>5. PICK y : A = {y}
      BY <1>2, <3>4, FS_Subset, FS_Singleton
    <3>6. \A j \in own : j \in Nat
      BY <1>2
    <3>7. i \in A
      BY <3>3, <3>6
    <3>8. \A j \in own : j <= i => j = i
      BY <3>3, <3>5, <3>7
    <3>9. \A j \in own : i <= j
      BY <3>6, <3>8
    <3> QED BY <2>1, <3>9
  <2>3. PICK I \in SUBSET DOMAIN P : I = DOMAIN P \ {x}
    OBVIOUS
  <2>4. Evict(P, c) = Remaining(P, I)
    BY <1>1, <1>4, <2>1, <2>3 DEF Evict
  <2>5. PICK Q : Q = Remaining(P, I)
    OBVIOUS
  <2>6. /\ Fits(Q) /\ Cardinality(EntriesOf(Q, c)) <= Cardinality(own \cap I)
        /\ \A d \in Conns, l \in Keys : Has(Q, d, l) <=> \E i \in EntriesOf(P, d) \cap I : P[i].key = l
    BY <1>1, <2>5, Thinned
  <2>7. own \cap I = own \ {x}
    BY <1>2, <2>3
  <2>8. Cardinality(own \cap I) = Cardinality(own) - 1
    BY <1>2, <2>2, <2>7, FS_RemoveElement
  <2>9. Cardinality(EntriesOf(Q, c)) \in Nat
    BY <2>6, EntriesFinite DEF Fits
  <2>10. Cardinality(EntriesOf(Q, c)) < MaxEntries
    BY <1>2, <2>6, <2>8, <2>9
  <2>11. ASSUME NEW d \in Conns, d # c PROVE EntriesOf(P, d) \cap I = EntriesOf(P, d)
    BY <1>1, <2>2, <2>3, <2>11 DEF EntriesOf
  <2>12. \A d \in Conns, l \in Keys : Has(Q, d, l) => Has(P, d, l)
    BY <2>6 DEF Has
  <2>13. \A d \in Conns, l \in Keys : d # c /\ Has(P, d, l) => Has(Q, d, l)
    BY <2>6, <2>11 DEF Has
  <2> QED BY <1>1, <1>4, <2>4, <2>5, <2>6, <2>10, <2>12, <2>13
<1> QED BY <1>3, <1>4

LEMMA AppendedOne ==
  ASSUME NEW P, Fits(P), NEW e \in Member, Cardinality(EntriesOf(P, e.conn)) < MaxEntries, ~Has(P, e.conn, e.key)
  PROVE  /\ Fits(Append(P, e))
         /\ \A d \in Conns, l \in Keys : Has(Append(P, e), d, l) <=> Has(P, d, l) \/ (d = e.conn /\ l = e.key)
<1>1. PICK Q, n : Q = Append(P, e) /\ n = Len(P) + 1
  OBVIOUS
<1>2. P \in Seq(Member) /\ Len(P) \in Nat /\ DOMAIN P = 1..Len(P)
  BY LenProperties DEF Fits
<1>3. Q \in Seq(Member) /\ Len(Q) = n /\ Q[n] = e /\ \A i \in 1..Len(P) : Q[i] = P[i]
  BY <1>1, <1>2, AppendProperties
<1>4. DOMAIN Q = DOMAIN P \cup {n} /\ n \notin DOMAIN P /\ \A i \in DOMAIN P : Q[i] = P[i]
  BY <1>1, <1>2, <1>3
<1>5. e.conn \in Conns /\ e.key \in Keys
  BY DEF Member
<1>6. \A d \in Conns : EntriesOf(Q, d) = IF d = e.conn THEN EntriesOf(P, d) \cup {n} ELSE EntriesOf(P, d)
  BY <1>3, <1>4 DEF EntriesOf
<1>7. \A d \in Conns, l \in Keys : Has(Q, d, l) <=> Has(P, d, l) \/ (d = e.conn /\ l = e.key)
  BY <1>3, <1>4 DEF Has, EntriesOf
<1>8. Single(Q)
  <2> SUFFICES ASSUME NEW d \in Conns, NEW i \in EntriesOf(Q, d), NEW j \in EntriesOf(Q, d), Q[i].key = Q[j].key
               PROVE  i = j
    BY DEF Single
  <2>1. CASE i # n /\ j # n
    <3>1. i \in EntriesOf(P, d) /\ j \in EntriesOf(P, d) /\ P[i].key = P[j].key
      BY <1>4, <2>1 DEF EntriesOf
    <3> QED BY <3>1 DEF Fits, Single
  <2>2. \A h \in EntriesOf(Q, d) : h # n => Q[h].key # e.key \/ d # e.conn
    BY <1>4 DEF Has, EntriesOf
  <2>3. n \in EntriesOf(Q, d) => d = e.conn
    BY <1>3 DEF EntriesOf
  <2> QED BY <1>3, <2>1, <2>2, <2>3
<1>9. ASSUME NEW d \in Conns PROVE Cardinality(EntriesOf(Q, d)) <= MaxEntries
  <2>1. IsFiniteSet(EntriesOf(P, d)) /\ Cardinality(EntriesOf(P, d)) \in Nat /\ n \notin EntriesOf(P, d)
        /\ Cardinality(EntriesOf(P, d)) <= MaxEntries /\ MaxEntries \in Nat
    BY <1>2, <1>4, EntriesFinite, MaxEntriesAssumption DEF EntriesOf, Fits
  <2>2. Cardinality(EntriesOf(P, d) \cup {n}) = Cardinality(EntriesOf(P, d)) + 1
    BY <2>1, FS_AddElement
  <2> QED BY <1>6, <2>1, <2>2
<1> QED BY <1>1, <1>3, <1>7, <1>8, <1>9 DEF Fits

\* The keys a connection has fit its cap, so that none of them has to make room.
Roomy(c) == Cardinality(KeysOf[c]) <= MaxEntries
Own(P) == \A c \in Conns, k \in Keys : Has(P, c, k) => k \in KeysOf[c]

\* Another key of the connection may be gone, unless it has room for all of them.
LEMMA TrackedOne ==
  ASSUME NEW P, Fits(P), NEW c \in Conns, NEW k \in Keys
  PROVE  /\ Fits(Tracked(P, c, k)) /\ Has(Tracked(P, c, k), c, k)
         /\ \A d \in Conns, l \in Keys : Has(Tracked(P, c, k), d, l) => Has(P, d, l) \/ (d = c /\ l = k)
         /\ \A d \in Conns, l \in Keys : Has(P, d, l) /\ (d # c \/ (Own(P) /\ k \in KeysOf[c] /\ Roomy(c)))
                                            => Has(Tracked(P, c, k), d, l)
<1>1. PICK W : W = Without(P, c, k)
  OBVIOUS
<1>2. Fits(W) /\ \A d \in Conns, l \in Keys : Has(W, d, l) <=> Has(P, d, l) /\ ~(d = c /\ l = k)
  BY <1>1, WithoutOne
<1>3. PICK V : V = Evict(W, c)
  OBVIOUS
<1>4. /\ Fits(V) /\ Cardinality(EntriesOf(V, c)) < MaxEntries
      /\ Cardinality(EntriesOf(W, c)) < MaxEntries => V = W
      /\ \A d \in Conns, l \in Keys : Has(V, d, l) => Has(W, d, l)
      /\ \A d \in Conns, l \in Keys : d # c /\ Has(W, d, l) => Has(V, d, l)
  BY <1>2, <1>3, EvictOne
<1>5. PICK e \in Member : e = [conn |-> c, key |-> k, stale |-> FALSE]
  BY DEF Member
<1>6. PICK Q : Q = Append(V, e)
  OBVIOUS
<1>7. Tracked(P, c, k) = Q
  BY <1>1, <1>3, <1>5, <1>6 DEF Tracked
<1>8. Fits(Q) /\ \A d \in Conns, l \in Keys : Has(Q, d, l) <=> Has(V, d, l) \/ (d = c /\ l = k)
  <2>1. e.conn = c /\ e.key = k
    BY <1>5
  <2>2. Cardinality(EntriesOf(V, e.conn)) < MaxEntries
    BY <1>4, <2>1
  <2>3. ~Has(V, e.conn, e.key)
    BY <1>2, <1>4, <2>1
  <2>4. \A d \in Conns, l \in Keys : Has(Append(V, e), d, l) <=> Has(V, d, l) \/ (d = e.conn /\ l = e.key)
    BY <1>4, <2>2, <2>3, AppendedOne
  <2>5. Fits(Append(V, e))
    BY <1>4, <2>2, <2>3, AppendedOne
  <2> QED BY <1>6, <2>1, <2>4, <2>5
<1>9. ASSUME Own(P), k \in KeysOf[c], Roomy(c) PROVE Cardinality(EntriesOf(W, c)) < MaxEntries
  <2>1. PICK A, B : A = EntriesOf(W, c) /\ B = KeysOf[c] \ {k}
    OBVIOUS
  <2>2. PICK g : g = [i \in A |-> W[i].key]
    OBVIOUS
  <2>3. \A i \in A : W[i].key \in B
    <3>1. \A i \in A : Has(W, c, W[i].key) /\ W[i].key \in Keys
      <4>1. \A i \in DOMAIN W : W[i] \in Member
        BY <1>2, ElementOfSeq, LenProperties DEF Fits
      <4>2. \A i \in A : i \in DOMAIN W /\ W[i].key \in Keys
        BY <2>1, <4>1 DEF EntriesOf, Member
      <4> QED BY <2>1, <4>2 DEF Has
    <3> QED BY <1>2, <1>9, <2>1, <3>1 DEF Own
  <2>4. g \in Injection(A, B)
    BY <1>2, <2>1, <2>2, <2>3 DEF Injection, IsInjective, Fits, Single
  <2>5. IsFiniteSet(KeysOf[c]) /\ Cardinality(KeysOf[c]) \in Nat
    BY KeysOfAssumption, FS_CardinalityType
  <2>6. IsFiniteSet(B) /\ Cardinality(B) = Cardinality(KeysOf[c]) - 1
    BY <1>9, <2>1, <2>5, FS_RemoveElement
  <2>7. Cardinality(A) <= Cardinality(B) /\ Cardinality(A) \in Nat
    BY <2>4, <2>6, FS_Injection, FS_CardinalityType
  <2>8. MaxEntries \in Nat /\ Cardinality(KeysOf[c]) <= MaxEntries
    BY <1>9, MaxEntriesAssumption DEF Roomy
  <2> QED BY <2>1, <2>5, <2>6, <2>7, <2>8
<1> QED BY <1>2, <1>4, <1>7, <1>8, <1>9

\* New marks change nobody's keys.
LEMMA Marked ==
  ASSUME NEW P, Fits(P), NEW Q \in Seq(Member), DOMAIN Q = DOMAIN P,
         \A i \in DOMAIN P : Q[i].conn = P[i].conn /\ Q[i].key = P[i].key
  PROVE  Fits(Q) /\ \A c \in Conns, k \in Keys : Has(Q, c, k) <=> Has(P, c, k)
<1>1. \A c \in Conns : EntriesOf(Q, c) = EntriesOf(P, c)
  BY DEF EntriesOf
<1>2. \A c \in Conns, k \in Keys : Has(Q, c, k) <=> Has(P, c, k)
  BY <1>1 DEF Has, EntriesOf
<1>3. Single(Q)
  BY <1>1 DEF Fits, Single, EntriesOf
<1> QED BY <1>1, <1>2, <1>3 DEF Fits

(***************************************************************************)
(* The entries in the clients map, and what the messages carry.            *)
(***************************************************************************)
\* c's entry becomes x, and the other connections keep theirs.
Only(c, x) == \A d \in Conns : Entry(d)' = (IF d = c THEN x ELSE Entry(d)) /\ Len(heap'[d]) >= Len(heap[d])
\* No entry changes but for whether it has a context.
Same == \A d \in Conns :
    Entry(d)'.topics = Entry(d).topics /\ Entry(d)'.keys = Entry(d).keys /\ Len(heap'[d]) >= Len(heap[d])

LEMMA EntryIs ==
  ASSUME HubInv, NEW c \in Conns
  PROVE  /\ Entry(c) = IF clients[c] = 0 THEN NewEntry ELSE heap[c][clients[c]]
         /\ Entry(c) \in EntryType
         /\ \A t \in Topics : Joined(c, t) <=> t \in Entry(c).topics
<1>1. heap[c] \in Seq(EntryType) /\ NewEntry \in EntryType
  BY QueueType DEF NewEntry, EntryType
<1>2. Append(heap[c], NewEntry)[Len(heap[c]) + 1] = NewEntry
  BY <1>1, AppendProperties
<1>3. Entry(c) = IF clients[c] = 0 THEN NewEntry ELSE heap[c][clients[c]]
  BY <1>2 DEF Entry, Heap, Ref
<1>4. NewEntry.topics = {}
  BY DEF NewEntry
<1> QED BY <1>3, <1>4, HeapOf DEF Joined

\* The same of the next state.
LEMMA EntryNext ==
  ASSUME HubInv', NEW c \in Conns
  PROVE  /\ Entry(c)' = IF clients'[c] = 0 THEN NewEntry ELSE heap'[c][clients'[c]]
         /\ \A t \in Topics : Joined(c, t)' <=> t \in Entry(c)'.topics
<1>1. heap'[c] \in Seq(EntryType) /\ NewEntry \in EntryType
  BY DEF NewEntry, EntryType, HubInv, HeapTypes
<1>2. Append(heap'[c], NewEntry)[Len(heap'[c]) + 1] = NewEntry
  BY <1>1, AppendProperties
<1>3. Entry(c)' = IF clients'[c] = 0 THEN NewEntry ELSE heap'[c][clients'[c]]
  BY <1>2 DEF Entry, Heap, Ref
<1>4. NewEntry.topics = {}
  BY DEF NewEntry
<1> QED BY <1>3, <1>4 DEF Joined

LEMMA EntryBecomes ==
  ASSUME HubInv, HubInv', NEW c \in Conns, NEW h \in Seq(EntryType), NEW n \in 1..Len(h), Len(h) >= Len(heap[c]),
         heap' = [heap EXCEPT ![c] = h], clients' = [clients EXCEPT ![c] = n]
  PROVE  Only(c, h[n])
<1>1. heap' = [d \in Conns |-> IF d = c THEN h ELSE heap[d]] /\ clients' = [d \in Conns |-> IF d = c THEN n ELSE clients[d]]
  BY DEF HubInv, HeapTypes
<1>2. \A d \in Conns : Len(heap[d]) \in Nat
  BY QueueType
<1> QED BY <1>1, <1>2, EntryIs, EntryNext DEF Only

LEMMA FetchOnly ==
  ASSUME HubInv, HubInv', NEW c \in Conns, Fetch(c)
  PROVE  Same /\ clients' = [clients EXCEPT ![c] = Ref(c)] /\ Ref(c) \in 1..Len(heap'[c])
<1>1. PICK h, n : h = Heap(c) /\ n = Ref(c)
  OBVIOUS
<1>2. h \in Seq(EntryType) /\ n \in 1..Len(h) /\ h[n] = Entry(c) /\ Len(h) >= Len(heap[c])
  <2>1. Len(h) \in Nat /\ Len(heap[c]) \in Nat
    BY <1>1, HeapOf, QueueType, LenProperties
  <2> QED BY <1>1, <2>1, HeapOf
<1>3. heap' = [heap EXCEPT ![c] = h] /\ clients' = [clients EXCEPT ![c] = n]
  BY <1>1 DEF Fetch
<1>4. Only(c, h[n])
  BY <1>2, <1>3, EntryBecomes
<1>5. heap'[c] = h
  BY <1>3 DEF HubInv, HeapTypes
<1> QED BY <1>1, <1>2, <1>3, <1>4, <1>5 DEF Only, Same

LEMMA FetchSetOnly ==
  ASSUME HubInv, HubInv', NEW c \in Conns, NEW x \in EntryType, FetchSet(c, x)
  PROVE  Only(c, x) /\ clients' = [clients EXCEPT ![c] = Ref(c)] /\ Ref(c) \in 1..Len(heap'[c])
<1>1. PICK g, n : g = Heap(c) /\ n = Ref(c)
  OBVIOUS
<1>2. g \in Seq(EntryType) /\ n \in 1..Len(g) /\ Len(g) >= Len(heap[c]) /\ Len(g) \in Nat
  <2>1. Len(g) \in Nat /\ Len(heap[c]) \in Nat
    BY <1>1, HeapOf, QueueType, LenProperties
  <2> QED BY <1>1, <2>1, HeapOf
<1>3. PICK h : h = [g EXCEPT ![n] = x]
  OBVIOUS
<1>4. h \in Seq(EntryType) /\ Len(h) = Len(g) /\ h[n] = x
  BY <1>2, <1>3, ExceptSeq
<1>5. heap' = [heap EXCEPT ![c] = h] /\ clients' = [clients EXCEPT ![c] = n]
  BY <1>1, <1>3 DEF FetchSet
<1>6. n \in 1..Len(h) /\ Len(h) >= Len(heap[c])
  BY <1>2, <1>4
<1>7. Only(c, h[n])
  BY <1>4, <1>5, <1>6, EntryBecomes
<1>8. heap'[c] = h
  BY <1>5 DEF HubInv, HeapTypes
<1> QED BY <1>1, <1>4, <1>5, <1>6, <1>7, <1>8

LEMMA KeepingOnly ==
  ASSUME HubInv, HubInv', NEW c \in Conns, NEW e \in 1..Len(heap[c]), NEW x \in EntryType,
         heap' = [heap EXCEPT ![c] = [heap[c] EXCEPT ![e] = x]], UNCHANGED clients
  PROVE  Only(c, IF e = clients[c] THEN x ELSE Entry(c))
<1>1. PICK h : h = [heap[c] EXCEPT ![e] = x]
  OBVIOUS
<1>2. h \in Seq(EntryType) /\ Len(h) = Len(heap[c]) /\ \A j \in 1..Len(heap[c]) : h[j] = IF j = e THEN x ELSE heap[c][j]
  BY <1>1, QueueType, ExceptSeq
<1>3. heap' = [d \in Conns |-> IF d = c THEN h ELSE heap[d]]
  BY <1>1 DEF HubInv, HeapTypes
<1>4. \A d \in Conns : Len(heap[d]) \in Nat /\ clients[d] \in Nat /\ clients[d] <= Len(heap[d])
  BY QueueType
<1>5. ASSUME NEW d \in Conns
      PROVE  Entry(d)' = (IF d = c /\ e = clients[c] THEN x ELSE Entry(d)) /\ Len(heap'[d]) >= Len(heap[d])
  <2>1. Entry(d)' = IF clients[d] = 0 THEN NewEntry ELSE heap'[d][clients[d]]
    BY EntryNext
  <2>2. Entry(d) = IF clients[d] = 0 THEN NewEntry ELSE heap[d][clients[d]]
    BY EntryIs
  <2>3. Len(heap'[d]) >= Len(heap[d])
    BY <1>2, <1>3, <1>4
  <2>4. CASE d # c
    BY <1>3, <2>1, <2>2, <2>3, <2>4
  <2>5. CASE d = c /\ clients[c] # 0
    <3>1. clients[c] \in 1..Len(heap[c])
      BY <1>4, <2>5
    <3> QED BY <1>2, <1>3, <2>1, <2>2, <2>3, <2>5, <3>1
  <2>6. CASE d = c /\ clients[c] = 0
    BY <2>1, <2>2, <2>3, <2>6
  <2> QED BY <2>4, <2>5, <2>6
<1> QED BY <1>5 DEF Only

LEMMA ForgottenOnly ==
  ASSUME HubInv, HubInv', NEW c \in Conns, clients' = [clients EXCEPT ![c] = 0], UNCHANGED heap
  PROVE  Only(c, NewEntry)
<1>1. clients' = [d \in Conns |-> IF d = c THEN 0 ELSE clients[d]]
  BY DEF HubInv, HeapTypes
<1>2. \A d \in Conns : Len(heap[d]) \in Nat
  BY QueueType
<1> QED BY <1>1, <1>2, EntryIs, EntryNext DEF Only

LEMMA NoneOnly == ASSUME HubInv, HubInv', UNCHANGED <<heap, clients>> PROVE Same
<1>1. \A d \in Conns : Len(heap[d]) \in Nat
  BY QueueType
<1> QED BY <1>1, EntryIs, EntryNext DEF Same

\* A message that waits refers to an entry there is; it carries one of its connection's keys.
References ==
    \A c \in Conns : \A i \in DOMAIN queue[c] :
        /\ queue[c][i].pc = "authorize" => queue[c][i].entry \in 1..Len(heap[c])
        /\ queue[c][i].key \in KeysOf[c] \cup {NoKey}
\* And of a connection that is open to the one in the map, as long as no heartbeat forgets it.
Held ==
    \A c \in open : \A i \in DOMAIN queue[c] :
        queue[c][i].pc = "authorize" => clients[c] # 0 /\ queue[c][i].entry = clients[c]
Growing == \A d \in Conns : Len(heap'[d]) >= Len(heap[d])
\* A client that is in the map stays in it.
Staying == open' \subseteq open /\ \A d \in open' : clients[d] # 0 => clients'[d] = clients[d]

LEMMA DoneRefers ==
  ASSUME HubInv, NEW c \in Conns, NEW i \in DOMAIN queue[c], Done(c, i), gen' \in [Conns -> Nat], HeapTypes',
         References, Growing, open \subseteq Conns
  PROVE  References' /\ (Held /\ Staying => Held')
<1>1. \A d \in Conns : \A j \in DOMAIN queue'[d] : \E k \in DOMAIN queue[d] : queue'[d][j] = queue[d][k]
  BY Answering
<1>2. \A d \in Conns : Len(heap[d]) \in Nat
  BY QueueType
<1>3. References'
  <2> SUFFICES ASSUME NEW d \in Conns, NEW j \in DOMAIN queue'[d]
               PROVE  /\ queue'[d][j].pc = "authorize" => queue'[d][j].entry \in 1..Len(heap'[d])
                      /\ queue'[d][j].key \in KeysOf[d] \cup {NoKey}
    BY DEF References
  <2>1. PICK k \in DOMAIN queue[d] : queue'[d][j] = queue[d][k]
    BY <1>1
  <2>2. /\ queue[d][k].pc = "authorize" => queue[d][k].entry \in 1..Len(heap[d])
        /\ queue[d][k].key \in KeysOf[d] \cup {NoKey}
    BY DEF References
  <2>3. heap[d] \in Seq(EntryType) /\ Len(heap'[d]) >= Len(heap[d])
    BY QueueType DEF Growing
  <2>4. \A e \in 1..Len(heap[d]) : Len(heap'[d]) \in Int => e \in 1..Len(heap'[d])
    BY <1>2, <2>3
  <2>5. Len(heap'[d]) \in Int
    BY LenProperties DEF HeapTypes
  <2> QED BY <2>1, <2>2, <2>4, <2>5
<1>4. Held /\ Staying => Held'
  <2> SUFFICES ASSUME Held, Staying, NEW d \in open', NEW j \in DOMAIN queue'[d], queue'[d][j].pc = "authorize"
               PROVE  clients'[d] # 0 /\ queue'[d][j].entry = clients'[d]
    BY DEF Held
  <2>1. d \in open /\ d \in Conns
    BY DEF Staying
  <2>2. PICK k \in DOMAIN queue[d] : queue'[d][j] = queue[d][k]
    BY <1>1, <2>1
  <2> QED BY <2>1, <2>2 DEF Held, Staying
<1> QED BY <1>3, <1>4

LEMMA AwaitRefers ==
  ASSUME HubInv, NEW c \in Conns, NEW i \in DOMAIN queue[c], NEW ev, Turn(c, i, ev), Await(c, i), HeapTypes',
         UNCHANGED <<gen, open>>, clients' = [clients EXCEPT ![c] = Ref(c)], Ref(c) \in 1..Len(heap'[c]),
         References, Growing, open \subseteq Conns
  PROVE  References' /\ (Held => Held')
<1>1. \A d \in Conns : \A j \in DOMAIN queue'[d] :
        /\ j \in DOMAIN queue[d]
        /\ queue'[d][j] = IF d = c /\ j = i THEN [queue[c][i] EXCEPT !.pc = "authorize", !.entry = Ref(c)] ELSE queue[d][j]
  <2>1. Ref(c) \in Nat /\ UNCHANGED gen
    BY HeapOf
  <2>2. \A d \in Conns : \A j \in DOMAIN queue'[d] : j \in DOMAIN queue[d]
    BY <2>1, Waiting
  <2>3. \A d \in Conns : \A j \in DOMAIN queue'[d] :
          queue'[d][j] = IF d = c /\ j = i THEN [queue[c][i] EXCEPT !.pc = "authorize", !.entry = Ref(c)] ELSE queue[d][j]
    BY <2>1, Waiting
  <2> QED BY <2>2, <2>3
<1>2. PICK m : m = [queue[c][i] EXCEPT !.pc = "authorize", !.entry = Ref(c)]
  OBVIOUS
<1>3. m.entry = Ref(c) /\ m.key = queue[c][i].key
  BY <1>2, QueueType DEF MessageType
<1>4. clients' = [d \in Conns |-> IF d = c THEN Ref(c) ELSE clients[d]] /\ Ref(c) # 0
      /\ (clients[c] # 0 => Ref(c) = clients[c])
  <2>1. Ref(c) # 0
    BY QueueType, HeapOf DEF Ref
  <2> QED BY <2>1 DEF HubInv, HeapTypes, Ref
<1>5. References'
  <2> SUFFICES ASSUME NEW d \in Conns, NEW j \in DOMAIN queue'[d]
               PROVE  /\ queue'[d][j].pc = "authorize" => queue'[d][j].entry \in 1..Len(heap'[d])
                      /\ queue'[d][j].key \in KeysOf[d] \cup {NoKey}
    BY DEF References
  <2>1. CASE d = c /\ j = i
    BY <1>1, <1>2, <1>3, <2>1 DEF References
  <2>2. CASE ~(d = c /\ j = i)
    <3>1. j \in DOMAIN queue[d] /\ queue'[d][j] = queue[d][j]
      BY <1>1, <2>2
    <3>2. Len(heap[d]) \in Nat /\ Len(heap'[d]) \in Nat /\ Len(heap'[d]) >= Len(heap[d])
      BY QueueType, LenProperties DEF HeapTypes, Growing
    <3>3. \A e \in 1..Len(heap[d]) : e \in 1..Len(heap'[d])
      BY <3>2
    <3> QED BY <3>1, <3>3 DEF References
  <2> QED BY <2>1, <2>2
<1>6. Held => Held'
  <2> SUFFICES ASSUME Held, NEW d \in open, NEW j \in DOMAIN queue'[d], queue'[d][j].pc = "authorize"
               PROVE  clients'[d] # 0 /\ queue'[d][j].entry = clients'[d]
    BY DEF Held
  <2>1. CASE d = c /\ j = i
    BY <1>1, <1>2, <1>3, <1>4, <2>1
  <2>2. CASE ~(d = c /\ j = i)
    BY <1>1, <1>4, <2>2 DEF Held
  <2> QED BY <2>1, <2>2
<1> QED BY <1>5, <1>6

LEMMA SendRefers ==
  ASSUME HubInv, NEW c \in Conns, NEW ev \in Events, NEW t \in Topics, NEW k \in KeysOf[c] \cup {NoKey},
         NEW token \in BOOLEAN, Send(c, ev, t, k, token), References, open \subseteq Conns
  PROVE  References' /\ (Held => Held')
<1>1. k \in Keys \cup {NoKey}
  BY KeysOfAssumption
<1>2. PICK m : m = [ev |-> ev, topic |-> t, key |-> k, token |-> token, gen |-> gen[c], pc |-> "queued", entry |-> 0]
  OBVIOUS
<1>3. m \in MessageType /\ m.pc = "queued" /\ m.key = k
  BY <1>1, <1>2, QueueType DEF MessageType
<1>4. queue' = [queue EXCEPT ![c] = Append(@, m)] /\ UNCHANGED <<open, gen, heap, clients>>
  BY <1>2 DEF Send
<1>5. /\ \A d \in Conns \ {c} : queue'[d] = queue[d]
      /\ DOMAIN queue'[c] = DOMAIN queue[c] \cup {Len(queue[c]) + 1}
      /\ queue'[c][Len(queue[c]) + 1] = m
      /\ \A j \in DOMAIN queue[c] : queue'[c][j] = queue[c][j]
  BY <1>3, <1>4, Sending
<1>6. ASSUME NEW d \in Conns, NEW j \in DOMAIN queue'[d]
      PROVE  (j \in DOMAIN queue[d] /\ queue'[d][j] = queue[d][j]) \/ (d = c /\ queue'[d][j] = m)
  BY <1>5
<1>7. References'
  BY <1>3, <1>4, <1>6 DEF References
<1>8. Held => Held'
  BY <1>3, <1>4, <1>6 DEF Held
<1> QED BY <1>7, <1>8

LEMMA QuietRefers ==
  ASSUME HubInv, UNCHANGED queue, References, Growing, open \subseteq Conns, HeapTypes'
  PROVE  References' /\ (Held /\ Staying => Held')
<1>1. \A d \in Conns : Len(heap[d]) \in Nat /\ Len(heap'[d]) \in Nat /\ Len(heap'[d]) >= Len(heap[d])
  BY QueueType, LenProperties DEF HeapTypes, Growing
<1>2. \A d \in Conns : \A e \in 1..Len(heap[d]) : e \in 1..Len(heap'[d])
  BY <1>1
<1>3. References'
  BY <1>2 DEF References
<1>4. Held /\ Staying => Held'
  BY DEF Held, Staying
<1> QED BY <1>3, <1>4

(***************************************************************************)
(* What the clients were told.  The presence messages carry keys and not   *)
(* who has them: a client's picture of a topic follows the leaves of one   *)
(* connection only if no other one uses its keys (Apart).                  *)
(***************************************************************************)
Apart == \A c, d \in Conns : c # d => KeysOf[c] \cap KeysOf[d] = {}
Agrees(P, K) == KeysIn(P) \subseteq K /\ \A d \in Conns : Roomy(d) => K \cap KeysOf[d] \subseteq KeysIn(P)

RoomTypes ==
    /\ open \subseteq Conns
    /\ sent \in [Conns -> Nat] /\ \A c \in Conns : sent[c] <= MaxSent[c]
    /\ subscribed \in [Topics -> SUBSET Conns]
    /\ presence \in [Topics -> Seq(Member)] /\ \A t \in Topics : Fits(presence[t])
    /\ told \in [Conns -> [Topics -> SUBSET Keys]]
    /\ knows \in [Conns -> SUBSET Topics]
KeysOwned ==
    /\ \A t \in Topics : Own(presence[t])
    /\ \A c \in Conns, t \in Topics : Entry(c).keys[t] \in KeysOf[c] \cup {NoKey}

LEMMA OwnerOnly ==
  ASSUME Apart, NEW P, Own(P), NEW c \in Conns, NEW d \in Conns, NEW k \in Keys, Has(P, c, k), Has(P, d, k)
  PROVE  c = d
BY DEF Apart, Own

LEMMA AgreesMore ==
  ASSUME Apart, NEW P, Fits(P), Own(P), NEW c \in Conns, NEW k \in KeysOf[c], NEW K, Agrees(P, K)
  PROVE  Agrees(Tracked(P, c, k), K \cup {k})
<1>1. k \in Keys
  BY KeysOfAssumption
<1>2. PICK Q : Q = Tracked(P, c, k)
  OBVIOUS
<1>3. /\ Fits(Q) /\ Has(Q, c, k)
      /\ \A d \in Conns, l \in Keys : Has(Q, d, l) => Has(P, d, l) \/ (d = c /\ l = k)
      /\ \A d \in Conns, l \in Keys : Has(P, d, l) /\ (d # c \/ (Own(P) /\ k \in KeysOf[c] /\ Roomy(c))) => Has(Q, d, l)
  BY <1>1, <1>2, TrackedOne
<1>4. KeysIn(P) = {l \in Keys : \E d \in Conns : Has(P, d, l)} /\ KeysIn(Q) = {l \in Keys : \E d \in Conns : Has(Q, d, l)}
  BY <1>3, KeysHad DEF Fits
<1>5. KeysIn(Q) \subseteq K \cup {k}
  BY <1>3, <1>4 DEF Agrees
<1>6. ASSUME NEW d \in Conns, Roomy(d), NEW l \in (K \cup {k}) \cap KeysOf[d] PROVE l \in KeysIn(Q)
  <2>1. CASE l = k
    BY <1>1, <1>3, <1>4, <2>1
  <2>2. CASE l # k
    <3>1. l \in KeysIn(P)
      BY <1>6, <2>2 DEF Agrees
    <3>2. PICK e \in Conns : Has(P, e, l) /\ l \in Keys
      BY <1>4, <3>1
    <3>3. e = d
      BY <1>6, <3>2 DEF Own, Apart
    <3>4. e = c => Roomy(c)
      BY <1>6, <3>3
    <3> QED BY <1>3, <1>4, <3>2, <3>4
  <2> QED BY <2>1, <2>2
<1> QED BY <1>2, <1>5, <1>6 DEF Agrees

LEMMA AgreesAsTold == ASSUME NEW P PROVE Agrees(P, KeysIn(P))
BY DEF Agrees

\* Taking the connection's key away takes it from the topic.
LEMMA WithoutKey ==
  ASSUME Apart, RoomTypes, KeysOwned, NEW t \in Topics, NEW c \in Conns, NEW k, NEW Q, Fits(Q),
         \A d \in Conns, l \in Keys : Has(Q, d, l) <=> Has(presence[t], d, l) /\ ~(d = c /\ l = k)
  PROVE  KeysIn(Q) = KeysIn(presence[t]) \ Removed(t, c, k)
<1>1. PICK P : P = presence[t]
  OBVIOUS
<1>2. Fits(P) /\ Own(P)
  BY <1>1 DEF RoomTypes, KeysOwned
<1>3. KeysIn(P) = {l \in Keys : \E d \in Conns : Has(P, d, l)} /\ KeysIn(Q) = {l \in Keys : \E d \in Conns : Has(Q, d, l)}
  BY <1>2, KeysHad DEF Fits
<1>4. Removed(t, c, k) = IF Has(P, c, k) THEN {k} ELSE {}
  BY <1>1 DEF Removed, Has
<1>5. CASE Has(P, c, k)
  <2>1. \A d \in Conns : k \in Keys /\ Has(P, d, k) => d = c
    BY <1>2, <1>5, OwnerOnly
  <2>2. KeysIn(Q) = KeysIn(P) \ {k}
    BY <1>1, <1>3, <2>1
  <2> QED BY <1>1, <1>4, <1>5, <2>2
<1>6. CASE ~Has(P, c, k)
  <2>1. KeysIn(Q) = KeysIn(P)
    BY <1>1, <1>3, <1>6
  <2> QED BY <1>1, <1>4, <1>6, <2>1
<1> QED BY <1>5, <1>6

\* As long as what leaves a topic is told to all that know it, they agree with it.
LEMMA ViewsLose ==
  ASSUME ViewAgrees, NEW G,
         \A t \in Topics : KeysIn(presence'[t]) = KeysIn(presence[t]) \ G[t],
         \A c \in Conns, t \in Topics : Joined(c, t)' /\ t \in knows'[c] =>
             Joined(c, t) /\ t \in knows[c] /\ told'[c][t] = told[c][t] \ G[t]
  PROVE  ViewAgrees'
<1> SUFFICES ASSUME NEW c \in Conns, NEW t \in Topics, Joined(c, t)' /\ t \in knows'[c]
             PROVE  /\ KeysIn(presence'[t]) \subseteq told'[c][t]
                    /\ \A d \in Conns : Cardinality(KeysOf[d]) <= MaxEntries =>
                         told'[c][t] \cap KeysOf[d] \subseteq KeysIn(presence'[t])
  BY DEF ViewAgrees
<1>1. Joined(c, t) /\ t \in knows[c] /\ told'[c][t] = told[c][t] \ G[t]
  OBVIOUS
<1>2. /\ KeysIn(presence[t]) \subseteq told[c][t]
      /\ \A d \in Conns : Cardinality(KeysOf[d]) <= MaxEntries => told[c][t] \cap KeysOf[d] \subseteq KeysIn(presence[t])
  BY <1>1 DEF ViewAgrees
<1>3. PICK A, B, K, H : A = KeysIn(presence[t]) /\ B = KeysIn(presence'[t]) /\ K = told[c][t] /\ H = G[t]
  OBVIOUS
<1>4. B = A \ H /\ A \subseteq K
  BY <1>2, <1>3
<1> QED BY <1>1, <1>2, <1>3, <1>4

LEMMA ViewIs ==
  ASSUME RoomTypes
  PROVE  ViewAgrees <=> \A c \in Conns, t \in Topics : Joined(c, t) /\ t \in knows[c] => Agrees(presence[t], told[c][t])
BY DEF ViewAgrees, Agrees, Roomy

LEMMA DiffIs ==
  ASSUME RoomTypes, NEW G
  PROVE  /\ Diff(G) \in [Conns -> [Topics -> SUBSET Keys]]
         /\ \A c \in Conns, t \in Topics :
              Diff(G)[c][t] = IF Joined(c, t) /\ t \in knows[c] THEN told[c][t] \ G[t] ELSE told[c][t]
<1>1. Diff(G) = [c \in Conns |-> [t \in Topics |-> IF Joined(c, t) /\ t \in knows[c] THEN told[c][t] \ G[t] ELSE told[c][t]]]
  BY DEF Diff, Audience
<1>2. \A c \in Conns, t \in Topics : told[c][t] \in SUBSET Keys
  BY DEF RoomTypes
<1>3. \A c \in Conns, t \in Topics :
        (IF Joined(c, t) /\ t \in knows[c] THEN told[c][t] \ G[t] ELSE told[c][t]) \in SUBSET Keys
  BY <1>2
<1> QED BY <1>1, <1>3

LEMMA GainedIs ==
  ASSUME RoomTypes, NEW t \in Topics, NEW k \in Keys
  PROVE  /\ Gained(t, k) \in [Conns -> [Topics -> SUBSET Keys]]
         /\ \A c \in Conns, u \in Topics :
              Gained(t, k)[c][u] = IF u = t /\ Joined(c, t) /\ t \in knows[c] THEN told[c][t] \cup {k} ELSE told[c][u]
<1>1. PICK T : T = Gained(t, k)
  OBVIOUS
<1>2. ASSUME NEW c \in Conns
      PROVE  /\ T[c] \in [Topics -> SUBSET Keys]
             /\ \A u \in Topics : T[c][u] = IF u = t /\ Joined(c, t) /\ t \in knows[c] THEN told[c][t] \cup {k} ELSE told[c][u]
  <2>1. told[c] \in [Topics -> SUBSET Keys]
    BY DEF RoomTypes
  <2>2. T[c] = IF Joined(c, t) /\ t \in knows[c] THEN [told[c] EXCEPT ![t] = @ \cup {k}] ELSE told[c]
    BY <1>1 DEF Gained, Audience
  <2> QED BY <2>1, <2>2
<1>3. T = [c \in Conns |-> T[c]]
  BY <1>1 DEF Gained
<1>4. T \in [Conns -> [Topics -> SUBSET Keys]]
  BY <1>2, <1>3
<1> QED BY <1>1, <1>2, <1>4

\* What sockets and presence say of an open connection is what its entry says.
Subscribed == \A c \in open, t \in Topics : c \in subscribed[t] <=> t \in Entry(c).topics
Remembered == \A c \in open, t \in Topics :
    OneKeyed(c) /\ (\E k \in Keys : Has(presence[t], c, k)) => Entry(c).keys[t] # NoKey
Recalled == Subscribed /\ Remembered

RoomsKept ==
    /\ RoomTypes' /\ KeysOwned'
    /\ Apart /\ ViewAgrees => ViewAgrees'
    /\ "expire" \notin Kinds /\ Held /\ Recalled => Recalled'

SentTypes == sent \in [Conns -> Nat] /\ \A c \in Conns : sent[c] <= MaxSent[c]

\* A step that changes no entry, no room and nobody's keys.
LEMMA QuietRooms ==
  ASSUME HubInv, HubInv', RoomTypes, KeysOwned, UNCHANGED <<open, subscribed, told, knows>>, SentTypes', Same,
         presence' \in [Topics -> Seq(Member)], \A t \in Topics : Fits(presence'[t]),
         \A t \in Topics, c \in Conns, k \in Keys : Has(presence'[t], c, k) <=> Has(presence[t], c, k)
  PROVE  RoomsKept
<1>1. RoomTypes'
  BY DEF RoomTypes, SentTypes
<1>2. KeysOwned'
  BY DEF KeysOwned, Own, Same
<1>3. \A c \in Conns, t \in Topics : Joined(c, t)' <=> Joined(c, t)
  BY EntryIs, EntryNext DEF Same
<1>4. \A t \in Topics : KeysIn(presence'[t]) = KeysIn(presence[t])
  <2> SUFFICES ASSUME NEW t \in Topics PROVE KeysIn(presence'[t]) = KeysIn(presence[t])
    OBVIOUS
  <2>1. PICK P, Q : P = presence[t] /\ Q = presence'[t]
    OBVIOUS
  <2>2. P \in Seq(Member) /\ Q \in Seq(Member)
    BY <2>1 DEF RoomTypes
  <2>3. KeysIn(P) = {k \in Keys : \E c \in Conns : Has(P, c, k)} /\ KeysIn(Q) = {k \in Keys : \E c \in Conns : Has(Q, c, k)}
    BY <2>2, KeysHad
  <2> QED BY <2>1, <2>3
<1>5. ViewAgrees => ViewAgrees'
  <2>1. PICK G : G = [t \in Topics |-> {}]
    OBVIOUS
  <2>2. \A t \in Topics : \A K : K \ G[t] = K
    BY <2>1
  <2>3. \A t \in Topics : KeysIn(presence'[t]) = KeysIn(presence[t]) \ G[t]
    BY <1>4, <2>2
  <2>4. \A c \in Conns, t \in Topics : Joined(c, t)' /\ t \in knows'[c] =>
             Joined(c, t) /\ t \in knows[c] /\ told'[c][t] = told[c][t] \ G[t]
    BY <1>3, <2>2
  <2> QED BY <2>3, <2>4, ViewsLose
<1>6. Recalled => Recalled'
  <2>1. open \subseteq Conns
    BY DEF RoomTypes
  <2>2. Subscribed => Subscribed'
    BY <2>1 DEF Subscribed, Same
  <2>3. Remembered => Remembered'
    BY <2>1 DEF Remembered, Same
  <2> QED BY <2>2, <2>3 DEF Recalled
<1> QED BY <1>1, <1>2, <1>5, <1>6 DEF RoomsKept

\* Nothing at all of presence changes.
LEMMA StillRooms ==
  ASSUME HubInv, HubInv', RoomTypes, KeysOwned, UNCHANGED <<open, subscribed, told, knows, presence>>, SentTypes', Same
  PROVE  RoomsKept
<1>1. presence' \in [Topics -> Seq(Member)] /\ \A t \in Topics : Fits(presence'[t])
  BY DEF RoomTypes
<1> QED BY <1>1, QuietRooms

\* c's entry becomes x, in step with its own subscriptions and presence.
LEMMA RecalledBut ==
  ASSUME RoomTypes, Recalled, NEW c \in Conns, NEW x, Only(c, x), open' \subseteq open,
         \A t \in Topics, d \in Conns, k \in Keys : d # c /\ Has(presence'[t], d, k) => Has(presence[t], d, k),
         \A d \in open', t \in Topics : d # c => (d \in subscribed'[t] <=> d \in subscribed[t]),
         c \in open' => \A t \in Topics :
             /\ c \in subscribed'[t] <=> t \in x.topics
             /\ OneKeyed(c) /\ (\E k \in Keys : Has(presence'[t], c, k)) => x.keys[t] # NoKey
  PROVE  Recalled'
<1>1. \A d \in open' : d \in open /\ d \in Conns
  BY DEF RoomTypes
<1>2. Subscribed'
  <2> SUFFICES ASSUME NEW d \in open', NEW t \in Topics PROVE d \in subscribed'[t] <=> t \in Entry(d)'.topics
    BY DEF Subscribed
  <2>1. Entry(d)' = IF d = c THEN x ELSE Entry(d)
    BY <1>1 DEF Only
  <2>2. CASE d = c
    BY <2>1, <2>2
  <2>3. CASE d # c
    BY <1>1, <2>1, <2>3 DEF Recalled, Subscribed
  <2> QED BY <2>2, <2>3
<1>3. Remembered'
  <2> SUFFICES ASSUME NEW d \in open', NEW t \in Topics, OneKeyed(d), NEW k \in Keys, Has(presence'[t], d, k)
               PROVE  Entry(d)'.keys[t] # NoKey
    BY DEF Remembered
  <2>1. Entry(d)' = IF d = c THEN x ELSE Entry(d)
    BY <1>1 DEF Only
  <2>2. CASE d = c
    BY <2>1, <2>2
  <2>3. CASE d # c
    <3>1. Has(presence[t], d, k)
      BY <1>1, <2>3
    <3> QED BY <1>1, <2>1, <2>3, <3>1 DEF Recalled, Remembered
  <2> QED BY <2>2, <2>3
<1> QED BY <1>2, <1>3 DEF Recalled

\* A step that takes each topic's G away, tells so, and leaves the others what they have.
LEMMA LosingRooms ==
  ASSUME HubInv, HubInv', RoomTypes, KeysOwned, UNCHANGED sent, NEW G,
         open' \subseteq open, subscribed' \in [Topics -> SUBSET Conns],
         told' \in [Conns -> [Topics -> SUBSET Keys]], knows' \in [Conns -> SUBSET Topics],
         presence' \in [Topics -> Seq(Member)], \A t \in Topics : Fits(presence'[t]),
         \A t \in Topics, d \in Conns, k \in Keys : Has(presence'[t], d, k) => Has(presence[t], d, k),
         Apart => \A t \in Topics : KeysIn(presence'[t]) = KeysIn(presence[t]) \ G[t],
         \A d \in Conns : knows'[d] \subseteq knows[d],
         \A d \in Conns, t \in Topics : Joined(d, t) /\ t \in knows'[d] => told'[d][t] = told[d][t] \ G[t],
         \A d \in Conns : Entry(d)'.topics \subseteq Entry(d).topics,
         \A d \in Conns, t \in Topics : Entry(d)'.keys[t] \in KeysOf[d] \cup {NoKey},
         "expire" \notin Kinds /\ Recalled => Recalled'
  PROVE  RoomsKept
<1>1. RoomTypes'
  BY DEF RoomTypes
<1>2. KeysOwned'
  BY DEF KeysOwned, Own
<1>3. \A d \in Conns, t \in Topics : Joined(d, t)' => Joined(d, t)
  BY EntryIs, EntryNext
<1>4. Apart /\ ViewAgrees => ViewAgrees'
  <2> SUFFICES ASSUME Apart, ViewAgrees PROVE ViewAgrees'
    OBVIOUS
  <2>1. \A t \in Topics : KeysIn(presence'[t]) = KeysIn(presence[t]) \ G[t]
    OBVIOUS
  <2>2. \A d \in Conns, t \in Topics : Joined(d, t)' /\ t \in knows'[d] =>
             Joined(d, t) /\ t \in knows[d] /\ told'[d][t] = told[d][t] \ G[t]
    BY <1>3
  <2> QED BY <2>1, <2>2, ViewsLose
<1> QED BY <1>1, <1>2, <1>4 DEF RoomsKept

(***************************************************************************)
(* The rooms after each action.                                            *)
(***************************************************************************)
\* What a step that untracks the connection's keys K, topic by topic, does to presence.
Untracks(c, K) == \A t \in Topics :
    /\ Fits(presence'[t])
    /\ \A d \in Conns, l \in Keys : Has(presence'[t], d, l) <=> Has(presence[t], d, l) /\ ~(d = c /\ l = K[t])

\* Where there is no key to untrack, nothing is.
LEMMA UntracksOne ==
  ASSUME RoomTypes, NEW c \in Conns, NEW t \in Topics, NEW k \in Keys \cup {NoKey},
         presence' = [presence EXCEPT ![t] = Without(@, c, k)]
  PROVE  presence' \in [Topics -> Seq(Member)] /\ Untracks(c, [u \in Topics |-> IF u = t THEN k ELSE NoKey])
<1>1. PICK K : K = [u \in Topics |-> IF u = t THEN k ELSE NoKey]
  OBVIOUS
<1>2. presence' = [u \in Topics |-> IF u = t THEN Without(presence[t], c, k) ELSE presence[u]]
  BY DEF RoomTypes
<1>3. /\ Fits(Without(presence[t], c, k))
      /\ \A d \in Conns, l \in Keys : Has(Without(presence[t], c, k), d, l) <=> Has(presence[t], d, l) /\ ~(d = c /\ l = k)
  BY WithoutOne DEF RoomTypes
<1>4. \A u \in Topics : Fits(presence'[u])
  BY <1>2, <1>3 DEF RoomTypes
<1>5. \A u \in Topics, d \in Conns, l \in Keys : Has(presence'[u], d, l) <=> Has(presence[u], d, l) /\ ~(d = c /\ l = K[u])
  <2> SUFFICES ASSUME NEW u \in Topics, NEW d \in Conns, NEW l \in Keys
               PROVE  Has(presence'[u], d, l) <=> Has(presence[u], d, l) /\ ~(d = c /\ l = K[u])
    OBVIOUS
  <2>1. CASE u = t
    BY <1>1, <1>2, <1>3, <2>1
  <2>2. CASE u # t
    <3>1. K[u] = NoKey /\ presence'[u] = presence[u]
      BY <1>1, <1>2, <2>2
    <3>2. l # NoKey
      BY NoKeyAssumption
    <3> QED BY <3>1, <3>2
  <2> QED BY <2>1, <2>2
<1>6. presence' \in [Topics -> Seq(Member)]
  BY <1>2, <1>4 DEF Fits
<1> QED BY <1>1, <1>4, <1>5, <1>6 DEF Untracks

\* An own key of a connection with one key leaves nothing of it.
LEMMA OneKeyGone ==
  ASSUME RoomTypes, KeysOwned, NEW c \in Conns, NEW t \in Topics, NEW K, Untracks(c, K), OneKeyed(c), K[t] \in KeysOf[c]
  PROVE  ~\E k \in Keys : Has(presence'[t], c, k)
<1> SUFFICES ASSUME NEW k \in Keys, Has(presence'[t], c, k) PROVE FALSE
  OBVIOUS
<1>1. Has(presence[t], c, k) /\ k # K[t]
  BY DEF Untracks
<1>2. k \in KeysOf[c]
  BY <1>1 DEF KeysOwned, Own
<1> QED BY <1>1, <1>2 DEF OneKeyed

LEMMA UntrackedKeys ==
  ASSUME Apart, RoomTypes, KeysOwned, NEW c \in Conns, NEW K, Untracks(c, K), NEW t \in Topics
  PROVE  KeysIn(presence'[t]) = KeysIn(presence[t]) \ Removed(t, c, K[t])
<1>1. PICK Q, k : Q = presence'[t] /\ k = K[t]
  OBVIOUS
<1>2. Fits(Q) /\ \A d \in Conns, l \in Keys : Has(Q, d, l) <=> Has(presence[t], d, l) /\ ~(d = c /\ l = k)
  BY <1>1 DEF Untracks
<1>3. KeysIn(Q) = KeysIn(presence[t]) \ Removed(t, c, k)
  BY <1>2, WithoutKey
<1> QED BY <1>1, <1>3

\* What of a connection's messages and entry the rooms need.
LEMMA MessageIs ==
  ASSUME HubInv, References, KeysOwned, NEW c \in Conns, NEW i \in DOMAIN queue[c]
  PROVE  /\ queue[c][i].topic \in Topics /\ queue[c][i].key \in KeysOf[c] \cup {NoKey}
         /\ Entry(c) \in EntryType /\ Entry(c).topics \subseteq Topics
         /\ \A t \in Topics : Entry(c).keys[t] \in KeysOf[c] \cup {NoKey}
         /\ KeysOf[c] \subseteq Keys
<1>1. queue[c][i] \in MessageType /\ Entry(c) \in EntryType
  BY QueueType, EntryIs
<1> QED BY <1>1, KeysOfAssumption DEF MessageType, EntryType, References, KeysOwned

LEMMA RemovedNone ==
  ASSUME RoomTypes, NEW c \in Conns, NEW t \in Topics
  PROVE  Removed(t, c, NoKey) = {}
<1>1. PICK P : P = presence[t]
  OBVIOUS
<1>2. \A i \in DOMAIN P : P[i] \in Member
  <2>1. P \in Seq(Member)
    BY <1>1 DEF RoomTypes
  <2> QED BY <2>1, ElementOfSeq, LenProperties
<1>3. \A i \in DOMAIN P : P[i].key # NoKey
  BY <1>2, NoKeyAssumption DEF Member
<1> QED BY <1>1, <1>3 DEF Removed, EntriesOf

LEMMA LeaveRooms ==
  ASSUME HubInv, HubInv', RoomTypes, KeysOwned, References, NEW c \in Conns, NEW i \in DOMAIN queue[c], Leave(c, i)
  PROVE  RoomsKept
<1>1. PICK t, k : t = queue[c][i].topic /\ k = Entry(c).keys[t]
  OBVIOUS
<1>2. t \in Topics /\ k \in KeysOf[c] \cup {NoKey} /\ k \in Keys \cup {NoKey} /\ Entry(c) \in EntryType
  BY <1>1, MessageIs
<1>3. PICK x : x = [Entry(c) EXCEPT !.topics = @ \ {t}, !.keys[t] = NoKey]
  OBVIOUS
<1>4. /\ x \in EntryType /\ x.topics = Entry(c).topics \ {t}
      /\ \A u \in Topics : x.keys[u] = IF u = t THEN NoKey ELSE Entry(c).keys[u]
  BY <1>2, <1>3 DEF EntryType
<1>5. PICK K : K = [u \in Topics |-> IF u = t THEN k ELSE NoKey]
  OBVIOUS
<1>6. PICK G : G = OnTopic(t, Removed(t, c, k))
  OBVIOUS
<1>7. /\ presence' = [presence EXCEPT ![t] = Without(@, c, k)]
      /\ told' = [Diff(G) EXCEPT ![c][t] = {}]
      /\ knows' = [knows EXCEPT ![c] = @ \ {t}]
      /\ FetchSet(c, x)
      /\ subscribed' = [subscribed EXCEPT ![t] = @ \ {c}]
      /\ UNCHANGED <<open, sent>>
  BY <1>1, <1>3, <1>6 DEF Leave
<1>8. presence' \in [Topics -> Seq(Member)] /\ Untracks(c, K)
  BY <1>2, <1>5, <1>7, UntracksOne
<1>9. Only(c, x)
  BY <1>4, <1>7, FetchSetOnly
<1>10. \A u \in Topics : G[u] = Removed(u, c, K[u])
  BY <1>2, <1>5, <1>6, RemovedNone DEF OnTopic
<1>11. Apart => \A u \in Topics : KeysIn(presence'[u]) = KeysIn(presence[u]) \ G[u]
  BY <1>8, <1>10, UntrackedKeys
<1>12. /\ Diff(G) \in [Conns -> [Topics -> SUBSET Keys]]
       /\ \A d \in Conns, u \in Topics : Diff(G)[d][u] = IF Joined(d, u) /\ u \in knows[d] THEN told[d][u] \ G[u] ELSE told[d][u]
  BY DiffIs
<1>13. /\ told' \in [Conns -> [Topics -> SUBSET Keys]]
       /\ \A d \in Conns, u \in Topics : told'[d][u] = IF d = c /\ u = t THEN {} ELSE Diff(G)[d][u]
  BY <1>2, <1>7, <1>12
<1>14. /\ knows' \in [Conns -> SUBSET Topics]
       /\ \A d \in Conns : knows'[d] = IF d = c THEN knows[c] \ {t} ELSE knows[d]
  BY <1>2, <1>7 DEF RoomTypes
<1>15. /\ subscribed' \in [Topics -> SUBSET Conns]
       /\ \A u \in Topics : subscribed'[u] = IF u = t THEN subscribed[t] \ {c} ELSE subscribed[u]
  BY <1>2, <1>7 DEF RoomTypes
<1>16. \A d \in Conns, u \in Topics : Joined(d, u) /\ u \in knows'[d] => told'[d][u] = told[d][u] \ G[u]
  <2> SUFFICES ASSUME NEW d \in Conns, NEW u \in Topics, Joined(d, u), u \in knows'[d]
               PROVE  told'[d][u] = told[d][u] \ G[u]
    OBVIOUS
  <2>1. u \in knows[d] /\ ~(d = c /\ u = t)
    BY <1>14
  <2>2. told'[d][u] = Diff(G)[d][u]
    BY <1>13, <2>1
  <2>3. Diff(G)[d][u] = told[d][u] \ G[u]
    BY <1>12, <2>1
  <2> QED BY <2>2, <2>3
<1>17. \A d \in Conns : Entry(d)' = IF d = c THEN x ELSE Entry(d)
  BY <1>9 DEF Only
<1>18. (\A d \in Conns : Entry(d)'.topics \subseteq Entry(d).topics)
       /\ \A d \in Conns, u \in Topics : Entry(d)'.keys[u] \in KeysOf[d] \cup {NoKey}
  <2> SUFFICES ASSUME NEW d \in Conns
               PROVE  Entry(d)'.topics \subseteq Entry(d).topics /\ \A u \in Topics : Entry(d)'.keys[u] \in KeysOf[d] \cup {NoKey}
    OBVIOUS
  <2>1. \A u \in Topics : Entry(d).keys[u] \in KeysOf[d] \cup {NoKey}
    BY DEF KeysOwned
  <2>2. CASE d = c
    BY <1>4, <1>17, <2>1, <2>2
  <2>3. CASE d # c
    BY <1>17, <2>1, <2>3
  <2> QED BY <2>2, <2>3
<1>19. Recalled => Recalled'
  <2> SUFFICES ASSUME Recalled PROVE Recalled'
    OBVIOUS
  <2>1. ASSUME c \in open', NEW u \in Topics
        PROVE  /\ c \in subscribed'[u] <=> u \in x.topics
               /\ OneKeyed(c) /\ (\E l \in Keys : Has(presence'[u], c, l)) => x.keys[u] # NoKey
    <3>1. c \in open
      BY <1>7, <2>1
    <3>2. c \in subscribed'[u] <=> u \in x.topics
      BY <1>4, <1>15, <3>1 DEF Recalled, Subscribed
    <3>3. ASSUME OneKeyed(c), NEW l \in Keys, Has(presence'[u], c, l) PROVE x.keys[u] # NoKey
      <4>1. Has(presence[u], c, l)
        BY <1>8, <3>3 DEF Untracks
      <4>2. Entry(c).keys[u] # NoKey
        BY <3>1, <3>3, <4>1 DEF Recalled, Remembered
      <4>3. CASE u = t
        <5>1. K[u] \in KeysOf[c]
          BY <1>1, <1>2, <1>5, <4>2, <4>3
        <5> QED BY <1>8, <3>3, <5>1, OneKeyGone
      <4>4. CASE u # t
        BY <1>4, <4>2, <4>4
      <4> QED BY <4>3, <4>4
    <3> QED BY <3>2, <3>3
  <2>2. \A u \in Topics, d \in Conns, l \in Keys : d # c /\ Has(presence'[u], d, l) => Has(presence[u], d, l)
    BY <1>8 DEF Untracks
  <2>3. open' \subseteq open /\ \A d \in open', u \in Topics : d # c => (d \in subscribed'[u] <=> d \in subscribed[u])
    BY <1>7, <1>15
  <2> QED BY <1>9, <2>1, <2>2, <2>3, RecalledBut
<1>20. /\ open' \subseteq open /\ UNCHANGED sent
       /\ \A u \in Topics : Fits(presence'[u])
       /\ \A u \in Topics, d \in Conns, l \in Keys : Has(presence'[u], d, l) => Has(presence[u], d, l)
       /\ \A d \in Conns : knows'[d] \subseteq knows[d]
  BY <1>7, <1>8, <1>14 DEF Untracks
<1> QED BY <1>8, <1>11, <1>13, <1>14, <1>15, <1>16, <1>18, <1>19, <1>20, LosingRooms

LEMMA UntrackRooms ==
  ASSUME HubInv, HubInv', RoomTypes, KeysOwned, References, SentTypes', NEW c \in Conns, NEW i \in DOMAIN queue[c], Untrack(c, i)
  PROVE  RoomsKept
<1>1. PICK t : t = queue[c][i].topic
  OBVIOUS
<1>2. PICK k : k = IF queue[c][i].key # NoKey THEN queue[c][i].key ELSE Entry(c).keys[t]
  OBVIOUS
<1>3. /\ t \in Topics /\ k \in KeysOf[c] \cup {NoKey} /\ k \in Keys \cup {NoKey} /\ Entry(c) \in EntryType
      /\ \A u \in Topics : Entry(c).keys[u] \in KeysOf[c] \cup {NoKey}
  BY <1>1, <1>2, MessageIs
<1>4. CASE ~(t \in Entry(c).topics /\ k # NoKey)
  <2>1. Fetch(c) /\ UNCHANGED <<open, subscribed, told, knows, presence>>
    BY <1>1, <1>2, <1>4 DEF Untrack
  <2>2. Same
    BY <2>1, FetchOnly
  <2> QED BY <2>1, <2>2, StillRooms
<1>5. CASE t \in Entry(c).topics /\ k # NoKey
  <2>1. PICK x : x = [Entry(c) EXCEPT !.keys[t] = NoKey]
    OBVIOUS
  <2>2. /\ x \in EntryType /\ x.topics = Entry(c).topics
        /\ \A u \in Topics : x.keys[u] = IF u = t THEN NoKey ELSE Entry(c).keys[u]
    BY <1>3, <2>1 DEF EntryType
  <2>3. PICK K : K = [u \in Topics |-> IF u = t THEN k ELSE NoKey]
    OBVIOUS
  <2>4. PICK G : G = OnTopic(t, Removed(t, c, k))
    OBVIOUS
  <2>5. /\ presence' = [presence EXCEPT ![t] = Without(@, c, k)]
        /\ told' = Diff(G)
        /\ FetchSet(c, x)
        /\ UNCHANGED <<open, sent, subscribed, knows>>
    BY <1>1, <1>2, <1>5, <2>1, <2>4 DEF Untrack
  <2>6. presence' \in [Topics -> Seq(Member)] /\ Untracks(c, K)
    BY <1>3, <2>3, <2>5, UntracksOne
  <2>7. Only(c, x)
    BY <2>2, <2>5, FetchSetOnly
  <2>8. \A u \in Topics : G[u] = Removed(u, c, K[u])
    BY <1>3, <2>3, <2>4, RemovedNone DEF OnTopic
  <2>9. Apart => \A u \in Topics : KeysIn(presence'[u]) = KeysIn(presence[u]) \ G[u]
    BY <2>6, <2>8, UntrackedKeys
  <2>10. /\ told' \in [Conns -> [Topics -> SUBSET Keys]]
         /\ \A d \in Conns, u \in Topics : Joined(d, u) /\ u \in knows'[d] => told'[d][u] = told[d][u] \ G[u]
    BY <2>5, DiffIs
  <2>11. \A d \in Conns : Entry(d)' = IF d = c THEN x ELSE Entry(d)
    BY <2>7 DEF Only
  <2>12. (\A d \in Conns : Entry(d)'.topics \subseteq Entry(d).topics)
         /\ \A d \in Conns, u \in Topics : Entry(d)'.keys[u] \in KeysOf[d] \cup {NoKey}
    BY <2>2, <2>11 DEF KeysOwned
  <2>13. Recalled => Recalled'
    <3> SUFFICES ASSUME Recalled PROVE Recalled'
      OBVIOUS
    <3>1. ASSUME c \in open', NEW u \in Topics
          PROVE  /\ c \in subscribed'[u] <=> u \in x.topics
                 /\ OneKeyed(c) /\ (\E l \in Keys : Has(presence'[u], c, l)) => x.keys[u] # NoKey
      <4>1. c \in open
        BY <2>5, <3>1
      <4>2. c \in subscribed'[u] <=> u \in x.topics
        BY <2>2, <2>5, <4>1 DEF Recalled, Subscribed
      <4>3. ASSUME OneKeyed(c), NEW l \in Keys, Has(presence'[u], c, l) PROVE x.keys[u] # NoKey
        <5>1. CASE u = t
          <6>1. K[u] \in KeysOf[c]
            BY <1>3, <1>5, <2>3, <5>1
          <6> QED BY <2>6, <4>3, <6>1, OneKeyGone
        <5>2. CASE u # t
          <6>1. Has(presence[u], c, l)
            BY <2>6, <4>3 DEF Untracks
          <6>2. Entry(c).keys[u] # NoKey
            BY <4>1, <4>3, <6>1 DEF Recalled, Remembered
          <6> QED BY <2>2, <5>2, <6>2
        <5> QED BY <5>1, <5>2
      <4> QED BY <4>2, <4>3
    <3>2. \A u \in Topics, d \in Conns, l \in Keys : d # c /\ Has(presence'[u], d, l) => Has(presence[u], d, l)
      BY <2>6 DEF Untracks
    <3>3. open' \subseteq open /\ \A d \in open', u \in Topics : d # c => (d \in subscribed'[u] <=> d \in subscribed[u])
      BY <2>5
    <3> QED BY <2>7, <3>1, <3>2, <3>3, RecalledBut
  <2>14. /\ open' \subseteq open /\ UNCHANGED sent
         /\ \A u \in Topics : Fits(presence'[u])
         /\ \A u \in Topics, d \in Conns, l \in Keys : Has(presence'[u], d, l) => Has(presence[u], d, l)
         /\ \A d \in Conns : knows'[d] \subseteq knows[d]
    BY <2>5, <2>6 DEF Untracks
  <2>15. subscribed' \in [Topics -> SUBSET Conns] /\ knows' \in [Conns -> SUBSET Topics]
    BY <2>5 DEF RoomTypes
  <2> QED BY <2>6, <2>9, <2>10, <2>12, <2>13, <2>14, <2>15, LosingRooms
<1> QED BY <1>4, <1>5

\* removeClient untracks what the client's entry remembers.  The client is no longer
\* in the map: unless a heartbeat did that, its socket is closed.
LEMMA RemovingRooms ==
  ASSUME HubInv, HubInv', RoomTypes, KeysOwned, NEW c \in Conns, RemoveClient(c), UNCHANGED <<sent, heap>>,
         open' \subseteq open, c \in open' => "expire" \in Kinds, subscribed' \in [Topics -> SUBSET Conns],
         \A d \in open', t \in Topics : d # c => (d \in subscribed'[t] <=> d \in subscribed[t])
  PROVE  RoomsKept
<1>1. PICK K : K = Entry(c).keys
  OBVIOUS
<1>2. clients' = [clients EXCEPT ![c] = 0] /\ knows' = [knows EXCEPT ![c] = {}]
  BY DEF RemoveClient
<1>3. Only(c, NewEntry)
  BY <1>2, ForgottenOnly
<1>4. PICK G : G = [t \in Topics |-> Removed(t, c, K[t])]
  OBVIOUS
<1>5. /\ presence' \in [Topics -> Seq(Member)] /\ Untracks(c, K) /\ told' \in [Conns -> [Topics -> SUBSET Keys]]
      /\ \A d \in Conns, u \in Topics : d # c /\ Joined(d, u) /\ u \in knows[d] => told'[d][u] = told[d][u] \ G[u]
  <2>1. CASE clients[c] # 0
    <3>1. /\ presence' = [t \in Topics |-> Without(presence[t], c, K[t])]
          /\ told' = [Diff(G) EXCEPT ![c] = [t \in Topics |-> {}]]
      <4>1. K = heap[c][clients[c]].keys
        BY <1>1, <2>1, EntryIs
      <4> QED BY <1>4, <2>1, <4>1 DEF RemoveClient
    <3>2. Untracks(c, K)
      <4> SUFFICES ASSUME NEW t \in Topics
                   PROVE  /\ Fits(Without(presence[t], c, K[t]))
                          /\ \A d \in Conns, l \in Keys :
                               Has(Without(presence[t], c, K[t]), d, l) <=> Has(presence[t], d, l) /\ ~(d = c /\ l = K[t])
        BY <3>1 DEF Untracks
      <4>1. PICK P, k : P = presence[t] /\ k = K[t] /\ Fits(P)
        BY DEF RoomTypes
      <4> QED BY <4>1, WithoutOne
    <3>3. /\ Diff(G) \in [Conns -> [Topics -> SUBSET Keys]]
          /\ \A d \in Conns, u \in Topics : Diff(G)[d][u] = IF Joined(d, u) /\ u \in knows[d] THEN told[d][u] \ G[u] ELSE told[d][u]
      BY DiffIs
    <3>4. PICK Z : Z = [t \in Topics |-> {}]
      OBVIOUS
    <3>5. Z \in [Topics -> SUBSET Keys]
      BY <3>4
    <3>6. told' \in [Conns -> [Topics -> SUBSET Keys]] /\ \A d \in Conns : d # c => told'[d] = Diff(G)[d]
      BY <3>1, <3>3, <3>4, <3>5
    <3>7. presence' \in [Topics -> Seq(Member)]
      BY <3>1, <3>2 DEF Untracks, Fits
    <3> QED BY <3>2, <3>3, <3>6, <3>7
  <2>2. CASE clients[c] = 0
    <3>1. UNCHANGED <<presence, told>>
      BY <2>2 DEF RemoveClient
    <3>2. \A t \in Topics : K[t] = NoKey
      BY <1>1, <2>2, EntryIs DEF NewEntry
    <3>3. \A t \in Topics : G[t] = {}
      BY <1>4, <3>2, RemovedNone
    <3>4. \A l \in Keys : l # NoKey
      BY NoKeyAssumption
    <3>5. Untracks(c, K)
      BY <3>1, <3>2, <3>4 DEF Untracks, RoomTypes
    <3>6. \A d \in Conns, u \in Topics : told'[d][u] = told[d][u] \ G[u]
      BY <3>1, <3>3
    <3> QED BY <3>1, <3>5, <3>6 DEF RoomTypes
  <2> QED BY <2>1, <2>2
<1>6. Apart => \A u \in Topics : KeysIn(presence'[u]) = KeysIn(presence[u]) \ G[u]
  BY <1>4, <1>5, UntrackedKeys
<1>7. knows' \in [Conns -> SUBSET Topics] /\ \A d \in Conns : knows'[d] = IF d = c THEN {} ELSE knows[d]
  BY <1>2 DEF RoomTypes
<1>8. \A d \in Conns, u \in Topics : Joined(d, u) /\ u \in knows'[d] => told'[d][u] = told[d][u] \ G[u]
  BY <1>5, <1>7
<1>9. \A d \in Conns : Entry(d)' = IF d = c THEN NewEntry ELSE Entry(d)
  BY <1>3 DEF Only
<1>10. (\A d \in Conns : Entry(d)'.topics \subseteq Entry(d).topics)
       /\ \A d \in Conns, u \in Topics : Entry(d)'.keys[u] \in KeysOf[d] \cup {NoKey}
  BY <1>9 DEF KeysOwned, NewEntry
<1>11. "expire" \notin Kinds /\ Recalled => Recalled'
  <2> SUFFICES ASSUME "expire" \notin Kinds, Recalled PROVE Recalled'
    OBVIOUS
  <2>1. c \notin open'
    OBVIOUS
  <2>2. \A u \in Topics, d \in Conns, l \in Keys : d # c /\ Has(presence'[u], d, l) => Has(presence[u], d, l)
    BY <1>5 DEF Untracks
  <2> QED BY <1>3, <2>1, <2>2, RecalledBut
<1>12. /\ \A u \in Topics : Fits(presence'[u])
       /\ \A u \in Topics, d \in Conns, l \in Keys : Has(presence'[u], d, l) => Has(presence[u], d, l)
       /\ \A d \in Conns : knows'[d] \subseteq knows[d]
  BY <1>5, <1>7 DEF Untracks
<1> QED BY <1>5, <1>6, <1>7, <1>8, <1>10, <1>11, <1>12, LosingRooms

\* A key that one of a topic's entries has, no other one has.
LEMMA SweptKeys ==
  ASSUME Apart, NEW P, Fits(P), Own(P), NEW I \in SUBSET DOMAIN P, NEW G, G = {P[i].key : i \in DOMAIN P \ I}
  PROVE  KeysIn(Remaining(P, I)) = KeysIn(P) \ G
<1>1. PICK Q : Q = Remaining(P, I)
  OBVIOUS
<1>2. Fits(Q) /\ \A d \in Conns, k \in Keys : Has(Q, d, k) <=> \E i \in EntriesOf(P, d) \cap I : P[i].key = k
  BY <1>1, Thinned
<1>3. KeysIn(P) = {k \in Keys : \E d \in Conns : Has(P, d, k)} /\ KeysIn(Q) = {k \in Keys : \E d \in Conns : Has(Q, d, k)}
  BY <1>2, KeysHad DEF Fits
<1>4. \A i \in DOMAIN P : P[i].conn \in Conns /\ P[i].key \in Keys
  <2>1. \A i \in DOMAIN P : P[i] \in Member
    BY ElementOfSeq, LenProperties DEF Fits
  <2> QED BY <2>1 DEF Member
<1>5. ASSUME NEW i \in DOMAIN P, NEW j \in DOMAIN P, P[i].key = P[j].key PROVE i = j
  <2>1. PICK c, d, k : c = P[i].conn /\ d = P[j].conn /\ k = P[i].key
    OBVIOUS
  <2>2. c \in Conns /\ d \in Conns /\ k \in Keys /\ i \in EntriesOf(P, c) /\ j \in EntriesOf(P, d)
    BY <1>4, <2>1 DEF EntriesOf
  <2>3. Has(P, c, k) /\ Has(P, d, k)
    BY <1>5, <2>1, <2>2 DEF Has
  <2>4. c = d
    BY <2>2, <2>3, OwnerOnly
  <2> QED BY <1>5, <2>2, <2>4 DEF Fits, Single
<1>6. ASSUME NEW k \in KeysIn(Q) PROVE k \in KeysIn(P) \ G
  <2>9. k \in Keys /\ \E d \in Conns : \E i \in EntriesOf(P, d) \cap I : P[i].key = k
    BY <1>2, <1>3
  <2>1. PICK d \in Conns : \E i \in EntriesOf(P, d) \cap I : P[i].key = k /\ k \in Keys
    BY <2>9
  <2>2. k \in KeysIn(P)
    BY <1>3, <2>1 DEF Has
  <2>3. k \notin G
    BY <1>5, <2>1 DEF EntriesOf
  <2> QED BY <2>2, <2>3
<1>7. ASSUME NEW k \in KeysIn(P) \ G PROVE k \in KeysIn(Q)
  <2>1. PICK d \in Conns : \E i \in EntriesOf(P, d) : P[i].key = k /\ k \in Keys
    BY <1>3 DEF Has
  <2>2. \E i \in EntriesOf(P, d) \cap I : P[i].key = k
    BY <2>1 DEF EntriesOf
  <2> QED BY <1>2, <1>3, <2>1, <2>2
<1> QED BY <1>1, <1>6, <1>7

LEMMA SweepRooms == ASSUME HubInv, HubInv', RoomTypes, KeysOwned, Sweep PROVE RoomsKept
<1>1. PICK I : I = [t \in Topics |-> {i \in DOMAIN presence[t] : ~presence[t][i].stale}]
  OBVIOUS
<1>2. PICK G : G = [t \in Topics |-> {presence[t][i].key : i \in Stale(t)}]
  OBVIOUS
<1>3. /\ presence' = [t \in Topics |-> Remaining(presence[t], I[t])]
      /\ told' = Diff(G)
      /\ UNCHANGED <<open, sent, heap, clients, subscribed, knows>>
  BY <1>1, <1>2 DEF Sweep
<1>4. Same
  BY <1>3, NoneOnly
<1>5. ASSUME NEW t \in Topics
      PROVE  /\ Fits(presence'[t])
             /\ \A d \in Conns, k \in Keys : Has(presence'[t], d, k) => Has(presence[t], d, k)
             /\ Apart => KeysIn(presence'[t]) = KeysIn(presence[t]) \ G[t]
  <2>1. PICK P, J : P = presence[t] /\ J = I[t] /\ presence'[t] = Remaining(P, J)
    BY <1>3
  <2>2. Fits(P) /\ Own(P) /\ J \in SUBSET DOMAIN P
    BY <1>1, <2>1 DEF RoomTypes, KeysOwned
  <2>3. /\ Fits(Remaining(P, J))
        /\ \A d \in Conns, k \in Keys : Has(Remaining(P, J), d, k) <=> \E i \in EntriesOf(P, d) \cap J : P[i].key = k
    BY <2>2, Thinned
  <2>4. Stale(t) = DOMAIN P \ J
    BY <1>1, <2>1 DEF Stale
  <2>5. G[t] = {P[i].key : i \in DOMAIN P \ J}
    BY <1>2, <2>1, <2>4
  <2>6. Apart => KeysIn(Remaining(P, J)) = KeysIn(P) \ G[t]
    BY <2>2, <2>5, SweptKeys
  <2>7. \A d \in Conns, k \in Keys : Has(Remaining(P, J), d, k) => Has(P, d, k)
    BY <2>3 DEF Has
  <2> QED BY <2>1, <2>3, <2>6, <2>7
<1>6. presence' \in [Topics -> Seq(Member)]
  BY <1>3, <1>5 DEF Fits
<1>7. /\ told' \in [Conns -> [Topics -> SUBSET Keys]]
      /\ \A d \in Conns, u \in Topics : Joined(d, u) /\ u \in knows'[d] => told'[d][u] = told[d][u] \ G[u]
  BY <1>3, DiffIs
<1>8. Recalled => Recalled'
  <2>1. open \subseteq Conns
    BY DEF RoomTypes
  <2>2. Subscribed => Subscribed'
    BY <1>3, <1>4, <2>1 DEF Subscribed, Same
  <2>3. Remembered => Remembered'
    BY <1>3, <1>4, <1>5, <2>1 DEF Remembered, Same
  <2> QED BY <2>2, <2>3 DEF Recalled
<1>9. /\ \A d \in Conns : Entry(d)'.topics \subseteq Entry(d).topics
      /\ \A d \in Conns, u \in Topics : Entry(d)'.keys[u] \in KeysOf[d] \cup {NoKey}
  BY <1>4 DEF Same, KeysOwned
<1>10. /\ open' \subseteq open /\ UNCHANGED sent /\ subscribed' \in [Topics -> SUBSET Conns]
       /\ knows' \in [Conns -> SUBSET Topics] /\ \A d \in Conns : knows'[d] \subseteq knows[d]
  BY <1>3 DEF RoomTypes
<1> QED BY <1>5, <1>6, <1>7, <1>8, <1>9, <1>10, LosingRooms

\* The same of the next state as ViewIs.
LEMMA ViewNext ==
  ASSUME \A c \in Conns, t \in Topics : Joined(c, t)' /\ t \in knows'[c] => Agrees(presence'[t], told'[c][t])
  PROVE  ViewAgrees'
BY DEF ViewAgrees, Agrees, Roomy

\* k is tracked for c in t: what that does to presence.
LEMMA TracksOne ==
  ASSUME RoomTypes, KeysOwned, NEW c \in Conns, NEW t \in Topics, NEW k \in KeysOf[c],
         presence' = [presence EXCEPT ![t] = Tracked(@, c, k)]
  PROVE  /\ presence' \in [Topics -> Seq(Member)] /\ \A u \in Topics : Fits(presence'[u]) /\ Own(presence'[u])
         /\ \A u \in Topics, d \in Conns, l \in Keys :
              Has(presence'[u], d, l) => Has(presence[u], d, l) \/ (u = t /\ d = c /\ l = k)
         /\ Apart => \A u \in Topics : \A K : Agrees(presence[u], K) => Agrees(presence'[u], IF u = t THEN K \cup {k} ELSE K)
<1>1. PICK P, Q : P = presence[t] /\ Q = Tracked(P, c, k)
  OBVIOUS
<1>2. presence' = [u \in Topics |-> IF u = t THEN Q ELSE presence[u]]
  BY <1>1 DEF RoomTypes
<1>3. k \in Keys
  BY KeysOfAssumption
<1>4. Fits(P) /\ Own(P)
  BY <1>1 DEF RoomTypes, KeysOwned
<1>5. Fits(Q) /\ \A d \in Conns, l \in Keys : Has(Q, d, l) => Has(P, d, l) \/ (d = c /\ l = k)
  BY <1>1, <1>3, <1>4, TrackedOne
<1>6. Own(Q)
  BY <1>4, <1>5 DEF Own
<1>7. Apart => \A K : Agrees(P, K) => Agrees(Q, K \cup {k})
  BY <1>1, <1>4, AgreesMore
<1>8. \A u \in Topics : Fits(presence'[u]) /\ Own(presence'[u])
  BY <1>2, <1>5, <1>6 DEF RoomTypes, KeysOwned
<1>9. \A u \in Topics, d \in Conns, l \in Keys :
        Has(presence'[u], d, l) => Has(presence[u], d, l) \/ (u = t /\ d = c /\ l = k)
  BY <1>1, <1>2, <1>5
<1>10. Apart => \A u \in Topics : \A K : Agrees(presence[u], K) => Agrees(presence'[u], IF u = t THEN K \cup {k} ELSE K)
  BY <1>1, <1>2, <1>7
<1>11. presence' \in [Topics -> Seq(Member)]
  BY <1>2, <1>8 DEF Fits
<1> QED BY <1>8, <1>9, <1>10, <1>11

LEMMA TrackRooms ==
  ASSUME HubInv, HubInv', RoomTypes, KeysOwned, References, SentTypes', NEW c \in Conns, NEW i \in DOMAIN queue[c], Track(c, i)
  PROVE  RoomsKept
<1>1. PICK t, k : t = queue[c][i].topic /\ k = queue[c][i].key
  OBVIOUS
<1>2. /\ t \in Topics /\ k \in KeysOf[c] \cup {NoKey} /\ Entry(c) \in EntryType /\ KeysOf[c] \subseteq Keys
      /\ \A u \in Topics : Entry(c).keys[u] \in KeysOf[c] \cup {NoKey}
  BY <1>1, MessageIs
<1>3. CASE ~(t \in Entry(c).topics /\ k # NoKey)
  <2>1. Fetch(c) /\ UNCHANGED <<open, subscribed, told, knows, presence>>
    BY <1>1, <1>3 DEF Track
  <2>2. Same
    BY <2>1, FetchOnly
  <2> QED BY <2>1, <2>2, StillRooms
<1>4. CASE t \in Entry(c).topics /\ k # NoKey
  <2>1. k \in KeysOf[c] /\ k \in Keys
    BY <1>2, <1>4
  <2>2. PICK x : x = [Entry(c) EXCEPT !.keys[t] = k]
    OBVIOUS
  <2>3. /\ x \in EntryType /\ x.topics = Entry(c).topics
        /\ \A u \in Topics : x.keys[u] = IF u = t THEN k ELSE Entry(c).keys[u]
    BY <1>2, <2>1, <2>2 DEF EntryType
  <2>4. /\ presence' = [presence EXCEPT ![t] = Tracked(@, c, k)]
        /\ told' = Gained(t, k)
        /\ FetchSet(c, x)
        /\ UNCHANGED <<open, subscribed, knows>>
    BY <1>1, <1>4, <2>2 DEF Track
  <2>5. /\ presence' \in [Topics -> Seq(Member)] /\ \A u \in Topics : Fits(presence'[u]) /\ Own(presence'[u])
        /\ \A u \in Topics, d \in Conns, l \in Keys :
             Has(presence'[u], d, l) => Has(presence[u], d, l) \/ (u = t /\ d = c /\ l = k)
        /\ Apart => \A u \in Topics : \A K : Agrees(presence[u], K) => Agrees(presence'[u], IF u = t THEN K \cup {k} ELSE K)
    BY <1>2, <2>1, <2>4, TracksOne
  <2>6. Only(c, x)
    BY <2>3, <2>4, FetchSetOnly
  <2>7. \A d \in Conns : Entry(d)' = IF d = c THEN x ELSE Entry(d)
    BY <2>6 DEF Only
  <2>8. /\ told' \in [Conns -> [Topics -> SUBSET Keys]]
        /\ \A d \in Conns, u \in Topics :
             told'[d][u] = IF u = t /\ Joined(d, t) /\ t \in knows[d] THEN told[d][t] \cup {k} ELSE told[d][u]
    <3>1. /\ Gained(t, k) \in [Conns -> [Topics -> SUBSET Keys]]
          /\ \A d \in Conns, u \in Topics :
               Gained(t, k)[d][u] = IF u = t /\ Joined(d, t) /\ t \in knows[d] THEN told[d][t] \cup {k} ELSE told[d][u]
      BY <1>2, <2>1, GainedIs
    <3>2. PICK T : T = Gained(t, k)
      OBVIOUS
    <3> QED BY <2>4, <3>1, <3>2
  <2>9. RoomTypes'
    BY <2>4, <2>5, <2>8 DEF RoomTypes, SentTypes
  <2>10. KeysOwned'
    BY <2>1, <2>3, <2>5, <2>7 DEF KeysOwned
  <2>11. ASSUME Apart, ViewAgrees PROVE ViewAgrees'
    <3> SUFFICES ASSUME NEW d \in Conns, NEW u \in Topics, Joined(d, u)', u \in knows'[d]
                 PROVE  Agrees(presence'[u], told'[d][u])
      BY ViewNext
    <3>1. Joined(d, u) /\ u \in knows[d]
      BY <2>3, <2>4, <2>7, EntryIs, EntryNext
    <3>2. Agrees(presence[u], told[d][u])
      BY <2>11, <3>1, ViewIs
    <3>3. told'[d][u] = IF u = t THEN told[d][u] \cup {k} ELSE told[d][u]
      BY <2>8, <3>1
    <3> QED BY <2>5, <2>11, <3>2, <3>3
  <2>12. Recalled => Recalled'
    <3> SUFFICES ASSUME Recalled PROVE Recalled'
      OBVIOUS
    <3>1. ASSUME c \in open', NEW u \in Topics
          PROVE  /\ c \in subscribed'[u] <=> u \in x.topics
                 /\ OneKeyed(c) /\ (\E l \in Keys : Has(presence'[u], c, l)) => x.keys[u] # NoKey
      <4>1. c \in open
        BY <2>4, <3>1
      <4>2. c \in subscribed'[u] <=> u \in x.topics
        BY <2>3, <2>4, <4>1 DEF Recalled, Subscribed
      <4>3. ASSUME OneKeyed(c), NEW l \in Keys, Has(presence'[u], c, l) PROVE x.keys[u] # NoKey
        <5>1. CASE u = t
          BY <1>4, <2>3, <5>1
        <5>2. CASE u # t
          <6>1. Has(presence[u], c, l)
            BY <2>5, <4>3, <5>2
          <6>2. Entry(c).keys[u] # NoKey
            BY <4>1, <4>3, <6>1 DEF Recalled, Remembered
          <6> QED BY <2>3, <5>2, <6>2
        <5> QED BY <5>1, <5>2
      <4> QED BY <4>2, <4>3
    <3>2. \A u \in Topics, d \in Conns, l \in Keys : d # c /\ Has(presence'[u], d, l) => Has(presence[u], d, l)
      BY <2>5
    <3>3. open' \subseteq open /\ \A d \in open', u \in Topics : d # c => (d \in subscribed'[u] <=> d \in subscribed[u])
      BY <2>4
    <3> QED BY <2>6, <3>1, <3>2, <3>3, RecalledBut
  <2> QED BY <2>9, <2>10, <2>11, <2>12 DEF RoomsKept
<1> QED BY <1>3, <1>4

\* A joiner with a key is told the topic's keys and its own, the others its own.
LEMMA JoinTold ==
  ASSUME HubInv, HubInv', RoomTypes, KeysOwned, NEW c \in Conns, NEW t \in Topics, NEW k \in KeysOf[c], k \in Keys,
         presence' = [presence EXCEPT ![t] = Tracked(@, c, k)],
         told' = [Gained(t, k) EXCEPT ![c][t] = KeysIn(presence[t]) \cup {k}],
         knows' = [knows EXCEPT ![c] = @ \cup {t}],
         \A d \in Conns, u \in Topics : Joined(d, u)' => Joined(d, u) \/ (d = c /\ u = t)
  PROVE  /\ told' \in [Conns -> [Topics -> SUBSET Keys]] /\ knows' \in [Conns -> SUBSET Topics]
         /\ Apart /\ ViewAgrees => ViewAgrees'
<1>1. PICK T, N : T = Gained(t, k) /\ N = KeysIn(presence[t]) \cup {k}
  OBVIOUS
<1>2. /\ T \in [Conns -> [Topics -> SUBSET Keys]]
      /\ \A d \in Conns, u \in Topics :
           T[d][u] = IF u = t /\ Joined(d, t) /\ t \in knows[d] THEN told[d][t] \cup {k} ELSE told[d][u]
  <2>1. /\ Gained(t, k) \in [Conns -> [Topics -> SUBSET Keys]]
        /\ \A d \in Conns, u \in Topics :
             Gained(t, k)[d][u] = IF u = t /\ Joined(d, t) /\ t \in knows[d] THEN told[d][t] \cup {k} ELSE told[d][u]
    BY GainedIs
  <2> QED BY <1>1, <2>1
<1>3. N \subseteq Keys
  <2>1. PICK P : P = presence[t] /\ P \in Seq(Member)
    BY DEF RoomTypes
  <2>2. KeysIn(P) \subseteq Keys
    BY <2>1, KeysHad
  <2> QED BY <1>1, <2>1, <2>2
<1>4. told' = [T EXCEPT ![c][t] = N]
  BY <1>1
<1>5. /\ told' \in [Conns -> [Topics -> SUBSET Keys]]
      /\ \A d \in Conns, u \in Topics : told'[d][u] = IF d = c /\ u = t THEN N ELSE T[d][u]
  <2>1. PICK x : x = [T[c] EXCEPT ![t] = N]
    OBVIOUS
  <2>2. x \in [Topics -> SUBSET Keys] /\ \A u \in Topics : x[u] = IF u = t THEN N ELSE T[c][u]
    BY <1>2, <1>3, <2>1
  <2>3. told' = [T EXCEPT ![c] = x]
    BY <1>4, <2>1
  <2>4. told' = [d \in Conns |-> IF d = c THEN x ELSE T[d]]
    BY <1>2, <2>3
  <2> QED BY <1>2, <2>2, <2>4
<1>6. /\ knows' \in [Conns -> SUBSET Topics]
      /\ \A d \in Conns : knows'[d] = IF d = c THEN knows[c] \cup {t} ELSE knows[d]
  BY DEF RoomTypes
<1>7. Apart => \A u \in Topics : \A K : Agrees(presence[u], K) => Agrees(presence'[u], IF u = t THEN K \cup {k} ELSE K)
  BY TracksOne
<1>8. ASSUME Apart, ViewAgrees PROVE ViewAgrees'
  <2> SUFFICES ASSUME NEW d \in Conns, NEW u \in Topics, Joined(d, u)', u \in knows'[d]
               PROVE  Agrees(presence'[u], told'[d][u])
    BY ViewNext
  <2>1. CASE d = c /\ u = t
    <3>1. Agrees(presence[t], KeysIn(presence[t]))
      BY AgreesAsTold
    <3>2. Agrees(presence'[t], N)
      BY <1>1, <1>7, <1>8, <3>1
    <3> QED BY <1>5, <2>1, <3>2
  <2>2. CASE ~(d = c /\ u = t)
    <3>1. Joined(d, u) /\ u \in knows[d]
      BY <1>6, <2>2
    <3>2. Agrees(presence[u], told[d][u])
      BY <1>8, <3>1, ViewIs
    <3>3. told'[d][u] = IF u = t THEN told[d][u] \cup {k} ELSE told[d][u]
      <4>1. told'[d][u] = T[d][u]
        BY <1>5, <2>2
      <4>2. u = t => Joined(d, t) /\ t \in knows[d]
        BY <3>1
      <4> QED BY <1>2, <4>1, <4>2
    <3> QED BY <1>7, <1>8, <3>2, <3>3
  <2> QED BY <2>1, <2>2
<1> QED BY <1>5, <1>6, <1>8

LEMMA JoinRooms ==
  ASSUME HubInv, HubInv', RoomTypes, KeysOwned, References, SentTypes', NEW c \in Conns, NEW i \in DOMAIN queue[c],
         JoinAccepted(c, i)
  PROVE  RoomsKept
<1>1. PICK t, k, e : t = queue[c][i].topic /\ k = queue[c][i].key /\ e = queue[c][i].entry
  OBVIOUS
<1>2. /\ t \in Topics /\ k \in KeysOf[c] \cup {NoKey} /\ Entry(c) \in EntryType /\ KeysOf[c] \subseteq Keys
      /\ \A u \in Topics : Entry(c).keys[u] \in KeysOf[c] \cup {NoKey}
  BY <1>1, MessageIs
<1>3. queue[c][i].pc = "authorize"
  BY DEF JoinAccepted, Awaited
<1>4. e \in 1..Len(heap[c]) /\ Len(heap[c]) \in Nat /\ heap[c][e] \in EntryType
  <2>1. e \in 1..Len(heap[c])
    BY <1>1, <1>3 DEF References
  <2> QED BY <2>1, QueueType, ElementOfSeq
<1>5. PICK x : x = Entered(heap[c][e], t, k)
  OBVIOUS
<1>6. /\ x \in EntryType /\ x.topics = heap[c][e].topics \cup {t}
      /\ \A u \in Topics : x.keys[u] = IF u = t /\ k # NoKey THEN k ELSE heap[c][e].keys[u]
  BY <1>2, <1>4, <1>5 DEF EntryType, Entered
<1>7. /\ heap' = [heap EXCEPT ![c] = [heap[c] EXCEPT ![e] = x]]
      /\ subscribed' = [subscribed EXCEPT ![t] = @ \cup {c}]
      /\ UNCHANGED <<open, clients>>
  BY <1>1, <1>5 DEF JoinAccepted
<1>8. e = clients[c] => heap[c][e] = Entry(c)
  BY <1>4, EntryIs
<1>9. PICK y : y = IF e = clients[c] THEN x ELSE Entry(c)
  OBVIOUS
<1>10. Only(c, y)
  BY <1>4, <1>6, <1>7, <1>9, KeepingOnly
<1>11. \A d \in Conns : Entry(d)' = IF d = c THEN y ELSE Entry(d)
  BY <1>10 DEF Only
<1>12. y.topics \subseteq Entry(c).topics \cup {t} /\ \A u \in Topics : y.keys[u] \in KeysOf[c] \cup {NoKey}
  BY <1>2, <1>6, <1>8, <1>9
<1>13. \A d \in Conns, u \in Topics : Joined(d, u)' => Joined(d, u) \/ (d = c /\ u = t)
  BY <1>11, <1>12, EntryIs, EntryNext
<1>14. /\ subscribed' \in [Topics -> SUBSET Conns]
       /\ \A u \in Topics : subscribed'[u] = IF u = t THEN subscribed[t] \cup {c} ELSE subscribed[u]
  BY <1>2, <1>7 DEF RoomTypes
<1>15. /\ presence' \in [Topics -> Seq(Member)] /\ \A u \in Topics : Fits(presence'[u]) /\ Own(presence'[u])
       /\ \A u \in Topics, d \in Conns, l \in Keys :
            Has(presence'[u], d, l) => Has(presence[u], d, l) \/ (u = t /\ d = c /\ l = k /\ k # NoKey)
       /\ told' \in [Conns -> [Topics -> SUBSET Keys]] /\ knows' \in [Conns -> SUBSET Topics]
       /\ Apart /\ ViewAgrees => ViewAgrees'
  <2>1. CASE k = NoKey
    <3>1. knows' = [knows EXCEPT ![c] = @ \ {t}] /\ told' = [told EXCEPT ![c][t] = {}] /\ UNCHANGED presence
      BY <1>1, <2>1 DEF JoinAccepted
    <3>2. /\ knows' \in [Conns -> SUBSET Topics]
          /\ \A d \in Conns : knows'[d] = IF d = c THEN knows[c] \ {t} ELSE knows[d]
      BY <3>1 DEF RoomTypes
    <3>3. /\ told' \in [Conns -> [Topics -> SUBSET Keys]]
          /\ \A d \in Conns, u \in Topics : told'[d][u] = IF d = c /\ u = t THEN {} ELSE told[d][u]
      BY <1>2, <3>1 DEF RoomTypes
    <3>4. ASSUME ViewAgrees PROVE ViewAgrees'
      <4> SUFFICES ASSUME NEW d \in Conns, NEW u \in Topics, Joined(d, u)', u \in knows'[d]
                   PROVE  Agrees(presence'[u], told'[d][u])
        BY ViewNext
      <4>1. ~(d = c /\ u = t) /\ u \in knows[d] /\ Joined(d, u)
        BY <1>13, <3>2
      <4>2. Agrees(presence[u], told[d][u])
        BY <3>4, <4>1, ViewIs
      <4> QED BY <3>1, <3>3, <4>1, <4>2
    <3> QED BY <3>1, <3>2, <3>3, <3>4 DEF RoomTypes, KeysOwned
  <2>2. CASE k # NoKey
    <3>1. /\ presence' = [presence EXCEPT ![t] = Tracked(@, c, k)]
          /\ told' = [Gained(t, k) EXCEPT ![c][t] = KeysIn(presence[t]) \cup {k}]
          /\ knows' = [knows EXCEPT ![c] = @ \cup {t}]
      BY <1>1, <2>2 DEF JoinAccepted
    <3>2. k \in KeysOf[c] /\ k \in Keys
      BY <1>2, <2>2
    <3>3. /\ presence' \in [Topics -> Seq(Member)] /\ \A u \in Topics : Fits(presence'[u]) /\ Own(presence'[u])
          /\ \A u \in Topics, d \in Conns, l \in Keys :
               Has(presence'[u], d, l) => Has(presence[u], d, l) \/ (u = t /\ d = c /\ l = k)
          /\ Apart => \A u \in Topics : \A K : Agrees(presence[u], K) => Agrees(presence'[u], IF u = t THEN K \cup {k} ELSE K)
      <4>1. presence' = [presence EXCEPT ![t] = Tracked(@, c, k)]
        BY <3>1
      <4> QED BY <1>2, <3>2, <4>1, TracksOne
    <3>4. /\ told' \in [Conns -> [Topics -> SUBSET Keys]] /\ knows' \in [Conns -> SUBSET Topics]
          /\ Apart /\ ViewAgrees => ViewAgrees'
      BY <1>2, <1>13, <3>1, <3>2, JoinTold
    <3> QED BY <2>2, <3>3, <3>4
  <2> QED BY <2>1, <2>2
<1>16. RoomTypes'
  BY <1>7, <1>14, <1>15 DEF RoomTypes, SentTypes
<1>17. KeysOwned'
  BY <1>11, <1>12, <1>15 DEF KeysOwned
<1>18. ASSUME Held, Recalled PROVE Recalled'
  <2>1. ASSUME c \in open', NEW u \in Topics
        PROVE  /\ c \in subscribed'[u] <=> u \in y.topics
               /\ OneKeyed(c) /\ (\E l \in Keys : Has(presence'[u], c, l)) => y.keys[u] # NoKey
    <3>1. c \in open
      BY <1>7, <2>1
    <3>2. e = clients[c]
      BY <1>1, <1>3, <1>18, <3>1 DEF Held
    <3>3. /\ y.topics = Entry(c).topics \cup {t}
          /\ \A v \in Topics : y.keys[v] = IF v = t /\ k # NoKey THEN k ELSE Entry(c).keys[v]
      BY <1>6, <1>8, <1>9, <3>2
    <3>4. c \in subscribed[u] <=> u \in Entry(c).topics
      BY <1>18, <3>1 DEF Recalled, Subscribed
    <3>5. c \in subscribed'[u] <=> u \in y.topics
      BY <1>14, <3>3, <3>4
    <3>6. ASSUME OneKeyed(c), NEW l \in Keys, Has(presence'[u], c, l) PROVE y.keys[u] # NoKey
      <4>1. CASE u = t /\ k # NoKey
        BY <3>3, <4>1
      <4>2. CASE ~(u = t /\ k # NoKey)
        <5>1. Has(presence[u], c, l)
          BY <1>15, <3>6, <4>2
        <5>2. Entry(c).keys[u] # NoKey
          BY <1>18, <3>1, <3>6, <5>1 DEF Recalled, Remembered
        <5> QED BY <3>3, <4>2, <5>2
      <4> QED BY <4>1, <4>2
    <3> QED BY <3>5, <3>6
  <2>2. \A u \in Topics, d \in Conns, l \in Keys : d # c /\ Has(presence'[u], d, l) => Has(presence[u], d, l)
    BY <1>15
  <2>3. open' \subseteq open /\ \A d \in open', u \in Topics : d # c => (d \in subscribed'[u] <=> d \in subscribed[u])
    BY <1>7, <1>14
  <2> QED BY <1>10, <1>18, <2>1, <2>2, <2>3, RecalledBut
<1> QED BY <1>15, <1>16, <1>17, <1>18 DEF RoomsKept

\* What a heartbeat and the passing of time change.
LEMMA RefreshRooms ==
  ASSUME HubInv, HubInv', RoomTypes, KeysOwned, References, SentTypes', NEW c \in Conns, NEW i \in DOMAIN queue[c],
         Heartbeat(c, i)
  PROVE  RoomsKept
<1>1. /\ presence' = [t \in Topics |-> IF Entry(c).keys[t] # NoKey THEN Refreshed(presence[t], c) ELSE presence[t]]
      /\ Fetch(c) /\ UNCHANGED <<open, subscribed, told, knows>>
  BY DEF Heartbeat
<1>2. Same
  BY <1>1, FetchOnly
<1>3. ASSUME NEW P, Fits(P)
      PROVE  Fits(Refreshed(P, c)) /\ \A d \in Conns, k \in Keys : Has(Refreshed(P, c), d, k) <=> Has(P, d, k)
  <2>1. PICK Q : Q = Refreshed(P, c)
    OBVIOUS
  <2>2. P \in Seq(Member) /\ Len(P) \in Nat /\ DOMAIN P = 1..Len(P) /\ \A j \in DOMAIN P : P[j] \in Member
    BY <1>3, ElementOfSeq, LenProperties DEF Fits
  <2>3. Q = [j \in DOMAIN P |-> IF P[j].conn = c THEN [P[j] EXCEPT !.stale = FALSE] ELSE P[j]]
    BY <2>1 DEF Refreshed
  <2>4. DOMAIN Q = DOMAIN P /\ \A j \in DOMAIN P : Q[j] \in Member /\ Q[j].conn = P[j].conn /\ Q[j].key = P[j].key
    BY <2>2, <2>3 DEF Member
  <2>5. Q \in [1..Len(P) -> Member]
    BY <2>2, <2>3, <2>4
  <2>6. Q \in Seq(Member)
    BY <2>2, <2>5, SeqDef
  <2> QED BY <1>3, <2>1, <2>4, <2>6, Marked
<1>4. \A t \in Topics : Fits(presence'[t]) /\ \A d \in Conns, k \in Keys : Has(presence'[t], d, k) <=> Has(presence[t], d, k)
  BY <1>1, <1>3 DEF RoomTypes
<1>5. presence' \in [Topics -> Seq(Member)]
  BY <1>1, <1>4 DEF Fits
<1> QED BY <1>1, <1>2, <1>4, <1>5, QuietRooms

LEMMA AgeRooms ==
  ASSUME HubInv, HubInv', RoomTypes, KeysOwned, SentTypes', NEW t \in Topics, NEW i \in DOMAIN presence[t], Age(t, i)
  PROVE  RoomsKept
<1>1. PICK P : P = presence[t]
  OBVIOUS
<1>2. PICK e : e = [P[i] EXCEPT !.stale = TRUE]
  OBVIOUS
<1>3. PICK Q : Q = [P EXCEPT ![i] = e]
  OBVIOUS
<1>4. /\ presence' = [presence EXCEPT ![t] = [presence[t] EXCEPT ![i] = [presence[t][i] EXCEPT !.stale = TRUE]]]
      /\ UNCHANGED <<open, heap, clients, subscribed, told, knows>>
  BY DEF Age
<1>5. presence' = [presence EXCEPT ![t] = Q]
  BY <1>1, <1>2, <1>3, <1>4
<1>6. Same
  BY <1>4, NoneOnly
<1>7. Fits(P) /\ P \in Seq(Member) /\ Len(P) \in Nat /\ DOMAIN P = 1..Len(P) /\ i \in DOMAIN P /\ P[i] \in Member
  <2>1. Fits(P) /\ P \in Seq(Member) /\ i \in DOMAIN P
    BY <1>1 DEF RoomTypes
  <2> QED BY <2>1, ElementOfSeq, LenProperties
<1>8. e \in Member /\ e.conn = P[i].conn /\ e.key = P[i].key
  BY <1>2, <1>7 DEF Member
<1>9. Q \in Seq(Member) /\ DOMAIN Q = DOMAIN P /\ \A j \in DOMAIN P : Q[j].conn = P[j].conn /\ Q[j].key = P[j].key
  <2>1. Q \in Seq(Member) /\ Len(Q) = Len(P) /\ \A j \in 1..Len(P) : Q[j] = IF j = i THEN e ELSE P[j]
    BY <1>3, <1>7, <1>8, ExceptSeq
  <2> QED BY <1>7, <1>8, <2>1
<1>10. Fits(Q) /\ \A d \in Conns, k \in Keys : Has(Q, d, k) <=> Has(P, d, k)
  BY <1>7, <1>9, Marked
<1>11. presence' = [u \in Topics |-> IF u = t THEN Q ELSE presence[u]]
  BY <1>5 DEF RoomTypes
<1>12. \A u \in Topics : Fits(presence'[u]) /\ \A d \in Conns, k \in Keys : Has(presence'[u], d, k) <=> Has(presence[u], d, k)
  BY <1>1, <1>10, <1>11 DEF RoomTypes
<1>13. presence' \in [Topics -> Seq(Member)]
  BY <1>11, <1>12 DEF Fits
<1> QED BY <1>4, <1>6, <1>12, <1>13, QuietRooms

(***************************************************************************)
(* The invariant.                                                          *)
(***************************************************************************)
RoomInv == HubInv /\ RoomTypes /\ KeysOwned /\ References
\* What a step keeps of it, and of what the views and the sockets need.
HubKept == References' /\ RoomsKept /\ ("expire" \notin Kinds /\ Held => Held')

LEMMA FetchStays ==
  ASSUME HubInv, NEW c \in Conns, clients' = [clients EXCEPT ![c] = Ref(c)], UNCHANGED open, open \subseteq Conns
  PROVE  Staying
<1>1. \A d \in Conns : clients'[d] = IF d = c THEN Ref(c) ELSE clients[d]
  BY DEF HubInv, HeapTypes
<1>2. clients[c] # 0 => Ref(c) = clients[c]
  BY DEF Ref
<1> QED BY <1>1, <1>2 DEF Staying

LEMMA ServedKept ==
  ASSUME RoomInv, HubInv', NEW c \in Conns, NEW i \in DOMAIN queue[c], Done(c, i), Growing,
         RoomsKept, "expire" \notin Kinds => Staying
  PROVE  HubKept
<1>1. gen' \in [Conns -> Nat] /\ HeapTypes' /\ open \subseteq Conns
  BY DEF HubInv, QueueTypes, RoomInv, RoomTypes
<1>2. References' /\ (Held /\ Staying => Held')
  BY <1>1, DoneRefers DEF RoomInv
<1> QED BY <1>2 DEF HubKept

LEMMA AwaitedKept ==
  ASSUME RoomInv, HubInv', NEW c \in Conns, NEW i \in DOMAIN queue[c], NEW ev, Turn(c, i, ev), Await(c, i), Fetch(c),
         UNCHANGED <<gen, open>>, RoomsKept
  PROVE  HubKept
<1>1. HeapTypes' /\ open \subseteq Conns /\ HubInv
  BY DEF HubInv, RoomInv, RoomTypes
<1>2. Growing /\ clients' = [clients EXCEPT ![c] = Ref(c)] /\ Ref(c) \in 1..Len(heap'[c])
  BY <1>1, FetchOnly DEF Same, Growing
<1>3. References' /\ (Held => Held')
  BY <1>1, <1>2, AwaitRefers DEF RoomInv
<1> QED BY <1>3 DEF HubKept

LEMMA ProcessKept ==
  ASSUME RoomInv, NEW c \in Conns, NEW i \in DOMAIN queue[c], Process(c, i)
  PROVE  HubInv' /\ HubKept
<1>1. HubInv' /\ HubInv /\ RoomTypes /\ KeysOwned /\ References /\ open \subseteq Conns /\ UNCHANGED <<open, gen>>
  BY ProcessInv DEF RoomInv, RoomTypes
<1>2. SentTypes' /\ UNCHANGED sent
  <2>1. UNCHANGED sent
    BY DEF Process, Limited, JoinStart, Leave, Broadcast, Track, Untrack, Heartbeat
  <2> QED BY <1>1, <2>1 DEF RoomTypes, SentTypes
<1>3. ASSUME Fetch(c) PROVE Same /\ Growing /\ Staying
  BY <1>1, <1>3, FetchOnly, FetchStays DEF Same, Growing
<1>4. ASSUME NEW x \in EntryType, FetchSet(c, x) PROVE Growing /\ Staying
  <2>1. Only(c, x) /\ clients' = [clients EXCEPT ![c] = Ref(c)]
    BY <1>1, <1>4, FetchSetOnly
  <2>2. Staying
    BY <1>1, <2>1, FetchStays
  <2> QED BY <2>1, <2>2 DEF Only, Growing
<1>5. CASE Limited(c, i)
  <2>1. UNCHANGED <<heap, clients, subscribed, presence, told, knows>> /\ Done(c, i)
    BY <1>5 DEF Limited
  <2>2. Same
    BY <1>1, <2>1, NoneOnly
  <2>3. RoomsKept
    BY <1>1, <1>2, <2>1, <2>2, StillRooms
  <2>4. Growing /\ Staying
    BY <1>1, <2>1, <2>2 DEF Same, Growing, Staying
  <2> QED BY <1>1, <2>1, <2>3, <2>4, ServedKept
<1>6. CASE JoinStart(c, i)
  <2>1. Turn(c, i, "join") /\ Fetch(c) /\ Await(c, i) /\ UNCHANGED <<subscribed, presence, told, knows>>
    BY <1>6 DEF JoinStart
  <2>2. RoomsKept
    BY <1>1, <1>2, <1>3, <2>1, StillRooms
  <2> QED BY <1>1, <2>1, <2>2, AwaitedKept
<1>7. CASE Leave(c, i)
  <2>1. PICK x : x = [Entry(c) EXCEPT !.topics = @ \ {queue[c][i].topic}, !.keys[queue[c][i].topic] = NoKey]
    OBVIOUS
  <2>2. x \in EntryType
    <3>1. Entry(c) \in EntryType /\ queue[c][i].topic \in Topics
      BY <1>1, MessageIs
    <3> QED BY <2>1, <3>1 DEF EntryType
  <2>3. FetchSet(c, x) /\ Done(c, i)
    BY <1>7, <2>1 DEF Leave
  <2> QED BY <1>1, <1>4, <1>7, <2>2, <2>3, LeaveRooms, ServedKept
<1>8. CASE Broadcast(c, i)
  <2>1. Fetch(c) /\ Done(c, i) /\ UNCHANGED <<subscribed, presence, told, knows>>
    BY <1>8 DEF Broadcast
  <2>2. RoomsKept
    BY <1>1, <1>2, <1>3, <2>1, StillRooms
  <2> QED BY <1>1, <1>3, <2>1, <2>2, ServedKept
<1>9. CASE Track(c, i)
  <2>1. PICK x : x = [Entry(c) EXCEPT !.keys[queue[c][i].topic] = queue[c][i].key]
    OBVIOUS
  <2>2. x \in EntryType
    <3>1. Entry(c) \in EntryType /\ queue[c][i].topic \in Topics /\ queue[c][i].key \in Keys \cup {NoKey}
      BY <1>1, MessageIs
    <3> QED BY <2>1, <3>1 DEF EntryType
  <2>3. (Fetch(c) \/ FetchSet(c, x)) /\ Done(c, i)
    BY <1>9, <2>1 DEF Track
  <2>4. Growing /\ Staying
    BY <1>3, <1>4, <2>2, <2>3
  <2>5. RoomsKept
    BY <1>1, <1>2, <1>9, TrackRooms
  <2> QED BY <1>1, <2>3, <2>4, <2>5, ServedKept
<1>10. CASE Untrack(c, i)
  <2>1. PICK x : x = [Entry(c) EXCEPT !.keys[queue[c][i].topic] = NoKey]
    OBVIOUS
  <2>2. x \in EntryType
    <3>1. Entry(c) \in EntryType /\ queue[c][i].topic \in Topics
      BY <1>1, MessageIs
    <3> QED BY <2>1, <3>1 DEF EntryType
  <2>3. (Fetch(c) \/ FetchSet(c, x)) /\ Done(c, i)
    BY <1>10, <2>1 DEF Untrack
  <2>4. Growing /\ Staying
    BY <1>3, <1>4, <2>2, <2>3
  <2>5. RoomsKept
    BY <1>1, <1>2, <1>10, UntrackRooms
  <2> QED BY <1>1, <2>3, <2>4, <2>5, ServedKept
<1>11. CASE Heartbeat(c, i)
  <2>1. Turn(c, i, "heartbeat") /\ Fetch(c) /\ (Await(c, i) \/ Done(c, i))
    BY <1>11 DEF Heartbeat
  <2>2. RoomsKept
    BY <1>1, <1>2, <1>11, RefreshRooms
  <2>3. Growing /\ Staying
    BY <1>3, <2>1
  <2>4. CASE Await(c, i)
    BY <1>1, <2>1, <2>2, <2>4, AwaitedKept
  <2>5. CASE Done(c, i)
    BY <1>1, <2>2, <2>3, <2>5, ServedKept
  <2> QED BY <1>1, <2>1, <2>4, <2>5
<1> QED BY <1>1, <1>5, <1>6, <1>7, <1>8, <1>9, <1>10, <1>11 DEF Process

LEMMA AuthorizedKept ==
  ASSUME RoomInv, NEW c \in Conns, NEW i \in DOMAIN queue[c], Authorized(c, i)
  PROVE  HubInv' /\ HubKept
<1>1. HubInv' /\ HubInv /\ RoomTypes /\ KeysOwned /\ References /\ open \subseteq Conns /\ UNCHANGED open
  BY AuthorizedInv DEF RoomInv, RoomTypes
<1>2. SentTypes' /\ UNCHANGED sent
  <2>1. UNCHANGED sent
    BY DEF Authorized, JoinDenied, JoinAccepted, HeartbeatValid, HeartbeatInvalid
  <2> QED BY <1>1, <2>1 DEF RoomTypes, SentTypes
<1>3. Done(c, i)
  BY DEF Authorized, JoinDenied, JoinAccepted, HeartbeatValid, HeartbeatInvalid
<1>4. PICK e : e = queue[c][i].entry
  OBVIOUS
<1>5. e \in 1..Len(heap[c]) /\ heap[c][e] \in EntryType
  <2>1. queue[c][i].pc = "authorize"
    BY DEF Authorized, JoinDenied, JoinAccepted, HeartbeatValid, HeartbeatInvalid, Awaited
  <2>2. e \in 1..Len(heap[c])
    BY <1>1, <1>4, <2>1 DEF References
  <2> QED BY <1>1, <2>2, QueueType, ElementOfSeq
<1>6. ASSUME UNCHANGED clients PROVE Staying
  BY <1>1, <1>6 DEF Staying
<1>7. CASE JoinDenied(c, i)
  <2>1. UNCHANGED <<heap, clients, subscribed, presence, told, knows>>
    BY <1>7 DEF JoinDenied
  <2>2. Same
    BY <1>1, <2>1, NoneOnly
  <2>3. RoomsKept
    BY <1>1, <1>2, <2>1, <2>2, StillRooms
  <2>4. Growing
    BY <2>2 DEF Same, Growing
  <2> QED BY <1>1, <1>3, <1>6, <2>1, <2>3, <2>4, ServedKept
<1>8. CASE JoinAccepted(c, i)
  <2>1. PICK x : x = Entered(heap[c][e], queue[c][i].topic, queue[c][i].key)
    OBVIOUS
  <2>2. x \in EntryType
    <3>1. queue[c][i].topic \in Topics /\ queue[c][i].key \in Keys \cup {NoKey}
      BY <1>1, MessageIs
    <3> QED BY <1>5, <2>1, <3>1 DEF EntryType, Entered
  <2>3. heap' = [heap EXCEPT ![c] = [heap[c] EXCEPT ![e] = x]] /\ UNCHANGED clients
    BY <1>4, <1>8, <2>1 DEF JoinAccepted
  <2>4. Growing
    BY <1>1, <1>5, <2>2, <2>3, KeepingOnly DEF Only, Growing
  <2>5. RoomsKept
    BY <1>1, <1>2, <1>8, JoinRooms
  <2> QED BY <1>1, <1>3, <1>6, <2>3, <2>4, <2>5, ServedKept
<1>9. CASE HeartbeatValid(c, i)
  <2>1. PICK x : x = [heap[c][e] EXCEPT !.context = TRUE]
    OBVIOUS
  <2>2. x \in EntryType /\ x.topics = heap[c][e].topics /\ x.keys = heap[c][e].keys
    BY <1>5, <2>1 DEF EntryType
  <2>3. /\ heap' = [heap EXCEPT ![c] = [heap[c] EXCEPT ![e] = x]]
        /\ UNCHANGED <<clients, subscribed, presence, told, knows>>
    BY <1>4, <1>9, <2>1 DEF HeartbeatValid
  <2>4. Only(c, IF e = clients[c] THEN x ELSE Entry(c))
    BY <1>1, <1>5, <2>2, <2>3, KeepingOnly
  <2>5. e = clients[c] => heap[c][e] = Entry(c)
    BY <1>1, <1>5, EntryIs
  <2>6. Same /\ Growing
    BY <2>2, <2>4, <2>5 DEF Only, Same, Growing
  <2>7. RoomsKept
    BY <1>1, <1>2, <2>3, <2>6, StillRooms
  <2> QED BY <1>1, <1>3, <1>6, <2>3, <2>6, <2>7, ServedKept
<1>10. CASE HeartbeatInvalid(c, i)
  <2>1. UNCHANGED <<heap, subscribed>> /\ "expire" \in Kinds
    BY <1>10 DEF HeartbeatInvalid
  <2>2. Growing
    BY <1>1, <2>1, QueueType DEF Growing
  <2>3. CASE RemoveClient(c)
    <3>1. subscribed' \in [Topics -> SUBSET Conns]
          /\ \A d \in open', t \in Topics : d # c => (d \in subscribed'[t] <=> d \in subscribed[t])
      BY <1>1, <2>1 DEF RoomTypes
    <3>2. RoomsKept
      BY <1>1, <1>2, <2>1, <2>3, <3>1, RemovingRooms
    <3> QED BY <1>1, <1>3, <2>1, <2>2, <3>2, ServedKept
  <2>4. CASE UNCHANGED <<gen, clients, presence, told, knows>>
    <3>1. Same
      BY <1>1, <2>1, <2>4, NoneOnly
    <3>2. RoomsKept
      BY <1>1, <1>2, <2>1, <2>4, <3>1, StillRooms
    <3> QED BY <1>1, <1>3, <2>1, <2>2, <3>2, ServedKept
  <2> QED BY <1>10, <2>3, <2>4 DEF HeartbeatInvalid
<1> QED BY <1>7, <1>8, <1>9, <1>10 DEF Authorized

LEMMA ArriveKept ==
  ASSUME RoomInv, NEW c \in Conns, Arrive(c)
  PROVE  HubInv' /\ HubKept
<1>1. PICK ev \in Events, t \in Topics, k \in KeysOf[c] \cup {NoKey}, token \in BOOLEAN : Send(c, ev, t, k, token)
  BY DEF Arrive, Events
<1>2. k \in Keys \cup {NoKey}
  BY KeysOfAssumption
<1>3. HubInv /\ RoomTypes /\ KeysOwned /\ References /\ open \subseteq Conns
  BY DEF RoomInv, RoomTypes
<1>4. HubInv'
  BY <1>1, <1>2, <1>3, SendInv
<1>5. References' /\ (Held => Held')
  BY <1>1, <1>3, SendRefers
<1>6. UNCHANGED <<open, heap, clients, subscribed, presence, told, knows>>
      /\ sent[c] < MaxSent[c] /\ sent' = [sent EXCEPT ![c] = @ + 1]
  BY <1>1 DEF Send
<1>7. SentTypes'
  <2>1. sent \in [Conns -> Nat] /\ \A d \in Conns : sent[d] <= MaxSent[d]
    BY <1>3 DEF RoomTypes
  <2>2. sent' = [d \in Conns |-> IF d = c THEN sent[c] + 1 ELSE sent[d]]
    BY <1>6, <2>1
  <2>3. sent[c] \in Nat /\ MaxSent[c] \in Nat
    BY <2>1, MaxSentAssumption
  <2>4. sent[c] + 1 \in Nat /\ sent[c] + 1 <= MaxSent[c]
    BY <1>6, <2>3
  <2> QED BY <2>1, <2>2, <2>4 DEF SentTypes
<1>8. Same
  BY <1>3, <1>4, <1>6, NoneOnly
<1>9. RoomsKept
  BY <1>3, <1>4, <1>6, <1>7, <1>8, StillRooms
<1> QED BY <1>4, <1>5, <1>9 DEF HubKept

\* A step of the sockets or of time, which serves no message.
LEMMA UnservedKept ==
  ASSUME RoomInv, HubInv', UNCHANGED <<queue, heap>>, Staying, RoomsKept
  PROVE  HubKept
<1>1. HubInv /\ References /\ open \subseteq Conns /\ HeapTypes'
  BY DEF RoomInv, RoomTypes, HubInv
<1>2. Growing
  BY <1>1, QueueType DEF Growing
<1>3. References' /\ (Held /\ Staying => Held')
  BY <1>1, <1>2, QuietRefers
<1> QED BY <1>3 DEF HubKept

LEMMA CloseKept ==
  ASSUME RoomInv, NEW c \in Conns, Close(c)
  PROVE  HubInv' /\ HubKept
<1>1. HubInv' /\ HubInv /\ RoomTypes /\ KeysOwned /\ open \subseteq Conns
  BY CloseInv DEF RoomInv, RoomTypes
<1>2. /\ open' = open \ {c} /\ subscribed' = [t \in Topics |-> subscribed[t] \ {c}]
      /\ RemoveClient(c) /\ UNCHANGED <<sent, queue, heap>>
  BY DEF Close
<1>3. /\ open' \subseteq open /\ c \notin open' /\ subscribed' \in [Topics -> SUBSET Conns]
      /\ \A d \in open', t \in Topics : d # c => (d \in subscribed'[t] <=> d \in subscribed[t])
  BY <1>1, <1>2 DEF RoomTypes
<1>4. RoomsKept
  BY <1>1, <1>2, <1>3, RemovingRooms
<1>5. Staying
  <2>1. clients' = [clients EXCEPT ![c] = 0]
    BY <1>2 DEF RemoveClient
  <2>2. \A d \in Conns : d # c => clients'[d] = clients[d]
    BY <1>1, <2>1 DEF HubInv, HeapTypes
  <2> QED BY <1>1, <1>3, <2>2 DEF Staying
<1> QED BY <1>1, <1>2, <1>4, <1>5, UnservedKept

LEMMA TimeKept ==
  ASSUME RoomInv, Ages \/ Sweep \/ UNCHANGED hubVars
  PROVE  HubInv' /\ HubKept
<1>1. UNCHANGED <<open, sent, queue, gen, heap, clients, subscribed, knows>>
  BY DEF Ages, Age, Sweep, hubVars
<1>2. HubInv' /\ HubInv /\ RoomTypes /\ KeysOwned /\ SentTypes'
  BY <1>1, TimeInv DEF RoomInv, RoomTypes, SentTypes
<1>3. Staying
  BY <1>1 DEF Staying
<1>4. RoomsKept
  <2>1. CASE Ages
    BY <1>2, <2>1, AgeRooms DEF Ages
  <2>2. CASE Sweep
    BY <1>2, <2>2, SweepRooms
  <2>3. CASE UNCHANGED hubVars
    <3>1. Same
      BY <1>1, <1>2, NoneOnly
    <3> QED BY <1>1, <1>2, <2>3, <3>1, StillRooms DEF hubVars
  <2> QED BY <2>1, <2>2, <2>3
<1> QED BY <1>1, <1>2, <1>3, <1>4, UnservedKept

LEMMA HubNextKept == ASSUME RoomInv, [HubNext]_hubVars PROVE RoomInv' /\ HubKept
<1>1. HubInv' /\ HubKept
  <2>1. ASSUME NEW c \in Conns, Serve(c) PROVE HubInv' /\ HubKept
    BY <2>1, ProcessKept, AuthorizedKept DEF Serve
  <2> QED BY <2>1, ArriveKept, CloseKept, TimeKept DEF HubNext
<1> QED BY <1>1 DEF RoomInv, HubKept, RoomsKept

LEMMA HubInitRooms == HubInit => RoomInv /\ ViewAgrees /\ Held /\ Recalled
<1> SUFFICES ASSUME HubInit PROVE RoomInv /\ ViewAgrees /\ Held /\ Recalled
  OBVIOUS
<1>1. HubInv
  BY HubInitInv
<1>2. \A c \in Conns : queue[c] = <<>> /\ DOMAIN queue[c] = {} /\ clients[c] = 0 /\ knows[c] = {}
  BY DEF HubInit
<1>3. \A t \in Topics : presence[t] = <<>> /\ subscribed[t] = {}
  BY DEF HubInit
<1>4. PICK P : P = <<>>
  OBVIOUS
<1>5. \A c \in Conns : EntriesOf(P, c) = {} /\ \A k : ~Has(P, c, k)
  BY <1>4 DEF EntriesOf, Has
<1>6. P \in Seq(Member) /\ Fits(P) /\ Own(P)
  <2>1. P \in Seq(Member)
    BY <1>4
  <2>2. Cardinality({}) = 0 /\ MaxEntries \in Nat
    BY FS_EmptySet, MaxEntriesAssumption
  <2>3. \A c \in Conns : Cardinality(EntriesOf(P, c)) <= MaxEntries
    BY <1>5, <2>2
  <2>4. Single(P)
    BY <1>5 DEF Single
  <2>5. Own(P)
    BY <1>5 DEF Own
  <2> QED BY <2>1, <2>3, <2>4, <2>5 DEF Fits
<1>7. \A c \in Conns : Entry(c) = NewEntry
  BY <1>1, <1>2, EntryIs
<1>8. RoomTypes
  <2>1. presence \in [Topics -> Seq(Member)] /\ \A t \in Topics : Fits(presence[t])
    BY <1>3, <1>4, <1>6 DEF HubInit
  <2>2. sent \in [Conns -> Nat] /\ \A c \in Conns : sent[c] <= MaxSent[c]
    BY MaxSentAssumption DEF HubInit
  <2>3. open \subseteq Conns /\ subscribed \in [Topics -> SUBSET Conns]
        /\ told \in [Conns -> [Topics -> SUBSET Keys]] /\ knows \in [Conns -> SUBSET Topics]
    BY DEF HubInit
  <2> QED BY <2>1, <2>2, <2>3 DEF RoomTypes
<1>9. KeysOwned
  BY <1>3, <1>4, <1>6, <1>7 DEF KeysOwned, NewEntry
<1>10. References /\ Held
  BY <1>2 DEF References, Held, HubInit
<1>11. ViewAgrees
  BY <1>2 DEF ViewAgrees
<1>12. Recalled
  BY <1>3, <1>4, <1>5, <1>7 DEF Recalled, Subscribed, Remembered, NewEntry, HubInit
<1> QED BY <1>1, <1>8, <1>9, <1>10, <1>11, <1>12 DEF RoomInv

\* Every variable of the hub has its type, and no client ever has more presence
\* entries on a topic than the cap allows or two of one key, for any connections,
\* topics, keys and cap, whatever expires, closes or is denied.
THEOREM HubTypes == HubSpec => []HubTypeOK
<1>1. RoomInv => HubTypeOK
  <2> SUFFICES ASSUME RoomInv PROVE HubTypeOK
    OBVIOUS
  <2>1. /\ open \subseteq Conns
        /\ sent \in [Conns -> Nat] /\ \A c \in Conns : sent[c] <= MaxSent[c]
        /\ subscribed \in [Topics -> SUBSET Conns]
        /\ told \in [Conns -> [Topics -> SUBSET Keys]]
        /\ knows \in [Conns -> SUBSET Topics]
    BY DEF RoomInv, RoomTypes
  <2>2. presence \in [Topics -> Seq([conn : Conns, key : Keys, stale : BOOLEAN])]
    BY DEF RoomInv, RoomTypes, Member
  <2>3. \A t \in Topics, c \in Conns :
          /\ Cardinality(EntriesOf(presence[t], c)) <= MaxEntries
          /\ \A i, j \in EntriesOf(presence[t], c) : presence[t][i].key = presence[t][j].key => i = j
    BY DEF RoomInv, RoomTypes, Fits, Single
  <2>4. queue \in [Conns -> Seq(MessageType)] /\ gen \in [Conns -> Nat] /\ heap \in [Conns -> Seq(EntryType)]
    BY DEF RoomInv, HubInv, QueueTypes, HeapTypes
  <2>5. \A c \in Conns : clients[c] \in 0..Len(heap[c])
    BY QueueType DEF RoomInv
  <2>6. \A c \in Conns : \A i \in DOMAIN queue[c] :
          queue[c][i].pc = "authorize" => queue[c][i].entry \in 1..Len(heap[c])
    BY DEF RoomInv, References
  <2> QED BY <2>1, <2>2, <2>3, <2>4, <2>5, <2>6 DEF HubTypeOK
<1>2. HubInit => RoomInv
  BY HubInitRooms
<1>3. RoomInv /\ [HubNext]_hubVars => RoomInv'
  BY HubNextKept
<1> QED BY <1>1, <1>2, <1>3, PTL DEF HubSpec

\* What a client was told of a topic it has joined agrees with the topic's presence,
\* also when tokens expire, as long as no two connections use the same presence key:
\* the messages name the keys that come and go and not whose they were, so that one
\* connection's leave takes a key it shares with another from everybody's picture.
THEOREM ViewsAgree ==
  ASSUME Apart
  PROVE  HubSpec => []ViewAgrees
<1>1. RoomInv /\ ViewAgrees /\ [HubNext]_hubVars => RoomInv' /\ ViewAgrees'
  BY HubNextKept DEF HubKept, RoomsKept
<1>2. HubInit => RoomInv /\ ViewAgrees
  BY HubInitRooms
<1> QED BY <1>1, <1>2, PTL DEF HubSpec

LEMMA LeftNothing ==
  ASSUME RoomInv, RoomInv', Held, Recalled, NEW c \in open, NEW i \in DOMAIN queue[c], OneKeyed(c), Leave(c, i)
  PROVE  EntriesOf(presence'[queue[c][i].topic], c) = {}
<1>1. PICK t, k : t = queue[c][i].topic /\ k = Entry(c).keys[t]
  OBVIOUS
<1>2. HubInv /\ RoomTypes /\ KeysOwned /\ References /\ c \in Conns
  BY DEF RoomInv, RoomTypes
<1>3. t \in Topics /\ k \in KeysOf[c] \cup {NoKey} /\ k \in Keys \cup {NoKey}
  BY <1>1, <1>2, MessageIs
<1>4. PICK K : K = [u \in Topics |-> IF u = t THEN k ELSE NoKey]
  OBVIOUS
<1>5. presence' = [presence EXCEPT ![t] = Without(@, c, k)]
  BY <1>1 DEF Leave
<1>6. Untracks(c, K)
  BY <1>2, <1>3, <1>4, <1>5, UntracksOne
<1>7. ~\E l \in Keys : Has(presence'[t], c, l)
  <2>1. CASE k = NoKey
    <3>1. ~\E l \in Keys : Has(presence[t], c, l)
      BY <1>1, <1>3, <2>1 DEF Recalled, Remembered
    <3> QED BY <1>2, <1>3, <1>6, <3>1 DEF Untracks
  <2>2. CASE k # NoKey
    <3>1. K[t] \in KeysOf[c]
      BY <1>3, <1>4, <2>2
    <3> QED BY <1>2, <1>3, <1>6, <3>1, OneKeyGone
  <2> QED BY <2>1, <2>2
<1>8. PICK Q : Q = presence'[t]
  OBVIOUS
<1>9. Q \in Seq(Member)
  BY <1>3, <1>8 DEF RoomInv, RoomTypes
<1>10. \A j \in DOMAIN Q : Q[j].key \in Keys
  <2>1. \A j \in DOMAIN Q : Q[j] \in Member
    BY <1>9, ElementOfSeq, LenProperties
  <2> QED BY <2>1 DEF Member
<1>11. \A j \in EntriesOf(Q, c) : j \in DOMAIN Q /\ Has(Q, c, Q[j].key)
  BY DEF EntriesOf, Has
<1> QED BY <1>1, <1>7, <1>8, <1>10, <1>11

\* Hub, sockets and clients agree on who is in a topic, for any connections, topics
\* and caps, as long as no two connections share a presence key and no heartbeat's
\* token has expired: that heartbeat takes the client out of the map and leaves its
\* socket open and subscribed.
THEOREM HubAgrees ==
  ASSUME Apart, "expire" \notin Kinds
  PROVE  HubSpec => RoomsAgree
<1> DEFINE Inv == RoomInv /\ ViewAgrees /\ Held /\ Recalled
<1>1. HubInit => Inv
  BY HubInitRooms
<1>2. Inv /\ [HubNext]_hubVars => Inv'
  BY HubNextKept DEF HubKept, RoomsKept
<1>3. Inv => SubscriptionMatchesJoin
  <2> SUFFICES ASSUME Inv, NEW c \in open, NEW t \in Topics PROVE c \in subscribed[t] <=> Joined(c, t)
    BY DEF SubscriptionMatchesJoin
  <2>1. c \in Conns /\ HubInv
    BY DEF RoomInv, RoomTypes
  <2> QED BY <2>1, EntryIs DEF Recalled, Subscribed
<1>4. Inv /\ [HubNext]_hubVars =>
        [\A c \in open : \A i \in DOMAIN queue[c] :
           OneKeyed(c) /\ Leave(c, i) => EntriesOf(presence'[queue[c][i].topic], c) = {}]_hubVars
  BY <1>2, LeftNothing
<1> QED BY <1>1, <1>2, <1>3, <1>4, PTL DEF HubSpec, RoomsAgree, LeaveClearsPresence

(***************************************************************************)
(* The three side by side: each one behaves as it does alone.              *)
(***************************************************************************)
LEMMA EachIsItself == Spec => HubSpec /\ ListenerSpec /\ FeedSpec
<1>1. Init => HubInit /\ ListenerInit /\ FeedInit
  BY DEF Init
<1>2. [Next]_vars => [HubNext]_hubVars
  BY DEF Next, InHub, InListener, InChanges, vars
<1>3. [Next]_vars => [ListenerNext]_listenerVars
  BY DEF Next, InHub, InListener, InChanges, vars
<1>4. [Next]_vars => [FeedNext]_feedVars
  BY DEF Next, InHub, InListener, InChanges, vars
<1> QED BY <1>1, <1>2, <1>3, <1>4, PTL DEF Spec, HubSpec, ListenerSpec, FeedSpec

\* The variables of hub, listener and row changes have their types, for any
\* connections, topics, failures, writers and clients.
THEOREM FeedTypes == Spec => []TypeOK
<1>1. HubTypeOK /\ ListenerTypeOK /\ FeedTypeOK => TypeOK
  BY DEF TypeOK
<1> QED BY <1>1, EachIsItself, HubTypes, ListenerHoldsOne, ChangesReachReadersOnce, PTL
=============================================================================
