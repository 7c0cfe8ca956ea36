------------------------------ MODULE EdgeFunctions ------------------------------
(***************************************************************************)
(* Calls of one edge function while its file is managed                    *)
(* (src/plugins/drop-functions: routes/execute.ts, routes/manage.ts,       *)
(* sandbox.ts, sandbox-worker.ts).                                         *)
(*                                                                         *)
(* A version of the file is what its module does and whether its config    *)
(* asks for a caller.  A call imports the file twice: in the server, for   *)
(* its config, and later in a worker, which runs it.                       *)
(***************************************************************************)
EXTENDS Integers, Sequences

CONSTANTS
    Calls,       \* slots for concurrent calls
    Bodies,      \* what modules do
    MaxVersions  \* bound: versions ever written

ASSUME FunctionBounds ==
    /\ MaxVersions \in Nat
    /\ Bodies \subseteq {"answers",  \* the handler returns or throws
                         "loops",    \* the handler never returns
                         "broken",   \* cannot be imported, or has no handler
                         "waits",    \* awaits at its top level, forever
                         "spins"}    \* loops at its top level, forever

Callers == {"nobody", "user", "service"}

VARIABLES
    code,     \* every version written
    file,     \* the version in the directory, 0 for none
    call,     \* what each call is doing, for whom, and the versions it has seen
    stopped   \* an import in the server never gives the event loop back

functionVars == <<code, file, call, stopped>>

NoCall == [pc |-> "idle", by |-> "nobody", seen |-> 0, ran |-> 0]

FunctionInit ==
    /\ code = <<>> /\ file = 0 /\ stopped = FALSE
    /\ call = [c \in Calls |-> NoCall]

CallAt(c, pc) == ~stopped /\ call[c].pc = pc
Go(c, pc) == call' = [call EXCEPT ![c].pc = pc]
Answer(c) == call' = [call EXCEPT ![c] = NoCall]

(***************************************************************************)
(* Management: each handler is synchronous.                                *)
(***************************************************************************)
\* Creating and updating, also by renaming another function.
WriteSource(body, auth) ==
    /\ ~stopped /\ Len(code) < MaxVersions
    /\ code' = Append(code, [does |-> body, auth |-> auth]) /\ file' = Len(code) + 1
    /\ UNCHANGED <<call, stopped>>
\* Deleting, also by renaming this one.
DeleteFile == ~stopped /\ file # 0 /\ file' = 0 /\ UNCHANGED <<code, call, stopped>>

(***************************************************************************)
(* A call.                                                                 *)
(***************************************************************************)
Invoke(c, by) ==
    /\ CallAt(c, "idle") /\ file # 0
    /\ call' = [call EXCEPT ![c] = [NoCall EXCEPT !.pc = "import", !.by = by]]
    /\ UNCHANGED <<code, file, stopped>>

Does(v) == IF v = 0 THEN "broken" ELSE code[v].does

\* The import in the server, which nothing limits.
Import(c) ==
    /\ CallAt(c, "import")
    /\ stopped' = (Does(file) = "spins")
    /\ CASE Does(file) = "broken" -> Answer(c)
         [] Does(file) \in {"waits", "spins"} -> Go(c, "stuck")
         [] OTHER -> call' = [call EXCEPT ![c].pc = IF code[file].auth THEN "auth" ELSE "run",
                                          ![c].seen = file]
    /\ UNCHANGED <<code, file>>

\* validateFunctionAuth: a user may be unknown by now, and a failed lookup is no user.
Authenticate(c) ==
    /\ CallAt(c, "auth")
    /\ \/ call[c].by # "nobody" /\ Go(c, "run")
       \/ call[c].by # "service" /\ Answer(c)
    /\ UNCHANGED <<code, file, stopped>>

\* The worker imports the file as it is by then, and calls its handler.  The server
\* has no part in it.
Load(c) ==
    /\ call[c].pc = "run"
    /\ IF Does(file) = "broken" THEN Go(c, "posted")
       ELSE call' = [call EXCEPT ![c].pc = "running", ![c].ran = file]
    /\ UNCHANGED <<code, file, stopped>>

Return(c) ==
    /\ call[c].pc = "running" /\ Does(call[c].ran) = "answers" /\ Go(c, "posted")
    /\ UNCHANGED <<code, file, stopped>>

\* onmessage or onerror, or the timer if it is first; the worker is terminated.
Posted(c) == CallAt(c, "posted") /\ Answer(c) /\ UNCHANGED <<code, file, stopped>>
\* Mutant: only the loading is timed.
Timeout_Loading(c) == CallAt(c, "run") /\ Answer(c) /\ UNCHANGED <<code, file, stopped>>
Timeout(c) ==
    /\ ~stopped /\ call[c].pc \in {"run", "running", "posted"}
    /\ Answer(c) /\ UNCHANGED <<code, file, stopped>>

CallSteps(c) == Import(c) \/ Authenticate(c) \/ Load(c) \/ Return(c) \/ Posted(c) \/ Timeout(c)

FunctionNext ==
    \/ \E body \in Bodies, auth \in BOOLEAN : WriteSource(body, auth)
    \/ DeleteFile
    \/ \E c \in Calls : \/ \E by \in Callers : Invoke(c, by)
                        \/ CallSteps(c)

\* Imports, lookups, workers and timers go on; managers and callers need not.
FunctionFairness == \A c \in Calls : WF_functionVars(CallSteps(c))
FunctionSpec == FunctionInit /\ [][FunctionNext]_functionVars /\ FunctionFairness

(***************************************************************************)
(* Properties.                                                             *)
(***************************************************************************)
\* Every variable has its type.
FunctionTypeOK ==
    /\ code \in Seq([does : Bodies, auth : BOOLEAN]) /\ Len(code) <= MaxVersions
    /\ file \in 0..Len(code) /\ stopped \in BOOLEAN
    /\ call \in [Calls -> [pc : {"idle", "import", "stuck", "auth", "run", "running", "posted"},
                           by : Callers, seen : 0..Len(code), ran : 0..Len(code)]]

\* "require Bearer token": a version that asks for a caller runs without one only
\* if it replaced, after the import, one that did not.
RunsAsChecked == \A c \in Calls :
    call[c].ran # 0 /\ code[call[c].ran].auth /\ call[c].by = "nobody" =>
        call[c].ran > call[c].seen /\ ~code[call[c].seen].auth

\* "config.timeout": what reached a worker ends, as long as the server runs.
WorkersEnd == \A c \in Calls : call[c].pc = "run" ~> (call[c].pc = "idle" \/ stopped)

\* "a hung function kills only its Worker, not the server": every call is answered.
\* False, as a module may hang in the server's own import.
CallsEnd == \A c \in Calls : call[c].pc = "import" ~> call[c].pc = "idle"
==================================================================================
