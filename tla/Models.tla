--------------------------------- MODULE Models ---------------------------------
(***************************************************************************)
(* core/base.ts over tools/hook: saving and deleting a model inside chains *)
(* of hook handlers.  A trigger takes a snapshot of the handlers bound,    *)
(* appends the one-off functions of the caller and hangs the whole chain   *)
(* on the event; event.next() runs the first function of the chain that is *)
(* left, and a nested trigger of the same event replaces the chain.  The   *)
(* handlers await, so that several calls on one model, and the binding and *)
(* unbinding of handlers, interleave between any two of them.              *)
(***************************************************************************)
EXTENDS Integers, Sequences, FiniteSets, SequencesExt

CONSTANTS
    Savers,        \* concurrent calls of save() and delete() on one model
    HookHandlers,  \* the handlers somebody may bind
    BindHooks,     \* the hooks they bind them to, a subset of ModelHooks
    MaxBinds       \* bound on the calls of bind

\* What a bound handler may do, and the functions that save() and delete() hang on a chain
\* themselves, which no bound handler has the id of: theirs is generated or given by the binder.
HandlerDoes == {"passes", "twice", "stops", "throws"}
OneOffs == {"create", "update", "delete", "createRow", "updateRow", "deleteRow"}
ASSUME HookHandlersAssumption ==
    /\ MaxBinds \in Nat
    /\ \A h \in HookHandlers : h.priority \in Int /\ h.does \in HandlerDoes /\ h.id \notin OneOffs

VARIABLES
    bound,     \* handlers of each hook, in the order they run
    model,     \* the model's id and its isNew flag
    modelRows, \* ids with a row in the model's table
    saves,     \* the calls
    binds      \* calls of bind so far

modelVars == <<bound, model, modelRows, saves, binds>>

ModelHooks ==
    {"validate", "create", "createExecute", "afterCreate", "update", "updateExecute", "afterUpdate",
     "delete", "deleteExecute", "afterDelete", "afterCreateError", "afterUpdateError", "afterDeleteError"}

NoId == "none"
ModelId == "generated"
EventTags == {"table"}     \* a model event is tagged with the model's table

OneOff(kind) == [id |-> kind, priority |-> 0, tags |-> {}, does |-> kind]
PassThrough == [id |-> "default", priority |-> 0, tags |-> {}, does |-> "passes"]

\* A call: where it is, what isNew said when it began to save, the chain left on its event, the
\* functions running (innermost last), and what it has run.
NoSave == [pc |-> "idle", op |-> "save", wasNew |-> TRUE, chain |-> <<>>, running |-> <<>>,
           ran |-> <<>>, stopped |-> FALSE]

\* Deleting has a default handler that only calls next.
Defaults(hook) == IF hook = "afterDelete" THEN <<PassThrough>> ELSE <<>>
HandlersOf(hook) == IF hook \in BindHooks THEN bound[hook] ELSE Defaults(hook)

ModelInit ==
    /\ bound = [h \in BindHooks |-> Defaults(h)]
    /\ model = [id |-> NoId, new |-> TRUE]
    /\ modelRows = {} /\ binds = 0
    /\ saves = [s \in Savers |-> NoSave]

(* -------- binding -------- *)
\* A handler with the id of a bound one takes its place.
Put(handlers, handler) ==
    LET same == {i \in DOMAIN handlers : handlers[i].id = handler.id}
    IN  IF same = {} THEN Append(handlers, handler)
        ELSE [i \in DOMAIN handlers |-> IF i \in same THEN handler ELSE handlers[i]]

\* The sort is by priority and stable: handlers of one priority keep the order they have.
ByPriority(handlers) ==
    {order \in [DOMAIN handlers -> DOMAIN handlers] :
        \A i, j \in DOMAIN handlers : i < j =>
            \/ handlers[order[i]].priority < handlers[order[j]].priority
            \/ handlers[order[i]].priority = handlers[order[j]].priority /\ order[i] < order[j]}

Bind(hook, handler) ==
    LET handlers == Put(bound[hook], handler) IN
    /\ binds < MaxBinds /\ binds' = binds + 1
    /\ \E order \in ByPriority(handlers) :
          bound' = [bound EXCEPT ![hook] = [i \in DOMAIN handlers |-> handlers[order[i]]]]
    /\ UNCHANGED <<model, modelRows, saves>>

Unbind(hook, handler) ==
    /\ \E i \in DOMAIN bound[hook] : /\ bound[hook][i].id = handler.id
                                    /\ bound' = [bound EXCEPT ![hook] = RemoveAt(@, i)]
    /\ UNCHANGED <<model, modelRows, saves, binds>>

(* -------- chains -------- *)
\* A tagged handler that has no tag of the event only calls next.
CanTriggerOn(handler) == handler.tags = {} \/ handler.tags \cap EventTags # {}

\* A function of a chain that starts to run; a handler that is not for the event passes.
Starts(f) == [hook |-> f.hook, id |-> f.id, does |-> IF CanTriggerOn(f) THEN f.does ELSE "passes", stage |-> 0]

\* A mutant: the chain is not advanced.
CallNext_Stays(call) ==
    IF call.chain = <<>> THEN call
    ELSE LET f == Head(call.chain) IN
         [call EXCEPT !.running = Append(@, Starts(f)), !.ran = Append(@, <<f.hook, f.id>>)]

\* event.next(): what is left of the chain loses its first function, which starts to run.
CallNext(call) ==
    IF call.chain = <<>> THEN call
    ELSE LET f == Head(call.chain) IN
         [call EXCEPT !.chain = Tail(@), !.running = Append(@, Starts(f)), !.ran = Append(@, <<f.hook, f.id>>)]

ChainOf(hook, handlers) ==
    [i \in DOMAIN handlers |->
        [hook |-> hook, id |-> handlers[i].id, tags |-> handlers[i].tags, does |-> handlers[i].does]]
Hang(call, hook, oneOffs) == [call EXCEPT !.chain = ChainOf(hook, HandlersOf(hook) \o oneOffs)]
Trigger(call, hook, oneOffs) == CallNext(Hang(call, hook, oneOffs))

Top(call) == Last(call.running)
Staged(call, n) == [call EXCEPT !.running[Len(call.running)].stage = n]
Returned(call) == [call EXCEPT !.running = Front(@)]
Rejected(call) == [call EXCEPT !.running = <<>>, !.chain = <<>>, !.pc = "failed"]

Goes(s, call) == saves' = [saves EXCEPT ![s] = call] /\ UNCHANGED <<bound, binds>>
Inside(s, kinds) == saves[s].running # <<>> /\ Top(saves[s]).does \in kinds

\* A bound handler: calls next once, twice or not at all before it returns, or throws.
CallsOfNext == [passes |-> 1, twice |-> 2, stops |-> 0]
RunHandler(s) ==
    LET call == saves[s]
        top == Top(call) IN
    /\ Inside(s, HandlerDoes)
    /\ \/ top.does = "throws" /\ Goes(s, Rejected(call))
       \/ /\ top.does # "throws" /\ top.stage < CallsOfNext[top.does]
          /\ Goes(s, CallNext(Staged(call, top.stage + 1)))
       \/ /\ top.does # "throws" /\ top.stage = CallsOfNext[top.does]
          /\ Goes(s, [Returned(call) EXCEPT !.stopped = @ \/ top.does = "stops"])
    /\ UNCHANGED <<model, modelRows>>

\* The one-off function of the outer trigger: the execute hook around the database call, then
\* the hook for its success.
During == [create |-> "createExecute", update |-> "updateExecute", delete |-> "deleteExecute"]
DatabaseCall == [create |-> "createRow", update |-> "updateRow", delete |-> "deleteRow"]
After == [create |-> "afterCreate", update |-> "afterUpdate", delete |-> "afterDelete"]
Nested(s) ==
    LET call == saves[s]
        top == Top(call) IN
    /\ Inside(s, {"create", "update", "delete"})
    /\ \/ top.stage = 0 /\ Goes(s, Trigger(Staged(call, 1), During[top.does], <<OneOff(DatabaseCall[top.does])>>))
       \/ top.stage = 1 /\ Goes(s, Trigger(Staged(call, 2), After[top.does], <<>>))
       \/ top.stage = 2 /\ Goes(s, Returned(call))
    /\ UNCHANGED <<model, modelRows>>

\* The database call; an insert of an id that has a row is refused.
CreateRow(s) ==
    /\ Inside(s, {"createRow"}) /\ UNCHANGED model
    /\ \/ model.id \notin modelRows /\ modelRows' = modelRows \cup {model.id} /\ Goes(s, Returned(saves[s]))
       \/ model.id \in modelRows /\ UNCHANGED modelRows /\ Goes(s, Rejected(saves[s]))

UpdateRow(s) ==
    /\ Inside(s, {"updateRow"}) /\ UNCHANGED <<model, modelRows>>
    /\ Goes(s, Returned(saves[s]))

\* A deletion runs its hooks without a database too.
DeleteRow(s) ==
    /\ Inside(s, {"deleteRow"}) /\ UNCHANGED model
    /\ modelRows' = modelRows \ {model.id} \/ UNCHANGED modelRows
    /\ Goes(s, Returned(saves[s]))

(* -------- calls -------- *)
Resumes(s, pc) == saves[s].pc = pc /\ saves[s].running = <<>>

\* save() validates first.
SaveModel(s) ==
    /\ Resumes(s, "idle")
    /\ Goes(s, Trigger([NoSave EXCEPT !.pc = "validated"], "validate", <<>>))
    /\ UNCHANGED <<model, modelRows>>

\* saveNoValidate() reads isNew, gives a new model an id and triggers, with no await in between.
\* While no database is open it returns, and is as if it had not been called.
SaveNoValidate(s) ==
    /\ Resumes(s, "validated")
    /\ LET call == [saves[s] EXCEPT !.pc = "executed", !.wasNew = model.new] IN
       \/ /\ model.new
          /\ model' = [model EXCEPT !.id = ModelId]
          /\ Goes(s, Trigger(call, "create", <<OneOff("create")>>))
       \/ /\ ~model.new /\ UNCHANGED model
          /\ Goes(s, Trigger(call, "update", <<OneOff("update")>>))
       \/ Goes(s, NoSave) /\ UNCHANGED model
    /\ UNCHANGED modelRows

MarkAsNotNew(s) ==
    /\ Resumes(s, "executed")
    /\ model' = [model EXCEPT !.new = FALSE]
    /\ Goes(s, [saves[s] EXCEPT !.pc = "done"])
    /\ UNCHANGED modelRows

DeleteModel(s) ==
    /\ Resumes(s, "idle")
    /\ Goes(s, Trigger([NoSave EXCEPT !.pc = "done", !.op = "delete"], "delete", <<OneOff("delete")>>))
    /\ UNCHANGED <<model, modelRows>>

ModelNext ==
    \/ \E hook \in BindHooks, h \in HookHandlers : Bind(hook, h) \/ Unbind(hook, h)
    \/ \E s \in Savers :
        \/ RunHandler(s) \/ Nested(s) \/ CreateRow(s) \/ UpdateRow(s) \/ DeleteRow(s)
        \/ SaveModel(s) \/ SaveNoValidate(s) \/ MarkAsNotNew(s) \/ DeleteModel(s)

ModelSpec == ModelInit /\ [][ModelNext]_modelVars

ModelTypeOK ==
    /\ model \in [id : {NoId, ModelId}, new : BOOLEAN]
    /\ modelRows \subseteq {ModelId} /\ binds \in 0..MaxBinds
    /\ \A h \in BindHooks : Len(bound[h]) <= Cardinality(HookHandlers) + 1
    /\ \A s \in Savers : saves[s].pc \in {"idle", "validated", "executed", "done", "failed"}

\* A hook's handlers have distinct ids and run in the order of their priorities, however often a
\* handler was replaced by one of its id with another priority (hook.ts: bind).
ChainsSorted ==
    \A h \in BindHooks : \A i, j \in DOMAIN bound[h] :
        i < j => bound[h][i].id # bound[h][j].id /\ bound[h][i].priority <= bound[h][j].priority

\* No call runs a function of a trigger twice, although a handler may call next twice: in
\* particular one save makes one database call (hook.ts: trigger).
RunOnce == \A s \in Savers : IsInjective(saves[s].ran)

\* Whenever g ran, f had returned before.
Before(call, f, g) ==
    \A i \in DOMAIN call.ran : call.ran[i][1] = g => \E j \in 1..(i - 1) : call.ran[j][2] = f
\* A call that no handler stopped and that found a database has made its database call, and the
\* handlers of its success ran after it (base.ts: saveNoValidate, delete).
KindOf(call) == IF call.op = "delete" THEN "delete" ELSE IF call.wasNew THEN "create" ELSE "update"
SavesTakeEffect ==
    \A s \in Savers : LET call == saves[s] IN
        ~call.stopped =>
            /\ \A kind \in DOMAIN After : Before(call, DatabaseCall[kind], After[kind])
            /\ call.pc = "done" /\ call.running = <<>> =>
                \E r \in Range(call.ran) : r[2] = DatabaseCall[KindOf(call)]
=================================================================================
