----------------------------- MODULE CoreProofs -----------------------------
(***************************************************************************)
(* Theorems about the core and its tools, for any handlers, tables,        *)
(* options, requests and bounds: the hooks of models, jobs by the clock,   *)
(* the locked store, the broker, records and their forms, collections, and *)
(* the lookups of both.                                                    *)
(***************************************************************************)
EXTENDS
    Services,
    SequenceTheorems, FiniteSetTheorems, WellFoundedInduction, TLAPS

(***************************************************************************)
(* Hooks.                                                                  *)
(*                                                                         *)
(* A call would run a function twice if a chain were hung of a trigger     *)
(* that it had run before, and would skip its database call if a chain     *)
(* were lost that nobody stopped.  The invariant says of each call what is *)
(* on its chain (ChainOK), what runs (RunningOK) and what has run (RanOK), *)
(* that its hooks come in turn (InTurn), and, unless a handler stopped it, *)
(* that what it left behind it is done (Unstopped) and that the function   *)
(* innermost is to go on with the chain (GoesInside).                      *)
(***************************************************************************)
ModelHandlers == HookHandlers \cup {PassThrough}
FunctionIds == {h.id : h \in ModelHandlers} \cup OneOffs
FunctionTags == {h.tags : h \in ModelHandlers} \cup {{}}
FunctionDoes == HandlerDoes \cup OneOffs
ChainEntry == [hook : ModelHooks, id : FunctionIds, tags : FunctionTags, does : FunctionDoes]
RunningEntry == [hook : ModelHooks, id : FunctionIds, does : FunctionDoes, stage : 0..2]
SaveType == [pc : {"idle", "validated", "executed", "done", "failed"}, op : {"save", "delete"}, wasNew : BOOLEAN,
             chain : Seq(ChainEntry), running : Seq(RunningEntry), ran : Seq(ModelHooks \X FunctionIds),
             stopped : BOOLEAN]

Kinds == {"create", "update", "delete"}
\* The hook that each one-off function is hung on.
HookOf == [create |-> "create", update |-> "update", delete |-> "delete",
           createRow |-> "createExecute", updateRow |-> "updateExecute", deleteRow |-> "deleteExecute"]
InPlace(f) ==
    /\ f.does \in OneOffs => f.id = f.does
    /\ f.id \in OneOffs => f.does = f.id /\ f.hook = HookOf[f.id]

HasTriggered(save, hook) == \E r \in DOMAIN save.ran : save.ran[r][1] = hook
HasRun(save, id) == \E r \in DOMAIN save.ran : save.ran[r][2] = id
Awaits(save, id) == \E i \in DOMAIN save.chain : save.chain[i].id = id
Triggered(save, hook) == HasTriggered(save, hook) \/ \E i \in DOMAIN save.chain : save.chain[i].hook = hook

\* What is on the chain is of one trigger, is there once, has not run; a one-off function is last.
ChainOK(save) ==
    /\ \A i \in DOMAIN save.chain : /\ InPlace(save.chain[i])
                                    /\ save.chain[i].id \in OneOffs => save.chain[i].tags = {} /\ i = Len(save.chain)
    /\ \A i, j \in DOMAIN save.chain : /\ save.chain[i].hook = save.chain[j].hook
                                       /\ i # j => save.chain[i].id # save.chain[j].id
    /\ \A i \in DOMAIN save.chain, r \in DOMAIN save.ran : save.ran[r] # <<save.chain[i].hook, save.chain[i].id>>
\* What runs was started, once.
RunningOK(save) ==
    /\ \A i \in DOMAIN save.running :
         /\ InPlace(save.running[i])
         /\ \E r \in DOMAIN save.ran : save.ran[r] = <<save.running[i].hook, save.running[i].id>>
    /\ \A i, j \in DOMAIN save.running :
         i # j => <<save.running[i].hook, save.running[i].id>> # <<save.running[j].hook, save.running[j].id>>
RanOK(save) ==
    /\ \A q, r \in DOMAIN save.ran : save.ran[q] = save.ran[r] => q = r
    /\ \A r \in DOMAIN save.ran : save.ran[r][2] \in OneOffs => save.ran[r][1] = HookOf[save.ran[r][2]]

\* The hooks that a call triggers, each once and in the order it does.
InTurn(save) ==
    LET kind == KindOf(save) IN
    /\ save.pc = "validated" => save.op = "save" /\ \A h \in ModelHooks : Triggered(save, h) => h = "validate"
    /\ \A h \in ModelHooks : Triggered(save, h) => h \in {"validate", kind, During[kind], After[kind]}
    /\ save.pc = "failed" => save.running = <<>> /\ save.chain = <<>>
    /\ save.pc = "done" /\ save.op = "save" => save.running = <<>>
    /\ Triggered(save, During[kind]) \/ Triggered(save, After[kind]) => HasRun(save, kind)
    /\ \A i \in DOMAIN save.running : save.running[i].does = kind =>
         /\ save.running[i].stage = 0 => ~Triggered(save, During[kind])
         /\ save.running[i].stage < 2 => ~Triggered(save, After[kind])

Unstopped(save) ==
    LET kind == KindOf(save) IN
    /\ Triggered(save, After[kind]) => HasRun(save, DatabaseCall[kind])
    /\ save.pc # "failed" =>
       /\ Triggered(save, During[kind]) => HasRun(save, DatabaseCall[kind]) \/ Awaits(save, DatabaseCall[kind])
       /\ save.pc \in {"executed", "done"} => HasRun(save, kind) \/ Awaits(save, kind)
       /\ HasRun(save, kind) => \/ Triggered(save, During[kind])
                                \/ \E i \in DOMAIN save.running : save.running[i].does = kind /\ save.running[i].stage = 0
    /\ Before(save, DatabaseCall[kind], After[kind])
GoesInside(save) ==
    save.chain # <<>> => /\ save.running # <<>> /\ Top(save).does \in HandlerDoes /\ Top(save).stage = 0

\* A call between any two of its steps; where it hangs a chain, GoesInside holds only after.
Hanging(save) ==
    /\ save \in SaveType /\ ChainOK(save) /\ RunningOK(save) /\ RanOK(save) /\ InTurn(save)
    /\ ~save.stopped => Unstopped(save)
Saving(save) == Hanging(save) /\ (save.pc = "idle" => save = NoSave) /\ (~save.stopped => GoesInside(save))

Sorted(handlers) ==
    \A i, j \in DOMAIN handlers : i < j => handlers[i].id # handlers[j].id /\ handlers[i].priority <= handlers[j].priority

ModelInv ==
    /\ bound \in [BindHooks -> Seq(ModelHandlers)] /\ binds \in Nat /\ model \in [id : {NoId, ModelId}, new : BOOLEAN]
    /\ \A h \in BindHooks : Sorted(bound[h])
    /\ DOMAIN saves = Savers /\ \A s \in Savers : Saving(saves[s])

LEMMA HandlersAre ==
  \A h \in ModelHandlers : h.priority \in Int /\ h.does \in HandlerDoes /\ h.id \notin OneOffs
BY HookHandlersAssumption DEF ModelHandlers, PassThrough, HandlerDoes, OneOffs

\* What the names of hooks and functions say.
LEMMA WordsOf ==
  ASSUME NEW k \in Kinds
  PROVE  /\ k \in OneOffs /\ k \in ModelHooks /\ HookOf[k] = k
         /\ During[k] \in ModelHooks /\ After[k] \in ModelHooks
         /\ DatabaseCall[k] \in OneOffs /\ DatabaseCall[k] \notin Kinds /\ HookOf[DatabaseCall[k]] = During[k]
         /\ k # During[k] /\ k # After[k] /\ During[k] # After[k]
         /\ "validate" \in ModelHooks /\ "validate" \notin {k, During[k], After[k]}
         /\ \A l \in Kinds : l # k => {l, During[l], After[l]} \cap {"validate", k, During[k], After[k]} = {}
         /\ HandlerDoes \cap OneOffs = {}
<1>1. CASE k = "create"
  BY <1>1 DEF Kinds, OneOffs, ModelHooks, HookOf, During, After, DatabaseCall, HandlerDoes
<1>2. CASE k = "update"
  BY <1>2 DEF Kinds, OneOffs, ModelHooks, HookOf, During, After, DatabaseCall, HandlerDoes
<1>3. CASE k = "delete"
  BY <1>3 DEF Kinds, OneOffs, ModelHooks, HookOf, During, After, DatabaseCall, HandlerDoes
<1> QED BY <1>1, <1>2, <1>3 DEF Kinds

LEMMA KindIs == \A save \in SaveType : KindOf(save) \in Kinds
BY DEF KindOf, Kinds

LEMMA TopIs ==
  ASSUME NEW save \in SaveType, save.running # <<>>
  PROVE  /\ Len(save.running) \in Nat \ {0} /\ Len(save.running) \in DOMAIN save.running
         /\ Top(save) = save.running[Len(save.running)] /\ Top(save) \in RunningEntry
BY DEF SaveType, Top, Last

\* event.next() where something is left: its effect, place by place.
LEMMA Advanced ==
  ASSUME NEW save \in SaveType, save.chain # <<>>
  PROVE  LET next == CallNext(save)
             n == Len(save.ran) + 1
             m == Len(save.running) + 1 IN
         /\ next \in SaveType
         /\ next.pc = save.pc /\ next.op = save.op /\ next.wasNew = save.wasNew /\ next.stopped = save.stopped
         /\ KindOf(next) = KindOf(save)
         /\ 1 \in DOMAIN save.chain /\ save.chain[1] \in ChainEntry
         /\ Len(next.chain) = Len(save.chain) - 1
         /\ \A i \in DOMAIN next.chain : i + 1 \in DOMAIN save.chain /\ next.chain[i] = save.chain[i + 1]
         /\ \A i \in DOMAIN save.chain : i # 1 => i - 1 \in DOMAIN next.chain /\ next.chain[i - 1] = save.chain[i]
         /\ DOMAIN next.ran = DOMAIN save.ran \cup {n} /\ n \notin DOMAIN save.ran
         /\ next.ran[n] = <<save.chain[1].hook, save.chain[1].id>>
         /\ \A r \in DOMAIN save.ran : next.ran[r] = save.ran[r] /\ r \in Nat /\ r < n
         /\ DOMAIN next.running = DOMAIN save.running \cup {m} /\ m \notin DOMAIN save.running
         /\ next.running[m] = Starts(save.chain[1]) /\ m = Len(next.running)
         /\ \A i \in DOMAIN save.running : next.running[i] = save.running[i]
<1> DEFINE f == Head(save.chain)
           next == CallNext(save)
<1>1. save.chain \in Seq(ChainEntry) /\ save.running \in Seq(RunningEntry) /\ save.ran \in Seq(ModelHooks \X FunctionIds)
  BY DEF SaveType
<1>2. f = save.chain[1] /\ f \in ChainEntry /\ 1 \in DOMAIN save.chain
  BY <1>1
<1>3. Starts(f) \in RunningEntry
  BY <1>2 DEF Starts, RunningEntry, ChainEntry, FunctionDoes, HandlerDoes
<1>4. <<f.hook, f.id>> \in ModelHooks \X FunctionIds
  BY <1>2 DEF ChainEntry
<1>5. next = [save EXCEPT !.chain = Tail(save.chain), !.running = Append(save.running, Starts(f)),
                          !.ran = Append(save.ran, <<f.hook, f.id>>)]
  BY DEF CallNext
<1> HIDE DEF next, f
<1>6. /\ next.chain = Tail(save.chain) /\ next.running = Append(save.running, Starts(f))
      /\ next.ran = Append(save.ran, <<f.hook, f.id>>)
      /\ next.pc = save.pc /\ next.op = save.op /\ next.wasNew = save.wasNew /\ next.stopped = save.stopped
  BY <1>5 DEF SaveType
<1>7. next \in SaveType
  <2>1. Tail(save.chain) \in Seq(ChainEntry)
    BY <1>1
  <2>2. Append(save.running, Starts(f)) \in Seq(RunningEntry)
    BY <1>1, <1>3
  <2>3. Append(save.ran, <<f.hook, f.id>>) \in Seq(ModelHooks \X FunctionIds)
    BY <1>1, <1>4
  <2> QED BY <2>1, <2>2, <2>3, <1>5 DEF SaveType
<1>8. KindOf(next) = KindOf(save)
  BY <1>6 DEF KindOf
<1>9. /\ Len(next.chain) = Len(save.chain) - 1
      /\ \A i \in DOMAIN next.chain : i + 1 \in DOMAIN save.chain /\ next.chain[i] = save.chain[i + 1]
      /\ \A i \in DOMAIN save.chain : i # 1 => i - 1 \in DOMAIN next.chain /\ next.chain[i - 1] = save.chain[i]
  BY <1>1, <1>6
<1>10. LET n == Len(save.ran) + 1 IN
       /\ DOMAIN next.ran = DOMAIN save.ran \cup {n} /\ n \notin DOMAIN save.ran
       /\ next.ran[n] = <<f.hook, f.id>>
       /\ \A r \in DOMAIN save.ran : next.ran[r] = save.ran[r] /\ r \in Nat /\ r < n
  BY <1>1, <1>4, <1>6
<1>11. LET m == Len(save.running) + 1 IN
       /\ DOMAIN next.running = DOMAIN save.running \cup {m} /\ m \notin DOMAIN save.running
       /\ next.running[m] = Starts(f) /\ m = Len(next.running)
       /\ \A i \in DOMAIN save.running : next.running[i] = save.running[i]
  BY <1>1, <1>3, <1>6
<1> QED BY <1>2, <1>6, <1>7, <1>8, <1>9, <1>10, <1>11 DEF next

\* A function that starts is the one on the chain, or passes.
LEMMA StartsInPlace ==
  ASSUME NEW f \in ChainEntry, InPlace(f), f.id \in OneOffs => f.tags = {}
  PROVE  LET g == Starts(f) IN
         /\ g.hook = f.hook /\ g.id = f.id /\ g.stage = 0 /\ InPlace(g)
         /\ f.id \in OneOffs => g.does = f.id
         /\ f.id \notin OneOffs => g.does \in HandlerDoes
         /\ g.does \in OneOffs => f.id = g.does /\ f.hook = HookOf[f.id]
BY DEF Starts, InPlace, CanTriggerOn, ChainEntry, FunctionDoes, HandlerDoes, OneOffs

\* event.next() keeps what is said of a call, and brings it inside.
LEMMA NextKeeps ==
  ASSUME NEW save, Hanging(save), save.chain # <<>>, ~(save.pc = "done" /\ save.op = "save")
  PROVE  Hanging(CallNext(save)) /\ GoesInside(CallNext(save))
<1> DEFINE next == CallNext(save)
           n == Len(save.ran) + 1
           m == Len(save.running) + 1
           kind == KindOf(save)
           f == save.chain[1]
           g == Starts(f)
<1>1. save \in SaveType /\ ChainOK(save) /\ RunningOK(save) /\ RanOK(save) /\ InTurn(save)
  BY DEF Hanging
<1>2. /\ next \in SaveType
      /\ next.pc = save.pc /\ next.op = save.op /\ next.wasNew = save.wasNew /\ next.stopped = save.stopped
      /\ KindOf(next) = kind
      /\ 1 \in DOMAIN save.chain /\ f \in ChainEntry
      /\ Len(next.chain) = Len(save.chain) - 1
      /\ \A i \in DOMAIN next.chain : i + 1 \in DOMAIN save.chain /\ next.chain[i] = save.chain[i + 1]
      /\ \A i \in DOMAIN save.chain : i # 1 => i - 1 \in DOMAIN next.chain /\ next.chain[i - 1] = save.chain[i]
      /\ DOMAIN next.ran = DOMAIN save.ran \cup {n} /\ n \notin DOMAIN save.ran
      /\ next.ran[n] = <<f.hook, f.id>>
      /\ \A r \in DOMAIN save.ran : next.ran[r] = save.ran[r] /\ r \in Nat /\ r < n
      /\ DOMAIN next.running = DOMAIN save.running \cup {m} /\ m \notin DOMAIN save.running
      /\ next.running[m] = g /\ m = Len(next.running)
      /\ \A i \in DOMAIN save.running : next.running[i] = save.running[i]
  BY <1>1, Advanced
<1>3. kind \in Kinds
  BY <1>1, KindIs
<1>4. InPlace(f) /\ (f.id \in OneOffs => f.tags = {} /\ 1 = Len(save.chain))
  BY <1>1, <1>2 DEF ChainOK
<1>5. /\ g.hook = f.hook /\ g.id = f.id /\ g.stage = 0 /\ InPlace(g)
      /\ f.id \in OneOffs => g.does = f.id
      /\ f.id \notin OneOffs => g.does \in HandlerDoes
      /\ g.does \in OneOffs => f.id = g.does /\ f.hook = HookOf[f.id]
  BY <1>2, <1>4, StartsInPlace
<1>6. save.chain \in Seq(ChainEntry) /\ next.chain \in Seq(ChainEntry) /\ n \in Nat /\ m \in Nat
  BY <1>1, <1>2 DEF SaveType
<1> HIDE DEF next, n, m, kind, f, g
<1>7. \A i, j \in DOMAIN next.chain : i \in Nat /\ (i # j => i + 1 # j + 1) /\ i + 1 # 1 /\ (i + 1 = Len(save.chain) => i = Len(next.chain))
  <2>1. DOMAIN next.chain = 1..Len(next.chain) /\ Len(save.chain) \in Nat
    BY <1>6
  <2>2. Len(next.chain) = Len(save.chain) - 1
    BY <1>2
  <2> QED BY <2>1, <2>2
<1>a. /\ \A i \in DOMAIN save.chain, r \in DOMAIN save.ran : save.ran[r] # <<save.chain[i].hook, save.chain[i].id>>
      /\ \A r \in DOMAIN save.ran : save.ran[r] # <<f.hook, f.id>>
  BY <1>1, <1>2 DEF ChainOK, f
<1>8. ChainOK(next)
  <2>1. \A i \in DOMAIN next.chain :
          /\ InPlace(next.chain[i])
          /\ next.chain[i].id \in OneOffs => next.chain[i].tags = {} /\ i = Len(next.chain)
    BY <1>1, <1>2, <1>7 DEF ChainOK
  <2>2. \A i, j \in DOMAIN next.chain : /\ next.chain[i].hook = next.chain[j].hook
                                        /\ i # j => next.chain[i].id # next.chain[j].id
    BY <1>1, <1>2, <1>7 DEF ChainOK
  <2>3. ASSUME NEW i \in DOMAIN next.chain, NEW r \in DOMAIN next.ran
        PROVE  next.ran[r] # <<next.chain[i].hook, next.chain[i].id>>
    <3>1. i + 1 \in DOMAIN save.chain /\ i + 1 # 1 /\ next.chain[i] = save.chain[i + 1]
      BY <1>2, <1>7
    <3>2. CASE r = n
      BY <3>1, <3>2, <1>1, <1>2 DEF ChainOK, f
    <3>3. CASE r # n
      <4>1. r \in DOMAIN save.ran /\ next.ran[r] = save.ran[r]
        BY <3>3, <1>2
      <4> QED BY <4>1, <3>1, <1>a
    <3> QED BY <3>2, <3>3
  <2> QED BY <2>1, <2>2, <2>3 DEF ChainOK
<1>9. RunningOK(next)
  <2>1. ASSUME NEW i \in DOMAIN next.running
        PROVE  /\ InPlace(next.running[i])
               /\ \E r \in DOMAIN next.ran : next.ran[r] = <<next.running[i].hook, next.running[i].id>>
    <3>1. CASE i = m
      BY <3>1, <1>2, <1>5
    <3>2. CASE i # m
      <4>1. i \in DOMAIN save.running /\ next.running[i] = save.running[i]
        BY <3>2, <1>2
      <4>2. InPlace(save.running[i]) /\ \E r \in DOMAIN save.ran : save.ran[r] = <<save.running[i].hook, save.running[i].id>>
        BY <4>1, <1>1 DEF RunningOK
      <4>3. PICK r \in DOMAIN save.ran : save.ran[r] = <<save.running[i].hook, save.running[i].id>>
        BY <4>2
      <4>4. r \in DOMAIN next.ran /\ next.ran[r] = save.ran[r]
        BY <1>2
      <4> QED BY <4>1, <4>2, <4>3, <4>4
    <3> QED BY <3>1, <3>2
  <2>2. ASSUME NEW i \in DOMAIN save.running
        PROVE  <<save.running[i].hook, save.running[i].id>> # <<f.hook, f.id>>
    <3>1. PICK r \in DOMAIN save.ran : save.ran[r] = <<save.running[i].hook, save.running[i].id>>
      BY <1>1 DEF RunningOK
    <3> QED BY <3>1, <1>a
  <2>3. ASSUME NEW i \in DOMAIN next.running, NEW j \in DOMAIN next.running, i # j
        PROVE  <<next.running[i].hook, next.running[i].id>> # <<next.running[j].hook, next.running[j].id>>
    BY <2>2, <2>3, <1>1, <1>2, <1>5 DEF RunningOK
  <2> QED BY <2>1, <2>3 DEF RunningOK
<1>10. RanOK(next)
  <2>1. \A r \in DOMAIN save.ran : save.ran[r] # <<f.hook, f.id>>
    BY <1>1, <1>2 DEF ChainOK, f
  <2>2. f.id \in OneOffs => f.hook = HookOf[f.id]
    BY <1>4 DEF InPlace
  <2> QED BY <2>1, <2>2, <1>1, <1>2 DEF RanOK
<1>11. \A h : Triggered(next, h) <=> Triggered(save, h)
  <2>1. ASSUME NEW h, Triggered(next, h) PROVE Triggered(save, h)
    BY <2>1, <1>2 DEF Triggered, HasTriggered, f
  <2>2. ASSUME NEW h, HasTriggered(save, h) PROVE HasTriggered(next, h)
    BY <2>2, <1>2 DEF HasTriggered
  <2>3. ASSUME NEW h, NEW i \in DOMAIN save.chain, save.chain[i].hook = h PROVE Triggered(next, h)
    <3>1. CASE i = 1
      BY <3>1, <2>3, <1>2 DEF Triggered, HasTriggered, f
    <3>2. CASE i # 1
      BY <3>2, <2>3, <1>2 DEF Triggered
    <3> QED BY <3>1, <3>2
  <2> QED BY <2>1, <2>2, <2>3 DEF Triggered
<1>12. \A id : (HasRun(save, id) => HasRun(next, id)) /\ (HasRun(next, id) => HasRun(save, id) \/ id = f.id)
  BY <1>2 DEF HasRun
<1>13. \A id : Awaits(save, id) => HasRun(next, id) \/ Awaits(next, id)
  <2>1. ASSUME NEW id, NEW i \in DOMAIN save.chain, save.chain[i].id = id PROVE HasRun(next, id) \/ Awaits(next, id)
    <3>1. CASE i = 1
      BY <3>1, <2>1, <1>2 DEF HasRun, f
    <3>2. CASE i # 1
      BY <3>2, <2>1, <1>2 DEF Awaits
    <3> QED BY <3>1, <3>2
  <2> QED BY <2>1 DEF Awaits
\* The one-off function that starts is the first of its trigger.
<1>14. ASSUME g.does = kind PROVE ~Triggered(save, During[kind]) /\ ~Triggered(save, After[kind])
  <2>1. f.id = kind /\ f.hook = kind
    BY <1>14, <1>3, <1>5, WordsOf
  <2>2. ~HasRun(save, kind)
    <3> SUFFICES ASSUME NEW r \in DOMAIN save.ran, save.ran[r][2] = kind PROVE FALSE
      BY DEF HasRun
    <3>1. save.ran[r] \in ModelHooks \X FunctionIds
      BY <1>1 DEF SaveType
    <3>2. save.ran[r][1] = kind
      BY <1>1, <1>3, WordsOf DEF RanOK
    <3>3. save.ran[r] = <<f.hook, f.id>>
      BY <2>1, <3>1, <3>2
    <3> QED BY <3>3, <1>1, <1>2 DEF ChainOK, f
  <2> QED BY <2>2, <1>1 DEF InTurn, kind
<1>15. save.pc # "failed"
  BY <1>1 DEF InTurn
<1>16. InTurn(next)
  <2>1. /\ next.pc = "validated" => next.op = "save" /\ \A h \in ModelHooks : Triggered(next, h) => h = "validate"
        /\ \A h \in ModelHooks : Triggered(next, h) => h \in {"validate", kind, During[kind], After[kind]}
        /\ Triggered(next, During[kind]) \/ Triggered(next, After[kind]) => HasRun(next, kind)
    BY <1>1, <1>2, <1>11, <1>12 DEF InTurn, kind
  <2>2. ASSUME NEW i \in DOMAIN next.running, next.running[i].does = kind
        PROVE  /\ next.running[i].stage = 0 => ~Triggered(next, During[kind])
               /\ next.running[i].stage < 2 => ~Triggered(next, After[kind])
    <3>1. CASE i = m
      BY <3>1, <2>2, <1>2, <1>11, <1>14
    <3>2. CASE i # m
      <4>1. i \in DOMAIN save.running /\ next.running[i] = save.running[i]
        BY <3>2, <1>2
      <4> QED BY <4>1, <2>2, <1>1, <1>11 DEF InTurn, kind
    <3> QED BY <3>1, <3>2
  <2> QED BY <2>1, <2>2, <1>2, <1>15 DEF InTurn
<1>17. ASSUME ~next.stopped PROVE Unstopped(next)
  <2>1. Unstopped(save)
    BY <1>17, <1>2 DEF Hanging
  <2>2. /\ Triggered(next, After[kind]) => HasRun(next, DatabaseCall[kind])
        /\ Triggered(next, During[kind]) => HasRun(next, DatabaseCall[kind]) \/ Awaits(next, DatabaseCall[kind])
        /\ next.pc \in {"executed", "done"} => HasRun(next, kind) \/ Awaits(next, kind)
    BY <2>1, <1>2, <1>11, <1>12, <1>13, <1>15 DEF Unstopped, kind
  <2>3. ASSUME HasRun(next, kind)
        PROVE  \/ Triggered(next, During[kind])
               \/ \E i \in DOMAIN next.running : next.running[i].does = kind /\ next.running[i].stage = 0
    <3>1. CASE HasRun(save, kind)
      <4>1. CASE Triggered(save, During[kind])
        BY <4>1, <1>11
      <4>2. CASE \E i \in DOMAIN save.running : save.running[i].does = kind /\ save.running[i].stage = 0
        BY <4>2, <1>2
      <4> QED BY <4>1, <4>2, <3>1, <2>1, <1>15 DEF Unstopped, kind
    <3>2. CASE f.id = kind
      <4>1. g.does = kind /\ g.stage = 0
        BY <3>2, <1>3, <1>5, WordsOf
      <4> QED BY <4>1, <1>2
    <3> QED BY <3>1, <3>2, <2>3, <1>12
  <2>4. Before(next, DatabaseCall[kind], After[kind])
    <3> SUFFICES ASSUME NEW i \in DOMAIN next.ran, next.ran[i][1] = After[kind]
                 PROVE  \E j \in 1..(i - 1) : next.ran[j][2] = DatabaseCall[kind]
      BY DEF Before
    <3>1. CASE i = n
      <4>1. Triggered(save, After[kind])
        BY <3>1, <1>2 DEF Triggered, f
      <4>2. PICK r \in DOMAIN save.ran : save.ran[r][2] = DatabaseCall[kind]
        BY <4>1, <2>1 DEF Unstopped, HasRun, kind
      <4>3. r \in 1..(n - 1)
        BY <1>1, <1>6 DEF SaveType, n
      <4> QED BY <3>1, <4>2, <4>3, <1>2
    <3>2. CASE i # n
      <4>1. i \in DOMAIN save.ran /\ next.ran[i] = save.ran[i]
        BY <3>2, <1>2
      <4>2. PICK j \in 1..(i - 1) : save.ran[j][2] = DatabaseCall[kind]
        BY <4>1, <2>1 DEF Unstopped, Before, kind
      <4>3. j \in DOMAIN save.ran
        BY <4>1, <1>1 DEF SaveType
      <4> QED BY <4>2, <4>3, <1>2
    <3> QED BY <3>1, <3>2
  <2> QED BY <2>2, <2>3, <2>4, <1>2 DEF Unstopped
<1>18. GoesInside(next)
  <2> SUFFICES ASSUME next.chain # <<>> PROVE next.running # <<>> /\ Top(next).does \in HandlerDoes /\ Top(next).stage = 0
    BY DEF GoesInside
  <2>1. f.id \notin OneOffs
    <3>1. Len(next.chain) # 0
      BY <1>6
    <3> QED BY <3>1, <1>2, <1>4
  <2>2. next.running # <<>>
    BY <1>2
  <2>3. Top(next) = g
    BY <2>2, <1>2, TopIs
  <2> QED BY <2>1, <2>2, <2>3, <1>5
<1> QED BY <1>2, <1>8, <1>9, <1>10, <1>16, <1>17, <1>18 DEF Hanging, next

LEMMA NextSaves ==
  ASSUME NEW save, Hanging(save), save.pc # "idle", save.chain # <<>> => ~(save.pc = "done" /\ save.op = "save")
  PROVE  Saving(CallNext(save))
<1>1. CASE save.chain = <<>>
  BY <1>1 DEF CallNext, Saving, GoesInside
<1>2. CASE save.chain # <<>>
  <2>1. Hanging(CallNext(save)) /\ GoesInside(CallNext(save))
    BY <1>2, NextKeeps
  <2>2. CallNext(save).pc = save.pc
    BY <1>2, Advanced DEF Hanging
  <2> QED BY <2>1, <2>2 DEF Saving
<1> QED BY <1>1, <1>2

LEMMA HandlersOfHook ==
  ASSUME ModelInv, NEW hook
  PROVE  HandlersOf(hook) \in Seq(ModelHandlers) /\ Sorted(HandlersOf(hook))
<1>1. CASE hook \in BindHooks
  BY <1>1 DEF ModelInv, HandlersOf
<1>2. CASE hook \notin BindHooks
  <2>1. PassThrough \in ModelHandlers
    BY DEF ModelHandlers
  <2>2. HandlersOf(hook) = <<>> \/ HandlersOf(hook) = <<PassThrough>>
    BY <1>2 DEF HandlersOf, Defaults
  <2>3. \A i, j \in {1} : ~(i < j)
    OBVIOUS
  <2>4. CASE HandlersOf(hook) = <<>>
    BY <2>4 DEF Sorted
  <2>5. CASE HandlersOf(hook) = <<PassThrough>>
    <3>1. DOMAIN <<PassThrough>> = {1}
      OBVIOUS
    <3> QED BY <2>1, <2>3, <2>5, <3>1 DEF Sorted
  <2> QED BY <2>2, <2>4, <2>5
<1> QED BY <1>1, <1>2

\* What a trigger hangs on a call: each handler once, and the one-off function last.
LEMMA Hung ==
  ASSUME ModelInv, NEW save \in SaveType, NEW hook \in ModelHooks, ~HasTriggered(save, hook), NEW oneOffs,
         oneOffs = <<>> \/ \E x \in OneOffs : oneOffs = <<OneOff(x)>> /\ HookOf[x] = hook
  PROVE  LET e == Hang(save, hook, oneOffs) IN
         /\ e \in SaveType /\ ChainOK(e)
         /\ e.pc = save.pc /\ e.op = save.op /\ e.wasNew = save.wasNew /\ e.stopped = save.stopped
         /\ e.running = save.running /\ e.ran = save.ran
         /\ \A h : Triggered(e, h) => HasTriggered(save, h) \/ h = hook
         /\ \A x \in OneOffs : oneOffs = <<OneOff(x)>> => Awaits(e, x) /\ Triggered(e, hook)
<1> DEFINE handlers == HandlersOf(hook)
           all == handlers \o oneOffs
           chain == ChainOf(hook, all)
           e == Hang(save, hook, oneOffs)
           last == Len(handlers) + 1
<1>1. handlers \in Seq(ModelHandlers) /\ Sorted(handlers)
  BY HandlersOfHook
<1>2. \A i \in DOMAIN handlers : handlers[i] \in ModelHandlers /\ i \in 1..Len(handlers)
  BY <1>1
<1> HIDE DEF handlers
<1>3. /\ oneOffs = <<>> => all = handlers
      /\ \A x : oneOffs = <<OneOff(x)>> => all = Append(handlers, OneOff(x))
  <2>1. oneOffs = <<>> => all = handlers
    BY <1>1
  <2>2. ASSUME NEW x, oneOffs = <<OneOff(x)>> PROVE all = Append(handlers, OneOff(x))
    <3> DEFINE one == OneOff(x)
    <3> HIDE DEF one
    <3>1. handlers \in Seq(ModelHandlers \cup {one}) /\ <<one>> \in Seq(ModelHandlers \cup {one})
      BY <1>1
    <3>2. handlers \o <<one>> = Append(handlers, one)
      BY <3>1
    <3> QED BY <2>2, <3>2 DEF one
  <2> QED BY <2>1, <2>2
<1> DEFINE Hangs(f) ==
             /\ f \in ChainEntry /\ f.hook = hook /\ InPlace(f)
             /\ f.id \in OneOffs => f.tags = {}
<1>4. ASSUME NEW h \in ModelHandlers
      PROVE  LET f == [hook |-> hook, id |-> h.id, tags |-> h.tags, does |-> h.does] IN
             Hangs(f) /\ f.id \notin OneOffs
  <2>1. h.does \in HandlerDoes /\ h.id \notin OneOffs /\ HandlerDoes \cap OneOffs = {}
    BY HandlersAre DEF HandlerDoes, OneOffs
  <2>2. h.id \in FunctionIds /\ h.tags \in FunctionTags /\ h.does \in FunctionDoes
    BY <2>1 DEF FunctionIds, FunctionTags, FunctionDoes
  <2> QED BY <2>1, <2>2 DEF ChainEntry, InPlace
<1>5. ASSUME NEW x \in OneOffs, HookOf[x] = hook
      PROVE  LET f == [hook |-> hook, id |-> OneOff(x).id, tags |-> OneOff(x).tags, does |-> OneOff(x).does] IN
             Hangs(f) /\ f.id = x
  <2>1. OneOff(x).id = x /\ OneOff(x).tags = {} /\ OneOff(x).does = x
    BY DEF OneOff
  <2>2. x \in FunctionIds /\ {} \in FunctionTags /\ x \in FunctionDoes
    BY DEF FunctionIds, FunctionTags, FunctionDoes
  <2> QED BY <2>1, <2>2, <1>5 DEF ChainEntry, InPlace
<1> HIDE DEF all, Hangs
\* The chain, place by place.
<1>6. /\ chain \in Seq(ChainEntry) /\ DOMAIN handlers \subseteq DOMAIN chain
      /\ \A i \in DOMAIN chain : Hangs(chain[i])
      /\ \A i \in DOMAIN handlers : chain[i].id = handlers[i].id /\ chain[i].id \notin OneOffs
      /\ \A i \in DOMAIN chain : i \notin DOMAIN handlers =>
            i = Len(chain) /\ i = last /\ chain[i].id \in OneOffs
      /\ \A x \in OneOffs : oneOffs = <<OneOff(x)>> => last \in DOMAIN chain /\ chain[last].id = x
  <2>1. CASE oneOffs = <<>>
    <3>1. all = handlers
      BY <2>1, <1>3
    <3>2. DOMAIN chain = DOMAIN handlers
      BY <3>1 DEF ChainOf
    <3>3. \A i \in DOMAIN chain : chain[i] = [hook |-> hook, id |-> handlers[i].id, tags |-> handlers[i].tags, does |-> handlers[i].does]
      BY <3>1, <3>2 DEF ChainOf
    <3>4. \A i \in DOMAIN chain : Hangs(chain[i]) /\ chain[i].id = handlers[i].id /\ chain[i].id \notin OneOffs
      BY <3>2, <3>3, <1>2, <1>4
    <3>5. chain \in Seq(ChainEntry)
      <4>1. \A i \in 1..Len(handlers) : chain[i] \in ChainEntry
        BY <3>2, <3>4, <1>1 DEF Hangs
      <4>2. chain = [i \in 1..Len(handlers) |-> chain[i]] /\ Len(handlers) \in Nat
        BY <3>1, <1>1 DEF ChainOf
      <4> QED BY <4>1, <4>2
    <3>6. \A x : oneOffs # <<OneOff(x)>>
      BY <2>1
    <3> QED BY <3>2, <3>4, <3>5, <3>6
  <2>2. ASSUME NEW x \in OneOffs, oneOffs = <<OneOff(x)>>, HookOf[x] = hook
        PROVE  <1>6!:
    <3>1. all = Append(handlers, OneOff(x))
      BY <2>2, <1>3
    <3>2. /\ DOMAIN all = 1..last /\ Len(handlers) \in Nat /\ all[last] = OneOff(x)
          /\ \A i \in DOMAIN handlers : all[i] = handlers[i] /\ i \in 1..last /\ i # last
          /\ \A i \in 1..last : i \notin DOMAIN handlers => i = last
      BY <3>1, <1>1
    <3>3. DOMAIN chain = 1..last /\ \A i \in 1..last :
            chain[i] = [hook |-> hook, id |-> all[i].id, tags |-> all[i].tags, does |-> all[i].does]
      BY <3>2 DEF ChainOf
    <3>4. \A i \in DOMAIN handlers : Hangs(chain[i]) /\ chain[i].id = handlers[i].id /\ chain[i].id \notin OneOffs
      BY <3>2, <3>3, <1>2, <1>4
    <3>5. Hangs(chain[last]) /\ chain[last].id = x /\ last \in DOMAIN chain
      <4>1. chain[last] = [hook |-> hook, id |-> OneOff(x).id, tags |-> OneOff(x).tags, does |-> OneOff(x).does]
        BY <3>2, <3>3
      <4>2. last \in 1..last
        BY <3>2
      <4> QED BY <4>1, <4>2, <3>3, <1>5, <2>2
    <3>6. \A i \in DOMAIN chain : Hangs(chain[i])
      BY <3>2, <3>3, <3>4, <3>5
    <3>7. chain \in Seq(ChainEntry) /\ Len(chain) = last
      <4>1. \A i \in 1..last : chain[i] \in ChainEntry
        BY <3>3, <3>6 DEF Hangs
      <4>2. chain = [i \in 1..last |-> chain[i]] /\ last \in Nat
        BY <3>2, <3>3 DEF ChainOf
      <4> QED BY <4>1, <4>2
    <3>8. \A y \in OneOffs : oneOffs = <<OneOff(y)>> => x = y
      <4>1. \A y : <<OneOff(x)>> = <<OneOff(y)>> => OneOff(x) = OneOff(y)
        OBVIOUS
      <4>2. \A y : OneOff(y).id = y
        BY DEF OneOff
      <4> QED BY <4>1, <4>2, <2>2
    <3> QED BY <3>2, <3>3, <3>4, <3>5, <3>6, <3>7, <3>8, <2>2
  <2> QED BY <2>1, <2>2
<1>b. e = [save EXCEPT !.chain = chain]
  BY DEF Hang, all, handlers
<1> HIDE DEF chain, e
<1>7. /\ e.chain = chain /\ e \in SaveType
      /\ e.pc = save.pc /\ e.op = save.op /\ e.wasNew = save.wasNew /\ e.stopped = save.stopped
      /\ e.running = save.running /\ e.ran = save.ran
  BY <1>6, <1>b DEF SaveType
<1>8. ChainOK(e)
  <2>1. \A i \in DOMAIN chain : /\ InPlace(chain[i])
                                /\ chain[i].id \in OneOffs => chain[i].tags = {} /\ i = Len(chain)
    BY <1>6 DEF Hangs
  <2>2. ASSUME NEW i \in DOMAIN chain, NEW j \in DOMAIN chain
        PROVE  /\ chain[i].hook = chain[j].hook
               /\ i # j => chain[i].id # chain[j].id
    <3>1. chain[i].hook = chain[j].hook
      BY <1>6 DEF Hangs
    <3>2. ASSUME i # j, i \in DOMAIN handlers, j \in DOMAIN handlers PROVE chain[i].id # chain[j].id
      <4>1. i < j \/ j < i
        BY <3>2, <1>2
      <4>2. handlers[i].id # handlers[j].id
        BY <4>1, <3>2, <1>1 DEF Sorted
      <4> QED BY <4>2, <3>2, <1>6
    <3>3. ASSUME i # j, i \notin DOMAIN handlers \/ j \notin DOMAIN handlers PROVE chain[i].id # chain[j].id
      BY <3>3, <1>6
    <3> QED BY <3>1, <3>2, <3>3
  <2>3. ASSUME NEW i \in DOMAIN chain, NEW r \in DOMAIN save.ran
        PROVE  save.ran[r] # <<chain[i].hook, chain[i].id>>
    BY <1>6 DEF Hangs, HasTriggered
  <2> QED BY <2>1, <2>2, <2>3, <1>7 DEF ChainOK
<1>9. \A h : Triggered(e, h) => HasTriggered(save, h) \/ h = hook
  BY <1>6, <1>7 DEF Triggered, HasTriggered, Hangs
<1>10. \A x \in OneOffs : oneOffs = <<OneOff(x)>> => Awaits(e, x) /\ Triggered(e, hook)
  BY <1>6, <1>7 DEF Triggered, Awaits, Hangs
<1> QED BY <1>7, <1>8, <1>9, <1>10 DEF e

LEMMA CallActs ==
  ASSUME ModelInv, NEW s \in Savers, NEW save, Saving(save), Goes(s, save), model' \in [id : {NoId, ModelId}, new : BOOLEAN]
  PROVE  ModelInv'
BY DEF ModelInv, Goes

LEMMA IsInside ==
  ASSUME NEW save, Saving(save), save.running # <<>>
  PROVE  /\ Hanging(save) /\ save.pc \notin {"idle", "failed"} /\ ~(save.pc = "done" /\ save.op = "save")
         /\ KindOf(save) \in Kinds /\ Top(save) \in RunningEntry /\ Top(save) = save.running[Len(save.running)]
         /\ Len(save.running) \in DOMAIN save.running /\ InPlace(Top(save))
BY TopIs, KindIs DEF Saving, Hanging, InTurn, NoSave, RunningOK

LEMMA RejectedKeeps ==
  ASSUME NEW save, Saving(save), save.running # <<>>
  PROVE  Saving(Rejected(save))
<1> DEFINE e == Rejected(save)
           kind == KindOf(save)
<1>1. Hanging(save) /\ save \in SaveType /\ kind \in Kinds
  BY IsInside DEF Hanging
<1>2. /\ e \in SaveType /\ e.chain = <<>> /\ e.running = <<>> /\ e.pc = "failed"
      /\ e.ran = save.ran /\ e.op = save.op /\ e.wasNew = save.wasNew /\ e.stopped = save.stopped
  <2>1. <<>> \in Seq(ChainEntry) /\ <<>> \in Seq(RunningEntry)
    OBVIOUS
  <2> QED BY <1>1, <2>1 DEF Rejected, SaveType
<1> HIDE DEF e
<1>3. KindOf(e) = kind
  BY <1>2 DEF KindOf
<1> HIDE DEF kind
<1>4. ChainOK(e) /\ RunningOK(e) /\ RanOK(e)
  BY <1>1, <1>2 DEF Hanging, ChainOK, RunningOK, RanOK
<1>5. \A h : Triggered(e, h) => Triggered(save, h)
  BY <1>2 DEF Triggered, HasTriggered
<1>6. \A id : HasRun(e, id) <=> HasRun(save, id)
  BY <1>2 DEF HasRun
<1>7. InTurn(e)
  BY <1>1, <1>2, <1>3, <1>5, <1>6 DEF Hanging, InTurn, kind
<1>8. ~e.stopped => Unstopped(e)
  BY <1>1, <1>2, <1>3, <1>5, <1>6 DEF Hanging, Unstopped, Before, kind
<1> QED BY <1>2, <1>4, <1>7, <1>8 DEF Saving, Hanging, GoesInside, e

\* A function that returns leaves nothing that a call needs that nobody stopped.
LEMMA ReturnedKeeps ==
  ASSUME NEW save, Saving(save), save.running # <<>>, NEW x \in BOOLEAN, save.stopped => x,
         ~x => save.chain = <<>> /\ ~(Top(save).does = KindOf(save) /\ Top(save).stage = 0)
  PROVE  Saving([Returned(save) EXCEPT !.stopped = x])
<1> DEFINE e == [Returned(save) EXCEPT !.stopped = x]
           kind == KindOf(save)
           top == Len(save.running)
<1>1. /\ Hanging(save) /\ save \in SaveType /\ save.pc \notin {"idle", "failed"} /\ kind \in Kinds
      /\ ~(save.pc = "done" /\ save.op = "save") /\ Top(save) = save.running[top] /\ top \in DOMAIN save.running
  BY IsInside DEF Hanging
<1>2. Front(save.running) \in Seq(RunningEntry)
  BY <1>1 DEF SaveType, Front
<1>3. /\ DOMAIN Front(save.running) = DOMAIN save.running \ {top}
      /\ \A i \in DOMAIN Front(save.running) : Front(save.running)[i] = save.running[i]
  BY <1>1 DEF SaveType, Front
<1>4. /\ e \in SaveType /\ e.chain = save.chain /\ e.running = Front(save.running) /\ e.pc = save.pc
      /\ e.ran = save.ran /\ e.op = save.op /\ e.wasNew = save.wasNew /\ e.stopped = x
  BY <1>1, <1>2 DEF Returned, SaveType
<1> HIDE DEF e
<1>5. KindOf(e) = kind
  BY <1>4 DEF KindOf
<1> HIDE DEF kind
<1>6. \A h : Triggered(e, h) <=> Triggered(save, h)
  BY <1>4 DEF Triggered, HasTriggered
<1>7. \A id : (HasRun(e, id) <=> HasRun(save, id)) /\ (Awaits(e, id) <=> Awaits(save, id))
  BY <1>4 DEF HasRun, Awaits
<1>8. ChainOK(e) /\ RanOK(e)
  BY <1>1, <1>4 DEF Hanging, ChainOK, RanOK
<1>9. RunningOK(e)
  <2>1. RunningOK(save)
    BY <1>1 DEF Hanging
  <2>2. \A i \in DOMAIN e.running : i \in DOMAIN save.running /\ e.running[i] = save.running[i]
    BY <1>3, <1>4
  <2>3. ASSUME NEW i \in DOMAIN e.running, NEW j \in DOMAIN e.running, i # j
        PROVE  <<e.running[i].hook, e.running[i].id>> # <<e.running[j].hook, e.running[j].id>>
    BY <2>1, <2>2, <2>3 DEF RunningOK
  <2>4. ASSUME NEW i \in DOMAIN e.running
        PROVE  InPlace(e.running[i]) /\ \E r \in DOMAIN e.ran : e.ran[r] = <<e.running[i].hook, e.running[i].id>>
    <3>1. InPlace(save.running[i])
      BY <2>1, <2>2 DEF RunningOK
    <3>2. PICK r \in DOMAIN save.ran : save.ran[r] = <<save.running[i].hook, save.running[i].id>>
      BY <2>1, <2>2 DEF RunningOK
    <3> QED BY <3>1, <3>2, <2>2, <1>4
  <2> QED BY <2>3, <2>4 DEF RunningOK
<1>10. InTurn(e)
  BY <1>1, <1>3, <1>4, <1>5, <1>6, <1>7 DEF Hanging, InTurn, kind
<1>11. ASSUME ~x PROVE Unstopped(e) /\ GoesInside(e)
  <2>1. ~save.stopped /\ e.chain = <<>> /\ Unstopped(save)
    BY <1>1, <1>4, <1>11 DEF Hanging
  <2>2. Before(e, DatabaseCall[kind], After[kind])
    BY <2>1, <1>4 DEF Unstopped, Before, kind
  <2>3. \A i \in DOMAIN save.running : save.running[i].does = kind /\ save.running[i].stage = 0 =>
          i \in DOMAIN e.running /\ e.running[i] = save.running[i]
    BY <1>1, <1>3, <1>4, <1>11 DEF kind
  <2> QED BY <2>1, <2>2, <2>3, <1>4, <1>5, <1>6, <1>7 DEF Unstopped, GoesInside, kind
<1> QED BY <1>1, <1>4, <1>8, <1>9, <1>10, <1>11 DEF Saving, Hanging, e

LEMMA StagedIs ==
  ASSUME NEW save \in SaveType, save.running # <<>>, NEW n \in 0..2
  PROVE  LET e == Staged(save, n)
             top == Len(save.running) IN
         /\ e \in SaveType /\ e.chain = save.chain /\ e.pc = save.pc /\ KindOf(e) = KindOf(save)
         /\ e.ran = save.ran /\ e.op = save.op /\ e.wasNew = save.wasNew /\ e.stopped = save.stopped
         /\ DOMAIN e.running = DOMAIN save.running /\ top \in DOMAIN save.running
         /\ \A i \in DOMAIN save.running : i # top => e.running[i] = save.running[i]
         /\ LET f == e.running[top]
                g == save.running[top] IN
            f.hook = g.hook /\ f.id = g.id /\ f.does = g.does /\ f.stage = n
<1> DEFINE top == Len(save.running)
           g == save.running[top]
           f == [g EXCEPT !.stage = n]
           e == Staged(save, n)
<1>1. save.running \in Seq(RunningEntry) /\ top \in DOMAIN save.running /\ g \in RunningEntry
  BY TopIs DEF SaveType
<1>2. f \in RunningEntry /\ f.hook = g.hook /\ f.id = g.id /\ f.does = g.does /\ f.stage = n
  BY <1>1 DEF RunningEntry
<1>3. e = [save EXCEPT !.running = [save.running EXCEPT ![top] = f]]
  BY <1>1 DEF Staged
<1> HIDE DEF f, e
<1>4. [save.running EXCEPT ![top] = f] \in Seq(RunningEntry)
  BY <1>1, <1>2
<1>5. /\ e \in SaveType /\ e.chain = save.chain /\ e.pc = save.pc
      /\ e.ran = save.ran /\ e.op = save.op /\ e.wasNew = save.wasNew /\ e.stopped = save.stopped
      /\ e.running = [save.running EXCEPT ![top] = f]
  BY <1>3, <1>4 DEF SaveType
<1>6. KindOf(e) = KindOf(save)
  BY <1>5 DEF KindOf
<1> QED BY <1>1, <1>2, <1>5, <1>6 DEF e

\* The stage of a function says nothing of a chain but for the one-off function of the outer trigger.
LEMMA StagedKeeps ==
  ASSUME NEW save, Saving(save), save.running # <<>>, NEW n \in 0..2, Top(save).does # KindOf(save)
  PROVE  Hanging(Staged(save, n))
<1> DEFINE e == Staged(save, n)
           kind == KindOf(save)
           top == Len(save.running)
<1>1. /\ Hanging(save) /\ save \in SaveType /\ kind \in Kinds /\ Top(save) = save.running[top]
      /\ save.pc \notin {"idle", "failed"} /\ ~(save.pc = "done" /\ save.op = "save")
  BY IsInside DEF Hanging
<1>2. /\ e \in SaveType /\ e.chain = save.chain /\ e.pc = save.pc /\ KindOf(e) = kind
      /\ e.ran = save.ran /\ e.op = save.op /\ e.wasNew = save.wasNew /\ e.stopped = save.stopped
      /\ DOMAIN e.running = DOMAIN save.running /\ top \in DOMAIN save.running
      /\ \A i \in DOMAIN save.running : i # top => e.running[i] = save.running[i]
      /\ LET f == e.running[top]
             g == save.running[top] IN
         f.hook = g.hook /\ f.id = g.id /\ f.does = g.does /\ f.stage = n
  BY <1>1, StagedIs
<1> HIDE DEF e, kind, top
<1>3. \A i \in DOMAIN save.running :
        e.running[i].hook = save.running[i].hook /\ e.running[i].id = save.running[i].id /\ e.running[i].does = save.running[i].does
  BY <1>2
<1>4. \A i \in DOMAIN save.running : save.running[i].does = kind => e.running[i] = save.running[i]
  BY <1>1, <1>2 DEF kind
<1>5. \A h : Triggered(e, h) <=> Triggered(save, h)
  BY <1>2 DEF Triggered, HasTriggered
<1>6. \A id : (HasRun(e, id) <=> HasRun(save, id)) /\ (Awaits(e, id) <=> Awaits(save, id))
  BY <1>2 DEF HasRun, Awaits
<1>7. ChainOK(e) /\ RanOK(e)
  BY <1>1, <1>2 DEF Hanging, ChainOK, RanOK
<1>8. RunningOK(e)
  <2>1. RunningOK(save)
    BY <1>1 DEF Hanging
  <2>2. ASSUME NEW i \in DOMAIN e.running, NEW j \in DOMAIN e.running, i # j
        PROVE  <<e.running[i].hook, e.running[i].id>> # <<e.running[j].hook, e.running[j].id>>
    BY <2>1, <2>2, <1>2, <1>3 DEF RunningOK
  <2>3. ASSUME NEW i \in DOMAIN e.running
        PROVE  InPlace(e.running[i]) /\ \E r \in DOMAIN e.ran : e.ran[r] = <<e.running[i].hook, e.running[i].id>>
    <3>1. InPlace(save.running[i])
      BY <2>1, <1>2 DEF RunningOK
    <3>2. PICK r \in DOMAIN save.ran : save.ran[r] = <<save.running[i].hook, save.running[i].id>>
      BY <2>1, <1>2 DEF RunningOK
    <3> QED BY <3>1, <3>2, <1>2, <1>3 DEF InPlace
  <2> QED BY <2>2, <2>3 DEF RunningOK
<1>9. InTurn(e)
  <2>1. \A i \in DOMAIN e.running : e.running[i].does = kind =>
         /\ e.running[i].stage = 0 => ~Triggered(e, During[kind])
         /\ e.running[i].stage < 2 => ~Triggered(e, After[kind])
    BY <1>1, <1>2, <1>3, <1>4, <1>5 DEF Hanging, InTurn, kind
  <2> QED BY <2>1, <1>1, <1>2, <1>5, <1>6 DEF Hanging, InTurn, kind
<1>10. ASSUME ~e.stopped PROVE Unstopped(e)
  <2>1. Unstopped(save)
    BY <1>1, <1>2, <1>10 DEF Hanging
  <2>2. Before(e, DatabaseCall[kind], After[kind])
    BY <2>1, <1>2 DEF Unstopped, Before, kind
  <2> QED BY <2>1, <2>2, <1>2, <1>4, <1>5, <1>6 DEF Unstopped, kind
<1> QED BY <1>2, <1>7, <1>8, <1>9, <1>10 DEF Hanging, e

LEMMA RunHandlerKeeps ==
  ASSUME ModelInv, NEW s \in Savers, RunHandler(s)
  PROVE  ModelInv'
<1> DEFINE save == saves[s]
           top == Top(save)
<1>0. model' \in [id : {NoId, ModelId}, new : BOOLEAN]
  BY DEF ModelInv, RunHandler
<1>1. Saving(save) /\ save.running # <<>> /\ top.does \in HandlerDoes
  BY DEF ModelInv, RunHandler, Inside
<1>2. /\ Hanging(save) /\ save \in SaveType /\ save.pc \notin {"idle", "failed"} /\ top \in RunningEntry
      /\ ~(save.pc = "done" /\ save.op = "save") /\ KindOf(save) \in Kinds
  BY <1>1, IsInside DEF Hanging
<1>3. top.does # KindOf(save)
  BY <1>1, <1>2, WordsOf
<1>4. CASE Goes(s, Rejected(save))
  BY <1>1, <1>4, RejectedKeeps, <1>0, CallActs
<1>5. CASE top.does # "throws" /\ top.stage < CallsOfNext[top.does] /\ Goes(s, CallNext(Staged(save, top.stage + 1)))
  <2>1. top.stage + 1 \in 0..2
    BY <1>1, <1>2, <1>5 DEF RunningEntry, CallsOfNext, HandlerDoes
  <2> DEFINE e == Staged(save, top.stage + 1)
  <2>2. Hanging(e)
    BY <1>1, <1>3, <2>1, StagedKeeps
  <2>3. e.pc = save.pc /\ e.op = save.op
    BY <1>1, <1>2, <2>1, StagedIs
  <2>4. Saving(CallNext(e))
    <3> HIDE DEF e, save
    <3> QED BY <1>2, <2>2, <2>3, NextSaves
  <2> QED BY <1>5, <2>4, <1>0, CallActs
<1>6. CASE top.does # "throws" /\ top.stage = CallsOfNext[top.does] /\ Goes(s, [Returned(save) EXCEPT !.stopped = @ \/ top.does = "stops"])
  <2> DEFINE x == save.stopped \/ top.does = "stops"
             e == [Returned(save) EXCEPT !.stopped = x]
  <2>1. x \in BOOLEAN /\ (save.stopped => x)
    BY <1>2 DEF SaveType
  <2>2. [Returned(save) EXCEPT !.stopped = @ \/ top.does = "stops"] = e
    BY <1>2 DEF Returned, SaveType
  <2>3. ASSUME ~x PROVE save.chain = <<>>
    <3>1. GoesInside(save) /\ top.stage # 0
      BY <1>1, <1>6, <2>3 DEF Saving, CallsOfNext, HandlerDoes
    <3> QED BY <3>1 DEF GoesInside
  <2>4. Saving(e)
    <3> HIDE DEF x, save
    <3> QED BY <1>1, <1>3, <2>1, <2>3, ReturnedKeeps
  <2> QED BY <1>6, <2>2, <2>4, <1>0, CallActs
<1> QED BY <1>4, <1>5, <1>6 DEF RunHandler

\* The one-off function innermost is the one of the call's kind, and nothing that was not stopped
\* is left on the chain.
LEMMA OneOffIs ==
  ASSUME NEW save, Saving(save), save.running # <<>>, Top(save).does \in OneOffs
  PROVE  /\ ~save.stopped => save.chain = <<>>
         /\ Top(save).does \in Kinds => Top(save).does = KindOf(save) /\ save.pc # "validated"
<1> DEFINE top == Top(save)
           kind == KindOf(save)
<1>1. /\ Hanging(save) /\ save \in SaveType /\ kind \in Kinds /\ InPlace(top) /\ InTurn(save) /\ RunningOK(save)
      /\ top = save.running[Len(save.running)] /\ Len(save.running) \in DOMAIN save.running
  BY IsInside DEF Hanging
<1>2. ~save.stopped => save.chain = <<>>
  <2>1. top.does \notin HandlerDoes
    BY <1>1, WordsOf
  <2> QED BY <2>1 DEF Saving, GoesInside
<1>3. ASSUME top.does \in Kinds PROVE top.does = kind /\ save.pc # "validated"
  <2>1. top.hook = top.does /\ top.does \in ModelHooks /\ top.does # "validate"
    BY <1>1, <1>3, WordsOf DEF InPlace
  <2>2. Triggered(save, top.hook)
    <3>1. PICK r \in DOMAIN save.ran : save.ran[r] = <<top.hook, top.id>>
      BY <1>1 DEF RunningOK
    <3> QED BY <3>1 DEF Triggered, HasTriggered
  <2>3. top.does \in {"validate", kind, During[kind], After[kind]} /\ save.pc # "validated"
    BY <1>1, <2>1, <2>2 DEF InTurn
  <2> QED BY <1>1, <1>3, <2>3, WordsOf
<1> QED BY <1>2, <1>3

LEMMA RowKeeps ==
  ASSUME ModelInv, NEW s \in Savers, CreateRow(s) \/ UpdateRow(s) \/ DeleteRow(s)
  PROVE  ModelInv'
<1> DEFINE save == saves[s]
           top == Top(save)
<1>0. model' \in [id : {NoId, ModelId}, new : BOOLEAN]
  BY DEF ModelInv, CreateRow, UpdateRow, DeleteRow
<1>1. Saving(save) /\ save.running # <<>> /\ top.does \in {"createRow", "updateRow", "deleteRow"}
  BY DEF ModelInv, CreateRow, UpdateRow, DeleteRow, Inside
<1>2. Hanging(save) /\ save \in SaveType /\ KindOf(save) \in Kinds
  BY <1>1, IsInside DEF Hanging
<1>3. top.does \in OneOffs /\ top.does \notin Kinds
  BY <1>1 DEF OneOffs, Kinds
<1>4. ~save.stopped => save.chain = <<>>
  BY <1>1, <1>3, OneOffIs
<1>5. CASE Goes(s, Rejected(save))
  BY <1>1, <1>5, RejectedKeeps, <1>0, CallActs
<1>6. CASE Goes(s, Returned(save))
  <2>1. [Returned(save) EXCEPT !.stopped = save.stopped] = Returned(save) /\ save.stopped \in BOOLEAN
    BY <1>2 DEF Returned, SaveType
  <2>2. Saving([Returned(save) EXCEPT !.stopped = save.stopped])
    <3> HIDE DEF save
    <3> QED BY <1>1, <1>2, <1>3, <1>4, <2>1, ReturnedKeeps
  <2> QED BY <1>6, <2>1, <2>2, <1>0, CallActs
<1> QED BY <1>5, <1>6 DEF CreateRow, UpdateRow, DeleteRow

\* What the one-off function of the outer trigger hangs on the call it is innermost of.
LEMMA HungInside ==
  ASSUME ModelInv, NEW save, Saving(save), save.running # <<>>, Top(save).does \in Kinds, NEW n \in 0..2,
         NEW hook \in ModelHooks, ~Triggered(save, hook), NEW oneOffs,
         oneOffs = <<>> \/ \E x \in OneOffs : oneOffs = <<OneOff(x)>> /\ HookOf[x] = hook
  PROVE  LET kind == KindOf(save)
             e == Hang(Staged(save, n), hook, oneOffs) IN
         /\ Top(save).does = kind /\ kind \in Kinds /\ KindOf(e) = kind
         /\ Hanging(save) /\ save.pc \notin {"idle", "failed", "validated"} /\ ~(save.pc = "done" /\ save.op = "save")
         /\ e \in SaveType /\ ChainOK(e) /\ RanOK(e) /\ RunningOK(e)
         /\ e.pc = save.pc /\ e.op = save.op /\ e.stopped = save.stopped /\ e.ran = save.ran
         /\ \A h : Triggered(e, h) => Triggered(save, h) \/ h = hook
         /\ \A h : HasTriggered(save, h) => Triggered(e, h)
         /\ \A id : HasRun(e, id) <=> HasRun(save, id)
         /\ HasRun(e, kind)
         /\ \A x \in OneOffs : oneOffs = <<OneOff(x)>> => Awaits(e, x) /\ Triggered(e, hook)
         /\ \A i \in DOMAIN e.running : e.running[i].does = kind => e.running[i].stage = n
         /\ \A i \in DOMAIN save.running : save.running[i].does = kind => save.running[i] = Top(save)
<1> DEFINE kind == KindOf(save)
           c == Staged(save, n)
           top == Len(save.running)
           e == Hang(c, hook, oneOffs)
<1>1. /\ Hanging(save) /\ save \in SaveType /\ kind \in Kinds /\ Top(save) = save.running[top]
      /\ ChainOK(save) /\ RunningOK(save) /\ RanOK(save) /\ InTurn(save)
      /\ save.pc \notin {"idle", "failed"} /\ ~(save.pc = "done" /\ save.op = "save")
  BY IsInside DEF Hanging
<1>2. Top(save).does = kind /\ save.pc # "validated"
  BY WordsOf, OneOffIs
<1>3. /\ c \in SaveType /\ c.pc = save.pc /\ KindOf(c) = kind
      /\ c.ran = save.ran /\ c.op = save.op /\ c.wasNew = save.wasNew /\ c.stopped = save.stopped
      /\ DOMAIN c.running = DOMAIN save.running /\ top \in DOMAIN save.running
      /\ \A i \in DOMAIN save.running : i # top => c.running[i] = save.running[i]
      /\ LET f == c.running[top]
             g == save.running[top] IN
         f.hook = g.hook /\ f.id = g.id /\ f.does = g.does /\ f.stage = n
  BY <1>1, StagedIs
<1> HIDE DEF c, kind, top
<1>4. kind \in OneOffs /\ HookOf[kind] = kind
  BY <1>1, WordsOf
<1>5. ~HasTriggered(c, hook)
  BY <1>3 DEF Triggered, HasTriggered
<1>6. /\ e \in SaveType /\ ChainOK(e)
      /\ e.pc = c.pc /\ e.op = c.op /\ e.wasNew = c.wasNew /\ e.stopped = c.stopped
      /\ e.running = c.running /\ e.ran = c.ran
      /\ \A h : Triggered(e, h) => HasTriggered(c, h) \/ h = hook
      /\ \A x \in OneOffs : oneOffs = <<OneOff(x)>> => Awaits(e, x) /\ Triggered(e, hook)
  BY <1>3, <1>5, Hung
<1> HIDE DEF e
<1>7. KindOf(e) = kind
  BY <1>3, <1>6 DEF KindOf
<1>8. \A h : HasTriggered(save, h) <=> HasTriggered(c, h)
  BY <1>3 DEF HasTriggered
<1>9. /\ \A h : Triggered(e, h) => Triggered(save, h) \/ h = hook
      /\ \A h : HasTriggered(save, h) => Triggered(e, h)
  <2>1. \A h : HasTriggered(c, h) <=> HasTriggered(e, h)
    BY <1>6 DEF HasTriggered
  <2> QED BY <2>1, <1>6, <1>8 DEF Triggered
<1>10. \A id : HasRun(e, id) <=> HasRun(save, id)
  BY <1>3, <1>6 DEF HasRun
<1>11. RanOK(e)
  BY <1>1, <1>3, <1>6 DEF RanOK
<1>12. RunningOK(e)
  <2>1. \A i \in DOMAIN save.running :
          e.running[i].hook = save.running[i].hook /\ e.running[i].id = save.running[i].id /\ e.running[i].does = save.running[i].does
    BY <1>3, <1>6
  <2>2. ASSUME NEW i \in DOMAIN e.running, NEW j \in DOMAIN e.running, i # j
        PROVE  <<e.running[i].hook, e.running[i].id>> # <<e.running[j].hook, e.running[j].id>>
    BY <2>1, <2>2, <1>1, <1>3, <1>6 DEF RunningOK
  <2>3. ASSUME NEW i \in DOMAIN e.running
        PROVE  InPlace(e.running[i]) /\ \E r \in DOMAIN e.ran : e.ran[r] = <<e.running[i].hook, e.running[i].id>>
    <3>1. InPlace(save.running[i])
      BY <1>1, <1>3, <1>6 DEF RunningOK
    <3>2. PICK r \in DOMAIN save.ran : save.ran[r] = <<save.running[i].hook, save.running[i].id>>
      BY <1>1, <1>3, <1>6 DEF RunningOK
    <3> QED BY <3>1, <3>2, <2>1, <1>3, <1>6 DEF InPlace
  <2> QED BY <2>2, <2>3 DEF RunningOK
<1>13. HasRun(e, kind)
  <2>1. PICK r \in DOMAIN save.ran : save.ran[r] = <<save.running[top].hook, save.running[top].id>>
    BY <1>1, <1>3 DEF RunningOK
  <2>2. save.running[top].id = kind
    BY <1>1, <1>2, <1>3, <1>4 DEF RunningOK, InPlace
  <2> QED BY <2>1, <2>2, <1>10 DEF HasRun
\* Only one function of the call is the one of its kind.
<1>14. ASSUME NEW i \in DOMAIN save.running, save.running[i].does = kind PROVE i = top
  <2>1. \A j \in DOMAIN save.running : save.running[j].does = kind => save.running[j].id = kind /\ save.running[j].hook = kind
    BY <1>1, <1>4 DEF RunningOK, InPlace
  <2> QED BY <2>1, <1>1, <1>2, <1>3, <1>14 DEF RunningOK
<1>15. \A i \in DOMAIN e.running : e.running[i].does = kind => e.running[i].stage = n
  BY <1>3, <1>6, <1>14
<1> QED BY <1>1, <1>2, <1>3, <1>6, <1>7, <1>9, <1>10, <1>11, <1>12, <1>13, <1>14, <1>15 DEF kind, c, e

\* The hook around the database call.
LEMMA ExecuteKeeps ==
  ASSUME ModelInv, NEW save, Saving(save), save.running # <<>>, Top(save).does \in Kinds, Top(save).stage = 0
  PROVE  Saving(Trigger(Staged(save, 1), During[Top(save).does], <<OneOff(DatabaseCall[Top(save).does])>>))
<1> DEFINE kind == KindOf(save)
           hook == During[kind]
           row == DatabaseCall[kind]
           oneOffs == <<OneOff(row)>>
           e == Hang(Staged(save, 1), hook, oneOffs)
<1>1. /\ Hanging(save) /\ InTurn(save) /\ kind \in Kinds
      /\ Top(save) = save.running[Len(save.running)] /\ Len(save.running) \in DOMAIN save.running
  BY IsInside DEF Hanging
<1>2. Top(save).does = kind
  BY WordsOf, OneOffIs
<1>3. /\ hook \in ModelHooks /\ row \in OneOffs /\ HookOf[row] = hook
      /\ kind # After[kind] /\ hook # After[kind] /\ hook # "validate"
  BY <1>1, WordsOf
<1> HIDE DEF kind
<1>4. ~Triggered(save, hook) /\ ~Triggered(save, After[kind])
  BY <1>1, <1>2 DEF InTurn, kind
<1>5. /\ KindOf(e) = kind
      /\ save.pc \notin {"idle", "failed", "validated"} /\ ~(save.pc = "done" /\ save.op = "save")
      /\ e \in SaveType /\ ChainOK(e) /\ RanOK(e) /\ RunningOK(e)
      /\ e.pc = save.pc /\ e.op = save.op /\ e.stopped = save.stopped /\ e.ran = save.ran
      /\ \A h : Triggered(e, h) => Triggered(save, h) \/ h = hook
      /\ HasRun(e, kind) /\ Awaits(e, row) /\ Triggered(e, hook)
      /\ \A i \in DOMAIN e.running : e.running[i].does = kind => e.running[i].stage = 1
  <2> HIDE DEF hook, row
  <2>1. oneOffs = <<OneOff(row)>>
    OBVIOUS
  <2> HIDE DEF oneOffs
  <2> QED BY <2>1, <1>3, <1>4, HungInside DEF kind
<1>6. Trigger(Staged(save, 1), hook, oneOffs) = CallNext(e)
  BY DEF Trigger
<1> HIDE DEF e, hook, row, oneOffs
<1>7. InTurn(e)
  <2>1. \A h \in ModelHooks : Triggered(e, h) => h \in {"validate", kind, During[kind], After[kind]}
    BY <1>1, <1>5 DEF InTurn, kind, hook
  <2>2. ~Triggered(e, After[kind])
    BY <1>3, <1>4, <1>5
  <2> QED BY <2>1, <2>2, <1>5 DEF InTurn
<1>8. ASSUME ~e.stopped PROVE Unstopped(e)
  <2>1. ~Triggered(e, After[kind])
    BY <1>3, <1>4, <1>5
  <2>2. Before(e, DatabaseCall[kind], After[kind])
    BY <2>1 DEF Before, Triggered, HasTriggered
  <2> QED BY <2>1, <2>2, <1>5 DEF Unstopped, hook, row
<1>9. Saving(CallNext(e))
  <2>1. Hanging(e)
    BY <1>5, <1>7, <1>8 DEF Hanging
  <2> QED BY <2>1, <1>5, NextSaves
<1> QED BY <1>2, <1>6, <1>9 DEF hook, row, oneOffs

\* The hook for its success.
LEMMA AfterKeeps ==
  ASSUME ModelInv, NEW save, Saving(save), save.running # <<>>, Top(save).does \in Kinds, Top(save).stage = 1
  PROVE  Saving(Trigger(Staged(save, 2), After[Top(save).does], <<>>))
<1> DEFINE kind == KindOf(save)
           hook == After[kind]
           e == Hang(Staged(save, 2), hook, <<>>)
<1>1. /\ Hanging(save) /\ InTurn(save) /\ kind \in Kinds
      /\ Top(save) = save.running[Len(save.running)] /\ Len(save.running) \in DOMAIN save.running
  BY IsInside DEF Hanging
<1>2. Top(save).does = kind /\ (~save.stopped => save.chain = <<>>)
  BY WordsOf, OneOffIs
<1>3. hook \in ModelHooks
  BY <1>1, WordsOf
<1> HIDE DEF kind
<1>4. ~Triggered(save, hook)
  BY <1>1, <1>2 DEF InTurn, kind
<1>5. /\ KindOf(e) = kind
      /\ save.pc \notin {"idle", "failed", "validated"} /\ ~(save.pc = "done" /\ save.op = "save")
      /\ e \in SaveType /\ ChainOK(e) /\ RanOK(e) /\ RunningOK(e)
      /\ e.pc = save.pc /\ e.op = save.op /\ e.stopped = save.stopped /\ e.ran = save.ran
      /\ \A h : Triggered(e, h) => Triggered(save, h) \/ h = hook
      /\ \A h : HasTriggered(save, h) => Triggered(e, h)
      /\ \A id : HasRun(e, id) <=> HasRun(save, id)
      /\ HasRun(e, kind)
      /\ \A i \in DOMAIN e.running : e.running[i].does = kind => e.running[i].stage = 2
      /\ \A i \in DOMAIN save.running : save.running[i].does = kind => save.running[i] = Top(save)
  <2> HIDE DEF hook
  <2> QED BY <1>3, <1>4, HungInside DEF kind
<1>6. Trigger(Staged(save, 2), hook, <<>>) = CallNext(e)
  BY DEF Trigger
<1> HIDE DEF e, hook
<1>7. InTurn(e)
  <2>1. \A h \in ModelHooks : Triggered(e, h) => h \in {"validate", kind, During[kind], After[kind]}
    BY <1>1, <1>5 DEF InTurn, kind, hook
  <2> QED BY <2>1, <1>5 DEF InTurn
<1>8. ASSUME ~e.stopped PROVE Unstopped(e)
  <2>1. Unstopped(save) /\ save.chain = <<>>
    BY <1>1, <1>2, <1>5, <1>8 DEF Hanging
  <2>2. Triggered(save, During[kind])
    BY <2>1, <1>5 DEF Unstopped, kind
  <2>3. HasRun(e, DatabaseCall[kind])
    BY <2>1, <2>2, <1>5 DEF Unstopped, Awaits, kind
  <2>4. Triggered(e, During[kind])
    BY <2>1, <2>2, <1>5 DEF Triggered
  <2>5. Before(e, DatabaseCall[kind], After[kind])
    BY <2>1, <1>5 DEF Unstopped, Before, kind
  <2> QED BY <2>3, <2>4, <2>5, <1>5 DEF Unstopped
<1>9. Saving(CallNext(e))
  <2>1. Hanging(e)
    BY <1>5, <1>7, <1>8 DEF Hanging
  <2> QED BY <2>1, <1>5, NextSaves
<1> QED BY <1>2, <1>6, <1>9 DEF hook

LEMMA NestedKeeps ==
  ASSUME ModelInv, NEW s \in Savers, Nested(s)
  PROVE  ModelInv'
<1> DEFINE save == saves[s]
           top == Top(save)
<1>0. model' \in [id : {NoId, ModelId}, new : BOOLEAN]
  BY DEF ModelInv, Nested
<1>1. Saving(save) /\ save.running # <<>> /\ top.does \in Kinds
  BY DEF ModelInv, Nested, Inside, Kinds
<1>2. Hanging(save) /\ save \in SaveType /\ top.does \in OneOffs
  BY <1>1, IsInside, WordsOf DEF Hanging
<1>3. CASE top.stage = 0 /\ Goes(s, Trigger(Staged(save, 1), During[top.does], <<OneOff(DatabaseCall[top.does])>>))
  <2>1. Saving(Trigger(Staged(save, 1), During[top.does], <<OneOff(DatabaseCall[top.does])>>))
    <3> HIDE DEF save
    <3> QED BY <1>1, <1>3, ExecuteKeeps
  <2> QED BY <1>3, <2>1, <1>0, CallActs
<1>4. CASE top.stage = 1 /\ Goes(s, Trigger(Staged(save, 2), After[top.does], <<>>))
  <2>1. Saving(Trigger(Staged(save, 2), After[top.does], <<>>))
    <3> HIDE DEF save
    <3> QED BY <1>1, <1>4, AfterKeeps
  <2> QED BY <1>4, <2>1, <1>0, CallActs
<1>5. CASE top.stage = 2 /\ Goes(s, Returned(save))
  <2>1. [Returned(save) EXCEPT !.stopped = save.stopped] = Returned(save) /\ save.stopped \in BOOLEAN
    BY <1>2 DEF Returned, SaveType
  <2>2. ~save.stopped => save.chain = <<>>
    BY <1>1, <1>2, OneOffIs
  <2>3. Saving([Returned(save) EXCEPT !.stopped = save.stopped])
    <3> HIDE DEF save
    <3> QED BY <1>1, <1>5, <2>1, <2>2, ReturnedKeeps
  <2> QED BY <1>5, <2>1, <2>3, <1>0, CallActs
<1> QED BY <1>3, <1>4, <1>5 DEF Nested

\* The first trigger of save() and of delete(), and the one that comes after validation: the call
\* has run nothing but, perhaps, the validation.
LEMMA FirstHung ==
  ASSUME ModelInv, NEW save \in SaveType, save.running = <<>>, RanOK(save),
         save.pc \notin {"idle", "failed"}, ~(save.pc = "done" /\ save.op = "save"),
         NEW hook \in ModelHooks, ~HasTriggered(save, hook),
         \A h \in ModelHooks : HasTriggered(save, h) => h = "validate",
         NEW oneOffs, \/ hook = "validate" /\ oneOffs = <<>> /\ save.pc = "validated" /\ save.op = "save"
                      \/ hook = KindOf(save) /\ oneOffs = <<OneOff(hook)>> /\ save.pc # "validated"
  PROVE  Saving(Trigger(save, hook, oneOffs))
<1> DEFINE kind == KindOf(save)
           e == Hang(save, hook, oneOffs)
<1>1. kind \in Kinds
  BY KindIs
<1> HIDE DEF kind
<1>2. /\ kind \in OneOffs /\ kind \in ModelHooks /\ HookOf[kind] = kind /\ During[kind] \in ModelHooks /\ After[kind] \in ModelHooks
      /\ kind # During[kind] /\ kind # After[kind] /\ "validate" \notin {kind, During[kind], After[kind]}
  BY <1>1, WordsOf
<1>3. oneOffs = <<>> \/ \E x \in OneOffs : oneOffs = <<OneOff(x)>> /\ HookOf[x] = hook
  BY <1>2 DEF kind
<1>4. /\ e \in SaveType /\ ChainOK(e)
      /\ e.pc = save.pc /\ e.op = save.op /\ e.wasNew = save.wasNew /\ e.stopped = save.stopped
      /\ e.running = save.running /\ e.ran = save.ran
      /\ \A h : Triggered(e, h) => HasTriggered(save, h) \/ h = hook
      /\ \A x \in OneOffs : oneOffs = <<OneOff(x)>> => Awaits(e, x) /\ Triggered(e, hook)
  BY <1>3, Hung
<1> HIDE DEF e
<1>5. KindOf(e) = kind
  BY <1>4 DEF KindOf, kind
<1>6. RanOK(e) /\ RunningOK(e)
  BY <1>4 DEF RanOK, RunningOK
<1>7. ~Triggered(e, During[kind]) /\ ~Triggered(e, After[kind])
  BY <1>2, <1>4 DEF kind
<1>8. InTurn(e)
  BY <1>2, <1>4, <1>5, <1>7 DEF InTurn, kind
<1>9. \A r \in DOMAIN e.ran : e.ran[r][1] = "validate"
  <2>1. ASSUME NEW r \in DOMAIN save.ran PROVE save.ran[r][1] \in ModelHooks
    BY DEF SaveType
  <2> QED BY <2>1, <1>4 DEF HasTriggered
<1>10. ~HasRun(e, kind)
  <2> SUFFICES ASSUME NEW r \in DOMAIN e.ran, e.ran[r][2] = kind PROVE FALSE
    BY DEF HasRun
  <2> QED BY <1>2, <1>6, <1>9 DEF RanOK
<1>11. Unstopped(e)
  <2>1. Before(e, DatabaseCall[kind], After[kind])
    BY <1>2, <1>9 DEF Before
  <2>2. save.pc # "validated" => Awaits(e, kind)
    BY <1>2, <1>4 DEF kind
  <2> QED BY <2>1, <2>2, <1>4, <1>5, <1>7, <1>10 DEF Unstopped
<1>12. Saving(CallNext(e))
  <2>1. Hanging(e)
    BY <1>4, <1>6, <1>8, <1>11 DEF Hanging
  <2> QED BY <2>1, <1>4, NextSaves
<1> QED BY <1>12 DEF Trigger, e

LEMMA CallBegins ==
  ASSUME ModelInv, NEW s \in Savers, SaveModel(s) \/ DeleteModel(s)
  PROVE  ModelInv'
<1>0. model' \in [id : {NoId, ModelId}, new : BOOLEAN]
  BY DEF ModelInv, SaveModel, DeleteModel
<1>1. CASE SaveModel(s)
  <2> DEFINE save == [NoSave EXCEPT !.pc = "validated"]
  <2>1. save \in SaveType /\ save.running = <<>> /\ save.ran = <<>> /\ save.pc = "validated" /\ save.op = "save"
    <3>1. <<>> \in Seq(ChainEntry) /\ <<>> \in Seq(RunningEntry) /\ <<>> \in Seq(ModelHooks \X FunctionIds)
      OBVIOUS
    <3> QED BY <3>1 DEF NoSave, SaveType
  <2> HIDE DEF save
  <2>2. RanOK(save) /\ \A h : ~HasTriggered(save, h)
    BY <2>1 DEF RanOK, HasTriggered
  <2>3. "validate" \in ModelHooks
    BY DEF ModelHooks
  <2>4. Saving(Trigger(save, "validate", <<>>))
    BY <2>1, <2>2, <2>3, FirstHung
  <2> QED BY <1>1, <2>4, <1>0, CallActs DEF SaveModel, save
<1>2. CASE DeleteModel(s)
  <2> DEFINE save == [NoSave EXCEPT !.pc = "done", !.op = "delete"]
  <2>1. save \in SaveType /\ save.running = <<>> /\ save.ran = <<>> /\ save.pc = "done" /\ save.op = "delete"
    <3>1. <<>> \in Seq(ChainEntry) /\ <<>> \in Seq(RunningEntry) /\ <<>> \in Seq(ModelHooks \X FunctionIds)
      OBVIOUS
    <3> QED BY <3>1 DEF NoSave, SaveType
  <2> HIDE DEF save
  <2>2. RanOK(save) /\ \A h : ~HasTriggered(save, h)
    BY <2>1 DEF RanOK, HasTriggered
  <2>3. KindOf(save) = "delete" /\ "delete" \in ModelHooks
    BY <2>1 DEF KindOf, ModelHooks
  <2>4. Saving(Trigger(save, "delete", <<OneOff("delete")>>))
    BY <2>1, <2>2, <2>3, FirstHung
  <2> QED BY <1>2, <2>4, <1>0, CallActs DEF DeleteModel, save
<1> QED BY <1>1, <1>2

\* Who has not called yet, or found no database, has triggered nothing.
LEMMA NothingSaved == Saving(NoSave)
<1>1. /\ NoSave \in SaveType /\ NoSave.chain = <<>> /\ NoSave.running = <<>> /\ NoSave.ran = <<>> /\ NoSave.pc = "idle"
  BY DEF NoSave, SaveType
<1> DEFINE kind == KindOf(NoSave)
<1>2. kind \in Kinds
  BY <1>1, KindIs
<1>3. /\ \A h : ~Triggered(NoSave, h)
      /\ \A id : ~HasRun(NoSave, id)
      /\ \A f, g : Before(NoSave, f, g)
  BY <1>1 DEF Triggered, HasTriggered, HasRun, Before
<1>4. ChainOK(NoSave) /\ RunningOK(NoSave) /\ RanOK(NoSave) /\ GoesInside(NoSave)
  BY <1>1 DEF ChainOK, RunningOK, RanOK, GoesInside
<1>5. InTurn(NoSave) /\ Unstopped(NoSave)
  BY <1>1, <1>3 DEF InTurn, Unstopped
<1> QED BY <1>1, <1>4, <1>5 DEF Saving, Hanging

LEMMA SaveNoValidateKeeps ==
  ASSUME ModelInv, NEW s \in Savers, SaveNoValidate(s)
  PROVE  ModelInv'
<1> DEFINE was == saves[s]
<1>0. model' \in [id : {NoId, ModelId}, new : BOOLEAN]
  BY DEF ModelInv, SaveNoValidate, ModelId
<1>1. Saving(was) /\ was.pc = "validated" /\ was.running = <<>>
  BY DEF ModelInv, SaveNoValidate, Resumes
<1>2. was \in SaveType /\ RanOK(was) /\ was.op = "save" /\ \A h \in ModelHooks : HasTriggered(was, h) => h = "validate"
  BY <1>1 DEF Saving, Hanging, InTurn, Triggered
<1>3. ASSUME NEW new \in BOOLEAN
      PROVE  LET save == [was EXCEPT !.pc = "executed", !.wasNew = new]
                 kind == IF new THEN "create" ELSE "update" IN
             Saving(Trigger(save, kind, <<OneOff(kind)>>))
  <2> DEFINE save == [was EXCEPT !.pc = "executed", !.wasNew = new]
             kind == IF new THEN "create" ELSE "update"
  <2>1. /\ save \in SaveType /\ save.running = <<>> /\ save.ran = was.ran /\ save.pc = "executed" /\ save.op = "save"
        /\ save.wasNew = new
    BY <1>1, <1>2 DEF SaveType
  <2> HIDE DEF save
  <2>2. RanOK(save) /\ \A h : HasTriggered(save, h) <=> HasTriggered(was, h)
    BY <1>2, <2>1 DEF RanOK, HasTriggered
  <2>3. KindOf(save) = kind
    BY <2>1 DEF KindOf
  <2>4. kind \in ModelHooks /\ kind # "validate"
    BY DEF ModelHooks
  <2> HIDE DEF kind
  <2>5. Saving(Trigger(save, kind, <<OneOff(kind)>>))
    BY <1>2, <2>1, <2>2, <2>3, <2>4, FirstHung
  <2> QED BY <2>5 DEF save, kind
<1>4. CASE Goes(s, Trigger([was EXCEPT !.pc = "executed", !.wasNew = model.new], "create", <<OneOff("create")>>)) /\ model.new
  <2>1. [was EXCEPT !.pc = "executed", !.wasNew = model.new] = [was EXCEPT !.pc = "executed", !.wasNew = TRUE]
    BY <1>2, <1>4 DEF SaveType
  <2>2. Saving(Trigger([was EXCEPT !.pc = "executed", !.wasNew = TRUE], "create", <<OneOff("create")>>))
    BY <1>3
  <2> QED BY <1>4, <2>1, <2>2, <1>0, CallActs
<1>5. CASE Goes(s, Trigger([was EXCEPT !.pc = "executed", !.wasNew = model.new], "update", <<OneOff("update")>>)) /\ ~model.new
  <2>1. [was EXCEPT !.pc = "executed", !.wasNew = model.new] = [was EXCEPT !.pc = "executed", !.wasNew = FALSE]
    <3>1. model.new = FALSE
      BY <1>5 DEF ModelInv
    <3> QED BY <3>1
  <2>2. Saving(Trigger([was EXCEPT !.pc = "executed", !.wasNew = FALSE], "update", <<OneOff("update")>>))
    BY <1>3
  <2> QED BY <1>5, <2>1, <2>2, <1>0, CallActs
<1>6. CASE Goes(s, NoSave)
  BY <1>0, <1>6, NothingSaved, CallActs
<1> QED BY <1>4, <1>5, <1>6 DEF SaveNoValidate

LEMMA MarkAsNotNewKeeps ==
  ASSUME ModelInv, NEW s \in Savers, MarkAsNotNew(s)
  PROVE  ModelInv'
<1> DEFINE was == saves[s]
           save == [was EXCEPT !.pc = "done"]
           kind == KindOf(was)
<1>0. model' \in [id : {NoId, ModelId}, new : BOOLEAN]
  BY DEF ModelInv, MarkAsNotNew
<1>1. Saving(was) /\ was.pc = "executed" /\ was.running = <<>> /\ was \in SaveType
  BY DEF ModelInv, MarkAsNotNew, Resumes, Saving, Hanging
<1>2. /\ save \in SaveType /\ save.running = <<>> /\ save.ran = was.ran /\ save.pc = "done" /\ save.chain = was.chain
      /\ save.op = was.op /\ save.wasNew = was.wasNew /\ save.stopped = was.stopped
  BY <1>1 DEF SaveType
<1> HIDE DEF save
<1>3. KindOf(save) = kind
  BY <1>2 DEF KindOf
<1> HIDE DEF kind
<1>4. \A h : Triggered(save, h) <=> Triggered(was, h)
  BY <1>2 DEF Triggered, HasTriggered
<1>5. \A id : (HasRun(save, id) <=> HasRun(was, id)) /\ (Awaits(save, id) <=> Awaits(was, id))
  BY <1>2 DEF HasRun, Awaits
<1>6. ChainOK(save) /\ RanOK(save) /\ RunningOK(save)
  BY <1>1, <1>2 DEF Saving, Hanging, ChainOK, RanOK, RunningOK
<1>7. InTurn(save)
  BY <1>1, <1>2, <1>3, <1>4, <1>5 DEF Saving, Hanging, InTurn, kind
<1>8. ASSUME ~save.stopped PROVE Unstopped(save) /\ GoesInside(save)
  <2>1. Unstopped(was) /\ GoesInside(was)
    BY <1>1, <1>2, <1>8 DEF Saving, Hanging
  <2>2. Before(save, DatabaseCall[kind], After[kind])
    BY <2>1, <1>2 DEF Unstopped, Before, kind
  <2> QED BY <2>1, <2>2, <1>1, <1>2, <1>3, <1>4, <1>5 DEF Unstopped, GoesInside, kind
<1>9. Saving(save)
  BY <1>2, <1>6, <1>7, <1>8 DEF Saving, Hanging
<1> QED BY <1>0, <1>9, CallActs DEF MarkAsNotNew, save

LEMMA BindKeeps ==
  ASSUME ModelInv, NEW hook \in BindHooks, NEW handler \in HookHandlers, Bind(hook, handler)
  PROVE  ModelInv'
<1> DEFINE was == bound[hook]
           handlers == Put(was, handler)
<1>1. was \in Seq(ModelHandlers) /\ Sorted(was) /\ handler \in ModelHandlers
  BY DEF ModelInv, ModelHandlers
<1>2. handlers \in Seq(ModelHandlers)
  <2>1. Append(was, handler) \in Seq(ModelHandlers)
    BY <1>1
  <2>2. \A S \in SUBSET DOMAIN was : [i \in DOMAIN was |-> IF i \in S THEN handler ELSE was[i]] \in Seq(ModelHandlers)
    BY <1>1
  <2> QED BY <2>1, <2>2 DEF Put
<1>3. ASSUME NEW i \in DOMAIN handlers, NEW j \in DOMAIN handlers, i # j
      PROVE  handlers[i].id # handlers[j].id
  <2> DEFINE same == {k \in DOMAIN was : was[k].id = handler.id}
  <2>0. \A k, l \in DOMAIN was : k # l => was[k].id # was[l].id
    <3>1. \A k, l \in DOMAIN was : k < l \/ l < k \/ k = l
      BY <1>1
    <3> QED BY <3>1, <1>1 DEF Sorted
  <2>1. CASE same = {}
    <3>1. handlers = Append(was, handler)
      BY <2>1 DEF Put
    <3>2. \A k \in DOMAIN handlers : (k \in DOMAIN was /\ handlers[k] = was[k]) \/ (k \notin DOMAIN was /\ k = Len(was) + 1 /\ handlers[k] = handler)
      BY <3>1, <1>1
    <3>3. \A k \in DOMAIN was : was[k].id # handler.id
      BY <2>1
    <3> HIDE DEF handlers, was
    <3> QED BY <1>3, <2>0, <3>2, <3>3
  <2>2. CASE same # {}
    <3>1. handlers = [k \in DOMAIN was |-> IF k \in same THEN handler ELSE was[k]]
      BY <2>2 DEF Put
    <3>2. \A k \in DOMAIN handlers : k \in DOMAIN was /\ handlers[k].id = was[k].id
      BY <3>1
    <3> HIDE DEF handlers, was
    <3> QED BY <1>3, <2>0, <3>2
  <2> QED BY <2>1, <2>2
<1>4. PICK order \in ByPriority(handlers) : bound' = [bound EXCEPT ![hook] = [i \in DOMAIN handlers |-> handlers[order[i]]]]
  BY DEF Bind
<1> DEFINE new == [i \in DOMAIN handlers |-> handlers[order[i]]]
<1> HIDE DEF handlers
<1>5. /\ order \in [DOMAIN handlers -> DOMAIN handlers]
      /\ \A i, j \in DOMAIN handlers : i < j =>
            \/ handlers[order[i]].priority < handlers[order[j]].priority
            \/ handlers[order[i]].priority = handlers[order[j]].priority /\ order[i] < order[j]
  BY DEF ByPriority
<1>6. new \in Seq(ModelHandlers) /\ DOMAIN new = DOMAIN handlers /\ \A i \in DOMAIN handlers : new[i] = handlers[order[i]]
  BY <1>2, <1>5
<1>7. \A i \in DOMAIN handlers : order[i] \in DOMAIN handlers /\ order[i] \in Int /\ handlers[order[i]].priority \in Int
  BY <1>2, <1>5, HandlersAre
<1>8. Sorted(new)
  <2> SUFFICES ASSUME NEW i \in DOMAIN handlers, NEW j \in DOMAIN handlers, i < j
               PROVE  /\ handlers[order[i]].id # handlers[order[j]].id
                      /\ handlers[order[i]].priority <= handlers[order[j]].priority
    BY <1>6 DEF Sorted
  <2>1. order[i] # order[j] /\ handlers[order[i]].priority <= handlers[order[j]].priority
    BY <1>5, <1>7
  <2> QED BY <2>1, <1>3, <1>7
<1> HIDE DEF new
<1>9. binds' \in Nat /\ saves' = saves /\ model' = model /\ bound' = [bound EXCEPT ![hook] = new]
  <2>1. binds' = binds + 1 /\ saves' = saves /\ model' = model
    BY DEF Bind
  <2> QED BY <1>4, <2>1 DEF ModelInv, new
<1> QED BY <1>6, <1>8, <1>9 DEF ModelInv

LEMMA UnbindKeeps ==
  ASSUME ModelInv, NEW hook \in BindHooks, NEW handler \in HookHandlers, Unbind(hook, handler)
  PROVE  ModelInv'
<1>1. PICK i \in DOMAIN bound[hook] : bound' = [bound EXCEPT ![hook] = RemoveAt(bound[hook], i)]
  BY DEF Unbind
<1> DEFINE was == bound[hook]
           new == RemoveAt(was, i)
<1>2. was \in Seq(ModelHandlers) /\ Sorted(was) /\ i \in 1..Len(was)
  BY DEF ModelInv
<1>3. /\ new \in Seq(ModelHandlers) /\ DOMAIN new = 1..(Len(was) - 1)
      /\ \A j \in DOMAIN new : new[j] = IF j < i THEN was[j] ELSE was[j + 1]
  <2> HIDE DEF was
  <2> DEFINE head == SubSeq(was, 1, i - 1)
             rest == SubSeq(was, i + 1, Len(was))
  <2>1. /\ head \in Seq(ModelHandlers) /\ Len(head) = i - 1
        /\ \A j \in 1..(i - 1) : head[j] = was[j]
    BY <1>2, SubSeqProperties
  <2>2. /\ rest \in Seq(ModelHandlers) /\ Len(rest) = Len(was) - i
        /\ \A j \in 1..(Len(was) - i) : rest[j] = was[j + i]
    BY <1>2, SubSeqProperties
  <2>3. new = head \o rest
    BY DEF RemoveAt
  <2> HIDE DEF head, rest, new
  <2>4. new \in Seq(ModelHandlers) /\ Len(new) = Len(was) - 1
    BY <1>2, <2>1, <2>2, <2>3
  <2>5. \A j \in 1..(Len(was) - 1) : new[j] = IF j < i THEN was[j] ELSE was[j + 1]
    BY <1>2, <2>1, <2>2, <2>3
  <2> QED BY <2>4, <2>5
<1> HIDE DEF new, was
<1>4. Sorted(new)
  <2> SUFFICES ASSUME NEW j \in DOMAIN new, NEW k \in DOMAIN new, j < k
               PROVE  new[j].id # new[k].id /\ new[j].priority <= new[k].priority
    BY DEF Sorted
  <2> DEFINE old(x) == IF x < i THEN x ELSE x + 1
  <2>1. old(j) \in DOMAIN was /\ old(k) \in DOMAIN was /\ old(j) < old(k)
    BY <1>2, <1>3
  <2>2. new[j] = was[old(j)] /\ new[k] = was[old(k)]
    BY <1>3
  <2> HIDE DEF old
  <2> QED BY <2>1, <2>2, <1>2 DEF Sorted
<1>5. saves' = saves /\ binds' = binds /\ model' = model /\ bound' = [bound EXCEPT ![hook] = new]
  BY <1>1 DEF Unbind, new, was
<1> QED BY <1>3, <1>4, <1>5 DEF ModelInv

LEMMA ModelBegins == ModelInit => ModelInv
<1> SUFFICES ASSUME ModelInit PROVE ModelInv
  OBVIOUS
<1>6. Saving(NoSave)
  BY NothingSaved
<1>7. \A h \in BindHooks : Defaults(h) \in Seq(ModelHandlers) /\ Sorted(Defaults(h))
  <2>1. PassThrough \in ModelHandlers
    BY DEF ModelHandlers
  <2>2. Sorted(<<>>) /\ Sorted(<<PassThrough>>)
    <3>1. DOMAIN <<PassThrough>> = {1} /\ \A i, j \in {1} : ~(i < j)
      OBVIOUS
    <3> QED BY <3>1 DEF Sorted
  <2> QED BY <2>1, <2>2 DEF Defaults
<1>8. /\ bound = [h \in BindHooks |-> Defaults(h)] /\ binds = 0 /\ saves = [s \in Savers |-> NoSave]
      /\ model \in [id : {NoId, ModelId}, new : BOOLEAN]
  BY DEF ModelInit
<1> QED BY <1>6, <1>7, <1>8 DEF ModelInv

LEMMA ModelKeeps == ModelInv /\ [ModelNext]_modelVars => ModelInv'
<1> SUFFICES ASSUME ModelInv, [ModelNext]_modelVars PROVE ModelInv'
  OBVIOUS
<1>1. CASE UNCHANGED modelVars
  BY <1>1 DEF ModelInv, modelVars
<1>2. CASE ModelNext
  BY <1>2, BindKeeps, UnbindKeeps, RunHandlerKeeps, NestedKeeps, RowKeeps, CallBegins, SaveNoValidateKeeps,
     MarkAsNotNewKeeps DEF ModelNext
<1> QED BY <1>1, <1>2

LEMMA CallsHold ==
  ASSUME ModelInv
  PROVE  ChainsSorted /\ RunOnce /\ SavesTakeEffect
<1>1. ChainsSorted
  BY DEF ModelInv, Sorted, ChainsSorted
<1>2. RunOnce
  BY DEF ModelInv, Saving, Hanging, RanOK, RunOnce, IsInjective
<1>3. ASSUME NEW s \in Savers, ~saves[s].stopped
      PROVE  LET save == saves[s] IN
             /\ \A kind \in DOMAIN After : Before(save, DatabaseCall[kind], After[kind])
             /\ save.pc = "done" /\ save.running = <<>> =>
                  \E r \in Range(save.ran) : r[2] = DatabaseCall[KindOf(save)]
  <2> DEFINE save == saves[s]
             kind == KindOf(save)
  <2>1. save \in SaveType /\ Unstopped(save) /\ GoesInside(save) /\ InTurn(save) /\ kind \in Kinds
    BY <1>3, KindIs DEF ModelInv, Saving, Hanging
  <2> HIDE DEF save
  <2>2. ASSUME NEW k \in DOMAIN After PROVE Before(save, DatabaseCall[k], After[k])
    <3>1. k \in Kinds
      BY DEF After, Kinds
    <3>2. CASE k = kind
      BY <2>1, <3>2 DEF Unstopped
    <3>3. CASE k # kind
      <4>1. After[k] \in ModelHooks /\ After[k] \notin {"validate", kind, During[kind], After[kind]}
        BY <2>1, <3>1, <3>3, WordsOf
      <4>2. ~HasTriggered(save, After[k])
        BY <2>1, <4>1 DEF InTurn, Triggered
      <4> QED BY <4>2 DEF Before, HasTriggered
    <3> QED BY <3>2, <3>3
  <2>3. ASSUME save.pc = "done", save.running = <<>>
        PROVE  \E r \in Range(save.ran) : r[2] = DatabaseCall[kind]
    <3>1. save.chain = <<>>
      BY <2>1, <2>3 DEF GoesInside
    <3>2. HasRun(save, kind)
      BY <2>1, <2>3, <3>1 DEF Unstopped, Awaits
    <3>3. Triggered(save, During[kind])
      BY <2>1, <2>3, <3>2 DEF Unstopped
    <3>4. HasRun(save, DatabaseCall[kind])
      BY <2>1, <2>3, <3>1, <3>3 DEF Unstopped, Awaits
    <3> QED BY <3>4 DEF HasRun, Range
  <2> QED BY <2>2, <2>3 DEF save
<1> QED BY <1>1, <1>2, <1>3 DEF SavesTakeEffect

\* However calls on a model, and the binding of handlers, interleave: the handlers of a hook have
\* distinct ids and the order of their priorities, no call runs a function twice though handlers
\* call next twice, and a call that no handler stopped makes its one database call, before the
\* handlers of its success: for any handlers, hooks and calls (hook.ts, base.ts).
THEOREM HooksRunOnce == ModelSpec => []ChainsSorted /\ []RunOnce /\ []SavesTakeEffect
BY ModelBegins, ModelKeeps, CallsHold, PTL DEF ModelSpec

(***************************************************************************)
(* Jobs by the clock.                                                      *)
(*                                                                         *)
(* No job runs twice in a minute since the tick to come is in a minute of  *)
(* its own, or at a boundary that a run may have been at (CronTimed); a    *)
(* timer that is on time is at a boundary, as the first was.               *)
(***************************************************************************)
WholeMinutes == \A interval \in Intervals : interval % Instants = 0
GivenTexts == {text \in CronTexts : IsExpression(text)}
CronJobSet == [id : CronIds, text : GivenTexts, schedule : {NewSchedule(text) : text \in GivenTexts}, since : 0..MaxInstant]
ScheduledAs(jobs) == \A job \in jobs : job.schedule = NewSchedule(job.text)
OneOfEachId(jobs) == \A job, other \in jobs : job.id = other.id => job = other
CronTick == [at : 0..MaxInstant, first : BOOLEAN, jobs : SUBSET CronJobSet]

CronTyped ==
    /\ cronNow \in 0..MaxInstant /\ every \in Intervals \cup {Instants} /\ changes \in Nat /\ punctual \in BOOLEAN
    /\ cronTimer \in [kind : {"none", "start", "tick"}, at : Nat, from : Nat]
    /\ cronJobs \in SUBSET CronJobSet /\ ran \in Seq(CronTick)
JobsApart ==
    /\ ScheduledAs(cronJobs) /\ OneOfEachId(cronJobs) /\ \A job \in cronJobs : job.since <= cronNow
    /\ \A i \in DOMAIN ran : OneOfEachId(ran[i].jobs) /\ ran[i].at <= cronNow
CronTimed ==
    /\ cronTimer.kind = "start" => cronTimer.at = cronTimer.from /\ \A i \in DOMAIN ran : ran[i].at <= cronTimer.at
    /\ cronTimer.kind = "tick" => /\ cronTimer.at <= cronNow + every
                                  /\ \A i \in DOMAIN ran : MinuteAt(ran[i].at) < MinuteAt(cronTimer.at)
    /\ cronTimer.kind # "none" => /\ cronTimer.from % Instants = 0
                                  /\ punctual => cronNow <= cronTimer.at /\ cronTimer.at % Instants = 0
TicksInTurn ==
    \A i, j \in DOMAIN ran : i < j =>
        \/ MinuteAt(ran[i].at) < MinuteAt(ran[j].at)
        \/ ran[j].first /\ ran[i].at % Instants = 0
CronInv == CronTyped /\ JobsApart /\ CronTimed /\ TicksInTurn /\ RunsWhenDue /\ NoMinuteMissed

\* Whole numbers of minutes.
LEMMA WholeOf ==
  ASSUME NEW a \in Nat, NEW b \in Nat \ {0}, a % b = 0
  PROVE  \E k \in Nat : a = b * k
<1>1. a \div b \in Nat
  BY SMT
<1>2. a = b * (a \div b)
  BY SMT
<1> QED BY <1>1, <1>2

LEMMA MultipleOf == \A k \in Nat, b \in Nat \ {0} : (b * k) % b = 0 /\ (b * k) \div b = k
BY SMT

LEMMA WholeSum ==
  ASSUME NEW a \in Nat, NEW c \in Nat, NEW b \in Nat \ {0}, a % b = 0, c % b = 0
  PROVE  (a + c) % b = 0
<1>1. PICK k \in Nat : a = b * k
  BY WholeOf
<1>2. PICK l \in Nat : c = b * l
  BY WholeOf
<1>3. a + c = b * (k + l) /\ k + l \in Nat
  BY <1>1, <1>2
<1> QED BY <1>3, MultipleOf

\* The boundary that a start waits for.
LEMMA BoundaryIs ==
  ASSUME NEW here \in Nat, NEW interval \in Nat \ {0}, NEW b \in Nat \ {0}, interval % b = 0,
         NEW boundary, boundary = ((here + interval - 1) \div interval) * interval
  PROVE  boundary \in Nat /\ boundary >= here /\ boundary % b = 0
<1> DEFINE n == (here + interval - 1) \div interval
<1>1. n \in Nat
  BY SMT
<1>2. n * interval >= here
  BY SMT
<1> HIDE DEF n
<1>3. PICK l \in Nat : interval = b * l
  BY WholeOf
<1> DEFINE k == n * l
<1>4. boundary = b * k /\ k \in Nat
  BY <1>1, <1>3 DEF n
<1> HIDE DEF k
<1>5. boundary % b = 0
  BY <1>4, MultipleOf
<1>6. boundary \in Nat
  BY <1>4
<1> QED BY <1>2, <1>5, <1>6 DEF n

LEMMA MinutesGrow ==
  ASSUME NEW x \in Nat, NEW y \in Nat, x <= y
  PROVE  /\ MinuteAt(x) \in Nat /\ MinuteAt(x) <= MinuteAt(y)
         /\ x < y /\ y % Instants = 0 => MinuteAt(x) < MinuteAt(y)
         /\ \A d \in Nat : d >= Instants => MinuteAt(x) < MinuteAt(y + d)
<1> DEFINE b == Instants
<1>0. b \in Nat \ {0}
  BY CronTime
<1> HIDE DEF b
<1>1. x \div b \in Nat /\ x \div b <= y \div b
  BY <1>0, SMT
<1>2. x < y /\ y % b = 0 => x \div b < y \div b
  BY <1>0, SMT
<1>3. ASSUME NEW d \in Nat, d >= b PROVE x \div b < (y + d) \div b
  <2>1. x + d <= y + d /\ x \div b < (x + d) \div b
    BY <1>0, <1>3, SMT
  <2>2. (x + d) \div b <= (y + d) \div b /\ (x + d) \div b \in Nat /\ (y + d) \div b \in Nat
    BY <1>0, <2>1, SMT
  <2> QED BY <1>1, <2>1, <2>2
<1> QED BY <1>1, <1>2, <1>3 DEF MinuteAt, b

\* What an expression says, schedules are made of.
LEMMA SlotsAre ==
  ASSUME NEW f, f.min \in Nat, f.max \in Nat, NEW item, SoundItem(item, f), NEW v \in f.min..f.max
  PROVE  v \in Slots(item, f) <=>
           LET from == IF item.kind = "all" THEN f.min ELSE item.from
           IN  v >= from /\ v <= f.max /\ (v - from) % item.step = 0
               /\ (item.kind = "one" => v = from) /\ (item.kind = "range" => v <= item.to)
<1> DEFINE step == item.step
           first == IF item.kind = "all" THEN f.min ELSE item.from
           last == CASE item.kind = "all" -> f.max [] item.kind = "one" -> item.from [] item.kind = "range" -> item.to
<1>1. step \in Nat \ {0} /\ first \in Nat /\ last \in Nat /\ first <= last /\ last <= f.max
  BY DEF SoundItem
<1>2. /\ item.kind = "one" => last = first
      /\ item.kind = "range" => last = item.to
      /\ item.kind = "all" => last = f.max
      /\ item.kind \in {"all", "one", "range"}
  BY DEF SoundItem
<1>3. Slots(item, f) = {first + n * step : n \in 0..((last - first) \div step)}
  BY DEF Slots
<1> HIDE DEF first, last, step
<1> DEFINE wide == last - first
<1>4. wide \in Nat
  BY <1>1
<1>5. ASSUME NEW n \in 0..(wide \div step)
      PROVE  n * step <= wide /\ n * step \in Nat /\ (n * step) % step = 0
  <2>1. wide \div step \in Nat /\ (wide \div step) * step <= wide
    <3> HIDE DEF wide
    <3> QED BY <1>1, <1>4, SMT
  <2>2. n * step <= (wide \div step) * step /\ n * step \in Nat
    <3> DEFINE most == wide \div step
    <3> HIDE DEF most
    <3>1. most \in Nat /\ n \in 0..most
      BY <2>1 DEF most
    <3>2. n * step <= most * step /\ n * step \in Nat
      BY <1>1, <3>1, SMT
    <3> QED BY <3>2 DEF most
  <2>3. (step * n) % step = 0 /\ n * step = step * n
    <3>1. n \in Nat
      BY <2>1
    <3> QED BY <1>1, <3>1, MultipleOf
  <2>4. (wide \div step) * step \in Nat
    BY <1>1, <2>1
  <2> HIDE DEF wide
  <2> QED BY <1>4, <2>1, <2>2, <2>3, <2>4
<1>6. ASSUME NEW w \in Nat, w <= wide, w % step = 0
      PROVE  \E n \in 0..(wide \div step) : w = n * step
  <2>1. PICK n \in Nat : w = step * n
    BY <1>1, <1>6, WholeOf
  <2>2. w \div step = n /\ w = n * step
    BY <1>1, <2>1, MultipleOf
  <2>3. w \div step <= wide \div step /\ wide \div step \in Nat
    <3> HIDE DEF wide
    <3> QED BY <1>1, <1>4, <1>6, SMT
  <2> QED BY <2>2, <2>3
<1>7. ASSUME v \in Slots(item, f)
      PROVE  v >= first /\ v <= last /\ (v - first) % step = 0
  <2>1. PICK n \in 0..(wide \div step) : v = first + n * step
    BY <1>3, <1>7
  <2>2. v - first = n * step
    BY <1>1, <1>5, <2>1
  <2> QED BY <1>1, <1>5, <2>1, <2>2
<1>8. ASSUME v >= first, v <= last, (v - first) % step = 0
      PROVE  v \in Slots(item, f)
  <2>1. v - first \in Nat /\ v - first <= wide
    BY <1>1, <1>8
  <2>2. PICK n \in 0..(wide \div step) : v - first = n * step
    BY <1>6, <1>8, <2>1
  <2>3. v = first + n * step
    BY <1>1, <1>5, <2>1, <2>2
  <2> QED BY <1>3, <2>3
<1>9. v \in Slots(item, f) <=> v >= first /\ v <= last /\ (v - first) % step = 0
  BY <1>7, <1>8
<1>10. (item.kind = "one" => (v = first <=> v >= first /\ v <= last)) /\ (item.kind = "one" /\ v = first => v - first = 0 /\ 0 % step = 0)
  BY <1>1, <1>2
<1> QED BY <1>1, <1>2, <1>9, <1>10 DEF first, step

LEMMA DueIs ==
  ASSUME NEW job, job.text \in GivenTexts, job.schedule = NewSchedule(job.text),
         NEW minute \in 0..MaxInstant \div Instants
  PROVE  IsDue(job.schedule, minute) <=> Says(job.text, minute)
<1> DEFINE e == Expression(job.text)
           said(i, item) ==
             LET v == Clock[minute][i]
                 f == CronFields[i]
                 from == IF item.kind = "all" THEN f.min ELSE item.from
             IN  v >= from /\ v <= f.max /\ (v - from) % item.step = 0
                 /\ (item.kind = "one" => v = from) /\ (item.kind = "range" => v <= item.to)
<1>1. DOMAIN e = DOMAIN CronFields /\ \A i \in DOMAIN e : \A item \in e[i] : SoundItem(item, CronFields[i])
  BY DEF GivenTexts, IsExpression
<1> HIDE DEF e
<1>2. ASSUME NEW i \in DOMAIN CronFields, NEW item \in e[i]
      PROVE  Clock[minute][i] \in Slots(item, CronFields[i]) <=> said(i, item)
  <2>1. CronFields[i].min \in Nat /\ CronFields[i].max \in Nat /\ Clock[minute][i] \in CronFields[i].min..CronFields[i].max
    BY CronTime
  <2>2. SoundItem(item, CronFields[i])
    BY <1>1, <1>2
  <2> QED BY <2>1, <2>2, SlotsAre
<1>3. job.schedule = [i \in DOMAIN CronFields |-> UNION {Slots(item, CronFields[i]) : item \in e[i]}]
  BY DEF NewSchedule, ParseCronSegment, e
<1>4. IsDue(job.schedule, minute) <=>
        \A i \in DOMAIN CronFields : \E item \in e[i] : Clock[minute][i] \in Slots(item, CronFields[i])
  BY <1>3 DEF IsDue
<1>5. Says(job.text, minute) <=> \A i \in DOMAIN CronFields : \E item \in e[i] : said(i, item)
  BY DEF Says, e
<1> HIDE DEF said
<1> QED BY <1>2, <1>4, <1>5

LEMMA CronBegins ==
  ASSUME WholeMinutes, CronTickInit
  PROVE  CronInv
<1>1. CronTyped
  <2>1. <<>> \in Seq(CronTick)
    OBVIOUS
  <2> QED BY <2>1, CronTime DEF CronTickInit, CronTyped, NoTimer
<1>2. JobsApart /\ CronTimed /\ TicksInTurn /\ RunsWhenDue /\ NoMinuteMissed
  BY DEF CronTickInit, NoTimer, JobsApart, ScheduledAs, OneOfEachId, CronTimed, TicksInTurn, RunsWhenDue, NoMinuteMissed
<1> QED BY <1>1, <1>2 DEF CronInv

\* The runs stay, and so do the jobs but for one.
LEMMA JobsKeep ==
  ASSUME CronInv, NEW jobs \in SUBSET CronJobSet, ScheduledAs(jobs), OneOfEachId(jobs),
         \A job \in jobs : job \in cronJobs \/ job.since = cronNow,
         cronJobs' = jobs, changes' \in Nat, UNCHANGED <<cronNow, cronTimer, every, ran, punctual>>
  PROVE  CronInv'
<1>1. CronTyped' /\ CronTimed' /\ TicksInTurn' /\ RunsWhenDue'
  BY DEF CronInv, CronTyped, CronTimed, TicksInTurn, RunsWhenDue, MinuteAt
<1>2. JobsApart'
  BY DEF CronInv, CronTyped, JobsApart, ScheduledAs, OneOfEachId
<1>3. NoMinuteMissed'
  <2> SUFFICES ASSUME cronTimer.kind = "tick", punctual, every = Instants, NEW job \in jobs,
                      NEW minute \in 0..MinuteAt(MaxInstant), minute * Instants >= cronTimer.from,
                      minute * Instants > job.since, minute * Instants < cronTimer.at, Says(job.text, minute)
               PROVE  \E k \in DOMAIN ran : ran[k].at = minute * Instants /\ \E run \in ran[k].jobs : run.id = job.id
    BY DEF NoMinuteMissed, MinuteAt
  <2>1. CASE job \in cronJobs
    BY <2>1 DEF CronInv, NoMinuteMissed
  <2>2. CASE job.since = cronNow
    <3>1. cronTimer.at \in Nat /\ cronTimer.at <= cronNow + Instants /\ cronTimer.at % Instants = 0 /\ cronNow \in Nat
      BY DEF CronInv, CronTyped, CronTimed
    <3>2. PICK n \in Nat : cronTimer.at = Instants * n
      BY <3>1, WholeOf, CronTime
    <3>3. minute \in Nat /\ Instants \in Nat \ {0}
      BY CronTime DEF MinuteAt
    <3>4. minute < n
      BY <3>2, <3>3
    <3>5. Instants * minute + Instants <= Instants * n
      BY <3>3, <3>4
    <3> QED BY <2>2, <3>1, <3>2, <3>3, <3>5
  <2> QED BY <2>1, <2>2
<1> QED BY <1>1, <1>2, <1>3 DEF CronInv

LEMMA AddJobKeeps ==
  ASSUME CronInv, NEW id \in CronIds, NEW text \in CronTexts, AddJob(id, text)
  PROVE  CronInv'
<1> DEFINE new == [id |-> id, text |-> text, schedule |-> NewSchedule(text), since |-> cronNow]
           jobs == Without(id) \cup {new}
<1>1. new \in CronJobSet /\ text \in GivenTexts
  BY DEF AddJob, CronInv, CronTyped, CronJobSet, GivenTexts
<1>2. /\ jobs \in SUBSET CronJobSet /\ ScheduledAs(jobs) /\ OneOfEachId(jobs)
      /\ \A job \in jobs : job \in cronJobs \/ job.since = cronNow
  BY <1>1 DEF CronInv, CronTyped, JobsApart, ScheduledAs, OneOfEachId, Without
<1>3. changes' \in Nat /\ cronJobs' = jobs /\ UNCHANGED <<cronNow, cronTimer, every, ran, punctual>>
  BY DEF AddJob, Change, CronInv, CronTyped
<1> HIDE DEF jobs
<1> QED BY <1>2, <1>3, JobsKeep

LEMMA RemoveJobKeeps ==
  ASSUME CronInv, NEW id \in CronIds, RemoveJob(id)
  PROVE  CronInv'
<1>1. /\ Without(id) \in SUBSET CronJobSet /\ ScheduledAs(Without(id)) /\ OneOfEachId(Without(id))
      /\ \A job \in Without(id) : job \in cronJobs \/ job.since = cronNow
  BY DEF CronInv, CronTyped, JobsApart, ScheduledAs, OneOfEachId, Without
<1>2. changes' \in Nat /\ cronJobs' = Without(id) /\ UNCHANGED <<cronNow, cronTimer, every, ran, punctual>>
  BY DEF RemoveJob, Change, CronInv, CronTyped
<1> QED BY <1>1, <1>2, JobsKeep

LEMMA RunsAre ==
  ASSUME CronInv
  PROVE  \A i \in DOMAIN ran : ran[i] \in CronTick /\ ran[i].at \in 0..MaxInstant /\ ran[i].at \in Nat
<1> SUFFICES ASSUME NEW i \in DOMAIN ran
             PROVE  ran[i] \in CronTick /\ ran[i].at \in 0..MaxInstant /\ ran[i].at \in Nat
  OBVIOUS
<1>1. ran \in Seq(CronTick) /\ DOMAIN ran = 1..Len(ran)
  BY DEF CronInv, CronTyped
<1>2. ran[i] \in CronTick
  BY <1>1, ElementOfSeq
<1> QED BY <1>2, CronTime DEF CronTick

LEMMA StartingKeeps ==
  ASSUME WholeMinutes, CronInv, NEW interval \in Intervals \cup {Instants}, Starting(interval),
         changes' \in Nat, every' \in Intervals \cup {Instants}, UNCHANGED <<cronNow, cronJobs, ran>>
  PROVE  CronInv'
<1> DEFINE boundary == ((cronNow + interval - 1) \div interval) * interval
<1>1. interval \in Nat \ {0} /\ interval % Instants = 0 /\ cronNow \in Nat /\ Instants \in Nat \ {0}
  <2>1. Instants % Instants = 0 /\ Instants \in Nat \ {0}
    BY CronTime
  <2> QED BY <2>1, CronTime DEF WholeMinutes, CronInv, CronTyped
<1>2. boundary \in Nat /\ boundary >= cronNow /\ boundary % Instants = 0
  BY <1>1, BoundaryIs
<1>3. cronTimer' = [kind |-> "start", at |-> boundary, from |-> boundary] /\ punctual' = TRUE
  BY DEF Starting
<1> HIDE DEF boundary
<1>4. CronTyped'
  BY <1>2, <1>3 DEF CronInv, CronTyped
<1>5. JobsApart' /\ TicksInTurn' /\ RunsWhenDue' /\ NoMinuteMissed'
  BY <1>3 DEF CronInv, JobsApart, ScheduledAs, OneOfEachId, TicksInTurn, RunsWhenDue, NoMinuteMissed, MinuteAt
<1>6. CronTimed'
  <2>1. \A i \in DOMAIN ran : ran[i].at \in Nat /\ ran[i].at <= cronNow
    BY RunsAre DEF CronInv, JobsApart
  <2> QED BY <1>1, <1>2, <1>3, <2>1 DEF CronTimed
<1> QED BY <1>4, <1>5, <1>6 DEF CronInv

LEMMA StopKeeps == ASSUME CronInv, StopCron PROVE CronInv'
<1>1. cronTimer' = NoTimer /\ changes' \in Nat /\ UNCHANGED <<cronNow, cronJobs, every, ran, punctual>>
  BY DEF StopCron, Change, CronInv, CronTyped
<1> QED BY <1>1 DEF NoTimer, CronInv, CronTyped, JobsApart, ScheduledAs, OneOfEachId, CronTimed, TicksInTurn, RunsWhenDue,
           NoMinuteMissed, MinuteAt

LEMMA SetIntervalKeeps ==
  ASSUME WholeMinutes, CronInv, NEW interval \in Intervals, SetCronInterval(interval)
  PROVE  CronInv'
<1>1. changes' \in Nat /\ every' = interval /\ UNCHANGED <<cronNow, cronJobs, ran>>
  BY DEF SetCronInterval, Change, CronInv, CronTyped
<1>2. CASE cronTimer.kind = "tick"
  BY <1>1, <1>2, StartingKeeps DEF SetCronInterval
<1>3. CASE cronTimer.kind # "tick"
  <2>1. UNCHANGED <<cronTimer, punctual>>
    BY <1>3 DEF SetCronInterval
  <2> QED BY <1>1, <1>3, <2>1 DEF CronInv, CronTyped, JobsApart, ScheduledAs, OneOfEachId, CronTimed, TicksInTurn, RunsWhenDue,
               NoMinuteMissed, MinuteAt
<1> QED BY <1>2, <1>3

LEMMA TimePassesKeeps == ASSUME CronInv, CronTimePasses PROVE CronInv'
<1>1. cronNow' = cronNow + 1 /\ cronNow' \in 0..MaxInstant /\ cronNow \in Nat /\ UNCHANGED <<cronJobs, cronTimer, every, changes, ran>>
  BY CronTime DEF CronTimePasses, CronInv, CronTyped
<1>2. punctual' \in BOOLEAN /\ (punctual' => punctual /\ (cronTimer.kind = "none" \/ cronTimer.at > cronNow))
  BY DEF CronTimePasses, CronInv, CronTyped
<1>3. CronTyped'
  BY <1>1, <1>2 DEF CronInv, CronTyped
<1>4. JobsApart'
  <2>1. \A job \in cronJobs : job.since \in Nat
    BY DEF CronInv, CronTyped, CronJobSet
  <2>2. \A i \in DOMAIN ran : ran[i].at \in Nat
    BY RunsAre
  <2> QED BY <1>1, <2>1, <2>2 DEF CronInv, JobsApart, ScheduledAs, OneOfEachId
<1>5. CronTimed'
  <2>1. cronTimer.at \in Nat /\ every \in Nat
    BY CronTime DEF CronInv, CronTyped
  <2> QED BY <1>1, <1>2, <2>1 DEF CronInv, CronTimed, MinuteAt
<1>6. TicksInTurn' /\ RunsWhenDue'
  BY <1>1 DEF CronInv, TicksInTurn, RunsWhenDue, MinuteAt
<1>7. NoMinuteMissed'
  BY <1>1, <1>2 DEF CronInv, NoMinuteMissed, MinuteAt
<1> QED BY <1>3, <1>4, <1>5, <1>6, <1>7 DEF CronInv

\* A tick that runs nothing, or one more of a list.
LEMMA RunDueKeeps ==
  ASSUME WholeMinutes, CronInv, RunDueJobs
  PROVE  CronInv'
<1> DEFINE due == {job \in cronJobs : IsDue(job.schedule, MinuteAt(cronNow))}
           tick == [at |-> cronNow, first |-> cronTimer.kind = "start", jobs |-> due]
           n == Len(ran)
<1>1. /\ cronTimer.kind # "none" /\ cronTimer.at <= cronNow
      /\ ran' = IF due = {} THEN ran ELSE Append(ran, tick)
      /\ cronTimer' = [cronTimer EXCEPT !.kind = "tick", !.at = cronNow + every]
      /\ UNCHANGED <<cronNow, cronJobs, every, changes, punctual>>
  BY DEF RunDueJobs
<1>2. /\ cronNow \in 0..MaxInstant /\ cronNow \in Nat /\ every \in Nat \ {0} /\ every >= Instants /\ every % Instants = 0
      /\ Instants \in Nat \ {0} /\ cronTimer.at \in Nat /\ ran \in Seq(CronTick) /\ n \in Nat
  <2>1. cronNow \in 0..MaxInstant /\ cronTimer.at \in Nat /\ ran \in Seq(CronTick) /\ every \in Intervals \cup {Instants}
    BY DEF CronInv, CronTyped
  <2>2. Instants \in Nat \ {0} /\ Instants % Instants = 0 /\ MaxInstant \in Nat
    BY CronTime
  <2>3. every \in Nat \ {0} /\ every % Instants = 0
    BY <2>1, <2>2, CronTime DEF WholeMinutes
  <2>4. every >= Instants
    <3>1. PICK k \in Nat : every = Instants * k
      BY <2>2, <2>3, WholeOf
    <3>2. k # 0
      BY <2>2, <2>3, <3>1
    <3> QED BY <2>2, <3>1, <3>2
  <2> QED BY <2>1, <2>2, <2>3, <2>4
<1>3. MinuteAt(cronNow) \in 0..MaxInstant \div Instants
  <2>1. cronNow \div Instants \in Nat /\ cronNow \div Instants <= MaxInstant \div Instants /\ MaxInstant \div Instants \in Nat
    BY <1>2, CronTime, SMT
  <2> QED BY <2>1 DEF MinuteAt
<1>4. \A job \in cronJobs : job \in due <=> Says(job.text, MinuteAt(cronNow))
  <2> SUFFICES ASSUME NEW job \in cronJobs PROVE job \in due <=> Says(job.text, MinuteAt(cronNow))
    OBVIOUS
  <2>1. job.text \in GivenTexts /\ job.schedule = NewSchedule(job.text)
    BY DEF CronInv, CronTyped, JobsApart, ScheduledAs, CronJobSet
  <2> QED BY <1>3, <2>1, DueIs
<1>5. due \in SUBSET CronJobSet /\ tick \in CronTick
  BY <1>2 DEF CronInv, CronTyped, CronTick
<1>6. /\ tick.at = cronNow /\ tick.first = (cronTimer.kind = "start") /\ tick.jobs = due
      /\ \A job \in due : Says(job.text, MinuteAt(cronNow))
      /\ OneOfEachId(due)
  BY <1>4 DEF CronInv, JobsApart, OneOfEachId
<1>7. \A job \in cronJobs : Says(job.text, MinuteAt(cronNow)) => job \in due
  BY <1>4
<1>8. due \subseteq cronJobs
  OBVIOUS
<1> HIDE DEF due, tick
<1>9. /\ ran' \in Seq(CronTick) /\ DOMAIN ran \subseteq DOMAIN ran'
      /\ \A i \in DOMAIN ran : i \in 1..n /\ ran'[i] = ran[i]
      /\ \A i \in DOMAIN ran' : i \in DOMAIN ran \/ (i = n + 1 /\ ran'[i] = tick)
      /\ due # {} => n + 1 \in DOMAIN ran' /\ ran'[n + 1] = tick
  <2>1. DOMAIN ran = 1..n
    BY <1>2
  <2>2. CASE due = {}
    <3>1. ran' = ran
      BY <1>1, <2>2
    <3>2. DOMAIN ran' = 1..n /\ ran' \in Seq(CronTick)
      BY <1>2, <2>1, <3>1
    <3>3. \A i \in DOMAIN ran : i \in 1..n /\ ran'[i] = ran[i]
      BY <2>1, <3>1
    <3> HIDE DEF n
    <3> QED BY <2>1, <2>2, <3>2, <3>3
  <2>3. CASE due # {}
    <3>1. ran' = Append(ran, tick)
      BY <1>1, <2>3
    <3>2. ran' \in Seq(CronTick) /\ DOMAIN ran' = 1..n + 1 /\ ran'[n + 1] = tick /\ \A i \in 1..n : ran'[i] = ran[i]
      BY <1>2, <1>5, <3>1
    <3>3. 1..n \subseteq 1..n + 1 /\ n + 1 \in 1..n + 1 /\ \A i \in 1..n + 1 : i \in 1..n \/ i = n + 1
      BY <1>2
    <3> HIDE DEF n
    <3>4. DOMAIN ran \subseteq DOMAIN ran' /\ \A i \in DOMAIN ran : i \in 1..n /\ ran'[i] = ran[i]
      BY <2>1, <3>2, <3>3
    <3>5. \A i \in DOMAIN ran' : i \in DOMAIN ran \/ (i = n + 1 /\ ran'[i] = tick)
      <4> SUFFICES ASSUME NEW i \in 1..n + 1 PROVE i \in DOMAIN ran \/ (i = n + 1 /\ ran'[i] = tick)
        BY <3>2
      <4> QED BY <2>1, <3>2, <3>3
    <3> QED BY <3>2, <3>3, <3>4, <3>5
  <2> QED BY <2>2, <2>3
<1> HIDE DEF n
<1>10. /\ cronTimer' \in [kind : {"none", "start", "tick"}, at : Nat, from : Nat]
       /\ cronTimer'.kind = "tick" /\ cronTimer'.at = cronNow + every /\ cronTimer'.from = cronTimer.from
  <2>1. cronTimer \in [kind : {"none", "start", "tick"}, at : Nat, from : Nat] /\ cronNow + every \in Nat
    BY <1>2 DEF CronInv, CronTyped
  <2>2. cronTimer' = [kind |-> "tick", at |-> cronNow + every, from |-> cronTimer.from] /\ cronTimer.from \in Nat
    BY <1>1, <2>1
  <2> QED BY <2>1, <2>2
<1>11. CronTyped'
  BY <1>1, <1>9, <1>10 DEF CronInv, CronTyped
<1>12. JobsApart'
  <2>1. \A i \in DOMAIN ran' : OneOfEachId(ran'[i].jobs) /\ ran'[i].at <= cronNow
    BY <1>2, <1>6, <1>9 DEF CronInv, JobsApart
  <2>2. \A jobs : OneOfEachId(jobs)' = OneOfEachId(jobs)
    BY DEF OneOfEachId
  <2> QED BY <1>1, <2>1 DEF CronInv, JobsApart, ScheduledAs, OneOfEachId
<1>13. \A i \in DOMAIN ran' : ran'[i].at \in Nat /\ ran'[i].at <= cronNow
  BY <1>2, <1>6, <1>9, RunsAre DEF CronInv, JobsApart
<1>14. punctual => cronNow = cronTimer.at /\ cronNow % Instants = 0
  BY <1>1, <1>2 DEF CronInv, CronTimed
<1>15. CronTimed'
  <2>1. \A i \in DOMAIN ran' : MinuteAt(ran'[i].at) < MinuteAt(cronNow + every)
    BY <1>2, <1>13, MinutesGrow
  <2>2. punctual => cronNow <= cronNow + every /\ (cronNow + every) % Instants = 0
    <3> SUFFICES ASSUME punctual PROVE cronNow <= cronNow + every /\ (cronNow + every) % Instants = 0
      OBVIOUS
    <3>1. cronNow % Instants = 0
      BY <1>14
    <3>2. (cronNow + every) % Instants = 0
      BY <1>2, <3>1, WholeSum
    <3> QED BY <1>2, <3>2
  <2>3. cronTimer.from % Instants = 0
    BY <1>1 DEF CronInv, CronTimed
  <2>4. cronTimer'.kind # "start" /\ cronTimer'.kind # "none" /\ cronTimer'.at <= cronNow' + every' /\ cronTimer'.from % Instants = 0
    BY <1>1, <1>2, <1>10, <2>3
  <2>5. \A i \in DOMAIN ran' : MinuteAt(ran'[i].at) < MinuteAt(cronTimer'.at)
    BY <1>10, <2>1
  <2>6. punctual' => cronNow' <= cronTimer'.at /\ cronTimer'.at % Instants = 0
    BY <1>1, <1>10, <2>2
  <2> QED BY <2>4, <2>5, <2>6 DEF CronTimed, MinuteAt
<1>16. TicksInTurn'
  <2>1. ASSUME NEW i \in DOMAIN ran
        PROVE  \/ MinuteAt(ran[i].at) < MinuteAt(cronNow)
               \/ tick.first /\ ran[i].at % Instants = 0
    <3>0. ran[i].at \in Nat /\ cronTimer.at \in Nat /\ cronNow \in Nat /\ cronTimer.at <= cronNow
      BY <1>1, <1>2, RunsAre
    <3>1. /\ ran[i].at \in Nat /\ MinuteAt(ran[i].at) \in Nat /\ MinuteAt(cronTimer.at) \in Nat /\ MinuteAt(cronNow) \in Nat
          /\ MinuteAt(cronTimer.at) <= MinuteAt(cronNow)
      <4>1. \A x \in Nat : x <= x
        OBVIOUS
      <4> QED BY <3>0, <4>1, MinutesGrow
    <3>2. CASE cronTimer.kind = "tick"
      <4>1. MinuteAt(ran[i].at) < MinuteAt(cronTimer.at)
        BY <3>2 DEF CronInv, CronTimed
      <4> QED BY <3>1, <4>1
    <3>3. CASE cronTimer.kind = "start"
      <4>1. cronTimer.at % Instants = 0 /\ ran[i].at <= cronTimer.at
        BY <3>3 DEF CronInv, CronTimed
      <4>2. CASE ran[i].at < cronTimer.at
        <5>1. MinuteAt(ran[i].at) < MinuteAt(cronTimer.at)
          BY <1>2, <3>1, <4>1, <4>2, MinutesGrow
        <5> QED BY <3>1, <5>1
      <4>3. CASE ran[i].at = cronTimer.at
        BY <1>6, <3>3, <4>1, <4>3
      <4> QED BY <1>2, <3>1, <4>1, <4>2, <4>3
    <3> QED BY <1>1, <3>2, <3>3 DEF CronInv, CronTyped
  <2>2. ASSUME NEW i \in DOMAIN ran', NEW j \in DOMAIN ran', i < j
        PROVE  \/ MinuteAt(ran'[i].at) < MinuteAt(ran'[j].at)
               \/ ran'[j].first /\ ran'[i].at % Instants = 0
    <3>1. CASE j \in DOMAIN ran
      <4>1. i \in DOMAIN ran
        BY <1>2, <1>9, <2>2, <3>1
      <4> QED BY <1>9, <2>2, <3>1, <4>1 DEF CronInv, TicksInTurn
    <3>2. CASE j = n + 1 /\ ran'[j] = tick
      <4>1. i \in DOMAIN ran
        BY <1>2, <1>9, <2>2, <3>2
      <4> QED BY <1>6, <1>9, <2>1, <3>2, <4>1
    <3> QED BY <1>9, <3>1, <3>2
  <2> QED BY <2>2 DEF TicksInTurn, MinuteAt
<1>17. RunsWhenDue'
  <2>1. \A i \in DOMAIN ran' : \A job \in ran'[i].jobs : Says(job.text, MinuteAt(ran'[i].at))
    BY <1>6, <1>9 DEF CronInv, RunsWhenDue
  <2> QED BY <2>1 DEF RunsWhenDue, MinuteAt
<1>18. NoMinuteMissed'
  <2> SUFFICES ASSUME punctual, every = Instants, NEW job \in cronJobs, NEW minute \in 0..MinuteAt(MaxInstant),
                      minute * Instants >= cronTimer.from, minute * Instants > job.since,
                      minute * Instants < cronNow + every, Says(job.text, minute)
               PROVE  \E k \in DOMAIN ran' : ran'[k].at = minute * Instants /\ \E run \in ran'[k].jobs : run.id = job.id
    BY <1>1, <1>10 DEF NoMinuteMissed, MinuteAt
  <2>1. PICK here \in Nat : cronNow = Instants * here
    BY <1>2, <1>14, WholeOf
  <2>2. minute \in Nat /\ minute * Instants = Instants * minute /\ minute * Instants \in Nat
    BY <1>2 DEF MinuteAt
  <2>3. CASE minute = here
    <3>1. MinuteAt(cronNow) = minute /\ minute * Instants = cronNow
      BY <1>2, <2>1, <2>2, <2>3, MultipleOf DEF MinuteAt
    <3>2. job \in due
      BY <1>7, <3>1
    <3>3. n + 1 \in DOMAIN ran' /\ ran'[n + 1] = tick
      BY <1>9, <3>2
    <3> QED BY <1>6, <3>1, <3>2, <3>3
  <2>4. CASE minute > here
    <3>1. Instants * here + Instants <= Instants * minute
      BY <1>2, <2>2, <2>4
    <3> QED BY <1>2, <2>1, <2>2, <3>1
  <2>5. CASE minute < here
    <3>1. Instants * minute + Instants <= Instants * here
      BY <1>2, <2>2, <2>5
    <3>2. minute * Instants < cronTimer.at
      BY <1>2, <1>14, <2>1, <2>2, <3>1
    <3>3. cronTimer.kind = "tick"
      BY <1>1, <1>2, <3>2 DEF CronInv, CronTyped, CronTimed
    <3>4. PICK k \in DOMAIN ran : ran[k].at = minute * Instants /\ \E run \in ran[k].jobs : run.id = job.id
      BY <3>2, <3>3 DEF CronInv, NoMinuteMissed
    <3> QED BY <1>9, <3>4
  <2> QED BY <2>1, <2>2, <2>3, <2>4, <2>5
<1> QED BY <1>11, <1>12, <1>15, <1>16, <1>17, <1>18 DEF CronInv

LEMMA CronKeeps ==
  ASSUME WholeMinutes
  PROVE  CronInv /\ [CronTickNext]_cronTickVars => CronInv'
<1> SUFFICES ASSUME CronInv, [CronTickNext]_cronTickVars PROVE CronInv'
  OBVIOUS
<1>1. CASE UNCHANGED cronTickVars
  BY <1>1 DEF cronTickVars, CronInv, CronTyped, JobsApart, ScheduledAs, OneOfEachId, CronTimed, TicksInTurn, RunsWhenDue,
     NoMinuteMissed, MinuteAt
<1>2. CASE CronTickNext
  <2>1. CASE StartCron
    <3>1. changes' \in Nat /\ every' = every /\ UNCHANGED <<cronNow, cronJobs, ran>> /\ every \in Intervals \cup {Instants} /\ Starting(every)
      BY <2>1 DEF StartCron, Change, CronInv, CronTyped
    <3> QED BY <3>1, StartingKeeps
  <2> QED BY <1>2, <2>1, AddJobKeeps, RemoveJobKeeps, StopKeeps, RunDueKeeps, TimePassesKeeps, SetIntervalKeeps DEF CronTickNext
<1> QED BY <1>1, <1>2

LEMMA JobsRunInTurn == CronInv => OncePerMinute
<1> SUFFICES ASSUME CronInv PROVE OncePerMinute
  OBVIOUS
<1>1. \A i \in DOMAIN ran : ran[i].at \in Nat /\ MinuteAt(ran[i].at) \in Nat
  BY RunsAre, MinutesGrow
<1>2. \A i, j \in DOMAIN ran : i < j \/ j < i \/ i = j
  BY DEF CronInv, CronTyped
<1> QED BY <1>1, <1>2 DEF CronInv, JobsApart, OneOfEachId, TicksInTurn, OncePerMinute

\* With intervals of whole minutes, jobs run in the minutes that their
\* expressions name, once in each unless a cron starts again at the boundary it ran at, and while
\* timers are on time they miss none (cron.ts: start, runDue).
THEOREM JobsRunOnTime ==
  ASSUME WholeMinutes
  PROVE  CronTickSpec => []RunsWhenDue /\ []OncePerMinute /\ []NoMinuteMissed
<1>1. CronInv => RunsWhenDue /\ OncePerMinute /\ NoMinuteMissed
  BY JobsRunInTurn DEF CronInv
<1> QED BY <1>1, CronBegins, CronKeeps, PTL DEF CronTickSpec

(***************************************************************************)
(* The locked store.                                                       *)
(***************************************************************************)
Getter == [pc : {"idle", "queued", "holds", "computes"}, key : Keys \cup {NoEntry}, got : 0..MaxValues]
HasLock(x) == x.pc \in {"holds", "computes"}

StoreInv ==
    /\ StoreTypeOK /\ lockQueue \in Seq(Getters)
    /\ \A g, h \in Getters : HasLock(getters[g]) /\ HasLock(getters[h]) => g = h
    /\ locked <=> \E g \in Getters : HasLock(getters[g])
    /\ \A g \in Getters : getters[g].pc = "queued" <=> \E i \in DOMAIN lockQueue : lockQueue[i] = g
    /\ \A i, j \in DOMAIN lockQueue : lockQueue[i] = lockQueue[j] => i = j
    /\ lockQueue # <<>> => locked
    /\ \A g \in Getters : getters[g].pc # "idle" => getters[g].key \in Keys

\* A getter that is not in the queue becomes x, which is not either; nobody gets the lock or lets it go.
LEMMA GetterStep ==
  ASSUME StoreInv, NEW g \in Getters, NEW x \in Getter, getters' = [getters EXCEPT ![g] = x],
         getters[g].pc # "queued", x.pc # "queued", x.pc # "idle" => x.key \in Keys,
         HasLock(x) <=> HasLock(getters[g]), UNCHANGED <<locked, lockQueue>>,
         values' \in 0..MaxValues, entries' \in [Keys -> 0..MaxValues]
  PROVE  StoreInv'
<1>1. getters' \in [Getters -> Getter] /\ getters'[g] = x /\ \A h \in Getters \ {g} : getters'[h] = getters[h]
  BY DEF StoreInv, StoreTypeOK, Getter
<1>2. StoreTypeOK'
  BY <1>1 DEF StoreInv, StoreTypeOK, Getter
<1>3. \A h \in Getters : (HasLock(getters'[h]) <=> HasLock(getters[h])) /\ (getters'[h].pc = "queued" <=> getters[h].pc = "queued")
  BY <1>1
<1>4. \A h \in Getters : getters'[h].pc # "idle" => getters'[h].key \in Keys
  BY <1>1 DEF StoreInv
<1> QED BY <1>2, <1>3, <1>4 DEF StoreInv

\* The holder lets the lock go, to the first of the queue if there is one.
LEMMA ReleaseInv ==
  ASSUME StoreInv, NEW g \in Getters, HasLock(getters[g]), NEW x \in Getter, x.pc = "idle",
         Release([getters EXCEPT ![g] = x]), values' \in 0..MaxValues, entries' \in [Keys -> 0..MaxValues]
  PROVE  StoreInv'
<1> DEFINE s == [getters EXCEPT ![g] = x]
<1>1. s \in [Getters -> Getter] /\ s[g] = x /\ (\A h \in Getters \ {g} : s[h] = getters[h])
      /\ getters[g].pc # "queued" /\ lockQueue \in Seq(Getters)
  BY DEF StoreInv, StoreTypeOK, Getter, HasLock
<1>2. \A h \in Getters : ~HasLock(s[h]) /\ (s[h].pc = "queued" <=> getters[h].pc = "queued")
  BY <1>1 DEF StoreInv, HasLock
<1> HIDE DEF s
<1>3. CASE lockQueue = <<>> /\ locked' = FALSE /\ getters' = s /\ UNCHANGED lockQueue
  <2>1. StoreTypeOK'
    BY <1>1, <1>3 DEF StoreInv, StoreTypeOK, Getter
  <2>2. \A h \in Getters : getters'[h].pc # "idle" => getters'[h].key \in Keys
    BY <1>1, <1>3 DEF StoreInv
  <2> QED BY <1>2, <1>3, <2>1, <2>2 DEF StoreInv
<1>4. CASE lockQueue # <<>> /\ lockQueue' = Tail(lockQueue) /\ UNCHANGED locked
           /\ getters' = [s EXCEPT ![Head(lockQueue)].pc = "holds"]
  <2> DEFINE n == Head(lockQueue)
  <2>1. /\ n = lockQueue[1] /\ n \in Getters /\ Len(lockQueue) \in Nat /\ Len(lockQueue) > 0
        /\ lockQueue' \in Seq(Getters) /\ DOMAIN lockQueue' = 1..(Len(lockQueue) - 1) /\ DOMAIN lockQueue = 1..Len(lockQueue)
        /\ \A i \in DOMAIN lockQueue' : lockQueue'[i] = lockQueue[i + 1]
    BY <1>1, <1>4, HeadTailProperties, LenProperties, ElementOfSeq
  <2> HIDE DEF n
  <2>2. /\ getters' = [s EXCEPT ![n].pc = "holds"]
        /\ getters' \in [Getters -> Getter] /\ getters'[n].pc = "holds" /\ getters'[n].key = s[n].key
        /\ \A h \in Getters \ {n} : getters'[h] = s[h]
    BY <1>1, <1>4, <2>1 DEF Getter, n
  <2>3. StoreTypeOK'
    BY <1>4, <2>2 DEF StoreInv, StoreTypeOK, Getter
  <2>4. \A h \in Getters : HasLock(getters'[h]) <=> h = n
    BY <1>2, <2>1, <2>2 DEF HasLock
  <2>5. \A h \in Getters : getters'[h].pc = "queued" <=> \E i \in DOMAIN lockQueue' : lockQueue'[i] = h
    <3>1. ASSUME NEW h \in Getters, getters'[h].pc = "queued" PROVE \E i \in DOMAIN lockQueue' : lockQueue'[i] = h
      <4>1. h # n /\ getters[h].pc = "queued"
        BY <1>2, <2>1, <2>2, <3>1
      <4>2. PICK i \in DOMAIN lockQueue : lockQueue[i] = h
        BY <4>1 DEF StoreInv
      <4>3. i # 1 /\ i - 1 \in DOMAIN lockQueue' /\ (i - 1) + 1 = i
        BY <2>1, <4>1, <4>2
      <4> QED BY <2>1, <4>2, <4>3
    <3>2. ASSUME NEW h \in Getters, NEW i \in DOMAIN lockQueue', lockQueue'[i] = h PROVE getters'[h].pc = "queued"
      <4>1. i + 1 \in DOMAIN lockQueue /\ i + 1 # 1 /\ 1 \in DOMAIN lockQueue /\ lockQueue[i + 1] = h
        BY <2>1, <3>2
      <4>2. h # n /\ getters[h].pc = "queued"
        BY <2>1, <4>1 DEF StoreInv
      <4> QED BY <1>2, <2>2, <4>2
    <3> QED BY <3>1, <3>2
  <2>6. \A i, j \in DOMAIN lockQueue' : lockQueue'[i] = lockQueue'[j] => i = j
    <3> SUFFICES ASSUME NEW i \in DOMAIN lockQueue', NEW j \in DOMAIN lockQueue', lockQueue'[i] = lockQueue'[j] PROVE i = j
      OBVIOUS
    <3>1. i + 1 \in DOMAIN lockQueue /\ j + 1 \in DOMAIN lockQueue /\ lockQueue[i + 1] = lockQueue[j + 1] /\ i \in Nat /\ j \in Nat
      BY <2>1
    <3>2. i + 1 = j + 1
      BY <3>1 DEF StoreInv
    <3> QED BY <3>1, <3>2
  <2>7. \A h \in Getters : getters'[h].pc # "idle" => getters'[h].key \in Keys
    <3>1. 1 \in DOMAIN lockQueue
      BY <2>1
    <3>2. getters[n].pc = "queued" /\ n # g
      BY <1>1, <2>1, <3>1 DEF StoreInv
    <3> QED BY <1>1, <2>1, <2>2, <3>2 DEF StoreInv
  <2>8. locked' = TRUE
    BY <1>4 DEF StoreInv, StoreTypeOK
  <2>9. \A h, k \in Getters : HasLock(getters'[h]) /\ HasLock(getters'[k]) => h = k
    BY <2>4
  <2>10. \E h \in Getters : HasLock(getters'[h])
    BY <2>1, <2>4
  <2> QED BY <2>1, <2>3, <2>5, <2>6, <2>7, <2>8, <2>9, <2>10 DEF StoreInv
<1> QED BY <1>3, <1>4 DEF Release, s

LEMMA GetOrSetInv == ASSUME StoreInv, NEW g \in Getters, NEW k \in Keys, GetOrSet(g, k) PROVE StoreInv'
<1>1. /\ getters \in [Getters -> Getter] /\ getters[g] \in Getter /\ getters[g].pc = "idle" /\ ~HasLock(getters[g])
      /\ entries' \in [Keys -> 0..MaxValues] /\ values' \in 0..MaxValues /\ lockQueue \in Seq(Getters)
      /\ UNCHANGED <<entries, values>> /\ entries[k] \in 0..MaxValues /\ 0 \in 0..MaxValues
  BY StoreBounds DEF StoreInv, StoreTypeOK, Getter, GetOrSet, HasLock
<1>2. CASE entries[k] # NoEntry /\ Gets(g, entries[k]) /\ UNCHANGED <<locked, lockQueue>>
  <2>1. [getters[g] EXCEPT !.pc = "idle", !.got = entries[k]] \in Getter
    BY <1>1 DEF Getter
  <2>2. getters' = [getters EXCEPT ![g] = [getters[g] EXCEPT !.pc = "idle", !.got = entries[k]]]
    BY <1>1, <1>2 DEF Gets, Getter
  <2>3. ~HasLock([getters[g] EXCEPT !.pc = "idle", !.got = entries[k]]) /\ [getters[g] EXCEPT !.pc = "idle", !.got = entries[k]].pc = "idle"
    BY <1>1 DEF HasLock, Getter
  <2> QED BY <1>1, <1>2, <2>1, <2>2, <2>3, GetterStep
<1>3. CASE ~locked /\ locked' = TRUE /\ UNCHANGED lockQueue
           /\ getters' = [getters EXCEPT ![g] = [pc |-> "holds", key |-> k, got |-> NoEntry]]
  <2>1. getters' \in [Getters -> Getter] /\ getters'[g].pc = "holds" /\ \A h \in Getters \ {g} : getters'[h] = getters[h]
    BY <1>1, <1>3 DEF Getter, NoEntry
  <2>2. StoreTypeOK'
    BY <1>1, <1>3, <2>1 DEF StoreInv, StoreTypeOK, Getter
  <2>3. \A h \in Getters : HasLock(getters'[h]) <=> h = g
    BY <1>3, <2>1 DEF StoreInv, HasLock
  <2>4. \A h \in Getters : getters'[h].pc = "queued" <=> getters[h].pc = "queued"
    BY <1>1, <2>1
  <2>5. \A h \in Getters : getters'[h].pc # "idle" => getters'[h].key \in Keys
    BY <1>1, <1>3, <2>1 DEF StoreInv
  <2> QED BY <1>1, <1>3, <2>2, <2>3, <2>4, <2>5 DEF StoreInv
<1>4. CASE locked /\ lockQueue' = Append(lockQueue, g) /\ UNCHANGED locked
           /\ getters' = [getters EXCEPT ![g] = [pc |-> "queued", key |-> k, got |-> NoEntry]]
  <2>1. getters' \in [Getters -> Getter] /\ getters'[g].pc = "queued" /\ \A h \in Getters \ {g} : getters'[h] = getters[h]
    BY <1>1, <1>4 DEF Getter, NoEntry
  <2>2. StoreTypeOK'
    BY <1>1, <1>4, <2>1 DEF StoreInv, StoreTypeOK, Getter
  <2>3. \A h \in Getters : HasLock(getters'[h]) <=> HasLock(getters[h])
    BY <1>1, <2>1 DEF HasLock
  <2>4. /\ lockQueue' \in Seq(Getters) /\ DOMAIN lockQueue = 1..Len(lockQueue) /\ Len(lockQueue) \in Nat
        /\ DOMAIN lockQueue' = 1..(Len(lockQueue) + 1) /\ lockQueue'[Len(lockQueue) + 1] = g
        /\ \A i \in DOMAIN lockQueue : lockQueue'[i] = lockQueue[i]
    BY <1>1, <1>4, AppendProperties, LenProperties
  <2>5. \A i \in DOMAIN lockQueue : lockQueue[i] # g
    BY <1>1 DEF StoreInv
  <2>6. \A h \in Getters : getters'[h].pc = "queued" <=> \E i \in DOMAIN lockQueue' : lockQueue'[i] = h
    <3>1. \A h \in Getters : getters[h].pc = "queued" <=> \E i \in DOMAIN lockQueue : lockQueue[i] = h
      BY DEF StoreInv
    <3>2. \A i \in DOMAIN lockQueue' : i \in DOMAIN lockQueue \/ i = Len(lockQueue) + 1
      BY <2>4
    <3>3. DOMAIN lockQueue \subseteq DOMAIN lockQueue' /\ Len(lockQueue) + 1 \in DOMAIN lockQueue'
      BY <2>4
    <3> QED BY <2>1, <2>4, <3>1, <3>2, <3>3
  <2>7. \A i, j \in DOMAIN lockQueue' : lockQueue'[i] = lockQueue'[j] => i = j
    <3>1. \A i \in DOMAIN lockQueue' : i \in DOMAIN lockQueue \/ i = Len(lockQueue) + 1
      BY <2>4
    <3> QED BY <2>4, <2>5, <3>1 DEF StoreInv
  <2>8. \A h \in Getters : getters'[h].pc # "idle" => getters'[h].key \in Keys
    BY <1>1, <1>4, <2>1 DEF StoreInv
  <2> QED BY <1>4, <2>2, <2>3, <2>4, <2>6, <2>7, <2>8 DEF StoreInv
<1> QED BY <1>2, <1>3, <1>4 DEF GetOrSet

LEMMA RecheckInv == ASSUME StoreInv, NEW g \in Getters, Recheck(g) PROVE StoreInv'
<1>1. /\ getters \in [Getters -> Getter] /\ getters[g] \in Getter /\ getters[g].pc = "holds" /\ HasLock(getters[g])
      /\ entries' \in [Keys -> 0..MaxValues] /\ values' \in 0..MaxValues
  BY DEF StoreInv, StoreTypeOK, Getter, Recheck, HasLock
<1>2. CASE Steps(g, "computes") /\ UNCHANGED <<locked, lockQueue>>
  <2>1. [getters[g] EXCEPT !.pc = "computes"] \in Getter /\ HasLock([getters[g] EXCEPT !.pc = "computes"])
        /\ [getters[g] EXCEPT !.pc = "computes"].pc = "computes"
        /\ [getters[g] EXCEPT !.pc = "computes"].key \in Keys
    BY <1>1 DEF Getter, HasLock, StoreInv
  <2>2. getters' = [getters EXCEPT ![g] = [getters[g] EXCEPT !.pc = "computes"]]
    BY <1>1, <1>2 DEF Steps, Getter
  <2> QED BY <1>1, <1>2, <2>1, <2>2, GetterStep
<1>3. CASE /\ entries[getters[g].key] # NoEntry
           /\ Release([getters EXCEPT ![g].pc = "idle", ![g].got = entries[getters[g].key]])
  <2> DEFINE x == [getters[g] EXCEPT !.pc = "idle", !.got = entries[getters[g].key]]
  <2>1. x \in Getter /\ x.pc = "idle"
    <3>1. getters[g].key \in Keys
      BY <1>1 DEF StoreInv
    <3> QED BY <1>1, <3>1 DEF Getter, StoreInv, StoreTypeOK
  <2>2. [getters EXCEPT ![g].pc = "idle", ![g].got = entries[getters[g].key]] = [getters EXCEPT ![g] = x]
    BY <1>1 DEF Getter
  <2> HIDE DEF x
  <2> QED BY <1>1, <1>3, <2>1, <2>2, ReleaseInv
<1> QED BY <1>2, <1>3 DEF Recheck

LEMMA ComputedInv == ASSUME StoreInv, NEW g \in Getters, Computed(g) PROVE StoreInv'
<1>1. /\ getters \in [Getters -> Getter] /\ getters[g] \in Getter /\ getters[g].pc = "computes" /\ HasLock(getters[g])
      /\ getters[g].key \in Keys /\ entries \in [Keys -> 0..MaxValues] /\ values \in 0..MaxValues
      /\ 0 \in 0..MaxValues /\ MaxValues \in Nat
  BY StoreBounds DEF StoreInv, StoreTypeOK, Getter, Computed, HasLock
<1>2. ASSUME NEW v \in 0..MaxValues
      PROVE  /\ [getters[g] EXCEPT !.pc = "idle", !.got = v] \in Getter /\ [getters[g] EXCEPT !.pc = "idle", !.got = v].pc = "idle"
             /\ [getters EXCEPT ![g].pc = "idle", ![g].got = v] = [getters EXCEPT ![g] = [getters[g] EXCEPT !.pc = "idle", !.got = v]]
  BY <1>1 DEF Getter
<1>3. CASE /\ values < MaxValues /\ values' = values + 1
           /\ entries' = [entries EXCEPT ![getters[g].key] = values + 1]
           /\ Release([getters EXCEPT ![g].pc = "idle", ![g].got = values + 1])
  <2>1. values + 1 \in 0..MaxValues /\ values' \in 0..MaxValues /\ entries' \in [Keys -> 0..MaxValues]
    BY <1>1, <1>3
  <2> DEFINE x == [getters[g] EXCEPT !.pc = "idle", !.got = values + 1]
  <2>2. x \in Getter /\ x.pc = "idle" /\ Release([getters EXCEPT ![g] = x])
    BY <1>2, <1>3, <2>1
  <2> HIDE DEF x
  <2> QED BY <1>1, <2>1, <2>2, ReleaseInv
<1>4. CASE Release([getters EXCEPT ![g].pc = "idle", ![g].got = NoEntry]) /\ UNCHANGED <<entries, values>>
  <2> DEFINE x == [getters[g] EXCEPT !.pc = "idle", !.got = NoEntry]
  <2>1. x \in Getter /\ x.pc = "idle" /\ Release([getters EXCEPT ![g] = x])
    BY <1>1, <1>2, <1>4 DEF NoEntry
  <2> HIDE DEF x
  <2> QED BY <1>1, <1>4, <2>1, ReleaseInv
<1> QED BY <1>3, <1>4 DEF Computed

\* Every other operation changes entries alone.
LEMMA EntriesInv ==
  ASSUME StoreInv, UNCHANGED <<locked, lockQueue, getters>>, values' \in 0..MaxValues, entries' \in [Keys -> 0..MaxValues]
  PROVE  StoreInv'
BY DEF StoreInv, StoreTypeOK

LEMMA StoreNextInv == StoreInv /\ [StoreNext]_storeVars => StoreInv'
<1> SUFFICES ASSUME StoreInv, [StoreNext]_storeVars PROVE StoreInv'
  OBVIOUS
<1>1. entries \in [Keys -> 0..MaxValues] /\ values \in 0..MaxValues /\ MaxValues \in Nat /\ 0 \in 0..MaxValues
  BY StoreBounds DEF StoreInv, StoreTypeOK
<1>2. ASSUME NEW k \in Keys, StoreSet(k) PROVE StoreInv'
  <2>1. values' \in 0..MaxValues /\ entries' \in [Keys -> 0..MaxValues] /\ UNCHANGED <<locked, lockQueue, getters>>
    BY <1>1, <1>2 DEF StoreSet
  <2> QED BY <2>1, EntriesInv
<1>3. ASSUME NEW k \in Keys, StoreRemove(k) PROVE StoreInv'
  <2>1. values' \in 0..MaxValues /\ entries' \in [Keys -> 0..MaxValues] /\ UNCHANGED <<locked, lockQueue, getters>>
    BY <1>1, <1>3 DEF StoreRemove, NoEntry
  <2> QED BY <2>1, EntriesInv
<1>4. CASE StoreReset
  <2>1. values' \in 0..MaxValues /\ entries' \in [Keys -> 0..MaxValues] /\ UNCHANGED <<locked, lockQueue, getters>>
    BY <1>1, <1>4 DEF StoreReset, NoEntry
  <2> QED BY <2>1, EntriesInv
<1>5. CASE UNCHANGED storeVars
  BY <1>5 DEF storeVars, StoreInv, StoreTypeOK
<1> QED BY <1>2, <1>3, <1>4, <1>5, GetOrSetInv, RecheckInv, ComputedInv DEF StoreNext

LEMMA StoreInitInv == StoreInit => StoreInv
<1> SUFFICES ASSUME StoreInit PROVE StoreInv
  OBVIOUS
<1>1. /\ 0 \in 0..MaxValues /\ lockQueue = <<>> /\ lockQueue \in Seq(Getters) /\ DOMAIN lockQueue = {} /\ locked = FALSE
      /\ getters = [g \in Getters |-> NotGetting] /\ NotGetting \in Getter /\ NotGetting.pc = "idle" /\ ~HasLock(NotGetting)
  BY StoreBounds DEF StoreInit, NotGetting, NoEntry, Getter, HasLock
<1>2. StoreTypeOK
  BY <1>1 DEF StoreInit, StoreTypeOK, NoEntry, Getter
<1> QED BY <1>1, <1>2 DEF StoreInv

LEMMA StoreInvLockHeld == StoreInv => LockHeld
<1> SUFFICES ASSUME StoreInv PROVE LockHeld
  OBVIOUS
<1> DEFINE holders == {g \in Getters : getters[g].pc \in {"holds", "computes"}}
<1>1. Cardinality(holders) = IF locked THEN 1 ELSE 0
  <2>1. CASE locked
    <3>1. PICK g \in Getters : HasLock(getters[g])
      BY <2>1 DEF StoreInv
    <3>2. holders = {g}
      BY <3>1 DEF StoreInv, HasLock
    <3> QED BY <2>1, <3>2, FS_Singleton
  <2>2. CASE ~locked
    <3>1. holders = {}
      BY <2>2 DEF StoreInv, HasLock
    <3> QED BY <2>2, <3>1, FS_EmptySet
  <2> QED BY <2>1, <2>2
<1>2. Range(lockQueue) = {g \in Getters : getters[g].pc = "queued"}
  <2>1. \A i \in DOMAIN lockQueue : lockQueue[i] \in Getters
    BY ElementOfSeq DEF StoreInv
  <2> QED BY <2>1 DEF StoreInv, Range
<1>3. IsInjective(lockQueue)
  BY DEF StoreInv, IsInjective
<1> QED BY <1>1, <1>2, <1>3 DEF LockHeld, StoreInv

\* tools/store: the lock has one holder exactly while it is locked, and the getters of its queue are
\* those that wait, each once.
THEOREM LockHeldAlways == StoreSpec => []LockHeld /\ []StoreTypeOK
<1>1. StoreInv => LockHeld /\ StoreTypeOK
  BY StoreInvLockHeld DEF StoreInv
<1> QED BY <1>1, StoreInitInv, StoreNextInv, PTL DEF StoreSpec

(***************************************************************************)
(* The broker of subscriptions.                                            *)
(***************************************************************************)
Subscriber == [id : ConnIds, topics : SUBSET (Topics \X Options), discarded : BOOLEAN, late : BOOLEAN]
Registration == [id : ConnIds, conn : Nat]
Target == ConnIds \cup Nat
Casting == [topic : Topics \cup {AnyTopic}, byId : BOOLEAN, left : Seq(Target), due : SUBSET Nat,
            heard : Seq(Nat), handling : BOOLEAN]

\* Who is still to be visited by a broadcast, and wants it.
Coming(b, c) ==
    /\ c \in DOMAIN conns /\ ~conns[c].discarded /\ (b.topic = AnyTopic \/ Holds(c, b.topic))
    /\ \E j \in DOMAIN b.left : IF b.byId THEN c \in ClientById(b.left[j]) ELSE c = b.left[j]
Reaches(b) ==
    /\ b.byId => b.topic = AnyTopic
    /\ \A c \in b.due : Coming(b, c) \/ \E i \in DOMAIN b.heard : b.heard[i] = c
    /\ \A i, j \in DOMAIN b.left : b.left[i] = b.left[j] => i = j
    /\ \A i, j \in DOMAIN b.heard : b.heard[i] = b.heard[j] => i = j
    /\ \A j \in DOMAIN b.left : IF b.byId THEN b.left[j] \in ConnIds ELSE b.left[j] \in DOMAIN conns
    /\ \A i \in DOMAIN b.heard :
          /\ b.heard[i] \in DOMAIN conns
          /\ \A j \in DOMAIN b.left : b.left[j] # IF b.byId THEN conns[b.heard[i]].id ELSE b.heard[i]

BrokerTyped ==
    /\ conns \in Seq(Subscriber) /\ registered \in Seq(Registration) /\ casts \in Seq(Casting)
    /\ \A i \in DOMAIN registered : registered[i].conn \in DOMAIN conns
SubscriptionInv ==
    /\ BrokerTyped /\ StoreHoldsLive /\ DiscardedHearNothing
    /\ \A i \in DOMAIN casts : Reaches(casts[i])

IsFcn(f) == f = [x \in DOMAIN f |-> f[x]]

LEMMA FunctionIsSeq ==
  ASSUME NEW S, NEW n \in Nat, NEW f \in [1..n -> S]
  PROVE  f \in Seq(S) /\ Len(f) = n
<1>1. f \in Seq(S)
  BY SeqDef
<1> QED BY <1>1, LenProperties

LEMMA BrokerSeqs ==
  ASSUME BrokerTyped
  PROVE  /\ Len(conns) \in Nat /\ DOMAIN conns = 1..Len(conns) /\ \A c \in DOMAIN conns : c \in Nat /\ conns[c] \in Subscriber
         /\ Len(registered) \in Nat /\ DOMAIN registered = 1..Len(registered) /\ \A i \in DOMAIN registered : registered[i] \in Registration
         /\ Len(casts) \in Nat /\ DOMAIN casts = 1..Len(casts) /\ \A i \in DOMAIN casts : casts[i] \in Casting
<1>1. conns \in Seq(Subscriber) /\ registered \in Seq(Registration) /\ casts \in Seq(Casting)
  BY DEF BrokerTyped
<1>2. Len(conns) \in Nat /\ DOMAIN conns = 1..Len(conns) /\ \A c \in 1..Len(conns) : conns[c] \in Subscriber
  BY <1>1, LenProperties, ElementOfSeq
<1>3. Len(registered) \in Nat /\ DOMAIN registered = 1..Len(registered) /\ \A c \in 1..Len(registered) : registered[c] \in Registration
  BY <1>1, LenProperties, ElementOfSeq
<1>4. Len(casts) \in Nat /\ DOMAIN casts = 1..Len(casts) /\ \A c \in 1..Len(casts) : casts[c] \in Casting
  BY <1>1, LenProperties, ElementOfSeq
<1> QED BY <1>2, <1>3, <1>4

LEMMA InStore ==
  ASSUME NEW id, NEW c
  PROVE  c \in ClientById(id) <=> \E i \in DOMAIN registered : registered[i].id = id /\ registered[i].conn = c
BY DEF ClientById

\* A broadcast goes on although clients are added, and some it need not reach any more.
LEMMA CastStays ==
  ASSUME NEW b, NEW d, Reaches(b), DOMAIN conns \subseteq DOMAIN conns',
         d.topic = b.topic, d.byId = b.byId, d.left = b.left, d.heard = b.heard, d.due \subseteq b.due,
         \A c \in DOMAIN conns : conns'[c].id = conns[c].id,
         \A c \in DOMAIN conns : c \in d.due =>
            /\ conns'[c].discarded = conns[c].discarded
            /\ (b.topic = AnyTopic \/ Holds(c, b.topic)) => (b.topic = AnyTopic \/ Holds(c, b.topic)')
            /\ b.byId => \A id : c \in ClientById(id) => c \in ClientById(id)'
  PROVE  Reaches(d)'
<1>1. \A c \in d.due : Coming(b, c) => Coming(d, c)'
  BY DEF Coming
<1> QED BY <1>1 DEF Reaches

LEMMA RegisterKeeps ==
  ASSUME SubscriptionInv, NEW id \in ConnIds, RegisterConn(id)
  PROVE  SubscriptionInv'
<1> DEFINE n == Len(conns) + 1
           new == [id |-> id, topics |-> {}, discarded |-> FALSE, late |-> FALSE]
           put == [id |-> id, conn |-> n]
<1>1. BrokerTyped /\ conns \in Seq(Subscriber) /\ registered \in Seq(Registration) /\ casts \in Seq(Casting)
  BY DEF SubscriptionInv, BrokerTyped
<1>2. new \in Subscriber /\ new.id = id /\ new.discarded = FALSE /\ new.late = FALSE
  BY DEF Subscriber
<1>3. n \in Nat /\ n \notin DOMAIN conns /\ put \in Registration /\ put.id = id /\ put.conn = n
  BY <1>1, BrokerSeqs DEF Registration
<1>4. conns' = Append(conns, new)
  BY DEF RegisterConn
<1> HIDE DEF new
<1>5. /\ conns' \in Seq(Subscriber) /\ DOMAIN conns' = DOMAIN conns \cup {n} /\ conns'[n] = new
      /\ \A c \in DOMAIN conns : conns'[c] = conns[c]
  BY <1>1, <1>2, <1>4, AppendProperties, LenProperties, BrokerSeqs
<1>6. registered' = IF ClientById(id) = {} THEN Append(registered, put)
                    ELSE [i \in DOMAIN registered |-> IF registered[i].id = id THEN put ELSE registered[i]]
  BY DEF RegisterConn
<1> HIDE DEF n, put
<1>7. /\ registered' \in Seq(Registration)
      /\ \A i \in DOMAIN registered' : registered'[i] = put \/ (i \in DOMAIN registered /\ registered'[i] = registered[i] /\ registered[i].id # id)
      /\ \A i \in DOMAIN registered : registered[i].id # id => i \in DOMAIN registered' /\ registered'[i] = registered[i]
      /\ \A i, j \in DOMAIN registered' : registered'[i] = put /\ registered'[j] = put => i = j
  <2>1. CASE ClientById(id) = {} /\ registered' = Append(registered, put)
    <3>1. \A i \in DOMAIN registered : registered[i].id # id
      BY <2>1, InStore
    <3>2. /\ registered' \in Seq(Registration) /\ DOMAIN registered' = 1..(Len(registered) + 1)
          /\ registered'[Len(registered) + 1] = put /\ \A i \in 1..Len(registered) : registered'[i] = registered[i]
      BY <1>1, <1>3, <2>1, AppendProperties, LenProperties
    <3>3. Len(registered) \in Nat /\ DOMAIN registered = 1..Len(registered)
      BY <1>1, BrokerSeqs
    <3> QED BY <1>3, <3>1, <3>2, <3>3
  <2>2. CASE registered' = [i \in DOMAIN registered |-> IF registered[i].id = id THEN put ELSE registered[i]]
    <3>1. registered' \in [1..Len(registered) -> Registration] /\ Len(registered) \in Nat /\ DOMAIN registered = 1..Len(registered)
      BY <1>1, <1>3, <2>2, BrokerSeqs
    <3>2. registered' \in Seq(Registration)
      BY <3>1, FunctionIsSeq
    <3>3. \A i, j \in DOMAIN registered : registered[i].id = id /\ registered[j].id = id => i = j
      BY DEF SubscriptionInv, StoreHoldsLive
    <3> QED BY <1>3, <2>2, <3>1, <3>2, <3>3
  <2> QED BY <1>6, <2>1, <2>2
<1>8. casts' = [i \in DOMAIN casts |-> IF casts[i].byId THEN [casts[i] EXCEPT !.due = @ \ ClientById(id)] ELSE casts[i]]
  BY DEF RegisterConn
<1>9. /\ DOMAIN casts' = DOMAIN casts
      /\ \A i \in DOMAIN casts :
            /\ casts'[i] \in Casting
            /\ casts'[i].topic = casts[i].topic /\ casts'[i].byId = casts[i].byId /\ casts'[i].left = casts[i].left
            /\ casts'[i].heard = casts[i].heard /\ casts'[i].due \subseteq casts[i].due
            /\ casts[i].byId => casts'[i].due \cap ClientById(id) = {}
  <2>1. \A i \in DOMAIN casts : casts[i] \in Casting
    BY <1>1, BrokerSeqs
  <2> QED BY <1>8, <2>1 DEF Casting
<1>10. casts' \in Seq(Casting)
  <2>1. Len(casts) \in Nat /\ casts' \in [1..Len(casts) -> Casting]
    BY <1>1, <1>8, <1>9, BrokerSeqs
  <2> QED BY <2>1, FunctionIsSeq
<1>11. \A i \in DOMAIN registered : registered[i].conn \in DOMAIN conns
  BY DEF SubscriptionInv, BrokerTyped
<1>12. BrokerTyped'
  BY <1>3, <1>5, <1>7, <1>10, <1>11 DEF BrokerTyped
<1>13. StoreHoldsLive'
  <2> SUFFICES ASSUME NEW i \in DOMAIN registered'
               PROVE  /\ ~conns'[registered'[i].conn].discarded /\ conns'[registered'[i].conn].id = registered'[i].id
                      /\ \A j \in DOMAIN registered' : registered'[i].id = registered'[j].id => i = j
    BY DEF StoreHoldsLive
  <2>1. CASE registered'[i] = put
    BY <1>2, <1>3, <1>5, <1>7, <2>1
  <2>2. CASE i \in DOMAIN registered /\ registered'[i] = registered[i] /\ registered[i].id # id
    BY <1>3, <1>5, <1>7, <1>11, <2>2 DEF SubscriptionInv, StoreHoldsLive
  <2> QED BY <1>7, <2>1, <2>2
<1>14. DiscardedHearNothing'
  BY <1>2, <1>5 DEF SubscriptionInv, DiscardedHearNothing
<1>15. ASSUME NEW i \in DOMAIN casts, NEW b, NEW d, b = casts[i], d = casts'[i] PROVE Reaches(d)'
  <2>1. Reaches(b)
    BY <1>15 DEF SubscriptionInv
  <2>2. ASSUME NEW c \in d.due, b.byId, NEW x, c \in ClientById(x) PROVE c \in ClientById(x)'
    <3>1. PICK k \in DOMAIN registered : registered[k].id = x /\ registered[k].conn = c
      BY <2>2, InStore
    <3>2. x # id
      BY <1>9, <1>15, <2>2
    <3>3. k \in DOMAIN registered' /\ registered'[k] = registered[k]
      BY <1>7, <3>1, <3>2
    <3> QED BY <3>1, <3>3 DEF ClientById
  <2>3. /\ d.topic = b.topic /\ d.byId = b.byId /\ d.left = b.left /\ d.heard = b.heard /\ d.due \subseteq b.due
    BY <1>9, <1>15
  <2>4. \A c \in DOMAIN conns : conns'[c] = conns[c] /\ (Holds(c, b.topic) => Holds(c, b.topic)')
    BY <1>5 DEF Holds
  <2> QED BY <1>5, <2>1, <2>2, <2>3, <2>4, CastStays
<1>16. \A i \in DOMAIN casts' : Reaches(casts[i])'
  BY <1>9, <1>15
<1> QED BY <1>12, <1>13, <1>14, <1>16 DEF SubscriptionInv

\* What of the clients and of the store matters to the broadcasts that go on.
Spared(b, d) ==
    /\ d.topic = b.topic /\ d.byId = b.byId /\ d.left = b.left /\ d.heard = b.heard /\ d.due \subseteq b.due
    /\ \A c \in DOMAIN conns : c \in d.due =>
          /\ conns'[c].discarded = conns[c].discarded
          /\ (b.topic = AnyTopic \/ Holds(c, b.topic)) => (b.topic = AnyTopic \/ Holds(c, b.topic)')
          /\ b.byId => \A id : c \in ClientById(id) => c \in ClientById(id)'

LEMMA ClientsChange ==
  ASSUME SubscriptionInv, DOMAIN casts' = DOMAIN casts, \A i \in DOMAIN casts : casts'[i] \in Casting /\ Spared(casts[i], casts'[i]),
         conns' \in [DOMAIN conns -> Subscriber], \A c \in DOMAIN conns : conns'[c].id = conns[c].id /\ conns'[c].late = conns[c].late,
         registered' \in Seq(Registration), \A i \in DOMAIN registered' : registered'[i].conn \in DOMAIN conns, StoreHoldsLive',
         IsFcn(casts')
  PROVE  SubscriptionInv'
<1>1. BrokerTyped
  BY DEF SubscriptionInv
<1>2. conns' \in Seq(Subscriber) /\ DOMAIN conns' = DOMAIN conns
  BY <1>1, BrokerSeqs, FunctionIsSeq
<1>3. casts' \in Seq(Casting)
  <2>1. Len(casts) \in Nat /\ casts' \in [1..Len(casts) -> Casting]
    BY <1>1, BrokerSeqs DEF IsFcn
  <2> QED BY <2>1, FunctionIsSeq
<1>4. BrokerTyped'
  BY <1>2, <1>3 DEF BrokerTyped
<1>5. DiscardedHearNothing'
  BY <1>2 DEF SubscriptionInv, DiscardedHearNothing
<1>6. ASSUME NEW i \in DOMAIN casts, NEW b, NEW d, b = casts[i], d = casts'[i] PROVE Reaches(d)'
  <2>1. Reaches(b) /\ Spared(b, d)
    BY <1>6 DEF SubscriptionInv
  <2> QED BY <1>2, <2>1, CastStays DEF Spared
<1>7. \A i \in DOMAIN casts' : Reaches(casts[i])'
  BY <1>6
<1> QED BY <1>4, <1>5, <1>7 DEF SubscriptionInv

LEMMA RemoveAtSeq ==
  ASSUME NEW S, NEW s \in Seq(S), NEW k \in DOMAIN s
  PROVE  /\ RemoveAt(s, k) \in Seq(S) /\ DOMAIN RemoveAt(s, k) = 1..(Len(s) - 1)
         /\ \A i \in 1..(Len(s) - 1) : RemoveAt(s, k)[i] = IF i < k THEN s[i] ELSE s[i + 1]
<1>1. Len(s) \in Nat /\ DOMAIN s = 1..Len(s) /\ k \in 1..Len(s) /\ \A i \in 1..Len(s) : s[i] \in S
  BY LenProperties, ElementOfSeq
<1> DEFINE a == SubSeq(s, 1, k - 1)
           b == SubSeq(s, k + 1, Len(s))
<1>2. a \in Seq(S) /\ Len(a) = k - 1 /\ \A i \in 1..(k - 1) : a[i] = s[i]
  <2>1. 1 \in Int /\ k - 1 \in Int /\ \A i \in 1..(k - 1) : s[i] \in S
    BY <1>1
  <2> QED BY <1>1, <2>1, SubSeqProperties
<1>3. b \in Seq(S) /\ Len(b) = Len(s) - k /\ \A i \in 1..(Len(s) - k) : b[i] = s[k + i]
  <2>1. k + 1 \in Int /\ Len(s) \in Int /\ (\A i \in (k + 1)..Len(s) : s[i] \in S) /\ Len(s) - (k + 1) + 1 = Len(s) - k
    BY <1>1
  <2>2. b \in Seq(S) /\ Len(b) = Len(s) - k /\ \A i \in 1..(Len(s) - k) : b[i] = s[(k + 1) + i - 1]
    BY <1>1, <2>1, SubSeqProperties
  <2> QED BY <1>1, <2>2
<1>4. a \o b \in Seq(S) /\ Len(a \o b) = Len(s) - 1 /\ DOMAIN (a \o b) = 1..(Len(s) - 1)
  <2> HIDE DEF a, b
  <2>1. a \o b \in Seq(S) /\ Len(a \o b) = Len(a) + Len(b)
    BY <1>2, <1>3, ConcatProperties
  <2>2. Len(a \o b) = Len(s) - 1
    BY <1>1, <1>2, <1>3, <2>1
  <2> QED BY <2>1, <2>2, LenProperties
<1>5. \A i \in 1..(Len(s) - 1) : (a \o b)[i] = IF i < k THEN s[i] ELSE s[i + 1]
  <2> HIDE DEF a, b
  <2> SUFFICES ASSUME NEW i \in 1..(Len(s) - 1) PROVE (a \o b)[i] = IF i < k THEN s[i] ELSE s[i + 1]
    OBVIOUS
  <2>1. CASE i < k
    <3>1. i \in 1..Len(a) /\ i \in 1..(k - 1)
      BY <1>1, <1>2, <2>1
    <3>2. (a \o b)[i] = a[i]
      <4>1. Len(a) \in Nat /\ Len(b) \in Nat /\ i \in 1..(Len(a) + Len(b)) /\ i <= Len(a)
        BY <1>1, <1>2, <1>3, <3>1
      <4> QED BY <1>2, <1>3, <4>1, ConcatProperties
    <3> QED BY <1>2, <2>1, <3>1, <3>2
  <2>2. CASE ~(i < k)
    <3>1. (a \o b)[i] = b[i - Len(a)]
      <4>1. Len(a) \in Nat /\ Len(b) \in Nat /\ i \in 1..(Len(a) + Len(b)) /\ ~(i <= Len(a))
        BY <1>1, <1>2, <1>3, <2>2
      <4> QED BY <1>2, <1>3, <4>1, ConcatProperties
    <3>2. i - Len(a) \in 1..(Len(s) - k) /\ k + (i - Len(a)) = i + 1
      BY <1>1, <1>2, <2>2
    <3> QED BY <1>3, <2>2, <3>1, <3>2
  <2> QED BY <2>1, <2>2
<1> QED BY <1>4, <1>5 DEF RemoveAt

LEMMA UnregisterKeeps ==
  ASSUME SubscriptionInv, NEW id \in ConnIds, Unregister(id)
  PROVE  SubscriptionInv'
<1>1. BrokerTyped /\ conns \in Seq(Subscriber) /\ registered \in Seq(Registration) /\ casts \in Seq(Casting)
  BY DEF SubscriptionInv, BrokerTyped
<1>2. PICK k \in DOMAIN registered :
        /\ registered[k].id = id /\ registered' = RemoveAt(registered, k)
        /\ conns' = [conns EXCEPT ![registered[k].conn].discarded = TRUE]
        /\ StillDue(DOMAIN conns \ {registered[k].conn})
  BY DEF Unregister
<1>3. PICK c : c = registered[k].conn
  OBVIOUS
<1>4. /\ c \in DOMAIN conns /\ conns' = [conns EXCEPT ![c].discarded = TRUE] /\ \A x \in DOMAIN conns : conns[x] \in Subscriber
      /\ casts' = [i \in DOMAIN casts |-> [casts[i] EXCEPT !.due = @ \cap (DOMAIN conns \ {c})]]
  BY <1>1, <1>2, <1>3, BrokerSeqs DEF StillDue, SubscriptionInv, BrokerTyped
<1>5. /\ conns' \in [DOMAIN conns -> Subscriber] /\ \A x \in DOMAIN conns : conns'[x].id = conns[x].id /\ conns'[x].late = conns[x].late
      /\ \A x \in DOMAIN conns \ {c} : conns'[x] = conns[x]
  <2>1. conns \in [DOMAIN conns -> Subscriber]
    BY <1>1, LenProperties
  <2> QED BY <1>4, <2>1 DEF Subscriber
<1>6. /\ registered' \in Seq(Registration)
      /\ \A i \in DOMAIN registered' : \E m \in DOMAIN registered \ {k} : registered'[i] = registered[m] /\ m = IF i < k THEN i ELSE i + 1
      /\ \A m \in DOMAIN registered \ {k} : \E i \in DOMAIN registered' : registered'[i] = registered[m]
      /\ DOMAIN registered' \subseteq Nat
  <2>1. /\ registered' \in Seq(Registration) /\ DOMAIN registered' = 1..(Len(registered) - 1)
        /\ \A i \in 1..(Len(registered) - 1) : registered'[i] = IF i < k THEN registered[i] ELSE registered[i + 1]
    BY <1>1, <1>2, RemoveAtSeq
  <2>2. Len(registered) \in Nat /\ DOMAIN registered = 1..Len(registered) /\ k \in 1..Len(registered)
    BY <1>1, BrokerSeqs
  <2>3. ASSUME NEW i \in DOMAIN registered'
        PROVE  \E m \in DOMAIN registered \ {k} : registered'[i] = registered[m] /\ m = IF i < k THEN i ELSE i + 1
    <3>1. CASE i < k
      <4>1. i \in DOMAIN registered \ {k} /\ registered'[i] = registered[i]
        BY <2>1, <2>2, <3>1
      <4> QED BY <3>1, <4>1
    <3>2. CASE ~(i < k)
      <4>1. i + 1 \in DOMAIN registered \ {k} /\ registered'[i] = registered[i + 1]
        BY <2>1, <2>2, <3>2
      <4> QED BY <3>2, <4>1
    <3> QED BY <3>1, <3>2
  <2>4. ASSUME NEW m \in DOMAIN registered \ {k} PROVE \E i \in DOMAIN registered' : registered'[i] = registered[m]
    <3>1. CASE m < k
      <4>1. m \in DOMAIN registered' /\ registered'[m] = registered[m]
        BY <2>1, <2>2, <3>1
      <4> QED BY <4>1
    <3>2. CASE m > k
      <4>1. m - 1 \in DOMAIN registered' /\ registered'[m - 1] = registered[m]
        BY <2>1, <2>2, <3>2
      <4> QED BY <4>1
    <3> QED BY <2>2, <3>1, <3>2
  <2> QED BY <2>1, <2>3, <2>4
<1>7. \A m \in DOMAIN registered \ {k} : registered[m].conn # c /\ registered[m].conn \in DOMAIN conns
  BY <1>2, <1>3 DEF SubscriptionInv, StoreHoldsLive, BrokerTyped
<1>8. StoreHoldsLive'
  <2> SUFFICES ASSUME NEW i \in DOMAIN registered'
               PROVE  /\ ~conns'[registered'[i].conn].discarded /\ conns'[registered'[i].conn].id = registered'[i].id
                      /\ \A j \in DOMAIN registered' : registered'[i].id = registered'[j].id => i = j
    BY DEF StoreHoldsLive
  <2>1. PICK m \in DOMAIN registered \ {k} : registered'[i] = registered[m] /\ m = IF i < k THEN i ELSE i + 1
    BY <1>6
  <2>2. ~conns'[registered'[i].conn].discarded /\ conns'[registered'[i].conn].id = registered'[i].id
    BY <1>5, <1>7, <2>1 DEF SubscriptionInv, StoreHoldsLive
  <2>3. ASSUME NEW j \in DOMAIN registered', registered'[i].id = registered'[j].id PROVE i = j
    <3>1. PICK o \in DOMAIN registered \ {k} : registered'[j] = registered[o] /\ o = IF j < k THEN j ELSE j + 1
      BY <1>6
    <3>2. m = o
      BY <2>1, <2>3, <3>1 DEF SubscriptionInv, StoreHoldsLive
    <3>3. i \in Nat /\ j \in Nat /\ k \in Nat
      BY <1>1, <1>6, BrokerSeqs
    <3> QED BY <2>1, <3>1, <3>2, <3>3
  <2> QED BY <2>2, <2>3
<1>9. ASSUME NEW i \in DOMAIN casts PROVE casts'[i] \in Casting /\ Spared(casts[i], casts'[i])
  <2>1. casts[i] \in Casting
    BY <1>1, BrokerSeqs
  <2>2. /\ casts'[i] \in Casting
        /\ casts'[i].topic = casts[i].topic /\ casts'[i].byId = casts[i].byId /\ casts'[i].left = casts[i].left
        /\ casts'[i].heard = casts[i].heard /\ casts'[i].due \subseteq casts[i].due /\ c \notin casts'[i].due
    BY <1>4, <2>1 DEF Casting
  <2>3. ASSUME NEW x \in DOMAIN conns, x # c, NEW y, x \in ClientById(y) PROVE x \in ClientById(y)'
    <3>1. PICK m \in DOMAIN registered : registered[m].id = y /\ registered[m].conn = x
      BY <2>3, InStore
    <3>2. PICK j \in DOMAIN registered' : registered'[j] = registered[m]
      BY <1>3, <1>6, <2>3, <3>1
    <3> QED BY <3>1, <3>2 DEF ClientById
  <2>4. \A x \in DOMAIN conns \ {c} : \A t : Holds(x, t) => Holds(x, t)'
    BY <1>5 DEF Holds
  <2> QED BY <1>5, <2>2, <2>3, <2>4 DEF Spared
<1>10. DOMAIN casts' = DOMAIN casts /\ IsFcn(casts')
  BY <1>4 DEF IsFcn
<1>11. \A i \in DOMAIN registered' : registered'[i].conn \in DOMAIN conns
  BY <1>6, <1>7
<1> QED BY <1>5, <1>6, <1>8, <1>9, <1>10, <1>11, ClientsChange

LEMMA SubscribeKeeps ==
  ASSUME SubscriptionInv, NEW c \in DOMAIN conns, NEW topic \in Topics, NEW option \in Options, SubscribeTo(c, topic, option)
  PROVE  SubscriptionInv'
<1>1. BrokerTyped /\ conns \in Seq(Subscriber) /\ registered \in Seq(Registration) /\ casts \in Seq(Casting)
      /\ conns' = [conns EXCEPT ![c].topics = @ \cup {<<topic, option>>}] /\ UNCHANGED <<registered, casts>>
  BY DEF SubscriptionInv, BrokerTyped, SubscribeTo
<1>2. conns \in [DOMAIN conns -> Subscriber] /\ conns[c] \in Subscriber
  BY <1>1, LenProperties, BrokerSeqs
<1>3. /\ conns' \in [DOMAIN conns -> Subscriber]
      /\ \A x \in DOMAIN conns : conns'[x].id = conns[x].id /\ conns'[x].late = conns[x].late
      /\ \A x \in DOMAIN conns : conns'[x].discarded = conns[x].discarded /\ conns[x].topics \subseteq conns'[x].topics
  <2>1. conns[c].topics \cup {<<topic, option>>} \in SUBSET (Topics \X Options)
    BY <1>2 DEF Subscriber
  <2> QED BY <1>1, <1>2, <2>1 DEF Subscriber
<1>4. ASSUME NEW i \in DOMAIN casts PROVE casts'[i] \in Casting /\ Spared(casts[i], casts'[i])
  <2>1. casts[i] \in Casting /\ casts'[i] = casts[i]
    BY <1>1, BrokerSeqs
  <2>2. \A x \in DOMAIN conns : \A t : Holds(x, t) => Holds(x, t)'
    BY <1>3 DEF Holds
  <2>3. \A x, y : x \in ClientById(y) => x \in ClientById(y)'
    BY <1>1 DEF ClientById
  <2> QED BY <1>3, <2>1, <2>2, <2>3 DEF Spared
<1>5. StoreHoldsLive'
  BY <1>1, <1>3 DEF SubscriptionInv, StoreHoldsLive, BrokerTyped
<1>6. IsFcn(casts') /\ \A i \in DOMAIN registered' : registered'[i].conn \in DOMAIN conns
  BY <1>1, LenProperties DEF IsFcn, BrokerTyped
<1> QED BY <1>1, <1>3, <1>4, <1>5, <1>6, ClientsChange

LEMMA UnsubscribeKeeps ==
  ASSUME SubscriptionInv, NEW c \in DOMAIN conns, NEW topics, UnsubscribeFrom(c, topics)
  PROVE  SubscriptionInv'
<1> DEFINE gone == IF topics = {} THEN conns[c].topics ELSE topics
<1>1. BrokerTyped /\ conns \in Seq(Subscriber) /\ registered \in Seq(Registration) /\ casts \in Seq(Casting) /\ UNCHANGED registered
  BY DEF SubscriptionInv, BrokerTyped, UnsubscribeFrom
<1>2. /\ conns' = [conns EXCEPT ![c].topics = @ \ gone]
      /\ casts' = [i \in DOMAIN casts |->
              IF <<casts[i].topic, NoOption>> \in gone THEN [casts[i] EXCEPT !.due = @ \ {c}] ELSE casts[i]]
  BY DEF UnsubscribeFrom
<1> HIDE DEF gone
<1>3. conns \in [DOMAIN conns -> Subscriber] /\ conns[c] \in Subscriber
  BY <1>1, LenProperties, BrokerSeqs
<1>4. /\ conns' \in [DOMAIN conns -> Subscriber]
      /\ \A x \in DOMAIN conns : conns'[x].id = conns[x].id /\ conns'[x].late = conns[x].late
      /\ \A x \in DOMAIN conns : conns'[x].discarded = conns[x].discarded /\ (x # c => conns'[x] = conns[x])
      /\ conns'[c].topics = conns[c].topics \ gone
  <2>1. conns[c].topics \ gone \in SUBSET (Topics \X Options)
    BY <1>3 DEF Subscriber
  <2> QED BY <1>2, <1>3, <2>1 DEF Subscriber
<1>5. ASSUME NEW i \in DOMAIN casts PROVE casts'[i] \in Casting /\ Spared(casts[i], casts'[i])
  <2>1. casts[i] \in Casting
    BY <1>1, BrokerSeqs
  <2>2. /\ casts'[i] \in Casting
        /\ casts'[i].topic = casts[i].topic /\ casts'[i].byId = casts[i].byId /\ casts'[i].left = casts[i].left
        /\ casts'[i].heard = casts[i].heard /\ casts'[i].due \subseteq casts[i].due
        /\ c \in casts'[i].due => <<casts[i].topic, NoOption>> \notin gone
    BY <1>2, <2>1 DEF Casting
  <2>3. \A x \in DOMAIN conns : x \in casts'[i].due /\ Holds(x, casts[i].topic) => Holds(x, casts[i].topic)'
    BY <1>4, <2>2 DEF Holds
  <2>4. \A x, y : x \in ClientById(y) => x \in ClientById(y)'
    BY <1>1 DEF ClientById
  <2> QED BY <1>4, <2>2, <2>3, <2>4 DEF Spared
<1>6. StoreHoldsLive'
  BY <1>1, <1>4 DEF SubscriptionInv, StoreHoldsLive, BrokerTyped
<1>7. IsFcn(casts') /\ DOMAIN casts' = DOMAIN casts /\ \A i \in DOMAIN registered' : registered'[i].conn \in DOMAIN conns
  BY <1>1, <1>2 DEF IsFcn, BrokerTyped
<1> QED BY <1>1, <1>4, <1>5, <1>6, <1>7, ClientsChange

\* A broadcast begins; it has visited nobody yet.
LEMMA CastKeeps ==
  ASSUME SubscriptionInv, NEW topic \in Topics \cup {AnyTopic}, NEW direct \in BOOLEAN, NEW to \in Seq(Target), NEW due \in SUBSET Nat,
         UNCHANGED <<conns, registered>>, casts' = Append(casts, [topic |-> topic, byId |-> direct, left |-> to, due |-> due,
                                                              heard |-> <<>>, handling |-> FALSE]),
         direct => topic = AnyTopic, \A i, j \in DOMAIN to : to[i] = to[j] => i = j,
         \A j \in DOMAIN to : IF direct THEN to[j] \in ConnIds ELSE to[j] \in DOMAIN conns,
         \A c \in due : /\ c \in DOMAIN conns /\ ~conns[c].discarded /\ (topic = AnyTopic \/ Holds(c, topic))
                        /\ \E j \in DOMAIN to : IF direct THEN c \in ClientById(to[j]) ELSE c = to[j]
  PROVE  SubscriptionInv'
<1> DEFINE b == [topic |-> topic, byId |-> direct, left |-> to, due |-> due, heard |-> <<>>, handling |-> FALSE]
<1>1. BrokerTyped /\ casts \in Seq(Casting)
  BY DEF SubscriptionInv, BrokerTyped
<1>2. b \in Casting /\ b.topic = topic /\ b.byId = direct /\ b.left = to /\ b.due = due /\ DOMAIN b.heard = {}
  BY DEF Casting
<1>3. casts' = Append(casts, b)
  OBVIOUS
<1>4. Reaches(b)
  <2>1. \A c \in b.due : Coming(b, c)
    BY <1>2 DEF Coming
  <2> QED BY <1>2, <2>1 DEF Reaches
<1> HIDE DEF b
<1>5. /\ casts' \in Seq(Casting) /\ DOMAIN casts' = DOMAIN casts \cup {Len(casts) + 1} /\ casts'[Len(casts) + 1] = b
      /\ \A i \in DOMAIN casts : casts'[i] = casts[i]
  BY <1>1, <1>2, <1>3, AppendProperties, LenProperties, BrokerSeqs
<1>6. \A x : Reaches(x)' <=> Reaches(x)
  BY DEF Reaches, Coming, Holds, ClientById
<1>7. \A i \in DOMAIN casts' : Reaches(casts'[i])
  BY <1>4, <1>5 DEF SubscriptionInv
<1>8. \A i \in DOMAIN casts' : Reaches(casts[i])'
  BY <1>6, <1>7
<1>9. BrokerTyped' /\ StoreHoldsLive' /\ DiscardedHearNothing'
  BY <1>5 DEF SubscriptionInv, BrokerTyped, StoreHoldsLive, DiscardedHearNothing
<1> QED BY <1>8, <1>9 DEF SubscriptionInv

LEMMA BroadcastKeeps ==
  ASSUME SubscriptionInv, NEW topic \in Topics, Broadcast(topic)
  PROVE  SubscriptionInv'
<1> DEFINE all == [i \in DOMAIN registered |-> registered[i].conn]
           for == {c \in ToSet(all) : topic = AnyTopic \/ Holds(c, topic)}
<1>1. BrokerTyped /\ Len(registered) \in Nat /\ DOMAIN registered = 1..Len(registered)
      /\ \A i \in DOMAIN registered : registered[i].conn \in DOMAIN conns /\ registered[i].conn \in Nat
  BY BrokerSeqs DEF SubscriptionInv, BrokerTyped
<1>2. all \in Seq(Target) /\ DOMAIN all = DOMAIN registered /\ \A i \in DOMAIN all : all[i] \in DOMAIN conns /\ all[i] = registered[i].conn
  <2>1. all \in [1..Len(registered) -> Target]
    BY <1>1 DEF Target
  <2>2. all \in Seq(Target)
    BY <1>1, <2>1, FunctionIsSeq
  <2> QED BY <1>1, <2>2
<1>3. \A i, j \in DOMAIN all : all[i] = all[j] => i = j
  BY <1>2 DEF SubscriptionInv, StoreHoldsLive
<1>4. \A c \in for : /\ c \in DOMAIN conns /\ c \in Nat /\ ~conns[c].discarded /\ (topic = AnyTopic \/ Holds(c, topic))
                     /\ \E j \in DOMAIN all : c = all[j]
  <2> SUFFICES ASSUME NEW c \in for
               PROVE  /\ c \in DOMAIN conns /\ c \in Nat /\ ~conns[c].discarded /\ (topic = AnyTopic \/ Holds(c, topic))
                      /\ \E j \in DOMAIN all : c = all[j]
    OBVIOUS
  <2>1. PICK j \in DOMAIN all : c = all[j]
    BY DEF ToSet
  <2> QED BY <1>1, <1>2, <2>1 DEF SubscriptionInv, StoreHoldsLive
<1>5. /\ UNCHANGED <<conns, registered>>
      /\ casts' = Append(casts, [topic |-> topic, byId |-> FALSE, left |-> all, due |-> for, heard |-> <<>>, handling |-> FALSE])
  BY DEF Broadcast, Cast
<1> HIDE DEF all, for
<1>6. for \in SUBSET Nat /\ topic \in Topics \cup {AnyTopic}
  BY <1>4
<1>7. /\ FALSE => topic = AnyTopic
      /\ \A j \in DOMAIN all : IF FALSE THEN all[j] \in ConnIds ELSE all[j] \in DOMAIN conns
      /\ \A c \in for : /\ c \in DOMAIN conns /\ ~conns[c].discarded /\ (topic = AnyTopic \/ Holds(c, topic))
                       /\ \E j \in DOMAIN all : IF FALSE THEN c \in ClientById(all[j]) ELSE c = all[j]
  BY <1>2, <1>4
<1> QED BY <1>2, <1>3, <1>5, <1>6, <1>7, CastKeeps

LEMMA BroadcastToKeeps ==
  ASSUME SubscriptionInv, NEW ids \in SetToSeqs(ConnIds), BroadcastTo(ids)
  PROVE  SubscriptionInv'
<1> DEFINE due == UNION {ClientById(ids[i]) : i \in DOMAIN ids}
<1>1. BrokerTyped /\ Cardinality(ConnIds) \in Nat
  BY ConnIdsFinite, FS_CardinalityType DEF SubscriptionInv
<1>2. ids \in [1..Cardinality(ConnIds) -> ConnIds] /\ \A i, j \in DOMAIN ids : ids[i] = ids[j] => i = j
  BY DEF SetToSeqs
<1>3. ids \in Seq(Target)
  <2>1. ids \in [1..Cardinality(ConnIds) -> Target]
    BY <1>2 DEF Target
  <2> QED BY <1>1, <2>1, FunctionIsSeq
<1>4. \A c \in due : /\ c \in DOMAIN conns /\ c \in Nat /\ ~conns[c].discarded /\ \E j \in DOMAIN ids : c \in ClientById(ids[j])
  <2> SUFFICES ASSUME NEW c \in due
               PROVE  /\ c \in DOMAIN conns /\ c \in Nat /\ ~conns[c].discarded /\ \E j \in DOMAIN ids : c \in ClientById(ids[j])
    OBVIOUS
  <2>1. PICK j \in DOMAIN ids : c \in ClientById(ids[j])
    OBVIOUS
  <2>2. PICK i \in DOMAIN registered : registered[i].conn = c
    BY <2>1, InStore
  <2> QED BY <1>1, <2>1, <2>2, BrokerSeqs DEF SubscriptionInv, StoreHoldsLive, BrokerTyped
<1>5. /\ UNCHANGED <<conns, registered>>
      /\ casts' = Append(casts, [topic |-> AnyTopic, byId |-> TRUE, left |-> ids, due |-> due, heard |-> <<>>, handling |-> FALSE])
  BY DEF BroadcastTo, Cast
<1> HIDE DEF due
<1>6. due \in SUBSET Nat
  BY <1>4
<1> QED BY <1>2, <1>3, <1>4, <1>5, <1>6, CastKeeps

LEMMA SmallSeq ==
  ASSUME NEW S, NEW T \in SUBSET S, \A x, y \in T : x = y
  PROVE  /\ SetToSeq(T) \in Seq(S) /\ Len(SetToSeq(T)) \in {0, 1} /\ DOMAIN SetToSeq(T) = 1..Len(SetToSeq(T))
         /\ \A i \in DOMAIN SetToSeq(T) : SetToSeq(T)[i] \in T
         /\ \A x \in T : \E i \in DOMAIN SetToSeq(T) : SetToSeq(T)[i] = x
<1>1. T = {} \/ \E x : T = {x}
  OBVIOUS
<1>2. Cardinality(T) \in {0, 1} /\ (T # {} => Cardinality(T) = 1) /\ (T = {} => Cardinality(T) = 0)
  BY <1>1, FS_EmptySet, FS_Singleton
<1>3. \E f \in [1..Cardinality(T) -> T] : IsInjective(f)
  <2>1. CASE T = {}
    <3>1. 1..Cardinality(T) = {}
      BY <1>2, <2>1
    <3>2. [i \in {} |-> i] \in [1..Cardinality(T) -> T] /\ IsInjective([i \in {} |-> i])
      BY <3>1 DEF IsInjective
    <3> QED BY <3>2
  <2>2. CASE T # {}
    <3>1. PICK x : T = {x}
      BY <1>1, <2>2
    <3>2. 1..Cardinality(T) = {1}
      BY <1>2, <2>2
    <3>3. [i \in {1} |-> x] \in [1..Cardinality(T) -> T] /\ IsInjective([i \in {1} |-> x])
      BY <3>1, <3>2 DEF IsInjective
    <3> QED BY <3>3
  <2> QED BY <2>1, <2>2
<1> DEFINE q == SetToSeq(T)
<1>4. q \in [1..Cardinality(T) -> T]
  BY <1>3 DEF SetToSeq
<1> HIDE DEF q
<1>5. Cardinality(T) \in Nat /\ q \in [1..Cardinality(T) -> S]
  BY <1>2, <1>4
<1>6. q \in Seq(S) /\ Len(q) = Cardinality(T)
  BY <1>5, FunctionIsSeq
<1>7. \A x \in T : \E i \in DOMAIN q : q[i] = x
  <2> SUFFICES ASSUME NEW x \in T PROVE \E i \in DOMAIN q : q[i] = x
    OBVIOUS
  <2>1. 1 \in DOMAIN q
    BY <1>2, <1>4
  <2> QED BY <1>4, <2>1
<1>8. q \in Seq(S) /\ Len(q) \in {0, 1} /\ DOMAIN q = 1..Len(q) /\ \A i \in DOMAIN q : q[i] \in T
  BY <1>2, <1>4, <1>6
<1> QED BY <1>7, <1>8 DEF q

\* Whom the next step of a broadcast finds at a place of it.
FoundAt(b, place) == IF b.byId THEN ClientById(place) ELSE {place}
Wants(b, c) == ~conns[c].discarded /\ (b.topic = AnyTopic \/ Holds(c, b.topic))

\* The broadcast has gone one place on and sent to the client that it found there and that wants it.
LEMMA GoesOn ==
  ASSUME SubscriptionInv, NEW b \in Casting, NEW d, Reaches(b), b.left # <<>>, NEW q \in Seq(Nat),
         d.topic = b.topic, d.byId = b.byId, d.due = b.due, d.left = Tail(b.left), d.heard = b.heard \o q,
         Len(q) \in {0, 1}, \A i \in DOMAIN q : q[i] \in FoundAt(b, b.left[1]) /\ Wants(b, q[i]),
         \A c \in FoundAt(b, b.left[1]) : Wants(b, c) => \E i \in DOMAIN q : q[i] = c
  PROVE  Reaches(d)
<1> DEFINE name(c) == IF b.byId THEN conns[c].id ELSE c
           h == b.heard
           l == b.left
           t == d.left
           g == d.heard
<1>1. /\ l \in Seq(Target) /\ h \in Seq(Nat) /\ Len(l) \in Nat /\ DOMAIN l = 1..Len(l)
      /\ Len(h) \in Nat /\ DOMAIN h = 1..Len(h) /\ Len(q) \in Nat /\ DOMAIN q = 1..Len(q) /\ 1 \in DOMAIN l
  <2>1. l \in Seq(Target) /\ h \in Seq(Nat) /\ l # <<>>
    BY DEF Casting
  <2> QED BY <2>1, LenProperties, EmptySeq
<1>2. DOMAIN t = 1..(Len(l) - 1) /\ \A j \in DOMAIN t : j + 1 \in DOMAIN l /\ j + 1 # 1 /\ t[j] = l[j + 1]
  <2>1. t = Tail(l)
    OBVIOUS
  <2> HIDE DEF t, l
  <2>2. t \in Seq(Target) /\ Len(t) = Len(l) - 1 /\ \A j \in 1..Len(t) : t[j] = l[j + 1]
    BY <1>1, <2>1, HeadTailProperties
  <2>3. DOMAIN t = 1..Len(t)
    BY <2>2, LenProperties
  <2> QED BY <1>1, <2>2, <2>3
<1>3. /\ DOMAIN g = 1..(Len(h) + Len(q))
      /\ \A i \in DOMAIN h : i \in DOMAIN g /\ g[i] = h[i]
      /\ \A i \in DOMAIN q : Len(h) + i \in DOMAIN g /\ g[Len(h) + i] = q[i]
      /\ \A i \in DOMAIN g : i \in DOMAIN h \/ (i = Len(h) + 1 /\ 1 \in DOMAIN q /\ g[i] = q[1])
  <2>1. g = h \o q
    OBVIOUS
  <2> HIDE DEF g, h
  <2>2. /\ g \in Seq(Nat) /\ Len(g) = Len(h) + Len(q)
        /\ \A i \in 1..(Len(h) + Len(q)) : g[i] = IF i <= Len(h) THEN h[i] ELSE q[i - Len(h)]
    BY <1>1, <2>1, ConcatProperties
  <2>3. DOMAIN g = 1..(Len(h) + Len(q))
    BY <2>2, LenProperties
  <2>4. ASSUME NEW i \in DOMAIN h PROVE i \in DOMAIN g /\ g[i] = h[i]
    <3>1. i \in 1..(Len(h) + Len(q)) /\ i <= Len(h)
      BY <1>1, <2>4
    <3> QED BY <2>2, <2>3, <3>1
  <2>5. ASSUME NEW i \in DOMAIN q PROVE Len(h) + i \in DOMAIN g /\ g[Len(h) + i] = q[i]
    <3>1. i \in 1..Len(q) /\ Len(h) + i \in 1..(Len(h) + Len(q)) /\ ~(Len(h) + i <= Len(h)) /\ (Len(h) + i) - Len(h) = i
      BY <1>1, <2>5
    <3> QED BY <2>2, <2>3, <3>1
  <2>6. \A i \in DOMAIN g : i \in DOMAIN h \/ (i = Len(h) + 1 /\ 1 \in DOMAIN q)
    BY <1>1, <2>3
  <2> QED BY <2>3, <2>4, <2>5, <2>6
<1>4. ASSUME NEW i \in DOMAIN q PROVE q[i] \in DOMAIN conns /\ name(q[i]) = l[1]
  <2>1. CASE b.byId
    <3>1. PICK k \in DOMAIN registered : registered[k].id = l[1] /\ registered[k].conn = q[i]
      BY <1>4, <2>1, InStore DEF FoundAt
    <3> QED BY <2>1, <3>1 DEF SubscriptionInv, StoreHoldsLive, BrokerTyped
  <2>2. CASE ~b.byId
    <3>1. q[i] = l[1]
      BY <1>4, <2>2 DEF FoundAt
    <3> QED BY <1>1, <2>2, <3>1 DEF Reaches
  <2> QED BY <2>1, <2>2
<1>5. /\ \A i \in DOMAIN h : h[i] \in DOMAIN conns /\ \A j \in DOMAIN l : l[j] # name(h[i])
      /\ \A i, j \in DOMAIN l : l[i] = l[j] => i = j
      /\ \A i, j \in DOMAIN h : h[i] = h[j] => i = j
      /\ \A c \in b.due : Coming(b, c) \/ \E i \in DOMAIN h : h[i] = c
      /\ b.byId => b.topic = AnyTopic
      /\ \A j \in DOMAIN l : IF b.byId THEN l[j] \in ConnIds ELSE l[j] \in DOMAIN conns
  BY DEF Reaches
<1>6. ASSUME NEW c \in d.due PROVE Coming(d, c) \/ \E i \in DOMAIN g : g[i] = c
  <2>1. CASE Coming(b, c)
    <3>1. PICK j \in DOMAIN l : c \in FoundAt(b, l[j])
      BY <2>1 DEF Coming, FoundAt
    <3>2. c \in DOMAIN conns /\ Wants(b, c)
      BY <2>1 DEF Coming, Wants
    <3>3. CASE j = 1
      <4>1. PICK i \in DOMAIN q : q[i] = c
        BY <3>1, <3>2, <3>3
      <4> QED BY <1>3, <4>1
    <3>4. CASE j # 1
      <4>1. j - 1 \in DOMAIN t /\ t[j - 1] = l[j]
        BY <1>1, <1>2, <3>4
      <4> QED BY <3>1, <3>2, <4>1 DEF Coming, FoundAt, Wants
    <3> QED BY <3>3, <3>4
  <2>2. CASE \E i \in DOMAIN h : h[i] = c
    BY <1>3, <2>2
  <2> QED BY <1>5, <2>1, <2>2
<1> HIDE DEF t, l, h, g, name
<1>7. \A i, j \in DOMAIN t : t[i] = t[j] => i = j
  <2> SUFFICES ASSUME NEW i \in DOMAIN t, NEW j \in DOMAIN t, t[i] = t[j] PROVE i = j
    OBVIOUS
  <2>1. i + 1 = j + 1 /\ i \in Nat /\ j \in Nat
    BY <1>1, <1>2, <1>5
  <2> QED BY <2>1
<1>8. \A i, j \in DOMAIN g : g[i] = g[j] => i = j
  <2>1. \A i \in DOMAIN h, j \in DOMAIN q : h[i] # q[j]
    BY <1>1, <1>4, <1>5
  <2> QED BY <1>3, <1>5, <2>1
<1>9. \A j \in DOMAIN t : IF b.byId THEN t[j] \in ConnIds ELSE t[j] \in DOMAIN conns
  BY <1>2, <1>5
<1>10. \A i \in DOMAIN g : g[i] \in DOMAIN conns /\ \A j \in DOMAIN t : t[j] # name(g[i])
  <2>1. ASSUME NEW j \in DOMAIN t, 1 \in DOMAIN q PROVE t[j] # name(q[1])
    BY <1>1, <1>2, <1>4, <1>5, <2>1
  <2> QED BY <1>2, <1>3, <1>4, <1>5, <2>1
<1> QED BY <1>5, <1>6, <1>7, <1>8, <1>9, <1>10 DEF Reaches, t, l, h, g, name

LEMMA LastCast ==
  ASSUME SubscriptionInv, casts # <<>>
  PROVE  /\ Len(casts) \in Nat \ {0} /\ Len(casts) \in DOMAIN casts /\ DOMAIN casts = 1..Len(casts)
         /\ Last(casts) = casts[Len(casts)] /\ Last(casts) \in Casting /\ Reaches(Last(casts))
<1>1. BrokerTyped /\ casts \in Seq(Casting)
  BY DEF SubscriptionInv, BrokerTyped
<1>2. Len(casts) \in Nat \ {0} /\ DOMAIN casts = 1..Len(casts)
  BY <1>1, LenProperties, EmptySeq
<1>3. Len(casts) \in DOMAIN casts
  BY <1>2
<1> QED BY <1>1, <1>2, <1>3, BrokerSeqs DEF Last, SubscriptionInv

\* Only the broadcast that runs has changed, and it still reaches everyone.
LEMMA LastChanges ==
  ASSUME SubscriptionInv, casts # <<>>, UNCHANGED <<conns, registered>>, NEW d \in Casting, Reaches(d),
         casts' = [casts EXCEPT ![Len(casts)] = d]
  PROVE  SubscriptionInv'
<1>1. BrokerTyped /\ casts \in Seq(Casting) /\ Len(casts) \in Nat /\ Len(casts) \in DOMAIN casts /\ DOMAIN casts = 1..Len(casts)
  BY LastCast DEF SubscriptionInv, BrokerTyped
<1>2. casts' \in [1..Len(casts) -> Casting] /\ DOMAIN casts' = DOMAIN casts
  BY <1>1, BrokerSeqs
<1>3. casts' \in Seq(Casting)
  BY <1>1, <1>2, FunctionIsSeq
<1>4. \A i \in DOMAIN casts' : Reaches(casts'[i])
  BY <1>1 DEF SubscriptionInv
<1>5. \A x : Reaches(x)' <=> Reaches(x)
  BY DEF Reaches, Coming, Holds, ClientById
<1>6. \A i \in DOMAIN casts' : Reaches(casts[i])'
  BY <1>4, <1>5
<1>7. BrokerTyped' /\ StoreHoldsLive' /\ DiscardedHearNothing'
  BY <1>3 DEF SubscriptionInv, BrokerTyped, StoreHoldsLive, DiscardedHearNothing
<1> QED BY <1>6, <1>7 DEF SubscriptionInv

LEMMA SendNextKeeps ==
  ASSUME SubscriptionInv, SendNext
  PROVE  SubscriptionInv'
<1> DEFINE b == Last(casts)
           next == IF b.byId THEN ClientById(Head(b.left)) ELSE {Head(b.left)}
           sent == {c \in next : ~conns[c].discarded /\ (b.topic = AnyTopic \/ Holds(c, b.topic))}
           q == SetToSeq(sent)
           d == [b EXCEPT !.left = Tail(@), !.handling = sent # {}, !.heard = @ \o q]
<1>1. /\ casts # <<>> /\ b.left # <<>> /\ UNCHANGED registered
      /\ conns' = [c \in DOMAIN conns |-> IF c \in sent THEN [conns[c] EXCEPT !.late = @ \/ conns[c].discarded] ELSE conns[c]]
      /\ casts' = [casts EXCEPT ![Len(casts)] = d]
  BY DEF SendNext
<1>2. b \in Casting /\ Reaches(b)
  BY <1>1, LastCast
<1> HIDE DEF b
<1>3. Head(b.left) = b.left[1] /\ b.left \in Seq(Target) /\ Tail(b.left) \in Seq(Target) /\ b.heard \in Seq(Nat) /\ 1 \in DOMAIN b.left
  <2>1. b.left \in Seq(Target) /\ b.heard \in Seq(Nat)
    BY <1>2 DEF Casting
  <2>2. Tail(b.left) \in Seq(Target) /\ 1 \in DOMAIN b.left
    BY <1>1, <2>1, HeadTailProperties, LenProperties, EmptySeq
  <2> QED BY <1>1, <2>1, <2>2
<1>4. next = FoundAt(b, b.left[1]) /\ sent = {c \in FoundAt(b, b.left[1]) : Wants(b, c)}
  BY <1>3 DEF FoundAt, Wants
<1>5. \A x, y \in next : x = y
  <2>1. CASE b.byId
    BY <2>1, InStore DEF SubscriptionInv, StoreHoldsLive
  <2>2. CASE ~b.byId
    BY <2>2
  <2> QED BY <2>1, <2>2
<1>6. next \subseteq DOMAIN conns
  <2>1. CASE b.byId
    BY <2>1, InStore DEF SubscriptionInv, BrokerTyped
  <2>2. CASE ~b.byId
    BY <1>2, <1>3, <2>2 DEF Reaches
  <2> QED BY <2>1, <2>2
<1>7. \A c \in sent : ~conns[c].discarded
  OBVIOUS
<1>8. sent \in SUBSET Nat /\ \A x, y \in sent : x = y
  BY <1>5, <1>6, BrokerSeqs DEF SubscriptionInv
<1>9. (sent # {}) \in BOOLEAN
  OBVIOUS
<1> HIDE DEF next, sent
<1>10. conns' = conns
  <2>1. ASSUME NEW c \in DOMAIN conns, c \in sent PROVE [conns[c] EXCEPT !.late = @ \/ conns[c].discarded] = conns[c]
    <3>1. conns[c] \in Subscriber /\ conns[c].late = FALSE /\ conns[c].discarded = FALSE
      BY <1>7, <2>1, BrokerSeqs DEF SubscriptionInv, DiscardedHearNothing, Subscriber
    <3>2. (conns[c].late \/ conns[c].discarded) = conns[c].late
      BY <3>1
    <3>3. [conns[c] EXCEPT !.late = @ \/ conns[c].discarded] = [conns[c] EXCEPT !.late = @]
      BY <3>2
    <3> QED BY <3>1, <3>3 DEF Subscriber
  <2>2. conns = [c \in DOMAIN conns |-> conns[c]]
    BY LenProperties DEF SubscriptionInv, BrokerTyped
  <2> QED BY <1>1, <2>1, <2>2
<1>11. /\ q \in Seq(Nat) /\ Len(q) \in {0, 1} /\ \A i \in DOMAIN q : q[i] \in sent
       /\ \A x \in sent : \E i \in DOMAIN q : q[i] = x
  BY <1>8, SmallSeq
<1> HIDE DEF q
<1>12. b.heard \o q \in Seq(Nat)
  BY <1>3, <1>11, ConcatProperties
<1>13. /\ d \in Casting /\ d.topic = b.topic /\ d.byId = b.byId /\ d.due = b.due
       /\ d.left = Tail(b.left) /\ d.heard = b.heard \o q
  BY <1>2, <1>3, <1>9, <1>12 DEF Casting
<1> HIDE DEF d
<1>14. /\ \A i \in DOMAIN q : q[i] \in FoundAt(b, b.left[1]) /\ Wants(b, q[i])
       /\ \A c \in FoundAt(b, b.left[1]) : Wants(b, c) => \E i \in DOMAIN q : q[i] = c
  BY <1>4, <1>11
<1>15. Reaches(d)
  BY <1>1, <1>2, <1>11, <1>13, <1>14, GoesOn
<1> QED BY <1>1, <1>10, <1>13, <1>15, LastChanges

LEMMA HandlerEndsKeeps ==
  ASSUME SubscriptionInv, HandlerEnds
  PROVE  SubscriptionInv'
<1> DEFINE b == Last(casts)
           d == [b EXCEPT !.handling = FALSE]
<1>1. casts # <<>> /\ UNCHANGED <<conns, registered>> /\ casts' = [casts EXCEPT ![Len(casts)].handling = FALSE]
  BY DEF HandlerEnds
<1>2. casts' = [casts EXCEPT ![Len(casts)] = d]
  BY <1>1 DEF Last
<1>3. b \in Casting /\ Reaches(b)
  BY <1>1, LastCast
<1> HIDE DEF b
<1>4. /\ d \in Casting /\ d.topic = b.topic /\ d.byId = b.byId /\ d.due = b.due /\ d.left = b.left /\ d.heard = b.heard
  BY <1>3 DEF Casting
<1> HIDE DEF d
<1>5. Reaches(d)
  <2>1. \A c : Coming(b, c) <=> Coming(d, c)
    BY <1>4 DEF Coming
  <2> QED BY <1>3, <1>4, <2>1 DEF Reaches
<1> QED BY <1>1, <1>2, <1>4, <1>5, LastChanges

LEMMA BroadcastEndsKeeps ==
  ASSUME SubscriptionInv, BroadcastEnds
  PROVE  SubscriptionInv'
<1>1. casts # <<>> /\ UNCHANGED <<conns, registered>> /\ casts' = SubSeq(casts, 1, Len(casts) - 1)
  BY DEF BroadcastEnds, Front
<1>2. BrokerTyped /\ casts \in Seq(Casting) /\ Len(casts) \in Nat \ {0} /\ DOMAIN casts = 1..Len(casts)
  BY <1>1, LastCast DEF SubscriptionInv, BrokerTyped
<1>3. casts' \in Seq(Casting) /\ DOMAIN casts' \subseteq DOMAIN casts /\ \A i \in DOMAIN casts' : casts'[i] = casts[i]
  <2>1. 1 \in Int /\ Len(casts) - 1 \in Int /\ \A i \in 1..(Len(casts) - 1) : casts[i] \in Casting
    BY <1>2, BrokerSeqs
  <2>2. casts' \in Seq(Casting) /\ Len(casts') = Len(casts) - 1 /\ \A i \in 1..(Len(casts) - 1) : casts'[i] = casts[i]
    BY <1>1, <1>2, <2>1, SubSeqProperties
  <2>3. DOMAIN casts' = 1..(Len(casts) - 1)
    BY <2>2, LenProperties
  <2> QED BY <1>2, <2>2, <2>3
<1>4. \A x : Reaches(x)' <=> Reaches(x)
  BY <1>1 DEF Reaches, Coming, Holds, ClientById
<1>5. \A i \in DOMAIN casts' : Reaches(casts'[i])
  BY <1>3 DEF SubscriptionInv
<1>6. \A i \in DOMAIN casts' : Reaches(casts[i])'
  BY <1>4, <1>5
<1>7. BrokerTyped' /\ StoreHoldsLive' /\ DiscardedHearNothing'
  BY <1>1, <1>3 DEF SubscriptionInv, BrokerTyped, StoreHoldsLive, DiscardedHearNothing
<1> QED BY <1>6, <1>7 DEF SubscriptionInv

LEMMA BrokerBegins ==
  SubscriptionInit => SubscriptionInv
<1> SUFFICES ASSUME SubscriptionInit PROVE SubscriptionInv
  OBVIOUS
<1>1. conns = <<>> /\ registered = <<>> /\ casts = <<>>
  BY DEF SubscriptionInit
<1>2. DOMAIN conns = {} /\ DOMAIN registered = {} /\ DOMAIN casts = {}
  BY <1>1
<1>3. BrokerTyped
  BY <1>1, <1>2 DEF BrokerTyped
<1> QED BY <1>2, <1>3 DEF SubscriptionInv, StoreHoldsLive, DiscardedHearNothing

LEMMA BrokerKeeps ==
  SubscriptionInv /\ [SubscriptionNext]_subscriptionVars => SubscriptionInv'
<1> SUFFICES ASSUME SubscriptionInv, [SubscriptionNext]_subscriptionVars PROVE SubscriptionInv'
  OBVIOUS
<1>1. ASSUME NEW id \in ConnIds, RegisterConn(id) PROVE SubscriptionInv'
  BY <1>1, RegisterKeeps
<1>2. ASSUME NEW id \in ConnIds, Unregister(id) PROVE SubscriptionInv'
  BY <1>2, UnregisterKeeps
<1>3. ASSUME NEW c \in DOMAIN conns, NEW t \in Topics, NEW o \in Options, SubscribeTo(c, t, o) PROVE SubscriptionInv'
  BY <1>3, SubscribeKeeps
<1>4. ASSUME NEW c \in DOMAIN conns, NEW topics, UnsubscribeFrom(c, topics) PROVE SubscriptionInv'
  BY <1>4, UnsubscribeKeeps
<1>5. ASSUME NEW t \in Topics, Broadcast(t) PROVE SubscriptionInv'
  BY <1>5, BroadcastKeeps
<1>6. ASSUME NEW ids \in SetToSeqs(ConnIds), BroadcastTo(ids) PROVE SubscriptionInv'
  BY <1>6, BroadcastToKeeps
<1>7. CASE SendNext \/ HandlerEnds \/ BroadcastEnds
  BY <1>7, SendNextKeeps, HandlerEndsKeeps, BroadcastEndsKeeps
<1>8. CASE UNCHANGED subscriptionVars
  <2>1. UNCHANGED <<conns, registered, casts>>
    BY <1>8 DEF subscriptionVars
  <2>2. \A x : Reaches(x)' <=> Reaches(x)
    BY <2>1 DEF Reaches, Coming, Holds, ClientById
  <2>3. \A i \in DOMAIN casts' : Reaches(casts[i])'
    BY <2>1, <2>2 DEF SubscriptionInv
  <2>4. BrokerTyped' /\ StoreHoldsLive' /\ DiscardedHearNothing'
    BY <2>1 DEF SubscriptionInv, BrokerTyped, StoreHoldsLive, DiscardedHearNothing
  <2> QED BY <2>3, <2>4 DEF SubscriptionInv
<1> QED BY <1>1, <1>2, <1>3, <1>4, <1>5, <1>6, <1>7, <1>8 DEF SubscriptionNext

LEMMA ReachesAll ==
  SubscriptionInv => BroadcastsReach
<1> SUFFICES ASSUME SubscriptionInv, NEW i \in DOMAIN casts
             PROVE  /\ casts[i].left = <<>> => casts[i].due \subseteq ToSet(casts[i].heard)
                    /\ IsInjective(casts[i].heard)
  BY DEF BroadcastsReach
<1>1. Reaches(casts[i])
  BY DEF SubscriptionInv
<1>2. IsInjective(casts[i].heard)
  BY <1>1 DEF Reaches, IsInjective
<1>3. ASSUME casts[i].left = <<>> PROVE casts[i].due \subseteq ToSet(casts[i].heard)
  <2>1. DOMAIN casts[i].left = {}
    BY <1>3
  <2> QED BY <1>1, <2>1 DEF Reaches, Coming, ToSet
<1> QED BY <1>2, <1>3

\* A broadcast has reached, when it ends, every client that was there and wanted it all the time, and none
\* twice; nobody is sent anything once discarded, and the store holds only those that are not, for any
\* clients and topics and however handlers register, subscribe and broadcast themselves
\* (subscriptions/broker.ts).
THEOREM BroadcastsReachAll == SubscriptionSpec => []BroadcastsReach /\ []StoreHoldsLive /\ []DiscardedHearNothing
<1>1. SubscriptionInv => BroadcastsReach /\ StoreHoldsLive /\ DiscardedHearNothing
  BY ReachesAll DEF SubscriptionInv
<1> QED BY BrokerBegins, BrokerKeeps, <1>1, PTL DEF SubscriptionSpec

(***************************************************************************)
(* Records and their forms.                                                *)
(*                                                                         *)
(* A record keeps the values that it was read with, which until the first  *)
(* save are its row (ReadFrom).  Of a form, the password is the stored one *)
(* or as it was given, and who never had a superuser's body has the hidden *)
(* values of the start (OnlyRaised).                                       *)
(***************************************************************************)
RecordFields == {"id", "data", "original", "shown", "custom", "anyEmail", "onlyChanged", "isNew"}
ReadFrom(r) ==
    /\ DOMAIN r = RecordFields /\ DOMAIN r.original = FieldNames
    /\ "id" \in DOMAIN r.data => r.data["id"] = r.id
    /\ recordSaves = 0 => recordRow = r.original /\ r.original["id"] = r.id
RecordInv == recordSaves \in Nat /\ DOMAIN recordRow = FieldNames /\ ReadFrom(record)

LEMMA RecordBegins == RecordInit => RecordInv
<1> SUFFICES ASSUME RecordInit PROVE RecordInv
  OBVIOUS
<1> DEFINE r == RowToRecord(recordRow)
<1>1. DOMAIN recordRow = FieldNames /\ recordRow["id"] = "r1" /\ recordSaves = 0
  BY FieldTableAssumption DEF RecordInit, FieldNames
<1>2. /\ DOMAIN r = RecordFields /\ r.id = "r1" /\ DOMAIN r.data = FieldNames
      /\ \A k \in FieldNames : r.data[k] = recordRow[k]
  BY <1>1, FieldTableAssumption DEF RowToRecord, LoadData, NewRecord, RecordFields, Overlaid, NoData, FieldNames
<1> HIDE DEF r
<1>3. \A k \in FieldNames : GetRaw(r, k) = recordRow[k]
  BY <1>1, <1>2 DEF GetRaw
<1>4. FieldsData(r) = recordRow
  <2>1. recordRow = [k \in FieldNames |-> recordRow[k]]
    BY DEF RecordInit
  <2> QED BY <1>3, <2>1 DEF FieldsData
<1>5. record = PostScan(r)
  BY DEF RecordInit, r
<1>6. /\ DOMAIN record = RecordFields /\ record.original = recordRow /\ record.id = "r1" /\ record.data = r.data
  BY <1>2, <1>4, <1>5 DEF PostScan, RecordFields
<1> QED BY <1>1, <1>2, <1>6, FieldTableAssumption DEF RecordInv, ReadFrom, FieldNames

\* What the record is afterwards, if it keeps what it was read with.
LEMMA EditKeeps ==
  ASSUME RecordInv, NEW r, EditTo(r), DOMAIN r = RecordFields, r.original = record.original, r.id = record.id,
         "id" \in DOMAIN r.data => r.data["id"] = r.id
  PROVE  RecordInv'
BY DEF RecordInv, ReadFrom, EditTo

LEMMA CloneOf ==
  ASSUME RecordInv
  PROVE  LET c == Clone(record) IN
         /\ DOMAIN c = RecordFields /\ c.original = record.original /\ c.id = record.id /\ c.data = record.data
         /\ c.shown = record.shown /\ c.custom = record.custom /\ c.anyEmail = record.anyEmail
BY DEF RecordInv, ReadFrom, Clone, Original, NewRecord, RecordFields

LEMMA RecordKeeps ==
  RecordInv /\ [RecordNext]_recordVars => RecordInv'
<1> SUFFICES ASSUME RecordInv, [RecordNext]_recordVars PROVE RecordInv'
  OBVIOUS
<1>1. ASSUME NEW k \in (FieldNames \ {"id"}) \cup {"extra"}, NEW v, EditTo(SetRaw(record, k, v)) PROVE RecordInv'
  <2> DEFINE r == SetRaw(record, k, v)
  <2>1. k # "id"
    OBVIOUS
  <2>2. /\ DOMAIN r = RecordFields /\ r.original = record.original /\ r.id = record.id
        /\ r.data = Overlaid([x \in {k} |-> v], record.data)
    BY <2>1 DEF SetRaw, RecordInv, ReadFrom, RecordFields
  <2>3. "id" \in DOMAIN r.data => r.data["id"] = r.id
    BY <2>1, <2>2 DEF Overlaid, RecordInv, ReadFrom
  <2> HIDE DEF r
  <2> QED BY <1>1, <2>2, <2>3, EditKeeps DEF r
<1>2. ASSUME NEW k, NEW shown,
             EditTo([record EXCEPT !.shown = [x \in DOMAIN @ \cup {k} |-> IF x = k THEN shown ELSE @[x]]])
      PROVE  RecordInv'
  <2> DEFINE r == [record EXCEPT !.shown = [x \in DOMAIN @ \cup {k} |-> IF x = k THEN shown ELSE @[x]]]
  <2>1. DOMAIN r = RecordFields /\ r.original = record.original /\ r.id = record.id /\ r.data = record.data
    BY DEF RecordInv, ReadFrom, RecordFields
  <2> HIDE DEF r
  <2> QED BY <1>2, <2>1, EditKeeps DEF r, RecordInv, ReadFrom
<1>3. ASSUME NEW flag \in {"custom", "anyEmail", "onlyChanged"}, EditTo([record EXCEPT ![flag] = TRUE])
      PROVE  RecordInv'
  <2> DEFINE r == [record EXCEPT ![flag] = TRUE]
  <2>1. DOMAIN r = RecordFields /\ r.original = record.original /\ r.id = record.id /\ r.data = record.data
    BY DEF RecordInv, ReadFrom, RecordFields
  <2> HIDE DEF r
  <2> QED BY <1>3, <2>1, EditKeeps DEF r, RecordInv, ReadFrom
<1>4. CASE EditTo(Clone(record))
  BY <1>4, CloneOf, EditKeeps DEF RecordInv, ReadFrom
<1>5. CASE EditTo(Fresh(record))
  <2>1. /\ DOMAIN Fresh(record) = RecordFields /\ Fresh(record).original = record.original
        /\ Fresh(record).id = record.id /\ Fresh(record).data = FieldsData(record)
    BY DEF Fresh, Original, NewRecord, RecordFields
  <2>2. "id" \in DOMAIN FieldsData(record) => FieldsData(record)["id"] = record.id
    BY DEF FieldsData, GetRaw
  <2> QED BY <1>5, <2>1, <2>2, EditKeeps
<1>6. CASE SaveRecord
  <2>1. DbRow(record) = [k \in DOMAIN DbRow(record) |-> DbRow(record)[k]] /\ DOMAIN DbRow(record) \subseteq FieldNames
    BY DEF DbRow
  <2>2. DOMAIN recordRow' = FieldNames
    BY <1>6, <2>1 DEF SaveRecord, Overlaid, RecordInv
  <2>3. recordSaves' = 1 /\ record' = record
    BY <1>6 DEF SaveRecord
  <2> QED BY <2>2, <2>3 DEF RecordInv, ReadFrom
<1>7. CASE UNCHANGED recordVars
  BY <1>7 DEF RecordInv, ReadFrom, recordVars
<1> QED BY <1>1, <1>2, <1>3, <1>4, <1>5, <1>6, <1>7 DEF RecordNext, Edit

LEMMA ExportsHide == RecordInv => ExportHidesSecrets
<1> SUFFICES ASSUME RecordInv PROVE ExportHidesSecrets
  OBVIOUS
<1> DEFINE c == Clone(record)
<1>1. /\ c.original = record.original /\ c.id = record.id /\ c.data = record.data
      /\ c.shown = record.shown /\ c.custom = record.custom /\ c.anyEmail = record.anyEmail
  BY CloneOf
<1> HIDE DEF c
<1>2. (\A k : GetRaw(c, k) = GetRaw(record, k)) /\ CustomData(c) = CustomData(record)
      /\ (\A k : Visible(c, k) = Visible(record, k)) /\ (GetBool(c, "emailVisibility") <=> GetBool(record, "emailVisibility"))
  BY <1>1 DEF GetRaw, CustomData, Visible, GetBool
<1>3. PublicExport(c) = PublicExport(record)
  BY <1>1, <1>2 DEF PublicExport
<1>4. PublicExport(record)["id"] = record.id
  BY DEF PublicExport, GetRaw
<1>5. IsAuth => DOMAIN PublicExport(record) \cap {"password", "tokenKey"} = {}
  BY DEF PublicExport
<1>6. IsAuth /\ ~record.anyEmail /\ ~GetBool(record, "emailVisibility") => "email" \notin DOMAIN PublicExport(record)
  BY DEF PublicExport
<1> QED BY <1>3, <1>4, <1>5, <1>6 DEF ExportHidesSecrets, c

LEMMA SavesAll == RecordInv => SaveWritesAll
<1> SUFFICES ASSUME RecordInv, recordSaves = 0
             PROVE  Overlaid(DbRow(record), recordRow) = FieldsData(record)
  BY DEF SaveWritesAll
<1> DEFINE w == DbRow(record)
<1>1. DOMAIN w \subseteq FieldNames /\ \A k \in DOMAIN w : w[k] = GetRaw(record, k)
  BY DEF DbRow
<1>2. \A k \in FieldNames \ DOMAIN w : k # "id" /\ GetRaw(record, k) = GetRaw(Original(record), k)
  BY DEF DbRow
<1>3. \A k \in FieldNames \ {"id"} : GetRaw(Original(record), k) = recordRow[k]
  <2>1. Original(record).data = NoData /\ Original(record).original = recordRow /\ DOMAIN recordRow = FieldNames
    BY DEF Original, NewRecord, RecordInv, ReadFrom
  <2>2. DOMAIN NoData = {}
    BY DEF NoData
  <2> QED BY <2>1, <2>2 DEF GetRaw
<1> HIDE DEF w
<1>4. DOMAIN w \cup DOMAIN recordRow = FieldNames
  BY <1>1 DEF RecordInv
<1>5. \A k \in FieldNames : (IF k \in DOMAIN w THEN w[k] ELSE recordRow[k]) = GetRaw(record, k)
  BY <1>1, <1>2, <1>3
<1> QED BY <1>4, <1>5 DEF Overlaid, FieldsData, w

\* Whatever of a record is hidden, shown, set and copied, clients see no password, no token key and no
\* email its owner keeps, a copy shows what the record shows, and its first save brings the row in line
\* with it even when only what changed is written: for any fields, values and number of edits
\* (record_model.ts).
THEOREM RecordsShowNoSecrets == RecordSpec => []ExportHidesSecrets /\ []SaveWritesAll
BY RecordBegins, RecordKeeps, ExportsHide, SavesAll, PTL DEF RecordSpec

FormFieldNames == {"isNew", "level", "original", "values", "stored", "pass", "password", "passwordConfirm", "oldPassword"}
OnlyRaised ==
    raised # FormLevels.superuser => \A k \in {f \in DOMAIN FormFields : FormFields[f]} : form.values[k] = form.original[k]
FormInv ==
    /\ DOMAIN form = FormFieldNames /\ form.isNew \in BOOLEAN /\ form.level \in 0..2 /\ raised \in 0..2
    /\ DOMAIN form.values = DOMAIN FormFields
    /\ DOMAIN form.pass = {"plain", "hash"} /\ form.pass = [plain |-> form.pass.plain, hash |-> form.pass.hash]
    /\ form.pass = form.stored \/ form.pass.plain = form.pass.hash
    /\ form.stored.plain = Blank /\ (form.isNew => form.stored = NoPassword)
    /\ OnlyRaised
    /\ formOutcome = "saved" => ChangeErrors = {} /\ PasswordFieldErrors = {}

LEMMA FormBegins == FormInit => FormInv
<1> SUFFICES ASSUME FormInit PROVE FormInv
  OBVIOUS
<1> DEFINE fieldsOf(new) == [k \in DOMAIN FormFields |-> IF new THEN Blank ELSE "stored"]
           passOf(new) == IF new THEN NoPassword ELSE [plain |-> Blank, hash |-> "p0"]
<1>1. PICK new \in BOOLEAN :
         form = [isNew |-> new, level |-> 0, original |-> fieldsOf(new), values |-> fieldsOf(new),
                 stored |-> passOf(new), pass |-> passOf(new),
                 password |-> Blank, passwordConfirm |-> Blank, oldPassword |-> Blank]
  BY DEF FormInit
<1> DEFINE fields == fieldsOf(new)
           pass == passOf(new)
<1>2. DOMAIN fields = DOMAIN FormFields
  OBVIOUS
<1>3. /\ DOMAIN pass = {"plain", "hash"} /\ pass = [plain |-> pass.plain, hash |-> pass.hash] /\ pass.plain = Blank
      /\ new => pass = NoPassword
  BY DEF NoPassword
<1> HIDE DEF fields, pass
<1>4. /\ DOMAIN form = FormFieldNames /\ form.isNew = new /\ form.level = 0 /\ form.original = fields
      /\ form.values = fields /\ form.stored = pass /\ form.pass = pass
  <2>1. form = [isNew |-> new, level |-> 0, original |-> fields, values |-> fields, stored |-> pass, pass |-> pass,
                password |-> Blank, passwordConfirm |-> Blank, oldPassword |-> Blank]
    BY <1>1 DEF fields, pass
  <2> QED BY <2>1 DEF FormFieldNames
<1>5. formOutcome = "open" /\ raised = 0
  BY DEF FormInit
<1>6. OnlyRaised
  BY <1>4 DEF OnlyRaised
<1> QED BY <1>2, <1>3, <1>4, <1>5, <1>6 DEF FormInv

LEMMA SuperuserIsTwo == FormLevels.superuser = 2
BY DEF FormLevels

LEMMA FormKeeps ==
  FormInv /\ [FormNext]_formVars => FormInv'
<1> SUFFICES ASSUME FormInv, [FormNext]_formVars PROVE FormInv'
  OBVIOUS
<1>1. ASSUME NEW level \in 0..2, GrantAccess(level) PROVE FormInv'
  <2>1. /\ DOMAIN form' = FormFieldNames /\ form'.level = level /\ form'.isNew = form.isNew
        /\ form'.original = form.original /\ form'.values = form.values /\ form'.stored = form.stored
        /\ form'.pass = form.pass
    BY <1>1 DEF GrantAccess, FormInv, FormFieldNames
  <2>2. formOutcome' # "saved" /\ raised' = raised
    BY <1>1 DEF GrantAccess, FormStep
  <2> QED BY <2>1, <2>2 DEF FormInv, OnlyRaised
<1>2. ASSUME NEW body, LoadBody(body) PROVE FormInv'
  <2> DEFINE hidden(k) == form.level # FormLevels.superuser /\ FormFields[k]
             vs == [k \in DOMAIN FormFields |-> IF k \in DOMAIN body /\ hidden(k) THEN form.original[k]
                                                ELSE Said(body, k, form.values[k])]
             pass == IF "password" \in DOMAIN body THEN [plain |-> body.password, hash |-> body.password] ELSE form.pass
  <2>1. /\ DOMAIN form' = FormFieldNames /\ form'.level = form.level /\ form'.isNew = form.isNew
        /\ form'.original = form.original /\ form'.stored = form.stored
        /\ form'.values = vs /\ form'.pass = pass
    BY <1>2 DEF LoadBody, FormInv, FormFieldNames
  <2>2. formOutcome' # "saved" /\ raised' = IF form.level > raised THEN form.level ELSE raised
    BY <1>2 DEF LoadBody, FormStep
  <2>3. /\ DOMAIN pass = {"plain", "hash"} /\ pass = [plain |-> pass.plain, hash |-> pass.hash]
        /\ pass = form.stored \/ pass.plain = pass.hash
    BY DEF FormInv
  <2>4. ASSUME raised' # FormLevels.superuser, NEW k \in DOMAIN FormFields, FormFields[k]
        PROVE  vs[k] = form.original[k]
    <3>1. raised # FormLevels.superuser /\ form.level # FormLevels.superuser
      BY <2>2, <2>4, SuperuserIsTwo DEF FormInv
    <3>2. form.values[k] = form.original[k]
      BY <2>4, <3>1 DEF FormInv, OnlyRaised
    <3> QED BY <2>4, <3>1, <3>2 DEF Said
  <2>5. DOMAIN vs = DOMAIN FormFields
    OBVIOUS
  <2>6. raised' \in 0..2
    BY <2>2 DEF FormInv
  <2> HIDE DEF vs, pass
  <2>7. OnlyRaised'
    BY <2>1, <2>4 DEF OnlyRaised, FormLevels
  <2> QED BY <2>1, <2>2, <2>3, <2>5, <2>6, <2>7 DEF FormInv
<1>3. CASE SetPasswordDirectly("p2")
  <2>1. /\ DOMAIN form' = FormFieldNames /\ form'.level = form.level /\ form'.isNew = form.isNew
        /\ form'.original = form.original /\ form'.values = form.values /\ form'.stored = form.stored
        /\ form'.pass = [plain |-> "p2", hash |-> "p2"]
    BY <1>3 DEF SetPasswordDirectly, FormInv, FormFieldNames
  <2>2. formOutcome' # "saved" /\ raised' = raised
    BY <1>3 DEF SetPasswordDirectly, FormStep
  <2>3. /\ form'.pass.plain = "p2" /\ form'.pass.hash = "p2" /\ DOMAIN form'.pass = {"plain", "hash"}
    BY <2>1
  <2>4. OnlyRaised'
    BY <2>1, <2>2 DEF OnlyRaised, FormInv
  <2> QED BY <2>1, <2>2, <2>3, <2>4 DEF FormInv
<1>4. CASE Submit
  <2>1. form' = form /\ raised' = raised /\ (formOutcome' = "saved" => ChangeErrors \cup PasswordFieldErrors = {})
    BY <1>4 DEF Submit
  <2>2. ChangeErrors' = ChangeErrors /\ PasswordFieldErrors' = PasswordFieldErrors
    BY <2>1 DEF ChangeErrors, PasswordFieldErrors, PasswordUnchecked, HasManageAccess
  <2> QED BY <2>1, <2>2 DEF FormInv, OnlyRaised
<1>5. CASE UNCHANGED formVars
  BY <1>5 DEF FormInv, OnlyRaised, formVars, ChangeErrors, PasswordFieldErrors, PasswordUnchecked, HasManageAccess
<1> QED BY <1>1, <1>2, <1>3, <1>4, <1>5 DEF FormNext

\* What a form without errors was given, if it gave the password it sets.
LEMMA NothingWrong ==
  ASSUME PasswordFieldErrors = {}, ~PasswordUnchecked
  PROVE  /\ form.isNew \/ form.passwordConfirm # Blank \/ form.oldPassword # Blank => form.password # Blank
         /\ form.password # Blank => form.passwordConfirm = form.password
         /\ form.password # Blank /\ ~form.isNew /\ ~HasManageAccess => form.oldPassword # Blank
         /\ form.oldPassword # Blank => form.oldPassword = form.stored.hash
<1> DEFINE given(k) == form[k] # Blank
           wrong == [password |-> /\ form.isNew \/ given("passwordConfirm") \/ given("oldPassword")
                                  /\ ~given("password"),
                     passwordConfirm |->
                         \/ (form.isNew \/ given("password") \/ given("oldPassword")) /\ ~given("passwordConfirm")
                         \/ given("password") /\ given("passwordConfirm") /\ form.password # form.passwordConfirm,
                     oldPassword |->
                         \/ /\ ~form.isNew /\ ~HasManageAccess /\ ~given("oldPassword")
                            /\ given("password") \/ given("passwordConfirm")
                         \/ given("oldPassword") /\ form.oldPassword # form.stored.hash]
<1>1. \A k \in {"password", "passwordConfirm", "oldPassword"} : ~wrong[k]
  BY DEF PasswordFieldErrors
<1>2. ~wrong["password"] /\ ~wrong["passwordConfirm"] /\ ~wrong["oldPassword"]
  BY <1>1
<1> QED BY <1>2

LEMMA FormsAreSound == FormInv => FormProtects /\ NewHasPassword
<1> SUFFICES ASSUME FormInv, formOutcome = "saved" PROVE FormProtects /\ NewHasPassword
  BY DEF FormProtects, NewHasPassword
<1>1. ChangeErrors = {} /\ PasswordFieldErrors = {}
  BY DEF FormInv
<1>2. ASSUME ~form.isNew, ~HasManageAccess, NEW k \in {"email", "verified"} PROVE form.values[k] = form.original[k]
  BY <1>1, <1>2 DEF ChangeErrors
<1>3. ASSUME ~form.isNew, ~HasManageAccess, form.pass \notin {form.stored, NoPassword}, form.pass.plain = form.password
      PROVE  form.oldPassword = form.stored.hash /\ form.passwordConfirm = form.pass.plain
  <2>1. form.pass.plain = form.pass.hash /\ form.pass = [plain |-> form.pass.plain, hash |-> form.pass.hash]
    BY <1>3 DEF FormInv
  <2>2. form.pass.plain # Blank
    BY <1>3, <2>1 DEF NoPassword
  <2>3. ~PasswordUnchecked
    BY <1>3, <2>2 DEF PasswordUnchecked
  <2> QED BY <1>1, <1>3, <2>2, <2>3, NothingWrong
<1>4. ASSUME form.isNew, form.pass.plain = form.password
      PROVE  form.pass.plain # Blank /\ form.pass.plain = form.passwordConfirm
  <2>1. CASE PasswordUnchecked
    <3>1. form.pass.plain = Blank /\ form.pass.hash # Blank
      BY <1>4, <2>1 DEF PasswordUnchecked
    <3>2. form.pass = NoPassword
      BY <1>4, <3>1 DEF FormInv
    <3>3. form.pass.hash = Blank
      BY <3>2 DEF NoPassword
    <3> QED BY <3>1, <3>3
  <2>2. CASE ~PasswordUnchecked
    BY <1>1, <1>4, <2>2, NothingWrong
  <2> QED BY <2>1, <2>2
<1> QED BY <1>2, <1>3, <1>4 DEF FormProtects, NewHasPassword, FormInv, OnlyRaised

\* A saved form of a stored account has changed neither its email nor its verification without manager
\* access, no hidden field without a superuser's body, and its password only with the old one, twice
\* the same, or by the server's own hand; that of a new account has a password so: for any fields,
\* bodies and number of calls (record_upsert.ts).
THEOREM FormsProtect == FormSpec => []FormProtects /\ []NewHasPassword
BY FormBegins, FormKeeps, FormsAreSound, PTL DEF FormSpec

\* What is written whole has all fields; a token is signed with the secret of its type.
TokenTypes == {"auth", "passwordReset", "verification"}
UserInv ==
    /\ DOMAIN held = Askers
    /\ \A p \in Askers : held[p].op # "none" => held[p].record.isNew
    /\ RowsStayTheirs
    /\ \A t \in userTokens : t.type \in TokenTypes /\ \E v : t.key = KeyText(v) \o TokenSecret[t.type]

LEMMA WrittenWhole ==
  ASSUME NEW r, r.isNew, NEW id
  PROVE  DOMAIN WithKey(DbRow(r), id) = FieldNames /\ WithKey(DbRow(r), id).id = id
<1>1. DOMAIN DbRow(r) = FieldNames
  BY DEF DbRow
<1> QED BY <1>1, FieldTableAssumption DEF WithKey, FieldNames

LEMMA LoadedAsNew ==
  ASSUME NEW fields, NEW row
  PROVE  LoadData(NewRecord, fields).isNew /\ LoadData(RowToRecord(row), fields).isNew
BY DEF LoadData, RowToRecord, NewRecord

\* A row that is written whole.
LEMMA RowSet ==
  ASSUME RowsStayTheirs, NEW id, NEW fields, SetRow(id, fields), DOMAIN fields = FieldNames, fields.id = id,
         removed' \subseteq removed, id \notin removed'
  PROVE  RowsStayTheirs'
<1>1. DOMAIN users' = DOMAIN users \cup {id} /\ \A u \in DOMAIN users' : users'[u] = IF u = id THEN fields ELSE users[u]
  BY DEF SetRow
<1> QED BY <1>1 DEF RowsStayTheirs

LEMMA TokenSigned ==
  ASSUME NEW id, NEW type \in TokenTypes
  PROVE  LET t == NewToken(id, type) IN t.type \in TokenTypes /\ \E v : t.key = KeyText(v) \o TokenSecret[t.type]
BY DEF NewToken, SigningKey

LEMMA OneTokenKeeps ==
  ASSUME UserInv, NEW id, NEW type \in TokenTypes, userTokens' = userTokens \cup {NewToken(id, type)},
         UNCHANGED <<users, held, removed>>
  PROVE  UserInv'
<1> DEFINE token == NewToken(id, type)
<1>1. token.type \in TokenTypes /\ \E v : token.key = KeyText(v) \o TokenSecret[token.type]
  BY TokenSigned
<1> HIDE DEF token
<1>2. \A t \in userTokens' : t.type \in TokenTypes /\ \E v : t.key = KeyText(v) \o TokenSecret[t.type]
  BY <1>1, Zenon DEF UserInv, token
<1>3. DOMAIN held' = Askers /\ (\A p \in Askers : held'[p].op # "none" => held'[p].record.isNew) /\ RowsStayTheirs'
  BY DEF UserInv, RowsStayTheirs
<1> QED BY <1>2, <1>3, Zenon DEF UserInv

LEMMA NoTokenKeeps ==
  UserInv /\ UNCHANGED <<users, held, removed, userTokens>> => UserInv'
BY DEF UserInv, RowsStayTheirs

LEMMA RequestTokenKeeps ==
  ASSUME UserInv, NEW email, NEW type \in TokenTypes, RequestToken(email, type)
  PROVE  UserInv'
BY OneTokenKeeps, NoTokenKeeps DEF RequestToken

LEMMA CreateUserKeeps ==
  ASSUME UserInv, NEW fields, NEW id, NEW super \in BOOLEAN, CreateUser(fields, id, super)
  PROVE  UserInv'
<1> DEFINE new == LoadData(NewRecord, fields)
           key == IF new.id = Blank THEN id ELSE new.id
<1>1. SetRow(key, WithKey(DbRow(new), key)) /\ removed' = removed \ {key} /\ UNCHANGED <<held, userTokens>>
  BY DEF CreateUser
<1>2. new.isNew
  BY LoadedAsNew
<1> HIDE DEF new, key
<1>3. RowsStayTheirs'
  BY <1>1, <1>2, WrittenWhole, RowSet DEF UserInv
<1> QED BY <1>1, <1>3 DEF UserInv

LEMMA ReadUserKeeps ==
  ASSUME UserInv, NEW p \in Askers, NEW id, NEW op, NEW fields, NEW super \in BOOLEAN, ReadUser(p, id, op, fields, super)
  PROVE  UserInv'
<1> DEFINE h == [op |-> op, id |-> id, record |-> LoadData(RowToRecord(users[id]), fields)]
<1>1. held' = [held EXCEPT ![p] = h] /\ UNCHANGED <<users, userTokens, removed>>
  BY DEF ReadUser
<1>2. h.record.isNew
  BY LoadedAsNew
<1> HIDE DEF h
<1> QED BY <1>1, <1>2 DEF UserInv, RowsStayTheirs

LEMMA AnsweredKeeps ==
  ASSUME UserInv, NEW p \in Askers, UserAnswered(p), RowsStayTheirs'
  PROVE  UserInv'
BY DEF UserInv, UserAnswered, NothingAsked

LEMMA UpdateUserKeeps ==
  ASSUME UserInv, NEW p \in Askers, UpdateUser(p)
  PROVE  UserInv'
<1>1. UserAnswered(p) /\ removed' = removed /\ held[p].record.isNew
  BY DEF UpdateUser, UserInv
<1>2. CASE held[p].id \in DOMAIN users /\ SetRow(held[p].id, WithKey(DbRow(held[p].record), held[p].id))
  <2>1. held[p].id \notin removed
    BY <1>2 DEF UserInv, RowsStayTheirs
  <2> QED BY <1>1, <1>2, <2>1, WrittenWhole, RowSet, AnsweredKeeps DEF UserInv
<1>3. CASE UNCHANGED users
  BY <1>1, <1>3, AnsweredKeeps DEF UserInv, RowsStayTheirs
<1> QED BY <1>2, <1>3 DEF UpdateUser

LEMMA DeleteUserKeeps ==
  ASSUME UserInv, NEW p \in Askers, DeleteUser(p)
  PROVE  UserInv'
<1>1. /\ DOMAIN users' = DOMAIN users \ {held[p].id} /\ \A u \in DOMAIN users' : users'[u] = users[u]
      /\ removed' = removed \cup ({held[p].id} \cap DOMAIN users) /\ UserAnswered(p)
  BY DEF DeleteUser
<1>2. RowsStayTheirs'
  BY <1>1 DEF UserInv, RowsStayTheirs
<1> QED BY <1>1, <1>2, AnsweredKeeps

LEMMA UsersBegin == UserInit => UserInv
BY DEF UserInit, UserInv, RowsStayTheirs, NothingAsked

LEMMA UsersKeep ==
  UserInv /\ [UserNext]_userVars => UserInv'
<1> SUFFICES ASSUME UserInv, [UserNext]_userVars PROVE UserInv'
  OBVIOUS
<1>1. ASSUME NEW id \in UserIds, NEW super \in BOOLEAN, NEW fields, CreateUser(fields, id, super) PROVE UserInv'
  BY <1>1, CreateUserKeeps
<1>2. ASSUME NEW id \in UserIds, NEW super \in BOOLEAN, NEW p \in Askers, NEW op, NEW fields,
             ReadUser(p, id, op, fields, super)
      PROVE  UserInv'
  BY <1>2, ReadUserKeeps
<1>3. ASSUME NEW p \in Askers, UpdateUser(p) \/ DeleteUser(p) PROVE UserInv'
  BY <1>3, UpdateUserKeeps, DeleteUserKeeps
<1>4. ASSUME NEW email, NEW password, AuthWithPassword(email, password) PROVE UserInv'
  BY <1>4, OneTokenKeeps DEF AuthWithPassword, TokenTypes
<1>5. ASSUME NEW email, RequestPasswordReset(email) \/ RequestVerification(email) PROVE UserInv'
  BY <1>5, RequestTokenKeeps DEF RequestPasswordReset, RequestVerification, TokenTypes
<1>6. ASSUME NEW id \in UserIds, Impersonate(id) PROVE UserInv'
  BY <1>6, OneTokenKeeps DEF Impersonate, TokenTypes
<1>7. CASE UNCHANGED userVars
  BY <1>7, NoTokenKeeps DEF userVars
<1> QED BY <1>1, <1>2, <1>3, <1>4, <1>5, <1>6, <1>7 DEF UserNext

\* One text is the end of another; the secrets of two kinds of token are not.
EndsWith(text, end) ==
    Len(end) <= Len(text) /\ \A i \in 1..Len(end) : end[i] = text[Len(text) - Len(end) + i]
SecretsApart == \A s, t \in TokenTypes : EndsWith(TokenSecret[s], TokenSecret[t]) => s = t

\* What stands in the second part of a whole.
LEMMA SecondPart ==
  ASSUME NEW S, NEW a \in Seq(S), NEW b \in Seq(S), NEW i \in 1..Len(b)
  PROVE  (a \o b)[Len(a) + i] = b[i]
OBVIOUS

\* Of two texts that end the same whole, one is the end of the other.
LEMMA EndsOfOne ==
  ASSUME NEW S, NEW a \in Seq(S), NEW b \in Seq(S), NEW c \in Seq(S), NEW d \in Seq(S), a \o b = c \o d,
         Len(b) <= Len(d)
  PROVE  EndsWith(d, b)
<1>1. /\ Len(a) + Len(b) = Len(c) + Len(d)
      /\ Len(a) \in Nat /\ Len(b) \in Nat /\ Len(c) \in Nat /\ Len(d) \in Nat
  <2>1. Len(a \o b) = Len(a) + Len(b) /\ Len(c \o d) = Len(c) + Len(d)
    OBVIOUS
  <2> QED BY <2>1
<1>2. ASSUME NEW i \in 1..Len(b) PROVE b[i] = d[Len(d) - Len(b) + i]
  <2>1. (a \o b)[Len(a) + i] = b[i]
    BY <1>2, SecondPart
  <2>2. (c \o d)[Len(c) + (Len(d) - Len(b) + i)] = d[Len(d) - Len(b) + i]
    <3>1. Len(d) - Len(b) + i \in 1..Len(d)
      BY <1>1, <1>2
    <3> QED BY <3>1, SecondPart
  <2>3. Len(c) + (Len(d) - Len(b) + i) = Len(a) + i
    <3> DEFINE la == Len(a)  lb == Len(b)  lc == Len(c)  ld == Len(d)
    <3>1. la + lb = lc + ld /\ la \in Nat /\ lb \in Nat /\ lc \in Nat /\ ld \in Nat /\ i \in Int
      BY <1>1, <1>2
    <3> HIDE DEF la, lb, lc, ld
    <3>2. lc + (ld - lb + i) = la + i
      BY <3>1
    <3> QED BY <3>2 DEF la, lb, lc, ld
  <2> QED BY <2>1, <2>2, <2>3
<1> QED BY <1>2 DEF EndsWith

\* However reads, writes and deletions of a row overlap, a row stays under its own id, and one that was
\* deleted comes back only by being created: for any rows, bodies and requests (record_crud.ts).  Where
\* no secret is the end of another, as with generated ones, no token's key fits a token of another
\* kind (record_tokens.ts: buildSigningKey puts the secret after the account's key).
THEOREM RowsAndTokensAreApart == SecretsApart => (UserSpec => []RowsStayTheirs /\ []TokensAreApart)
<1> SUFFICES ASSUME SecretsApart PROVE UserSpec => []RowsStayTheirs /\ []TokensAreApart
  OBVIOUS
<1>1. UserInv => RowsStayTheirs /\ TokensAreApart
  <2>1. ASSUME UserInv, NEW s \in userTokens, NEW t \in userTokens, s.key = t.key PROVE s.type = t.type
    <3>1. PICK v : s.key = KeyText(v) \o TokenSecret[s.type]
      BY <2>1 DEF UserInv
    <3>2. PICK w : t.key = KeyText(w) \o TokenSecret[t.type]
      BY <2>1 DEF UserInv
    <3> DEFINE Symbols == STRING \cup {v, w}
    <3>3. KeyText(v) \in Seq(Symbols) /\ KeyText(w) \in Seq(Symbols)
      <4>1. KeyText(v) \in {<<>>, <<v>>} /\ KeyText(w) \in {<<>>, <<w>>}
        BY Zenon DEF KeyText
      <4>2. {<<>>, <<v>>, <<w>>} \subseteq Seq(Symbols)
        OBVIOUS
      <4> QED BY <4>1, <4>2, Zenon
    <3>4. s.type \in TokenTypes /\ t.type \in TokenTypes
      BY <2>1 DEF UserInv
    <3>5. TokenSecret[s.type] \in Seq(Symbols) /\ TokenSecret[t.type] \in Seq(Symbols)
      <4>1. TokenSecret[s.type] \in Seq(STRING) /\ TokenSecret[t.type] \in Seq(STRING)
        BY <3>4, TokenSecretAssumption DEF TokenTypes
      <4> QED BY <4>1
    <3> HIDE DEF Symbols
    <3>6. \/ EndsWith(TokenSecret[s.type], TokenSecret[t.type])
          \/ EndsWith(TokenSecret[t.type], TokenSecret[s.type])
      <4>1. Len(TokenSecret[s.type]) \in Nat /\ Len(TokenSecret[t.type]) \in Nat
        BY <3>5
      <4> DEFINE a == KeyText(v)  b == TokenSecret[s.type]  c == KeyText(w)  d == TokenSecret[t.type]
      <4>2. a \o b = c \o d /\ c \o d = a \o b
        BY <2>1, <3>1, <3>2
      <4>3. a \in Seq(Symbols) /\ b \in Seq(Symbols) /\ c \in Seq(Symbols) /\ d \in Seq(Symbols)
        BY <3>3, <3>5
      <4> HIDE DEF a, b, c, d
      <4>4. CASE Len(b) <= Len(d)
        <5>1. EndsWith(d, b)
          BY <4>2, <4>3, <4>4, EndsOfOne
        <5> QED BY <5>1 DEF b, d
      <4>5. CASE Len(d) <= Len(b)
        <5>1. EndsWith(b, d)
          BY <4>2, <4>3, <4>5, EndsOfOne
        <5> QED BY <5>1 DEF b, d
      <4>6. Len(b) <= Len(d) \/ Len(d) <= Len(b)
        BY <4>1 DEF b, d
      <4> QED BY <4>4, <4>5, <4>6
    <3> QED BY <3>4, <3>6 DEF SecretsApart
  <2> QED BY <2>1 DEF UserInv, TokensAreApart
<1> QED BY UsersBegin, UsersKeep, <1>1, PTL DEF UserSpec

(***************************************************************************)
(* Collections.                                                            *)
(*                                                                         *)
(* Options that are stored are whole and without secrets of providers      *)
(* (StoredOptions), and what a request holds between its database calls    *)
(* has whole options or none (HoldsOptions).                               *)
(***************************************************************************)
Sections == {"authToken", "passwordAuth", "oauth2", "mfa", "otp", "authAlert"}
WholeOptions(o) == DOMAIN o = Sections /\ DOMAIN o.oauth2 = {"enabled", "clientSecret", "twice"}
StoredOptions(row) ==
    row.options # NoOptions =>
        row.type = "auth" /\ WholeOptions(row.options) /\ row.options.oauth2.clientSecret = EmptyText
HoldsOptions(c) == c.options = NoOptions \/ WholeOptions(c.options)
SameSecrets(w) ==
    "options" \notin DOMAIN w.body /\ w.row.options # NoOptions /\ w.c.type = "auth" =>
       /\ DbExport(w.c).options.authToken = w.row.options.authToken
       /\ OptionErrors(w.row.options) = {} => OptionErrors(DbExport(w.c).options) = {}

ImportEntries == UNION {ToSet(import.entries) : import \in Imports}
ImportOK(w) ==
    /\ DOMAIN w = IF w.op = "look" THEN {"op", "left", "import"} ELSE {"op", "left", "import", "c", "exists"}
    /\ w.left \in Seq(ImportEntries)
    /\ w.op = "import" => HoldsOptions(w.c)
Holding(w) ==
    /\ w.op \in {"none", "patch", "delete", "look", "import", "sweep"}
    /\ w.op = "patch" => HoldsOptions(w.c) /\ SameSecrets(w)
    /\ w.op \in {"look", "import"} => ImportOK(w)
    /\ w.op = "sweep" => DOMAIN w = {"op", "gone"}
CollectionInv ==
    /\ \A id \in DOMAIN collections : StoredOptions(collections[id])
    /\ DOMAIN patching = Patchers /\ \A p \in Patchers : Holding(patching[p])

LEMMA DefaultsWhole ==
  ASSUME NEW secret
  PROVE  WholeOptions(OptionDefaults(secret))
BY DEF OptionDefaults, WholeOptions, Sections

LEMMA ReadWhole ==
  ASSUME NEW json, NEW secret, "oauth2" \in DOMAIN json => DOMAIN json.oauth2 = {"enabled", "clientSecret", "twice"}
  PROVE  /\ WholeOptions(FromJSON(json, secret))
         /\ \A s \in Sections \cap DOMAIN json : FromJSON(json, secret)[s] = json[s]
<1> DEFINE d == OptionDefaults(secret)
           f == FromJSON(json, secret)
<1>1. WholeOptions(d)
  BY DefaultsWhole
<1> HIDE DEF d
<1>2. DOMAIN f = Sections /\ \A s \in Sections : f[s] = IF s \in DOMAIN json THEN json[s] ELSE d[s]
  BY <1>1 DEF FromJSON, Given, WholeOptions, d
<1>3. f.oauth2 = IF "oauth2" \in DOMAIN json THEN json.oauth2 ELSE d.oauth2
  BY <1>2 DEF Sections
<1> HIDE DEF f
<1>4. DOMAIN f.oauth2 = {"enabled", "clientSecret", "twice"}
  BY <1>1, <1>3 DEF WholeOptions
<1> QED BY <1>2, <1>4 DEF WholeOptions, f

LEMMA Written ==
  ASSUME NEW o, WholeOptions(o)
  PROVE  /\ WholeOptions(ToJSON(o)) /\ ToJSON(o).oauth2.clientSecret = EmptyText
         /\ \A s \in Sections \ {"oauth2"} : ToJSON(o)[s] = o[s]
         /\ ToJSON(o).oauth2.enabled = o.oauth2.enabled /\ ToJSON(o).oauth2.twice = o.oauth2.twice
BY DEF WholeOptions, ToJSON, Sections

LEMMA SameErrors ==
  ASSUME NEW o, NEW q, \A s \in Sections \ {"oauth2"} : o[s] = q[s], o.oauth2.enabled = q.oauth2.enabled,
         o.oauth2.twice = q.oauth2.twice
  PROVE  OptionErrors(o) = OptionErrors(q)
<1>1. /\ o.authToken = q.authToken /\ o.passwordAuth = q.passwordAuth /\ o.mfa = q.mfa /\ o.otp = q.otp
      /\ o.authAlert = q.authAlert
  BY DEF Sections
<1>2. /\ TokenErrors(o) = TokenErrors(q) /\ PasswordErrors(o) = PasswordErrors(q) /\ MfaErrors(o) = MfaErrors(q)
      /\ OtpErrors(o) = OtpErrors(q) /\ OAuth2Errors(o) = OAuth2Errors(q) /\ AlertErrors(o) = AlertErrors(q)
  BY <1>1 DEF TokenErrors, PasswordErrors, MfaErrors, OtpErrors, OAuth2Errors, AlertErrors
<1>3. {s \in {"passwordAuth", "oauth2", "otp"} : o[s].enabled} = {s \in {"passwordAuth", "oauth2", "otp"} : q[s].enabled}
  BY <1>1
<1>4. o.mfa.enabled = q.mfa.enabled
  BY <1>1
<1> QED BY <1>2, <1>3, <1>4 DEF OptionErrors

LEMMA ExportStores ==
  ASSUME NEW c, HoldsOptions(c)
  PROVE  StoredOptions(DbExport(c))
<1>1. CASE c.type = "auth" /\ c.options # NoOptions
  BY <1>1, Written DEF HoldsOptions, StoredOptions, DbExport
<1>2. CASE ~(c.type = "auth" /\ c.options # NoOptions)
  BY <1>2 DEF StoredOptions, DbExport
<1> QED BY <1>1, <1>2

LEMMA LoadHolds ==
  ASSUME NEW c, HoldsOptions(c), NEW body, ProvidersWhole(body), NEW secret
  PROVE  HoldsOptions(LoadFromJSON(c, body, secret))
<1>1. "options" \in DOMAIN body => WholeOptions(FromJSON(body.options, secret))
  BY ReadWhole DEF ProvidersWhole
<1> QED BY <1>1 DEF LoadFromJSON, HoldsOptions

LEMMA NewHolds ==
  HoldsOptions(NewCollection) /\ \A c, id : HoldsOptions(c) => HoldsOptions(Identified(c, id)) 
BY DEF NewCollection, HoldsOptions, Identified

LEMMA EntriesWhole ==
  /\ \A body \in ImportEntries : ProvidersWhole(body)
  /\ \A import \in Imports : import.entries \in Seq(ImportEntries)
<1>1. \A body \in ImportEntries : ProvidersWhole(body)
  BY BodiesAssumption DEF ImportEntries
<1>2. ASSUME NEW import \in Imports PROVE import.entries \in Seq(ImportEntries)
  <2>1. import.entries \in Seq(ToSet(import.entries)) /\ ToSet(import.entries) \subseteq ImportEntries
    BY BodiesAssumption DEF ImportEntries
  <2> HIDE DEF ImportEntries
  <2> QED BY <2>1, SeqMonotonic
<1> QED BY <1>1, <1>2

LEMMA RowStored ==
  ASSUME CollectionInv, NEW id, NEW c, HoldsOptions(c), StoreRow(id, DbExport(c))
  PROVE  \A i \in DOMAIN collections' : StoredOptions(collections'[i])
<1>1. StoredOptions(DbExport(c))
  BY ExportStores
<1>2. DOMAIN collections' = DOMAIN collections \cup {id}
      /\ \A i \in DOMAIN collections' : collections'[i] = IF i = id THEN DbExport(c) ELSE collections[i]
  BY DEF StoreRow
<1> QED BY <1>1, <1>2 DEF CollectionInv

\* What a request holds next.
LEMMA HoldsNext ==
  ASSUME CollectionInv, NEW p \in Patchers, NEW w, patching' = [patching EXCEPT ![p] = w], Holding(w),
         \A i \in DOMAIN collections' : StoredOptions(collections'[i])
  PROVE  CollectionInv'
BY DEF CollectionInv

LEMMA DoneKeeps ==
  ASSUME CollectionInv, NEW p \in Patchers, Done(p), \A i \in DOMAIN collections' : StoredOptions(collections'[i])
  PROVE  CollectionInv'
<1>1. Holding(Idle)
  BY DEF Holding, Idle
<1> QED BY <1>1, HoldsNext DEF Done

LEMMA DropKeeps ==
  ASSUME CollectionInv, NEW id, Drop(id)
  PROVE  \A i \in DOMAIN collections' : StoredOptions(collections'[i])
BY DEF CollectionInv, Drop

LEMMA CreateCollectionKeeps ==
  ASSUME CollectionInv, NEW body \in Patches, NEW id, CreateCollection(body, id)
  PROVE  CollectionInv'
<1> DEFINE c == Identified(LoadFromJSON(NewCollection, body, secrets + 1), id)
<1>1. HoldsOptions(c)
  BY NewHolds, LoadHolds, BodiesAssumption
<1>2. StoreRow(c.id, DbExport(c)) /\ UNCHANGED patching
  BY DEF CreateCollection
<1> HIDE DEF c
<1> QED BY <1>1, <1>2, RowStored DEF CollectionInv

LEMMA ReadCollectionKeeps ==
  ASSUME CollectionInv, NEW p \in Patchers, NEW id, NEW op \in {"patch", "delete"}, NEW body, ProvidersWhole(body),
         ReadCollection(p, id, op, body)
  PROVE  CollectionInv'
<1> DEFINE row == collections[id]
           r == LoadFromDb(id, row, secrets + 1)
           c == LoadFromJSON(r, body, secrets + 2)
           w == [op |-> op, row |-> row, body |-> body, c |-> c]
<1>1. StoredOptions(row) /\ patching' = [patching EXCEPT ![p] = w] /\ collections' = collections
  BY DEF ReadCollection, CollectionInv
<1>2. r.options = IF row.type = "auth" THEN FromJSON(row.options, secrets + 1) ELSE NoOptions
  BY DEF LoadFromDb
<1>3. /\ WholeOptions(FromJSON(row.options, secrets + 1))
      /\ row.options # NoOptions => \A s \in Sections : FromJSON(row.options, secrets + 1)[s] = row.options[s]
  <2>1. CASE row.options = NoOptions
    BY <2>1, ReadWhole DEF NoOptions
  <2>2. CASE row.options # NoOptions
    BY <1>1, <2>2, ReadWhole DEF StoredOptions, WholeOptions
  <2> QED BY <2>1, <2>2
<1>4. HoldsOptions(r)
  BY <1>2, <1>3 DEF HoldsOptions
<1> HIDE DEF r
<1>5. HoldsOptions(c)
  BY <1>4, LoadHolds
<1>6. "options" \notin DOMAIN body => c.options = r.options
  BY DEF LoadFromJSON
<1> HIDE DEF c
<1>7. ASSUME "options" \notin DOMAIN body, row.options # NoOptions, c.type = "auth"
      PROVE  /\ DbExport(c).options.authToken = row.options.authToken
             /\ OptionErrors(row.options) = {} => OptionErrors(DbExport(c).options) = {}
  <2> DEFINE o == DbExport(c).options
  <2>1. WholeOptions(c.options) /\ \A s \in Sections : c.options[s] = row.options[s]
    BY <1>1, <1>2, <1>3, <1>6, <1>7 DEF StoredOptions
  <2>2. c.options # NoOptions
    BY <2>1 DEF WholeOptions, Sections, NoOptions
  <2>3. o = ToJSON(c.options)
    BY <1>7, <2>2 DEF DbExport
  <2> HIDE DEF o
  <2>4. /\ \A s \in Sections \ {"oauth2"} : o[s] = row.options[s]
        /\ o.oauth2.enabled = row.options.oauth2.enabled /\ o.oauth2.twice = row.options.oauth2.twice
    BY <2>1, <2>3, Written DEF Sections
  <2>5. OptionErrors(o) = OptionErrors(row.options)
    BY <2>4, SameErrors
  <2>6. o.authToken = row.options.authToken
    BY <2>4 DEF Sections
  <2> QED BY <2>5, <2>6 DEF o
<1> HIDE DEF row
<1>8. Holding(w)
  BY <1>5, <1>7 DEF Holding, SameSecrets
<1> HIDE DEF w
<1> QED BY <1>1, <1>8, HoldsNext DEF CollectionInv

LEMMA WriteCollectionKeeps ==
  ASSUME CollectionInv, NEW p \in Patchers, WriteCollection(p)
  PROVE  CollectionInv'
<1>1. HoldsOptions(patching[p].c) /\ Done(p)
  BY DEF WriteCollection, CollectionInv, Holding
<1>2. StoreRow(patching[p].c.id, DbExport(patching[p].c)) \/ UNCHANGED collections
  BY DEF WriteCollection
<1> QED BY <1>1, <1>2, RowStored, DoneKeeps DEF CollectionInv

LEMMA StartImportKeeps ==
  ASSUME CollectionInv, NEW p \in Patchers, NEW import \in Imports, StartImport(p, import)
  PROVE  CollectionInv'
<1> DEFINE w == [op |-> "look", left |-> import.entries, import |-> import]
<1>1. Holding(w)
  BY EntriesWhole DEF Holding, ImportOK
<1> HIDE DEF w
<1> QED BY <1>1, HoldsNext DEF StartImport, CollectionInv, w

LEMMA LookUpKeeps ==
  ASSUME CollectionInv, NEW p \in Patchers, NEW id, LookUp(p, id)
  PROVE  CollectionInv'
<1> DEFINE w == patching[p]
           body == Head(w.left)
           c == Identified(LoadFromJSON(NewCollection, body, secrets + 1), id)
           skipped == [w EXCEPT !.left = Tail(w.left)]
           reached == [op |-> "import", left |-> Tail(w.left), import |-> w.import, c |-> c,
                     exists |-> c.id \in DOMAIN collections]
<1>1. w.op = "look" /\ w.left # <<>> /\ UNCHANGED collections /\ ImportOK(w)
  BY DEF LookUp, CollectionInv, Holding
<1>2. body \in ImportEntries /\ Tail(w.left) \in Seq(ImportEntries)
  BY <1>1, HeadTailProperties DEF ImportOK
<1>3. HoldsOptions(c)
  BY <1>2, EntriesWhole, NewHolds, LoadHolds
<1>4. patching' = [patching EXCEPT ![p] = skipped] \/ patching' = [patching EXCEPT ![p] = reached]
  BY DEF LookUp
<1> HIDE DEF c
<1>5. Holding(skipped)
  BY <1>1, <1>2 DEF ImportOK, Holding
<1>6. Holding(reached)
  BY <1>2, <1>3 DEF ImportOK, Holding
<1> HIDE DEF skipped, reached
<1> QED BY <1>1, <1>4, <1>5, <1>6, HoldsNext DEF CollectionInv

LEMMA ImportOneKeeps ==
  ASSUME CollectionInv, NEW p \in Patchers, ImportOne(p)
  PROVE  CollectionInv'
<1> DEFINE w == patching[p]
           next == [op |-> "look", left |-> w.left, import |-> w.import]
<1>1. ImportOK(w) /\ HoldsOptions(w.c) /\ patching' = [patching EXCEPT ![p] = next]
  BY DEF ImportOne, CollectionInv, Holding, ImportOK
<1>2. StoreRow(w.c.id, DbExport(w.c)) \/ UNCHANGED collections
  BY DEF ImportOne
<1>3. Holding(next)
  BY <1>1 DEF Holding, ImportOK
<1> HIDE DEF next
<1> QED BY <1>1, <1>2, <1>3, RowStored, HoldsNext DEF CollectionInv

LEMMA SweepKeeps ==
  ASSUME CollectionInv, NEW p \in Patchers, Sweep(p)
  PROVE  CollectionInv'
<1>1. PICK gone : patching' = [patching EXCEPT ![p] = [op |-> "sweep", gone |-> gone]]
  BY DEF Sweep
<1> DEFINE w == [op |-> "sweep", gone |-> gone]
<1>2. Holding(w)
  BY DEF Holding
<1>3. collections' = collections
  BY DEF Sweep
<1> HIDE DEF w
<1> QED BY <1>1, <1>2, <1>3, HoldsNext DEF CollectionInv, w

LEMMA SweepOneKeeps ==
  ASSUME CollectionInv, NEW p \in Patchers, NEW id, SweepOne(p, id)
  PROVE  CollectionInv'
<1> DEFINE w == [patching[p] EXCEPT !.gone = @ \ {id}]
<1>1. patching' = [patching EXCEPT ![p] = w] /\ Drop(id)
  BY DEF SweepOne
<1>2. DOMAIN patching[p] = {"op", "gone"} /\ patching[p].op = "sweep"
  BY DEF SweepOne, CollectionInv, Holding
<1>3. Holding(w)
  BY <1>2 DEF Holding
<1> HIDE DEF w
<1> QED BY <1>1, <1>3, DropKeeps, HoldsNext

LEMMA CollectionsBegin == CollectionInit => CollectionInv
BY DEF CollectionInit, CollectionInv, Holding, Idle

LEMMA CollectionsKeep ==
  CollectionInv /\ [CollectionNext]_collectionVars => CollectionInv'
<1> SUFFICES ASSUME CollectionInv, [CollectionNext]_collectionVars PROVE CollectionInv'
  OBVIOUS
<1>1. ASSUME NEW id \in CollectionIds, NEW body \in Patches, CreateCollection(body, id) PROVE CollectionInv'
  BY <1>1, CreateCollectionKeeps
<1>2. ASSUME NEW p \in Patchers, NEW id \in CollectionIds, NEW body \in Patches, ReadCollection(p, id, "patch", body)
      PROVE  CollectionInv'
  BY <1>2, ReadCollectionKeeps, BodiesAssumption
<1>3. ASSUME NEW p \in Patchers, NEW id \in CollectionIds, ReadCollection(p, id, "delete", NoOptions)
      PROVE  CollectionInv'
  <2>1. ProvidersWhole(NoOptions)
    BY DEF ProvidersWhole, NoOptions
  <2> QED BY <1>3, <2>1, ReadCollectionKeeps
<1>4. ASSUME NEW p \in Patchers, NEW id \in CollectionIds, LookUp(p, id) \/ SweepOne(p, id) PROVE CollectionInv'
  BY <1>4, LookUpKeeps, SweepOneKeeps
<1>5. ASSUME NEW p \in Patchers, NEW import \in Imports, StartImport(p, import) PROVE CollectionInv'
  BY <1>5, StartImportKeeps
<1>6. ASSUME NEW p \in Patchers, WriteCollection(p) \/ ImportOne(p) \/ Sweep(p) PROVE CollectionInv'
  BY <1>6, WriteCollectionKeeps, ImportOneKeeps, SweepKeeps
<1>7. ASSUME NEW p \in Patchers, DeleteCollection(p) PROVE CollectionInv'
  BY <1>7, DropKeeps, DoneKeeps DEF DeleteCollection
<1>8. ASSUME NEW p \in Patchers, SweepEnds(p) PROVE CollectionInv'
  BY <1>8, DoneKeeps DEF SweepEnds, CollectionInv
<1>9. CASE UNCHANGED collectionVars
  BY <1>9 DEF CollectionInv, collectionVars
<1> QED BY <1>1, <1>2, <1>3, <1>4, <1>5, <1>6, <1>7, <1>8, <1>9 DEF CollectionNext

\* A PATCH that says nothing of the options of an auth collection writes back the secret it read, and
\* options that were valid; and no provider's secret is stored, whichever request wrote the row: for any
\* bodies, imports and requests that overlap (collection_model.ts, collection_crud.ts).
THEOREM SecretsStay == CollectionSpec => []OptionsSurvive /\ []NoClientSecrets
<1>1. CollectionInv => OptionsSurvive /\ NoClientSecrets
  BY DEF CollectionInv, Holding, SameSecrets, OptionsSurvive, NoClientSecrets, StoredOptions
<1> QED BY CollectionsBegin, CollectionsKeep, <1>1, PTL DEF CollectionSpec

(***************************************************************************)
(* Lookups of collections and records.                                     *)
(*                                                                         *)
(* A lookup that goes on has seen the collections that are there now       *)
(* (Watching), and before it asks for a name no collection that was there  *)
(* all the time had the id it asked for.                                   *)
(***************************************************************************)
FindPcs == {"idle", "byId", "byName", "row", "done", "failed"}
FindFields == {"pc", "asked", "for", "ever", "always", "found", "record"}
Matches(c, wanted) == c.id = wanted \/ LowerName(c.name) = LowerName(wanted)
Watching(f, there) ==
    /\ DOMAIN f = FindFields /\ IsText(f.asked)
    /\ \A c \in f.always : IsText(c.id) /\ IsText(c.name)
    /\ f.pc \in {"byId", "byName", "row"} => f.always \subseteq there /\ there \subseteq f.ever
    /\ f.pc = "byName" => \A c \in f.always : c.id # f.asked
    /\ f.pc \in {"byId", "byName", "row"} => f.record = NoClaim
    /\ f.pc = "row" => f.found.auth
    /\ f.record # NoClaim => f.found.auth /\ f.record = f.for
    /\ f.pc \in {"row", "done", "failed"} =>
          IF f.found = NotFound THEN \A c \in f.always : ~Matches(c, f.asked)
          ELSE f.found \in f.ever /\ (f.found.id = f.asked \/ ILike(f.found.name, f.asked))
FindInv ==
    /\ DOMAIN listing \subseteq ListedIds /\ \A id \in DOMAIN listing : listing[id].name \in ListedNames
    /\ DOMAIN finds = Finders
    /\ \A p \in Finders : finds[p].pc \in FindPcs /\ (finds[p].pc # "idle" => Watching(finds[p], Now))

\* Texts that are the same in small letters are like each other.
LEMMA SameIsLike ==
  ASSUME NEW t, NEW u, IsText(t), IsText(u), LowerName(t) = LowerName(u)
  PROVE  ILike(t, u)
<1>1. DOMAIN t = 1..Len(t) /\ DOMAIN u = 1..Len(u) /\ Len(t) \in Nat /\ Len(u) \in Nat
  BY DEF IsText
<1>2. DOMAIN t = DOMAIN u
  <2>1. DOMAIN LowerName(t) = DOMAIN t /\ DOMAIN LowerName(u) = DOMAIN u
    BY DEF LowerName
  <2> QED BY <2>1
<1>3. Len(t) = Len(u)
  <2>1. \A n, m \in Nat : 1..n = 1..m => n = m
    <3> SUFFICES ASSUME NEW n \in Nat, NEW m \in Nat, 1..n = 1..m, n < m PROVE FALSE
      OBVIOUS
    <3>1. m \in 1..m /\ m \notin 1..n
      OBVIOUS
    <3> QED BY <3>1
  <2> QED BY <1>1, <1>2, <2>1
<1> QED BY <1>2, <1>3 DEF ILike

\* What is there is text and has an id.
LEMMA NowIsText ==
  ASSUME FindInv
  PROVE  \A c \in Now : IsText(c.id) /\ IsText(c.name) /\ c # NotFound
<1> SUFFICES ASSUME NEW id \in DOMAIN listing
             PROVE  LET c == Identity(RowToCollection(id, listing[id])) IN
                    IsText(c.id) /\ IsText(c.name) /\ c # NotFound
  BY DEF Now, AllCollections
<1> DEFINE c == Identity(RowToCollection(id, listing[id]))
<1>1. c.id = id /\ c.name = listing[id].name
  BY DEF Identity, RowToCollection
<1> HIDE DEF c
<1>2. id \in ListedIds /\ listing[id].name \in ListedNames
  BY DEF FindInv
<1>3. c.id # <<>>
  BY <1>1, <1>2, TextAssumption
<1> QED BY <1>1, <1>2, <1>3, TextAssumption DEF NotFound, c

\* The lookups when collections change.
LEMMA FollowKeeps ==
  ASSUME FindInv, Follow(listing'), DOMAIN listing' \subseteq ListedIds,
         \A id \in DOMAIN listing' : listing'[id].name \in ListedNames
  PROVE  FindInv'
<1> DEFINE next == {Identity(RowToCollection(id, listing'[id])) : id \in DOMAIN listing'}
<1>1. next = Now'
  BY DEF Now, AllCollections
<1>2. finds' = [p \in Finders |-> IF finds[p].pc \in {"idle", "done"} THEN finds[p]
                                  ELSE [finds[p] EXCEPT !.ever = @ \cup next, !.always = @ \cap next]]
  BY DEF Follow
<1> HIDE DEF next
<1>3. ASSUME NEW p \in Finders PROVE finds'[p].pc \in FindPcs /\ (finds'[p].pc # "idle" => Watching(finds'[p], Now'))
  <2>1. CASE finds[p].pc = "idle"
    BY <1>2, <2>1 DEF FindPcs
  <2>2. CASE finds[p].pc = "done"
    <3>1. finds'[p] = finds[p] /\ Watching(finds[p], Now)
      BY <1>2, <2>2 DEF FindInv
    <3> QED BY <2>2, <3>1 DEF Watching, FindPcs
  <2>3. CASE finds[p].pc \notin {"idle", "done"}
    <3> DEFINE f == finds[p]
               g == finds'[p]
    <3>1. g = [f EXCEPT !.ever = @ \cup next, !.always = @ \cap next]
      BY <1>2, <2>3
    <3>2. Watching(f, Now) /\ f.pc \in FindPcs
      BY <2>3 DEF FindInv
    <3> HIDE DEF f, g
    <3>3. /\ DOMAIN g = FindFields /\ g.ever = f.ever \cup next /\ g.always = f.always \cap next
          /\ g.pc = f.pc /\ g.asked = f.asked /\ g.for = f.for /\ g.found = f.found /\ g.record = f.record
      BY <3>1, <3>2 DEF Watching, FindFields
    <3>4. Watching(g, Now')
      BY <1>1, <3>2, <3>3 DEF Watching, Matches
    <3> QED BY <3>2, <3>3, <3>4 DEF g
  <2> QED BY <2>1, <2>2, <2>3
<1>4. DOMAIN finds' = Finders
  BY <1>2
<1> QED BY <1>3, <1>4 DEF FindInv

\* One lookup that goes on.
LEMMA FindStep ==
  ASSUME FindInv, NEW p \in Finders, NEW f, finds' = [finds EXCEPT ![p] = f], Keeps, f.pc \in FindPcs, Watching(f, Now)
  PROVE  FindInv'
<1>1. Now' = Now
  BY DEF Keeps, Now, AllCollections
<1>2. DOMAIN finds' = Finders /\ \A q \in Finders : finds'[q] = IF q = p THEN f ELSE finds[q]
  BY DEF FindInv
<1> QED BY <1>1, <1>2 DEF FindInv, Keeps

LEMMA BeginFindKeeps ==
  ASSUME FindInv, NEW p \in Finders, NEW wanted, IsText(wanted), NEW for, BeginFind(p, wanted, for), Keeps
  PROVE  FindInv'
<1> DEFINE f == [pc |-> "byId", asked |-> wanted, for |-> for, ever |-> Now, always |-> Now,
                 found |-> NotFound, record |-> NoClaim]
<1>1. Watching(f, Now) /\ f.pc \in FindPcs
  BY NowIsText DEF Watching, FindFields, FindPcs
<1>2. finds' = [finds EXCEPT ![p] = f]
  BY DEF BeginFind
<1> HIDE DEF f
<1> QED BY <1>1, <1>2, FindStep

LEMMA FindCachedKeeps ==
  ASSUME FindInv, NEW p \in Finders, NEW wanted \in Sought, NEW cached \in {{}, Now},
         FindCachedByNameOrId(p, wanted, cached)
  PROVE  FindInv'
<1>1. Keeps /\ IsText(wanted)
  BY TextAssumption DEF FindCachedByNameOrId
<1>2. CASE BeginFind(p, wanted, NoClaim)
  BY <1>1, <1>2, BeginFindKeeps
<1>3. ASSUME NEW c \in cached, Matches(c, wanted),
             finds' = [finds EXCEPT ![p] = [pc |-> "done", asked |-> wanted, for |-> NoClaim, ever |-> cached,
                                            always |-> cached, found |-> c, record |-> NoClaim]]
      PROVE  FindInv'
  <2> DEFINE f == [pc |-> "done", asked |-> wanted, for |-> NoClaim, ever |-> cached,
                   always |-> cached, found |-> c, record |-> NoClaim]
  <2>1. c # NotFound /\ IsText(c.name) /\ \A d \in cached : IsText(d.id) /\ IsText(d.name)
    BY NowIsText
  <2>2. c.id = wanted \/ ILike(c.name, wanted)
    BY <1>1, <1>3, <2>1, SameIsLike DEF Matches
  <2>3. Watching(f, Now) /\ f.pc \in FindPcs
    BY <1>1, <2>1, <2>2 DEF Watching, FindFields, FindPcs
  <2> HIDE DEF f
  <2> QED BY <1>1, <1>3, <2>3, FindStep DEF f
<1> QED BY <1>2, <1>3 DEF FindCachedByNameOrId, Matches

LEMMA FinishKeeps ==
  ASSUME FindInv, NEW p \in Finders, finds[p].pc \in {"byId", "byName"}, Keeps, NEW c, Finish(p, c),
         \/ c = NotFound /\ \A d \in finds[p].always : ~Matches(d, finds[p].asked)
         \/ c \in Now /\ (c.id = finds[p].asked \/ ILike(c.name, finds[p].asked))
  PROVE  FindInv'
<1> DEFINE f == finds[p]
           goes == IF f.for # NoClaim /\ c.auth THEN "row" ELSE "done"
           g == [f EXCEPT !.pc = goes, !.found = c]
<1>1. Watching(f, Now)
  BY DEF FindInv
<1>2. finds' = [finds EXCEPT ![p] = g]
  BY DEF Finish, FindInv
<1>3. goes \in {"row", "done"} /\ (goes = "row" => c.auth)
  OBVIOUS
<1> HIDE DEF goes
<1>4. /\ DOMAIN g = FindFields /\ g.pc = goes /\ g.found = c /\ g.asked = f.asked /\ g.for = f.for
      /\ g.ever = f.ever /\ g.always = f.always /\ g.record = f.record
  BY <1>1 DEF Watching, FindFields
<1>5. f.always \subseteq Now /\ Now \subseteq f.ever /\ f.record = NoClaim
  BY <1>1 DEF Watching
<1>6. c \in Now => c # NotFound
  BY NowIsText
<1> HIDE DEF f, g
<1>7. Watching(g, Now) /\ g.pc \in FindPcs
  BY <1>1, <1>3, <1>4, <1>5, <1>6 DEF Watching, FindPcs, f
<1> QED BY <1>2, <1>7, FindStep

LEMMA FindByIdKeeps ==
  ASSUME FindInv, NEW p \in Finders, FindById(p)
  PROVE  FindInv'
<1>1. finds[p].pc = "byId" /\ Keeps
  BY DEF FindById
<1>2. ASSUME NEW c \in Now, c.id = finds[p].asked, Finish(p, c) PROVE FindInv'
  BY <1>1, <1>2, FinishKeeps
<1>3. ASSUME \A c \in Now : c.id # finds[p].asked, finds' = [finds EXCEPT ![p].pc = "byName"] PROVE FindInv'
  <2> DEFINE f == finds[p]
             g == [f EXCEPT !.pc = "byName"]
  <2>1. Watching(f, Now) /\ finds' = [finds EXCEPT ![p] = g]
    BY <1>1, <1>3 DEF FindInv
  <2>2. /\ DOMAIN g = FindFields /\ g.pc = "byName" /\ g.found = f.found /\ g.asked = f.asked /\ g.for = f.for
        /\ g.ever = f.ever /\ g.always = f.always /\ g.record = f.record
    BY <2>1 DEF Watching, FindFields
  <2> HIDE DEF g
  <2>3. Watching(g, Now) /\ g.pc \in FindPcs
    BY <1>1, <1>3, <2>1, <2>2 DEF Watching, FindPcs
  <2> QED BY <1>1, <2>1, <2>3, FindStep
<1> QED BY <1>2, <1>3 DEF FindById

LEMMA FindByNameKeeps ==
  ASSUME FindInv, NEW p \in Finders, FindByName(p)
  PROVE  FindInv'
<1>1. finds[p].pc = "byName" /\ Keeps /\ Watching(finds[p], Now)
  BY DEF FindByName, FindInv
<1>2. ASSUME NEW c \in Now, ILike(c.name, finds[p].asked), Finish(p, c) PROVE FindInv'
  BY <1>1, <1>2, FinishKeeps
<1>3. ASSUME \A c \in Now : ~ILike(c.name, finds[p].asked), Finish(p, NotFound) PROVE FindInv'
  <2>1. \A d \in finds[p].always : d.id # finds[p].asked /\ LowerName(d.name) # LowerName(finds[p].asked)
    BY <1>1, <1>3, SameIsLike DEF Watching
  <2> QED BY <1>1, <1>3, <2>1, FinishKeeps DEF Matches
<1> QED BY <1>2, <1>3 DEF FindByName

LEMMA FindRowKeeps ==
  ASSUME FindInv, NEW p \in Finders, FindRow(p)
  PROVE  FindInv'
<1> DEFINE f == finds[p]
<1>1. f.pc = "row" /\ Keeps /\ Watching(f, Now)
  BY DEF FindRow, FindInv
<1>2. PICK row \in FindRecordById(f.found.name, f.for) :
          finds' = [finds EXCEPT ![p].pc = IF f.found.name \in DOMAIN rowsNamed THEN "done" ELSE "failed",
                                 ![p].record = row]
  BY DEF FindRow
<1>3. row \in {NoClaim, f.for}
  BY DEF FindRecordById, AnyRowOf
<1> DEFINE goes == IF f.found.name \in DOMAIN rowsNamed THEN "done" ELSE "failed"
           g == [f EXCEPT !.pc = goes, !.record = row]
<1>4. finds' = [finds EXCEPT ![p] = g] /\ goes \in {"done", "failed"}
  BY <1>2 DEF FindInv
<1> HIDE DEF goes
<1>5. /\ DOMAIN g = FindFields /\ g.pc = goes /\ g.found = f.found /\ g.asked = f.asked /\ g.for = f.for
      /\ g.ever = f.ever /\ g.always = f.always /\ g.record = row
  BY <1>1 DEF Watching, FindFields
<1> HIDE DEF g
<1>6. Watching(g, Now) /\ g.pc \in FindPcs
  BY <1>1, <1>3, <1>4, <1>5 DEF Watching, FindPcs
<1> QED BY <1>1, <1>4, <1>6, FindStep

LEMMA FindBegins == FindInit => FindInv
<1> SUFFICES ASSUME FindInit PROVE FindInv
  OBVIOUS
<1>1. PICK i \in ListedIds, n \in ListedNames : listing = [id \in {i} |-> [name |-> n, auth |-> TRUE, relations |-> {}]]
  BY DEF FindInit
<1>2. DOMAIN listing = {i} /\ listing[i].name = n
  BY <1>1
<1>3. finds = [p \in Finders |-> NoFind] /\ NoFind.pc = "idle"
  BY DEF FindInit, NoFind
<1> QED BY <1>2, <1>3 DEF FindInv, FindPcs

LEMMA FindKeeps ==
  FindInv /\ [FindNext]_findVars => FindInv'
<1> SUFFICES ASSUME FindInv, [FindNext]_findVars PROVE FindInv'
  OBVIOUS
<1>1. ASSUME NEW id \in ListedIds, NEW n \in ListedNames, NEW auth, NEW relations,
             SaveListed(id, [name |-> n, auth |-> auth, relations |-> relations])
      PROVE  FindInv'
  <2> DEFINE row == [name |-> n, auth |-> auth, relations |-> relations]
  <2>1. listing' = [i \in DOMAIN listing \cup {id} |-> IF i = id THEN row ELSE listing[i]] /\ Follow(listing')
    BY <1>1 DEF SaveListed
  <2>2. row.name = n
    OBVIOUS
  <2> HIDE DEF row
  <2> QED BY <2>1, <2>2, FollowKeeps DEF FindInv
<1>2. ASSUME NEW id \in ListedIds, DropListed(id) PROVE FindInv'
  <2>1. listing' = [i \in DOMAIN listing \ {id} |-> listing[i]] /\ Follow(listing')
    BY <1>2 DEF DropListed
  <2> QED BY <2>1, FollowKeeps DEF FindInv
<1>3. CASE UNCHANGED <<listing, finds>>
  <2>1. Now' = Now
    BY <1>3 DEF Now, AllCollections
  <2> QED BY <1>3, <2>1 DEF FindInv
<1>4. ASSUME NEW p \in Finders, NEW wanted \in Sought, NEW cached \in {{}, Now}, FindCachedByNameOrId(p, wanted, cached)
      PROVE  FindInv'
  BY <1>4, FindCachedKeeps
<1>5. ASSUME NEW p \in Finders, NEW claims \in Claims, FindAuthRecordByToken(p, claims, "s") PROVE FindInv'
  BY <1>5, BeginFindKeeps, TextAssumption DEF FindAuthRecordByToken
<1>6. ASSUME NEW p \in Finders, FindById(p) \/ FindByName(p) \/ FindRow(p) PROVE FindInv'
  BY <1>6, FindByIdKeeps, FindByNameKeeps, FindRowKeeps
<1>7. ASSUME NEW from, NEW to, MoveTable(from, to) PROVE FindInv'
  BY <1>3, <1>7 DEF MoveTable
<1>8. ASSUME NEW n, NEW new, WriteRowsNamed(n, new) PROVE FindInv'
  BY <1>3, <1>8 DEF WriteRowsNamed
<1>9. UNCHANGED findVars => UNCHANGED <<listing, finds>>
  BY DEF findVars
<1> QED BY <1>1, <1>2, <1>3, <1>4, <1>5, <1>6, <1>7, <1>8, <1>9 DEF FindNext

LEMMA FreeNames == FindInv => UniqueMeansFree
<1> SUFFICES ASSUME FindInv, NEW n \in ListedNames, IsCollectionNameUnique(n, {}), NEW id \in DOMAIN listing
             PROVE  LowerName(listing[id].name) # LowerName(n)
  BY DEF UniqueMeansFree
<1>1. IsText(n) /\ IsText(listing[id].name) /\ ~ILike(listing[id].name, n)
  BY TextAssumption DEF FindInv, IsCollectionNameUnique
<1> QED BY <1>1, SameIsLike

\* However collections and tables change between the reads of a lookup: it answers a collection that
\* has been there and is like what was asked, and none only when none was it all the time; a token
\* leads only to the record it names, by an auth collection; and a name said to be unique is no
\* collection's: for any names, collections and lookups (collection_query.ts, record_query.ts).
THEOREM LookupsAnswer == FindSpec => []LookupsLeadRight /\ []TokensLeadToAccounts /\ []UniqueMeansFree
<1>1. FindInv => LookupsLeadRight
  BY DEF FindInv, Watching, LookupsLeadRight, Matches
<1>2. FindInv => TokensLeadToAccounts
  BY DEF FindInv, Watching, TokensLeadToAccounts
<1> QED BY FindBegins, FindKeeps, <1>1, <1>2, FreeNames, PTL DEF FindSpec

(***************************************************************************)
(* The fallback store's users.                                             *)
(*                                                                         *)
(* What a call awaits is about a user that was there and a hash that the   *)
(* user has or has had (OfSomebody), which stays so whatever others write. *)
(***************************************************************************)
Person == [email : Mails, password : Passwords, had : SUBSET Passwords]
Proof == [id : Nat, given : Passwords, hash : Passwords]
PasswordBodies == [email : {NotGiven}, password : Passwords, current : Passwords]
Awaiting ==
    {NotAwaiting} \cup [pc : {"signUp"}, mail : Mails, password : Passwords] \cup [pc : {"signIn"}, proof : Proof]
    \cup [pc : {"prove", "patch"}, body : PasswordBodies, proof : Proof]

OfSomebody(x) ==
    /\ x.pc \in {"signIn", "prove", "patch"} => x.proof.id \in DOMAIN people /\ x.proof.hash \in people[x.proof.id].had
    /\ x.pc = "patch" => x.proof.given = x.proof.hash
AccountsInv ==
    /\ people \in Seq(Person) /\ awaited \in [UserCalls -> Awaiting]
    /\ \A id \in DOMAIN people : people[id].password \in people[id].had
    /\ byId \subseteq DOMAIN people /\ issued \subseteq DOMAIN people /\ DOMAIN byMail \subseteq Mails
    /\ \A h \in UserCalls : OfSomebody(awaited[h])
    /\ OneAddressEach

\* What is awaited stays true of users who keep what they had.
LEMMA AwaitedStays ==
  ASSUME NEW x, OfSomebody(x), DOMAIN people \subseteq DOMAIN people',
         \A id \in DOMAIN people : people[id].had \subseteq people'[id].had
  PROVE  OfSomebody(x)'
BY DEF OfSomebody

\* A call begins, goes on or ends, and users keep what they had.
LEMMA CallKeeps ==
  ASSUME AccountsInv, NEW h \in UserCalls, NEW x \in Awaiting, awaited' = [awaited EXCEPT ![h] = x],
         people' \in Seq(Person), \A id \in DOMAIN people' : people'[id].password \in people'[id].had,
         DOMAIN people \subseteq DOMAIN people', \A id \in DOMAIN people : people[id].had \subseteq people'[id].had,
         OfSomebody(x)', issued' \subseteq DOMAIN people', UNCHANGED <<byId, byMail>>
  PROVE  AccountsInv'
<1>1. awaited' \in [UserCalls -> Awaiting] /\ awaited'[h] = x /\ \A g \in UserCalls \ {h} : awaited'[g] = awaited[g]
  BY DEF AccountsInv
<1>2. ASSUME NEW g \in UserCalls \ {h}, NEW y, y = awaited[g] PROVE OfSomebody(y)'
  BY <1>2, AwaitedStays DEF AccountsInv
<1>3. \A g \in UserCalls : OfSomebody(awaited[g])'
  BY <1>1, <1>2 DEF OfSomebody
<1>4. OneAddressEach' /\ byId' \subseteq DOMAIN people' /\ DOMAIN byMail' \subseteq Mails
  BY DEF AccountsInv, OneAddressEach
<1> QED BY <1>1, <1>3, <1>4 DEF AccountsInv

\* A call of which only what it awaits changes.
LEMMA OnlyAwaits ==
  ASSUME AccountsInv, NEW h \in UserCalls, NEW x \in Awaiting, awaited' = [awaited EXCEPT ![h] = x],
         OfSomebody(x), UNCHANGED people, issued' \subseteq DOMAIN people, UNCHANGED <<byId, byMail>>
  PROVE  AccountsInv'
<1>1. OfSomebody(x)'
  BY DEF OfSomebody
<1> QED BY <1>1, CallKeeps DEF AccountsInv

LEMMA SignUpKeeps ==
  ASSUME AccountsInv, NEW h \in UserCalls, NEW mail \in Mails, NEW password \in Passwords, SignUp(h, mail, password)
  PROVE  AccountsInv'
<1> DEFINE x == [pc |-> "signUp", mail |-> mail, password |-> password]
<1>1. x \in Awaiting /\ x.pc = "signUp"
  BY DEF Awaiting
<1>2. OfSomebody(x)
  BY <1>1 DEF OfSomebody
<1>3. awaited' = [awaited EXCEPT ![h] = x]
  BY DEF SignUp, StartCall
<1> HIDE DEF x
<1> QED BY <1>1, <1>2, <1>3, OnlyAwaits DEF SignUp, AccountsInv

LEMMA MakeUserKeeps ==
  ASSUME AccountsInv, NEW h \in UserCalls, MakeUser(h)
  PROVE  AccountsInv'
<1> DEFINE mail == awaited[h].mail
           password == awaited[h].password
           id == Len(people) + 1
           person == [email |-> mail, password |-> password, had |-> {password}]
<1>1. /\ mail \in Mails /\ password \in Passwords /\ awaited' = [awaited EXCEPT ![h] = NotAwaiting]
  BY DEF MakeUser, EndCall, AccountsInv, Awaiting, NotAwaiting
<1>2. NotAwaiting \in Awaiting /\ OfSomebody(NotAwaiting)
  BY DEF Awaiting, NotAwaiting, OfSomebody
<1>3. CASE mail \in DOMAIN byMail
  BY <1>1, <1>2, <1>3, OnlyAwaits DEF MakeUser, AccountsInv
<1>4. CASE mail \notin DOMAIN byMail
  <2>1. /\ people' = Append(people, person) /\ byId' = byId \cup {id} /\ issued' = issued \cup {id}
        /\ byMail' = [m \in DOMAIN byMail \cup {mail} |-> IF m = mail THEN id ELSE byMail[m]]
    BY <1>4 DEF MakeUser, NewUser, GiveToken
  <2>2. person \in Person /\ person.password \in person.had
    BY <1>1 DEF Person
  <2> HIDE DEF person
  <2>3. people \in Seq(Person) /\ Len(people) \in Nat /\ DOMAIN people = 1..Len(people)
    BY LenProperties DEF AccountsInv
  <2>4. /\ people' \in Seq(Person) /\ DOMAIN people' = 1..id /\ people'[id] = person
        /\ \A j \in DOMAIN people : people'[j] = people[j]
    BY <2>1, <2>2, <2>3, AppendProperties, LenProperties
  <2>5. DOMAIN people' = DOMAIN people \cup {id} /\ id \notin DOMAIN people
    BY <2>3, <2>4
  <2> HIDE DEF id, mail
  <2>6. \A j \in DOMAIN people' : people'[j].password \in people'[j].had
    BY <2>2, <2>4, <2>5 DEF AccountsInv
  <2>7. \A j \in DOMAIN people : people[j].had \subseteq people'[j].had
    BY <2>4
  <2>8. OneAddressEach'
    <3>1. DOMAIN byMail' = DOMAIN byMail \cup {mail} /\ byMail'[mail] = id /\ \A m \in DOMAIN byMail : byMail'[m] = byMail[m]
      BY <1>4, <2>1
    <3>2. \A m \in DOMAIN byMail : byMail[m] # id
      BY <2>5 DEF AccountsInv, OneAddressEach
    <3>3. byId' = {byMail'[m] : m \in DOMAIN byMail'}
      <4>1. byId = {byMail[m] : m \in DOMAIN byMail}
        BY DEF AccountsInv, OneAddressEach
      <4>2. \A y : y \in byId' <=> \E m \in DOMAIN byMail' : y = byMail'[m]
        BY <2>1, <3>1, <4>1
      <4> QED BY <4>2
    <3> QED BY <3>1, <3>2, <3>3 DEF AccountsInv, OneAddressEach
  <2>9. /\ byId' \subseteq DOMAIN people' /\ issued' \subseteq DOMAIN people' /\ DOMAIN byMail' \subseteq Mails
    BY <1>1, <2>1, <2>5 DEF AccountsInv
  <2>10. /\ awaited' \in [UserCalls -> Awaiting] /\ awaited'[h] = NotAwaiting
         /\ \A g \in UserCalls \ {h} : awaited'[g] = awaited[g]
    BY <1>1, <1>2 DEF AccountsInv
  <2>11. ASSUME NEW g \in UserCalls \ {h}, NEW y, y = awaited[g] PROVE OfSomebody(y)'
    BY <2>5, <2>7, <2>11, AwaitedStays DEF AccountsInv
  <2>12. OfSomebody(NotAwaiting)'
    BY DEF OfSomebody, NotAwaiting
  <2>13. \A g \in UserCalls : OfSomebody(awaited[g])'
    BY <2>10, <2>11, <2>12 DEF OfSomebody
  <2> QED BY <2>4, <2>6, <2>8, <2>9, <2>10, <2>13 DEF AccountsInv
<1> QED BY <1>3, <1>4

LEMMA SignInKeeps ==
  ASSUME AccountsInv, NEW h \in UserCalls, NEW mail \in Mails, NEW password \in Passwords, SignInWith(h, mail, password)
  PROVE  AccountsInv'
<1> DEFINE proof == AgainstHash(byMail[mail], password)
           x == [pc |-> "signIn", proof |-> proof]
<1>1. byMail[mail] \in DOMAIN people
  BY DEF SignInWith, AccountsInv, OneAddressEach
<1>2. proof \in Proof /\ proof.id \in DOMAIN people /\ proof.hash \in people[proof.id].had
  <2>1. people[byMail[mail]] \in Person /\ byMail[mail] \in Nat
    BY <1>1, LenProperties, ElementOfSeq DEF AccountsInv
  <2> QED BY <1>1, <2>1 DEF AgainstHash, Proof, Person, AccountsInv
<1> HIDE DEF proof
<1>3. x \in Awaiting /\ OfSomebody(x)
  BY <1>2 DEF Awaiting, OfSomebody
<1>4. awaited' = [awaited EXCEPT ![h] = x]
  BY DEF SignInWith, StartCall, proof
<1> HIDE DEF x
<1> QED BY <1>3, <1>4, OnlyAwaits DEF SignInWith, AccountsInv

LEMMA EndSignInKeeps ==
  ASSUME AccountsInv, NEW h \in UserCalls, EndSignIn(h)
  PROVE  AccountsInv'
<1>1. awaited' = [awaited EXCEPT ![h] = NotAwaiting] /\ UNCHANGED <<people, byId, byMail>>
  BY DEF EndSignIn, EndCall
<1>2. NotAwaiting \in Awaiting /\ OfSomebody(NotAwaiting)
  BY DEF Awaiting, NotAwaiting, OfSomebody
<1>3. issued' \subseteq DOMAIN people
  BY DEF EndSignIn, GiveToken, AccountsInv, OfSomebody
<1> QED BY <1>1, <1>2, <1>3, OnlyAwaits


\* What a user is written keeps the user's id and what it had.
LEMMA WrittenUser ==
  ASSUME AccountsInv, NEW id \in DOMAIN people, NEW person \in Person, person.password \in person.had,
         people[id].had \subseteq person.had, people' = [people EXCEPT ![id] = person]
  PROVE  /\ people' \in Seq(Person) /\ DOMAIN people' = DOMAIN people
         /\ \A j \in DOMAIN people' : people'[j].password \in people'[j].had
         /\ \A j \in DOMAIN people : people[j].had \subseteq people'[j].had
<1>1. people' \in Seq(Person) /\ DOMAIN people' = DOMAIN people
  BY ExceptSeq, LenProperties DEF AccountsInv
<1>2. people'[id] = person /\ \A j \in DOMAIN people \ {id} : people'[j] = people[j]
  OBVIOUS
<1> QED BY <1>1, <1>2 DEF AccountsInv

LEMMA StartPatchKeeps ==
  ASSUME AccountsInv, NEW h \in UserCalls, NEW token \in issued, NEW body \in PatchBodies, StartPatch(h, token, body)
  PROVE  AccountsInv'
<1>1. /\ token \in DOMAIN people /\ UNCHANGED <<byId, byMail, issued>> /\ issued \subseteq DOMAIN people
      /\ people[token] \in Person /\ token \in Nat /\ people[token].password \in people[token].had
  <2>1. token \in DOMAIN people /\ UNCHANGED <<byId, byMail, issued>> /\ issued \subseteq DOMAIN people
    BY DEF StartPatch, AccountsInv
  <2> QED BY <2>1, LenProperties, ElementOfSeq DEF AccountsInv
<1>2. CASE body.password = NotGiven
  <2> DEFINE person == [people[token] EXCEPT !.email = IF body.email = NotGiven THEN @ ELSE body.email]
  <2>1. people' = [people EXCEPT ![token] = person] /\ UNCHANGED awaited
    BY <1>2 DEF StartPatch, PatchUser
  <2>2. body.email \in Mails \cup {NotGiven}
    BY DEF PatchBodies
  <2>3. person \in Person /\ person.password = people[token].password /\ person.had = people[token].had
    BY <1>1, <2>2 DEF Person
  <2> HIDE DEF person
  <2>4. /\ people' \in Seq(Person) /\ DOMAIN people' = DOMAIN people
        /\ \A j \in DOMAIN people' : people'[j].password \in people'[j].had
        /\ \A j \in DOMAIN people : people[j].had \subseteq people'[j].had
    BY <1>1, <2>1, <2>3, WrittenUser
  <2>5. ASSUME NEW g \in UserCalls, NEW y, y = awaited[g] PROVE OfSomebody(y)'
    BY <2>4, <2>5, AwaitedStays DEF AccountsInv
  <2>6. \A g \in UserCalls : OfSomebody(awaited[g])'
    BY <2>1, <2>5 DEF OfSomebody
  <2>7. OneAddressEach'
    BY <1>1 DEF AccountsInv, OneAddressEach
  <2> QED BY <1>1, <2>1, <2>4, <2>6, <2>7 DEF AccountsInv
<1>3. CASE body.password # NotGiven
  <2> DEFINE proof == AgainstHash(token, body.current)
             x == [pc |-> "prove", body |-> body, proof |-> proof]
  <2>1. body \in PasswordBodies
    BY <1>3 DEF PatchBodies, PasswordBodies
  <2>2. proof \in Proof /\ proof.id \in DOMAIN people /\ proof.hash \in people[proof.id].had
    BY <1>1, <2>1 DEF AgainstHash, Proof, Person, PasswordBodies
  <2>3. awaited' = [awaited EXCEPT ![h] = x] /\ UNCHANGED people
    BY <1>3 DEF StartPatch, StartCall
  <2> HIDE DEF proof
  <2>4. x \in Awaiting /\ OfSomebody(x)
    BY <2>1, <2>2 DEF Awaiting, OfSomebody
  <2> HIDE DEF x
  <2> QED BY <1>1, <2>3, <2>4, OnlyAwaits
<1> QED BY <1>2, <1>3

LEMMA ProvePatchKeeps ==
  ASSUME AccountsInv, NEW h \in UserCalls, ProvePatch(h)
  PROVE  AccountsInv'
<1>1. awaited[h].pc = "prove" /\ UNCHANGED <<people, byId, byMail, issued>> /\ issued \subseteq DOMAIN people
  BY DEF ProvePatch, AccountsInv
<1>2. CASE Proves(h)
  <2> DEFINE x == [awaited[h] EXCEPT !.pc = "patch"]
  <2>1. awaited' = [awaited EXCEPT ![h] = x]
    BY <1>2 DEF ProvePatch
  <2>2. awaited[h] \in [pc : {"prove", "patch"}, body : PasswordBodies, proof : Proof] /\ OfSomebody(awaited[h])
    BY <1>1 DEF AccountsInv, Awaiting, NotAwaiting
  <2>3. x \in Awaiting /\ x.pc = "patch" /\ x.proof = awaited[h].proof
    BY <2>2 DEF Awaiting
  <2> HIDE DEF x
  <2>4. OfSomebody(x)
    BY <1>1, <1>2, <2>2, <2>3 DEF OfSomebody, Proves
  <2> QED BY <1>1, <2>1, <2>3, <2>4, OnlyAwaits
<1>3. CASE ~Proves(h)
  <2>1. NotAwaiting \in Awaiting /\ OfSomebody(NotAwaiting)
    BY DEF Awaiting, NotAwaiting, OfSomebody
  <2>2. awaited' = [awaited EXCEPT ![h] = NotAwaiting]
    BY <1>3 DEF ProvePatch, EndCall
  <2> QED BY <1>1, <2>1, <2>2, OnlyAwaits
<1> QED BY <1>2, <1>3

LEMMA FinishPatchKeeps ==
  ASSUME AccountsInv, NEW h \in UserCalls, FinishPatch(h)
  PROVE  AccountsInv'
<1> DEFINE id == awaited[h].proof.id
           body == awaited[h].body
           person == [email |-> IF body.email = NotGiven THEN people[id].email ELSE body.email,
                      password |-> body.password, had |-> people[id].had \cup {body.password}]
<1>1. /\ awaited[h].pc = "patch" /\ UNCHANGED <<byId, byMail, issued>> /\ issued \subseteq DOMAIN people
      /\ people' = [people EXCEPT ![id] = person] /\ awaited' = [awaited EXCEPT ![h] = NotAwaiting]
  BY DEF FinishPatch, EndCall, AccountsInv
<1>2. body \in PasswordBodies /\ id \in DOMAIN people
  BY <1>1 DEF AccountsInv, Awaiting, NotAwaiting, OfSomebody
<1>3. people[id] \in Person
  BY <1>2, LenProperties, ElementOfSeq DEF AccountsInv
<1> HIDE DEF id, body
<1>4. person \in Person /\ person.password \in person.had /\ people[id].had \subseteq person.had
  BY <1>2, <1>3 DEF Person, PasswordBodies
<1> HIDE DEF person
<1>5. /\ people' \in Seq(Person) /\ DOMAIN people' = DOMAIN people
      /\ \A j \in DOMAIN people' : people'[j].password \in people'[j].had
      /\ \A j \in DOMAIN people : people[j].had \subseteq people'[j].had
  BY <1>1, <1>2, <1>4, WrittenUser
<1>6. NotAwaiting \in Awaiting /\ OfSomebody(NotAwaiting)'
  BY DEF Awaiting, NotAwaiting, OfSomebody
<1> QED BY <1>1, <1>5, <1>6, CallKeeps

LEMMA ForgetUsersKeeps ==
  ASSUME AccountsInv, ForgetUsers
  PROVE  AccountsInv'
<1>1. /\ UNCHANGED <<people, issued>> /\ byId' = {} /\ DOMAIN byMail' = {}
      /\ awaited' \in [UserCalls -> Awaiting] /\ \A h \in UserCalls : awaited'[h] = NotAwaiting
  BY DEF ForgetUsers, Awaiting
<1>2. OneAddressEach'
  BY <1>1 DEF OneAddressEach
<1>3. \A h \in UserCalls : OfSomebody(awaited[h])'
  BY <1>1 DEF OfSomebody, NotAwaiting
<1> QED BY <1>1, <1>2, <1>3 DEF AccountsInv

LEMMA AccountsKeep ==
  AccountsInv /\ [AccountsNext]_accountsVars => AccountsInv'
<1> SUFFICES ASSUME AccountsInv, [AccountsNext]_accountsVars PROVE AccountsInv'
  OBVIOUS
<1>1. CASE AccountsNext
  BY <1>1, SignUpKeeps, SignInKeeps, MakeUserKeeps, EndSignInKeeps, ProvePatchKeeps, FinishPatchKeeps, StartPatchKeeps,
     ForgetUsersKeeps DEF AccountsNext
<1>2. CASE UNCHANGED accountsVars
  BY <1>2 DEF accountsVars, AccountsInv, OneAddressEach, OfSomebody
<1> QED BY <1>1, <1>2

LEMMA AccountsBegin ==
  AccountsInit => AccountsInv
<1> SUFFICES ASSUME AccountsInit PROVE AccountsInv
  OBVIOUS
<1>1. /\ people = <<>> /\ byId = {} /\ DOMAIN byMail = {} /\ issued = {}
      /\ awaited \in [UserCalls -> Awaiting] /\ \A h \in UserCalls : awaited[h] = NotAwaiting
  BY DEF AccountsInit, Awaiting
<1>2. OneAddressEach
  BY <1>1 DEF OneAddressEach
<1>3. \A h \in UserCalls : OfSomebody(awaited[h])
  BY <1>1 DEF OfSomebody, NotAwaiting
<1> QED BY <1>1, <1>2, <1>3 DEF AccountsInv

\* Each user of the fallback store has one address to sign in by and no two have the same, and a
\* password is changed only for one who gave a password that the user has or has had: for any
\* addresses, passwords and calls, however their awaits overlap (auth-store.ts, auth.ts).
THEOREM AddressesAreOnes == AccountsSpec => []OneAddressEach /\ []PasswordsProven
<1>1. AccountsInv => OneAddressEach
  BY DEF AccountsInv
<1>2. AccountsInv => PasswordsProven
  BY DEF AccountsInv, OfSomebody, PasswordsProven
<1> QED BY <1>1, <1>2, AccountsBegin, AccountsKeep, PTL DEF AccountsSpec

(***************************************************************************)
(* Tables.                                                                 *)
(*                                                                         *)
(* A value would be lost if a statement met a column of the name it gives, *)
(* or a column that another field had left.  Every statement's place in    *)
(* the list says which columns there are before it: those of the fields    *)
(* that keep theirs, those still to drop, and one of three names for each  *)
(* field to rename (TableAt); the invariant says that the table is that    *)
(* of the statements done (Underway), and each step leads to the next.     *)
(*                                                                         *)
(* Lists are built by recursive functions.  What the library says of       *)
(* induction takes predicates; the lemma here takes a set, by way of the   *)
(* least element that it lacks.                                            *)
(***************************************************************************)
Below == {p \in Nat \X Nat : p[1] < p[2]}

LEMMA LeastElement ==
  ASSUME NEW T \in SUBSET Nat, T # {}
  PROVE  \E x \in T : \A y \in T : x <= y
<1>1. IsWellFoundedOn(Below, Nat)
  BY NatLessThanWellFounded DEF OpToRel, Below
<1>2. PICK x \in T : \A y \in T : <<y, x>> \notin Below
  BY <1>1, WFMin
<1>3. ASSUME NEW y \in T PROVE x <= y
  <2>1. x \in Nat /\ y \in Nat
    OBVIOUS
  <2>2. y < x => <<y, x>> \in Below
    BY <2>1 DEF Below
  <2> QED BY <1>2, <2>1, <2>2
<1> QED BY <1>3

LEMMA Induction ==
  ASSUME NEW S, 0 \in S, \A n \in Nat : n \in S => n + 1 \in S
  PROVE  Nat \subseteq S
<1> SUFFICES ASSUME Nat \ S # {} PROVE FALSE
  OBVIOUS
<1>1. PICK x \in Nat \ S : \A y \in Nat \ S : x <= y
  BY LeastElement
<1>2. x # 0 /\ x - 1 \in Nat /\ x - 1 \in S
  BY <1>1
<1> QED BY <1>2

\* Fields apart: of their own ids and names each.
Apart(list) ==
    /\ IsList(list)
    /\ \A i, j \in DOMAIN list : i # j => list[i].id # list[j].id /\ list[i].name # list[j].name

LEMMA ListIs ==
  ASSUME NEW S, NEW list \in Seq(S)
  PROVE  IsList(list)
<1>1. Len(list) \in Nat /\ DOMAIN list = 1..Len(list) /\ list = [i \in 1..Len(list) |-> list[i]]
  BY LenProperties
<1> DEFINE T == {list[i] : i \in DOMAIN list}
<1>2. list \in [1..Len(list) -> T]
  BY <1>1
<1> HIDE DEF T
<1>3. list \in Seq(T)
  BY <1>1, <1>2
<1> QED BY <1>3 DEF IsList, T

LEMMA ListOver ==
  ASSUME NEW list, IsList(list), NEW T, \A i \in DOMAIN list : list[i] \in T
  PROVE  list \in Seq(T) /\ Len(list) \in Nat /\ DOMAIN list = 1..Len(list)
<1> DEFINE S == {list[i] : i \in DOMAIN list}
<1>1. list \in Seq(S)
  BY DEF IsList
<1>2. S \subseteq T
  OBVIOUS
<1> HIDE DEF S
<1> QED BY <1>1, <1>2, SeqMonotonic, LenProperties

\* The element that comes of placing a field keeps a list a list.
LEMMA PlacedIsList ==
  ASSUME NEW list, IsList(list), NEW at \in Int, NEW field
  PROVE  IsList(Placed(list, at, field))
<1> DEFINE same == IF field.id = "" THEN Named(list, field.name) ELSE WithId(list, field.id)
           first == Min(same)
           new == [field EXCEPT !.id = CASE field.id # "" -> field.id
                                         [] same # {} -> list[first].id
                                         [] OTHER -> FreshId(list, field)]
           rest == IF same = {} THEN list ELSE RemoveAt(list, first)
           index == IF at < 0 \/ at > Len(rest) THEN Len(rest) + 1 ELSE at + 1
           S == {list[i] : i \in DOMAIN list} \cup {new}
<1>1. list \in Seq(S) /\ Len(list) \in Nat /\ DOMAIN list = 1..Len(list) /\ new \in S
  <2> HIDE DEF new
  <2> QED BY ListOver
<1>2. same \subseteq DOMAIN list
  BY DEF Named, WithId
<1>3. Placed(list, at, field) = IF same # {} /\ at < 0 THEN [list EXCEPT ![first] = new] ELSE InsertAt(rest, index, new)
  BY DEF Placed
<1> HIDE DEF same, new, S
<1>4. same # {} => first \in DOMAIN list
  <2> SUFFICES ASSUME same # {} PROVE first \in DOMAIN list
    OBVIOUS
  <2>1. \E x \in same : \A y \in same : x <= y
    BY <1>1, <1>2, LeastElement
  <2> QED BY <1>2, <2>1 DEF Min
<1>5. CASE same # {} /\ at < 0
  BY <1>1, <1>3, <1>4, <1>5, ExceptSeq, ListIs
<1>6. CASE ~(same # {} /\ at < 0)
  <2>1. rest \in Seq(S)
    BY <1>1, <1>4, RemoveAtSeq
  <2> HIDE DEF rest
  <2>2. Len(rest) \in Nat /\ index \in 1..(Len(rest) + 1) /\ \A i \in 1..Len(rest) : rest[i] \in S
    BY <2>1, LenProperties, ElementOfSeq
  <2> HIDE DEF index
  <2>3. SubSeq(rest, 1, index - 1) \in Seq(S) /\ SubSeq(rest, index, Len(rest)) \in Seq(S)
    <3>1. 1 \in Int /\ index - 1 \in Int /\ index \in Int /\ Len(rest) \in Int
          /\ (\A i \in 1..(index - 1) : rest[i] \in S) /\ (\A i \in index..Len(rest) : rest[i] \in S)
      BY <2>2
    <3> QED BY <3>1, SubSeqProperties
  <2>4. <<new>> \in Seq(S)
    BY <1>1
  <2>5. InsertAt(rest, index, new) \in Seq(S)
    BY <2>3, <2>4, ConcatProperties DEF InsertAt
  <2> QED BY <1>3, <1>6, <2>5, ListIs
<1> QED BY <1>5, <1>6

\* The fields of a draft are a list.
LEMMA FieldsAreList ==
  ASSUME NEW adds, IsList(adds), \A i \in DOMAIN adds : adds[i].at \in Int
  PROVE  IsList(FieldsOf(adds))
<1> DEFINE n == Len(adds)
           Next1(list, i) == Placed(list, adds[i].at, adds[i].field)
           Along(f, k) == f[0] = <<>> /\ \A i \in 1..k : f[i] = Next1(f[i - 1], i)
           S == {k \in Nat : k <= n => \E f : Along(f, k)}
           F(f) == [i \in 0..n |-> IF i = 0 THEN <<>> ELSE Next1(f[i - 1], i)]
<1>1. n \in Nat /\ DOMAIN adds = 1..n
  BY ListOver
<1>2. \A list, i : IsList(list) /\ i \in 1..n => IsList(Next1(list, i))
  BY <1>1, PlacedIsList
<1> HIDE DEF n, Next1
<1>3. 0 \in S
  <2>1. Along([i \in {0} |-> <<>>], 0)
    OBVIOUS
  <2> QED BY <2>1
<1>4. ASSUME NEW k \in Nat, k \in S PROVE k + 1 \in S
  <2> SUFFICES ASSUME k + 1 <= n PROVE \E f : Along(f, k + 1)
    OBVIOUS
  <2>1. PICK f : Along(f, k)
    BY <1>1, <1>4
  <2> DEFINE g == [i \in 0..(k + 1) |-> IF i = k + 1 THEN Next1(f[k], k + 1) ELSE f[i]]
  <2>2. g[0] = <<>> /\ g[k + 1] = Next1(f[k], k + 1) /\ \A i \in 0..k : g[i] = f[i]
    BY <2>1
  <2> HIDE DEF g
  <2>3. ASSUME NEW i \in 1..(k + 1) PROVE g[i] = Next1(g[i - 1], i)
    BY <2>1, <2>2
  <2> QED BY <2>2, <2>3
<1> HIDE DEF S
<1>5. n \in S
  BY <1>1, <1>3, <1>4, Induction
<1>6. PICK f : Along(f, n)
  BY <1>1, <1>5 DEF S
<1> DEFINE g == [i \in 0..n |-> f[i]]
<1>7. g[0] = <<>> /\ \A i \in 1..n : g[i] = Next1(g[i - 1], i)
  BY <1>1, <1>6
<1>8. g = F(g)
  <2> DEFINE h == g
  <2>1. h = [i \in 0..n |-> h[i]] /\ h[0] = <<>> /\ \A i \in 1..n : h[i] = Next1(h[i - 1], i)
    BY <1>7
  <2> HIDE DEF h
  <2>2. ASSUME NEW i \in 0..n PROVE h[i] = IF i = 0 THEN <<>> ELSE Next1(h[i - 1], i)
    <3>1. i = 0 \/ (i \in 1..n /\ i # 0)
      BY <1>1
    <3> QED BY <2>1, <3>1
  <2>3. h = F(h)
    BY <2>1, <2>2
  <2> QED BY <2>3 DEF h
<1> HIDE DEF g
<1> DEFINE r == CHOOSE added : added = F(added)
<1>9. r = F(r)
  BY <1>8
<1> HIDE DEF r
<1>10. r[0] = <<>> /\ \A i \in 1..n : r[i] = Next1(r[i - 1], i)
  BY <1>1, <1>9
<1>11. FieldsOf(adds) = r[n]
  BY DEF FieldsOf, r, n, Next1
<1> DEFINE T == {i \in Nat : i <= n => IsList(r[i])}
<1>12. 0 \in T
  <2>1. <<>> \in Seq({})
    OBVIOUS
  <2> QED BY <1>10, <2>1, ListIs
<1>13. ASSUME NEW i \in Nat, i \in T PROVE i + 1 \in T
  <2> SUFFICES ASSUME i + 1 <= n PROVE IsList(r[i + 1])
    OBVIOUS
  <2>1. i + 1 \in 1..n /\ IsList(r[i]) /\ (i + 1) - 1 = i
    BY <1>1, <1>13
  <2> QED BY <1>2, <1>10, <2>1
<1> HIDE DEF T
<1>14. n \in T
  BY <1>1, <1>12, <1>13, Induction
<1> QED BY <1>1, <1>11, <1>14 DEF T

\* What is picked of a list: its elements at the places, each once.
LEMMA PickedIs ==
  ASSUME NEW list, IsList(list), NEW places \in SUBSET DOMAIN list
  PROVE  LET P == Picked(list, places) IN
         /\ IsList(P) /\ Len(P) \in Nat /\ DOMAIN P = 1..Len(P)
         /\ \E at \in [1..Len(P) -> places] :
               /\ \A i, j \in 1..Len(P) : i # j => at[i] # at[j]
               /\ \A x \in places : \E i \in 1..Len(P) : at[i] = x
               /\ \A i \in 1..Len(P) : P[i] = list[at[i]]
<1> DEFINE n == Len(list)
           E == {list[i] : i \in DOMAIN list}
           Next1(s, i) == IF i \in places THEN Append(s, list[i]) ELSE s
           Along(f, k) == f[0] = <<>> /\ \A i \in 1..k : f[i] = Next1(f[i - 1], i)
           Of(s, k) == /\ s \in Seq(E)
                       /\ \E at \in [1..Len(s) -> places] :
                             /\ \A i, j \in 1..Len(s) : i # j => at[i] # at[j]
                             /\ \A i \in 1..Len(s) : at[i] <= k /\ s[i] = list[at[i]]
                             /\ \A x \in places : x <= k => \E i \in 1..Len(s) : at[i] = x
           S == {k \in Nat : k <= n => \E f : Along(f, k)}
           F(f) == [i \in 0..n |-> IF i = 0 THEN <<>> ELSE Next1(f[i - 1], i)]
<1>1. n \in Nat /\ DOMAIN list = 1..n /\ \A i \in 1..n : list[i] \in E
  BY ListOver
<1>2. ASSUME NEW s, NEW i \in 1..n, Of(s, i - 1) PROVE Of(Next1(s, i), i)
  <2>1. s \in Seq(E)
    BY <1>2
  <2>2. PICK at \in [1..Len(s) -> places] :
             /\ \A j, l \in 1..Len(s) : j # l => at[j] # at[l]
             /\ \A j \in 1..Len(s) : at[j] <= i - 1 /\ s[j] = list[at[j]]
             /\ \A x \in places : x <= i - 1 => \E j \in 1..Len(s) : at[j] = x
    BY <1>2
  <2> HIDE DEF E
  <2>3. Len(s) \in Nat /\ \A j \in 1..Len(s) : at[j] \in places /\ at[j] \in 1..n
    BY <1>1, <2>1, LenProperties
  <2>4. CASE i \notin places
    <3>1. ASSUME NEW j \in 1..Len(s) PROVE at[j] <= i
      <4>1. at[j] \in 1..n /\ at[j] <= i - 1
        BY <2>2, <2>3
      <4> QED BY <1>1, <4>1
    <3>2. ASSUME NEW x \in places, x <= i PROVE \E j \in 1..Len(s) : at[j] = x
      <4>1. x # i /\ x \in 1..n
        BY <1>1, <2>4
      <4>2. x <= i - 1
        BY <3>2, <4>1
      <4> QED BY <2>2, <4>2
    <3> QED BY <2>1, <2>2, <2>4, <3>1, <3>2
  <2>5. CASE i \in places
    <3> DEFINE t == Append(s, list[i])
               to == [j \in 1..(Len(s) + 1) |-> IF j = Len(s) + 1 THEN i ELSE at[j]]
    <3>1. /\ t \in Seq(E) /\ Len(t) = Len(s) + 1 /\ t[Len(s) + 1] = list[i]
          /\ \A j \in 1..Len(s) : t[j] = s[j]
      BY <1>1, <2>1, AppendProperties
    <3>2. to \in [1..Len(t) -> places] /\ to[Len(s) + 1] = i /\ \A j \in 1..Len(s) : to[j] = at[j]
      <4>1. \A j \in 1..(Len(s) + 1) : j # Len(s) + 1 => j \in 1..Len(s)
        BY <2>3
      <4>2. \A j \in 1..Len(s) : j # Len(s) + 1 /\ j \in 1..(Len(s) + 1)
        BY <2>3
      <4>3. Len(s) + 1 \in 1..(Len(s) + 1)
        BY <2>3
      <4> QED BY <2>3, <2>5, <3>1, <4>1, <4>2, <4>3
    <3> HIDE DEF t, to
    <3>3. \A j \in 1..Len(t) : j = Len(s) + 1 \/ j \in 1..Len(s)
      BY <2>3, <3>1
    <3>4. \A j \in 1..Len(t) : to[j] <= i /\ t[j] = list[to[j]]
      BY <2>2, <2>3, <3>1, <3>2, <3>3
    <3>5. \A j, l \in 1..Len(t) : j # l => to[j] # to[l]
      <4>1. \A j \in 1..Len(s) : at[j] # i
        BY <2>2, <2>3
      <4> QED BY <2>2, <3>2, <3>3, <4>1
    <3>6. ASSUME NEW x \in places, x <= i PROVE \E j \in 1..Len(t) : to[j] = x
      <4>1. Len(s) + 1 \in 1..Len(t) /\ \A j \in 1..Len(s) : j \in 1..Len(t)
        BY <2>3, <3>1
      <4>2. x \in 1..n
        BY <1>1
      <4>3. x = i \/ x <= i - 1
        BY <3>6, <4>2
      <4> QED BY <2>2, <3>2, <4>1, <4>3
    <3>7. Next1(s, i) = t
      BY <2>5 DEF t
    <3> HIDE DEF Next1
    <3>8. Of(t, i)
      BY <3>1, <3>2, <3>4, <3>5, <3>6
    <3> HIDE DEF Of
    <3> QED BY <3>7, <3>8
  <2> QED BY <2>4, <2>5
<1>3. Of(<<>>, 0)
  <2>1. <<>> \in Seq(E) /\ Len(<<>>) = 0 /\ 1..0 = {}
    BY EmptySeq
  <2>2. [j \in 1..0 |-> 0] \in [1..Len(<<>>) -> places]
    BY <2>1
  <2>3. \A x \in places : ~(x <= 0)
    BY <1>1
  <2> QED BY <2>1, <2>2, <2>3
<1> HIDE DEF n, Next1, Of
<1>4. 0 \in S
  <2>1. Along([i \in {0} |-> <<>>], 0)
    OBVIOUS
  <2> QED BY <2>1
<1>5. ASSUME NEW k \in Nat, k \in S PROVE k + 1 \in S
  <2> SUFFICES ASSUME k + 1 <= n PROVE \E f : Along(f, k + 1)
    OBVIOUS
  <2>1. PICK f : Along(f, k)
    BY <1>1, <1>5
  <2> DEFINE g == [i \in 0..(k + 1) |-> IF i = k + 1 THEN Next1(f[k], k + 1) ELSE f[i]]
  <2>2. g[0] = <<>> /\ g[k + 1] = Next1(f[k], k + 1) /\ \A i \in 0..k : g[i] = f[i]
    BY <2>1
  <2> HIDE DEF g
  <2>3. ASSUME NEW i \in 1..(k + 1) PROVE g[i] = Next1(g[i - 1], i)
    BY <2>1, <2>2
  <2> QED BY <2>2, <2>3
<1> HIDE DEF S
<1>6. n \in S
  BY <1>1, <1>4, <1>5, Induction
<1>7. PICK f : Along(f, n)
  BY <1>1, <1>6 DEF S
<1> DEFINE g == [i \in 0..n |-> f[i]]
<1>8. g[0] = <<>> /\ \A i \in 1..n : g[i] = Next1(g[i - 1], i)
  <2>1. \A i \in 0..n : g[i] = f[i]
    OBVIOUS
  <2> HIDE DEF g
  <2>2. 0 \in 0..n /\ \A i \in 1..n : i \in 0..n /\ i - 1 \in 0..n
    BY <1>1
  <2> QED BY <1>7, <2>1, <2>2
<1>9. g = F(g)
  <2> DEFINE h == g
  <2>1. h = [i \in 0..n |-> h[i]] /\ h[0] = <<>> /\ \A i \in 1..n : h[i] = Next1(h[i - 1], i)
    BY <1>8
  <2> HIDE DEF h
  <2>2. ASSUME NEW i \in 0..n PROVE h[i] = IF i = 0 THEN <<>> ELSE Next1(h[i - 1], i)
    <3>1. i = 0 \/ (i \in 1..n /\ i # 0)
      BY <1>1
    <3> QED BY <2>1, <3>1
  <2>3. h = F(h)
    BY <2>1, <2>2
  <2> QED BY <2>3 DEF h
<1> HIDE DEF g
<1> DEFINE r == CHOOSE upTo : upTo = [i \in 0..n |-> IF i = 0 THEN <<>> ELSE
                                       IF i \in places THEN Append(upTo[i - 1], list[i]) ELSE upTo[i - 1]]
<1>10. r = F(r)
  BY <1>9 DEF Next1
<1>11. Picked(list, places) = r[n]
  BY DEF Picked, n
<1> HIDE DEF r
<1>12. r[0] = <<>> /\ \A i \in 1..n : r[i] = Next1(r[i - 1], i)
  BY <1>1, <1>10
<1> DEFINE T == {i \in Nat : i <= n => Of(r[i], i)}
<1>13. 0 \in T
  BY <1>3, <1>12
<1>14. ASSUME NEW i \in Nat, i \in T PROVE i + 1 \in T
  <2> SUFFICES ASSUME i + 1 <= n PROVE Of(r[i + 1], i + 1)
    OBVIOUS
  <2>1. i + 1 \in 1..n /\ Of(r[i], i) /\ (i + 1) - 1 = i
    BY <1>1, <1>14
  <2> QED BY <1>2, <1>12, <2>1
<1> HIDE DEF T
<1>15. Of(r[n], n)
  <2>1. n \in T
    BY <1>1, <1>13, <1>14, Induction
  <2> QED BY <1>1, <2>1 DEF T
<1> DEFINE P == Picked(list, places)
<1>16. P \in Seq(E) /\ Of(P, n)
  BY <1>11, <1>15 DEF Of
<1> HIDE DEF P
<1>17. IsList(P) /\ Len(P) \in Nat /\ DOMAIN P = 1..Len(P)
  BY <1>16, LenProperties, ListIs
<1>18. \A x \in places : x <= n
  BY <1>1
<1>19. \E at \in [1..Len(P) -> places] :
          /\ \A i, j \in 1..Len(P) : i # j => at[i] # at[j]
          /\ \A x \in places : \E i \in 1..Len(P) : at[i] = x
          /\ \A i \in 1..Len(P) : P[i] = list[at[i]]
  BY <1>16, <1>18 DEF Of
<1> QED BY <1>17, <1>19 DEF P

\* Of fields that are apart, what is picked is apart.
LEMMA PickedApart ==
  ASSUME NEW list, Apart(list), NEW places \in SUBSET DOMAIN list
  PROVE  LET P == Picked(list, places) IN
         /\ Len(P) \in Nat /\ DOMAIN P = 1..Len(P) /\ Apart(P)
         /\ \A i \in DOMAIN P : \E x \in places : P[i] = list[x]
         /\ \A x \in places : \E i \in DOMAIN P : P[i] = list[x]
<1> DEFINE P == Picked(list, places)
<1>1. IsList(P) /\ Len(P) \in Nat /\ DOMAIN P = 1..Len(P)
  BY PickedIs DEF Apart
<1>2. PICK at \in [1..Len(P) -> places] :
          /\ \A i, j \in 1..Len(P) : i # j => at[i] # at[j]
          /\ \A x \in places : \E i \in 1..Len(P) : at[i] = x
          /\ \A i \in 1..Len(P) : P[i] = list[at[i]]
  BY PickedIs DEF Apart
<1> HIDE DEF P
<1>3. \A i \in DOMAIN P : at[i] \in places /\ at[i] \in DOMAIN list
  BY <1>1, <1>2
<1>4. Apart(P)
  BY <1>1, <1>2, <1>3 DEF Apart
<1> QED BY <1>1, <1>2, <1>3, <1>4 DEF P

\* The fields that keep their column.
Kept(new, old) ==
    {j \in DOMAIN old.fields : \E i \in DOMAIN new.fields :
        new.fields[i].id = old.fields[j].id /\ new.fields[i].name = old.fields[j].name}
\* Where the values of the i-th of the fields to rename are after k statements.
PlaceOf(new, old, i, k) ==
    LET f == ToRename(new, old)[i]
        begin == Len(Dropped(new, old)) + i
    IN  IF k < begin THEN ColumnName(OldField(old, f).name)
        ELSE IF k < Len(ToRename(new, old)) + begin THEN TempName(f.name) ELSE ColumnName(f.name)
\* The table after k statements, as pairs of a column and the id of the field whose values it holds.
TableAt(new, old, k) ==
    {<<ColumnName(old.fields[j].name), old.fields[j].id>> : j \in Kept(new, old)}
    \cup {<<ColumnName(Dropped(new, old)[i].name), Dropped(new, old)[i].id>> : i \in {i \in DOMAIN Dropped(new, old) : k < i}}
    \cup {<<PlaceOf(new, old, i, k), ToRename(new, old)[i].id>> :
            i \in {i \in DOMAIN ToRename(new, old) :
                     IsAdded(old, ToRename(new, old)[i]) => Len(Dropped(new, old)) + i <= k}}
CreatedAt(new, k) ==
    {<<ColumnName(new.fields[i].name), new.fields[i].id>> : i \in {i \in DOMAIN new.fields : i <= k}}
TableOf(collection) ==
    {<<ColumnName(collection.fields[i].name), collection.fields[i].id>> : i \in DOMAIN collection.fields}
ColumnPairs == {<<c, columns[c]>> : c \in DOMAIN columns}

LEMMA NamesApart ==
  /\ \A a, b : ColumnName(a) = ColumnName(b) => a = b
  /\ \A a, b : TempName(a) = TempName(b) => a = b
  /\ \A a, b : ColumnName(a) # TempName(b)
<1>1. \A a, b : <<a>> = <<b>> => a = b
  OBVIOUS
<1>2. \A a, b : <<a, "~">> = <<b, "~">> => a = b
  OBVIOUS
<1>3. ASSUME NEW a, NEW b, <<a>> = <<b, "~">> PROVE FALSE
  <2>1. Len(<<a>>) = 1 /\ Len(<<b, "~">>) = 2
    OBVIOUS
  <2> QED BY <1>3, <2>1
<1> QED BY <1>1, <1>2, <1>3 DEF ColumnName, TempName

\* The field of an id.
LEMMA OldFieldIs ==
  ASSUME NEW old, Apart(old.fields), NEW j \in DOMAIN old.fields, NEW f, f.id = old.fields[j].id
  PROVE  ~IsAdded(old, f) /\ OldField(old, f) = old.fields[j]
<1>1. WithId(old.fields, f.id) = {j}
  BY DEF WithId, Apart
<1>2. DOMAIN old.fields = 1..Len(old.fields) /\ Len(old.fields) \in Nat
  BY ListOver DEF Apart
<1>3. Min({j}) = j
  <2>1. j \in Int
    BY <1>2
  <2> QED BY <2>1 DEF Min
<1> QED BY <1>1, <1>3 DEF IsAdded, OldField

\* Which fields are dropped, and which are renamed.
DroppedAre(new, old, D) ==
    /\ Apart(D) /\ Len(D) \in Nat /\ DOMAIN D = 1..Len(D)
    /\ \A i \in DOMAIN D : \E j \in DOMAIN old.fields : D[i] = old.fields[j] /\ WithId(new.fields, D[i].id) = {}
    /\ \A j \in DOMAIN old.fields : WithId(new.fields, old.fields[j].id) = {} => \E i \in DOMAIN D : D[i] = old.fields[j]
RenamedAre(new, old, M) ==
    /\ Apart(M) /\ Len(M) \in Nat /\ DOMAIN M = 1..Len(M)
    /\ \A i \in DOMAIN M : \E x \in DOMAIN new.fields :
          M[i] = new.fields[x] /\ (IsAdded(old, M[i]) \/ OldField(old, M[i]).name # M[i].name)
    /\ \A x \in DOMAIN new.fields :
          IsAdded(old, new.fields[x]) \/ OldField(old, new.fields[x]).name # new.fields[x].name
             => \E i \in DOMAIN M : M[i] = new.fields[x]

LEMMA ListsAre ==
  ASSUME NEW new, NEW old, Apart(new.fields), Apart(old.fields)
  PROVE  DroppedAre(new, old, Dropped(new, old)) /\ RenamedAre(new, old, ToRename(new, old))
<1> DEFINE D == Dropped(new, old)
           M == ToRename(new, old)
           dropped == {i \in DOMAIN old.fields : WithId(new.fields, old.fields[i].id) = {}}
           renamed == {x \in DOMAIN new.fields :
                          IsAdded(old, new.fields[x]) \/ OldField(old, new.fields[x]).name # new.fields[x].name}
<1>1. D = Picked(old.fields, dropped) /\ M = Picked(new.fields, renamed)
  BY DEF Dropped, ToRename
<1>2. dropped \in SUBSET DOMAIN old.fields /\ renamed \in SUBSET DOMAIN new.fields
  OBVIOUS
<1> HIDE DEF D, M, dropped, renamed
<1>3. /\ Len(D) \in Nat /\ DOMAIN D = 1..Len(D) /\ Apart(D)
      /\ \A i \in DOMAIN D : \E x \in dropped : D[i] = old.fields[x]
      /\ \A x \in dropped : \E i \in DOMAIN D : D[i] = old.fields[x]
  BY <1>1, <1>2, PickedApart
<1>4. /\ Len(M) \in Nat /\ DOMAIN M = 1..Len(M) /\ Apart(M)
      /\ \A i \in DOMAIN M : \E x \in renamed : M[i] = new.fields[x]
      /\ \A x \in renamed : \E i \in DOMAIN M : M[i] = new.fields[x]
  BY <1>1, <1>2, PickedApart
<1>5. \A i \in DOMAIN D : \E j \in DOMAIN old.fields : D[i] = old.fields[j] /\ WithId(new.fields, D[i].id) = {}
  BY <1>3 DEF dropped
<1>6. \A i \in DOMAIN M : \E x \in DOMAIN new.fields :
         M[i] = new.fields[x] /\ (IsAdded(old, M[i]) \/ OldField(old, M[i]).name # M[i].name)
  BY <1>4 DEF renamed
<1>7. \A j \in DOMAIN old.fields : WithId(new.fields, old.fields[j].id) = {} => \E i \in DOMAIN D : D[i] = old.fields[j]
  BY <1>3 DEF dropped
<1>8. \A x \in DOMAIN new.fields :
         IsAdded(old, new.fields[x]) \/ OldField(old, new.fields[x]).name # new.fields[x].name
            => \E i \in DOMAIN M : M[i] = new.fields[x]
  BY <1>4 DEF renamed
<1> QED BY <1>3, <1>4, <1>5, <1>6, <1>7, <1>8 DEF D, M, DroppedAre, RenamedAre

\* Kept, dropped and renamed fields are different ones, and a kept name is no renamed one's.
LEMMA ListsApart ==
  ASSUME NEW new, NEW old, Apart(new.fields), Apart(old.fields)
  PROVE  LET D == Dropped(new, old)
             M == ToRename(new, old)
         IN
         /\ \A j \in Kept(new, old), i \in DOMAIN D : old.fields[j].id # D[i].id
         /\ \A j \in Kept(new, old), i \in DOMAIN M : old.fields[j].id # M[i].id /\ old.fields[j].name # M[i].name
         /\ \A i \in DOMAIN D, l \in DOMAIN M : D[i].id # M[l].id
<1> DEFINE D == Dropped(new, old)
           M == ToRename(new, old)
<1>1. DroppedAre(new, old, D) /\ RenamedAre(new, old, M)
  BY ListsAre
<1> HIDE DEF D, M
<1>2. ASSUME NEW j \in Kept(new, old), NEW i \in DOMAIN D PROVE old.fields[j].id # D[i].id
  BY <1>1 DEF DroppedAre, Kept, WithId
<1>3. ASSUME NEW i \in DOMAIN D, NEW l \in DOMAIN M PROVE D[i].id # M[l].id
  BY <1>1 DEF DroppedAre, RenamedAre, WithId
<1>4. ASSUME NEW j \in Kept(new, old), NEW i \in DOMAIN M PROVE old.fields[j].id # M[i].id /\ old.fields[j].name # M[i].name
  <2>1. PICK y \in DOMAIN new.fields : new.fields[y].id = old.fields[j].id /\ new.fields[y].name = old.fields[j].name
    BY DEF Kept
  <2>2. PICK x \in DOMAIN new.fields :
               M[i] = new.fields[x] /\ (IsAdded(old, M[i]) \/ OldField(old, M[i]).name # M[i].name)
    BY <1>1 DEF RenamedAre
  <2>3. ASSUME M[i].id = old.fields[j].id \/ M[i].name = old.fields[j].name PROVE FALSE
    <3>1. x = y
      BY <2>1, <2>2, <2>3 DEF Apart
    <3>2. ~IsAdded(old, M[i]) /\ OldField(old, M[i]) = old.fields[j]
      BY <2>1, <2>2, <3>1, OldFieldIs DEF Kept
    <3> QED BY <2>1, <2>2, <3>1, <3>2
  <2> QED BY <2>3
<1> QED BY <1>2, <1>3, <1>4 DEF D, M

\* A table is altered from that of the old fields to that of the new ones.
LEMMA TableEnds ==
  ASSUME NEW new, NEW old, Apart(new.fields), Apart(old.fields)
  PROVE  /\ TableAt(new, old, 0) = TableOf(old)
         /\ TableAt(new, old, Len(Dropped(new, old)) + 2 * Len(ToRename(new, old))) = TableOf(new)
<1> DEFINE D == Dropped(new, old)
           M == ToRename(new, old)
           stays == {<<ColumnName(old.fields[j].name), old.fields[j].id>> : j \in Kept(new, old)}
<1>1. DroppedAre(new, old, D) /\ RenamedAre(new, old, M)
  BY ListsAre
<1>2. TableAt(new, old, 0) = TableOf(old)
  <2> DEFINE gone == {<<ColumnName(D[i].name), D[i].id>> : i \in DOMAIN D}
             moved == {<<ColumnName(OldField(old, M[i]).name), M[i].id>> : i \in {i \in DOMAIN M : ~IsAdded(old, M[i])}}
  <2>1. TableAt(new, old, 0) = stays \cup gone \cup moved
    <3>1. {i \in DOMAIN D : 0 < i} = DOMAIN D
      BY <1>1 DEF DroppedAre, RenamedAre
    <3>2. {i \in DOMAIN M : IsAdded(old, M[i]) => Len(D) + i <= 0} = {i \in DOMAIN M : ~IsAdded(old, M[i])}
      BY <1>1 DEF DroppedAre, RenamedAre
    <3>3. \A i \in DOMAIN M : PlaceOf(new, old, i, 0) = ColumnName(OldField(old, M[i]).name)
      BY <1>1 DEF DroppedAre, RenamedAre, PlaceOf
    <3> QED BY <3>1, <3>2, <3>3 DEF TableAt
  <2> HIDE DEF D, M
  <2>2. ASSUME NEW j \in DOMAIN old.fields PROVE <<ColumnName(old.fields[j].name), old.fields[j].id>> \in stays \cup gone \cup moved
    <3>1. CASE WithId(new.fields, old.fields[j].id) = {}
      BY <1>1, <3>1 DEF DroppedAre, RenamedAre
    <3>2. CASE j \in Kept(new, old)
      BY <3>2
    <3>3. CASE WithId(new.fields, old.fields[j].id) # {} /\ j \notin Kept(new, old)
      <4>1. PICK x \in DOMAIN new.fields : new.fields[x].id = old.fields[j].id
        BY <3>3 DEF WithId
      <4>2. ~IsAdded(old, new.fields[x]) /\ OldField(old, new.fields[x]) = old.fields[j]
        BY <4>1, OldFieldIs
      <4>3. old.fields[j].name # new.fields[x].name
        BY <3>3, <4>1 DEF Kept
      <4>4. PICK i \in DOMAIN M : M[i] = new.fields[x]
        BY <1>1, <4>2, <4>3 DEF RenamedAre
      <4> QED BY <4>1, <4>2, <4>4
    <3> QED BY <3>1, <3>2, <3>3
  <2>3. stays \subseteq TableOf(old)
    BY DEF Kept, TableOf
  <2>4. gone \subseteq TableOf(old)
    BY <1>1 DEF DroppedAre, RenamedAre, TableOf
  <2>5. ASSUME NEW i \in DOMAIN M, ~IsAdded(old, M[i])
        PROVE  <<ColumnName(OldField(old, M[i]).name), M[i].id>> \in TableOf(old)
    <3>1. PICK j \in DOMAIN old.fields : old.fields[j].id = M[i].id
      BY <2>5 DEF IsAdded, WithId
    <3>2. OldField(old, M[i]) = old.fields[j]
      BY <3>1, OldFieldIs
    <3> QED BY <3>1, <3>2 DEF TableOf
  <2>6. TableOf(old) \subseteq stays \cup gone \cup moved
    BY <2>2 DEF TableOf
  <2> QED BY <2>1, <2>3, <2>4, <2>5, <2>6
<1>3. TableAt(new, old, Len(D) + 2 * Len(M)) = TableOf(new)
  <2> DEFINE named == {<<ColumnName(M[i].name), M[i].id>> : i \in DOMAIN M}
  <2>1. TableAt(new, old, Len(D) + 2 * Len(M)) = stays \cup named
    <3> DEFINE k == Len(D) + 2 * Len(M)
    <3>1. {i \in DOMAIN D : k < i} = {}
      BY <1>1 DEF DroppedAre, RenamedAre
    <3>2. {i \in DOMAIN M : IsAdded(old, M[i]) => Len(D) + i <= k} = DOMAIN M
      BY <1>1 DEF DroppedAre, RenamedAre
    <3>3. \A i \in DOMAIN M : PlaceOf(new, old, i, k) = ColumnName(M[i].name)
      BY <1>1 DEF DroppedAre, RenamedAre, PlaceOf
    <3> QED BY <3>1, <3>2, <3>3 DEF TableAt
  <2> HIDE DEF D, M
  <2>2. stays \subseteq TableOf(new)
    BY DEF Kept, TableOf
  <2>3. named \subseteq TableOf(new)
    BY <1>1 DEF DroppedAre, RenamedAre, TableOf
  <2>4. ASSUME NEW x \in DOMAIN new.fields PROVE <<ColumnName(new.fields[x].name), new.fields[x].id>> \in stays \cup named
    <3>1. CASE IsAdded(old, new.fields[x]) \/ OldField(old, new.fields[x]).name # new.fields[x].name
      BY <1>1, <3>1 DEF DroppedAre, RenamedAre
    <3>2. CASE ~IsAdded(old, new.fields[x]) /\ OldField(old, new.fields[x]).name = new.fields[x].name
      <4>1. PICK j \in DOMAIN old.fields : old.fields[j].id = new.fields[x].id
        BY <3>2 DEF IsAdded, WithId
      <4>2. OldField(old, new.fields[x]) = old.fields[j]
        BY <4>1, OldFieldIs
      <4>3. j \in Kept(new, old)
        BY <3>2, <4>1, <4>2 DEF Kept
      <4> QED BY <3>2, <4>1, <4>2, <4>3
    <3> QED BY <3>1, <3>2
  <2>5. TableOf(new) \subseteq stays \cup named
    BY <2>4 DEF TableOf
  <2> QED BY <2>1, <2>2, <2>3, <2>5
<1> QED BY <1>2, <1>3

\* The statements, one by one.
AlteredBy(new, old, S) ==
    LET D == Dropped(new, old)
        M == ToRename(new, old)
    IN
    /\ Len(S) = Len(D) + 2 * Len(M)
    /\ \A k \in 1..Len(D) : S[k] = Statement("drop", ColumnName(D[k].name), <<>>, NoField)
    /\ \A i \in 1..Len(M) :
          S[Len(D) + i] = IF IsAdded(old, M[i]) THEN Statement("add", TempName(M[i].name), <<>>, M[i].id)
                          ELSE Statement("rename", ColumnName(OldField(old, M[i]).name), TempName(M[i].name), NoField)
    /\ \A i \in 1..Len(M) :
          S[Len(D) + Len(M) + i] = Statement("rename", TempName(M[i].name), ColumnName(M[i].name), NoField)

LEMMA StatementsAre ==
  ASSUME NEW new, NEW old, Apart(new.fields), Apart(old.fields)
  PROVE  IsList(AlterTable(new, old)) /\ AlteredBy(new, old, AlterTable(new, old))
<1> DEFINE D == Dropped(new, old)
           M == ToRename(new, old)
           first == [i \in DOMAIN D |-> Statement("drop", ColumnName(D[i].name), <<>>, NoField)]
           second == [i \in DOMAIN M |->
                        IF IsAdded(old, M[i]) THEN Statement("add", TempName(M[i].name), <<>>, M[i].id)
                        ELSE Statement("rename", ColumnName(OldField(old, M[i]).name), TempName(M[i].name), NoField)]
           third == [i \in DOMAIN M |-> Statement("rename", TempName(M[i].name), ColumnName(M[i].name), NoField)]
           E == {first[i] : i \in DOMAIN D} \cup {second[i] : i \in DOMAIN M} \cup {third[i] : i \in DOMAIN M}
<1>1. Len(D) \in Nat /\ DOMAIN D = 1..Len(D) /\ Len(M) \in Nat /\ DOMAIN M = 1..Len(M)
  BY ListsAre DEF DroppedAre, RenamedAre
<1>2. AlterTable(new, old) = (first \o second) \o third
  BY DEF AlterTable
<1>3. /\ DOMAIN first = DOMAIN D /\ \A k \in DOMAIN D : first[k] = Statement("drop", ColumnName(D[k].name), <<>>, NoField)
      /\ DOMAIN second = DOMAIN M
      /\ \A i \in DOMAIN M :
            second[i] = IF IsAdded(old, M[i]) THEN Statement("add", TempName(M[i].name), <<>>, M[i].id)
                        ELSE Statement("rename", ColumnName(OldField(old, M[i]).name), TempName(M[i].name), NoField)
      /\ DOMAIN third = DOMAIN M /\ \A i \in DOMAIN M : third[i] = Statement("rename", TempName(M[i].name), ColumnName(M[i].name), NoField)
  OBVIOUS
<1>4. first \in [DOMAIN D -> E] /\ second \in [DOMAIN M -> E] /\ third \in [DOMAIN M -> E]
  <2> HIDE DEF D, M
  <2> QED OBVIOUS
<1> HIDE DEF D, M, first, second, third, E
<1>5. first \in Seq(E) /\ Len(first) = Len(D) /\ second \in Seq(E) /\ Len(second) = Len(M) /\ third \in Seq(E) /\ Len(third) = Len(M)
  <2>1. \A n \in Nat : \A f \in [1..n -> E] : f \in Seq(E) /\ Len(f) = n
    OBVIOUS
  <2>2. first \in [1..Len(D) -> E] /\ second \in [1..Len(M) -> E] /\ third \in [1..Len(M) -> E]
    BY <1>1, <1>4
  <2> QED BY <1>1, <2>1, <2>2
<1>6. /\ first \o second \in Seq(E) /\ Len(first \o second) = Len(D) + Len(M)
      /\ \A i \in 1..(Len(D) + Len(M)) : (first \o second)[i] = IF i <= Len(D) THEN first[i] ELSE second[i - Len(D)]
  BY <1>5, ConcatProperties
<1> DEFINE both == first \o second
           S == both \o third
<1> HIDE DEF both
<1>7. /\ S \in Seq(E) /\ Len(S) = Len(D) + Len(M) + Len(M)
      /\ \A i \in 1..(Len(D) + Len(M) + Len(M)) : S[i] = IF i <= Len(D) + Len(M) THEN both[i] ELSE third[i - (Len(D) + Len(M))]
  <2>1. both \in Seq(E) /\ Len(both) = Len(D) + Len(M) /\ third \in Seq(E) /\ Len(third) = Len(M)
    BY <1>5, <1>6 DEF both
  <2>2. /\ S \in Seq(E) /\ Len(S) = Len(both) + Len(third)
        /\ \A i \in 1..(Len(both) + Len(third)) : S[i] = IF i <= Len(both) THEN both[i] ELSE third[i - Len(both)]
    <3>1. both \in Seq(E) /\ third \in Seq(E)
      BY <2>1
    <3> HIDE DEF E
    <3>2. /\ both \o third \in Seq(E) /\ Len(both \o third) = Len(both) + Len(third)
          /\ \A i \in 1..(Len(both) + Len(third)) : (both \o third)[i] = IF i <= Len(both) THEN both[i] ELSE third[i - Len(both)]
      BY <3>1, ConcatProperties, Zenon
    <3> QED BY <3>2
  <2> HIDE DEF S
  <2> QED BY <2>1, <2>2
<1> HIDE DEF S
<1>8. Len(S) = Len(D) + 2 * Len(M)
  BY <1>1, <1>7
<1>9. \A k \in 1..Len(D) : S[k] = first[k]
  <2> SUFFICES ASSUME NEW k \in 1..Len(D) PROVE S[k] = first[k]
    OBVIOUS
  <2>1. k \in 1..(Len(D) + Len(M)) /\ k \in 1..(Len(D) + Len(M) + Len(M)) /\ k <= Len(D) /\ k <= Len(D) + Len(M)
    BY <1>1
  <2> QED BY <1>6, <1>7, <2>1 DEF both
<1>10. \A i \in 1..Len(M) : S[Len(D) + i] = second[i]
  <2> SUFFICES ASSUME NEW i \in 1..Len(M) PROVE S[Len(D) + i] = second[i]
    OBVIOUS
  <2>1. /\ Len(D) + i \in 1..(Len(D) + Len(M)) /\ Len(D) + i \in 1..(Len(D) + Len(M) + Len(M))
        /\ Len(D) + i <= Len(D) + Len(M) /\ ~(Len(D) + i <= Len(D)) /\ (Len(D) + i) - Len(D) = i
    BY <1>1
  <2> QED BY <1>6, <1>7, <2>1 DEF both
<1>11. \A i \in 1..Len(M) : S[Len(D) + Len(M) + i] = third[i]
  <2> SUFFICES ASSUME NEW i \in 1..Len(M) PROVE S[Len(D) + Len(M) + i] = third[i]
    OBVIOUS
  <2>1. /\ Len(D) + Len(M) + i \in 1..(Len(D) + Len(M) + Len(M)) /\ ~(Len(D) + Len(M) + i <= Len(D) + Len(M))
        /\ (Len(D) + Len(M) + i) - (Len(D) + Len(M)) = i
    BY <1>1
  <2> QED BY <1>7, <2>1
<1>12. AlterTable(new, old) = S /\ IsList(S)
  BY <1>2, <1>7, ListIs DEF S, both
<1>13. AlteredBy(new, old, S)
  BY <1>1, <1>3, <1>8, <1>9, <1>10, <1>11 DEF AlteredBy, D, M
<1> QED BY <1>12, <1>13

\* What a statement that is possible makes of a table.
StepsTo(s, before, next) ==
    \/ /\ s.op = "add" /\ \A p \in before : p[1] # s.name
       /\ next = before \cup {<<s.name, s.id>>}
    \/ \E x : /\ s.op = "drop" /\ <<s.name, x>> \in before
              /\ next = before \ {<<s.name, x>>}
    \/ \E x : /\ s.op = "rename" /\ <<s.name, x>> \in before /\ \A p \in before : p[1] # s.to
              /\ next = (before \ {<<s.name, x>>}) \cup {<<s.to, x>>}

LEMMA Stepping ==
  ASSUME NEW next, NEW s, StepsTo(s, ColumnPairs, next), columns = [c \in DOMAIN columns |-> columns[c]]
  PROVE  /\ Possible(s)
         /\ columns' = Effect(s) => ColumnPairs' = next /\ columns' = [c \in DOMAIN columns' |-> columns'[c]]
<1>1. \A p : p \in ColumnPairs <=> \E c \in DOMAIN columns : p = <<c, columns[c]>>
  BY DEF ColumnPairs
<1>2. \A c, x : <<c, x>> \in ColumnPairs => c \in DOMAIN columns /\ x = columns[c]
  BY <1>1
<1>3. CASE s.op = "add" /\ (\A p \in ColumnPairs : p[1] # s.name) /\ next = ColumnPairs \cup {<<s.name, s.id>>}
  <2>1. s.name \notin DOMAIN columns
    <3> SUFFICES ASSUME s.name \in DOMAIN columns PROVE FALSE
      OBVIOUS
    <3>1. <<s.name, columns[s.name]>> \in ColumnPairs
      BY <1>1
    <3>2. <<s.name, columns[s.name]>>[1] = s.name
      OBVIOUS
    <3> QED BY <1>3, <3>1, <3>2
  <2>2. Possible(s)
    BY <1>3, <2>1 DEF Possible
  <2>3. ASSUME columns' = Effect(s) PROVE ColumnPairs' = next /\ columns' = [c \in DOMAIN columns' |-> columns'[c]]
    <3>1. columns' = [c \in DOMAIN columns \cup {s.name} |-> IF c = s.name THEN s.id ELSE columns[c]]
      BY <1>3, <2>3 DEF Effect
    <3>2. DOMAIN columns' = DOMAIN columns \cup {s.name} /\ columns'[s.name] = s.id /\ \A c \in DOMAIN columns : columns'[c] = columns[c]
      BY <2>1, <3>1
    <3>3. ColumnPairs' = ColumnPairs \cup {<<s.name, s.id>>}
      BY <3>2 DEF ColumnPairs
    <3> QED BY <1>3, <3>1, <3>3
  <2> QED BY <2>2, <2>3
<1>4. ASSUME NEW x, s.op = "drop", <<s.name, x>> \in ColumnPairs, next = ColumnPairs \ {<<s.name, x>>}
      PROVE  /\ Possible(s)
             /\ columns' = Effect(s) => ColumnPairs' = next /\ columns' = [c \in DOMAIN columns' |-> columns'[c]]
  <2>1. s.name \in DOMAIN columns /\ x = columns[s.name]
    BY <1>2, <1>4
  <2>2. Possible(s)
    BY <1>4, <2>1 DEF Possible
  <2>3. ASSUME columns' = Effect(s) PROVE ColumnPairs' = next /\ columns' = [c \in DOMAIN columns' |-> columns'[c]]
    <3>1. columns' = [c \in (DOMAIN columns \ {s.name}) |-> columns[c]]
      BY <1>4, <2>3 DEF Effect
    <3>2. DOMAIN columns' = DOMAIN columns \ {s.name} /\ \A c \in DOMAIN columns : c # s.name => columns'[c] = columns[c]
      BY <3>1
    <3>3. ColumnPairs' = ColumnPairs \ {<<s.name, x>>}
      BY <2>1, <3>2 DEF ColumnPairs
    <3> QED BY <1>4, <3>1, <3>3
  <2> QED BY <2>2, <2>3
<1>5. ASSUME NEW x, s.op = "rename", <<s.name, x>> \in ColumnPairs, \A p \in ColumnPairs : p[1] # s.to,
             next = (ColumnPairs \ {<<s.name, x>>}) \cup {<<s.to, x>>}
      PROVE  /\ Possible(s)
             /\ columns' = Effect(s) => ColumnPairs' = next /\ columns' = [c \in DOMAIN columns' |-> columns'[c]]
  <2>1. s.name \in DOMAIN columns /\ x = columns[s.name]
    BY <1>2, <1>5
  <2>2. s.to \notin DOMAIN columns
    <3> SUFFICES ASSUME s.to \in DOMAIN columns PROVE FALSE
      OBVIOUS
    <3>1. <<s.to, columns[s.to]>> \in ColumnPairs
      BY <1>1
    <3>2. <<s.to, columns[s.to]>>[1] = s.to
      OBVIOUS
    <3> QED BY <1>5, <3>1, <3>2
  <2>3. Possible(s)
    BY <1>5, <2>1, <2>2 DEF Possible
  <2>4. ASSUME columns' = Effect(s) PROVE ColumnPairs' = next /\ columns' = [c \in DOMAIN columns' |-> columns'[c]]
    <3>1. columns' = [c \in (DOMAIN columns \ {s.name}) \cup {s.to} |-> columns[IF c = s.to THEN s.name ELSE c]]
      BY <1>5, <2>4 DEF Effect
    <3>2. /\ DOMAIN columns' = (DOMAIN columns \ {s.name}) \cup {s.to} /\ columns'[s.to] = columns[s.name]
          /\ \A c \in DOMAIN columns : c # s.name => columns'[c] = columns[c]
      BY <2>2, <3>1
    <3>3. ColumnPairs' = (ColumnPairs \ {<<s.name, x>>}) \cup {<<s.to, x>>}
      BY <2>1, <2>2, <3>2 DEF ColumnPairs
    <3> QED BY <1>5, <3>1, <3>3
  <2> QED BY <2>3, <2>4
<1> QED BY <1>3, <1>4, <1>5 DEF StepsTo

LEMMA StatementIs ==
  ASSUME NEW op, NEW name, NEW to, NEW id
  PROVE  /\ Statement(op, name, to, id).op = op /\ Statement(op, name, to, id).name = name
         /\ Statement(op, name, to, id).to = to /\ Statement(op, name, to, id).id = id
BY DEF Statement

\* The table in parts: the kept columns, those to drop, and those of the fields to rename but one.
LEMMA TableParts ==
  ASSUME NEW new, NEW old, Apart(new.fields), Apart(old.fields), NEW k \in Nat, NEW l \in DOMAIN ToRename(new, old)
  PROVE  LET D == Dropped(new, old)
             M == ToRename(new, old)
             others == {<<PlaceOf(new, old, i, k), M[i].id>> :
                          i \in {i \in DOMAIN M \ {l} : IsAdded(old, M[i]) => Len(D) + i <= k}}
             one == {<<PlaceOf(new, old, l, k), M[l].id>>}
             fixed == {<<ColumnName(old.fields[j].name), old.fields[j].id>> : j \in Kept(new, old)}
                      \cup {<<ColumnName(D[i].name), D[i].id>> : i \in {i \in DOMAIN D : k < i}}
         IN  TableAt(new, old, k) =
                fixed \cup others \cup (IF IsAdded(old, M[l]) /\ k < Len(D) + l THEN {} ELSE one)
<1> DEFINE D == Dropped(new, old)
           M == ToRename(new, old)
           all == {i \in DOMAIN M : IsAdded(old, M[i]) => Len(D) + i <= k}
           rest == {i \in DOMAIN M \ {l} : IsAdded(old, M[i]) => Len(D) + i <= k}
<1>1. Len(D) \in Nat /\ DOMAIN D = 1..Len(D) /\ Len(M) \in Nat /\ DOMAIN M = 1..Len(M)
  BY ListsAre DEF DroppedAre, RenamedAre
<1> HIDE DEF D, M
<1>2. l \in Nat /\ l \in DOMAIN M
  BY <1>1 DEF M
<1>3. all = IF IsAdded(old, M[l]) /\ k < Len(D) + l THEN rest ELSE rest \cup {l}
  <2>1. k < Len(D) + l <=> ~(Len(D) + l <= k)
    BY <1>1, <1>2
  <2> QED BY <1>2, <2>1
<1>4. {<<PlaceOf(new, old, i, k), M[i].id>> : i \in rest \cup {l}}
      = {<<PlaceOf(new, old, i, k), M[i].id>> : i \in rest} \cup {<<PlaceOf(new, old, l, k), M[l].id>>}
  <2> HIDE DEF rest
  <2> QED OBVIOUS
<1> HIDE DEF all, rest
<1>5. {<<PlaceOf(new, old, i, k), M[i].id>> : i \in all}
      = {<<PlaceOf(new, old, i, k), M[i].id>> : i \in rest}
        \cup (IF IsAdded(old, M[l]) /\ k < Len(D) + l THEN {} ELSE {<<PlaceOf(new, old, l, k), M[l].id>>})
  BY <1>3, <1>4
<1> QED BY <1>5 DEF TableAt, all, rest, D, M

\* The statements that drop.
LEMMA DropStep ==
  ASSUME NEW new, NEW old, Apart(new.fields), Apart(old.fields), NEW k \in Nat, k < Len(Dropped(new, old))
  PROVE  StepsTo(AlterTable(new, old)[k + 1], TableAt(new, old, k), TableAt(new, old, k + 1))
<1> DEFINE D == Dropped(new, old)
           M == ToRename(new, old)
           stays == {<<ColumnName(old.fields[j].name), old.fields[j].id>> : j \in Kept(new, old)}
           gone(n) == {<<ColumnName(D[i].name), D[i].id>> : i \in {i \in DOMAIN D : n < i}}
           moved == {<<ColumnName(OldField(old, M[i]).name), M[i].id>> : i \in {i \in DOMAIN M : ~IsAdded(old, M[i])}}
           a == <<ColumnName(D[k + 1].name), D[k + 1].id>>
<1>1. Len(D) \in Nat /\ DOMAIN D = 1..Len(D) /\ Len(M) \in Nat /\ DOMAIN M = 1..Len(M) /\ Apart(D)
  BY ListsAre DEF DroppedAre, RenamedAre
<1>2. k + 1 \in DOMAIN D
  BY <1>1
<1>3. AlterTable(new, old)[k + 1] = Statement("drop", ColumnName(D[k + 1].name), <<>>, NoField)
  <2> DEFINE S == AlterTable(new, old)
  <2>1. AlteredBy(new, old, S)
    BY StatementsAre
  <2> HIDE DEF S
  <2>2. \A i \in 1..Len(D) : S[i] = Statement("drop", ColumnName(D[i].name), <<>>, NoField)
    BY <2>1 DEF AlteredBy
  <2> QED BY <1>1, <1>2, <2>2 DEF S
<1>4. ASSUME NEW n \in {k, k + 1} PROVE TableAt(new, old, n) = stays \cup gone(n) \cup moved
  <2>1. \A i \in DOMAIN M : n < Len(D) + i
    BY <1>1
  <2>2. \A i \in DOMAIN M : PlaceOf(new, old, i, n) = ColumnName(OldField(old, M[i]).name)
    BY <2>1 DEF PlaceOf
  <2>3. {i \in DOMAIN M : IsAdded(old, M[i]) => Len(D) + i <= n} = {i \in DOMAIN M : ~IsAdded(old, M[i])}
    BY <1>1, <2>1
  <2> HIDE DEF D, M
  <2>4. {<<PlaceOf(new, old, i, n), M[i].id>> : i \in {i \in DOMAIN M : IsAdded(old, M[i]) => Len(D) + i <= n}} = moved
    BY <2>2, <2>3
  <2> QED BY <2>4 DEF TableAt, D, M
<1>5. a \notin stays /\ a \notin moved
  <2>1. \A j \in Kept(new, old) : old.fields[j].id # D[k + 1].id
    BY <1>2, ListsApart
  <2>2. \A i \in DOMAIN M : D[k + 1].id # M[i].id
    BY <1>2, ListsApart
  <2> HIDE DEF D, M
  <2> QED BY <2>1, <2>2
<1>6. gone(k + 1) = gone(k) \ {a} /\ a \in gone(k)
  <2> HIDE DEF D, M
  <2>1. \A i \in DOMAIN D : k < i <=> i = k + 1 \/ k + 1 < i
    BY <1>1
  <2>2. \A i \in DOMAIN D : i # k + 1 => D[i].id # D[k + 1].id
    BY <1>1, <1>2 DEF Apart
  <2>3. \A i \in DOMAIN D : k + 1 < i => i # k + 1
    BY <1>1
  <2> QED BY <1>2, <2>1, <2>2, <2>3
<1> HIDE DEF D, M, stays, gone, moved
<1>7. TableAt(new, old, k + 1) = TableAt(new, old, k) \ {a} /\ a \in TableAt(new, old, k)
  BY <1>4, <1>5, <1>6
<1> DEFINE s == AlterTable(new, old)[k + 1]
           name == ColumnName(D[k + 1].name)
<1>8. s.op = "drop" /\ s.name = name
  <2>1. s = Statement("drop", name, <<>>, NoField)
    BY <1>3
  <2> HIDE DEF s, name
  <2> QED BY <2>1, StatementIs
<1>9. a = <<name, D[k + 1].id>>
  OBVIOUS
<1> HIDE DEF s, name, a
<1>10. StepsTo(s, TableAt(new, old, k), TableAt(new, old, k + 1))
  BY <1>7, <1>8, <1>9 DEF StepsTo
<1> QED BY <1>10 DEF s

\* The statements that give temporary names.
LEMMA TempStep ==
  ASSUME NEW new, NEW old, Apart(new.fields), Apart(old.fields), NEW l \in DOMAIN ToRename(new, old)
  PROVE  LET k == Len(Dropped(new, old)) + l - 1
         IN  StepsTo(AlterTable(new, old)[k + 1], TableAt(new, old, k), TableAt(new, old, k + 1))
<1> DEFINE D == Dropped(new, old)
           M == ToRename(new, old)
           k == Len(D) + l - 1
           fixed == {<<ColumnName(old.fields[j].name), old.fields[j].id>> : j \in Kept(new, old)}
           others(n) == {<<PlaceOf(new, old, i, n), M[i].id>> :
                           i \in {i \in DOMAIN M \ {l} : IsAdded(old, M[i]) => Len(D) + i <= n}}
           was == ColumnName(OldField(old, M[l]).name)
           temp == TempName(M[l].name)
<1>1. /\ Len(D) \in Nat /\ DOMAIN D = 1..Len(D) /\ Len(M) \in Nat /\ DOMAIN M = 1..Len(M) /\ Apart(D) /\ Apart(M)
      /\ l \in 1..Len(M) /\ l \in DOMAIN M
  BY ListsAre DEF DroppedAre, RenamedAre
<1>2. k \in Nat /\ k + 1 = Len(D) + l /\ k + 1 \in Nat
  BY <1>1
<1>3. AlterTable(new, old)[k + 1] = IF IsAdded(old, M[l]) THEN Statement("add", temp, <<>>, M[l].id)
                                    ELSE Statement("rename", was, temp, NoField)
  <2> DEFINE S == AlterTable(new, old)
  <2>1. AlteredBy(new, old, S)
    BY StatementsAre
  <2> HIDE DEF S
  <2>2. S[Len(D) + l] = IF IsAdded(old, M[l]) THEN Statement("add", temp, <<>>, M[l].id)
                        ELSE Statement("rename", was, temp, NoField)
    BY <1>1, <2>1 DEF AlteredBy
  <2> HIDE DEF was, temp, D, M
  <2> QED BY <1>2, <2>2 DEF S
<1>4. PlaceOf(new, old, l, k) = was /\ PlaceOf(new, old, l, k + 1) = temp
  <2> HIDE DEF D, M
  <2>1. k < Len(D) + l /\ ~(k + 1 < Len(D) + l) /\ k + 1 < Len(M) + (Len(D) + l)
    BY <1>1
  <2> QED BY <2>1 DEF PlaceOf, D, M
<1>5. \A i \in DOMAIN M \ {l} : PlaceOf(new, old, i, k) = PlaceOf(new, old, i, k + 1)
  <2> SUFFICES ASSUME NEW i \in DOMAIN M \ {l} PROVE PlaceOf(new, old, i, k) = PlaceOf(new, old, i, k + 1)
    OBVIOUS
  <2> HIDE DEF D, M
  <2>1. (k < Len(D) + i <=> k + 1 < Len(D) + i) /\ (k < Len(M) + (Len(D) + i) <=> k + 1 < Len(M) + (Len(D) + i))
    BY <1>1
  <2> HIDE DEF k
  <2> QED BY <2>1 DEF PlaceOf, D, M
<1>6. \A i \in DOMAIN M \ {l} : Len(D) + i <= k <=> Len(D) + i <= k + 1
  <2> HIDE DEF D, M
  <2> QED BY <1>1
<1>7. others(k) = others(k + 1)
  <2> HIDE DEF D, M, k
  <2>1. {i \in DOMAIN M \ {l} : IsAdded(old, M[i]) => Len(D) + i <= k} = {i \in DOMAIN M \ {l} : IsAdded(old, M[i]) => Len(D) + i <= k + 1}
    BY <1>6
  <2> QED BY <1>5, <2>1
<1>8. \A n \in {k, k + 1} : {i \in DOMAIN D : n < i} = {}
  <2> HIDE DEF D, M
  <2> QED BY <1>1
<1>9. TableAt(new, old, k) = fixed \cup others(k) \cup (IF IsAdded(old, M[l]) THEN {} ELSE {<<was, M[l].id>>})
  <2>1. k < Len(D) + l
    BY <1>1
  <2> HIDE DEF k
  <2> QED BY <1>2, <1>4, <1>8, <2>1, TableParts
<1>10. TableAt(new, old, k + 1) = fixed \cup others(k) \cup {<<temp, M[l].id>>}
  <2>1. ~(k + 1 < Len(D) + l)
    BY <1>1
  <2> DEFINE q == k + 1
  <2>2. q \in Nat /\ {i \in DOMAIN D : q < i} = {} /\ ~(q < Len(D) + l) /\ PlaceOf(new, old, l, q) = temp /\ others(k) = others(q)
    BY <1>2, <1>4, <1>7, <1>8, <2>1
  <2> HIDE DEF q, k
  <2>3. TableAt(new, old, q) = fixed \cup others(q) \cup {<<temp, M[l].id>>}
    BY <2>2, TableParts
  <2> QED BY <2>2, <2>3 DEF q
<1>11. \A p \in fixed : p[1] # temp /\ p[2] # M[l].id
  <2>1. \A j \in Kept(new, old) : old.fields[j].id # M[l].id
    BY <1>1, ListsApart
  <2> HIDE DEF M
  <2> QED BY <2>1, NamesApart
<1>12. \A p \in others(k) : p[1] # temp /\ p[2] # M[l].id
  <2> SUFFICES ASSUME NEW i \in DOMAIN M, i # l
               PROVE  PlaceOf(new, old, i, k) # temp /\ M[i].id # M[l].id
    <3> HIDE DEF M, k
    <3> QED OBVIOUS
  <2>1. M[i].id # M[l].id /\ M[i].name # M[l].name
    BY <1>1 DEF Apart
  <2>2. \/ \E name : PlaceOf(new, old, i, k) = ColumnName(name)
        \/ PlaceOf(new, old, i, k) = TempName(M[i].name)
    BY DEF PlaceOf
  <2> HIDE DEF M, k
  <2> QED BY <2>1, <2>2, NamesApart
<1>13. was # temp
  BY NamesApart
<1> HIDE DEF D, M, fixed, others, was, temp
<1> DEFINE before == TableAt(new, old, k)
           next == TableAt(new, old, k + 1)
           s == AlterTable(new, old)[k + 1]
<1> HIDE DEF k
<1>14. CASE IsAdded(old, M[l])
  <2>1. s.op = "add" /\ s.name = temp /\ s.id = M[l].id
    BY <1>3, <1>14 DEF Statement
  <2>2. before = fixed \cup others(k) /\ next = before \cup {<<temp, M[l].id>>}
    BY <1>9, <1>10, <1>14
  <2>3. \A p \in before : p[1] # temp
    BY <1>11, <1>12, <2>2
  <2> QED BY <2>1, <2>2, <2>3 DEF StepsTo, D, k
<1>15. CASE ~IsAdded(old, M[l])
  <2>1. s.op = "rename" /\ s.name = was /\ s.to = temp
    <3>1. s = Statement("rename", was, temp, NoField)
      BY <1>3, <1>15
    <3> HIDE DEF s
    <3> QED BY <3>1, StatementIs
  <2>2. before = fixed \cup others(k) \cup {<<was, M[l].id>>} /\ next = fixed \cup others(k) \cup {<<temp, M[l].id>>}
    BY <1>9, <1>10, <1>15
  <2>3. <<was, M[l].id>> \notin fixed \cup others(k)
    BY <1>11, <1>12
  <2>4. \A p \in before : p[1] # temp
    BY <1>11, <1>12, <1>13, <2>2
  <2>5. <<was, M[l].id>> \in before /\ next = (before \ {<<was, M[l].id>>}) \cup {<<temp, M[l].id>>}
    BY <2>2, <2>3
  <2> HIDE DEF before, next, s
  <2>6. StepsTo(s, before, next)
    BY <2>1, <2>4, <2>5 DEF StepsTo
  <2> QED BY <2>6 DEF before, next, s, D, k
<1> QED BY <1>14, <1>15

\* The statements that give the names they are to have.
LEMMA NameStep ==
  ASSUME NEW new, NEW old, Apart(new.fields), Apart(old.fields), NEW l \in DOMAIN ToRename(new, old)
  PROVE  LET k == Len(Dropped(new, old)) + Len(ToRename(new, old)) + l - 1
         IN  StepsTo(AlterTable(new, old)[k + 1], TableAt(new, old, k), TableAt(new, old, k + 1))
<1> DEFINE D == Dropped(new, old)
           M == ToRename(new, old)
           k == Len(D) + Len(M) + l - 1
           fixed == {<<ColumnName(old.fields[j].name), old.fields[j].id>> : j \in Kept(new, old)}
           others(n) == {<<PlaceOf(new, old, i, n), M[i].id>> :
                           i \in {i \in DOMAIN M \ {l} : IsAdded(old, M[i]) => Len(D) + i <= n}}
           temp == TempName(M[l].name)
           final == ColumnName(M[l].name)
<1>1. /\ Len(D) \in Nat /\ DOMAIN D = 1..Len(D) /\ Len(M) \in Nat /\ DOMAIN M = 1..Len(M) /\ Apart(D) /\ Apart(M)
      /\ l \in 1..Len(M) /\ l \in DOMAIN M
  BY ListsAre DEF DroppedAre, RenamedAre
<1>2. k \in Nat /\ k + 1 = Len(D) + Len(M) + l /\ k + 1 \in Nat
  BY <1>1
<1>3. AlterTable(new, old)[k + 1] = Statement("rename", temp, final, NoField)
  <2> DEFINE S == AlterTable(new, old)
  <2>1. AlteredBy(new, old, S)
    BY StatementsAre
  <2> HIDE DEF S
  <2>2. S[Len(D) + Len(M) + l] = Statement("rename", temp, final, NoField)
    BY <1>1, <2>1 DEF AlteredBy
  <2> HIDE DEF temp, final, D, M
  <2> QED BY <1>2, <2>2 DEF S
<1>4. PlaceOf(new, old, l, k) = temp /\ PlaceOf(new, old, l, k + 1) = final
  <2> HIDE DEF D, M
  <2>1. ~(k < Len(D) + l) /\ k < Len(M) + (Len(D) + l) /\ ~(k + 1 < Len(D) + l) /\ ~(k + 1 < Len(M) + (Len(D) + l))
    BY <1>1
  <2> QED BY <2>1 DEF PlaceOf, D, M
<1>5. \A i \in DOMAIN M \ {l} :
         /\ PlaceOf(new, old, i, k) = PlaceOf(new, old, i, k + 1)
         /\ PlaceOf(new, old, i, k) \in {TempName(M[i].name), ColumnName(M[i].name)}
  <2> SUFFICES ASSUME NEW i \in DOMAIN M \ {l}
               PROVE  /\ PlaceOf(new, old, i, k) = PlaceOf(new, old, i, k + 1)
                      /\ PlaceOf(new, old, i, k) \in {TempName(M[i].name), ColumnName(M[i].name)}
    OBVIOUS
  <2> HIDE DEF D, M
  <2>1. /\ ~(k < Len(D) + i) /\ ~(k + 1 < Len(D) + i)
        /\ (k < Len(M) + (Len(D) + i) <=> k + 1 < Len(M) + (Len(D) + i))
    BY <1>1
  <2> HIDE DEF k
  <2> QED BY <2>1 DEF PlaceOf, D, M
<1>6. \A i \in DOMAIN M \ {l} : Len(D) + i <= k /\ Len(D) + i <= k + 1
  <2> HIDE DEF D, M
  <2> QED BY <1>1
<1>7. others(k) = others(k + 1)
  <2> HIDE DEF D, M, k
  <2>1. {i \in DOMAIN M \ {l} : IsAdded(old, M[i]) => Len(D) + i <= k} = {i \in DOMAIN M \ {l} : IsAdded(old, M[i]) => Len(D) + i <= k + 1}
    BY <1>6
  <2> QED BY <1>5, <2>1
<1>8. \A n \in {k, k + 1} : {i \in DOMAIN D : n < i} = {}
  <2> HIDE DEF D, M
  <2> QED BY <1>1
<1>9. TableAt(new, old, k) = fixed \cup others(k) \cup {<<temp, M[l].id>>}
  <2>1. ~(k < Len(D) + l)
    BY <1>1
  <2> HIDE DEF k
  <2> QED BY <1>2, <1>4, <1>8, <2>1, TableParts
<1>10. TableAt(new, old, k + 1) = fixed \cup others(k) \cup {<<final, M[l].id>>}
  <2>1. ~(k + 1 < Len(D) + l)
    BY <1>1
  <2> DEFINE q == k + 1
  <2>2. q \in Nat /\ {i \in DOMAIN D : q < i} = {} /\ ~(q < Len(D) + l) /\ PlaceOf(new, old, l, q) = final /\ others(k) = others(q)
    BY <1>2, <1>4, <1>7, <1>8, <2>1
  <2> HIDE DEF q, k
  <2>3. TableAt(new, old, q) = fixed \cup others(q) \cup {<<final, M[l].id>>}
    BY <2>2, TableParts
  <2> QED BY <2>2, <2>3 DEF q
<1>11. \A p \in fixed : p[1] # final /\ p[2] # M[l].id
  <2>1. \A j \in Kept(new, old) : old.fields[j].id # M[l].id /\ old.fields[j].name # M[l].name
    BY <1>1, ListsApart
  <2> HIDE DEF M
  <2> QED BY <2>1, NamesApart
<1>12. \A p \in others(k) : p[1] # final /\ p[2] # M[l].id
  <2> SUFFICES ASSUME NEW i \in DOMAIN M, i # l
               PROVE  PlaceOf(new, old, i, k) # final /\ M[i].id # M[l].id
    <3> HIDE DEF M, k
    <3> QED OBVIOUS
  <2>1. M[i].id # M[l].id /\ M[i].name # M[l].name
    BY <1>1 DEF Apart
  <2>2. PlaceOf(new, old, i, k) \in {TempName(M[i].name), ColumnName(M[i].name)}
    BY <1>5
  <2> HIDE DEF M, k
  <2> QED BY <2>1, <2>2, NamesApart
<1>13. temp # final
  BY NamesApart
<1> HIDE DEF D, M, fixed, others, temp, final
<1> DEFINE before == TableAt(new, old, k)
           next == TableAt(new, old, k + 1)
           s == AlterTable(new, old)[k + 1]
<1> HIDE DEF k
<1>14. s.op = "rename" /\ s.name = temp /\ s.to = final
  <2> HIDE DEF s
  <2>1. s = Statement("rename", temp, final, NoField)
    BY <1>3 DEF s
  <2> QED BY <2>1, StatementIs
<1>15. <<temp, M[l].id>> \notin fixed \cup others(k)
  BY <1>11, <1>12
<1>16. \A p \in before : p[1] # final
  BY <1>9, <1>11, <1>12, <1>13
<1>17. <<temp, M[l].id>> \in before /\ next = (before \ {<<temp, M[l].id>>}) \cup {<<final, M[l].id>>}
  BY <1>9, <1>10, <1>15
<1> HIDE DEF before, next, s
<1>18. StepsTo(s, before, next)
  BY <1>14, <1>16, <1>17 DEF StepsTo
<1> QED BY <1>18 DEF before, next, s, D, M, k

\* Every statement of an alteration is possible and does its step.
LEMMA AlterStep ==
  ASSUME NEW new, NEW old, Apart(new.fields), Apart(old.fields), NEW k \in Nat, k < Len(AlterTable(new, old))
  PROVE  StepsTo(AlterTable(new, old)[k + 1], TableAt(new, old, k), TableAt(new, old, k + 1))
<1> DEFINE d == Len(Dropped(new, old))
           m == Len(ToRename(new, old))
<1>1. d \in Nat /\ m \in Nat /\ DOMAIN ToRename(new, old) = 1..m
  BY ListsAre DEF DroppedAre, RenamedAre
<1>2. Len(AlterTable(new, old)) = d + 2 * m
  <2> DEFINE S == AlterTable(new, old)
  <2>1. AlteredBy(new, old, S)
    BY StatementsAre
  <2> HIDE DEF S
  <2>2. Len(S) = d + 2 * m
    BY <2>1 DEF AlteredBy
  <2> QED BY <2>2 DEF S
<1>3. CASE k < d
  BY <1>3, DropStep
<1>4. CASE d <= k /\ k < d + m
  <2>1. k + 1 - d \in 1..m /\ d + (k + 1 - d) - 1 = k
    BY <1>1, <1>4
  <2>2. PICK l \in 1..m : d + l - 1 = k
    BY <2>1
  <2> QED BY <1>1, <2>2, TempStep
<1>5. CASE d + m <= k
  <2>1. k + 1 - (d + m) \in 1..m /\ d + m + (k + 1 - (d + m)) - 1 = k
    BY <1>1, <1>2, <1>5
  <2>2. PICK l \in 1..m : d + m + l - 1 = k
    BY <2>1
  <2> QED BY <1>1, <2>2, NameStep
<1>6. k < d \/ (d <= k /\ k < d + m) \/ d + m <= k
  BY <1>1
<1> QED BY <1>3, <1>4, <1>5, <1>6

\* A new table gets a column for each field.
LEMMA CreateIs ==
  ASSUME NEW new, Apart(new.fields)
  PROVE  /\ IsList(CreateTable(new)) /\ Len(CreateTable(new)) = Len(new.fields) /\ Len(new.fields) \in Nat
         /\ DOMAIN new.fields = 1..Len(new.fields)
         /\ \A i \in DOMAIN new.fields :
               CreateTable(new)[i] = Statement("add", ColumnName(new.fields[i].name), <<>>, new.fields[i].id)
         /\ CreatedAt(new, 0) = {} /\ CreatedAt(new, Len(new.fields)) = TableOf(new)
<1> DEFINE n == Len(new.fields)
           S == CreateTable(new)
           E == {S[i] : i \in DOMAIN S}
<1>1. n \in Nat /\ DOMAIN new.fields = 1..n
  BY ListOver DEF Apart
<1>2. DOMAIN S = 1..n /\ S = [i \in DOMAIN S |-> S[i]]
      /\ \A i \in 1..n : S[i] = Statement("add", ColumnName(new.fields[i].name), <<>>, new.fields[i].id)
  BY <1>1 DEF CreateTable
<1> HIDE DEF n, S
<1>3. S \in Seq(E) /\ Len(S) = n
  <2>1. S \in [1..n -> E]
    BY <1>2
  <2> HIDE DEF E
  <2> QED BY <1>1, <2>1
<1>4. IsList(S)
  BY <1>3, ListIs
<1>5. {i \in DOMAIN new.fields : i <= 0} = {} /\ {i \in DOMAIN new.fields : i <= n} = DOMAIN new.fields
  BY <1>1
<1>6. CreatedAt(new, 0) = {} /\ CreatedAt(new, n) = TableOf(new)
  BY <1>5 DEF CreatedAt, TableOf
<1> QED BY <1>1, <1>2, <1>3, <1>4, <1>6 DEF n, S

LEMMA CreateStep ==
  ASSUME NEW new, Apart(new.fields), NEW k \in Nat, k < Len(CreateTable(new))
  PROVE  StepsTo(CreateTable(new)[k + 1], CreatedAt(new, k), CreatedAt(new, k + 1))
<1> DEFINE F == new.fields
           s == CreateTable(new)[k + 1]
           name == ColumnName(F[k + 1].name)
<1>1. Len(F) \in Nat /\ DOMAIN F = 1..Len(F) /\ k + 1 \in DOMAIN F
  BY CreateIs
<1>2. s = Statement("add", name, <<>>, F[k + 1].id)
  BY <1>1, CreateIs
<1>3. s.op = "add" /\ s.name = name /\ s.id = F[k + 1].id
  <2> HIDE DEF s, name, F
  <2> QED BY <1>2, StatementIs
<1>4. {i \in DOMAIN F : i <= k + 1} = {i \in DOMAIN F : i <= k} \cup {k + 1}
  <2> HIDE DEF F
  <2> QED BY <1>1
<1>5. CreatedAt(new, k + 1) = CreatedAt(new, k) \cup {<<name, F[k + 1].id>>}
  BY <1>4 DEF CreatedAt
<1>6. \A p \in CreatedAt(new, k) : p[1] # name
  <2>1. \A i \in DOMAIN F : i <= k => F[i].name # F[k + 1].name
    BY <1>1 DEF Apart
  <2> HIDE DEF F
  <2>2. \A i \in DOMAIN F : i <= k => ColumnName(F[i].name) # name
    BY <2>1, NamesApart
  <2> QED BY <2>2 DEF CreatedAt, F
<1> HIDE DEF s, name, F
<1>7. StepsTo(s, CreatedAt(new, k), CreatedAt(new, k + 1))
  BY <1>3, <1>5, <1>6 DEF StepsTo
<1> QED BY <1>7 DEF s

\* A synchronisation from its start to its end.
HeldAt(new, old, k) == IF old = NoCollection THEN CreatedAt(new, k) ELSE TableAt(new, old, k)

LEMMA StatementsStep ==
  ASSUME NEW new, NEW old, Apart(new.fields), Apart(old.fields), new.type # "view"
  PROVE  LET S == Statements(new, old) IN
         /\ IsList(S) /\ Len(S) \in Nat
         /\ HeldAt(new, old, 0) = TableOf(old) /\ HeldAt(new, old, Len(S)) = TableOf(new)
         /\ \A k \in Nat : k < Len(S) => StepsTo(S[k + 1], HeldAt(new, old, k), HeldAt(new, old, k + 1))
<1>1. CASE old = NoCollection
  <2>1. Statements(new, old) = CreateTable(new)
    BY <1>1 DEF Statements
  <2>2. TableOf(old) = {}
    <3>1. DOMAIN old.fields = {}
      BY <1>1 DEF NoCollection
    <3> QED BY <3>1 DEF TableOf
  <2>3. \A k : HeldAt(new, old, k) = CreatedAt(new, k)
    BY <1>1 DEF HeldAt
  <2> QED BY <2>1, <2>2, <2>3, CreateIs, CreateStep
<1>2. CASE old # NoCollection
  <2>1. Statements(new, old) = AlterTable(new, old)
    BY <1>2 DEF Statements
  <2>2. \A k : HeldAt(new, old, k) = TableAt(new, old, k)
    BY <1>2 DEF HeldAt
  <2> DEFINE S == AlterTable(new, old)
  <2>3. IsList(S) /\ AlteredBy(new, old, S)
    BY StatementsAre
  <2>4. \A k \in Nat : k < Len(S) => StepsTo(S[k + 1], TableAt(new, old, k), TableAt(new, old, k + 1))
    BY AlterStep
  <2> HIDE DEF S
  <2>5. Len(S) \in Nat /\ Len(S) = Len(Dropped(new, old)) + 2 * Len(ToRename(new, old))
    BY <2>3, ListOver DEF AlteredBy
  <2>6. TableAt(new, old, 0) = TableOf(old) /\ TableAt(new, old, Len(S)) = TableOf(new)
    BY <2>5, TableEnds
  <2> QED BY <2>1, <2>2, <2>3, <2>4, <2>5, <2>6 DEF S
<1> QED BY <1>1, <1>2

\* What is left of a list after its first k elements.
LeftOf(list, k) == [i \in 1..(Len(list) - k) |-> list[k + i]]

LEMMA LeftIs ==
  ASSUME NEW list, IsList(list), NEW k \in 0..Len(list)
  PROVE  /\ LeftOf(list, 0) = list
         /\ LeftOf(list, k) = <<>> <=> k = Len(list)
         /\ k < Len(list) => Head(LeftOf(list, k)) = list[k + 1] /\ Tail(LeftOf(list, k)) = LeftOf(list, k + 1)
<1> DEFINE E == {list[i] : i \in DOMAIN list}
<1>1. list \in Seq(E) /\ Len(list) \in Nat /\ DOMAIN list = 1..Len(list) /\ \A i \in 1..Len(list) : list[i] \in E
  BY ListOver
<1> HIDE DEF E
<1>2. ASSUME NEW n \in 0..Len(list)
      PROVE  /\ LeftOf(list, n) \in Seq(E) /\ Len(LeftOf(list, n)) = Len(list) - n
             /\ \A i \in 1..(Len(list) - n) : LeftOf(list, n)[i] = list[n + i]
  <2>1. Len(list) - n \in Nat /\ \A i \in 1..(Len(list) - n) : n + i \in 1..Len(list)
    BY <1>1
  <2> DEFINE m == Len(list) - n
             rest == [i \in 1..m |-> list[n + i]]
  <2>2. rest \in [1..m -> E]
    BY <1>1, <2>1
  <2>3. \A i \in 1..m : rest[i] = list[n + i]
    OBVIOUS
  <2> HIDE DEF rest
  <2>4. rest \in Seq(E) /\ Len(rest) = m
    <3> HIDE DEF m
    <3>1. m \in Nat
      BY <2>1 DEF m
    <3> QED BY <2>2, <3>1
  <2> QED BY <2>3, <2>4 DEF LeftOf, rest
<1>3. LeftOf(list, 0) = list
  <2>1. /\ LeftOf(list, 0) \in Seq(E) /\ Len(LeftOf(list, 0)) = Len(list)
        /\ \A i \in 1..Len(list) : LeftOf(list, 0)[i] = list[i]
    <3>1. 0 \in 0..Len(list) /\ Len(list) - 0 = Len(list) /\ \A i \in 1..Len(list) : 0 + i = i
      BY <1>1
    <3>2. /\ LeftOf(list, 0) \in Seq(E) /\ Len(LeftOf(list, 0)) = Len(list) - 0
          /\ \A i \in 1..(Len(list) - 0) : LeftOf(list, 0)[i] = list[0 + i]
      BY <1>2, <3>1
    <3> QED BY <3>1, <3>2
  <2> QED BY <1>1, <2>1, SeqEqual
<1>4. LeftOf(list, k) = <<>> <=> k = Len(list)
  <2>1. LeftOf(list, k) \in Seq(E) /\ Len(LeftOf(list, k)) = Len(list) - k
    BY <1>2
  <2>2. LeftOf(list, k) = <<>> <=> Len(LeftOf(list, k)) = 0
    BY <2>1, EmptySeq
  <2>3. Len(LeftOf(list, k)) = 0 <=> k = Len(list)
    BY <1>1, <2>1
  <2> QED BY <2>2, <2>3
<1>5. ASSUME k < Len(list) PROVE Head(LeftOf(list, k)) = list[k + 1] /\ Tail(LeftOf(list, k)) = LeftOf(list, k + 1)
  <2> DEFINE rest == LeftOf(list, k)
             next == LeftOf(list, k + 1)
  <2>1. k + 1 \in 0..Len(list) /\ k \in Nat
    BY <1>1, <1>5
  <2>2. rest \in Seq(E) /\ Len(rest) = Len(list) - k /\ \A i \in 1..(Len(list) - k) : rest[i] = list[k + i]
    BY <1>2
  <2>3. next \in Seq(E) /\ Len(next) = Len(list) - (k + 1) /\ \A i \in 1..(Len(list) - (k + 1)) : next[i] = list[(k + 1) + i]
    BY <1>2, <2>1
  <2> HIDE DEF rest, next
  <2>4. rest # <<>> /\ 1 \in 1..(Len(list) - k)
    BY <1>1, <1>5, <2>1, <2>2
  <2>5. Head(rest) = rest[1]
    BY <2>2, <2>4
  <2>6. Tail(rest) \in Seq(E) /\ Len(Tail(rest)) = Len(rest) - 1 /\ \A i \in 1..Len(Tail(rest)) : Tail(rest)[i] = rest[i + 1]
    BY <2>2, <2>4, HeadTailProperties
  <2>7. Len(Tail(rest)) = Len(next)
    <3>1. Len(Tail(rest)) = Len(rest) - 1 /\ Len(rest) = Len(list) - k /\ Len(next) = Len(list) - (k + 1)
      BY <2>2, <2>3, <2>6
    <3>2. Len(list) - k - 1 = Len(list) - (k + 1)
      BY <1>1, <2>1
    <3> QED BY <3>1, <3>2
  <2>8. ASSUME NEW i \in 1..Len(next) PROVE Tail(rest)[i] = next[i]
    <3>1. i \in 1..(Len(list) - (k + 1)) /\ i + 1 \in 1..(Len(list) - k) /\ (k + 1) + i = k + (i + 1)
      BY <1>1, <2>1, <2>3
    <3> QED BY <2>2, <2>3, <2>6, <2>7, <3>1
  <2>9. Tail(rest) = next
    BY <2>3, <2>6, <2>7, <2>8, SeqEqual
  <2> QED BY <2>2, <2>4, <2>5, <2>9 DEF rest, next
<1> QED BY <1>3, <1>4, <1>5

TableTypes == {"base", "auth", "view"}
\* A synchronisation has done its first k statements, and the table is as it is after them.
Underway ==
    /\ Apart(goal.fields) /\ goal.type \in TableTypes
    /\ current = NoCollection \/ current.type = goal.type
    /\ goal.type = "view" => todo = <<>>
    /\ goal.type # "view" =>
          \E k \in 0..Len(Statements(goal, current)) :
             todo = LeftOf(Statements(goal, current), k) /\ ColumnPairs = HeldAt(goal, current, k)
SyncInv ==
    /\ columns = [c \in DOMAIN columns |-> columns[c]]
    /\ Apart(current.fields) /\ (current = NoCollection \/ current.type \in TableTypes)
    /\ faults \in Nat /\ progress \in {"idle", "running", "failed"}
    /\ ValidMeansPossible
    /\ progress = "idle" /\ current.type # "view" => ColumnPairs = TableOf(current)
    /\ progress # "idle" => Underway

LEMMA ValidIs ==
  ASSUME NEW new, NEW old, IsList(new.fields), Problems(new, old) = {}
  PROVE  /\ Apart(new.fields) /\ new.type \in TableTypes
         /\ old = NoCollection \/ old.type = new.type
<1>1. CheckType(new, old) = {} /\ CheckFieldDuplicates(new) = {}
  BY DEF Problems
<1>2. new.type \in TableTypes /\ (old = NoCollection \/ old.type = new.type)
  BY <1>1 DEF CheckType, TableTypes
<1>3. /\ ~(\E i, j \in DOMAIN new.fields : i # j /\ new.fields[i].id = new.fields[j].id)
      /\ ~(\E i, j \in DOMAIN new.fields : i # j /\ Lower(new.fields[i].name) = Lower(new.fields[j].name))
  BY <1>1 DEF CheckFieldDuplicates, Twice
<1> QED BY <1>2, <1>3 DEF Apart

LEMMA SyncBegins == SyncInit => SyncInv
<1> SUFFICES ASSUME SyncInit PROVE SyncInv
  OBVIOUS
<1>1. DOMAIN columns = {} /\ columns = [c \in DOMAIN columns |-> columns[c]] /\ ColumnPairs = {}
  BY DEF SyncInit, NoColumns, ColumnPairs
<1>2. current.fields = <<>> /\ current = NoCollection /\ DOMAIN current.fields = {}
  BY DEF SyncInit, NoCollection
<1>3. Apart(current.fields)
  <2>1. <<>> \in Seq({})
    OBVIOUS
  <2> QED BY <1>2, <2>1, ListIs DEF Apart
<1>4. ColumnPairs = TableOf(current)
  BY <1>1, <1>2 DEF TableOf
<1> QED BY <1>1, <1>2, <1>3, <1>4 DEF SyncInit, SyncInv, ValidMeansPossible

LEMMA SyncKeeps ==
  ASSUME SyncInv, NEW draft \in Drafts, Sync(draft)
  PROVE  SyncInv'
<1> DEFINE new == Loaded(draft)
           S == Statements(new, current)
<1>1. IsList(new.fields)
  <2>1. IsList(FieldsOf(draft.fields))
    BY FieldsAreList, DraftsAssumption
  <2>2. new.fields = FieldsOf(draft.fields)
    BY DraftsAssumption DEF Loaded
  <2> QED BY <2>1, <2>2
<1> HIDE DEF new, S
<1>2. /\ progress = "idle" /\ Problems(new, current) = {}
      /\ progress' = "running" /\ goal' = new /\ todo' = S
      /\ UNCHANGED <<current, columns, faults>>
  BY DEF Sync, new, S
<1>3. Apart(new.fields) /\ new.type \in TableTypes /\ (current = NoCollection \/ current.type = new.type)
  BY <1>1, <1>2, ValidIs
<1>4. new.type = "view" => S = <<>>
  BY DEF S, Statements
<1>5. ASSUME new.type # "view"
      PROVE  \E k \in 0..Len(S) : todo' = LeftOf(S, k) /\ ColumnPairs = HeldAt(new, current, k)
  <2>1. current.type # "view"
    BY <1>3, <1>5 DEF NoCollection
  <2>2. IsList(S) /\ Len(S) \in Nat /\ HeldAt(new, current, 0) = TableOf(current)
    BY <1>3, <1>5, StatementsStep DEF SyncInv, S
  <2>3. 0 \in 0..Len(S) /\ LeftOf(S, 0) = S
    BY <2>2, LeftIs
  <2>4. ColumnPairs = TableOf(current)
    BY <1>2, <2>1 DEF SyncInv
  <2> QED BY <1>2, <2>2, <2>3, <2>4
<1>6. ColumnPairs' = ColumnPairs
  BY <1>2 DEF ColumnPairs
<1>7. Underway'
  BY <1>2, <1>3, <1>4, <1>5, <1>6 DEF Underway, S
<1> QED BY <1>2, <1>7 DEF SyncInv, ValidMeansPossible

LEMMA RunKeeps ==
  ASSUME SyncInv, RunStatement
  PROVE  SyncInv'
<1> DEFINE S == Statements(goal, current)
<1>1. progress = "running" /\ todo # <<>> /\ Underway /\ Apart(goal.fields) /\ Apart(current.fields) /\ goal.type # "view"
  BY DEF SyncInv, RunStatement, Underway
<1>2. PICK k \in 0..Len(S) : todo = LeftOf(S, k) /\ ColumnPairs = HeldAt(goal, current, k)
  BY <1>1 DEF Underway
<1>3. /\ IsList(S) /\ Len(S) \in Nat
      /\ \A n \in Nat : n < Len(S) => StepsTo(S[n + 1], HeldAt(goal, current, n), HeldAt(goal, current, n + 1))
  BY <1>1, StatementsStep
<1> HIDE DEF S
<1>4. k \in Nat /\ k < Len(S) /\ k + 1 \in 0..Len(S)
  <2>1. k # Len(S)
    BY <1>1, <1>2, <1>3, LeftIs
  <2> QED BY <1>3, <2>1
<1>5. Head(todo) = S[k + 1] /\ Tail(todo) = LeftOf(S, k + 1)
  BY <1>2, <1>3, <1>4, LeftIs
<1>6. StepsTo(Head(todo), ColumnPairs, HeldAt(goal, current, k + 1))
  BY <1>2, <1>3, <1>4, <1>5
<1>7. columns = [c \in DOMAIN columns |-> columns[c]]
  BY DEF SyncInv
<1>8. /\ Possible(Head(todo))
      /\ columns' = Effect(Head(todo)) =>
            ColumnPairs' = HeldAt(goal, current, k + 1) /\ columns' = [c \in DOMAIN columns' |-> columns'[c]]
  BY <1>6, <1>7, Stepping
<1>9. /\ columns' = Effect(Head(todo)) /\ todo' = Tail(todo)
      /\ progress' = progress /\ current' = current /\ goal' = goal /\ faults' = faults
  BY <1>8 DEF RunStatement
<1>10. todo' = LeftOf(S, k + 1) /\ ColumnPairs' = HeldAt(goal, current, k + 1)
  BY <1>5, <1>8, <1>9
<1>11. Underway'
  BY <1>1, <1>4, <1>9, <1>10 DEF Underway, S
<1> QED BY <1>1, <1>8, <1>9, <1>11 DEF SyncInv, ValidMeansPossible

LEMMA FailsKeep ==
  ASSUME SyncInv, StatementFails
  PROVE  SyncInv'
<1>1. /\ progress = "running" /\ progress' = "failed" /\ faults' = faults + 1
      /\ UNCHANGED <<current, goal, todo, columns>>
  BY DEF StatementFails
<1>2. Underway'
  <2>1. Underway
    BY <1>1 DEF SyncInv
  <2> QED BY <1>1, <2>1 DEF Underway, ColumnPairs
<1>3. faults \in Nat /\ faults + 1 \in Nat /\ faults + 1 > 0
  BY DEF SyncInv
<1> QED BY <1>1, <1>2, <1>3 DEF SyncInv, ValidMeansPossible

LEMMA SyncedKeeps ==
  ASSUME SyncInv, Synced
  PROVE  SyncInv'
<1> DEFINE S == Statements(goal, current)
<1>1. /\ progress = "running" /\ todo = <<>> /\ Underway /\ progress' = "idle" /\ current' = goal
      /\ UNCHANGED <<goal, todo, columns, faults>>
  BY DEF SyncInv, Synced
<1>2. Apart(goal.fields) /\ goal.type \in TableTypes /\ Apart(current.fields)
  BY <1>1 DEF SyncInv, Underway
<1>3. ASSUME goal.type # "view" PROVE ColumnPairs = TableOf(goal)
  <2>1. PICK k \in 0..Len(S) : todo = LeftOf(S, k) /\ ColumnPairs = HeldAt(goal, current, k)
    BY <1>1, <1>3 DEF Underway
  <2>2. IsList(S) /\ HeldAt(goal, current, Len(S)) = TableOf(goal)
    BY <1>2, <1>3, StatementsStep
  <2> HIDE DEF S
  <2>3. k = Len(S)
    BY <1>1, <2>1, <2>2, LeftIs
  <2> QED BY <2>1, <2>2, <2>3
<1>4. ColumnPairs' = ColumnPairs /\ TableOf(current)' = TableOf(goal)
  BY <1>1 DEF ColumnPairs, TableOf
<1> QED BY <1>1, <1>2, <1>3, <1>4 DEF SyncInv, ValidMeansPossible

LEMMA SyncInvKept == SyncInv /\ [SyncNext]_syncVars => SyncInv'
<1> SUFFICES ASSUME SyncInv, [SyncNext]_syncVars PROVE SyncInv'
  OBVIOUS
<1>1. CASE UNCHANGED syncVars
  BY <1>1 DEF syncVars, SyncInv, Underway, ColumnPairs, ValidMeansPossible
<1> QED BY <1>1, SyncKeeps, RunKeeps, FailsKeep, SyncedKeeps DEF SyncNext

LEMMA ValuesAreHeld == SyncInv => ValuesStay
<1> SUFFICES ASSUME SyncInv PROVE ValuesStay
  OBVIOUS
<1> DEFINE D == Dropped(goal, current)
           M == ToRename(goal, current)
<1>1. ASSUME progress # "idle", NEW i \in DOMAIN current.fields, current.type # "view",
             WithId(goal.fields, current.fields[i].id) # {}
      PROVE  Cardinality({c \in DOMAIN columns : columns[c] = current.fields[i].id}) = 1
  <2> DEFINE id == current.fields[i].id
  <2>1. Underway /\ Apart(goal.fields) /\ Apart(current.fields) /\ current # NoCollection /\ goal.type # "view"
    <3>1. current # NoCollection
      <4>1. DOMAIN NoCollection.fields = {}
        BY DEF NoCollection
      <4> QED BY <4>1
    <3> QED BY <1>1, <3>1 DEF SyncInv, Underway
  <2>2. PICK k \in 0..Len(Statements(goal, current)) : ColumnPairs = TableAt(goal, current, k)
    BY <2>1 DEF Underway, HeldAt
  <2>3. \E c : \A p : p \in ColumnPairs /\ p[2] = id <=> p = <<c, id>>
    <3>1. /\ RenamedAre(goal, current, M) /\ Apart(M) /\ DroppedAre(goal, current, D)
          /\ \A j \in Kept(goal, current), l \in DOMAIN D : current.fields[j].id # D[l].id
          /\ \A j \in Kept(goal, current), l \in DOMAIN M : current.fields[j].id # M[l].id
          /\ \A j \in DOMAIN D, l \in DOMAIN M : D[j].id # M[l].id
      BY <2>1, ListsAre, ListsApart DEF RenamedAre
    <3> HIDE DEF D, M
    <3>2. \A p : p \in ColumnPairs <=>
             \/ \E j \in Kept(goal, current) : p = <<ColumnName(current.fields[j].name), current.fields[j].id>>
             \/ \E l \in DOMAIN D : k < l /\ p = <<ColumnName(D[l].name), D[l].id>>
             \/ \E l \in DOMAIN M : (IsAdded(current, M[l]) => Len(D) + l <= k) /\ p = <<PlaceOf(goal, current, l, k), M[l].id>>
      BY <2>2 DEF TableAt, D, M
    <3>3. \A l \in DOMAIN D : D[l].id # id
      BY <1>1, <3>1 DEF DroppedAre
    <3>4. CASE i \in Kept(goal, current)
      <4>1. \A j \in Kept(goal, current) : current.fields[j].id = id => j = i
        BY <2>1 DEF Apart, Kept
      <4>2. \A l \in DOMAIN M : M[l].id # id
        BY <3>1, <3>4
      <4> DEFINE c == ColumnName(current.fields[i].name)
      <4>3. <<c, id>> \in ColumnPairs
        BY <3>2, <3>4
      <4>4. ASSUME NEW p \in ColumnPairs, p[2] = id PROVE p = <<c, id>>
        BY <3>2, <3>3, <4>1, <4>2, <4>4
      <4>5. <<c, id>>[2] = id
        OBVIOUS
      <4> HIDE DEF c, id
      <4>6. \A p : p \in ColumnPairs /\ p[2] = id <=> p = <<c, id>>
        BY <4>3, <4>4, <4>5
      <4> QED BY <4>6
    <3>5. CASE i \notin Kept(goal, current)
      <4>1. PICK x \in DOMAIN goal.fields : goal.fields[x].id = id
        BY <1>1 DEF WithId
      <4>2. ~IsAdded(current, goal.fields[x]) /\ OldField(current, goal.fields[x]) = current.fields[i]
        BY <2>1, <4>1, OldFieldIs
      <4>3. current.fields[i].name # goal.fields[x].name
        BY <3>5, <4>1 DEF Kept
      <4>4. PICK l \in DOMAIN M : M[l] = goal.fields[x]
        BY <3>1, <4>2, <4>3 DEF RenamedAre
      <4>5. M[l].id = id /\ ~IsAdded(current, M[l]) /\ \A n \in DOMAIN M : M[n].id = id => n = l
        BY <3>1, <4>1, <4>2, <4>4 DEF Apart
      <4>6. \A j \in Kept(goal, current) : current.fields[j].id # id
        BY <3>1, <4>5
      <4> DEFINE c == PlaceOf(goal, current, l, k)
      <4>7. <<c, id>> \in ColumnPairs
        BY <3>2, <4>5
      <4>8. ASSUME NEW p \in ColumnPairs, p[2] = id PROVE p = <<c, id>>
        BY <3>2, <3>3, <4>5, <4>6, <4>8
      <4>9. <<c, id>>[2] = id
        OBVIOUS
      <4> HIDE DEF c, id
      <4>10. \A p : p \in ColumnPairs /\ p[2] = id <=> p = <<c, id>>
        BY <4>7, <4>8, <4>9
      <4> QED BY <4>10
    <3> QED BY <3>4, <3>5
  <2>4. PICK c : \A p : p \in ColumnPairs /\ p[2] = id <=> p = <<c, id>>
    BY <2>3
  <2>5. c \in DOMAIN columns /\ columns[c] = id
    <3>1. <<c, id>> \in ColumnPairs
      BY <2>4
    <3>2. PICK d \in DOMAIN columns : <<c, id>> = <<d, columns[d]>>
      BY <3>1 DEF ColumnPairs
    <3> QED BY <3>2
  <2>6. \A d \in DOMAIN columns : columns[d] = id => d = c
    <3> SUFFICES ASSUME NEW d \in DOMAIN columns, columns[d] = id PROVE d = c
      OBVIOUS
    <3>1. <<d, id>> \in ColumnPairs /\ <<d, id>>[2] = id
      BY DEF ColumnPairs
    <3>2. <<d, id>> = <<c, id>>
      BY <2>4, <3>1
    <3> QED BY <3>2
  <2>7. {d \in DOMAIN columns : columns[d] = id} = {c}
    BY <2>5, <2>6
  <2>8. Cardinality({c}) = 1
    BY FS_Singleton
  <2> QED BY <2>7, <2>8
<1>2. ASSUME progress = "idle", current.type # "view"
      PROVE  /\ DOMAIN columns = {ColumnName(name) : name \in NamesOf(current.fields)}
             /\ \A i \in DOMAIN current.fields : columns[ColumnName(current.fields[i].name)] = current.fields[i].id
  <2>1. ColumnPairs = TableOf(current)
    BY <1>2 DEF SyncInv
  <2>2. ASSUME NEW c \in DOMAIN columns PROVE c \in {ColumnName(name) : name \in NamesOf(current.fields)}
    <3>1. <<c, columns[c]>> \in TableOf(current)
      BY <2>1 DEF ColumnPairs
    <3>2. PICK i \in DOMAIN current.fields : <<c, columns[c]>> = <<ColumnName(current.fields[i].name), current.fields[i].id>>
      BY <3>1 DEF TableOf
    <3> QED BY <3>2 DEF NamesOf
  <2>3. ASSUME NEW i \in DOMAIN current.fields
        PROVE  ColumnName(current.fields[i].name) \in DOMAIN columns /\ columns[ColumnName(current.fields[i].name)] = current.fields[i].id
    <3>1. <<ColumnName(current.fields[i].name), current.fields[i].id>> \in ColumnPairs
      BY <2>1 DEF TableOf
    <3>2. PICK c \in DOMAIN columns : <<ColumnName(current.fields[i].name), current.fields[i].id>> = <<c, columns[c]>>
      BY <3>1 DEF ColumnPairs
    <3> QED BY <3>2
  <2> QED BY <2>2, <2>3 DEF NamesOf
<1> QED BY <1>1, <1>2 DEF ValuesStay

\* Whatever lists of fields a collection is given in turn, and whichever statements the database fails,
\* the values of every field that stays are in one column at every moment, a table that is brought in
\* line has the columns of its fields, each with the values of its own, and the statements of a valid
\* collection are never impossible (syncRecordTableSchema, collection_record_table_sync.ts).
THEOREM ColumnsKeepValues == SyncSpec => []ValuesStay /\ []ValidMeansPossible
<1>1. SyncInv => ValidMeansPossible
  BY DEF SyncInv
<1> QED BY <1>1, SyncBegins, SyncInvKept, ValuesAreHeld, PTL DEF SyncSpec

(***************************************************************************)
(* Both together, as the runs check them.                                  *)
(***************************************************************************)
\* What hooks, the store, the broker and cron promise holds of each of them (HooksAndStores).
THEOREM ToolsKeepTheirWord ==
  ASSUME WholeMinutes
  PROVE  ModelSpec /\ StoreSpec /\ SubscriptionSpec /\ CronTickSpec => []HooksAndStores
<1>1. ASSUME ChainsSorted, RunOnce, SavesTakeEffect, LockHeld, BroadcastsReach, DiscardedHearNothing,
             StoreHoldsLive, RunsWhenDue, OncePerMinute, NoMinuteMissed
      PROVE  HooksAndStores
  BY <1>1 DEF HooksAndStores
<1>2. CronTickSpec => []RunsWhenDue /\ []OncePerMinute /\ []NoMinuteMissed
  BY JobsRunOnTime
<1> QED BY <1>1, <1>2, HooksRunOnce, LockHeldAlways, BroadcastsReachAll, PTL

\* Collections keep their options, tables their values, records their secrets and rows, lookups and
\* addresses lead to their own (DataHold).
THEOREM DataStaysInPlace ==
  SecretsApart =>
    (CollectionSpec /\ SyncSpec /\ RecordSpec /\ FormSpec /\ UserSpec /\ FindSpec /\ AccountsSpec => []DataHold)
<1> SUFFICES ASSUME SecretsApart
    PROVE CollectionSpec /\ SyncSpec /\ RecordSpec /\ FormSpec /\ UserSpec /\ FindSpec /\ AccountsSpec => []DataHold
  OBVIOUS
<1>1. ASSUME OptionsSurvive, NoClientSecrets, ValuesStay, ValidMeansPossible, ExportHidesSecrets, SaveWritesAll,
             FormProtects, NewHasPassword, RowsStayTheirs, TokensAreApart, LookupsLeadRight, TokensLeadToAccounts, UniqueMeansFree,
             OneAddressEach, PasswordsProven
      PROVE  DataHold
  BY <1>1 DEF DataHold
<1>2. UserSpec => []RowsStayTheirs /\ []TokensAreApart
  BY RowsAndTokensAreApart
<1> QED BY <1>1, <1>2, SecretsStay, ColumnsKeepValues, RecordsShowNoSecrets, FormsProtect, LookupsAnswer,
           AddressesAreOnes, PTL
=============================================================================
