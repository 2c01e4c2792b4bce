--------------------------- MODULE RunSlicesProofs ---------------------------
(***************************************************************************)
(* Proofs about sliced runs, for any number of workers, runs, call ids,    *)
(* inputs, steps, attempts, approvals and faults.                          *)
(***************************************************************************)
EXTENDS RunSlices, SequenceTheorems, TLAPS

----------------------------------------------------------------------------
(* Type correctness.                                                       *)

CheckpointRow == [status : {"pending", "consumed"}, next : Nat, log : Seq(Entry)]
ApprovalRow == [status : {"pending", "approved", "denied", "consumed"},
                step : Nat, log : Seq(Entry), call : Call]
EffectRow == [status : {"started", "completed", "failed"},
              holder : Worker \cup {None}, args : Args]
TaskRow == [kind : Kind, ref : Nat, attempt : Nat, limit : Nat, holder : Worker \cup {None}]
SliceRow == [run : Run, kind : Kind, ref : Nat, paused : BOOLEAN,
             step : Nat, log : Seq(Entry), call : Call \cup {NoCall}]

\* A free task has an attempt left; a task's reference is a row.
TaskOK ==
  \A r \in Run :
    /\ task[r].attempt <= task[r].limit
    /\ task[r].kind # "none" /\ task[r].holder = None => task[r].attempt < task[r].limit
    /\ task[r].kind = "resume" => task[r].ref \in DOMAIN ckpt
    /\ task[r].kind = "continue" => task[r].ref \in DOMAIN approval

\* What a slice knows at which label.
SliceOK ==
  \A w \in Worker :
    /\ pc[w] = "load" =>
         /\ slice[w].kind # "none"
         /\ slice[w].step = 0 /\ slice[w].log = << >> /\ ~ slice[w].paused
         /\ slice[w].kind = "resume" => slice[w].ref \in DOMAIN ckpt
         /\ slice[w].kind = "continue" => slice[w].ref \in DOMAIN approval
    /\ pc[w] = "yielded" => slice[w].ref \in DOMAIN ckpt
    /\ InCall(w) => slice[w].call \in Call

\* TypeOK with its rows named.
Shapes ==
  /\ config \in Setup
  /\ run \in [Run -> RunStatus]
  /\ task \in [Run -> TaskRow]
  /\ ckpt \in Seq(CheckpointRow)
  /\ approval \in Seq(ApprovalRow)
  /\ \A e \in DOMAIN effect : effect[e] \in EffectRow
  /\ pc \in [Worker -> Label]
  /\ slice \in [Worker -> SliceRow]
  /\ lost \in [Worker -> BOOLEAN]
  /\ again \subseteq ran

Typed == Shapes /\ TaskOK /\ SliceOK

LEMMA TypedIsTypeOK == Typed => TypeOK
BY DEF Typed, Shapes, TaskOK, TypeOK, TaskRow, CheckpointRow, ApprovalRow, EffectRow, SliceRow

LEMMA SetupOK ==
  ASSUME NEW c \in Setup
  PROVE  c.steps \in Nat \ {0} /\ c.attempts \in Nat \ {0} /\ c.reclaim \in BOOLEAN
BY SlicesAssumption DEF Settings

LEMMA NewSliceTyped ==
  ASSUME NEW r \in Run, NEW kind \in Kind, NEW ref \in Nat
  PROVE  NewSlice(r, kind, ref) \in SliceRow
BY DEF NewSlice, SliceRow

LEMMA TypedInit == Init => Typed
<1>. SUFFICES ASSUME Init PROVE Typed
  OBVIOUS
<1>1. NoSlice \in SliceRow
  BY NewSliceTyped, SlicesAssumption DEF NoSlice, Kind
<1>2. NewTask("run", 0, config.attempts) \in TaskRow /\ NoTask \in TaskRow
  BY SetupOK DEF Init, NewTask, NoTask, TaskRow, Kind
<1>3. Shapes
  BY <1>1, <1>2 DEF Init, Shapes, RunStatus, Label
<1>4. TaskOK
  BY SetupOK DEF Init, TaskOK, NewTask, NoTask
<1>5. SliceOK
  BY DEF Init, SliceOK, InCall
<1>. QED BY <1>3, <1>4, <1>5 DEF Typed

----------------------------------------------------------------------------
(* What a step does to the rows.                                           *)

\* A row that is there stays, and of a row only the status changes.
RowsStay ==
  /\ \A c \in DOMAIN ckpt : /\ c \in DOMAIN ckpt'
                            /\ ckpt'[c].next = ckpt[c].next /\ ckpt'[c].log = ckpt[c].log
  /\ \A a \in DOMAIN approval :
       /\ a \in DOMAIN approval'
       /\ approval'[a].step = approval[a].step /\ approval'[a].log = approval[a].log
       /\ approval'[a].call = approval[a].call

\* One field of one row is set.
LEMMA CheckpointSet ==
  ASSUME Typed, NEW c \in DOMAIN ckpt, ckpt' = [ckpt EXCEPT ![c].status = "consumed"]
  PROVE  /\ ckpt' \in Seq(CheckpointRow) /\ DOMAIN ckpt' = DOMAIN ckpt
         /\ \A d \in DOMAIN ckpt : ckpt'[d].next = ckpt[d].next /\ ckpt'[d].log = ckpt[d].log
<1>1. ckpt \in Seq(CheckpointRow) /\ ckpt[c] \in CheckpointRow
  BY DEF Typed, Shapes
<1>2. [ckpt[c] EXCEPT !.status = "consumed"] \in CheckpointRow
  BY <1>1 DEF CheckpointRow
<1>3. ckpt' = [ckpt EXCEPT ![c] = [ckpt[c] EXCEPT !.status = "consumed"]]
  OBVIOUS
<1>4. ckpt' \in Seq(CheckpointRow)
  BY <1>1, <1>2, <1>3, ExceptSeq
<1>. QED BY <1>1, <1>3, <1>4 DEF CheckpointRow

LEMMA ApprovalSet ==
  ASSUME Typed, NEW a \in DOMAIN approval, NEW s \in {"approved", "denied", "consumed"},
         approval' = [approval EXCEPT ![a].status = s]
  PROVE  /\ approval' \in Seq(ApprovalRow) /\ DOMAIN approval' = DOMAIN approval
         /\ \A b \in DOMAIN approval :
              /\ approval'[b].step = approval[b].step /\ approval'[b].log = approval[b].log
              /\ approval'[b].call = approval[b].call
<1>1. approval \in Seq(ApprovalRow) /\ approval[a] \in ApprovalRow
  BY DEF Typed, Shapes
<1>2. [approval[a] EXCEPT !.status = s] \in ApprovalRow
  BY <1>1 DEF ApprovalRow
<1>3. approval' = [approval EXCEPT ![a] = [approval[a] EXCEPT !.status = s]]
  OBVIOUS
<1>4. approval' \in Seq(ApprovalRow)
  BY <1>1, <1>2, <1>3, ExceptSeq
<1>. QED BY <1>1, <1>3, <1>4 DEF ApprovalRow

LEMMA SameRows == Typed /\ UNCHANGED <<ckpt, approval>> => RowsStay
BY DEF RowsStay

LEMMA TaskStays == Typed /\ UNCHANGED task /\ RowsStay => TaskOK'
BY DEF Typed, TaskOK, RowsStay

----------------------------------------------------------------------------
(* What a step does to the slice that takes it.                            *)

\* The types of the variables that belong to the workers.
LocalShapes == pc \in [Worker -> Label] /\ slice \in [Worker -> SliceRow] /\ SliceOK

LEMMA GotoTyped ==
  ASSUME Typed, RowsStay, NEW w \in Worker,
         NEW label \in {"model", "gate", "claim", "execute"}, Goto(w, label), slice' = slice,
         label # "model" => InCall(w)
  PROVE  LocalShapes'
<1>1. pc' \in [Worker -> Label] /\ slice' \in [Worker -> SliceRow]
  BY DEF Typed, Shapes, Goto, Label
<1>2. SliceOK'
  BY DEF Typed, Shapes, SliceOK, Goto, InCall, RowsStay
<1>. QED BY <1>1, <1>2 DEF LocalShapes

LEMMA EndTyped ==
  ASSUME Typed, RowsStay, NEW w \in Worker, NEW outcome \in {"completed", "waiting", "failed"},
         End(w, outcome)
  PROVE  LocalShapes'
<1>1. /\ pc' = [pc EXCEPT ![w] = outcome]
      /\ slice' = [slice EXCEPT ![w] = NewSlice(slice[w].run, "run", slice[w].ref)]
  BY DEF End, Goto
<1>2. NewSlice(slice[w].run, "run", slice[w].ref) \in SliceRow
  BY NewSliceTyped DEF Typed, Shapes, SliceRow, Kind
<1>3. pc' \in [Worker -> Label] /\ slice' \in [Worker -> SliceRow]
  BY <1>1, <1>2 DEF Typed, Shapes, Label
<1>4. SliceOK'
  BY <1>1 DEF Typed, Shapes, SliceOK, InCall, RowsStay
<1>. QED BY <1>3, <1>4 DEF LocalShapes

LEMMA LeaveTyped ==
  ASSUME Typed, RowsStay, NEW w \in Worker, Leave(w)
  PROVE  LocalShapes' /\ lost' \in [Worker -> BOOLEAN]
<1>1. pc' = [pc EXCEPT ![w] = "idle"] /\ slice' = [slice EXCEPT ![w] = NoSlice]
  BY DEF Leave, Goto
<1>2. NoSlice \in SliceRow
  BY NewSliceTyped, SlicesAssumption DEF NoSlice, Kind
<1>3. pc' \in [Worker -> Label] /\ slice' \in [Worker -> SliceRow]
  BY <1>1, <1>2 DEF Typed, Shapes, Label
<1>4. SliceOK'
  BY <1>1 DEF Typed, Shapes, SliceOK, InCall, RowsStay
<1>. QED BY <1>3, <1>4 DEF LocalShapes, Leave, Typed, Shapes

\* The entry that Push appends.
Answered(w, out) == [id |-> slice[w].call.id, args |-> slice[w].call.args, out |-> out]

LEMMA PushIs ==
  ASSUME Typed, NEW w \in Worker, InCall(w), NEW out \in Args \cup {"denied"}, Push(w, out)
  PROVE  /\ Answered(w, out) \in Entry
         /\ slice'[w] = [slice[w] EXCEPT !.log = Append(@, Answered(w, out)), !.call = NoCall,
                           !.step = IF slice[w].paused THEN @ + 1 ELSE @, !.paused = FALSE]
         /\ slice'[w] \in SliceRow
         /\ \A v \in Worker \ {w} : slice'[v] = slice[v] /\ pc'[v] = pc[v]
         /\ pc'[w] = IF slice[w].paused THEN "model" ELSE "turn"
<1>1. slice[w] \in SliceRow /\ slice[w].call \in Call
  BY DEF Typed, Shapes, SliceOK
<1>2. Answered(w, out) \in Entry
  BY <1>1 DEF Answered, Entry, Call
<1>3. slice'[w] = [slice[w] EXCEPT !.log = Append(@, Answered(w, out)), !.call = NoCall,
                     !.step = IF slice[w].paused THEN @ + 1 ELSE @, !.paused = FALSE]
  BY <1>1 DEF Push, Answered, Typed, Shapes, SliceRow
<1>4. slice'[w] \in SliceRow
  <2>1. Append(slice[w].log, Answered(w, out)) \in Seq(Entry)
    BY <1>1, <1>2 DEF SliceRow
  <2>2. slice'[w] = [run |-> slice[w].run, kind |-> slice[w].kind, ref |-> slice[w].ref,
                     paused |-> FALSE,
                     step |-> IF slice[w].paused THEN slice[w].step + 1 ELSE slice[w].step,
                     log |-> Append(slice[w].log, Answered(w, out)), call |-> NoCall]
    BY <1>1, <1>3 DEF SliceRow
  <2>. QED BY <1>1, <2>1, <2>2 DEF SliceRow
<1>5. /\ \A v \in Worker \ {w} : slice'[v] = slice[v] /\ pc'[v] = pc[v]
      /\ pc'[w] = IF slice[w].paused THEN "model" ELSE "turn"
  BY DEF Push, Goto, Typed, Shapes
<1>. QED BY <1>2, <1>3, <1>4, <1>5

LEMMA PushTyped ==
  ASSUME Typed, RowsStay, NEW w \in Worker, InCall(w), NEW out \in Args \cup {"denied"},
         Push(w, out)
  PROVE  LocalShapes'
<1>1. slice' \in [Worker -> SliceRow]
  BY PushIs DEF Push, Typed, Shapes
<1>2. pc' \in [Worker -> Label]
  BY DEF Push, Goto, Typed, Shapes, Label
<1>3. /\ \A v \in Worker \ {w} : slice'[v] = slice[v] /\ pc'[v] = pc[v]
      /\ pc'[w] \in {"model", "turn"}
  BY PushIs
<1>4. SliceOK'
  BY <1>3 DEF Typed, SliceOK, InCall, RowsStay
<1>. QED BY <1>1, <1>2, <1>4 DEF LocalShapes

\* A step that changes only workers' variables and the status of rows.
LEMMA LocalTyped ==
  ASSUME Typed, RowsStay, LocalShapes', UNCHANGED <<config, run, task>>,
         ckpt' \in Seq(CheckpointRow), approval' \in Seq(ApprovalRow),
         \A e \in DOMAIN effect' : effect'[e] \in EffectRow,
         lost' \in [Worker -> BOOLEAN], again' \subseteq ran'
  PROVE  Typed'
BY TaskStays DEF Typed, Shapes, LocalShapes

LEMMA EffectTyped ==
  ASSUME Typed, NEW w \in Worker, NEW row \in EffectRow, SetRow(w, row)
  PROVE  /\ \A e \in DOMAIN effect' : effect'[e] \in EffectRow
         /\ EffectId(w) \in DOMAIN effect' /\ DOMAIN effect \subseteq DOMAIN effect'
BY DEF SetRow, Typed, Shapes


----------------------------------------------------------------------------
(* Every step keeps the types and the rows.                                *)

\* A task row of the engine's making.
LEMMA NewTaskTyped ==
  ASSUME NEW kind \in Kind, NEW ref \in Nat, NEW limit \in Nat \ {0}
  PROVE  /\ NewTask(kind, ref, limit) \in TaskRow
         /\ NewTask(kind, ref, limit).attempt < NewTask(kind, ref, limit).limit
BY DEF NewTask, TaskRow

LEMMA GiveUpTyped ==
  ASSUME Typed, RowsStay, NEW r \in Run, GiveUp(r)
  PROVE  run' \in [Run -> RunStatus] /\ task' \in [Run -> TaskRow] /\ TaskOK'
<1>1. task[r] \in TaskRow /\ NoTask \in TaskRow
  BY DEF Typed, Shapes, NoTask, TaskRow, Kind
<1>2. CASE Exhausted(r) /\ task' = [task EXCEPT ![r] = NoTask]
                        /\ run' = [run EXCEPT ![r] = "failed"]
  <2>1. run' \in [Run -> RunStatus] /\ task' \in [Run -> TaskRow]
    BY <1>1, <1>2 DEF Typed, Shapes, RunStatus
  <2>2. TaskOK'
    BY <1>2 DEF Typed, Shapes, TaskOK, NoTask, RowsStay
  <2>. QED BY <2>1, <2>2
<1>3. CASE ~ Exhausted(r) /\ task' = [task EXCEPT ![r].holder = None] /\ run' = run
  <2>1. task' = [task EXCEPT ![r] = [task[r] EXCEPT !.holder = None]]
    BY <1>3
  <2>2. [task[r] EXCEPT !.holder = None] \in TaskRow
    BY <1>1 DEF TaskRow
  <2>3. run' \in [Run -> RunStatus] /\ task' \in [Run -> TaskRow]
    BY <1>3, <2>1, <2>2 DEF Typed, Shapes
  <2>4. task[r].attempt < task[r].limit
    BY <1>1, <1>3 DEF Exhausted, TaskRow
  <2>5. TaskOK'
    BY <1>1, <2>1, <2>4 DEF Typed, Shapes, TaskOK, TaskRow, RowsStay
  <2>. QED BY <2>3, <2>5
<1>. QED BY <1>2, <1>3 DEF GiveUp

LEMMA ClaimTyped ==
  ASSUME Typed, NEW w \in Worker, NEW r \in Run, Claim(w, r)
  PROVE  Typed' /\ RowsStay
<1>1. RowsStay
  BY SameRows DEF Claim
<1>2. task[r] \in TaskRow /\ task[r].attempt < task[r].limit
  BY DEF Claim, Typed, Shapes, TaskOK
<1>3. /\ \A q \in Run \ {r} : task'[q] = task[q]
      /\ task'[r] = [kind |-> task[r].kind, ref |-> task[r].ref,
                     attempt |-> task[r].attempt + 1, limit |-> task[r].limit, holder |-> w]
      /\ task' = [q \in Run |-> task'[q]]
  BY <1>2 DEF Claim, NextAttempt, Typed, Shapes, TaskRow
<1>4. task'[r] \in TaskRow /\ task'[r].attempt <= task'[r].limit
  BY <1>2, <1>3 DEF TaskRow
<1>5. task' \in [Run -> TaskRow] /\ run' \in [Run -> RunStatus]
  BY <1>3, <1>4 DEF Claim, Typed, Shapes, RunStatus
<1>6. TaskOK'
  BY <1>2, <1>3, <1>4, SlicesAssumption DEF Claim, Typed, Shapes, TaskOK, TaskRow
<1>7. /\ slice' = [slice EXCEPT ![w] = NewSlice(r, task[r].kind, task[r].ref)]
      /\ pc' = [pc EXCEPT ![w] = "load"] /\ UNCHANGED <<ckpt, approval>>
      /\ task[r].kind # "none"
  BY DEF Claim, Goto
<1>8. NewSlice(r, task[r].kind, task[r].ref) \in SliceRow
  BY <1>2, NewSliceTyped DEF TaskRow
<1>9. pc' \in [Worker -> Label] /\ slice' \in [Worker -> SliceRow]
  BY <1>7, <1>8 DEF Typed, Shapes, Label
<1>10. SliceOK'
  BY <1>2, <1>7 DEF Typed, Shapes, SliceOK, TaskOK, InCall, NewSlice
<1>. QED BY <1>1, <1>5, <1>6, <1>9, <1>10 DEF Claim, Typed, Shapes, history

LEMMA ReapTyped ==
  ASSUME Typed, NEW r \in Run, Reap(r)
  PROVE  Typed' /\ RowsStay
<1>1. RowsStay
  BY SameRows DEF Reap
<1>2. run' \in [Run -> RunStatus] /\ task' \in [Run -> TaskRow] /\ TaskOK'
  BY <1>1, GiveUpTyped DEF Reap
<1>3. SliceOK'
  BY DEF Reap, localVars, Typed, SliceOK, InCall
<1>. QED BY <1>1, <1>2, <1>3 DEF Reap, localVars, Typed, Shapes

LEMMA LossTyped ==
  ASSUME Typed, NEW w \in Worker, Lose(w) \/ Abort(w) \/ Crash(w)
  PROVE  Typed' /\ RowsStay
<1>1. RowsStay
  BY SameRows DEF Lose, Abort, Crash, rowVars
<1>2. CASE Lose(w)
  <2>1. SliceOK' /\ TaskOK'
    BY <1>1, <1>2, TaskStays DEF Lose, rowVars, Typed, SliceOK, InCall
  <2>. QED BY <1>1, <1>2, <2>1 DEF Lose, rowVars, Typed, Shapes
<1>3. CASE Abort(w) \/ Crash(w)
  <2>1. Leave(w) /\ UNCHANGED <<config, rowVars, ran, again>>
    BY <1>3 DEF Abort, Crash, history
  <2>2. LocalShapes' /\ lost' \in [Worker -> BOOLEAN]
    BY <1>1, <2>1, LeaveTyped
  <2>. QED BY <1>1, <2>1, <2>2, LocalTyped DEF rowVars, Typed, Shapes
<1>. QED BY <1>2, <1>3

LEMMA LoadTyped ==
  ASSUME Typed, NEW w \in Worker, LoadRun(w) \/ LoadResume(w) \/ LoadContinue(w)
  PROVE  Typed' /\ RowsStay
<1>1. CASE LoadRun(w)
  <2>1. RowsStay
    BY <1>1, SameRows DEF LoadRun, rowVars
  <2>2. LocalShapes'
    BY <1>1, <2>1, GotoTyped DEF LoadRun
  <2>. QED BY <1>1, <2>1, <2>2, LocalTyped DEF LoadRun, rowVars, history, Typed, Shapes
<1>2. CASE LoadResume(w)
  <2>. DEFINE c == slice[w].ref
  <2>1. c \in DOMAIN ckpt /\ ckpt[c] \in CheckpointRow
    BY <1>2 DEF LoadResume, Typed, Shapes, SliceOK
  <2>2. CASE /\ ckpt' = [ckpt EXCEPT ![c].status = "consumed"]
             /\ slice' = [slice EXCEPT ![w].step = ckpt[c].next, ![w].log = ckpt[c].log]
             /\ Goto(w, "model")
    <3>1. /\ ckpt' \in Seq(CheckpointRow) /\ DOMAIN ckpt' = DOMAIN ckpt
          /\ \A d \in DOMAIN ckpt : ckpt'[d].next = ckpt[d].next /\ ckpt'[d].log = ckpt[d].log
      BY <2>1, <2>2, CheckpointSet
    <3>2. RowsStay
      <4>1. UNCHANGED approval
        BY <1>2 DEF LoadResume
      <4>. QED BY <3>1, <4>1 DEF RowsStay
    <3>3. slice' \in [Worker -> SliceRow] /\ pc' \in [Worker -> Label]
      <4>1. slice[w] \in SliceRow
        BY DEF Typed, Shapes
      <4>2. /\ slice'[w] = [run |-> slice[w].run, kind |-> slice[w].kind, ref |-> slice[w].ref,
                            paused |-> slice[w].paused, step |-> ckpt[c].next,
                            log |-> ckpt[c].log, call |-> slice[w].call]
            /\ slice' = [v \in Worker |-> slice'[v]]
            /\ \A v \in Worker \ {w} : slice'[v] = slice[v]
        BY <2>2, <4>1 DEF Typed, Shapes, SliceRow
      <4>3. slice'[w] \in SliceRow
        BY <2>1, <4>1, <4>2 DEF SliceRow, CheckpointRow
      <4>4. slice' \in [Worker -> SliceRow]
        BY <4>2, <4>3 DEF Typed, Shapes
      <4>. QED BY <2>2, <4>4 DEF Goto, Typed, Shapes, Label
    <3>4. SliceOK'
      BY <1>2, <2>2, <3>1 DEF LoadResume, Goto, Typed, Shapes, SliceOK, InCall
    <3>. QED BY <1>2, <3>1, <3>2, <3>3, <3>4, LocalTyped
             DEF LoadResume, LocalShapes, Typed, Shapes
  <2>3. CASE End(w, "failed") /\ UNCHANGED ckpt
    <3>1. RowsStay
      BY <1>2, <2>3, SameRows DEF LoadResume
    <3>2. LocalShapes'
      BY <2>3, <3>1, EndTyped, SMTT(30)
    <3>. QED BY <1>2, <2>3, <3>1, <3>2, LocalTyped DEF LoadResume, Typed, Shapes
  <2>. QED BY <1>2, <2>2, <2>3 DEF LoadResume
<1>3. CASE LoadContinue(w)
  <2>. DEFINE a == slice[w].ref
  <2>1. a \in DOMAIN approval /\ approval[a] \in ApprovalRow
    BY <1>3 DEF LoadContinue, Typed, Shapes, SliceOK
  <2>2. CASE /\ approval' = [approval EXCEPT ![a].status = "consumed"]
             /\ slice' = [slice EXCEPT ![w].paused = TRUE, ![w].step = approval[a].step,
                                       ![w].log = approval[a].log, ![w].call = approval[a].call]
             /\ Goto(w, "gate")
    <3>1. /\ approval' \in Seq(ApprovalRow) /\ DOMAIN approval' = DOMAIN approval
          /\ \A b \in DOMAIN approval :
               /\ approval'[b].step = approval[b].step /\ approval'[b].log = approval[b].log
               /\ approval'[b].call = approval[b].call
      BY <2>1, <2>2, ApprovalSet
    <3>2. RowsStay
      <4>1. UNCHANGED ckpt
        BY <1>3 DEF LoadContinue
      <4>. QED BY <3>1, <4>1 DEF RowsStay
    <3>3. /\ slice' \in [Worker -> SliceRow] /\ pc' \in [Worker -> Label]
          /\ slice'[w].call = approval[a].call /\ pc'[w] = "gate"
          /\ \A v \in Worker \ {w} : slice'[v] = slice[v] /\ pc'[v] = pc[v]
      <4>1. slice[w] \in SliceRow
        BY DEF Typed, Shapes
      <4>2. /\ slice'[w] = [run |-> slice[w].run, kind |-> slice[w].kind, ref |-> slice[w].ref,
                            paused |-> TRUE, step |-> approval[a].step,
                            log |-> approval[a].log, call |-> approval[a].call]
            /\ slice' = [v \in Worker |-> slice'[v]]
            /\ \A v \in Worker \ {w} : slice'[v] = slice[v]
        BY <2>2, <4>1 DEF Typed, Shapes, SliceRow
      <4>3. slice'[w] \in SliceRow
        BY <2>1, <4>1, <4>2 DEF SliceRow, ApprovalRow
      <4>4. slice' \in [Worker -> SliceRow]
        BY <4>2, <4>3 DEF Typed, Shapes
      <4>. QED BY <2>2, <4>4 DEF Goto, Typed, Shapes, Label
    <3>4. SliceOK'
      <4>1. UNCHANGED ckpt /\ approval[a].call \in Call
        BY <1>3, <2>1 DEF LoadContinue, ApprovalRow
      <4>. QED BY <3>1, <3>3, <4>1 DEF Typed, SliceOK, InCall
    <3>. QED BY <1>3, <3>1, <3>2, <3>3, <3>4, LocalTyped
             DEF LoadContinue, LocalShapes, Typed, Shapes, history
  <2>3. CASE /\ End(w, IF approval[a].status = "denied" THEN "completed" ELSE "failed")
             /\ UNCHANGED approval
    <3>1. RowsStay
      BY <1>3, <2>3, SameRows DEF LoadContinue
    <3>2. LocalShapes'
      BY <2>3, <3>1, EndTyped
    <3>. QED BY <1>3, <2>3, <3>1, <3>2, LocalTyped, SMTT(30) DEF LoadContinue, Typed, Shapes, history
  <2>. QED BY <1>3, <2>2, <2>3 DEF LoadContinue
<1>. QED BY <1>1, <1>2, <1>3

LEMMA LoopTyped ==
  ASSUME Typed, NEW w \in Worker,
         \/ Answer(w) \/ ModelFails(w) \/ \E call \in Call : Ask(w, call)
         \/ GoOn(w) \/ Yield(w)
  PROVE  Typed' /\ RowsStay
<1>1. CASE Answer(w) \/ ModelFails(w)
  <2>1. /\ UNCHANGED <<config, rowVars, lost, history>>
        /\ \E o \in {"completed", "waiting", "failed"} : End(w, o)
    BY <1>1 DEF Answer, ModelFails
  <2>2. RowsStay
    BY <2>1, SameRows DEF rowVars
  <2>3. LocalShapes'
    BY <2>1, <2>2, EndTyped
  <2>. QED BY <2>1, <2>2, <2>3, LocalTyped DEF rowVars, history, Typed, Shapes
<1>2. ASSUME NEW call \in Call, Ask(w, call) PROVE Typed' /\ RowsStay
  <2>1. RowsStay
    BY <1>2, SameRows DEF Ask, rowVars
  <2>2. slice' \in [Worker -> SliceRow] /\ pc' \in [Worker -> Label]
    BY <1>2 DEF Ask, Goto, Typed, Shapes, SliceRow, Label
  <2>3. SliceOK'
    BY <1>2, <2>1 DEF Ask, Goto, Typed, Shapes, SliceOK, InCall, SliceRow, RowsStay
  <2>. QED BY <1>2, <2>1, <2>2, <2>3, LocalTyped
           DEF Ask, LocalShapes, rowVars, history, Typed, Shapes
<1>3. CASE GoOn(w)
  <2>1. RowsStay
    BY <1>3, SameRows DEF GoOn, rowVars
  <2>2. slice' \in [Worker -> SliceRow] /\ pc' \in [Worker -> Label]
    <3>1. slice[w] \in SliceRow
      BY DEF Typed, Shapes
    <3>2. [slice[w] EXCEPT !.step = slice[w].step + 1] \in SliceRow
      BY <3>1 DEF SliceRow
    <3>3. slice' = [slice EXCEPT ![w] = [slice[w] EXCEPT !.step = slice[w].step + 1]]
      BY <1>3 DEF GoOn
    <3>. QED BY <1>3, <3>2, <3>3 DEF GoOn, Goto, Typed, Shapes, Label
  <2>3. SliceOK'
    BY <1>3, <2>1 DEF GoOn, Goto, Typed, Shapes, SliceOK, InCall, SliceRow, RowsStay
  <2>. QED BY <1>3, <2>1, <2>2, <2>3, LocalTyped
           DEF GoOn, LocalShapes, rowVars, history, Typed, Shapes
<1>4. CASE Yield(w)
  <2>. DEFINE row == [status |-> "pending", next |-> NextStep(slice[w].step),
                      log |-> slice[w].log]
  <2>1. slice[w] \in SliceRow /\ ckpt \in Seq(CheckpointRow) /\ Len(ckpt) \in Nat
    BY DEF Typed, Shapes
  <2>2. row \in CheckpointRow
    BY <2>1 DEF SliceRow, CheckpointRow, NextStep
  <2>3. ckpt' = Append(ckpt, row) /\ UNCHANGED approval
    BY <1>4 DEF Yield
  <2>4. /\ ckpt' \in Seq(CheckpointRow) /\ Len(ckpt) + 1 \in DOMAIN ckpt'
        /\ \A c \in DOMAIN ckpt : c \in DOMAIN ckpt' /\ ckpt'[c] = ckpt[c]
    BY <2>1, <2>2, <2>3
  <2>5. RowsStay
    BY <2>3, <2>4 DEF RowsStay
  <2>6. /\ slice' = [slice EXCEPT ![w] = NewSlice(slice[w].run, "run", Len(ckpt) + 1)]
        /\ pc' = [pc EXCEPT ![w] = "yielded"]
    BY <1>4 DEF Yield, Goto
  <2>7. NewSlice(slice[w].run, "run", Len(ckpt) + 1) \in SliceRow
    <3>1. slice[w].run \in Run /\ "run" \in Kind /\ Len(ckpt) + 1 \in Nat
      BY <2>1 DEF SliceRow, Kind
    <3>. QED BY <3>1, NewSliceTyped
  <2>8. slice' \in [Worker -> SliceRow] /\ pc' \in [Worker -> Label]
    BY <2>6, <2>7 DEF Typed, Shapes, Label
  <2>9. SliceOK'
    BY <2>4, <2>5, <2>6 DEF Typed, Shapes, SliceOK, InCall, NewSlice, RowsStay
  <2>. QED BY <1>4, <2>4, <2>5, <2>8, <2>9, LocalTyped
           DEF Yield, LocalShapes, Typed, Shapes
<1>. QED BY <1>1, <1>2, <1>3, <1>4

LEMMA GateTyped ==
  ASSUME Typed, NEW w \in Worker, NEW verdict \in Verdict, Gate(w, verdict)
  PROVE  Typed' /\ RowsStay
<1>1. /\ InCall(w) /\ UNCHANGED <<config, run, task, ckpt, effect, lost, history>>
      /\ slice[w] \in SliceRow /\ slice[w].call \in Call
  BY DEF Gate, InCall, Typed, Shapes, SliceOK
<1>2. CASE Goto(w, "claim") /\ UNCHANGED <<approval, slice>>
  <2>1. RowsStay
    BY <1>1, <1>2, SameRows
  <2>2. LocalShapes'
    BY <1>1, <1>2, <2>1, GotoTyped
  <2>. QED BY <1>1, <1>2, <2>1, <2>2, LocalTyped DEF history, Typed, Shapes
<1>3. CASE Push(w, "denied") /\ UNCHANGED approval
  <2>1. RowsStay
    BY <1>1, <1>3, SameRows
  <2>2. LocalShapes'
    BY <1>1, <1>3, <2>1, PushTyped
  <2>. QED BY <1>1, <1>3, <2>1, <2>2, LocalTyped DEF history, Typed, Shapes
<1>4. CASE /\ approval' = Append(approval, [status |-> "pending", step |-> slice[w].step,
                                            log |-> slice[w].log, call |-> slice[w].call])
           /\ End(w, IF slice[w].paused THEN "failed" ELSE "waiting")
  <2>. DEFINE row == [status |-> "pending", step |-> slice[w].step,
                      log |-> slice[w].log, call |-> slice[w].call]
  <2>1. row \in ApprovalRow /\ approval \in Seq(ApprovalRow)
    BY <1>1 DEF ApprovalRow, SliceRow, Typed, Shapes
  <2>2. /\ approval' \in Seq(ApprovalRow)
        /\ \A a \in DOMAIN approval : a \in DOMAIN approval' /\ approval'[a] = approval[a]
    BY <1>4, <2>1
  <2>3. RowsStay
    BY <1>1, <2>2 DEF RowsStay
  <2>4. LocalShapes'
    BY <1>4, <2>3, EndTyped
  <2>. QED BY <1>1, <2>2, <2>3, <2>4, LocalTyped DEF history, Typed, Shapes
<1>5. CASE End(w, "failed") /\ UNCHANGED approval
  <2>1. RowsStay
    BY <1>1, <1>5, SameRows
  <2>2. LocalShapes'
    BY <1>5, <2>1, EndTyped
  <2>. QED BY <1>1, <1>5, <2>1, <2>2, LocalTyped DEF history, Typed, Shapes
<1>. QED BY <1>2, <1>3, <1>4, <1>5 DEF Gate

LEMMA ToolTyped ==
  ASSUME Typed, NEW w \in Worker,
         \/ ClaimNew(w) \/ ClaimDone(w) \/ ClaimOver(w) \/ ClaimFails(w)
         \/ Complete(w) \/ CompleteThrows(w) \/ Fail(w)
  PROVE  Typed' /\ RowsStay
<1>1. /\ InCall(w) /\ UNCHANGED <<config, run, task, ckpt, approval, lost>>
      /\ slice[w] \in SliceRow /\ slice[w].call \in Call
  BY DEF ClaimNew, ClaimDone, ClaimOver, ClaimFails, Complete, CompleteThrows, Fail, Execute,
         InCall, rowVars, Typed, Shapes, SliceOK
<1>2. RowsStay
  BY <1>1, SameRows
<1>3. CASE ClaimNew(w) \/ ClaimOver(w)
  <2>1. Execute(w) /\ \E row \in EffectRow : SetRow(w, row)
    <3>1. CASE ClaimNew(w)
      <4>1. [status |-> "started", holder |-> w, args |-> slice[w].call.args] \in EffectRow
        BY <1>1 DEF EffectRow, Call
      <4>. QED BY <3>1, <4>1 DEF ClaimNew
    <3>2. CASE ClaimOver(w)
      <4>1. Row(w) \in EffectRow
        BY <3>2 DEF ClaimOver, Recorded, Row, Typed, Shapes
      <4>2. [Row(w) EXCEPT !.holder = w] \in EffectRow
        BY <4>1 DEF EffectRow
      <4>. QED BY <3>2, <4>2 DEF ClaimOver
    <3>. QED BY <1>3, <3>1, <3>2
  <2>2. LocalShapes'
    BY <1>1, <1>2, <2>1, GotoTyped DEF Execute
  <2>3. \A e \in DOMAIN effect' : effect'[e] \in EffectRow
    BY <2>1, EffectTyped
  <2>4. again' \subseteq ran'
    BY <2>1 DEF Execute, Typed, Shapes
  <2>. QED BY <1>1, <1>2, <2>2, <2>3, <2>4, LocalTyped DEF Typed, Shapes
<1>4. CASE ClaimDone(w)
  <2>1. Row(w).args \in Args /\ Push(w, Row(w).args) /\ UNCHANGED <<effect, history>>
    BY <1>4 DEF ClaimDone, Recorded, Row, EffectRow, Typed, Shapes, rowVars
  <2>2. LocalShapes'
    BY <1>1, <1>2, <2>1, PushTyped
  <2>. QED BY <1>1, <1>2, <2>1, <2>2, LocalTyped DEF history, Typed, Shapes
<1>5. CASE ClaimFails(w)
  <2>1. LocalShapes' /\ UNCHANGED <<effect, history>>
    BY <1>2, <1>5, EndTyped DEF ClaimFails, rowVars
  <2>. QED BY <1>1, <1>2, <2>1, LocalTyped DEF history, Typed, Shapes
<1>6. CASE Complete(w) \/ CompleteThrows(w) \/ Fail(w)
  <2>1. /\ UNCHANGED history
        /\ \/ Push(w, slice[w].call.args)
           \/ End(w, "failed")
    BY <1>6 DEF Complete, CompleteThrows, Fail
  <2>2. LocalShapes'
    <3>1. slice[w].call.args \in Args
      BY <1>1 DEF Call
    <3>. QED BY <1>1, <1>2, <2>1, <3>1, PushTyped, EndTyped
  <2>3. \A e \in DOMAIN effect' : effect'[e] \in EffectRow
    <3>1. CASE UNCHANGED effect
      BY <3>1 DEF Typed, Shapes
    <3>2. ASSUME Mine(w), NEW s \in {"completed", "failed"},
                 SetRow(w, [Row(w) EXCEPT !.status = s, !.holder = None])
          PROVE  \A e \in DOMAIN effect' : effect'[e] \in EffectRow
      <4>1. Row(w) \in EffectRow
        BY <3>2 DEF Mine, Recorded, Row, Typed, Shapes
      <4>2. [Row(w) EXCEPT !.status = s, !.holder = None] \in EffectRow
        BY <4>1 DEF EffectRow
      <4>. QED BY <3>2, <4>2, EffectTyped
    <3>. QED BY <1>6, <3>1, <3>2 DEF Complete, CompleteThrows, Fail
  <2>. QED BY <1>1, <1>2, <2>1, <2>2, <2>3, LocalTyped DEF history, Typed, Shapes
<1>. QED BY <1>3, <1>4, <1>5, <1>6

LEMMA CommitTyped ==
  ASSUME Typed, NEW w \in Worker,
         CommitFinal(w) \/ CommitYield(w) \/ CommitFailed(w) \/ CommitNothing(w)
  PROVE  Typed' /\ RowsStay
<1>1. Leave(w) /\ UNCHANGED <<config, ckpt, approval, effect, history>>
  BY DEF CommitFinal, CommitYield, CommitFailed, CommitNothing, rowVars
<1>2. RowsStay
  BY <1>1, SameRows
<1>3. LocalShapes' /\ lost' \in [Worker -> BOOLEAN]
  BY <1>1, <1>2, LeaveTyped
<1>4. slice[w] \in SliceRow /\ slice[w].run \in Run
  BY DEF Typed, Shapes, SliceRow
<1>5. run' \in [Run -> RunStatus] /\ task' \in [Run -> TaskRow] /\ TaskOK'
  <2>1. CASE CommitFinal(w)
    <3>1. NoTask \in TaskRow
      BY DEF NoTask, TaskRow, Kind
    <3>2. run' \in [Run -> RunStatus] /\ task' \in [Run -> TaskRow]
      BY <1>4, <2>1, <3>1 DEF CommitFinal, Typed, Shapes, RunStatus
    <3>3. TaskOK'
      BY <1>1, <1>4, <2>1 DEF CommitFinal, Typed, Shapes, TaskOK, NoTask
    <3>. QED BY <3>2, <3>3
  <2>2. CASE CommitYield(w)
    <3>1. slice[w].ref \in DOMAIN ckpt /\ slice[w].ref \in Nat
      BY <1>4, <2>2 DEF CommitYield, Typed, Shapes, SliceOK, SliceRow
    <3>2. Continuation(w) \in TaskRow
      BY <3>1, NewTaskTyped DEF Continuation, DefaultAttempts, Kind
    <3>3. run' \in [Run -> RunStatus] /\ task' \in [Run -> TaskRow]
      BY <1>4, <2>2, <3>2 DEF CommitYield, Typed, Shapes, RunStatus
    <3>4. TaskOK'
      BY <1>1, <1>4, <2>2, <3>1
      DEF CommitYield, Typed, Shapes, TaskOK, Continuation, DefaultAttempts, NewTask
    <3>. QED BY <3>3, <3>4
  <2>3. CASE CommitFailed(w)
    BY <1>2, <1>4, <2>3, GiveUpTyped DEF CommitFailed
  <2>4. CASE CommitNothing(w)
    BY <1>2, <2>4, TaskStays DEF CommitNothing, rowVars, Typed, Shapes
  <2>. QED BY <2>1, <2>2, <2>3, <2>4
<1>. QED BY <1>1, <1>2, <1>3, <1>5 DEF LocalShapes, history, Typed, Shapes

LEMMA HostTyped ==
  ASSUME Typed, NEW a \in DOMAIN approval,
         \/ \E status \in {"approved", "denied"} : Decide(a, status)
         \/ \E r \in Run : Continue(r, a)
  PROVE  Typed' /\ RowsStay
<1>1. ASSUME NEW s \in {"approved", "denied"}, Decide(a, s) PROVE Typed' /\ RowsStay
  <2>1. /\ approval' \in Seq(ApprovalRow) /\ DOMAIN approval' = DOMAIN approval
        /\ \A b \in DOMAIN approval :
             /\ approval'[b].step = approval[b].step /\ approval'[b].log = approval[b].log
             /\ approval'[b].call = approval[b].call
    BY <1>1, ApprovalSet DEF Decide
  <2>2. UNCHANGED <<config, run, task, ckpt, effect, localVars, history>>
    BY <1>1 DEF Decide
  <2>3. RowsStay
    BY <2>1, <2>2 DEF RowsStay
  <2>4. LocalShapes'
    BY <2>1, <2>2 DEF LocalShapes, localVars, Typed, Shapes, SliceOK, InCall
  <2>. QED BY <2>1, <2>2, <2>3, <2>4, LocalTyped DEF localVars, history, Typed, Shapes
<1>2. ASSUME NEW r \in Run, Continue(r, a) PROVE Typed' /\ RowsStay
  <2>1. RowsStay
    BY <1>2, SameRows DEF Continue
  <2>2. a \in Nat /\ config.attempts \in Nat \ {0}
    BY SetupOK DEF Typed, Shapes
  <2>3. NewTask("continue", a, config.attempts) \in TaskRow
    BY <2>2, NewTaskTyped DEF Kind
  <2>4. run' \in [Run -> RunStatus] /\ task' \in [Run -> TaskRow]
    BY <1>2, <2>3 DEF Continue, Typed, Shapes, RunStatus
  <2>5. TaskOK'
    BY <1>2, <2>2 DEF Continue, Typed, Shapes, TaskOK, NewTask
  <2>6. SliceOK'
    BY <1>2 DEF Continue, localVars, Typed, SliceOK, InCall
  <2>. QED BY <1>2, <2>1, <2>4, <2>5, <2>6 DEF Continue, localVars, history, Typed, Shapes
<1>. QED BY <1>1, <1>2

LEMMA TypedStep == Typed /\ [Next]_vars => Typed' /\ RowsStay
<1>. SUFFICES ASSUME Typed, [Next]_vars PROVE Typed' /\ RowsStay
  OBVIOUS
<1>1. ASSUME NEW w \in Worker, Slice(w) PROVE Typed' /\ RowsStay
  BY <1>1, LoadTyped, LoopTyped, GateTyped, ToolTyped, CommitTyped, LossTyped DEF Slice
<1>2. ASSUME NEW w \in Worker, NEW r \in Run, Claim(w, r) PROVE Typed' /\ RowsStay
  BY <1>2, ClaimTyped
<1>3. ASSUME NEW w \in Worker, Lose(w) \/ Crash(w) PROVE Typed' /\ RowsStay
  BY <1>3, LossTyped
<1>4. ASSUME NEW r \in Run, Reap(r) PROVE Typed' /\ RowsStay
  BY <1>4, ReapTyped
<1>5. CASE Host
  BY <1>5, HostTyped DEF Host
<1>6. CASE UNCHANGED vars
  <2>1. RowsStay
    BY <1>6, SameRows DEF vars, rowVars
  <2>2. LocalShapes'
    BY <1>6 DEF vars, rowVars, localVars, LocalShapes, Typed, Shapes, SliceOK, InCall
  <2>. QED BY <1>6, <2>1, <2>2, LocalTyped
           DEF vars, rowVars, localVars, history, Typed, Shapes
<1>. QED BY <1>1, <1>2, <1>3, <1>4, <1>5, <1>6 DEF Next, Work

\* Types, that attempts stay within the limit, and that what tasks and slices refer to is
\* there, are kept by every step of the engine, the runtime and the host.
THEOREM SlicesTyping == Spec => []TypeOK
<1>. QED BY TypedInit, TypedStep, TypedIsTypeOK, PTL DEF Spec

----------------------------------------------------------------------------
(* Tools that must not be repeated.                                        *)

\* An effect whose tool was executed has its row.
OnceInv == ran \subseteq DOMAIN effect /\ OncePerCall

LEMMA OnceStep == Typed /\ OnceInv /\ [Next]_vars => OnceInv'
<1>. SUFFICES ASSUME Typed, OnceInv, [Next]_vars PROVE OnceInv'
  OBVIOUS
<1>1. CASE UNCHANGED <<config, ran, again>> /\ DOMAIN effect \subseteq DOMAIN effect'
  BY <1>1 DEF OnceInv, OncePerCall
<1>2. ASSUME NEW w \in Worker,
             \/ ClaimDone(w) \/ ClaimFails(w)
             \/ Complete(w) \/ CompleteThrows(w) \/ Fail(w)
      PROVE  OnceInv'
  <2>1. DOMAIN effect \subseteq DOMAIN effect'
    BY <1>2 DEF ClaimDone, ClaimFails, Complete, CompleteThrows, Fail, SetRow, rowVars
  <2>. QED BY <1>1, <1>2, <2>1
           DEF ClaimDone, ClaimFails, Complete, CompleteThrows, Fail, history
<1>3. ASSUME NEW w \in Worker, ClaimNew(w) PROVE OnceInv'
  BY <1>3 DEF ClaimNew, Recorded, Execute, SetRow, OnceInv, OncePerCall
<1>4. ASSUME NEW w \in Worker, ClaimOver(w) PROVE OnceInv'
  BY <1>4 DEF ClaimOver, Recorded, MayReclaim, Execute, SetRow, OnceInv, OncePerCall
<1>5. ASSUME NEW w \in Worker, Slice(w),
             ~ (\/ ClaimNew(w) \/ ClaimDone(w) \/ ClaimOver(w) \/ ClaimFails(w)
                \/ Complete(w) \/ CompleteThrows(w) \/ Fail(w))
      PROVE  UNCHANGED <<config, ran, again, effect>>
  BY <1>5 DEF Slice, LoadRun, LoadResume, LoadContinue, Answer, ModelFails, Ask, Gate, GoOn,
              Yield, CommitFinal, CommitYield, CommitFailed, CommitNothing, Abort, rowVars,
              history
<1>6. ASSUME NEW w \in Worker, NEW r \in Run, Claim(w, r)
      PROVE  UNCHANGED <<config, ran, again, effect>>
  BY <1>6 DEF Claim, history
<1>7. CASE Host \/ UNCHANGED vars
  BY <1>1, <1>7 DEF Host, Decide, Continue, vars, rowVars, history
<1>8. ASSUME NEW r \in Run, Reap(r) PROVE UNCHANGED <<config, ran, again, effect>>
  BY <1>8 DEF Reap
<1>9. ASSUME NEW w \in Worker, Lose(w) \/ Crash(w) PROVE UNCHANGED <<config, ran, again, effect>>
  BY <1>9 DEF Lose, Crash, rowVars
<1>. QED BY <1>1, <1>2, <1>3, <1>4, <1>5, <1>6, <1>7, <1>8, <1>9 DEF Next, Work

\* Without idempotency no tool is executed twice for one call id of a run, or for one
\* approval, whatever attempts, slices and zombies reach the call.
THEOREM ExecutedOncePerCall == Spec => []OncePerCall
<1>1. Init => OnceInv
  BY DEF Init, OnceInv, OncePerCall
<1>2. OnceInv => OncePerCall
  BY DEF OnceInv
<1>. QED BY TypedInit, TypedStep, OnceStep, <1>1, <1>2, PTL DEF Spec

----------------------------------------------------------------------------
(* What a step does to the slice of a worker, whoever takes the step.      *)

Stays(w) == pc'[w] = pc[w] /\ slice'[w] = slice[w]
Over(w) ==
  /\ pc[w] # "idle"
  /\ pc'[w] \in {"idle", "completed", "waiting", "failed"} /\ slice'[w].log = << >>
  /\ pc'[w] = "idle" \/ slice'[w].run = slice[w].run
Begins(w, r) ==
  /\ pc[w] = "idle" /\ pc'[w] = "load"
  /\ task[r].kind # "none" /\ task[r].holder = None
  /\ task'[r].holder = w
  /\ slice'[w] = NewSlice(r, task[r].kind, task[r].ref)
Prompts(w) ==
  pc[w] = "load" /\ slice[w].kind = "run" /\ pc'[w] = "model" /\ slice'[w] = slice[w]
Resumes(w) ==
  /\ pc[w] = "load" /\ slice[w].kind = "resume" /\ slice[w].ref \in DOMAIN ckpt
  /\ pc'[w] = "model" /\ slice'[w].run = slice[w].run
  /\ slice'[w].step = ckpt[slice[w].ref].next /\ slice'[w].log = ckpt[slice[w].ref].log
Continues(w) ==
  /\ pc[w] = "load" /\ slice[w].kind = "continue" /\ slice[w].ref \in DOMAIN approval
  /\ pc'[w] = "gate" /\ slice'[w].run = slice[w].run
  /\ slice'[w].step = approval[slice[w].ref].step
  /\ slice'[w].log = approval[slice[w].ref].log
  /\ slice'[w].call = approval[slice[w].ref].call
Asks(w) ==
  /\ pc[w] = "model" /\ pc'[w] = "gate"
  /\ slice[w].step < config.steps /\ slice'[w].call.id \notin Named(slice[w].log)
  /\ slice'[w].run = slice[w].run /\ slice'[w].step = slice[w].step
  /\ slice'[w].log = slice[w].log
Enters(w) == InCall(w) /\ pc'[w] \in {"claim", "execute"} /\ slice'[w] = slice[w]
Answers(w) ==
  /\ InCall(w)
  /\ slice'[w].run = slice[w].run
  /\ \E out \in {slice[w].call.args, "denied"} :
       slice'[w].log = Append(slice[w].log, Answered(w, out)) /\ Answered(w, out) \in Entry
  /\ \/ pc'[w] = "model" /\ slice'[w].step = slice[w].step + 1
     \/ pc'[w] = "turn" /\ slice'[w].step = slice[w].step
Turns(w) ==
  /\ pc[w] = "turn" /\ pc'[w] = "model"
  /\ slice'[w].run = slice[w].run /\ slice'[w].log = slice[w].log
  /\ slice'[w].step = slice[w].step + 1
Parks(w) ==
  /\ pc[w] = "turn" /\ slice[w].step + 1 < config.steps
  /\ ckpt' = Append(ckpt, [status |-> "pending", next |-> slice[w].step + 1,
                           log |-> slice[w].log])
  /\ pc'[w] = "yielded" /\ slice'[w] = NewSlice(slice[w].run, "run", Len(ckpt) + 1)

Moves(w) ==
  \/ Stays(w) \/ Over(w) \/ \E r \in Run : Begins(w, r)
  \/ Prompts(w) \/ Resumes(w) \/ Continues(w)
  \/ Asks(w) \/ Enters(w) \/ Answers(w) \/ Turns(w) \/ Parks(w)

LEMMA OthersStay ==
  ASSUME Typed, NEW w \in Worker, NEW v \in Worker \ {w},
         Slice(w) \/ Crash(w) \/ \E r \in Run : Claim(w, r)
  PROVE  Stays(v)
<1>1. CASE LoadRun(w) \/ LoadResume(w) \/ LoadContinue(w)
  BY <1>1 DEF LoadRun, LoadResume, LoadContinue, Goto, End, Stays, Typed, Shapes
<1>2. CASE \/ Answer(w) \/ ModelFails(w) \/ (\E call \in Call : Ask(w, call))
           \/ GoOn(w) \/ Yield(w)
  BY <1>2 DEF Answer, ModelFails, Ask, GoOn, Yield, Goto, End, Stays, Typed, Shapes
<1>3. CASE \E verdict \in Verdict : Gate(w, verdict)
  BY <1>3 DEF Gate, Push, Goto, End, Stays, Typed, Shapes
<1>4. CASE ClaimNew(w) \/ ClaimDone(w) \/ ClaimOver(w) \/ ClaimFails(w)
  BY <1>4 DEF ClaimNew, ClaimDone, ClaimOver, ClaimFails, Execute, Push, Goto, End, Stays,
              Typed, Shapes
<1>5. CASE Complete(w) \/ CompleteThrows(w) \/ Fail(w)
  BY <1>5 DEF Complete, CompleteThrows, Fail, Push, Goto, End, Stays, Typed, Shapes
<1>6. CASE \/ CommitFinal(w) \/ CommitYield(w) \/ CommitFailed(w) \/ CommitNothing(w)
           \/ Abort(w) \/ Crash(w)
  BY <1>6 DEF CommitFinal, CommitYield, CommitFailed, CommitNothing, Abort, Crash, Leave,
              Goto, Stays, Typed, Shapes
<1>7. CASE \E r \in Run : Claim(w, r)
  BY <1>7 DEF Claim, Goto, Stays, Typed, Shapes
<1>. QED BY <1>1, <1>2, <1>3, <1>4, <1>5, <1>6, <1>7 DEF Slice

LEMMA PushAnswers ==
  ASSUME Typed, NEW w \in Worker, InCall(w),
         NEW out \in {slice[w].call.args, "denied"}, Push(w, out)
  PROVE  Answers(w)
<1>1. slice[w] \in SliceRow /\ out \in Args \cup {"denied"}
  BY DEF Typed, Shapes, SliceOK, Call
<1>2. /\ Answered(w, out) \in Entry
      /\ slice'[w] = [slice[w] EXCEPT !.log = Append(@, Answered(w, out)), !.call = NoCall,
                        !.step = IF slice[w].paused THEN @ + 1 ELSE @, !.paused = FALSE]
      /\ pc'[w] = IF slice[w].paused THEN "model" ELSE "turn"
  BY <1>1, PushIs
<1>3. /\ slice'[w].run = slice[w].run
      /\ slice'[w].log = Append(slice[w].log, Answered(w, out))
      /\ slice'[w].step = IF slice[w].paused THEN slice[w].step + 1 ELSE slice[w].step
  BY <1>1, <1>2 DEF SliceRow
<1>. QED BY <1>2, <1>3 DEF Answers

LEMMA EndsOver ==
  ASSUME Typed, NEW w \in Worker, NEW outcome \in {"completed", "waiting", "failed"},
         pc[w] # "idle", End(w, outcome)
  PROVE  Over(w)
BY DEF End, Goto, Over, NewSlice, Typed, Shapes

LEMMA LeavesOver ==
  ASSUME Typed, NEW w \in Worker, pc[w] # "idle", Leave(w)
  PROVE  Over(w)
BY DEF Leave, Goto, Over, NoSlice, NewSlice, Typed, Shapes

LEMMA SliceMoves ==
  ASSUME Typed, NEW w \in Worker, Slice(w)
  PROVE  Moves(w)
<1>0. slice[w] \in SliceRow /\ pc[w] # "idle"
  BY DEF Typed, Shapes, Slice, LoadRun, LoadResume, LoadContinue, Answer, ModelFails, Ask,
         Gate, GoOn, Yield, ClaimNew, ClaimDone, ClaimOver, ClaimFails, Complete,
         CompleteThrows, Fail, CommitFinal, CommitYield, CommitFailed, CommitNothing, Abort
<1>1. CASE LoadRun(w)
  BY <1>1 DEF LoadRun, Goto, Moves, Prompts, Typed, Shapes
<1>2. CASE LoadResume(w)
  <2>1. CASE End(w, "failed")
    BY <2>1, <1>0, EndsOver DEF Moves
  <2>2. CASE ~ End(w, "failed")
    <3>1. slice[w].ref \in DOMAIN ckpt
      BY <1>2 DEF LoadResume, Typed, SliceOK
    <3>2. Resumes(w)
      BY <1>0, <1>2, <2>2, <3>1 DEF LoadResume, Goto, Resumes, Typed, Shapes, SliceRow
    <3>. QED BY <3>2 DEF Moves
  <2>. QED BY <2>1, <2>2
<1>3. CASE LoadContinue(w)
  <2>. DEFINE a == slice[w].ref
  <2>1. CASE End(w, IF approval[a].status = "denied" THEN "completed" ELSE "failed")
    BY <2>1, <1>0, EndsOver DEF Moves
  <2>2. CASE ~ End(w, IF approval[a].status = "denied" THEN "completed" ELSE "failed")
    <3>1. slice[w].ref \in DOMAIN approval
      BY <1>3 DEF LoadContinue, Typed, SliceOK
    <3>2. Continues(w)
      BY <1>0, <1>3, <2>2, <3>1 DEF LoadContinue, Goto, Continues, Typed, Shapes, SliceRow
    <3>. QED BY <3>2 DEF Moves
  <2>. QED BY <2>1, <2>2
<1>4. CASE Answer(w) \/ ModelFails(w)
  BY <1>4, <1>0, EndsOver DEF Answer, ModelFails, Moves
<1>5. ASSUME NEW call \in Call, Ask(w, call) PROVE Moves(w)
  BY <1>0, <1>5 DEF Ask, Goto, Moves, Asks, Typed, Shapes, SliceRow
<1>6. ASSUME NEW verdict \in Verdict, Gate(w, verdict) PROVE Moves(w)
  <2>1. InCall(w)
    BY <1>6 DEF Gate, InCall
  <2>2. CASE Goto(w, "claim") /\ slice' = slice
    BY <2>1, <2>2 DEF Goto, Enters, Moves, Typed, Shapes
  <2>3. CASE Push(w, "denied")
    BY <2>1, <2>3, PushAnswers DEF Moves
  <2>4. CASE End(w, IF slice[w].paused THEN "failed" ELSE "waiting")
    BY <2>4, <1>0, EndsOver DEF Moves
  <2>5. CASE End(w, "failed")
    BY <2>5, <1>0, EndsOver DEF Moves
  <2>. QED BY <1>6, <2>2, <2>3, <2>4, <2>5 DEF Gate
<1>7. CASE GoOn(w)
  BY <1>0, <1>7 DEF GoOn, Goto, Moves, Turns, Typed, Shapes, SliceRow
<1>8. CASE Yield(w)
  BY <1>8 DEF Yield, Goto, Moves, Parks, NextStep, Typed, Shapes
<1>9. CASE ClaimNew(w) \/ ClaimOver(w)
  BY <1>9 DEF ClaimNew, ClaimOver, Execute, Goto, InCall, Moves, Enters, Typed, Shapes
<1>10. CASE ClaimDone(w)
  <2>1. InCall(w) /\ Push(w, slice[w].call.args)
    BY <1>10 DEF ClaimDone, SameEffect, InCall
  <2>. QED BY <2>1, PushAnswers DEF Moves
<1>11. CASE ClaimFails(w)
  BY <1>11, <1>0, EndsOver DEF ClaimFails, Moves
<1>12. CASE Complete(w) \/ CompleteThrows(w) \/ Fail(w)
  <2>1. InCall(w)
    BY <1>12 DEF Complete, CompleteThrows, Fail, InCall
  <2>2. CASE Push(w, slice[w].call.args)
    BY <2>1, <2>2, PushAnswers DEF Moves
  <2>3. CASE End(w, "failed")
    BY <2>3, <1>0, EndsOver DEF Moves
  <2>. QED BY <1>12, <2>2, <2>3 DEF Complete, CompleteThrows, Fail
<1>13. CASE \/ CommitFinal(w) \/ CommitYield(w) \/ CommitFailed(w) \/ CommitNothing(w)
            \/ Abort(w)
  BY <1>13, <1>0, LeavesOver DEF CommitFinal, CommitYield, CommitFailed, CommitNothing, Abort, Moves
<1>. QED BY <1>1, <1>2, <1>3, <1>4, <1>5, <1>6, <1>7, <1>8, <1>9, <1>10, <1>11, <1>12, <1>13
         DEF Slice

LEMMA StepMoves ==
  ASSUME Typed, [Next]_vars, NEW v \in Worker
  PROVE  Moves(v)
<1>1. ASSUME NEW w \in Worker, Slice(w) PROVE Moves(v)
  BY <1>1, SliceMoves, OthersStay DEF Moves
<1>2. ASSUME NEW w \in Worker, NEW r \in Run, Claim(w, r) PROVE Moves(v)
  <2>1. CASE v = w
    BY <1>2, <2>1 DEF Claim, Goto, Moves, Begins, Typed, Shapes, TaskRow
  <2>2. CASE v # w
    BY <1>2, <2>2, OthersStay DEF Moves
  <2>. QED BY <2>1, <2>2
<1>3. ASSUME NEW w \in Worker, Crash(w) PROVE Moves(v)
  BY <1>3, LeavesOver, OthersStay DEF Crash, Moves
<1>4. ASSUME NEW w \in Worker, Lose(w) PROVE Moves(v)
  BY <1>4 DEF Lose, Stays, Moves
<1>5. ASSUME NEW r \in Run, Reap(r) PROVE Moves(v)
  BY <1>5 DEF Reap, localVars, Stays, Moves
<1>6. CASE Host \/ UNCHANGED vars
  BY <1>6 DEF Host, Decide, Continue, vars, localVars, Stays, Moves
<1>. QED BY <1>1, <1>2, <1>3, <1>4, <1>5, <1>6 DEF Next, Work

\* The setup does not change, and new rows come from slices.
Waits(w) ==
  /\ pc[w] = "gate"
  /\ approval' = Append(approval, [status |-> "pending", step |-> slice[w].step,
                                   log |-> slice[w].log, call |-> slice[w].call])

LEMMA NewRows ==
  ASSUME Typed, [Next]_vars
  PROVE  /\ config' = config
         /\ DOMAIN ckpt' = DOMAIN ckpt \/ \E w \in Worker : Parks(w)
         /\ DOMAIN approval' = DOMAIN approval \/ \E w \in Worker : Waits(w)
<1>1. ASSUME NEW w \in Worker, Slice(w), ~ Yield(w), ~ LoadResume(w),
             ~ LoadContinue(w), \A verdict \in Verdict : ~ Gate(w, verdict)
      PROVE  UNCHANGED <<config, ckpt, approval>>
  BY <1>1 DEF Slice, LoadRun, Answer, ModelFails, Ask, GoOn, ClaimNew, ClaimDone, ClaimOver,
              ClaimFails, Execute, Complete, CompleteThrows, Fail, CommitFinal, CommitYield,
              CommitFailed, CommitNothing, Abort, rowVars
<1>2. ASSUME NEW w \in Worker, Yield(w)
      PROVE  Parks(w) /\ UNCHANGED <<config, approval>>
  BY <1>2 DEF Yield, Goto, Parks, NextStep, Typed, Shapes
<1>3. ASSUME NEW w \in Worker, LoadResume(w)
      PROVE  DOMAIN ckpt' = DOMAIN ckpt /\ UNCHANGED <<config, approval>>
  BY <1>3 DEF LoadResume
<1>4. ASSUME NEW w \in Worker, LoadContinue(w)
      PROVE  DOMAIN approval' = DOMAIN approval /\ UNCHANGED <<config, ckpt>>
  BY <1>4 DEF LoadContinue
<1>5. ASSUME NEW w \in Worker, NEW verdict \in Verdict, Gate(w, verdict)
      PROVE  /\ UNCHANGED <<config, ckpt>>
             /\ DOMAIN approval' = DOMAIN approval \/ Waits(w)
  BY <1>5 DEF Gate, Waits
<1>6. ASSUME NEW w \in Worker, NEW r \in Run, Claim(w, r)
      PROVE  UNCHANGED <<config, ckpt, approval>>
  BY <1>6 DEF Claim
<1>7. ASSUME NEW w \in Worker, Lose(w) \/ Crash(w)
      PROVE  UNCHANGED <<config, ckpt, approval>>
  BY <1>7 DEF Lose, Crash, rowVars
<1>8. ASSUME NEW r \in Run, Reap(r) PROVE UNCHANGED <<config, ckpt, approval>>
  BY <1>8 DEF Reap
<1>9. CASE Host
  BY <1>9 DEF Host, Decide, Continue
<1>10. CASE UNCHANGED vars
  BY <1>10 DEF vars, rowVars
<1>. QED BY <1>1, <1>2, <1>3, <1>4, <1>5, <1>6, <1>7, <1>8, <1>9, <1>10 DEF Next, Work

\* Where each row comes from.
LEMMA RowOrigin ==
  ASSUME Typed, [Next]_vars
  PROVE  /\ \A c \in DOMAIN ckpt' :
              \/ /\ c \in DOMAIN ckpt
                 /\ ckpt'[c].next = ckpt[c].next /\ ckpt'[c].log = ckpt[c].log
              \/ \E w \in Worker : /\ Parks(w) /\ ckpt'[c].next = slice[w].step + 1
                                   /\ ckpt'[c].log = slice[w].log
         /\ \A a \in DOMAIN approval' :
              \/ /\ a \in DOMAIN approval /\ approval'[a].step = approval[a].step
                 /\ approval'[a].log = approval[a].log /\ approval'[a].call = approval[a].call
              \/ \E w \in Worker :
                   /\ Waits(w) /\ approval'[a].step = slice[w].step
                   /\ approval'[a].log = slice[w].log /\ approval'[a].call = slice[w].call
<1>1. RowsStay /\ ckpt \in Seq(CheckpointRow) /\ approval \in Seq(ApprovalRow)
  BY TypedStep DEF Typed, Shapes
<1>2. ASSUME NEW c \in DOMAIN ckpt', c \notin DOMAIN ckpt
      PROVE  \E w \in Worker : /\ Parks(w) /\ ckpt'[c].next = slice[w].step + 1
                               /\ ckpt'[c].log = slice[w].log
  <2>1. PICK w \in Worker : Parks(w)
    BY <1>2, NewRows
  <2>2. c = Len(ckpt) + 1
    BY <1>1, <1>2, <2>1 DEF Parks
  <2>3. ckpt'[c] = [status |-> "pending", next |-> slice[w].step + 1, log |-> slice[w].log]
    BY <1>1, <2>1, <2>2 DEF Parks
  <2>. QED BY <2>1, <2>3
<1>3. ASSUME NEW a \in DOMAIN approval', a \notin DOMAIN approval
      PROVE  \E w \in Worker :
               /\ Waits(w) /\ approval'[a].step = slice[w].step
               /\ approval'[a].log = slice[w].log /\ approval'[a].call = slice[w].call
  <2>1. PICK w \in Worker : Waits(w)
    BY <1>3, NewRows
  <2>2. a = Len(approval) + 1
    BY <1>1, <1>3, <2>1 DEF Waits
  <2>3. approval'[a] = [status |-> "pending", step |-> slice[w].step,
                        log |-> slice[w].log, call |-> slice[w].call]
    BY <1>1, <2>1, <2>2 DEF Waits
  <2>. QED BY <2>1, <2>3
<1>. QED BY <1>1, <1>2, <1>3 DEF RowsStay

LEMMA LogsTyped ==
  ASSUME Typed
  PROVE  /\ \A w \in Worker : slice[w].log \in Seq(Entry) /\ slice[w].step \in Nat
         /\ \A c \in DOMAIN ckpt : ckpt[c].log \in Seq(Entry) /\ ckpt[c].next \in Nat
         /\ \A a \in DOMAIN approval :
              approval[a].log \in Seq(Entry) /\ approval[a].step \in Nat
<1>1. /\ \A w \in Worker : slice[w] \in SliceRow
      /\ \A c \in DOMAIN ckpt : ckpt[c] \in CheckpointRow
      /\ \A a \in DOMAIN approval : approval[a] \in ApprovalRow
  BY DEF Typed, Shapes
<1>. QED BY <1>1 DEF SliceRow, CheckpointRow, ApprovalRow

LEMMA Appended ==
  ASSUME NEW log \in Seq(Entry), NEW e \in Entry
  PROVE  /\ Len(Append(log, e)) = Len(log) + 1
         /\ DOMAIN Append(log, e) = DOMAIN log \cup {Len(log) + 1}
         /\ Len(log) + 1 \notin DOMAIN log
         /\ \A i \in DOMAIN log : Append(log, e)[i] = log[i]
         /\ Append(log, e)[Len(log) + 1] = e
OBVIOUS

----------------------------------------------------------------------------
(* Answers belong to their calls.                                          *)

Matched(log) == \A i \in DOMAIN log : log[i].out \in {log[i].args, "denied"}

AnswersInv ==
  /\ \A w \in Worker : Matched(slice[w].log)
  /\ \A c \in DOMAIN ckpt : Matched(ckpt[c].log)
  /\ \A a \in DOMAIN approval : Matched(approval[a].log)

LEMMA AnswersStep == Typed /\ AnswersInv /\ [Next]_vars => AnswersInv'
<1>. SUFFICES ASSUME Typed, AnswersInv, [Next]_vars PROVE AnswersInv'
  OBVIOUS
<1>1. ASSUME NEW w \in Worker PROVE Matched(slice'[w].log)
  <2>1. CASE Answers(w)
    <3>1. PICK out \in {slice[w].call.args, "denied"} :
            slice'[w].log = Append(slice[w].log, Answered(w, out)) /\ Answered(w, out) \in Entry
      BY <2>1 DEF Answers
    <3>2. Answered(w, out).out \in {Answered(w, out).args, "denied"}
      BY DEF Answered
    <3>. QED BY <3>1, <3>2, LogsTyped, Appended DEF Matched, AnswersInv
  <2>2. CASE Over(w) \/ (\E r \in Run : Begins(w, r)) \/ Parks(w)
    <3>1. slice'[w].log = << >>
      <4>1. CASE Over(w)
        BY <4>1 DEF Over
      <4>2. ASSUME NEW r \in Run, Begins(w, r) PROVE slice'[w].log = << >>
        BY <4>2 DEF Begins, NewSlice
      <4>3. CASE Parks(w)
        BY <4>3 DEF Parks, NewSlice
      <4>. QED BY <2>2, <4>1, <4>2, <4>3
    <3>. QED BY <3>1 DEF Matched
  <2>3. CASE Resumes(w)
    BY <2>3 DEF Resumes, AnswersInv
  <2>4. CASE Continues(w)
    BY <2>4 DEF Continues, AnswersInv
  <2>5. CASE Stays(w) \/ Prompts(w) \/ Asks(w) \/ Enters(w) \/ Turns(w)
    BY <2>5 DEF Stays, Prompts, Asks, Enters, Turns, AnswersInv
  <2>. QED BY <2>1, <2>2, <2>3, <2>4, <2>5, StepMoves DEF Moves
<1>2. /\ \A c \in DOMAIN ckpt' : Matched(ckpt'[c].log)
      /\ \A a \in DOMAIN approval' : Matched(approval'[a].log)
  BY RowOrigin DEF AnswersInv
<1>. QED BY <1>1, <1>2 DEF AnswersInv, Matched

\* Every answer in a transcript was made for the arguments of its call, also when the
\* effect ledger gives it for an earlier attempt that used the same call id.
THEOREM AnswersAreTheirCalls == Spec => []AnswersMatchTheirCalls
<1>1. Init => AnswersInv
  BY DEF Init, AnswersInv, Matched, NoSlice, NewSlice
<1>2. AnswersInv => AnswersMatchTheirCalls
  BY DEF AnswersInv, Matched, AnswersMatchTheirCalls
<1>. QED BY TypedInit, TypedStep, AnswersStep, <1>1, <1>2, PTL DEF Spec

----------------------------------------------------------------------------
(* Transcripts are whole.                                                  *)

\* The call in hand is not the last step's before it was answered, and has a new name.
WholeInv ==
  /\ TranscriptIsWhole
  /\ \A w \in Worker : InCall(w) => slice[w].step < config.steps
  /\ \A a \in DOMAIN approval : /\ approval[a].step < config.steps
                                /\ approval[a].call.id \notin Named(approval[a].log)

LEMMA AppendedWhole ==
  ASSUME NEW step \in Nat, NEW log \in Seq(Entry), NEW e \in Entry, Whole(step, log),
         step < config.steps, config.steps \in Nat, e.id \notin Named(log)
  PROVE  Whole(step + 1, Append(log, e))
BY Appended DEF Whole, Named

LEMMA WholeStep == Typed /\ WholeInv /\ [Next]_vars => WholeInv'
<1>. SUFFICES ASSUME Typed, WholeInv, [Next]_vars PROVE WholeInv'
  OBVIOUS
<1>0. config' = config /\ config.steps \in Nat \ {0}
  BY NewRows, SetupOK DEF Typed, Shapes
<1>1. ASSUME NEW w \in Worker
      PROVE  /\ pc'[w] = "model" \/ InCall(w)' => Whole(slice'[w].step, slice'[w].log)
             /\ pc'[w] = "turn" => Whole(slice'[w].step + 1, slice'[w].log)
             /\ InCall(w)' => slice'[w].call.id \notin Named(slice'[w].log)
             /\ InCall(w)' => slice'[w].step < config.steps
  <2>1. CASE Answers(w)
    <3>1. PICK out \in {slice[w].call.args, "denied"} :
            slice'[w].log = Append(slice[w].log, Answered(w, out)) /\ Answered(w, out) \in Entry
      BY <2>1 DEF Answers
    <3>2. Answered(w, out).id \notin Named(slice[w].log)
      BY <2>1 DEF Answers, Answered, WholeInv, TranscriptIsWhole
    <3>3. Whole(slice[w].step, slice[w].log) /\ slice[w].step < config.steps
      BY <2>1 DEF Answers, WholeInv, TranscriptIsWhole
    <3>4. Whole(slice[w].step + 1, slice'[w].log)
      BY <1>0, <3>1, <3>2, <3>3, LogsTyped, AppendedWhole
    <3>. QED BY <2>1, <3>4 DEF Answers, InCall
  <2>2. CASE Over(w) \/ (\E r \in Run : Begins(w, r)) \/ Parks(w)
    BY <2>2 DEF Over, Begins, Parks, InCall
  <2>3. CASE Prompts(w)
    <3>1. slice[w].step = 0 /\ slice[w].log = << >>
      BY <2>3 DEF Prompts, Typed, SliceOK
    <3>. QED BY <1>0, <2>3, <3>1 DEF Prompts, Whole, InCall
  <2>4. CASE Resumes(w)
    BY <2>4 DEF Resumes, InCall, WholeInv, TranscriptIsWhole
  <2>5. CASE Continues(w)
    BY <2>5 DEF Continues, InCall, WholeInv, TranscriptIsWhole
  <2>6. CASE Turns(w)
    BY <2>6 DEF Turns, InCall, WholeInv, TranscriptIsWhole
  <2>7. CASE Asks(w)
    BY <2>7 DEF Asks, InCall, WholeInv, TranscriptIsWhole
  <2>8. CASE Stays(w) \/ Enters(w)
    BY <2>8 DEF Stays, Enters, InCall, WholeInv, TranscriptIsWhole
  <2>. QED BY <2>1, <2>2, <2>3, <2>4, <2>5, <2>6, <2>7, <2>8, StepMoves DEF Moves
<1>2. \A c \in DOMAIN ckpt' : Whole(ckpt'[c].next, ckpt'[c].log) /\ ckpt'[c].next < config.steps
  BY RowOrigin DEF Parks, WholeInv, TranscriptIsWhole
<1>3. \A a \in DOMAIN approval' :
        /\ Whole(approval'[a].step, approval'[a].log) /\ approval'[a].step < config.steps
        /\ approval'[a].call.id \notin Named(approval'[a].log)
  BY RowOrigin DEF Waits, InCall, WholeInv, TranscriptIsWhole
<1>4. TranscriptIsWhole'
  BY <1>0, <1>1, <1>2, <1>3 DEF TranscriptIsWhole, Whole, Named, InCall
<1>. QED BY <1>0, <1>1, <1>3, <1>4 DEF WholeInv, Named, InCall

\* A transcript has one answer for each step done, under distinct call ids, and never more
\* steps than maxSteps, over any number of slices, retries and approvals.
THEOREM TranscriptsAreWhole == Spec => []TranscriptIsWhole
<1>1. Init => WholeInv
  BY DEF Init, WholeInv, TranscriptIsWhole, InCall
<1>2. WholeInv => TranscriptIsWhole
  BY DEF WholeInv
<1>. QED BY TypedInit, TypedStep, WholeStep, <1>1, <1>2, PTL DEF Spec

----------------------------------------------------------------------------
(* What a step does to the task of a run.                                  *)

Freed(r) ==
  /\ ~ Exhausted(r) /\ task[r].holder # None
  /\ task'[r].kind = task[r].kind /\ task'[r].ref = task[r].ref
  /\ task'[r].attempt = task[r].attempt /\ task'[r].limit = task[r].limit
  /\ task'[r].holder = None
Taken(r) ==
  /\ task[r].holder = None
  /\ task'[r].kind = task[r].kind /\ task'[r].ref = task[r].ref
  /\ task'[r].attempt = task[r].attempt + 1 /\ task'[r].limit = task[r].limit
  /\ task'[r].holder # None
  /\ \E w \in Worker : task'[r].holder = w /\ Begins(w, r)
Followed(r) ==
  \E w \in Worker : pc[w] = "yielded" /\ slice[w].run = r /\ task[r].holder = w
                    /\ task'[r] = NewTask("resume", slice[w].ref, 1)
                    /\ pc'[w] = "idle" /\ ckpt' = ckpt
Continued(r) == \E a \in DOMAIN approval : task'[r] = NewTask("continue", a, config.attempts)

LEMMA GiveUpMoves ==
  ASSUME Typed, NEW r \in Run, GiveUp(r), task[r].holder # None, NEW q \in Run
  PROVE  task'[q] = task[q] \/ task'[q] = NoTask \/ Freed(q)
<1>1. task[r] \in TaskRow
  BY DEF Typed, Shapes
<1>2. CASE task' = [task EXCEPT ![r] = NoTask]
  BY <1>2 DEF Typed, Shapes
<1>3. CASE ~ Exhausted(r) /\ task' = [task EXCEPT ![r].holder = None]
  BY <1>1, <1>3 DEF Freed, Typed, Shapes, TaskRow
<1>. QED BY <1>2, <1>3 DEF GiveUp

LEMMA TaskMoves ==
  ASSUME Typed, [Next]_vars, NEW q \in Run
  PROVE  \/ task'[q] = task[q] \/ task'[q] = NoTask
         \/ Freed(q) \/ Taken(q) \/ Followed(q) \/ Continued(q)
<1>1. ASSUME NEW w \in Worker, Slice(w),
             ~ CommitFinal(w), ~ CommitYield(w), ~ CommitFailed(w)
      PROVE  UNCHANGED task
  BY <1>1 DEF Slice, LoadRun, LoadResume, LoadContinue, Answer, ModelFails, Ask, Gate, GoOn,
              Yield, ClaimNew, ClaimDone, ClaimOver, ClaimFails, Execute, Complete,
              CompleteThrows, Fail, CommitNothing, Abort, rowVars
<1>2. ASSUME NEW w \in Worker, CommitFinal(w) PROVE task'[q] = task[q] \/ task'[q] = NoTask
  BY <1>2 DEF CommitFinal, Typed, Shapes
<1>3. ASSUME NEW w \in Worker, CommitYield(w) PROVE task'[q] = task[q] \/ Followed(q)
  BY <1>3 DEF CommitYield, Continuation, DefaultAttempts, Followed, MayCommit, Holds, Leave,
              Goto, Typed, Shapes
<1>4. ASSUME NEW w \in Worker, CommitFailed(w)
      PROVE  task'[q] = task[q] \/ task'[q] = NoTask \/ Freed(q)
  <2>1. slice[w].run \in Run
    BY DEF Typed, Shapes, SliceRow
  <2>2. GiveUp(slice[w].run) /\ task[slice[w].run].holder # None
    BY <1>4, SlicesAssumption DEF CommitFailed, MayCommit, Holds
  <2>. QED BY <2>1, <2>2, GiveUpMoves
<1>5. ASSUME NEW w \in Worker, NEW r \in Run, Claim(w, r)
      PROVE  task'[q] = task[q] \/ Taken(q)
  <2>1. task[r] \in TaskRow /\ w # None
    BY SlicesAssumption DEF Typed, Shapes
  <2>. QED BY <1>5, <2>1 DEF Claim, Goto, NextAttempt, Taken, Begins, Typed, Shapes, TaskRow
<1>6. ASSUME NEW w \in Worker, Lose(w) \/ Crash(w) PROVE UNCHANGED task
  BY <1>6 DEF Lose, Crash, rowVars
<1>7. ASSUME NEW r \in Run, Reap(r)
      PROVE  task'[q] = task[q] \/ task'[q] = NoTask \/ Freed(q)
  BY <1>7, GiveUpMoves DEF Reap
<1>8. CASE Host
  BY <1>8 DEF Host, Decide, Continue, Continued, Typed, Shapes
<1>9. CASE UNCHANGED vars
  BY <1>9 DEF vars, rowVars
<1>. QED BY <1>1, <1>2, <1>3, <1>4, <1>5, <1>6, <1>7, <1>8, <1>9 DEF Next, Work

\* One worker moves at a time.
LEMMA OneMoves ==
  ASSUME Typed, [Next]_vars, NEW w \in Worker, NEW v \in Worker, w # v
  PROVE  Stays(w) \/ Stays(v)
<1>1. ASSUME NEW u \in Worker, Slice(u) \/ Crash(u) \/ \E r \in Run : Claim(u, r)
      PROVE  Stays(w) \/ Stays(v)
  BY <1>1, OthersStay
<1>2. CASE UNCHANGED <<pc, slice>>
  BY <1>2 DEF Stays
<1>3. ASSUME NEW u \in Worker, Lose(u) PROVE UNCHANGED <<pc, slice>>
  BY <1>3 DEF Lose
<1>4. ASSUME NEW r \in Run, Reap(r) PROVE UNCHANGED <<pc, slice>>
  BY <1>4 DEF Reap, localVars
<1>5. CASE Host \/ UNCHANGED vars
  BY <1>2, <1>5 DEF Host, Decide, Continue, vars, localVars
<1>. QED BY <1>1, <1>2, <1>3, <1>4, <1>5 DEF Next, Work

----------------------------------------------------------------------------
(* A due slice finds its checkpoint.                                       *)

\* The task of a yielded run that is due, the slice that has just begun from a checkpoint,
\* and the slice that has yielded but not committed.
Due(r) == task[r].kind = "resume" /\ task[r].holder = None
Reads(w) == pc[w] = "load" /\ slice[w].kind = "resume"
Yields(w) == pc[w] = "yielded"

\* A task that resumes has one attempt.
OneAttempt ==
  \A r \in Run : task[r].kind = "resume" =>
    task[r].limit = 1 /\ (task[r].holder # None => task[r].attempt >= 1)

\* A checkpoint that will be read is pending ...
Fresh ==
  /\ \A r \in Run : Due(r) => ckpt[task[r].ref].status = "pending"
  /\ \A w \in Worker : Yields(w) => ckpt[slice[w].ref].status = "pending"

\* ... and one slice's: it has one due task, or one slice that has yielded it, and
\* nobody is at it.
Apart ==
  /\ \A r \in Run, w \in Worker :
       Due(r) /\ (Reads(w) \/ Yields(w)) => slice[w].ref # task[r].ref
  /\ \A r, q \in Run : Due(r) /\ Due(q) /\ task[r].ref = task[q].ref => r = q
  /\ \A w, v \in Worker : Yields(w) /\ Yields(v) /\ slice[w].ref = slice[v].ref => w = v
  /\ \A w, v \in Worker : Yields(w) /\ Reads(v) => slice[w].ref # slice[v].ref

DueInv == OneAttempt /\ Fresh /\ Apart

\* A checkpoint is consumed by a slice that reads it.
LEMMA StatusMoves ==
  ASSUME Typed, [Next]_vars, NEW c \in DOMAIN ckpt
  PROVE  ckpt'[c].status = ckpt[c].status \/ \E w \in Worker : Reads(w) /\ slice[w].ref = c
<1>0. ckpt \in Seq(CheckpointRow) /\ ckpt[c] \in CheckpointRow
  BY DEF Typed, Shapes
<1>1. ASSUME NEW w \in Worker, Slice(w), ~ Yield(w), ~ LoadResume(w) PROVE UNCHANGED ckpt
  BY <1>1 DEF Slice, LoadRun, LoadContinue, Answer, ModelFails, Ask, Gate, GoOn, ClaimNew,
              ClaimDone, ClaimOver, ClaimFails, Execute, Complete, CompleteThrows, Fail,
              CommitFinal, CommitYield, CommitFailed, CommitNothing, Abort, rowVars
<1>2. ASSUME NEW w \in Worker, Yield(w) PROVE ckpt'[c] = ckpt[c]
  BY <1>0, <1>2 DEF Yield
<1>3. ASSUME NEW w \in Worker, LoadResume(w)
      PROVE  ckpt'[c].status = ckpt[c].status \/ (Reads(w) /\ slice[w].ref = c)
  BY <1>0, <1>3 DEF LoadResume, Reads
<1>4. ASSUME NEW w \in Worker, NEW r \in Run, Claim(w, r) PROVE UNCHANGED ckpt
  BY <1>4 DEF Claim
<1>5. ASSUME NEW w \in Worker, Lose(w) \/ Crash(w) PROVE UNCHANGED ckpt
  BY <1>5 DEF Lose, Crash, rowVars
<1>6. ASSUME NEW r \in Run, Reap(r) PROVE UNCHANGED ckpt
  BY <1>6 DEF Reap
<1>7. CASE Host \/ UNCHANGED vars
  BY <1>7 DEF Host, Decide, Continue, vars, rowVars
<1>. QED BY <1>1, <1>2, <1>3, <1>4, <1>5, <1>6, <1>7 DEF Next, Work

\* How a task comes to be due, and how a slice comes to read or to have yielded.
LEMMA DueMoves ==
  ASSUME Typed, OneAttempt, [Next]_vars, NEW r \in Run, Due(r)'
  PROVE  (Due(r) /\ task'[r] = task[r]) \/ Followed(r)
<1>1. task[r] \in TaskRow
  BY DEF Typed, Shapes
<1>2. ~ Freed(r)
  BY <1>1 DEF Freed, Due, OneAttempt, Exhausted, TaskRow
<1>3. task'[r].kind = "resume" /\ task'[r].holder = None
  BY DEF Due
<1>4. ~ Taken(r)
  BY <1>3 DEF Taken
<1>5. task'[r] # NoTask
  BY <1>3 DEF NoTask
<1>6. ~ Continued(r)
  <2>. SUFFICES ASSUME NEW a \in DOMAIN approval,
                       task'[r] = NewTask("continue", a, config.attempts)
                PROVE  FALSE
    BY DEF Continued
  <2>. QED BY <1>3 DEF NewTask
<1>. QED BY <1>2, <1>3, <1>4, <1>5, <1>6, TaskMoves DEF Due

LEMMA ReadMoves ==
  ASSUME Typed, [Next]_vars, NEW w \in Worker, Reads(w)'
  PROVE  \/ Reads(w) /\ slice'[w].ref = slice[w].ref
         \/ \E r \in Run : Due(r) /\ ~ Due(r)' /\ slice'[w].ref = task[r].ref
<1>1. CASE Stays(w)
  BY <1>1 DEF Stays, Reads
<1>2. ASSUME NEW r \in Run, Begins(w, r)
      PROVE  Due(r) /\ ~ Due(r)' /\ slice'[w].ref = task[r].ref
  BY <1>2, SlicesAssumption DEF Begins, NewSlice, Due, Reads
<1>3. CASE \/ Over(w) \/ Prompts(w) \/ Resumes(w) \/ Continues(w) \/ Asks(w) \/ Enters(w)
           \/ Answers(w) \/ Turns(w) \/ Parks(w)
  BY <1>3 DEF Over, Prompts, Resumes, Continues, Asks, Enters, Answers, Turns, Parks, Reads
<1>. QED BY <1>1, <1>2, <1>3, StepMoves DEF Moves

LEMMA YieldMoves ==
  ASSUME Typed, [Next]_vars, NEW w \in Worker, Yields(w)'
  PROVE  \/ Yields(w) /\ slice'[w].ref = slice[w].ref
         \/ Parks(w) /\ ~ Stays(w) /\ slice'[w].ref = Len(ckpt) + 1
<1>1. CASE Stays(w)
  BY <1>1 DEF Stays, Yields
<1>2. CASE Parks(w)
  BY <1>2 DEF Parks, Stays, NewSlice
<1>3. CASE \/ Over(w) \/ (\E r \in Run : Begins(w, r)) \/ Prompts(w) \/ Resumes(w)
           \/ Continues(w) \/ Asks(w) \/ Enters(w) \/ Answers(w) \/ Turns(w)
  BY <1>3 DEF Over, Begins, Prompts, Resumes, Continues, Asks, Enters, Answers, Turns, Yields
<1>. QED BY <1>1, <1>2, <1>3, StepMoves DEF Moves

LEMMA OneAttemptStep == Typed /\ OneAttempt /\ [Next]_vars => OneAttempt'
<1>. SUFFICES ASSUME Typed, OneAttempt, [Next]_vars, NEW r \in Run, task'[r].kind = "resume"
              PROVE  task'[r].limit = 1 /\ (task'[r].holder # None => task'[r].attempt >= 1)
  BY DEF OneAttempt
<1>1. task[r] \in TaskRow
  BY DEF Typed, Shapes
<1>2. CASE task'[r] = task[r] \/ Freed(r) \/ Taken(r)
  BY <1>1, <1>2 DEF Freed, Taken, OneAttempt, TaskRow
<1>3. CASE Followed(r)
  <2>1. PICK w \in Worker : task'[r] = NewTask("resume", slice[w].ref, 1)
    BY <1>3 DEF Followed
  <2>. QED BY <2>1 DEF NewTask
<1>4. ~ Continued(r)
  <2>. SUFFICES ASSUME NEW a \in DOMAIN approval,
                       task'[r] = NewTask("continue", a, config.attempts)
                PROVE  FALSE
    BY DEF Continued
  <2>. QED BY DEF NewTask
<1>5. task'[r] # NoTask
  BY DEF NoTask
<1>. QED BY <1>2, <1>3, <1>4, <1>5, TaskMoves

LEMMA RefsAreOld ==
  ASSUME Typed
  PROVE  /\ \A r \in Run : Due(r) => task[r].ref \in DOMAIN ckpt
         /\ \A w \in Worker : Reads(w) \/ Yields(w) => slice[w].ref \in DOMAIN ckpt
         /\ Len(ckpt) + 1 \notin DOMAIN ckpt
BY DEF Typed, Shapes, TaskOK, SliceOK, Due, Reads, Yields

LEMMA FreshStep == Typed /\ DueInv /\ [Next]_vars => Fresh'
<1>. SUFFICES ASSUME Typed, DueInv, [Next]_vars PROVE Fresh'
  OBVIOUS
<1>1. ASSUME NEW r \in Run, Due(r)' PROVE ckpt'[task'[r].ref].status = "pending"
  <2>1. CASE Due(r) /\ task'[r] = task[r]
    BY <2>1, RefsAreOld, StatusMoves DEF DueInv, Fresh, Apart
  <2>2. CASE Followed(r)
    BY <2>2 DEF Followed, NewTask, DueInv, Fresh, Yields
  <2>. QED BY <1>1, <2>1, <2>2, DueMoves DEF DueInv
<1>2. ASSUME NEW w \in Worker, Yields(w)' PROVE ckpt'[slice'[w].ref].status = "pending"
  <2>1. CASE Yields(w) /\ slice'[w].ref = slice[w].ref
    BY <2>1, RefsAreOld, StatusMoves DEF DueInv, Fresh, Apart
  <2>2. CASE Parks(w) /\ slice'[w].ref = Len(ckpt) + 1
    <3>1. ckpt \in Seq(CheckpointRow)
      BY DEF Typed, Shapes
    <3>. QED BY <2>2, <3>1 DEF Parks
  <2>. QED BY <1>2, <2>1, <2>2, YieldMoves
<1>. QED BY <1>1, <1>2 DEF Fresh

LEMMA ApartStep == Typed /\ DueInv /\ [Next]_vars => Apart'
<1>. SUFFICES ASSUME Typed, DueInv, [Next]_vars PROVE Apart'
  OBVIOUS
<1>1. ASSUME NEW r \in Run, NEW w \in Worker, Due(r)', Reads(w)' \/ Yields(w)'
      PROVE  slice'[w].ref # task'[r].ref
  <2>1. CASE Due(r) /\ task'[r] = task[r]
    BY <1>1, <2>1, RefsAreOld, ReadMoves, YieldMoves DEF DueInv, Apart
  <2>2. CASE Followed(r)
    <3>1. PICK v \in Worker : Yields(v) /\ task'[r].ref = slice[v].ref /\ pc'[v] = "idle"
      BY <2>2 DEF Followed, NewTask, Yields
    <3>2. w # v
      BY <1>1, <3>1 DEF Reads, Yields
    <3>. QED BY <1>1, <3>1, <3>2, RefsAreOld, ReadMoves, YieldMoves DEF DueInv, Apart
  <2>. QED BY <1>1, <2>1, <2>2, DueMoves DEF DueInv
<1>2. ASSUME NEW r \in Run, NEW q \in Run, Due(r)', Due(q)', task'[r].ref = task'[q].ref
      PROVE  r = q
  <2>1. \A p \in Run : Followed(p) =>
          \E v \in Worker : Yields(v) /\ task'[p].ref = slice[v].ref /\ slice[v].run = p
    BY DEF Followed, NewTask, Yields
  <2>. QED BY <1>2, <2>1, DueMoves DEF DueInv, Apart
<1>3. ASSUME NEW w \in Worker, NEW v \in Worker, Yields(w)', Yields(v)',
             slice'[w].ref = slice'[v].ref
      PROVE  w = v
  BY <1>3, RefsAreOld, YieldMoves, OneMoves DEF DueInv, Apart
<1>4. ASSUME NEW w \in Worker, NEW v \in Worker, Yields(w)', Reads(v)'
      PROVE  slice'[w].ref # slice'[v].ref
  BY <1>4, RefsAreOld, YieldMoves, ReadMoves DEF DueInv, Apart
<1>. QED BY <1>1, <1>2, <1>3, <1>4 DEF Apart, Reads, Yields, Due

\* A task that resumes a yielded run finds its checkpoint whenever it is due: nobody else
\* reads the checkpoint, and the task is not due again once it was consumed.
THEOREM DueSlicesAreRunnable == Spec => []DueSliceIsRunnable
<1>1. Init => DueInv
  BY DEF Init, DueInv, OneAttempt, Fresh, Apart, Due, Reads, Yields, NewTask, NoTask
<1>2. Typed /\ DueInv /\ [Next]_vars => DueInv'
  BY OneAttemptStep, FreshStep, ApartStep DEF DueInv
<1>3. Typed /\ DueInv => DueSliceIsRunnable
  BY RefsAreOld DEF DueInv, Fresh, Due, DueSliceIsRunnable
<1>. QED BY TypedInit, TypedStep, <1>1, <1>2, <1>3, PTL DEF Spec

----------------------------------------------------------------------------
(* Slices make progress.                                                   *)

Extends(new, old) == Len(old) <= Len(new) /\ \A i \in 1..Len(old) : new[i] = old[i]

\* The transcript from which the task of r starts.
BaseOf(r) == Base(r, task, ckpt, approval)

\* The slice of a task's holder goes on from the task's own transcript; once it is past an
\* answer, or has yielded, it has a longer one.
GoesOn(w, old) ==
  /\ task[slice[w].run].kind # "none"
  /\ pc[w] = "load" => /\ slice[w].kind = task[slice[w].run].kind
                       /\ slice[w].ref = task[slice[w].run].ref
  /\ pc[w] = "model" \/ InCall(w) => Extends(slice[w].log, old)
  /\ pc[w] = "turn" => Extends(slice[w].log, old) /\ Len(slice[w].log) > Len(old)
  /\ pc[w] = "yielded" => /\ Extends(ckpt[slice[w].ref].log, old)
                          /\ Len(ckpt[slice[w].ref].log) > Len(old)

ProgressInv ==
  \A w \in Worker : pc[w] # "idle" /\ task[slice[w].run].holder = w =>
    GoesOn(w, Base(slice[w].run, task, ckpt, approval))

LEMMA BaseStays ==
  ASSUME Typed, RowsStay, NEW r \in Run, task'[r] = task[r]
  PROVE  BaseOf(r)' = BaseOf(r)
BY DEF BaseOf, Base, Typed, TaskOK, RowsStay

LEMMA BaseTyped ==
  ASSUME Typed, NEW r \in Run
  PROVE  BaseOf(r) \in Seq(Entry)
BY LogsTyped DEF BaseOf, Base, Typed, TaskOK

LEMMA PrefixIs ==
  ASSUME NEW old \in Seq(Entry), NEW new \in Seq(Entry), Extends(new, old)
  PROVE  SubSeq(new, 1, Len(old)) = old
<1>1. Len(old) \in Nat /\ Len(old) <= Len(new)
  BY DEF Extends
<1>2. /\ SubSeq(new, 1, Len(old)) \in Seq(Entry)
      /\ Len(SubSeq(new, 1, Len(old))) = Len(old)
      /\ \A i \in 1..Len(old) : SubSeq(new, 1, Len(old))[i] = new[i]
  BY <1>1
<1>. QED BY <1>1, <1>2, SeqEqual DEF Extends

\* An answer makes a transcript longer and keeps what it extends.
LEMMA AnswerExtends ==
  ASSUME NEW old \in Seq(Entry), NEW log \in Seq(Entry), NEW e \in Entry, Extends(log, old)
  PROVE  Extends(Append(log, e), old) /\ Len(Append(log, e)) > Len(old)
<1>1. Len(old) \in Nat /\ Len(log) \in Nat /\ 1..Len(old) \subseteq DOMAIN log
  BY DEF Extends
<1>. QED BY <1>1, Appended DEF Extends

\* While a task does not change, its holder's slice goes on from the same transcript.
LEMMA HolderGoesOn ==
  ASSUME Typed, Typed', RowsStay, ProgressInv, NEW w \in Worker, Moves(w),
         NEW q \in Run, q = slice'[w].run, task'[q] = task[q], task[q].holder = w,
         pc'[w] # "idle", NEW old, old = Base(q, task, ckpt, approval)
  PROVE  GoesOn(w, old)'
<1>1. old \in Seq(Entry) /\ slice[w].log \in Seq(Entry) /\ Extends(old, old)
  BY BaseTyped, LogsTyped DEF BaseOf, Extends
<1>2. ASSUME NEW r \in Run PROVE ~ Begins(w, r)
  <2>. SUFFICES ASSUME Begins(w, r) PROVE FALSE
    OBVIOUS
  <2>1. q = r
    BY DEF Begins, NewSlice
  <2>. QED BY <2>1, SlicesAssumption DEF Begins
<1>3. pc[w] # "idle" /\ slice[w].run = q
  <2>1. CASE Stays(w) \/ Prompts(w) \/ Resumes(w) \/ Continues(w) \/ Asks(w)
    BY <2>1 DEF Stays, Prompts, Resumes, Continues, Asks
  <2>2. CASE Enters(w) \/ Turns(w)
    BY <2>2 DEF Enters, Turns, InCall
  <2>3. CASE Answers(w)
    BY <2>3 DEF Answers, InCall
  <2>4. CASE Over(w)
    BY <2>4 DEF Over
  <2>5. CASE Parks(w)
    BY <2>5 DEF Parks, NewSlice
  <2>. QED BY <1>2, <2>1, <2>2, <2>3, <2>4, <2>5 DEF Moves
<1>4. GoesOn(w, old)
  BY <1>3 DEF ProgressInv
<1>5. CASE Stays(w)
  BY <1>3, <1>4, <1>5 DEF Stays, GoesOn, InCall, RowsStay, Typed, SliceOK
<1>6. CASE Over(w)
  BY <1>3, <1>4, <1>6 DEF Over, GoesOn, InCall
<1>7. CASE Prompts(w)
  <2>1. slice[w].log = << >> /\ task[q].kind = "run"
    BY <1>3, <1>4, <1>7 DEF Prompts, GoesOn, Typed, SliceOK
  <2>2. old = << >>
    BY <2>1 DEF Base
  <2>. QED BY <1>1, <1>3, <1>4, <1>7, <2>1, <2>2 DEF Prompts, GoesOn, InCall
<1>8. CASE Resumes(w) \/ Continues(w)
  <2>1. slice'[w].log = old /\ pc'[w] \in {"model", "gate"}
    BY <1>3, <1>4, <1>8 DEF Resumes, Continues, GoesOn, Base
  <2>. QED BY <1>1, <1>3, <1>4, <2>1 DEF GoesOn, InCall
<1>9. CASE Asks(w) \/ Enters(w) \/ Turns(w)
  BY <1>3, <1>4, <1>9 DEF Asks, Enters, Turns, GoesOn, InCall
<1>10. CASE Answers(w)
  <2>1. Extends(slice[w].log, old)
    BY <1>4, <1>10 DEF Answers, GoesOn
  <2>2. Extends(slice'[w].log, old) /\ Len(slice'[w].log) > Len(old)
    BY <1>1, <1>10, <2>1, AnswerExtends DEF Answers
  <2>. QED BY <1>3, <1>4, <1>10, <2>2 DEF Answers, GoesOn, InCall
<1>11. CASE Parks(w)
  <2>1. ckpt'[slice'[w].ref].log = slice[w].log /\ pc'[w] = "yielded"
    <3>1. ckpt \in Seq(CheckpointRow)
      BY DEF Typed, Shapes
    <3>. QED BY <1>11, <3>1 DEF Parks, NewSlice
  <2>2. Extends(slice[w].log, old) /\ Len(slice[w].log) > Len(old)
    BY <1>4, <1>11 DEF Parks, GoesOn
  <2>. QED BY <1>3, <1>4, <2>1, <2>2 DEF GoesOn, InCall
<1>. QED BY <1>2, <1>5, <1>6, <1>7, <1>8, <1>9, <1>10, <1>11 DEF Moves

LEMMA ProgressStep == Typed /\ ProgressInv /\ [Next]_vars => ProgressInv'
<1>. SUFFICES ASSUME Typed, ProgressInv, [Next]_vars,
                     NEW w \in Worker, pc'[w] # "idle", task'[slice'[w].run].holder = w
              PROVE  GoesOn(w, Base(slice[w].run, task, ckpt, approval))'
  BY DEF ProgressInv
<1>1. Typed' /\ RowsStay
  BY TypedStep
<1>2. PICK q \in Run : q = slice'[w].run
  BY <1>1 DEF Typed, Shapes, SliceRow
<1>3. w # None /\ task'[q].holder = w
  BY <1>2, SlicesAssumption
<1>4. task'[q] = task[q] \/ Taken(q)
  <2>1. task'[q] # NoTask
    BY <1>3 DEF NoTask
  <2>2. ~ Freed(q)
    BY <1>3 DEF Freed
  <2>3. ~ Followed(q)
    <3>. SUFFICES ASSUME NEW v \in Worker, task'[q] = NewTask("resume", slice[v].ref, 1)
                  PROVE  FALSE
      BY DEF Followed
    <3>. QED BY <1>3 DEF NewTask
  <2>4. ~ Continued(q)
    <3>. SUFFICES ASSUME NEW a \in DOMAIN approval,
                         task'[q] = NewTask("continue", a, config.attempts)
                  PROVE  FALSE
      BY DEF Continued
    <3>. QED BY <1>3 DEF NewTask
  <2>. QED BY <2>1, <2>2, <2>3, <2>4, TaskMoves
<1>5. CASE task'[q] = task[q]
  <2>1. Base(q, task', ckpt', approval') = Base(q, task, ckpt, approval)
    BY <1>1, <1>5, BaseStays DEF BaseOf
  <2>2. Moves(w) /\ task[q].holder = w
    BY <1>3, <1>5, StepMoves
  <2>3. \A old : old = Base(q, task, ckpt, approval) => GoesOn(w, old)'
    BY <1>1, <1>2, <1>5, <2>2, HolderGoesOn
  <2>. QED BY <1>2, <2>1, <2>3 DEF GoesOn
<1>6. CASE Taken(q)
  <2>1. Begins(w, q)
    BY <1>3, <1>6 DEF Taken
  <2>2. /\ pc'[w] = "load" /\ task[q].kind # "none"
        /\ slice'[w].kind = task[q].kind /\ slice'[w].ref = task[q].ref
    BY <2>1 DEF Begins, NewSlice
  <2>. QED BY <1>2, <1>6, <2>2 DEF Taken, GoesOn, InCall
<1>. QED BY <1>4, <1>5, <1>6

\* SlicesMakeProgress, from the invariant.
LEMMA ProgressAction ==
  Typed /\ ProgressInv /\ [Next]_vars => [\A r \in Run : MovesOn(r)]_vars
<1>. SUFFICES ASSUME Typed, ProgressInv, [Next]_vars, NEW r \in Run,
                     task[r].kind # "none", task'[r].kind = "resume",
                     task'[r].ref # task[r].ref
              PROVE  LET old == BaseOf(r)
                         new == BaseOf(r)'
                     IN  Len(new) > Len(old) /\ SubSeq(new, 1, Len(old)) = old
  BY DEF MovesOn, BaseOf
<1>1. ~ Freed(r) /\ ~ Taken(r) /\ task'[r] # task[r]
  BY DEF Freed, Taken
<1>2. task'[r] # NoTask
  BY DEF NoTask
<1>3. ~ Continued(r)
  <2>. SUFFICES ASSUME NEW a \in DOMAIN approval,
                       task'[r] = NewTask("continue", a, config.attempts)
                PROVE  FALSE
    BY DEF Continued
  <2>. QED BY DEF NewTask
<1>4. PICK w \in Worker : /\ pc[w] = "yielded" /\ slice[w].run = r /\ task[r].holder = w
                          /\ task'[r] = NewTask("resume", slice[w].ref, 1) /\ ckpt' = ckpt
  BY <1>1, <1>2, <1>3, TaskMoves DEF Followed
<1>5. BaseOf(r)' = ckpt[slice[w].ref].log
  BY <1>4 DEF BaseOf, Base, NewTask
<1>6. /\ Extends(ckpt[slice[w].ref].log, BaseOf(r))
      /\ Len(ckpt[slice[w].ref].log) > Len(BaseOf(r))
  BY <1>4 DEF ProgressInv, GoesOn, BaseOf
<1>7. ckpt[slice[w].ref].log \in Seq(Entry) /\ BaseOf(r) \in Seq(Entry)
  BY <1>4, LogsTyped, BaseTyped DEF Typed, SliceOK
<1>. QED BY <1>5, <1>6, <1>7, PrefixIs

\* The task of a run's next slice starts from a transcript that extends the one its
\* predecessor started from; a worker that lost its lease cannot set a run back.
THEOREM SlicesProgress == Spec => SlicesMakeProgress
<1>1. Init => ProgressInv
  BY DEF Init, ProgressInv
<1>. QED BY TypedInit, TypedStep, ProgressStep, ProgressAction, <1>1, PTL
         DEF Spec, SlicesMakeProgress

==============================================================================
