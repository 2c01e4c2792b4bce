------------------------------- MODULE RunSlices -------------------------------
(***************************************************************************)
(* A durable run as the runtime sees it: the model loop (ai-sdk-loop.ts)   *)
(* cut into slices by the engine's tasks.  A slice starts from the prompt, *)
(* from a yield checkpoint (run-checkpoint.ts) or from an approval; it     *)
(* asks the model, executes the tool it calls through the effect ledger,   *)
(* and ends with an answer, a yield, a parked approval or an error.  Tasks *)
(* are retried, leases are reaped under a worker that goes on, workers die.*)
(*                                                                         *)
(* The engine's claim, commit and reap are one action each: SqlEngine has  *)
(* them in statements, and ApprovedCall the effect ledger's.  The provider *)
(* names each tool call; it uses no name twice in one transcript, and may  *)
(* or may not use the same name again when a slice is repeated.            *)
(***************************************************************************)
EXTENDS Naturals, Sequences

CONSTANTS
  Worker,       \* worker ticks, of one process or of several
  Run,          \* durable runs: the first, and continuations of its approvals
  First,        \* the run that starts from a prompt
  Id,           \* the tool call ids a provider may give
  Args,         \* the inputs of a tool call, and what the tool answers to each
  None,
  Setup,        \* the setups of a runtime, each with its bounds
  Verdict       \* what the gates may decide about a call

\* steps: maxSteps.  attempts: the maxAttempts a host gives a task; the engine's handle
\* leaves it at the default.  reclaim: idempotency # "none", so an expired effect lease is
\* taken over.  keeps: the output of a completed effect is kept.  Bounds: how many approvals a
\* behaviour parks, and how often a worker dies, loses its heartbeat or stalls.
Settings == [steps : Nat \ {0}, attempts : Nat \ {0}, reclaim : BOOLEAN, keeps : BOOLEAN,
             maxParked : Nat, maxFaults : Nat]

ASSUME SlicesAssumption ==
  /\ Setup \subseteq Settings
  /\ First \in Run
  /\ None \notin Worker \cup Id \cup Args
  /\ "denied" \notin Args
  /\ Verdict \subseteq {"allow", "deny", "park", "throw"}

VARIABLES
  config,   \* the setup of this behaviour
  run,      \* run[r]: the status column of run r
  task,     \* task[r]: the live task of run r
  ckpt,     \* the run_checkpoint rows, in the order of their creation
  approval, \* the approval rows, in the order of their creation
  effect,   \* the effect rows by effect id
  pc,       \* pc[w]: the next statement of worker w
  slice,    \* slice[w]: the local state of the slice that w executes
  lost,     \* lost[w]: the abort signal of w, set when its heartbeat fails
  ran,      \* history: the effect ids whose tool has been executed ...
  again,    \* ... and those whose tool has been executed more than once
  faults    \* number of deaths, failed heartbeats and stalls so far

rowVars == <<run, task, ckpt, approval, effect>>
localVars == <<pc, slice, lost>>
history == <<ran, again, faults>>
vars == <<config, rowVars, localVars, history>>

\* A tool call of the model, and the transcript's entry once it is answered.
Call == [id : Id, args : Args]
Entry == [id : Id, args : Args, out : Args \cup {"denied"}]
NoCall == [id |-> None, args |-> None]

RunStatus == {"absent", "queued", "running", "waiting", "completed", "failed"}
Kind == {"none", "run", "resume", "continue"}
NoTask == [kind |-> "none", ref |-> 0, attempt |-> 0, limit |-> 0, holder |-> None]
NewTask(kind, ref, limit) ==
  [kind |-> kind, ref |-> ref, attempt |-> 0, limit |-> limit, holder |-> None]
DefaultAttempts == 1

\* What w knows of its slice: its task's run, kind and row; the call it is about to make
\* or execute; the step; the transcript.  paused: the approved call is not yet answered.
NewSlice(r, kind, ref) == [run |-> r, kind |-> kind, ref |-> ref, paused |-> FALSE,
                           step |-> 0, log |-> << >>, call |-> NoCall]
NoSlice == NewSlice(First, "run", 0)

Init ==
  /\ config \in Setup
  /\ run = [r \in Run |-> IF r = First THEN "queued" ELSE "absent"]
  /\ task = [r \in Run |-> IF r = First THEN NewTask("run", 0, config.attempts) ELSE NoTask]
  /\ ckpt = << >>
  /\ approval = << >>
  /\ effect = << >>
  /\ pc = [w \in Worker |-> "idle"]
  /\ slice = [w \in Worker |-> NoSlice]
  /\ lost = [w \in Worker |-> FALSE]
  /\ ran = {}
  /\ again = {}
  /\ faults = 0

Label == {"idle", "load", "model", "gate", "claim", "execute", "turn",
          "completed", "waiting", "yielded", "failed"}

Goto(w, label) == pc' = [pc EXCEPT ![w] = label]

\* The runtime call returns or throws; what is left of the slice is its outcome.
End(w, outcome) ==
  /\ Goto(w, outcome)
  /\ slice' = [slice EXCEPT ![w] = NewSlice(slice[w].run, "run", slice[w].ref)]

\* The worker is free: its tick has returned and its runtime call is over.
Leave(w) ==
  /\ Goto(w, "idle")
  /\ slice' = [slice EXCEPT ![w] = NoSlice]
  /\ lost' = [lost EXCEPT ![w] = FALSE]

----------------------------------------------------------------------------
(* The engine's side of a task.                                            *)

NextAttempt(n) == n + 1

\* claimDueTask: the task is leased to w, and the run is running.
Claim(w, r) ==
  /\ pc[w] = "idle"
  /\ task[r].kind # "none"
  /\ task[r].holder = None
  /\ task' = [task EXCEPT ![r].holder = w, ![r].attempt = NextAttempt(@)]
  /\ run' = [run EXCEPT ![r] = "running"]
  /\ Goto(w, "load")
  /\ slice' = [slice EXCEPT ![w] = NewSlice(r, task[r].kind, task[r].ref)]
  /\ UNCHANGED <<config, ckpt, approval, effect, lost, history>>

Works(w, r) == pc[w] # "idle" /\ slice[w].run = r

Fault == faults < config.maxFaults /\ faults' = faults + 1

Holds(w) == task[slice[w].run].holder = w

Exhausted(r) == task[r].attempt >= task[r].limit

\* A task whose attempt ended without an outcome: due again, or dead and its run failed.
GiveUp(r) ==
  \/ /\ Exhausted(r)
     /\ task' = [task EXCEPT ![r] = NoTask]
     /\ run' = [run EXCEPT ![r] = "failed"]
  \/ /\ ~ Exhausted(r)
     /\ task' = [task EXCEPT ![r].holder = None]
     /\ UNCHANGED run

\* reapExpiredLeases: the holder is dead or has given up, or (a fault) is slower than its lease.
Reap(r) ==
  /\ task[r].holder # None
  /\ LET w == task[r].holder IN
       \/ (~ Works(w, r) \/ lost[w]) /\ UNCHANGED faults
       \/ Works(w, r) /\ ~ lost[w] /\ Fault
  /\ GiveUp(r)
  /\ UNCHANGED <<config, ckpt, approval, effect, localVars, ran, again>>

\* The heartbeat fails, by a fault or because the lease has gone: the tick returns without
\* an outcome and the abort signal is set, but the runtime call goes on until it looks at it.
Lose(w) ==
  /\ pc[w] # "idle"
  /\ ~ lost[w]
  /\ lost' = [lost EXCEPT ![w] = TRUE]
  /\ \/ ~ Holds(w) /\ UNCHANGED faults
     \/ Holds(w) /\ Fault
  /\ UNCHANGED <<config, rowVars, pc, slice, ran, again>>

\* abortIfNeeded: at the start of a step, around the model call, before and in runTool.
Abort(w) ==
  /\ lost[w]
  /\ pc[w] \in {"load", "model", "gate", "claim"}
  /\ Leave(w)
  /\ UNCHANGED <<config, rowVars, history>>

Crash(w) ==
  /\ pc[w] # "idle"
  /\ Fault
  /\ Leave(w)
  /\ UNCHANGED <<config, rowVars, ran, again>>

----------------------------------------------------------------------------
(* The start of a slice: runTask.                                          *)

\* generate: from the prompt, whatever earlier attempts have done.
LoadRun(w) ==
  /\ pc[w] = "load"
  /\ slice[w].kind = "run"
  /\ Goto(w, "model")
  /\ UNCHANGED <<config, rowVars, slice, lost, history>>

\* The guard of consume.
WherePending(c) == ckpt[c].status = "pending"

\* resumeRun: consume the checkpoint and go on from it; a null makes the task fail.
LoadResume(w) ==
  /\ pc[w] = "load"
  /\ slice[w].kind = "resume"
  /\ LET c == slice[w].ref IN
       \/ /\ WherePending(c)
          /\ ckpt' = [ckpt EXCEPT ![c].status = "consumed"]
          /\ slice' = [slice EXCEPT ![w].step = ckpt[c].next, ![w].log = ckpt[c].log]
          /\ Goto(w, "model")
       \/ /\ ~ WherePending(c)
          /\ End(w, "failed")
          /\ UNCHANGED ckpt
  /\ UNCHANGED <<config, run, task, approval, effect, lost, ran, again, faults>>

\* continueRun: a denied approval ends the run; an approved one is consumed, and a
\* consumed one is taken up again; a pending or an expired one makes the task fail.
LoadContinue(w) ==
  /\ pc[w] = "load"
  /\ slice[w].kind = "continue"
  /\ LET a == slice[w].ref IN
       \/ /\ approval[a].status \in {"approved", "consumed"}
          /\ approval' = [approval EXCEPT ![a].status = "consumed"]
          /\ slice' = [slice EXCEPT ![w].paused = TRUE, ![w].step = approval[a].step,
                                    ![w].log = approval[a].log, ![w].call = approval[a].call]
          /\ Goto(w, "gate")
       \/ /\ approval[a].status # "consumed"
          /\ End(w, IF approval[a].status = "denied" THEN "completed" ELSE "failed")
          /\ UNCHANGED approval
  /\ UNCHANGED <<config, run, task, ckpt, effect, lost, history>>

----------------------------------------------------------------------------
(* One step of the loop: runAiSdkLoop.                                     *)

Named(log) == {log[i].id : i \in DOMAIN log}

\* The model answers, or calls a tool; or the provider fails or the steps are used up.
Answer(w) ==
  /\ pc[w] = "model" /\ ~ lost[w]
  /\ slice[w].step < config.steps
  /\ End(w, "completed")
  /\ UNCHANGED <<config, rowVars, lost, history>>

Ask(w, call) ==
  /\ pc[w] = "model" /\ ~ lost[w]
  /\ slice[w].step < config.steps
  /\ call.id \notin Named(slice[w].log)
  /\ slice' = [slice EXCEPT ![w].call = call]
  /\ Goto(w, "gate")
  /\ UNCHANGED <<config, rowVars, lost, history>>

ModelFails(w) ==
  /\ pc[w] = "model" /\ ~ lost[w]
  /\ End(w, "failed")
  /\ UNCHANGED <<config, rowVars, lost, history>>

\* The tool message is pushed; the approved call's step has no yield point behind it.
Push(w, out) ==
  /\ slice' = [slice EXCEPT
        ![w].log = Append(@, [id |-> slice[w].call.id, args |-> slice[w].call.args, out |-> out]),
        ![w].call = NoCall,
        ![w].step = IF slice[w].paused THEN @ + 1 ELSE @,
        ![w].paused = FALSE]
  /\ Goto(w, IF slice[w].paused THEN "model" ELSE "turn")

\* handleToolCall.  An approval is parked with the transcript before the call; a second
\* gate that parks while an approved call is continued makes that continuation throw.
Gate(w, verdict) ==
  /\ pc[w] = "gate"
  /\ \/ verdict = "allow" /\ Goto(w, "claim") /\ UNCHANGED <<approval, slice>>
     \/ verdict = "deny" /\ Push(w, "denied") /\ UNCHANGED approval
     \/ /\ verdict = "park"
        /\ Len(approval) < config.maxParked
        /\ approval' = Append(approval, [status |-> "pending", step |-> slice[w].step,
                                         log |-> slice[w].log, call |-> slice[w].call])
        /\ End(w, IF slice[w].paused THEN "failed" ELSE "waiting")
     \/ verdict = "throw" /\ End(w, "failed") /\ UNCHANGED approval
  /\ UNCHANGED <<config, run, task, ckpt, effect, lost, history>>

\* The loop is at a yield point.  Before the deadline it goes on with the next step;
\* past it, unless this was the last step, it parks a checkpoint and yields.
GoOn(w) ==
  /\ pc[w] = "turn"
  /\ slice' = [slice EXCEPT ![w].step = @ + 1]
  /\ Goto(w, "model")
  /\ UNCHANGED <<config, rowVars, lost, history>>

\* Mutant: the checkpoint names the step that was just done.
NextStep_Same(step) == step
\* persistYieldCheckpoint: nextStep.
NextStep(step) == step + 1

Yield(w) ==
  /\ pc[w] = "turn"
  /\ slice[w].step + 1 < config.steps
  /\ ckpt' = Append(ckpt, [status |-> "pending", next |-> NextStep(slice[w].step),
                           log |-> slice[w].log])
  /\ Goto(w, "yielded")
  /\ slice' = [slice EXCEPT ![w] = NewSlice(slice[w].run, "run", Len(ckpt) + 1)]
  /\ UNCHANGED <<config, run, task, approval, effect, lost, ran, again, faults>>

----------------------------------------------------------------------------
(* runTool: the effect of a call.                                          *)

\* currentEffectId.
EffectId(w) ==
  IF slice[w].paused THEN <<"approval", slice[w].ref>>
  ELSE <<"run", slice[w].run, slice[w].call.id>>

Recorded(w) == EffectId(w) \in DOMAIN effect
Row(w) == effect[EffectId(w)]
SetRow(w, row) ==
  effect' = [e \in DOMAIN effect \cup {EffectId(w)} |-> IF e = EffectId(w) THEN row ELSE effect[e]]

\* Mutant: a claim of a recorded effect does not compare the inputs.
SameEffect_Any(w) == TRUE
\* assertSameEffect, on the hash of the call's input.
SameEffect(w) == Row(w).args = slice[w].call.args

\* Mutant: an expired lease is always taken over.
MayReclaim_Always == TRUE
MayReclaim == config.reclaim

\* The tool starts to run under the claim.
Execute(w) ==
  /\ ran' = ran \cup {EffectId(w)}
  /\ again' = IF EffectId(w) \in ran THEN again \cup {EffectId(w)} ELSE again
  /\ Goto(w, "execute")
  /\ UNCHANGED <<config, run, task, ckpt, approval, slice, lost, faults>>

\* claim: a new effect is created and executed.
ClaimNew(w) ==
  /\ pc[w] = "claim"
  /\ ~ Recorded(w)
  /\ SetRow(w, [status |-> "started", holder |-> w, args |-> slice[w].call.args])
  /\ Execute(w)

\* A completed effect answers with its stored output.
ClaimDone(w) ==
  /\ pc[w] = "claim"
  /\ Recorded(w) /\ SameEffect(w)
  /\ Row(w).status = "completed" /\ config.keeps
  /\ Push(w, Row(w).args)
  /\ UNCHANGED <<config, rowVars, lost, history>>

\* A started effect whose lease has expired is taken over, if the tool may be repeated.
ClaimOver(w) ==
  /\ pc[w] = "claim"
  /\ Recorded(w) /\ SameEffect(w)
  /\ Row(w).status = "started"
  /\ MayReclaim
  /\ SetRow(w, [Row(w) EXCEPT !.holder = w])
  /\ Execute(w)

\* Otherwise the call throws: another input, a live lease, an expired one that may not
\* be taken over, a failed effect, a completed one whose output was not kept.
ClaimFails(w) ==
  /\ pc[w] = "claim"
  /\ Recorded(w)
  /\ SameEffect(w) => Row(w).status = "started" \/ Row(w).status = "failed" \/ ~ config.keeps
  /\ End(w, "failed")
  /\ UNCHANGED <<config, rowVars, lost, history>>

Mine(w) == Recorded(w) /\ Row(w).status = "started" /\ Row(w).holder = w

\* complete under the lease, and the output goes into the transcript.
Complete(w) ==
  /\ pc[w] = "execute"
  /\ ~ lost[w]
  /\ Mine(w)
  /\ SetRow(w, [Row(w) EXCEPT !.status = "completed", !.holder = None])
  /\ Push(w, slice[w].call.args)
  /\ UNCHANGED <<config, run, task, ckpt, approval, lost, history>>

\* The effect is completed, and then an after-gate or an event sink throws.
CompleteThrows(w) ==
  /\ pc[w] = "execute"
  /\ ~ lost[w]
  /\ Mine(w)
  /\ SetRow(w, [Row(w) EXCEPT !.status = "completed", !.holder = None])
  /\ End(w, "failed")
  /\ UNCHANGED <<config, run, task, ckpt, approval, lost, history>>

\* The tool threw, the run was aborted or the effect's lease has gone: the effect is
\* failed if its lease is still w's and live, and the error is thrown on.
Fail(w) ==
  /\ pc[w] = "execute"
  /\ \/ Mine(w) /\ SetRow(w, [Row(w) EXCEPT !.status = "failed", !.holder = None])
     \/ UNCHANGED effect
  /\ End(w, "failed")
  /\ UNCHANGED <<config, run, task, ckpt, approval, lost, history>>

----------------------------------------------------------------------------
(* The end of a slice: the transaction of tick.                            *)

\* Mutant: the transaction does not validate the lease.
MayCommit_Any(w) == TRUE
MayCommit(w) == Holds(w) /\ ~ lost[w]

CommitFinal(w) ==
  /\ pc[w] \in {"completed", "waiting"}
  /\ MayCommit(w)
  /\ task' = [task EXCEPT ![slice[w].run] = NoTask]
  /\ run' = [run EXCEPT ![slice[w].run] = pc[w]]
  /\ Leave(w)
  /\ UNCHANGED <<config, ckpt, approval, effect, history>>

\* Mutant: a continuation may be tried as often as the run's first task.
Continuation_Retried(w) == NewTask("resume", slice[w].ref, config.attempts)
\* The next slice's task; its maxAttempts is the default.
Continuation(w) == NewTask("resume", slice[w].ref, DefaultAttempts)

CommitYield(w) ==
  /\ pc[w] = "yielded"
  /\ MayCommit(w)
  /\ task' = [task EXCEPT ![slice[w].run] = Continuation(w)]
  /\ run' = [run EXCEPT ![slice[w].run] = "queued"]
  /\ Leave(w)
  /\ UNCHANGED <<config, ckpt, approval, effect, history>>

\* failClaim.
CommitFailed(w) ==
  /\ pc[w] = "failed"
  /\ MayCommit(w)
  /\ GiveUp(slice[w].run)
  /\ Leave(w)
  /\ UNCHANGED <<config, ckpt, approval, effect, history>>

\* The lease has gone, or its heartbeat failed: nothing is written.
CommitNothing(w) ==
  /\ pc[w] \in {"completed", "waiting", "yielded", "failed"}
  /\ ~ MayCommit(w)
  /\ Leave(w)
  /\ UNCHANGED <<config, rowVars, history>>

----------------------------------------------------------------------------
(* The host: decisions, and continuations of an approval as runs of their own. *)

Decide(a, status) ==
  /\ a \in DOMAIN approval
  /\ approval[a].status = "pending"
  /\ approval' = [approval EXCEPT ![a].status = status]
  /\ UNCHANGED <<config, run, task, ckpt, effect, localVars, history>>

\* engine.continueRun.
Continue(r, a) ==
  /\ run[r] = "absent"
  /\ a \in DOMAIN approval
  /\ run' = [run EXCEPT ![r] = "queued"]
  /\ task' = [task EXCEPT ![r] = NewTask("continue", a, config.attempts)]
  /\ UNCHANGED <<config, ckpt, approval, effect, localVars, history>>

----------------------------------------------------------------------------
Slice(w) ==
  \/ LoadRun(w) \/ LoadResume(w) \/ LoadContinue(w)
  \/ Answer(w) \/ ModelFails(w) \/ \E call \in Call : Ask(w, call)
  \/ \E verdict \in Verdict : Gate(w, verdict)
  \/ GoOn(w) \/ Yield(w)
  \/ ClaimNew(w) \/ ClaimDone(w) \/ ClaimOver(w) \/ ClaimFails(w)
  \/ Complete(w) \/ CompleteThrows(w) \/ Fail(w)
  \/ CommitFinal(w) \/ CommitYield(w) \/ CommitFailed(w) \/ CommitNothing(w)
  \/ Abort(w)

Work(w) == Slice(w) \/ \E r \in Run : Claim(w, r)

Host ==
  \E a \in DOMAIN approval :
    \/ \E status \in {"approved", "denied"} : Decide(a, status)
    \/ \E r \in Run : Continue(r, a)

Next ==
  \/ \E w \in Worker : Work(w) \/ Lose(w) \/ Crash(w)
  \/ \E r \in Run : Reap(r)
  \/ Host

Spec == Init /\ [][Next]_vars

----------------------------------------------------------------------------
(* Properties.                                                             *)

TypeOK ==
  /\ config \in Setup
  /\ run \in [Run -> RunStatus]
  /\ task \in [Run -> [kind : Kind, ref : Nat, attempt : Nat, limit : Nat,
                       holder : Worker \cup {None}]]
  /\ \A r \in Run : task[r].attempt <= task[r].limit
  /\ ckpt \in Seq([status : {"pending", "consumed"}, next : Nat, log : Seq(Entry)])
  /\ approval \in Seq([status : {"pending", "approved", "denied", "consumed"},
                       step : Nat, log : Seq(Entry), call : Call])
  /\ \A e \in DOMAIN effect :
       effect[e] \in [status : {"started", "completed", "failed"},
                     holder : Worker \cup {None}, args : Args]
  /\ pc \in [Worker -> Label]
  /\ slice \in [Worker -> [run : Run, kind : Kind, ref : Nat, paused : BOOLEAN,
                          step : Nat, log : Seq(Entry), call : Call \cup {NoCall}]]
  /\ lost \in [Worker -> BOOLEAN]
  /\ again \subseteq ran

InCall(w) == pc[w] \in {"gate", "claim", "execute"}

\* A transcript has one answer for each step that was done, under distinct call ids, and
\* the steps of all slices together stay within maxSteps: in the loop, in the
\* checkpoints and in the approvals.  A slice counts from the step it was given.
Whole(step, log) ==
  /\ step = Len(log) /\ step <= config.steps
  /\ \A i, j \in DOMAIN log : log[i].id = log[j].id => i = j

TranscriptIsWhole ==
  /\ \A w \in Worker :
       /\ pc[w] = "model" \/ InCall(w) => Whole(slice[w].step, slice[w].log)
       /\ pc[w] = "turn" => Whole(slice[w].step + 1, slice[w].log)
       /\ InCall(w) => slice[w].call.id \notin Named(slice[w].log)
  /\ \A c \in DOMAIN ckpt : Whole(ckpt[c].next, ckpt[c].log) /\ ckpt[c].next < config.steps
  /\ \A a \in DOMAIN approval : Whole(approval[a].step, approval[a].log)

\* An answer in a transcript was made for the arguments of its call, also when it comes
\* from the effect ledger because an earlier attempt or slice used the same call id.
AnswersMatchTheirCalls ==
  \A w \in Worker : \A i \in DOMAIN slice[w].log :
    slice[w].log[i].out \in {slice[w].log[i].args, "denied"}

\* A tool that must not be repeated is executed once for each call id of a run and for
\* each approval, across attempts, slices and workers that lost their leases.
OncePerCall == ~ config.reclaim => again = {}

\* A task that resumes a yielded run finds its checkpoint whenever it is due: the row is
\* written before the task, no worker of another task takes it, and the task is not due
\* again once its checkpoint was consumed, since resumeRun could then only answer null.
DueSliceIsRunnable ==
  \A r \in Run : task[r].kind = "resume" /\ task[r].holder = None =>
    /\ task[r].ref \in DOMAIN ckpt
    /\ ckpt[task[r].ref].status = "pending"

\* The transcript that a run's next task starts from.
Base(r, t, cks, aps) ==
  CASE t[r].kind = "resume" -> cks[t[r].ref].log
    [] t[r].kind = "continue" -> aps[t[r].ref].log
    [] OTHER -> << >>

\* When the next task of r is enqueued, its transcript extends its predecessor's.
MovesOn(r) ==
  LET old == Base(r, task, ckpt, approval)
      new == Base(r, task', ckpt', approval')
  IN  task[r].kind # "none" /\ task'[r].kind = "resume" /\ task'[r].ref # task[r].ref =>
        Len(new) > Len(old) /\ SubSeq(new, 1, Len(old)) = old

\* A run moves on by extending its transcript: the task of its next slice starts from a
\* longer transcript that begins with the one its predecessor started from, whatever
\* workers of older attempts and slices still do.
SlicesMakeProgress == [][\A r \in Run : MovesOn(r)]_vars
==============================================================================
