------------------------------ MODULE SqlEngine ------------------------------
(***************************************************************************)
(* The durable SQL engine: the work queue of @euroclaw/engine-sql (store,  *)
(* engine handle) and the worker loop that drains it.                      *)
(*                                                                         *)
(* A claim, a reap and a heartbeat are NOT transactions in the code: each  *)
(* is a chain of separate statements, so each statement is an action here  *)
(* and other workers, a crash or the clock may come between any two.  The  *)
(* terminal writes of a tick are transactions: the read that validates the *)
(* lease is one action, the guarded writes that commit with it another.    *)
(*                                                                         *)
(* A lease token is random and known to its claimer alone, so presenting   *)
(* the token of lease l is modelled as holding the identity l.             *)
(***************************************************************************)
EXTENDS Integers, FiniteSets

CONSTANTS
  Worker,       \* worker processes (cron invocations, daemons)
  Run,          \* run ids
  Task,         \* runtime_task ids
  Lease,        \* lease ids
  None,         \* the null of a nullable column or of an empty local
  AttemptLimits,\* the maxAttempts that callers of enqueueTask ask for
  LeaseTtl,     \* leaseTtlMs
  RetryDelay,   \* runtime_task.retryDelayMs
  MaxSlices,    \* bound: how many tasks the yields of one run may chain
  MaxStall,     \* bound: how old a now() may get that a statement still works with
  MaxCrashes    \* bound: how many worker crashes a behaviour has

ASSUME EngineAssumption ==
  /\ None \notin Task \cup Lease \cup Run
  /\ AttemptLimits \subseteq Nat
  /\ LeaseTtl \in Nat \ {0}
  /\ RetryDelay \in Nat
  /\ MaxSlices \in Nat
  /\ MaxStall \in Nat
  /\ MaxCrashes \in Nat

VARIABLES
  run,      \* run[r]: status column of the run row, "absent" before createRun
  task,     \* task[t]: the runtime_task row, status "absent" before enqueueTask
  lease,    \* lease[l]: the lease row, task None when there is no such row
  events,   \* events[r]: the types of the run_event rows of run r
  pc,       \* pc[w]: the next statement of worker w
  ts,       \* ts[w]: the now() the current claim or reap of w works with
  scan,     \* scan[w]: expired leases w has read and not yet consumed
  cand,     \* cand[w]: candidate rows w has read and not yet tried (stale copies)
  held,     \* held[w]: the lease and task w is reaping, or claiming and executing
  lost,     \* lost[w]: the heartbeat of w has given the lease up
  outcome,  \* outcome[w]: how the runtime call of w ended
  beat,     \* beat[w]: the heartbeat of w between its read and its write
  crashes   \* number of crashes so far

rowVars == <<run, task, lease, events>>
localVars == <<pc, ts, scan, cand, held, lost, outcome>>
vars == <<run, task, lease, events, pc, ts, scan, cand, held,
          lost, outcome, beat, crashes>>

(***************************************************************************)
(* Time.  Timestamps are kept relative to the present: Now is a constant   *)
(* and Tick moves every timestamp one unit into the past, so time goes on  *)
(* for ever in finitely many states.  No statement works with a now() that *)
(* is more than MaxStall units old, so a timestamp as old as that compares *)
(* like every older one and stays at 0.                                    *)
(***************************************************************************)
Now == MaxStall
Time == 0..(Now + IF LeaseTtl > RetryDelay THEN LeaseTtl ELSE RetryDelay)
Older(at) == IF at > 0 THEN at - 1 ELSE 0

RunStatus == {"absent", "queued", "running", "waiting", "completed", "failed"}
TaskStatus == {"absent", "pending", "leased", "completed", "dead"}
EventType == {"run.started", "run.yielded", "run.waiting_approval",
              "run.completed", "task.failed", "run.failed"}
\* "denied" results take the code path of "completed"; "threw" is the catch block.
Outcome == {"completed", "waiting_approval", "yielded", "threw"}

TaskRow == [status : TaskStatus, run : Run \cup {None}, dueAt : Time,
            attempt : Nat, maxAttempts : Nat, lease : Lease \cup {None}]
LeaseRow == [task : Task \cup {None}, expiresAt : Time]
Candidate == [task : Task, attempt : Nat, dueAt : Time]

AbsentTask == [status |-> "absent", run |-> None, dueAt |-> 0,
               attempt |-> 0, maxAttempts |-> 0, lease |-> None]
NoLeaseRow == [task |-> None, expiresAt |-> 0]
NoHold == [lease |-> None, task |-> None]
NoBeat == [lease |-> None, ts |-> 0]

Live(t) == task[t].status \in {"pending", "leased"}
HasRow(l) == lease[l].task # None

\* Mutant: the ttl is forgotten.
Expiry_NoTtl(at) == at
\* The expiry of a lease granted or extended by a worker whose now() is at.
Expiry(at) == at + LeaseTtl
Expired(l, at) == HasRow(l) /\ lease[l].expiresAt <= at
\* Mutant: the row is deleted by id alone.
StillExpired_Unchecked(l, at) == HasRow(l)
\* consumeOne's own where clause, evaluated when the row is deleted.
StillExpired(l, at) == HasRow(l) /\ lease[l].expiresAt <= at

\* Lease ids are random: a new one is named by no row and by no worker.
Fresh(l) ==
  /\ ~ HasRow(l)
  /\ \A t \in Task : task[t].lease # l
  /\ \A w \in Worker : l \notin scan[w] /\ held[w].lease # l /\ beat[w].lease # l

NewLease == {l \in Lease : Fresh(l)}
NewTaskId == {t \in Task : task[t].status = "absent"}

Goto(w, label) == pc' = [pc EXCEPT ![w] = label]

----------------------------------------------------------------------------
Init ==
  /\ run = [r \in Run |-> "absent"]
  /\ task = [t \in Task |-> AbsentTask]
  /\ lease = [l \in Lease |-> NoLeaseRow]
  /\ events = [r \in Run |-> {}]
  /\ pc = [w \in Worker |-> "idle"]
  /\ ts = [w \in Worker |-> 0]
  /\ scan = [w \in Worker |-> {}]
  /\ cand = [w \in Worker |-> {}]
  /\ held = [w \in Worker |-> NoHold]
  /\ lost = [w \in Worker |-> FALSE]
  /\ outcome = [w \in Worker |-> "completed"]
  /\ beat = [w \in Worker |-> NoBeat]
  /\ crashes = 0

DefaultMaxAttempts == 1

\* The row enqueueTask creates.  The kind and the payload only choose the runtime call.
NewTask(r, limit) ==
  [AbsentTask EXCEPT !.status = "pending", !.run = r, !.dueAt = Now,
                     !.maxAttempts = limit]

\* createRun and enqueueTask, in one transaction.
EnqueueRun(r, limit) ==
  /\ run[r] = "absent"
  /\ run' = [run EXCEPT ![r] = "queued"]
  /\ \E t \in NewTaskId : task' = [task EXCEPT ![t] = NewTask(r, limit)]
  /\ UNCHANGED <<lease, events, localVars, beat, crashes>>

\* The engine handle asks for no retries.
StartRun(r) == EnqueueRun(r, DefaultMaxAttempts)

\* A continuation is a run of its own: the run that parked stays "waiting".  The
\* approval may come from any run, also from one outside the engine.
ContinueRun(r) == EnqueueRun(r, DefaultMaxAttempts)

----------------------------------------------------------------------------
(* claimDueTask, first part: reapExpiredLeases.                            *)

\* tick calls claimDueTask, which first reads the leases that have expired.
ReapScan(w) ==
  /\ pc[w] = "idle"
  /\ Goto(w, "reap")
  /\ ts' = [ts EXCEPT ![w] = Now]
  /\ scan' = [scan EXCEPT ![w] = {l \in Lease : Expired(l, Now)}]
  /\ UNCHANGED <<rowVars, cand, held, lost, outcome, beat, crashes>>

\* consumeOne re-checks the expiry against the ts of the scan and deletes atomically.
ReapConsume(w, l) ==
  /\ pc[w] = "reap"
  /\ l \in scan[w]
  /\ scan' = [scan EXCEPT ![w] = @ \ {l}]
  /\ \/ /\ StillExpired(l, ts[w])
        /\ held' = [held EXCEPT ![w] = [lease |-> l, task |-> lease[l].task]]
        /\ lease' = [lease EXCEPT ![l] = NoLeaseRow]
        /\ Goto(w, "requeue")
     \/ /\ ~ StillExpired(l, ts[w])
        /\ UNCHANGED <<held, lease, pc>>
  /\ UNCHANGED <<run, task, events, ts, cand, lost, outcome, beat, crashes>>

\* A task that gives its lease up goes to the dead letter once its attempts are used
\* up, and gets another attempt after the delay otherwise.
UsedUp(row) == row.attempt >= row.maxAttempts
Buried(row) == [row EXCEPT !.status = "dead", !.lease = None]
Retried(row, at) ==
  [row EXCEPT !.status = "pending", !.lease = None, !.dueAt = at + RetryDelay]
Released(row, at) == IF UsedUp(row) THEN Buried(row) ELSE Retried(row, at)

\* Mutants: the update matches the lease alone, or the status alone.
LeasedUnder_AnyStatus(t, l) == task[t].lease = l
LeasedUnder_AnyLease(t, l) == task[t].status = "leased"

\* The guard of every update that ends a lease: still leased, under this lease.
LeasedUnder(t, l) == task[t].status = "leased" /\ task[t].lease = l

\* The task is read and the verdict computed from that row: the label keeps it until
\* the update.
ReapRead(w) ==
  /\ pc[w] = "requeue"
  /\ Goto(w, IF UsedUp(task[held[w].task]) THEN "reapDead" ELSE "reapRetry")
  /\ UNCHANGED <<rowVars, ts, scan, cand, held, lost, outcome, beat, crashes>>

\* The guarded update writes the verdict, old as it may be: a slow claim that takes the
\* task under this very lease counts an attempt after the read.
ReapRequeue(w) ==
  LET t == held[w].task IN
  /\ pc[w] \in {"reapRetry", "reapDead"}
  /\ \/ /\ LeasedUnder(t, held[w].lease)
        /\ pc[w] = "reapDead"
        /\ task' = [task EXCEPT ![t] = Buried(@)]
        /\ Goto(w, "reapFailRun")
        /\ UNCHANGED held
     \/ /\ LeasedUnder(t, held[w].lease)
        /\ pc[w] = "reapRetry"
        /\ task' = [task EXCEPT ![t] = Retried(@, ts[w])]
        /\ Goto(w, "reap")
        /\ held' = [held EXCEPT ![w] = NoHold]
     \/ /\ ~ LeasedUnder(t, held[w].lease)
        /\ Goto(w, "reap")
        /\ held' = [held EXCEPT ![w] = NoHold]
        /\ UNCHANGED task
  /\ UNCHANGED <<run, lease, events, ts, scan, cand, lost, outcome, beat, crashes>>

\* The run of a task that was reaped into the dead letter fails: a write of its own,
\* with no event.
ReapFailRun(w) ==
  /\ pc[w] = "reapFailRun"
  /\ run' = [run EXCEPT ![task[held[w].task].run] = "failed"]
  /\ Goto(w, "reap")
  /\ held' = [held EXCEPT ![w] = NoHold]
  /\ UNCHANGED <<task, lease, events, ts, scan, cand, lost, outcome, beat, crashes>>

----------------------------------------------------------------------------
(* claimDueTask, second part: the candidates.                              *)

ClaimScan(w) ==
  /\ pc[w] = "reap"
  /\ scan[w] = {}
  /\ Goto(w, "claim")
  /\ ts' = [ts EXCEPT ![w] = Now]
  /\ cand' = [cand EXCEPT ![w] =
       {[task |-> t, attempt |-> task[t].attempt, dueAt |-> task[t].dueAt] :
          t \in {u \in Task : task[u].status = "pending" /\ task[u].dueAt <= Now}}]
  /\ UNCHANGED <<rowVars, scan, held, lost, outcome, beat, crashes>>

\* Mutant: any task that is not terminal may be taken.
StillPending_Live(t) == Live(t)
\* The guard of the updates of the claim: the status alone.
StillPending(t) == task[t].status = "pending"
\* Mutant: the claim does not count.
NextAttempt_Same(c) == c.attempt
\* The attempt a claim writes: computed from the copy of the row, stale or not.
NextAttempt(c) == c.attempt + 1

\* The candidates are tried in the order of dueAt.
Earliest(w, c) == c \in cand[w] /\ \A d \in cand[w] : c.dueAt <= d.dueAt

\* No candidate left: the tick is idle.
ClaimNothing(w) ==
  /\ pc[w] = "claim"
  /\ cand[w] = {}
  /\ Goto(w, "idle")
  /\ ts' = [ts EXCEPT ![w] = 0]
  /\ UNCHANGED <<rowVars, scan, cand, held, lost, outcome, beat, crashes>>

\* A candidate without attempts left is dead-lettered, if it is still pending.
ClaimBury(w, c) ==
  /\ pc[w] = "claim"
  /\ Earliest(w, c)
  /\ c.attempt >= task[c.task].maxAttempts
  /\ task' = IF StillPending(c.task)
             THEN [task EXCEPT ![c.task].status = "dead"] ELSE task
  /\ cand' = [cand EXCEPT ![w] = @ \ {c}]
  /\ held' = [held EXCEPT ![w] = [lease |-> None, task |-> c.task]]
  /\ Goto(w, "buryFailRun")
  /\ UNCHANGED <<run, lease, events, ts, scan, lost, outcome, beat, crashes>>

\* ... and its run fails, whether or not the update above found the task pending.
BuryFailRun(w) ==
  /\ pc[w] = "buryFailRun"
  /\ run' = [run EXCEPT ![task[held[w].task].run] = "failed"]
  /\ held' = [held EXCEPT ![w] = NoHold]
  /\ Goto(w, "claim")
  /\ UNCHANGED <<task, lease, events, ts, scan, cand, lost, outcome, beat, crashes>>

\* The lease row is created before the task is taken.
ClaimLease(w, c, l) ==
  /\ pc[w] = "claim"
  /\ Earliest(w, c)
  /\ c.attempt < task[c.task].maxAttempts
  /\ l \in NewLease
  /\ lease' = [lease EXCEPT ![l] =
                 [task |-> c.task, expiresAt |-> Expiry(ts[w])]]
  /\ held' = [held EXCEPT ![w] = [lease |-> l, task |-> c.task]]
  /\ Goto(w, "take")
  /\ UNCHANGED <<run, task, events, ts, scan, cand, lost, outcome, beat, crashes>>

\* The candidate row w is trying (the one its lease was created for).
Tried(w) == {c \in cand[w] : c.task = held[w].task}

\* The guarded update of the task.
ClaimTake(w) ==
  LET t == held[w].task IN
  /\ pc[w] = "take"
  /\ \/ /\ StillPending(t)
        /\ \E c \in Tried(w) :
             task' = [task EXCEPT ![t] =
                        [@ EXCEPT !.status = "leased", !.lease = held[w].lease,
                                  !.attempt = NextAttempt(c)]]
        /\ cand' = [cand EXCEPT ![w] = {}]
        /\ Goto(w, "claimed")
     \/ /\ ~ StillPending(t)
        /\ cand' = [cand EXCEPT ![w] = @ \ Tried(w)]
        /\ Goto(w, "drop")
        /\ UNCHANGED task
  /\ UNCHANGED <<run, lease, events, ts, scan, held, lost, outcome, beat, crashes>>

\* Another worker took the task: the lease row goes, the next candidate is tried.
ClaimDrop(w) ==
  /\ pc[w] = "drop"
  /\ lease' = [lease EXCEPT ![held[w].lease] = NoLeaseRow]
  /\ held' = [held EXCEPT ![w] = NoHold]
  /\ Goto(w, "claim")
  /\ UNCHANGED <<run, task, events, ts, scan, cand, lost, outcome, beat, crashes>>

\* The run is marked running: a third write, guarded by nothing.
ClaimRunning(w) ==
  /\ pc[w] = "claimed"
  /\ run' = [run EXCEPT ![task[held[w].task].run] = "running"]
  /\ ts' = [ts EXCEPT ![w] = 0]
  /\ lost' = [lost EXCEPT ![w] = FALSE]
  /\ Goto(w, "start")
  /\ UNCHANGED <<task, lease, events, scan, cand, held, outcome, beat, crashes>>

----------------------------------------------------------------------------
(* The worker: heartbeat and execution.                                    *)

Executing(w) == pc[w] \in {"start", "exec"}

\* The interval's heartbeatLease reads a lease that is still good at now.
BeatRead(w) ==
  /\ Executing(w)
  /\ ~ lost[w]
  /\ beat[w] = NoBeat
  /\ HasRow(held[w].lease) /\ lease[held[w].lease].expiresAt > Now
  /\ beat' = [beat EXCEPT ![w] = [lease |-> held[w].lease, ts |-> Now]]
  /\ UNCHANGED <<rowVars, localVars, crashes>>

\* The lease is gone or has expired, or the statement itself failed: the heartbeat
\* gives up (markLost).
BeatFails(w) ==
  /\ Executing(w)
  /\ ~ lost[w]
  /\ lost' = [lost EXCEPT ![w] = TRUE]
  /\ UNCHANGED <<rowVars, pc, ts, scan, cand, held, outcome, beat, crashes>>

\* The guarded update extends a lease that had not expired at the ts of the read;
\* stop() clears the interval, not a heartbeat in flight, so it may land at any time.
BeatWrite(w) ==
  LET l == beat[w].lease IN
  /\ beat[w] # NoBeat
  /\ beat' = [beat EXCEPT ![w] = NoBeat]
  /\ \/ /\ HasRow(l) /\ lease[l].expiresAt > beat[w].ts
        /\ lease' = [lease EXCEPT ![l].expiresAt = Expiry(beat[w].ts)]
        /\ UNCHANGED lost
     \/ /\ ~ (HasRow(l) /\ lease[l].expiresAt > beat[w].ts)
        /\ lost' = [lost EXCEPT ![w] = @ \/ (Executing(w) /\ held[w].lease = l)]
        /\ UNCHANGED lease
  /\ UNCHANGED <<run, task, events, pc, ts, scan, cand, held, outcome, crashes>>

RunOf(w) == task[held[w].task].run
Record(r, types) == events' = [events EXCEPT ![r] = @ \cup types]

\* What every way out of a tick leaves behind in the worker.
EndTick(w) ==
  /\ Goto(w, "idle")
  /\ held' = [held EXCEPT ![w] = NoHold]
  /\ lost' = [lost EXCEPT ![w] = FALSE]
  /\ outcome' = [outcome EXCEPT ![w] = "completed"]

\* run.started is appended; when that write fails, the catch block fails the claim.
Start(w) ==
  /\ pc[w] = "start"
  /\ \/ /\ Record(RunOf(w), {"run.started"})
        /\ Goto(w, "exec")
        /\ UNCHANGED outcome
     \/ /\ ~ lost[w]
        /\ outcome' = [outcome EXCEPT ![w] = "threw"]
        /\ Goto(w, "commit")
        /\ UNCHANGED events
  /\ UNCHANGED <<run, task, lease, ts, scan, cand, held, lost, beat, crashes>>

\* The runtime call ends with the lease still believed good.
Execute(w, o) ==
  /\ pc[w] = "exec"
  /\ ~ lost[w]
  /\ o = "yielded" => Cardinality({t \in Task : task[t].run = RunOf(w)}) < MaxSlices
  /\ outcome' = [outcome EXCEPT ![w] = o]
  /\ Goto(w, "commit")
  /\ UNCHANGED <<rowVars, ts, scan, cand, held, lost, beat, crashes>>

\* The heartbeat lost the lease: the tick ends and writes nothing.
LeaseLost(w) ==
  /\ Executing(w)
  /\ lost[w]
  /\ EndTick(w)
  /\ UNCHANGED <<rowVars, ts, scan, cand, beat, crashes>>

----------------------------------------------------------------------------
(* The terminal transaction of a tick.                                     *)

\* getTask and validateLease: the task still names this lease, whose row is there
\* and has not expired.
ValidLease(w) ==
  LET l == held[w].lease IN
  /\ task[held[w].task].lease = l
  /\ lease[l].task = held[w].task
  /\ lease[l].expiresAt > Now

Validate(w) ==
  /\ pc[w] = "commit"
  /\ \/ ValidLease(w) /\ Goto(w, "write") /\ UNCHANGED <<held, lost, outcome>>
     \/ ~ ValidLease(w) /\ EndTick(w)
  /\ UNCHANGED <<rowVars, ts, scan, cand, beat, crashes>>

\* completeTask's guarded update; the column leaseId keeps its value.
CompleteTask(w) ==
  /\ pc[w] = "write"
  /\ outcome[w] # "threw"
  /\ LeasedUnder(held[w].task, held[w].lease)
  /\ lease' = [lease EXCEPT ![held[w].lease] = NoLeaseRow]
  /\ EndTick(w)
  /\ UNCHANGED <<ts, scan, cand, beat, crashes>>

CommitCompleted(w) ==
  /\ CompleteTask(w)
  /\ outcome[w] = "completed"
  /\ task' = [task EXCEPT ![held[w].task].status = "completed"]
  /\ run' = [run EXCEPT ![RunOf(w)] = "completed"]
  /\ Record(RunOf(w), {"run.completed"})

CommitWaiting(w) ==
  /\ CompleteTask(w)
  /\ outcome[w] = "waiting_approval"
  /\ task' = [task EXCEPT ![held[w].task].status = "completed"]
  /\ run' = [run EXCEPT ![RunOf(w)] = "waiting"]
  /\ Record(RunOf(w), {"run.waiting_approval"})

\* A yield completes the slice and enqueues the next one in the same transaction.
CommitYielded(w) ==
  /\ CompleteTask(w)
  /\ outcome[w] = "yielded"
  /\ \E t \in NewTaskId :
       task' = [task EXCEPT ![held[w].task].status = "completed",
                            ![t] = NewTask(RunOf(w), DefaultMaxAttempts)]
  /\ run' = [run EXCEPT ![RunOf(w)] = "queued"]
  /\ Record(RunOf(w), {"run.yielded"})

\* failClaim: failTask, then the events and, in the dead letter, the run.
CommitFailed(w) ==
  LET t == held[w].task IN
  /\ pc[w] = "write"
  /\ outcome[w] = "threw"
  /\ LeasedUnder(t, held[w].lease)
  /\ task' = [task EXCEPT ![t] = Released(@, Now)]
  /\ lease' = [lease EXCEPT ![held[w].lease] = NoLeaseRow]
  /\ IF UsedUp(task[t])
     THEN /\ run' = [run EXCEPT ![RunOf(w)] = "failed"]
          /\ Record(RunOf(w), {"task.failed", "run.failed"})
     ELSE /\ Record(RunOf(w), {"task.failed"})
          /\ UNCHANGED run
  /\ EndTick(w)
  /\ UNCHANGED <<ts, scan, cand, beat, crashes>>

\* The guarded update found the task taken away: failTask still deletes the lease row,
\* completeTask leaves it; nothing else is written.
CommitNothing(w) ==
  /\ pc[w] = "write"
  /\ ~ LeasedUnder(held[w].task, held[w].lease)
  /\ lease' = IF outcome[w] = "threw"
              THEN [lease EXCEPT ![held[w].lease] = NoLeaseRow] ELSE lease
  /\ EndTick(w)
  /\ UNCHANGED <<run, task, events, ts, scan, cand, beat, crashes>>

----------------------------------------------------------------------------
\* The process dies between two statements, or a statement of the claim or of the
\* transaction fails and tick rejects: the rows stay as they are, the locals are gone.
Crash(w) ==
  /\ crashes < MaxCrashes
  /\ pc[w] # "idle"
  /\ crashes' = crashes + 1
  /\ EndTick(w)
  /\ ts' = [ts EXCEPT ![w] = 0]
  /\ scan' = [scan EXCEPT ![w] = {}]
  /\ cand' = [cand EXCEPT ![w] = {}]
  /\ beat' = [beat EXCEPT ![w] = NoBeat]
  /\ UNCHANGED <<rowVars>>

\* The labels at which w still has statements to issue that use ts[w].
UsesTs(w) == pc[w] \in {"reap", "requeue", "reapRetry", "reapDead", "reapFailRun", "claim",
                        "buryFailRun", "take", "drop", "claimed"}

Tick ==
  /\ \A w \in Worker : /\ UsesTs(w) => ts[w] > 0
                       /\ beat[w] # NoBeat => beat[w].ts > 0
  /\ task' = [t \in Task |-> [task[t] EXCEPT !.dueAt = Older(@)]]
  /\ lease' = [l \in Lease |-> [lease[l] EXCEPT !.expiresAt = Older(@)]]
  /\ ts' = [w \in Worker |-> Older(ts[w])]
  /\ beat' = [w \in Worker |-> [beat[w] EXCEPT !.ts = Older(@)]]
  /\ UNCHANGED <<run, events, pc, scan, cand, held, lost, outcome, crashes>>

Reap(w) ==
  \/ ReapScan(w)
  \/ \E l \in Lease : ReapConsume(w, l)
  \/ ReapRead(w)
  \/ ReapRequeue(w)
  \/ ReapFailRun(w)

Claim(w) ==
  \/ ClaimScan(w)
  \/ ClaimNothing(w)
  \/ \E c \in cand[w] : ClaimBury(w, c)
  \/ BuryFailRun(w)
  \/ \E c \in cand[w], l \in Lease : ClaimLease(w, c, l)
  \/ ClaimTake(w)
  \/ ClaimDrop(w)
  \/ ClaimRunning(w)

Work(w) ==
  \/ Start(w)
  \/ \E o \in Outcome : Execute(w, o)
  \/ LeaseLost(w)
  \/ Validate(w)
  \/ CommitCompleted(w)
  \/ CommitWaiting(w)
  \/ CommitYielded(w)
  \/ CommitFailed(w)
  \/ CommitNothing(w)

Beat(w) == BeatRead(w) \/ BeatFails(w) \/ BeatWrite(w)

Next ==
  \/ \E r \in Run : StartRun(r) \/ ContinueRun(r)
                   \/ \E limit \in AttemptLimits : EnqueueRun(r, limit)
  \/ \E w \in Worker : Reap(w) \/ Claim(w) \/ Work(w) \/ Beat(w) \/ Crash(w)
  \/ Tick

Spec == Init /\ [][Next]_vars

\* Cron or a daemon calls tick again and again, every statement and every runtime
\* call (bounded by its step limit) ends, and time passes.  No one has to start a run,
\* to crash, or to beat.
Fairness ==
  /\ \A w \in Worker : WF_vars(Reap(w) \/ Claim(w) \/ Work(w))
  /\ \A w \in Worker : WF_vars(BeatWrite(w))
  /\ WF_vars(Tick)

FairSpec == Spec /\ Fairness

----------------------------------------------------------------------------
(* Properties.                                                             *)

HeldRow == [lease : Lease \cup {None}, task : Task \cup {None}]
BeatRow == [lease : Lease \cup {None}, ts : 0..Now]
Label == {"idle", "reap", "requeue", "reapRetry", "reapDead", "reapFailRun", "claim",
          "buryFailRun", "take", "drop", "claimed", "start", "exec", "commit", "write"}

TypeOK ==
  /\ run \in [Run -> RunStatus]
  /\ task \in [Task -> TaskRow]
  /\ \A t \in Task : task[t].run = None <=> task[t].status = "absent"
  /\ lease \in [Lease -> LeaseRow]
  /\ events \in [Run -> SUBSET EventType]
  /\ pc \in [Worker -> Label]
  /\ ts \in [Worker -> 0..Now]
  /\ scan \in [Worker -> SUBSET Lease]
  /\ cand \in [Worker -> SUBSET Candidate]
  /\ held \in [Worker -> HeldRow]
  /\ lost \in [Worker -> BOOLEAN]
  /\ outcome \in [Worker -> Outcome]
  /\ beat \in [Worker -> BeatRow]
  /\ crashes \in 0..MaxCrashes

\* w has won a claim and has not ended the tick.
Holding(w) == pc[w] \in {"claimed", "start", "exec", "commit", "write"}

\* Two workers may both believe they own a task (one of them a zombie whose lease
\* expired), but never while both of their lease rows exist.
ExclusiveLease ==
  \A v, w \in Worker :
    v # w /\ Holding(v) /\ Holding(w) /\ held[v].task = held[w].task
      => ~ (HasRow(held[v].lease) /\ HasRow(held[w].lease))

\* A run is one chain of slices: it never has two tasks to do at once.
OneLiveTask ==
  \A t, u \in Task :
    t # u /\ Live(t) /\ Live(u) => task[t].run # task[u].run

\* A claim, and a reap, takes less than a lease lasts.
Prompt == MaxStall < LeaseTtl

\* As long as claims are prompt, a run that has completed, failed or parked has no task
\* left that could be claimed, and none that a worker executes with a good lease.
SettledRunHasNoWork ==
  Prompt => \A t \in Task : Live(t) => run[task[t].run] \in {"queued", "running"}

\* w has consumed the lease of a task that it has not requeued yet.
Reaping(w) == pc[w] \in {"requeue", "reapRetry", "reapDead"}

\* Until a worker crashes, and if claims are prompt, a leased task can be recovered: its
\* lease row is there for the reaper, or a reaper that consumed it is about to requeue
\* the task.
LeasedTaskIsRecoverable ==
  crashes = 0 /\ Prompt =>
    \A t \in Task : task[t].status = "leased" =>
      \/ lease[task[t].lease].task = t
      \/ \E w \in Worker : Reaping(w) /\ held[w] = [lease |-> task[t].lease, task |-> t]

\* A completed or dead task is never revived: not by a stale candidate of a claim, a
\* late reaper or a zombie's transaction.
TaskIsFinal ==
  [][\A t \in Task : task[t].status \in {"completed", "dead"}
                       => task'[t].status = task[t].status]_vars

\* Only the worker that holds or has reaped the current lease of a task ends that
\* lease: the transaction of a zombie whose task was claimed again changes nothing.
HolderStep ==
  \A t \in Task :
    task[t].status = "leased" /\ task'[t].status # "leased"
      => \E w \in Worker : (pc[w] = "write" \/ Reaping(w))
                           /\ held[w] = [lease |-> task[t].lease, task |-> t]

\* The same of every step.
OnlyHolderEndsLease == [][HolderStep]_vars

\* A lease that is good is taken away by nobody but the worker that holds it, even
\* when a late heartbeat revived it after a reaper had read it as expired.
LiveLeaseIsSafe ==
  [][\A l \in Lease :
       HasRow(l) /\ ~ Expired(l, Now) /\ lease'[l].task = None
         => \E w \in Worker : held[w].lease = l /\ pc[w] \in {"drop", "write"}]_vars

\* While no worker crashes, every task that is enqueued is done or dead-lettered.
EveryTaskEnds == \A t \in Task : Live(t) ~> ~ Live(t)

\* The run as RunChain sees it: its status column, and as many slices as it has tasks.
StageOf(r) ==
  CASE run[r] \in {"queued", "running"} -> "open"
    [] run[r] = "waiting" -> "parked"
    [] OTHER -> run[r]

Chain == INSTANCE RunChain WITH
  stage <- [r \in Run |-> StageOf(r)],
  slices <- [r \in Run |-> Cardinality({t \in Task : task[t].run = r})]

\* Whatever workers, zombies, reapers and crashes do, a run is one chain of slices: a
\* slice is followed by at most one other, in the step that ends it, and the status of a
\* run that ended is never written over by the unguarded writes of a claim, a reaper or
\* a burial, as long as claims are prompt: a late one may set a failed run back to running.
RunIsOneChain == Chain!ChainSpec

\* "lease recovery" (README.md): a leased task does not stay leased for ever.
LeasesAreRecovered ==
  \A t \in Task : task[t].status = "leased" ~> task[t].status # "leased"

\* "dead-letters after max attempts" (engine-sql.test.ts): every claim is counted as
\* one more attempt.
EveryClaimCounts ==
  [][\A t \in Task : task[t].status # "leased" /\ task'[t].status = "leased"
                       => task'[t].attempt = task[t].attempt + 1]_vars

==============================================================================
