--------------------------- MODULE SqlEngineProofs ---------------------------
(***************************************************************************)
(* Proofs about the durable SQL engine, for any number of workers, runs,   *)
(* tasks and leases, any lease time and delay, any number of crashes.      *)
(***************************************************************************)
EXTENDS SqlEngine, TLAPS, FiniteSetTheorems

----------------------------------------------------------------------------
(* The values the actions write.                                           *)

LEMMA TimeRange ==
  /\ Now \in 0..Now /\ 0 \in 0..Now
  /\ 0..Now \subseteq Time
  /\ \A at \in Time : Older(at) \in Time
  /\ \A at \in 0..Now : /\ Older(at) \in 0..Now
                        /\ Expiry(at) \in Time
                        /\ at + RetryDelay \in Time
BY EngineAssumption DEF Time, Now, Older, Expiry

LEMMA Values ==
  /\ NoLeaseRow \in LeaseRow /\ NoLeaseRow.task = None
  /\ NoHold \in HeldRow
  /\ NoBeat \in BeatRow
  /\ AbsentTask \in TaskRow /\ AbsentTask.run = None /\ AbsentTask.status = "absent"
  /\ \A l \in Lease \cup {None}, t \in Task \cup {None} :
       [lease |-> l, task |-> t] \in HeldRow
BY TimeRange, EngineAssumption
DEF NoLeaseRow, LeaseRow, NoHold, HeldRow, NoBeat, BeatRow, AbsentTask, TaskRow, TaskStatus

\* The row a lease is given up with is a row of the same run, pending or dead.
LEMMA GivenUpRow ==
  ASSUME NEW row \in TaskRow, NEW at \in 0..Now,
         NEW new \in {Buried(row), Retried(row, at)}
  PROVE  /\ new \in TaskRow /\ new.lease = None
         /\ new.run = row.run /\ new.maxAttempts = row.maxAttempts /\ new.attempt = row.attempt
         /\ new = Buried(row) => new.status = "dead"
         /\ new = Retried(row, at) => new.status = "pending"
BY TimeRange DEF Buried, Retried, TaskRow, TaskStatus

LEMMA ReleasedRow ==
  ASSUME NEW row \in TaskRow, NEW at \in 0..Now
  PROVE  /\ Released(row, at) \in TaskRow
         /\ Released(row, at).lease = None
         /\ Released(row, at).run = row.run
         /\ Released(row, at).maxAttempts = row.maxAttempts
         /\ Released(row, at).attempt = row.attempt
         /\ Released(row, at).status =
              IF row.attempt >= row.maxAttempts THEN "dead" ELSE "pending"
<1>1. CASE UsedUp(row)
  BY <1>1, GivenUpRow DEF Released, UsedUp
<1>2. CASE ~ UsedUp(row)
  BY <1>2, GivenUpRow DEF Released, UsedUp
<1>. QED BY <1>1, <1>2

\* The row of a new task is a pending row with no attempt counted.
LEMMA NewTaskRow ==
  ASSUME NEW r \in Run, NEW limit \in Nat
  PROVE  /\ NewTask(r, limit) \in TaskRow
         /\ NewTask(r, limit).run = r /\ r # None
         /\ NewTask(r, limit).status = "pending"
         /\ NewTask(r, limit).attempt = 0
         /\ NewTask(r, limit).maxAttempts = limit
BY TimeRange, EngineAssumption DEF NewTask, AbsentTask, TaskRow, TaskStatus

\* A row keeps its type and its other columns when its status alone changes.
LEMMA StatusRow ==
  ASSUME NEW row \in TaskRow, NEW s \in TaskStatus
  PROVE  LET new == [row EXCEPT !.status = s] IN
         /\ new \in TaskRow
         /\ new.status = s /\ new.run = row.run /\ new.lease = row.lease
         /\ new.attempt = row.attempt /\ new.maxAttempts = row.maxAttempts
BY DEF TaskRow

\* Rows keep their type when time passes, and when a lease is extended.
LEMMA AgedRows ==
  /\ \A row \in TaskRow :
       LET new == [row EXCEPT !.dueAt = Older(@)] IN
       /\ new \in TaskRow
       /\ new.status = row.status /\ new.run = row.run /\ new.lease = row.lease
       /\ new.attempt = row.attempt /\ new.maxAttempts = row.maxAttempts
  /\ \A row \in LeaseRow, at \in Time :
       LET new == [row EXCEPT !.expiresAt = at] IN
       new \in LeaseRow /\ new.task = row.task
  /\ \A row \in LeaseRow :
       LET new == [row EXCEPT !.expiresAt = Older(@)] IN
       new \in LeaseRow /\ new.task = row.task
BY TimeRange DEF TaskRow, LeaseRow

----------------------------------------------------------------------------
(* Type correctness.                                                       *)

\* The labels at which a worker holds a lease and a task.
Owning == {"take", "drop", "claimed", "start", "exec", "commit", "write"}

\* What a worker holds at a label is there.
HeldOK ==
  \A w \in Worker :
    /\ pc[w] \in Owning \/ Reaping(w) => held[w].lease \in Lease /\ held[w].task \in Task
    /\ pc[w] \in {"reapFailRun", "buryFailRun"} => held[w].task \in Task

Typed == TypeOK /\ HeldOK

LEMMA TypedInit == Init => Typed
<1>. SUFFICES ASSUME Init PROVE Typed
  OBVIOUS
<1>1. TypeOK
  BY Values, TimeRange, EngineAssumption DEF Init, TypeOK, RunStatus, EventType, Label, Outcome
<1>2. HeldOK
  BY DEF Init, HeldOK, Owning, Reaping
<1>. QED BY <1>1, <1>2 DEF Typed

LEMMA EnqueueTyped ==
  ASSUME Typed, NEW r \in Run, NEW limit \in Nat, EnqueueRun(r, limit)
  PROVE  Typed'
<1>1. PICK t \in Task : /\ task[t].status = "absent"
                        /\ task' = [task EXCEPT ![t] = NewTask(r, limit)]
  BY DEF EnqueueRun, NewTaskId
<1>2. task' \in [Task -> TaskRow] /\ run' \in [Run -> RunStatus]
  BY <1>1, NewTaskRow DEF EnqueueRun, Typed, TypeOK, RunStatus
<1>3. \A u \in Task : task'[u].run = None <=> task'[u].status = "absent"
  BY <1>1, NewTaskRow DEF Typed, TypeOK
<1>. QED
  BY <1>2, <1>3 DEF EnqueueRun, Typed, TypeOK, HeldOK, localVars, Reaping

\* The reaper's update: nothing, or the task it found leased under the lease it consumed
\* goes the way of the verdict.
LEMMA RequeueStep ==
  ASSUME Typed, NEW w \in Worker, ReapRequeue(w)
  PROVE  /\ held[w].task \in Task /\ held[w].lease \in Lease /\ Reaping(w)
         /\ UNCHANGED <<run, lease, events, ts, cand, beat, crashes>>
         /\ \A v \in Worker \ {w} : pc'[v] = pc[v] /\ held'[v] = held[v]
         /\ \/ /\ UNCHANGED task /\ pc'[w] = "reap"
               /\ ~ LeasedUnder(held[w].task, held[w].lease)
            \/ /\ LeasedUnder(held[w].task, held[w].lease)
               /\ \E row \in TaskRow :
                    /\ task' = [task EXCEPT ![held[w].task] = row]
                    /\ row.run = task[held[w].task].run /\ row.lease = None
                    /\ row.maxAttempts = task[held[w].task].maxAttempts
                    /\ row.attempt = task[held[w].task].attempt
                    /\ row.status = IF pc[w] = "reapDead" THEN "dead" ELSE "pending"
               /\ pc'[w] = IF pc[w] = "reapDead" THEN "reapFailRun" ELSE "reap"
               /\ pc[w] = "reapDead" => held'[w] = held[w]
<1>. DEFINE t == held[w].task
<1>1. /\ t \in Task /\ held[w].lease \in Lease /\ Reaping(w)
      /\ task[t] \in TaskRow /\ ts[w] \in 0..Now
  BY DEF ReapRequeue, Typed, TypeOK, HeldOK, Reaping
<1>2. /\ UNCHANGED <<run, lease, events, ts, cand, beat, crashes>>
      /\ \A v \in Worker \ {w} : pc'[v] = pc[v] /\ held'[v] = held[v]
  BY DEF ReapRequeue, Goto, Typed, TypeOK
<1>3. CASE ~ LeasedUnder(t, held[w].lease)
  BY <1>1, <1>2, <1>3 DEF ReapRequeue, Goto, Typed, TypeOK
<1>4. CASE LeasedUnder(t, held[w].lease) /\ pc[w] = "reapDead"
  <2>1. /\ task' = [task EXCEPT ![t] = Buried(task[t])]
        /\ pc'[w] = "reapFailRun" /\ held'[w] = held[w]
    BY <1>1, <1>4 DEF ReapRequeue, Goto, Typed, TypeOK
  <2>2. /\ Buried(task[t]) \in TaskRow /\ Buried(task[t]).lease = None
        /\ Buried(task[t]).run = task[t].run /\ Buried(task[t]).status = "dead"
        /\ Buried(task[t]).maxAttempts = task[t].maxAttempts
        /\ Buried(task[t]).attempt = task[t].attempt
    BY <1>1, GivenUpRow
  <2>. QED BY <1>1, <1>2, <1>4, <2>1, <2>2
<1>5. CASE LeasedUnder(t, held[w].lease) /\ pc[w] = "reapRetry"
  <2>. DEFINE row == Retried(task[t], ts[w])
  <2>1. task' = [task EXCEPT ![t] = row] /\ pc'[w] = "reap"
    BY <1>1, <1>5 DEF ReapRequeue, Goto, Typed, TypeOK
  <2>2. /\ row \in TaskRow /\ row.lease = None
        /\ row.run = task[t].run /\ row.status = "pending"
        /\ row.maxAttempts = task[t].maxAttempts /\ row.attempt = task[t].attempt
    BY <1>1, GivenUpRow
  <2>. QED BY <1>1, <1>2, <1>5, <2>1, <2>2
<1>. QED BY <1>3, <1>4, <1>5 DEF ReapRequeue

LEMMA ReapTyped ==
  ASSUME Typed, NEW w \in Worker, Reap(w)
  PROVE  Typed'
<1>1. CASE ReapScan(w)
  BY <1>1, TimeRange DEF ReapScan, Typed, TypeOK, HeldOK, Owning, Label, Goto, rowVars, Reaping
<1>2. ASSUME NEW l \in Lease, ReapConsume(w, l) PROVE Typed'
  <2>1. lease[l].task \in Task \cup {None}
    BY DEF Typed, TypeOK, LeaseRow
  <2>2. TypeOK'
    BY <1>2, <2>1, Values DEF ReapConsume, Typed, TypeOK, Label, Goto
  <2>3. HeldOK'
    BY <1>2, <2>1 DEF ReapConsume, StillExpired, HasRow, Typed, TypeOK, HeldOK, Owning, Goto, Reaping
  <2>. QED BY <2>2, <2>3 DEF Typed
<1>3. CASE ReapRequeue(w)
  <2>1. /\ task' \in [Task -> TaskRow]
        /\ \A u \in Task : task'[u].run = None <=> task'[u].status = "absent"
    BY <1>3, RequeueStep DEF LeasedUnder, Typed, TypeOK
  <2>2. TypeOK'
    BY <1>3, <2>1, Values DEF ReapRequeue, Typed, TypeOK, Label, Goto
  <2>3. HeldOK'
    BY <1>3 DEF ReapRequeue, Typed, TypeOK, HeldOK, Owning, Goto, Reaping
  <2>. QED BY <2>2, <2>3 DEF Typed
<1>5. CASE ReapRead(w)
  BY <1>5 DEF ReapRead, Goto, rowVars, Typed, TypeOK, Label, HeldOK, Owning, Reaping
<1>4. CASE ReapFailRun(w)
  <2>1. TypeOK'
    BY <1>4, Values DEF ReapFailRun, RunStatus, Typed, TypeOK, Label, Goto
  <2>2. HeldOK'
    BY <1>4 DEF ReapFailRun, Typed, TypeOK, HeldOK, Owning, Goto, Reaping
  <2>. QED BY <2>1, <2>2 DEF Typed
<1>. QED
  BY <1>1, <1>2, <1>3, <1>4, <1>5 DEF Reap

LEMMA ClaimTyped ==
  ASSUME Typed, NEW w \in Worker, Claim(w)
  PROVE  Typed'
<1>1. CASE ClaimScan(w)
  <2>1. {[task |-> t, attempt |-> task[t].attempt, dueAt |-> task[t].dueAt] :
           t \in {u \in Task : task[u].status = "pending" /\ task[u].dueAt <= Now}}
          \subseteq Candidate
    BY DEF Typed, TypeOK, TaskRow, Candidate
  <2>2. TypeOK'
    BY <1>1, <2>1, TimeRange DEF ClaimScan, Typed, TypeOK, Label, Goto, rowVars
  <2>3. HeldOK'
    BY <1>1 DEF ClaimScan, Typed, TypeOK, HeldOK, Owning, Goto, Reaping
  <2>. QED BY <2>2, <2>3 DEF Typed
<1>2. CASE ClaimNothing(w)
  BY <1>2, TimeRange DEF ClaimNothing, Typed, TypeOK, HeldOK, Owning, Label, Goto, rowVars, Reaping
<1>3. ASSUME NEW c \in cand[w], ClaimBury(w, c) PROVE Typed'
  <2>1. c.task \in Task
    BY <1>3 DEF Typed, TypeOK, Candidate
  <2>2. /\ [lease |-> None, task |-> c.task] \in HeldRow
        /\ [lease |-> None, task |-> c.task].task = c.task
    BY <2>1, Values
  <2>. DEFINE buried == [task[c.task] EXCEPT !.status = "dead"]
  <2>3. task' = task \/ /\ task' = [task EXCEPT ![c.task] = buried]
                        /\ task[c.task].status = "pending"
    BY <1>3, <2>1 DEF ClaimBury, StillPending, Typed, TypeOK
  <2>4. buried \in TaskRow /\ buried.run = task[c.task].run /\ buried.status = "dead"
    BY <2>1, StatusRow DEF Typed, TypeOK, TaskStatus
  <2>. HIDE DEF buried
  <2>5. /\ task' \in [Task -> TaskRow]
        /\ \A u \in Task : task'[u].run = None <=> task'[u].status = "absent"
    BY <2>1, <2>3, <2>4 DEF Typed, TypeOK
  <2>6. TypeOK'
    BY <1>3, <2>2, <2>5 DEF ClaimBury, Typed, TypeOK, Label, Goto
  <2>7. HeldOK'
    BY <1>3, <2>1, <2>2 DEF ClaimBury, Typed, TypeOK, HeldOK, Owning, Goto, Reaping
  <2>. QED BY <2>6, <2>7 DEF Typed
<1>4. CASE BuryFailRun(w)
  <2>1. TypeOK'
    BY <1>4, Values DEF BuryFailRun, RunStatus, Typed, TypeOK, Label, Goto
  <2>2. HeldOK'
    BY <1>4 DEF BuryFailRun, Typed, TypeOK, HeldOK, Owning, Goto, Reaping
  <2>. QED BY <2>1, <2>2 DEF Typed
<1>5. ASSUME NEW c \in cand[w], NEW l \in Lease, ClaimLease(w, c, l) PROVE Typed'
  <2>1. c.task \in Task /\ ts[w] \in 0..Now
    BY <1>5 DEF Typed, TypeOK, Candidate
  <2>2. [task |-> c.task, expiresAt |-> Expiry(ts[w])] \in LeaseRow
    BY <2>1, TimeRange DEF LeaseRow
  <2>3. [lease |-> l, task |-> c.task] \in HeldRow
    BY <2>1, Values
  <2>4. TypeOK'
    BY <1>5, <2>2, <2>3 DEF ClaimLease, Typed, TypeOK, Label, Goto
  <2>5. HeldOK'
    BY <1>5, <2>1 DEF ClaimLease, Typed, TypeOK, HeldOK, Owning, Goto, Reaping
  <2>. QED BY <2>4, <2>5 DEF Typed
<1>6. CASE ClaimTake(w)
  <2>. DEFINE t == held[w].task
  <2>1. t \in Task /\ held[w].lease \in Lease /\ task[t] \in TaskRow
    BY <1>6 DEF ClaimTake, Typed, TypeOK, HeldOK, Owning, Reaping
  <2>2. CASE StillPending(t)
    <3>1. PICK c \in Tried(w) :
            task' = [task EXCEPT ![t] = [@ EXCEPT !.status = "leased",
                       !.lease = held[w].lease, !.attempt = NextAttempt(c)]]
      BY <1>6, <2>2 DEF ClaimTake
    <3>2. NextAttempt(c) \in Nat
      BY <3>1 DEF Tried, NextAttempt, Typed, TypeOK, Candidate
    <3>3. /\ task' \in [Task -> TaskRow]
          /\ \A u \in Task : task'[u].run = None <=> task'[u].status = "absent"
      BY <2>1, <2>2, <3>1, <3>2 DEF StillPending, Typed, TypeOK, TaskRow, TaskStatus
    <3>. QED
      BY <1>6, <2>2, <3>3 DEF ClaimTake, Typed, TypeOK, HeldOK, Owning, Label, Goto, Reaping
  <2>3. CASE ~ StillPending(t)
    <3>1. cand' \in [Worker -> SUBSET Candidate]
      BY <1>6, <2>3, ZenonT(60) DEF ClaimTake, Typed, TypeOK
    <3>2. TypeOK'
      BY <1>6, <2>3, <3>1 DEF ClaimTake, Typed, TypeOK, Label, Goto
    <3>3. HeldOK'
      BY <1>6, <2>3 DEF ClaimTake, Typed, TypeOK, HeldOK, Owning, Goto, Reaping
    <3>. QED BY <3>2, <3>3 DEF Typed
  <2>. QED BY <2>2, <2>3
<1>7. CASE ClaimDrop(w)
  <2>1. TypeOK'
    BY <1>7, Values DEF ClaimDrop, Typed, TypeOK, Label, Goto
  <2>2. HeldOK'
    BY <1>7 DEF ClaimDrop, Typed, TypeOK, HeldOK, Owning, Goto, Reaping
  <2>. QED BY <2>1, <2>2 DEF Typed
<1>8. CASE ClaimRunning(w)
  <2>1. TypeOK'
    BY <1>8, TimeRange DEF ClaimRunning, RunStatus, Typed, TypeOK, Label, Goto
  <2>2. HeldOK'
    BY <1>8 DEF ClaimRunning, Typed, TypeOK, HeldOK, Owning, Goto, Reaping
  <2>. QED BY <2>1, <2>2 DEF Typed
<1>. QED
  BY <1>1, <1>2, <1>3, <1>4, <1>5, <1>6, <1>7, <1>8 DEF Claim

\* Whatever ends a tick leaves a worker that holds nothing.
LEMMA EndTickTyped ==
  ASSUME Typed, NEW w \in Worker, EndTick(w)
  PROVE  /\ pc' \in [Worker -> Label] /\ held' \in [Worker -> HeldRow]
         /\ lost' \in [Worker -> BOOLEAN] /\ outcome' \in [Worker -> Outcome]
         /\ HeldOK'
<1>1. /\ pc' \in [Worker -> Label] /\ held' \in [Worker -> HeldRow]
      /\ lost' \in [Worker -> BOOLEAN] /\ outcome' \in [Worker -> Outcome]
  BY Values DEF EndTick, Typed, TypeOK, Label, Outcome, Goto
<1>2. HeldOK'
  BY DEF EndTick, Typed, TypeOK, HeldOK, Owning, Goto, Reaping
<1>. QED BY <1>1, <1>2

\* The terminal transaction, up to the status of the run and the type of its event.
LEMMA CompleteTyped ==
  ASSUME Typed, NEW w \in Worker, CompleteTask(w)
  PROVE  /\ held[w].task \in Task /\ task[held[w].task] \in TaskRow
         /\ task[held[w].task].status = "leased"
         /\ RunOf(w) \in Run
         /\ lease' \in [Lease -> LeaseRow]
         /\ LET done == [task[held[w].task] EXCEPT !.status = "completed"]
            IN  done \in TaskRow /\ done.status = "completed" /\ done.run = RunOf(w)
<1>1. held[w].task \in Task
  BY DEF CompleteTask, Typed, HeldOK, Owning, Reaping
<1>2. task[held[w].task] \in TaskRow /\ task[held[w].task].status = "leased"
  BY <1>1 DEF CompleteTask, LeasedUnder, Typed, TypeOK
<1>3. RunOf(w) \in Run
  BY <1>1, <1>2 DEF RunOf, Typed, TypeOK, TaskRow
<1>4. lease' \in [Lease -> LeaseRow]
  BY Values DEF CompleteTask, Typed, TypeOK
<1>. QED BY <1>1, <1>2, <1>3, <1>4, StatusRow DEF TaskStatus, RunOf

LEMMA WorkTyped ==
  ASSUME Typed, NEW w \in Worker, Work(w)
  PROVE  Typed'
<1>1. CASE Start(w)
  <2>1. events' \in [Run -> SUBSET EventType]
    BY <1>1 DEF Start, Record, EventType, Typed, TypeOK
  <2>2. TypeOK'
    BY <1>1, <2>1 DEF Start, Outcome, Typed, TypeOK, Label, Goto
  <2>3. HeldOK'
    BY <1>1 DEF Start, Typed, TypeOK, HeldOK, Owning, Goto, Reaping
  <2>. QED BY <2>2, <2>3 DEF Typed
<1>2. ASSUME NEW o \in Outcome, Execute(w, o) PROVE Typed'
  <2>1. TypeOK'
    BY <1>2 DEF Execute, Typed, TypeOK, Label, Goto, rowVars
  <2>2. HeldOK'
    BY <1>2 DEF Execute, Typed, TypeOK, HeldOK, Owning, Goto, Reaping
  <2>. QED BY <2>1, <2>2 DEF Typed
<1>3. CASE LeaseLost(w)
  BY <1>3, EndTickTyped DEF LeaseLost, Typed, TypeOK, rowVars
<1>4. CASE Validate(w)
  <2>1. CASE ValidLease(w) /\ Goto(w, "write") /\ UNCHANGED <<held, lost, outcome>>
    <3>1. TypeOK'
      BY <1>4, <2>1 DEF Validate, Typed, TypeOK, Label, Goto, rowVars
    <3>2. HeldOK'
      BY <1>4, <2>1 DEF Validate, Typed, TypeOK, HeldOK, Owning, Goto, Reaping
    <3>. QED BY <3>1, <3>2 DEF Typed
  <2>2. CASE EndTick(w)
    BY <1>4, <2>2, EndTickTyped DEF Validate, Typed, TypeOK, rowVars
  <2>. QED BY <1>4, <2>1, <2>2 DEF Validate
<1>5. CASE CommitCompleted(w)
  <2>1. /\ task' \in [Task -> TaskRow]
        /\ \A u \in Task : task'[u].run = None <=> task'[u].status = "absent"
    BY <1>5, CompleteTyped, EngineAssumption DEF CommitCompleted, Typed, TypeOK
  <2>2. run' \in [Run -> RunStatus] /\ events' \in [Run -> SUBSET EventType]
    BY <1>5 DEF CommitCompleted, Record, RunStatus, EventType, Typed, TypeOK
  <2>. QED
    BY <1>5, <2>1, <2>2, CompleteTyped, EndTickTyped
    DEF CommitCompleted, CompleteTask, Typed, TypeOK
<1>6. CASE CommitWaiting(w)
  <2>1. /\ task' \in [Task -> TaskRow]
        /\ \A u \in Task : task'[u].run = None <=> task'[u].status = "absent"
    BY <1>6, CompleteTyped, EngineAssumption DEF CommitWaiting, Typed, TypeOK
  <2>2. run' \in [Run -> RunStatus] /\ events' \in [Run -> SUBSET EventType]
    BY <1>6 DEF CommitWaiting, Record, RunStatus, EventType, Typed, TypeOK
  <2>. QED
    BY <1>6, <2>1, <2>2, CompleteTyped, EndTickTyped
    DEF CommitWaiting, CompleteTask, Typed, TypeOK
<1>7. CASE CommitYielded(w)
  <2>. DEFINE done == [task[held[w].task] EXCEPT !.status = "completed"]
              next == NewTask(RunOf(w), DefaultMaxAttempts)
  <2>1. PICK t \in Task :
          /\ task[t].status = "absent"
          /\ task' = [task EXCEPT ![held[w].task].status = "completed", ![t] = next]
    BY <1>7 DEF CommitYielded, NewTaskId
  <2>2. next \in TaskRow /\ next.run # None /\ next.status # "absent"
    BY <1>7, NewTaskRow, CompleteTyped DEF CommitYielded, DefaultMaxAttempts
  <2>3. done \in TaskRow /\ done.run # None /\ done.status # "absent"
    BY <1>7, CompleteTyped, EngineAssumption DEF CommitYielded
  <2>4. \A u \in Task : task'[u] = IF u = t THEN next
                                  ELSE IF u = held[w].task THEN done ELSE task[u]
    BY <1>7, <2>1, CompleteTyped DEF CommitYielded, Typed, TypeOK
  <2>5. DOMAIN task' = Task /\ task' = [u \in Task |-> task'[u]]
    BY <2>1 DEF Typed, TypeOK
  <2>. HIDE DEF done, next
  <2>6. /\ task' \in [Task -> TaskRow]
        /\ \A u \in Task : task'[u].run = None <=> task'[u].status = "absent"
    BY <2>2, <2>3, <2>4, <2>5 DEF Typed, TypeOK
  <2>7. run' \in [Run -> RunStatus] /\ events' \in [Run -> SUBSET EventType]
    BY <1>7 DEF CommitYielded, Record, RunStatus, EventType, Typed, TypeOK
  <2>. QED
    BY <1>7, <2>6, <2>7, CompleteTyped, EndTickTyped
    DEF CommitYielded, CompleteTask, Typed, TypeOK
<1>8. CASE CommitFailed(w)
  <2>. DEFINE t == held[w].task
  <2>1. t \in Task /\ task[t] \in TaskRow /\ task[t].status = "leased"
    BY <1>8 DEF CommitFailed, LeasedUnder, Typed, TypeOK, HeldOK, Owning, Reaping
  <2>2. /\ Released(task[t], Now) \in TaskRow
        /\ Released(task[t], Now).run = task[t].run
        /\ Released(task[t], Now).status # "absent"
    BY <2>1, ReleasedRow, TimeRange
  <2>3. task' = [task EXCEPT ![t] = Released(task[t], Now)]
    BY <1>8, <2>1 DEF CommitFailed, Typed, TypeOK
  <2>4. /\ task' \in [Task -> TaskRow]
        /\ \A u \in Task : task'[u].run = None <=> task'[u].status = "absent"
    BY <2>1, <2>2, <2>3 DEF Typed, TypeOK
  <2>5. run' \in [Run -> RunStatus]
    BY <1>8 DEF CommitFailed, RunStatus, Typed, TypeOK
  <2>6. events' \in [Run -> SUBSET EventType]
    BY <1>8 DEF CommitFailed, Record, EventType, Typed, TypeOK
  <2>7. lease' \in [Lease -> LeaseRow]
    BY <1>8, Values DEF CommitFailed, Typed, TypeOK
  <2>. QED
    BY <1>8, <2>4, <2>5, <2>6, <2>7, EndTickTyped DEF CommitFailed, Typed, TypeOK
<1>9. CASE CommitNothing(w)
  <2>1. lease' \in [Lease -> LeaseRow]
    BY <1>9, Values DEF CommitNothing, Typed, TypeOK
  <2>. QED
    BY <1>9, <2>1, EndTickTyped DEF CommitNothing, Typed, TypeOK
<1>. QED
  BY <1>1, <1>2, <1>3, <1>4, <1>5, <1>6, <1>7, <1>8, <1>9 DEF Work

LEMMA BeatTyped ==
  ASSUME Typed, NEW w \in Worker, Beat(w)
  PROVE  Typed'
<1>1. CASE BeatRead(w)
  <2>1. [lease |-> held[w].lease, ts |-> Now] \in BeatRow
    BY TimeRange DEF Typed, TypeOK, HeldRow, BeatRow
  <2>. QED
    BY <1>1, <2>1 DEF BeatRead, Typed, TypeOK, HeldOK, rowVars, localVars, Reaping
<1>2. CASE BeatFails(w)
  BY <1>2 DEF BeatFails, Typed, TypeOK, HeldOK, rowVars, Reaping
<1>3. CASE BeatWrite(w)
  <2>. DEFINE l == beat[w].lease
  <2>1. beat[w].ts \in 0..Now
    BY DEF Typed, TypeOK, BeatRow
  <2>2. lease' \in [Lease -> LeaseRow]
    BY <1>3, <2>1, TimeRange, AgedRows DEF BeatWrite, Typed, TypeOK
  <2>3. lost' \in [Worker -> BOOLEAN] /\ beat' \in [Worker -> BeatRow]
    BY <1>3, Values DEF BeatWrite, Typed, TypeOK
  <2>. QED
    BY <1>3, <2>2, <2>3 DEF BeatWrite, Typed, TypeOK, HeldOK, Reaping
<1>. QED
  BY <1>1, <1>2, <1>3 DEF Beat

LEMMA CrashTyped ==
  ASSUME Typed, NEW w \in Worker, Crash(w)
  PROVE  Typed'
<1>1. /\ ts' \in [Worker -> 0..Now]
      /\ scan' \in [Worker -> SUBSET Lease] /\ cand' \in [Worker -> SUBSET Candidate]
      /\ beat' \in [Worker -> BeatRow]
      /\ crashes' \in 0..MaxCrashes
  BY Values, TimeRange, EngineAssumption DEF Crash, Typed, TypeOK
<1>. QED
  BY <1>1, EndTickTyped DEF Crash, Typed, TypeOK, rowVars

LEMMA TickTyped ==
  ASSUME Typed, Tick
  PROVE  Typed'
<1>1. \A u \in Task : /\ task'[u] \in TaskRow
                        /\ task'[u].run = task[u].run /\ task'[u].status = task[u].status
  BY AgedRows DEF Tick, Typed, TypeOK
<1>2. task' = [u \in Task |-> task'[u]]
  BY DEF Tick
<1>3. /\ task' \in [Task -> TaskRow]
      /\ \A u \in Task : task'[u].run = None <=> task'[u].status = "absent"
  BY <1>1, <1>2 DEF Typed, TypeOK
<1>4. lease' \in [Lease -> LeaseRow]
  BY AgedRows DEF Tick, Typed, TypeOK
<1>5. ts' \in [Worker -> 0..Now] /\ beat' \in [Worker -> BeatRow]
  BY TimeRange DEF Tick, Typed, TypeOK, BeatRow
<1>. QED
  BY <1>3, <1>4, <1>5 DEF Tick, Typed, TypeOK, HeldOK, Reaping

LEMMA TypedNext == Typed /\ [Next]_vars => Typed'
<1>. SUFFICES ASSUME Typed, [Next]_vars PROVE Typed'
  OBVIOUS
<1>1. ASSUME NEW r \in Run, NEW limit \in Nat, EnqueueRun(r, limit) PROVE Typed'
  BY <1>1, EnqueueTyped
<1>2. ASSUME NEW w \in Worker, Reap(w) \/ Claim(w) \/ Work(w) \/ Beat(w) \/ Crash(w)
      PROVE  Typed'
  BY <1>2, ReapTyped, ClaimTyped, WorkTyped, BeatTyped, CrashTyped
<1>3. CASE Tick
  BY <1>3, TickTyped
<1>4. CASE UNCHANGED vars
  BY <1>4 DEF vars, Typed, TypeOK, HeldOK, Reaping
<1>. QED
  BY <1>1, <1>2, <1>3, <1>4, EngineAssumption
  DEF Next, StartRun, ContinueRun, DefaultMaxAttempts

\* Every variable keeps its type, and a worker that holds a lease or a task at some
\* statement of the claim, the reap or the tick holds an existing one.
THEOREM Typing == Spec => []TypeOK
<1>1. Spec => []Typed
  BY TypedInit, TypedNext, PTL DEF Spec
<1>. QED
  BY <1>1, PTL DEF Typed

----------------------------------------------------------------------------
(* Exclusive leases.                                                       *)

\* The lease a reaper is about to requeue the task of has no row any more.
GoneOK == \A w \in Worker : Reaping(w) => ~ HasRow(held[w].lease)

\* No two workers hold one lease.
DistinctOK ==
  \A v, w \in Worker :
    v # w /\ pc[v] \in Owning /\ pc[w] \in Owning => held[v].lease # held[w].lease

\* As long as the lease row of a won claim exists, the task is leased under it.
HoldOK ==
  \A w \in Worker :
    Holding(w) /\ HasRow(held[w].lease) => LeasedUnder(held[w].task, held[w].lease)

LeaseInv == Typed /\ GoneOK /\ DistinctOK /\ HoldOK

LEMMA LeaseInvInit == Init => LeaseInv
BY TypedInit DEF Init, LeaseInv, GoneOK, DistinctOK, HoldOK, Holding, Owning, Reaping

\* A new task disturbs no lease: nothing was leased under an absent row.
LEMMA EnqueueLease ==
  ASSUME LeaseInv, NEW r \in Run, NEW limit \in Nat, EnqueueRun(r, limit)
  PROVE  GoneOK' /\ DistinctOK' /\ HoldOK'
<1>1. PICK t \in Task : /\ task[t].status = "absent"
                        /\ task' = [task EXCEPT ![t] = NewTask(r, limit)]
  BY DEF EnqueueRun, NewTaskId
<1>2. \A u \in Task : task[u].status = "leased" => task'[u] = task[u]
  BY <1>1 DEF LeaseInv, Typed, TypeOK
<1>3. \A v \in Worker : Holding(v) => held[v].task \in Task
  BY DEF Holding, LeaseInv, Typed, HeldOK, Owning, Reaping
<1>. QED
  BY <1>2, <1>3
  DEF EnqueueRun, localVars, LeaseInv, GoneOK, DistinctOK, HoldOK, Holding, HasRow, LeasedUnder, Reaping

LEMMA ReapLease ==
  ASSUME LeaseInv, NEW w \in Worker, Reap(w)
  PROVE  GoneOK' /\ DistinctOK' /\ HoldOK'
<1>0. Typed
  BY DEF LeaseInv
<1>1. CASE ReapScan(w)
  BY <1>1 DEF ReapScan, Goto, rowVars, LeaseInv, Typed, TypeOK, GoneOK, DistinctOK, HoldOK,
              Holding, HasRow, LeasedUnder, Owning, Reaping
<1>2. ASSUME NEW l \in Lease, ReapConsume(w, l)
      PROVE  GoneOK' /\ DistinctOK' /\ HoldOK'
  <2>1. \A k \in Lease : HasRow(k)' => HasRow(k)
    BY <1>2, Values DEF ReapConsume, HasRow, LeaseInv, Typed, TypeOK
  <2>2. GoneOK'
    <3>1. ASSUME NEW v \in Worker, Reaping(v)'
          PROVE  ~ HasRow(held[v].lease)'
      <4>1. CASE v = w
        BY <1>2, <3>1, <4>1, Values
        DEF ReapConsume, Goto, LeaseInv, Typed, TypeOK, HasRow, Reaping
      <4>2. CASE v # w
        <5>1. Reaping(v) /\ held'[v] = held[v]
          BY <1>2, <3>1, <4>2 DEF ReapConsume, Goto, LeaseInv, Typed, TypeOK, Reaping
        <5>. QED
          BY <5>1, <2>1 DEF LeaseInv, GoneOK, Typed, HeldOK, HasRow, Reaping
      <4>. QED BY <4>1, <4>2
    <3>. QED BY <3>1 DEF GoneOK, Reaping
  <2>3. DistinctOK'
    BY <1>2 DEF ReapConsume, Goto, LeaseInv, Typed, TypeOK, DistinctOK, Owning
  <2>4. HoldOK'
    BY <1>2, <2>1
    DEF ReapConsume, Goto, LeaseInv, Typed, TypeOK, HeldOK, HoldOK, Holding, Owning, LeasedUnder, Reaping
  <2>. QED BY <2>2, <2>3, <2>4
<1>3. CASE ReapRequeue(w)
  <2>1. UNCHANGED lease /\ \A v \in Worker \ {w} : pc'[v] = pc[v] /\ held'[v] = held[v]
    BY <1>0, <1>3, RequeueStep
  <2>2. pc'[w] \in {"reap", "reapFailRun"} /\ ~ HasRow(held[w].lease)
    BY <1>0, <1>3, RequeueStep DEF LeaseInv, GoneOK
  <2>3. GoneOK' /\ DistinctOK'
    BY <2>1, <2>2 DEF LeaseInv, GoneOK, Reaping, HasRow, DistinctOK, Owning
  <2>4. ASSUME NEW v \in Worker, Holding(v)', HasRow(held[v].lease)'
        PROVE  LeasedUnder(held[v].task, held[v].lease)'
    <3>1. v # w /\ Holding(v) /\ HasRow(held[v].lease) /\ held'[v] = held[v]
      BY <2>1, <2>2, <2>4 DEF Holding, HasRow
    <3>2. LeasedUnder(held[v].task, held[v].lease) /\ held[v].task \in Task
      BY <3>1 DEF LeaseInv, HoldOK, Holding, Typed, HeldOK, Owning
    <3>3. held[v].lease # held[w].lease
      BY <2>2, <3>1
    <3>4. task'[held[v].task] = task[held[v].task]
      BY <1>0, <1>3, <3>2, <3>3, RequeueStep DEF LeasedUnder, Typed, TypeOK
    <3>. QED
      BY <3>1, <3>2, <3>4 DEF LeasedUnder
  <2>. QED BY <2>3, <2>4 DEF HoldOK
<1>5. CASE ReapRead(w)
  BY <1>5 DEF ReapRead, Goto, rowVars, LeaseInv, Typed, TypeOK, GoneOK, DistinctOK, HoldOK,
              Holding, HasRow, LeasedUnder, Owning, Reaping
<1>4. CASE ReapFailRun(w)
  BY <1>4 DEF ReapFailRun, Goto, LeaseInv, Typed, TypeOK, GoneOK, DistinctOK, HoldOK,
              Holding, HasRow, LeasedUnder, Owning, Reaping
<1>. QED
  BY <1>1, <1>2, <1>3, <1>4, <1>5 DEF Reap

LEMMA ClaimLeaseInv ==
  ASSUME LeaseInv, NEW w \in Worker, Claim(w)
  PROVE  GoneOK' /\ DistinctOK' /\ HoldOK'
<1>0. Typed
  BY DEF LeaseInv
<1>1. CASE ClaimScan(w)
  BY <1>1 DEF ClaimScan, Goto, rowVars, LeaseInv, Typed, TypeOK, GoneOK, DistinctOK, HoldOK,
              Holding, HasRow, LeasedUnder, Owning, Reaping
<1>2. CASE ClaimNothing(w)
  BY <1>2 DEF ClaimNothing, Goto, rowVars, LeaseInv, Typed, TypeOK, GoneOK, DistinctOK, HoldOK,
              Holding, HasRow, LeasedUnder, Owning, Reaping
<1>3. ASSUME NEW c \in cand[w], ClaimBury(w, c)
      PROVE  GoneOK' /\ DistinctOK' /\ HoldOK'
  <2>1. \A u \in Task : task[u].status = "leased" => task'[u] = task[u]
    BY <1>3 DEF ClaimBury, StillPending, LeaseInv, Typed, TypeOK
  <2>2. GoneOK'
    BY <1>3 DEF ClaimBury, Goto, LeaseInv, Typed, TypeOK, GoneOK, HasRow, Reaping
  <2>3. DistinctOK'
    BY <1>3 DEF ClaimBury, Goto, LeaseInv, Typed, TypeOK, DistinctOK, Owning
  <2>4. \A v \in Worker : Holding(v)' => Holding(v) /\ held'[v] = held[v]
    BY <1>3 DEF ClaimBury, Goto, Holding, LeaseInv, Typed, TypeOK
  <2>5. UNCHANGED lease
    BY <1>3 DEF ClaimBury
  <2>6. HoldOK'
    BY <2>1, <2>4, <2>5
    DEF LeaseInv, Typed, HeldOK, HoldOK, Holding, HasRow, LeasedUnder, Owning, Reaping
  <2>. QED BY <2>2, <2>3, <2>6
<1>4. CASE BuryFailRun(w)
  BY <1>4 DEF BuryFailRun, Goto, LeaseInv, Typed, TypeOK, GoneOK, DistinctOK, HoldOK,
              Holding, HasRow, LeasedUnder, Owning, Reaping
<1>5. ASSUME NEW c \in cand[w], NEW l \in Lease, ClaimLease(w, c, l)
      PROVE  GoneOK' /\ DistinctOK' /\ HoldOK'
  <2>1. \A v \in Worker : held[v].lease # l
    BY <1>5 DEF ClaimLease, NewLease, Fresh
  <2>2. /\ held' = [held EXCEPT ![w] = [lease |-> l, task |-> c.task]]
        /\ pc' = [pc EXCEPT ![w] = "take"]
        /\ \A k \in Lease : k # l => lease'[k] = lease[k]
    BY <1>5 DEF ClaimLease, Goto, LeaseInv, Typed, TypeOK
  <2>3. GoneOK'
    BY <2>1, <2>2 DEF LeaseInv, Typed, TypeOK, HeldOK, GoneOK, HasRow, Reaping
  <2>4. DistinctOK'
    BY <2>1, <2>2 DEF LeaseInv, Typed, TypeOK, DistinctOK
  <2>5. HoldOK'
    BY <1>5, <2>1, <2>2
    DEF ClaimLease, LeaseInv, Typed, TypeOK, HeldOK, HoldOK, Holding, HasRow, LeasedUnder, Owning, Reaping
  <2>. QED BY <2>3, <2>4, <2>5
<1>6. CASE ClaimTake(w)
  <2>. DEFINE t == held[w].task
  <2>1. /\ t \in Task /\ held[w].lease \in Lease /\ pc[w] = "take"
        /\ UNCHANGED <<lease, held>>
    BY <1>6 DEF ClaimTake, LeaseInv, Typed, HeldOK, Owning, Reaping
  <2>2. pc' = [pc EXCEPT ![w] = "claimed"] \/ pc' = [pc EXCEPT ![w] = "drop"]
    BY <1>6 DEF ClaimTake, Goto
  <2>3. GoneOK' /\ DistinctOK'
    BY <2>1, <2>2 DEF LeaseInv, Typed, TypeOK, GoneOK, DistinctOK, HasRow, Owning, Reaping
  <2>4. CASE StillPending(t)
    <3>1. PICK c \in Tried(w) :
            task' = [task EXCEPT ![t] = [@ EXCEPT !.status = "leased",
                       !.lease = held[w].lease, !.attempt = NextAttempt(c)]]
      BY <1>6, <2>4 DEF ClaimTake
    <3>2. LeasedUnder(t, held[w].lease)'
      BY <2>1, <3>1 DEF LeasedUnder, LeaseInv, Typed, TypeOK, TaskRow
    <3>3. \A u \in Task : task[u].status = "leased" => task'[u] = task[u]
      BY <2>1, <2>4, <3>1 DEF StillPending, LeaseInv, Typed, TypeOK
    <3>4. \A v \in Worker : Holding(v)' /\ v # w => Holding(v)
      BY <2>2 DEF Holding, LeaseInv, Typed, TypeOK
    <3>. QED
      BY <2>1, <2>3, <3>2, <3>3, <3>4
      DEF LeaseInv, Typed, HeldOK, HoldOK, Holding, HasRow, LeasedUnder, Owning, Reaping
  <2>5. CASE ~ StillPending(t)
    BY <1>6, <2>3, <2>5, ZenonT(60) DEF ClaimTake, Goto, LeaseInv, Typed, TypeOK, HoldOK, Holding,
                            HasRow, LeasedUnder
  <2>. QED BY <2>4, <2>5
<1>7. CASE ClaimDrop(w)
  <2>1. /\ held' = [held EXCEPT ![w] = NoHold] /\ pc' = [pc EXCEPT ![w] = "claim"]
        /\ UNCHANGED task
    BY <1>7 DEF ClaimDrop, Goto
  <2>2. \A k \in Lease : HasRow(k)' => HasRow(k)
    BY <1>7, Values DEF ClaimDrop, HasRow, LeaseInv, Typed, TypeOK
  <2>3. GoneOK' /\ DistinctOK'
    BY <2>1, <2>2 DEF LeaseInv, Typed, TypeOK, HeldOK, GoneOK, DistinctOK, HasRow, Owning, Reaping
  <2>4. HoldOK'
    BY <2>1, <2>2 DEF LeaseInv, Typed, TypeOK, HeldOK, HoldOK, Holding, HasRow, LeasedUnder,
                      Owning, Reaping
  <2>. QED BY <2>3, <2>4
<1>8. CASE ClaimRunning(w)
  BY <1>8 DEF ClaimRunning, Goto, LeaseInv, Typed, TypeOK, GoneOK, DistinctOK, HoldOK,
              Holding, HasRow, LeasedUnder, Owning, Reaping
<1>. QED
  BY <1>1, <1>2, <1>3, <1>4, <1>5, <1>6, <1>7, <1>8 DEF Claim

\* A worker that ends its tick disturbs no other holder, if it creates no lease row and
\* changes no task that is leased under a lease of another worker.
LEMMA EndTickLease ==
  ASSUME LeaseInv, NEW w \in Worker, EndTick(w),
         \A k \in Lease : HasRow(k)' => HasRow(k),
         \A t \in Task, k \in Lease :
           LeasedUnder(t, k) /\ (pc[w] \in Owning => k # held[w].lease) => LeasedUnder(t, k)'
  PROVE  GoneOK' /\ DistinctOK' /\ HoldOK'
<1>1. held' = [held EXCEPT ![w] = NoHold] /\ pc' = [pc EXCEPT ![w] = "idle"]
  BY DEF EndTick, Goto
<1>2. GoneOK' /\ DistinctOK'
  BY <1>1 DEF LeaseInv, Typed, TypeOK, HeldOK, GoneOK, DistinctOK, HasRow, Owning, Reaping
<1>3. ASSUME NEW v \in Worker, Holding(v)', HasRow(held[v].lease)'
      PROVE  LeasedUnder(held[v].task, held[v].lease)'
  <2>1. v # w /\ Holding(v) /\ held'[v] = held[v]
    BY <1>1, <1>3 DEF Holding, LeaseInv, Typed, TypeOK
  <2>2. held[v].lease \in Lease /\ held[v].task \in Task
    BY <2>1 DEF Holding, LeaseInv, Typed, HeldOK, Owning, Reaping
  <2>3. LeasedUnder(held[v].task, held[v].lease)
    BY <1>3, <2>1, <2>2 DEF HasRow, LeaseInv, HoldOK
  <2>4. pc[w] \in Owning => held[v].lease # held[w].lease
    BY <2>1 DEF Holding, LeaseInv, DistinctOK, Owning
  <2>. QED
    BY <2>1, <2>2, <2>3, <2>4 DEF LeasedUnder
<1>. QED
  BY <1>2, <1>3 DEF HoldOK

LEMMA WorkLease ==
  ASSUME LeaseInv, NEW w \in Worker, Work(w)
  PROVE  GoneOK' /\ DistinctOK' /\ HoldOK'
<1>1. CASE Start(w)
  BY <1>1, SMTT(30) DEF Start, Goto, LeaseInv, Typed, TypeOK, GoneOK, DistinctOK, HoldOK,
              Holding, HasRow, LeasedUnder, Owning, Reaping
<1>2. ASSUME NEW o \in Outcome, Execute(w, o)
      PROVE  GoneOK' /\ DistinctOK' /\ HoldOK'
  BY <1>2 DEF Execute, Goto, rowVars, LeaseInv, Typed, TypeOK, GoneOK, DistinctOK, HoldOK,
              Holding, HasRow, LeasedUnder, Owning, Reaping
<1>3. CASE LeaseLost(w)
  BY <1>3, EndTickLease DEF LeaseLost, rowVars, HasRow, LeasedUnder
<1>4. CASE Validate(w)
  <2>1. CASE ValidLease(w) /\ Goto(w, "write") /\ UNCHANGED <<held, lost, outcome>>
    BY <1>4, <2>1 DEF Validate, Goto, rowVars, LeaseInv, Typed, TypeOK, GoneOK, DistinctOK,
                      HoldOK, Holding, HasRow, LeasedUnder, Owning, Reaping
  <2>2. CASE EndTick(w)
    BY <1>4, <2>2, EndTickLease DEF Validate, rowVars, HasRow, LeasedUnder
  <2>. QED BY <1>4, <2>1, <2>2 DEF Validate
<1>5. CASE CompleteTask(w) /\ (CommitCompleted(w) \/ CommitWaiting(w) \/ CommitYielded(w))
  <2>1. \A k \in Lease : HasRow(k)' => HasRow(k)
    BY <1>5, Values DEF CompleteTask, HasRow, LeaseInv, Typed, TypeOK
  <2>2. \A t \in Task : task[t].status = "leased" /\ t # held[w].task => task'[t] = task[t]
    BY <1>5 DEF CommitCompleted, CommitWaiting, CommitYielded, NewTaskId, LeaseInv, Typed, TypeOK
  <2>3. \A t \in Task, k \in Lease :
          LeasedUnder(t, k) /\ (pc[w] \in Owning => k # held[w].lease) => LeasedUnder(t, k)'
    BY <1>5, <2>2 DEF CompleteTask, LeasedUnder, Owning
  <2>. QED
    BY <1>5, <2>1, <2>3, EndTickLease DEF CompleteTask
<1>6. CASE CommitFailed(w)
  <2>1. \A k \in Lease : HasRow(k)' => HasRow(k)
    BY <1>6, Values DEF CommitFailed, HasRow, LeaseInv, Typed, TypeOK
  <2>2. \A t \in Task, k \in Lease :
          LeasedUnder(t, k) /\ (pc[w] \in Owning => k # held[w].lease) => LeasedUnder(t, k)'
    BY <1>6 DEF CommitFailed, LeasedUnder, Owning, LeaseInv, Typed, TypeOK
  <2>. QED
    BY <1>6, <2>1, <2>2, EndTickLease DEF CommitFailed
<1>7. CASE CommitNothing(w)
  <2>1. \A k \in Lease : HasRow(k)' => HasRow(k)
    BY <1>7, Values DEF CommitNothing, HasRow, LeaseInv, Typed, TypeOK
  <2>. QED
    BY <1>7, <2>1, EndTickLease DEF CommitNothing, LeasedUnder
<1>. QED
  BY <1>1, <1>2, <1>3, <1>4, <1>5, <1>6, <1>7
  DEF Work, CommitCompleted, CommitWaiting, CommitYielded

LEMMA BeatLease ==
  ASSUME LeaseInv, NEW w \in Worker, Beat(w)
  PROVE  GoneOK' /\ DistinctOK' /\ HoldOK'
<1>1. /\ UNCHANGED <<task, pc, held>>
      /\ \A k \in Lease : lease'[k].task = lease[k].task
  BY DEF Beat, BeatRead, BeatFails, BeatWrite, rowVars, localVars, LeaseInv, Typed, TypeOK,
         LeaseRow
<1>. QED
  BY <1>1 DEF LeaseInv, Typed, HeldOK, GoneOK, DistinctOK, HoldOK, Holding, HasRow,
              LeasedUnder, Owning, Reaping

LEMMA TickLease ==
  ASSUME LeaseInv, Tick
  PROVE  GoneOK' /\ DistinctOK' /\ HoldOK'
<1>1. \A k \in Lease : lease'[k].task = lease[k].task
  BY AgedRows DEF Tick, LeaseInv, Typed, TypeOK
<1>2. \A t \in Task : task'[t].status = task[t].status /\ task'[t].lease = task[t].lease
  BY AgedRows DEF Tick, LeaseInv, Typed, TypeOK
<1>3. UNCHANGED <<pc, held>>
  BY DEF Tick
<1>. QED
  BY <1>1, <1>2, <1>3 DEF LeaseInv, Typed, HeldOK, GoneOK, DistinctOK, HoldOK, Holding,
                          HasRow, LeasedUnder, Owning, Reaping

LEMMA LeaseInvNext == LeaseInv /\ [Next]_vars => LeaseInv'
<1>. SUFFICES ASSUME LeaseInv, [Next]_vars PROVE LeaseInv'
  OBVIOUS
<1>0. Typed'
  BY TypedNext DEF LeaseInv
<1>1. ASSUME NEW r \in Run, NEW limit \in Nat, EnqueueRun(r, limit) PROVE LeaseInv'
  BY <1>0, <1>1, EnqueueLease DEF LeaseInv
<1>2. ASSUME NEW w \in Worker, Reap(w) \/ Claim(w) \/ Work(w) \/ Beat(w) PROVE LeaseInv'
  BY <1>0, <1>2, ReapLease, ClaimLeaseInv, WorkLease, BeatLease DEF LeaseInv
<1>3. ASSUME NEW w \in Worker, Crash(w) PROVE LeaseInv'
  BY <1>0, <1>3, EndTickLease DEF Crash, rowVars, HasRow, LeasedUnder, LeaseInv
<1>4. CASE Tick
  BY <1>0, <1>4, TickLease DEF LeaseInv
<1>5. CASE UNCHANGED vars
  BY <1>0, <1>5
  DEF vars, LeaseInv, GoneOK, DistinctOK, HoldOK, Holding, HasRow, LeasedUnder, Reaping
<1>. QED
  BY <1>1, <1>2, <1>3, <1>4, <1>5, EngineAssumption
  DEF Next, StartRun, ContinueRun, DefaultMaxAttempts

\* Two workers that both believe they own a task never have both their lease rows: a
\* zombie whose lease was reaped is found out by the row, whatever it was stopped at.
THEOREM LeasesAreExclusive == Spec => []ExclusiveLease
<1>1. LeaseInv => ExclusiveLease
  BY DEF LeaseInv, Typed, HeldOK, DistinctOK, HoldOK, ExclusiveLease, Holding, LeasedUnder, Owning, Reaping
<1>. QED
  BY <1>1, LeaseInvInit, LeaseInvNext, PTL DEF Spec

----------------------------------------------------------------------------
(* What a step may do to a task.                                           *)

\* No task that ended changes its status.
FinalStep == \A t \in Task : task[t].status \in {"completed", "dead"}
                               => task'[t].status = task[t].status

\* A pair is what its two fields are.
LEMMA HeldPair ==
  ASSUME Typed, NEW w \in Worker, NEW t \in Task, held[w].task = t,
         held[w].lease = task[t].lease
  PROVE  held[w] = [lease |-> task[t].lease, task |-> t]
BY DEF Typed, TypeOK, HeldRow

\* The steps that change one task, leased under the lease that w holds.
LEMMA HolderChange ==
  ASSUME Typed, NEW w \in Worker, pc[w] = "write" \/ Reaping(w), held[w].task \in Task,
         LeasedUnder(held[w].task, held[w].lease),
         \A t \in Task : t # held[w].task =>
           task'[t] = task[t] \/ task[t].status \in {"absent", "pending"}
  PROVE  FinalStep /\ HolderStep
<1>1. FinalStep
  BY DEF FinalStep, LeasedUnder
<1>2. HolderStep
  BY HeldPair DEF HolderStep, LeasedUnder, Reaping
<1>. QED BY <1>1, <1>2

LEMMA StatusStep ==
  ASSUME Typed, [Next]_vars
  PROVE  FinalStep /\ HolderStep
<1>1. ASSUME \A t \in Task : \/ task'[t].status = task[t].status
                             \/ task[t].status \in {"absent", "pending"}
      PROVE  FinalStep /\ HolderStep
  BY <1>1 DEF FinalStep, HolderStep, Reaping
<1>2. ASSUME NEW r \in Run, NEW limit \in Nat, EnqueueRun(r, limit)
      PROVE  FinalStep /\ HolderStep
  <2>1. PICK u \in Task : /\ task[u].status = "absent"
                          /\ task' = [task EXCEPT ![u] = NewTask(r, limit)]
    BY <1>2 DEF EnqueueRun, NewTaskId
  <2>. QED
    BY <1>1, <2>1 DEF Typed, TypeOK
<1>3. ASSUME NEW w \in Worker, ReapRequeue(w)
      PROVE  FinalStep /\ HolderStep
  <2>1. CASE LeasedUnder(held[w].task, held[w].lease)
    <3>1. \A t \in Task : t # held[w].task => task'[t] = task[t]
      BY <1>3, <2>1, RequeueStep DEF Typed, TypeOK
    <3>. QED
      BY <1>3, <2>1, <3>1, RequeueStep, HolderChange
  <2>2. CASE ~ LeasedUnder(held[w].task, held[w].lease)
    BY <1>1, <1>3, <2>2, RequeueStep
  <2>. QED
    BY <2>1, <2>2
<1>4. ASSUME NEW w \in Worker, Claim(w)
      PROVE  FinalStep /\ HolderStep
  <2>1. CASE ClaimTake(w)
    BY <1>1, <2>1 DEF ClaimTake, StillPending, Typed, TypeOK
  <2>2. ASSUME NEW c \in cand[w], ClaimBury(w, c)
        PROVE  FinalStep /\ HolderStep
    BY <1>1, <2>2 DEF ClaimBury, StillPending, Typed, TypeOK
  <2>3. CASE UNCHANGED task
    BY <1>1, <2>3
  <2>. QED
    BY <1>4, <2>1, <2>2, <2>3
    DEF Claim, ClaimScan, ClaimNothing, BuryFailRun, ClaimLease, ClaimDrop, ClaimRunning, rowVars
<1>5. ASSUME NEW w \in Worker, Work(w)
      PROVE  FinalStep /\ HolderStep
  <2>1. CASE \/ CommitCompleted(w) \/ CommitWaiting(w) \/ CommitYielded(w) \/ CommitFailed(w)
    <3>1. /\ pc[w] = "write" /\ held[w].task \in Task
          /\ LeasedUnder(held[w].task, held[w].lease)
      BY <2>1 DEF CommitCompleted, CommitWaiting, CommitYielded, CommitFailed, CompleteTask,
                  Typed, HeldOK, Owning, Reaping
    <3>2. \A t \in Task : t # held[w].task =>
            task'[t] = task[t] \/ task[t].status \in {"absent", "pending"}
      BY <2>1 DEF CommitCompleted, CommitWaiting, CommitYielded, CommitFailed, NewTaskId,
                  Typed, TypeOK
    <3>. QED
      BY <3>1, <3>2, HolderChange
  <2>2. CASE UNCHANGED task
    BY <1>1, <2>2
  <2>. QED
    BY <1>5, <2>1, <2>2 DEF Work, Start, Execute, LeaseLost, Validate, CommitNothing, rowVars
<1>6. CASE Tick
  BY <1>1, <1>6, AgedRows DEF Tick, Typed, TypeOK
<1>7. CASE UNCHANGED task
  BY <1>1, <1>7
<1>8. ASSUME NEW w \in Worker, Reap(w) \/ Beat(w) \/ Crash(w)
      PROVE  FinalStep /\ HolderStep
  BY <1>3, <1>7, <1>8
  DEF Reap, ReapScan, ReapConsume, ReapRead, ReapFailRun, Beat, BeatRead, BeatFails, BeatWrite,
      Crash, rowVars
<1>. QED
  BY <1>2, <1>4, <1>5, <1>6, <1>7, <1>8, EngineAssumption
  DEF Next, StartRun, ContinueRun, DefaultMaxAttempts, vars

\* A completed or dead task stays so: no stale candidate, late reaper or zombie revives
\* it, and a dead letter is not completed by the worker it was taken from.
THEOREM TasksAreFinal == Spec => TaskIsFinal
<1>1. Typed /\ [Next]_vars => [FinalStep]_vars
  BY StatusStep
<1>2. Spec => [][FinalStep]_vars
  BY <1>1, TypedInit, TypedNext, PTL DEF Spec
<1>. QED
  BY <1>2 DEF TaskIsFinal, FinalStep

\* The lease of a task is ended by nobody but the worker that holds it or the reaper
\* that consumed its row: the transaction of a zombie changes no task it lost.
THEOREM LeasesEndByHolder == Spec => OnlyHolderEndsLease
<1>1. Typed /\ [Next]_vars => [HolderStep]_vars
  BY StatusStep
<1>2. Spec => [][HolderStep]_vars
  BY <1>1, TypedInit, TypedNext, PTL DEF Spec
<1>. QED
  BY <1>2 DEF OnlyHolderEndsLease, HolderStep, Reaping

----------------------------------------------------------------------------
(* Leases that are good.                                                   *)

\* A row of a good lease is deleted by its holder.
LiveStep ==
  \A l \in Lease :
    HasRow(l) /\ ~ Expired(l, Now) /\ lease'[l].task = None
      => \E w \in Worker : held[w].lease = l /\ pc[w] \in {"drop", "write"}

LEMMA RowStep ==
  ASSUME Typed, [Next]_vars
  PROVE  LiveStep
<1>1. ASSUME \A l \in Lease : HasRow(l) => lease'[l].task # None
      PROVE  LiveStep
  BY <1>1 DEF LiveStep
<1>2. ASSUME NEW w \in Worker, pc[w] \in {"drop", "write"},
             lease' = [lease EXCEPT ![held[w].lease] = NoLeaseRow]
      PROVE  LiveStep
  BY <1>2 DEF LiveStep, HasRow, Typed, TypeOK
<1>3. CASE UNCHANGED lease
  BY <1>1, <1>3 DEF HasRow
<1>4. ASSUME NEW w \in Worker, Reap(w)
      PROVE  LiveStep
  <2>1. ASSUME NEW l \in Lease, ReapConsume(w, l)
        PROVE  LiveStep
    <3>1. StillExpired(l, ts[w]) => Expired(l, Now)
      BY EngineAssumption DEF StillExpired, Expired, Typed, TypeOK, LeaseRow, Now, Time
    <3>2. UNCHANGED lease \/ (lease' = [lease EXCEPT ![l] = NoLeaseRow] /\ Expired(l, Now))
      BY <2>1, <3>1 DEF ReapConsume
    <3>3. ASSUME NEW k \in Lease, HasRow(k), ~ Expired(k, Now)
          PROVE  lease'[k].task # None
      BY <3>2, <3>3, SMTT(30) DEF HasRow, Typed, TypeOK
    <3>. QED
      BY <3>3 DEF LiveStep
  <2>. QED
    BY <1>3, <1>4, <2>1 DEF Reap, ReapScan, ReapRead, ReapRequeue, ReapFailRun, rowVars
<1>5. ASSUME NEW w \in Worker, Claim(w)
      PROVE  LiveStep
  <2>1. ASSUME NEW c \in cand[w], NEW l \in Lease, ClaimLease(w, c, l)
        PROVE  LiveStep
    <3>1. c.task # None
      BY EngineAssumption DEF Typed, TypeOK, Candidate
    <3>. QED
      BY <1>1, <2>1, <3>1 DEF ClaimLease, HasRow, Typed, TypeOK
  <2>2. CASE ClaimDrop(w)
    BY <1>2, <2>2 DEF ClaimDrop
  <2>. QED
    BY <1>3, <1>5, <2>1, <2>2
    DEF Claim, ClaimScan, ClaimNothing, ClaimBury, BuryFailRun, ClaimTake, ClaimRunning, rowVars
<1>6. ASSUME NEW w \in Worker, Work(w)
      PROVE  LiveStep
  <2>1. CASE CompleteTask(w) \/ CommitFailed(w) \/ CommitNothing(w)
    BY <1>2, <1>3, <2>1 DEF CompleteTask, CommitFailed, CommitNothing
  <2>. QED
    BY <1>3, <1>6, <2>1
    DEF Work, Start, Execute, LeaseLost, Validate, CommitCompleted, CommitWaiting, CommitYielded,
        rowVars
<1>7. ASSUME NEW w \in Worker, Beat(w)
      PROVE  LiveStep
  BY <1>1, <1>7 DEF Beat, BeatRead, BeatFails, BeatWrite, HasRow, Typed, TypeOK, LeaseRow, rowVars
<1>8. CASE Tick
  BY <1>1, <1>8, AgedRows DEF Tick, HasRow, Typed, TypeOK
<1>. QED
  BY <1>3, <1>4, <1>5, <1>6, <1>7, <1>8
  DEF Next, StartRun, ContinueRun, EnqueueRun, Crash, rowVars, vars

\* A lease that has not expired is not taken away from its holder: a reaper deletes the
\* row only if it is still expired when the delete runs, late heartbeat or not.
THEOREM LiveLeasesAreSafe == Spec => LiveLeaseIsSafe
<1>1. Typed /\ [Next]_vars => [LiveStep]_vars
  BY RowStep
<1>2. Spec => [][LiveStep]_vars
  BY <1>1, TypedInit, TypedNext, PTL DEF Spec
<1>. QED
  BY <1>2 DEF LiveLeaseIsSafe, LiveStep

----------------------------------------------------------------------------
(* Recovery of leased tasks.                                               *)

\* A claim that has not taken its task yet, or lost the race for it, holds a lease that
\* no task names.
UntakenOK ==
  \A w \in Worker : pc[w] \in {"take", "drop"} =>
    \A t \in Task : task[t].lease # held[w].lease

\* w has created the row of its lease and has not marked the run running yet.
Claiming(w) == pc[w] \in {"take", "claimed"}

\* Nor does a heartbeat know the lease of a claim that has not ended.
UnbeatenOK ==
  \A v, w \in Worker : Claiming(w) => beat[v].lease # held[w].lease

\* The row of that lease is there, and good for the time of the claim and a lease.
FreshOK ==
  \A w \in Worker : Claiming(w) =>
    /\ lease[held[w].lease].task = held[w].task
    /\ lease[held[w].lease].expiresAt >= ts[w] + LeaseTtl

\* The reaper that is about to requeue t.
RequeuedBy(w, t) == Reaping(w) /\ held[w] = [lease |-> task[t].lease, task |-> t]

\* A task can be recovered from its row, or is about to be.
LeasedOK ==
  \A t \in Task : task[t].status = "leased" =>
    /\ task[t].lease \in Lease
    /\ lease[task[t].lease].task = t \/ \E w \in Worker : RequeuedBy(w, t)

\* What the bounds on crashes and on the length of a claim are needed for.
RecoverInv ==
  /\ LeaseInv /\ UntakenOK /\ UnbeatenOK
  /\ Prompt => FreshOK
  /\ crashes = 0 /\ Prompt => LeasedOK

LEMMA RecoverInit == Init => RecoverInv
<1>. SUFFICES ASSUME Init PROVE RecoverInv
  OBVIOUS
<1>1. \A t \in Task : task[t].status = "absent"
  BY Values DEF Init
<1>. QED
  BY <1>1, LeaseInvInit DEF Init, RecoverInv, UntakenOK, UnbeatenOK, FreshOK, LeasedOK, Claiming

\* A task that is leased, not by the step, keeps what makes it recoverable when the step
\* deletes no row of a lease it is leased under, and moves no reaper of it.
LEMMA LeasedKept ==
  ASSUME RecoverInv, crashes' = 0 => crashes = 0,
         \A t \in Task : task'[t].status = "leased" =>
           /\ task[t].status = "leased" /\ task'[t].lease = task[t].lease
           /\ lease[task[t].lease].task = t /\ task[t].lease \in Lease
                => \/ lease'[task[t].lease].task = t
                   \/ \E w \in Worker : RequeuedBy(w, t)'
           /\ \A w \in Worker : RequeuedBy(w, t) => RequeuedBy(w, t)'
  PROVE  crashes' = 0 /\ Prompt => LeasedOK'
BY DEF RecoverInv, LeasedOK

\* Reapers that stay where they are.
LEMMA RequeuerKept ==
  ASSUME NEW t \in Task, NEW w \in Worker, task'[t].lease = task[t].lease,
         pc'[w] = pc[w], held'[w] = held[w], RequeuedBy(w, t)
  PROVE  RequeuedBy(w, t)'
BY DEF RequeuedBy, Reaping

\* A step of w that neither touches tasks and rows nor leads to a claim in progress.
LEMMA QuietRecovery ==
  ASSUME RecoverInv, NEW w \in Worker, Reaping(w) => Reaping(w)' /\ held'[w] = held[w],
         \/ UNCHANGED <<pc, held, ts>>
         \/ /\ pc' = [pc EXCEPT ![w] = pc'[w]] /\ pc'[w] \notin {"take", "drop", "claimed"}
            /\ \A v \in Worker \ {w} : held'[v] = held[v] /\ ts'[v] = ts[v],
         UNCHANGED <<task, crashes>>, \A l \in Lease : lease'[l] = lease[l],
         \A v \in Worker : beat'[v].lease \in {None, beat[v].lease}
  PROVE  /\ UntakenOK' /\ UnbeatenOK'
         /\ Prompt => FreshOK'
         /\ crashes' = 0 /\ Prompt => LeasedOK'
<1>0. Typed
  BY DEF RecoverInv, LeaseInv
<1>1. \A v \in Worker : pc'[v] \in {"take", "drop", "claimed"} =>
        pc[v] = pc'[v] /\ held'[v] = held[v] /\ ts'[v] = ts[v] /\ held[v].lease \in Lease
  BY <1>0 DEF Typed, TypeOK, HeldOK, Owning, Reaping
<1>2. UntakenOK' /\ UnbeatenOK'
  BY <1>1, EngineAssumption DEF RecoverInv, UntakenOK, UnbeatenOK, Claiming
<1>3. Prompt => FreshOK'
  BY <1>1 DEF RecoverInv, FreshOK, Claiming
<1>4. \A v \in Worker, t \in Task : RequeuedBy(v, t) => RequeuedBy(v, t)'
  BY <1>0 DEF RequeuedBy, Typed, TypeOK, Reaping
<1>5. crashes' = 0 /\ Prompt => LeasedOK'
  BY <1>4, LeasedKept
<1>. QED BY <1>2, <1>3, <1>5

LEMMA EnqueueRecovery ==
  ASSUME RecoverInv, NEW r \in Run, NEW limit \in Nat, EnqueueRun(r, limit)
  PROVE  /\ UntakenOK' /\ UnbeatenOK'
         /\ Prompt => FreshOK'
         /\ crashes' = 0 /\ Prompt => LeasedOK'
<1>1. PICK u \in Task : /\ task[u].status = "absent"
                        /\ task' = [task EXCEPT ![u] = NewTask(r, limit)]
  BY DEF EnqueueRun, NewTaskId
<1>2. /\ NewTask(r, limit).lease = None /\ NewTask(r, limit).status = "pending"
      /\ \A t \in Task : t # u => task'[t] = task[t]
      /\ task'[u] = NewTask(r, limit)
  BY <1>1 DEF NewTask, AbsentTask, RecoverInv, LeaseInv, Typed, TypeOK
<1>3. UNCHANGED <<pc, held, ts, lease, beat, crashes>>
  BY DEF EnqueueRun, localVars
<1>4. UntakenOK'
  <2>1. \A w \in Worker : pc[w] \in {"take", "drop"} => held[w].lease # None
    BY EngineAssumption DEF RecoverInv, LeaseInv, Typed, HeldOK, Owning, Reaping
  <2>. QED
    BY <1>2, <1>3, <2>1 DEF RecoverInv, UntakenOK
<1>5. UnbeatenOK' /\ (Prompt => FreshOK')
  BY <1>3 DEF RecoverInv, UnbeatenOK, FreshOK, Claiming
<1>6. crashes' = 0 /\ Prompt => LeasedOK'
  BY <1>2, <1>3, LeasedKept, RequeuerKept
<1>. QED BY <1>4, <1>5, <1>6

\* Leases of claims in progress are out of every other worker's reach.
LEMMA OthersClaims ==
  ASSUME RecoverInv, NEW w \in Worker, NEW v \in Worker \ {w},
         pc[w] \in Owning, pc[v] \in {"take", "drop", "claimed"}
  PROVE  held[v].lease # held[w].lease
BY DEF RecoverInv, LeaseInv, DistinctOK, Owning

\* The rows of claims in progress have not expired for any reaper.
LEMMA ClaimIsGood ==
  ASSUME RecoverInv, Prompt, NEW w \in Worker, NEW v \in Worker,
         Claiming(v)
  PROVE  ~ StillExpired(held[v].lease, ts[w])
<1>1. /\ ts[w] \in 0..MaxStall /\ ts[v] \in 0..MaxStall /\ held[v].lease \in Lease
      /\ lease[held[v].lease].expiresAt \in Nat
  BY DEF RecoverInv, LeaseInv, Typed, TypeOK, HeldOK, Owning, LeaseRow, Time, Now, Reaping, Claiming
<1>2. lease[held[v].lease].expiresAt >= ts[v] + LeaseTtl
  BY DEF RecoverInv, FreshOK, Claiming
<1>. QED
  BY <1>1, <1>2, EngineAssumption DEF StillExpired, Prompt

LEMMA ReapRecovery ==
  ASSUME RecoverInv, NEW w \in Worker, Reap(w)
  PROVE  /\ UntakenOK' /\ UnbeatenOK'
         /\ Prompt => FreshOK'
         /\ crashes' = 0 /\ Prompt => LeasedOK'
<1>0. Typed
  BY DEF RecoverInv, LeaseInv
<1>1. CASE ReapScan(w)
  BY <1>0, <1>1, QuietRecovery DEF Reaping, ReapScan, Goto, rowVars, Typed, TypeOK
<1>2. ASSUME NEW l \in Lease, ReapConsume(w, l)
      PROVE  /\ UntakenOK' /\ UnbeatenOK'
             /\ Prompt => FreshOK'
             /\ crashes' = 0 /\ Prompt => LeasedOK'
  <2>1. CASE ~ StillExpired(l, ts[w])
    BY <1>0, <1>2, <2>1, QuietRecovery DEF Reaping, ReapConsume, Typed, TypeOK
  <2>2. CASE StillExpired(l, ts[w])
    <3>1. /\ pc[w] = "reap" /\ pc' = [pc EXCEPT ![w] = "requeue"]
          /\ held' = [held EXCEPT ![w] = [lease |-> l, task |-> lease[l].task]]
          /\ lease' = [lease EXCEPT ![l] = NoLeaseRow]
          /\ UNCHANGED <<task, ts, beat, crashes>>
      BY <1>2, <2>2 DEF ReapConsume, Goto
    <3>2. \A v \in Worker : /\ pc'[v] \in {"take", "drop", "claimed"} => pc[v] = pc'[v]
                            /\ v # w => pc'[v] = pc[v] /\ held'[v] = held[v]
      BY <1>0, <3>1 DEF Typed, TypeOK
    <3>3. UntakenOK' /\ UnbeatenOK'
      BY <3>1, <3>2 DEF RecoverInv, UntakenOK, UnbeatenOK, Claiming
    <3>4. ASSUME Prompt PROVE FreshOK'
      <4>1. \A v \in Worker : Claiming(v) => held[v].lease # l
        BY <2>2, <3>4, ClaimIsGood
      <4>. QED
        BY <1>0, <3>1, <3>2, <3>4, <4>1 DEF RecoverInv, FreshOK, Typed, TypeOK, Claiming
    <3>5. ASSUME NEW t \in Task, task[t].lease \in Lease, lease[task[t].lease].task = t
          PROVE  lease'[task[t].lease].task = t \/ RequeuedBy(w, t)'
      BY <1>0, <3>1, <3>5 DEF RequeuedBy, Typed, TypeOK, Reaping
    <3>6. \A t \in Task, v \in Worker : RequeuedBy(v, t) => RequeuedBy(v, t)'
      BY <1>0, <3>1 DEF RequeuedBy, Typed, TypeOK, Reaping
    <3>7. crashes' = 0 /\ Prompt => LeasedOK'
      BY <3>1, <3>5, <3>6, LeasedKept
    <3>. QED BY <3>3, <3>4, <3>7
  <2>. QED BY <2>1, <2>2
<1>3. CASE ReapRequeue(w)
  <2>. DEFINE t == held[w].task
  <2>1. /\ Reaping(w) /\ t \in Task /\ pc'[w] \in {"reap", "reapFailRun"}
        /\ UNCHANGED <<lease, ts, beat, crashes>>
        /\ \A v \in Worker \ {w} : pc'[v] = pc[v] /\ held'[v] = held[v]
    BY <1>0, <1>3, RequeueStep
  <2>2. /\ \A u \in Task : task'[u] = task[u] \/ (u = t /\ task'[u].lease = None)
        /\ LeasedUnder(t, held[w].lease) => task'[t].status # "leased"
        /\ ~ LeasedUnder(t, held[w].lease) => UNCHANGED task
    BY <1>0, <1>3, RequeueStep DEF Typed, TypeOK
  <2>3. UntakenOK' /\ UnbeatenOK' /\ (Prompt => FreshOK')
    <3>1. \A v \in Worker : pc[v] \in {"take", "drop"} => held[v].lease # None
      BY <1>0, EngineAssumption DEF Typed, HeldOK, Owning, Claiming
    <3>. QED
      BY <2>1, <2>2, <3>1 DEF RecoverInv, UntakenOK, UnbeatenOK, FreshOK, Claiming
  <2>4. ASSUME NEW u \in Task, task'[u].status = "leased"
        PROVE  /\ task[u].status = "leased" /\ task'[u].lease = task[u].lease
               /\ \A v \in Worker : RequeuedBy(v, u) => RequeuedBy(v, u)'
    <3>1. task'[u] = task[u] /\ ~ RequeuedBy(w, u)
      BY <2>1, <2>2, <2>4 DEF RequeuedBy, LeasedUnder
    <3>. QED
      BY <2>1, <2>4, <3>1 DEF RequeuedBy, Reaping
  <2>5. crashes' = 0 /\ Prompt => LeasedOK'
    BY <2>1, <2>4, LeasedKept
  <2>. QED BY <2>3, <2>5
<1>5. CASE ReapRead(w)
  BY <1>0, <1>5, QuietRecovery DEF ReapRead, Reaping, Goto, rowVars, Typed, TypeOK
<1>4. CASE ReapFailRun(w)
  BY <1>0, <1>4, QuietRecovery DEF Reaping, ReapFailRun, Goto, Typed, TypeOK
<1>. QED
  BY <1>1, <1>2, <1>3, <1>4, <1>5 DEF Reap

LEMMA ClaimRecovery ==
  ASSUME RecoverInv, NEW w \in Worker, Claim(w)
  PROVE  /\ UntakenOK' /\ UnbeatenOK'
         /\ Prompt => FreshOK'
         /\ crashes' = 0 /\ Prompt => LeasedOK'
<1>0. Typed
  BY DEF RecoverInv, LeaseInv
<1>1. CASE ClaimScan(w)
  BY <1>0, <1>1, QuietRecovery DEF Reaping, ClaimScan, Goto, rowVars, Typed, TypeOK
<1>2. CASE ClaimNothing(w)
  BY <1>0, <1>2, QuietRecovery DEF Reaping, ClaimNothing, Goto, rowVars, Typed, TypeOK
<1>3. ASSUME NEW c \in cand[w], ClaimBury(w, c)
      PROVE  /\ UntakenOK' /\ UnbeatenOK'
             /\ Prompt => FreshOK'
             /\ crashes' = 0 /\ Prompt => LeasedOK'
  <2>1. /\ pc[w] = "claim" /\ pc'[w] = "buryFailRun"
        /\ UNCHANGED <<lease, ts, beat, crashes>>
        /\ \A v \in Worker : v # w => pc'[v] = pc[v] /\ held'[v] = held[v]
    BY <1>0, <1>3 DEF ClaimBury, Goto, Typed, TypeOK
  <2>2. \A u \in Task : /\ task'[u].lease = task[u].lease
                        /\ task'[u].status = "leased" => task[u].status = "leased"
    <3>1. task' = task \/ task' = [task EXCEPT ![c.task].status = "dead"]
      BY <1>3 DEF ClaimBury
    <3>. QED
      BY <1>0, <3>1 DEF Typed, TypeOK, TaskRow
  <2>3. UntakenOK' /\ UnbeatenOK'
    BY <2>1, <2>2 DEF RecoverInv, UntakenOK, UnbeatenOK, Claiming
  <2>4. Prompt => FreshOK'
    BY <2>1 DEF RecoverInv, FreshOK, Claiming
  <2>5. \A u \in Task, v \in Worker : RequeuedBy(v, u) => RequeuedBy(v, u)'
    BY <2>1, <2>2 DEF RequeuedBy, Reaping
  <2>6. crashes' = 0 /\ Prompt => LeasedOK'
    BY <2>1, <2>2, <2>5, LeasedKept
  <2>. QED BY <2>3, <2>4, <2>6
<1>4. CASE BuryFailRun(w)
  BY <1>0, <1>4, QuietRecovery DEF Reaping, BuryFailRun, Goto, Typed, TypeOK
<1>5. ASSUME NEW c \in cand[w], NEW l \in Lease, ClaimLease(w, c, l)
      PROVE  /\ UntakenOK' /\ UnbeatenOK'
             /\ Prompt => FreshOK'
             /\ crashes' = 0 /\ Prompt => LeasedOK'
  <2>1. /\ pc[w] = "claim" /\ pc'[w] = "take" /\ held'[w] = [lease |-> l, task |-> c.task]
        /\ UNCHANGED <<task, ts, beat, crashes>>
        /\ \A v \in Worker : v # w => pc'[v] = pc[v] /\ held'[v] = held[v]
        /\ lease'[l] = [task |-> c.task, expiresAt |-> Expiry(ts[w])]
        /\ \A k \in Lease : k # l => lease'[k] = lease[k]
    BY <1>0, <1>5 DEF ClaimLease, Goto, Typed, TypeOK
  <2>2. /\ \A t \in Task : task[t].lease # l
        /\ \A v \in Worker : held[v].lease # l /\ beat[v].lease # l
    BY <1>5 DEF ClaimLease, NewLease, Fresh
  <2>3. UntakenOK' /\ UnbeatenOK'
    BY <2>1, <2>2 DEF RecoverInv, UntakenOK, UnbeatenOK, Claiming
  <2>4. ASSUME Prompt PROVE FreshOK'
    <3>1. \A v \in Worker : Claiming(v) => held[v].lease \in Lease /\ held[v].lease # l
      BY <1>0, <2>2 DEF Typed, HeldOK, Owning, Reaping, Claiming
    <3>2. Expiry(ts[w]) = ts[w] + LeaseTtl /\ ts[w] \in Nat
      BY <1>0, EngineAssumption DEF Expiry, Typed, TypeOK, Now
    <3>. QED
      BY <2>1, <2>4, <3>1, <3>2, EngineAssumption DEF RecoverInv, FreshOK, Claiming
  <2>5. \A u \in Task, v \in Worker : RequeuedBy(v, u) => RequeuedBy(v, u)'
    BY <2>1 DEF RequeuedBy, Reaping
  <2>6. crashes' = 0 /\ Prompt => LeasedOK'
    BY <2>1, <2>2, <2>5, LeasedKept
  <2>. QED BY <2>3, <2>4, <2>6
<1>6. CASE ClaimTake(w)
  <2>. DEFINE t == held[w].task
              l == held[w].lease
  <2>1. /\ pc[w] = "take" /\ t \in Task /\ l \in Lease /\ pc'[w] \in {"claimed", "drop"}
        /\ UNCHANGED <<lease, held, ts, beat, crashes>>
        /\ \A v \in Worker : v # w => pc'[v] = pc[v]
    BY <1>0, <1>6 DEF ClaimTake, Goto, Typed, TypeOK, HeldOK, Owning, Reaping, Claiming
  <2>2. UnbeatenOK'
    BY <2>1 DEF RecoverInv, UnbeatenOK, Claiming
  <2>3. Prompt => FreshOK'
    BY <2>1 DEF RecoverInv, FreshOK, Claiming
  <2>4. CASE StillPending(t)
    <3>1. PICK c \in Tried(w) :
            task' = [task EXCEPT ![t] = [@ EXCEPT !.status = "leased",
                       !.lease = held[w].lease, !.attempt = NextAttempt(c)]]
      BY <1>6, <2>4 DEF ClaimTake
    <3>2. /\ task'[t].lease = l /\ \A u \in Task : u # t => task'[u] = task[u]
          /\ pc'[w] = "claimed"
      <4>1. pc'[w] = "claimed"
        BY <1>0, <1>6, <2>1, <2>4 DEF ClaimTake, Goto, Typed, TypeOK
      <4>2. task[t] \in TaskRow
        BY <1>0, <2>1 DEF Typed, TypeOK
      <4>. QED
        BY <1>0, <2>1, <3>1, <4>1, <4>2 DEF Typed, TypeOK, TaskRow
    <3>3. UntakenOK'
      BY <2>1, <3>2, OthersClaims DEF RecoverInv, UntakenOK, Owning
    <3>4. ASSUME crashes' = 0, Prompt PROVE LeasedOK'
      <4>1. lease[l].task = t
        BY <2>1, <3>4 DEF RecoverInv, FreshOK, Claiming
      <4>2. \A u \in Task \ {t}, v \in Worker : RequeuedBy(v, u) => RequeuedBy(v, u)'
        BY <2>1, <3>2 DEF RequeuedBy, Reaping
      <4>. QED
        BY <2>1, <3>2, <3>4, <4>1, <4>2 DEF RecoverInv, LeasedOK
    <3>. QED BY <2>2, <2>3, <3>3, <3>4
  <2>5. CASE ~ StillPending(t)
    <3>1. UNCHANGED task
      BY <1>6, <2>5 DEF ClaimTake
    <3>2. UntakenOK'
      BY <2>1, <3>1 DEF RecoverInv, UntakenOK
    <3>3. \A u \in Task, v \in Worker : RequeuedBy(v, u) => RequeuedBy(v, u)'
      BY <2>1, <3>1 DEF RequeuedBy, Reaping
    <3>4. crashes' = 0 /\ Prompt => LeasedOK'
      BY <2>1, <3>1, <3>3, LeasedKept
    <3>. QED BY <2>2, <2>3, <3>2, <3>4
  <2>. QED BY <2>4, <2>5
<1>7. CASE ClaimDrop(w)
  <2>. DEFINE l == held[w].lease
  <2>1. /\ pc[w] = "drop" /\ l \in Lease /\ pc'[w] = "claim"
        /\ UNCHANGED <<task, ts, beat, crashes>>
        /\ \A v \in Worker : v # w => pc'[v] = pc[v] /\ held'[v] = held[v]
        /\ \A k \in Lease : k # l => lease'[k] = lease[k]
    BY <1>0, <1>7 DEF ClaimDrop, Goto, Typed, TypeOK, HeldOK, Owning, Reaping, Claiming
  <2>2. UntakenOK' /\ UnbeatenOK'
    BY <2>1 DEF RecoverInv, UntakenOK, UnbeatenOK, Claiming
  <2>3. ASSUME Prompt PROVE FreshOK'
    <3>1. \A v \in Worker \ {w} : Claiming(v) => held[v].lease \in Lease /\ held[v].lease # l
      BY <1>0, <2>1, OthersClaims DEF Typed, HeldOK, Owning, Reaping, Claiming
    <3>. QED
      BY <2>1, <2>3, <3>1 DEF RecoverInv, FreshOK, Claiming
  <2>4. \A t \in Task : task[t].lease # l
    BY <2>1 DEF RecoverInv, UntakenOK
  <2>5. \A u \in Task, v \in Worker : RequeuedBy(v, u) => RequeuedBy(v, u)'
    BY <2>1 DEF RequeuedBy, Reaping
  <2>6. crashes' = 0 /\ Prompt => LeasedOK'
    BY <2>1, <2>4, <2>5, LeasedKept
  <2>. QED BY <2>2, <2>3, <2>6
<1>8. CASE ClaimRunning(w)
  BY <1>0, <1>8, QuietRecovery DEF Reaping, ClaimRunning, Goto, Typed, TypeOK
<1>. QED
  BY <1>1, <1>2, <1>3, <1>4, <1>5, <1>6, <1>7, <1>8 DEF Claim

\* A terminal transaction that ends the lease of w, or finds it ended.
LEMMA CommitRecovery ==
  ASSUME RecoverInv, NEW w \in Worker, pc[w] = "write", EndTick(w),
         UNCHANGED <<ts, beat, crashes>>,
         \/ UNCHANGED lease
         \/ lease' = [lease EXCEPT ![held[w].lease] = NoLeaseRow],
         \A u \in Task : /\ task'[u].lease \in {None, task[u].lease}
                         /\ task'[u].status = "leased" => task'[u] = task[u],
         LeasedUnder(held[w].task, held[w].lease) => task'[held[w].task].status # "leased"
  PROVE  /\ UntakenOK' /\ UnbeatenOK'
         /\ Prompt => FreshOK'
         /\ crashes' = 0 /\ Prompt => LeasedOK'
<1>. DEFINE t == held[w].task
            l == held[w].lease
<1>0. Typed
  BY DEF RecoverInv, LeaseInv
<1>1. /\ t \in Task /\ l \in Lease /\ pc'[w] = "idle"
      /\ \A v \in Worker : v # w => pc'[v] = pc[v] /\ held'[v] = held[v]
      /\ \A k \in Lease : k # l => lease'[k] = lease[k]
  BY <1>0 DEF EndTick, Goto, Typed, TypeOK, HeldOK, Owning, Reaping, Claiming
<1>2. UntakenOK' /\ UnbeatenOK'
  <2>1. \A v \in Worker : pc[v] \in {"take", "drop"} => held[v].lease # None
    BY <1>0, EngineAssumption DEF Typed, HeldOK, Owning, Reaping, Claiming
  <2>. QED
    BY <1>1, <2>1 DEF RecoverInv, UntakenOK, UnbeatenOK, Claiming
<1>3. ASSUME Prompt PROVE FreshOK'
  <2>1. \A v \in Worker \ {w} : Claiming(v) => held[v].lease \in Lease /\ held[v].lease # l
    BY <1>0, OthersClaims DEF Typed, HeldOK, Owning, Reaping, Claiming
  <2>. QED
    BY <1>1, <1>3, <2>1 DEF RecoverInv, FreshOK, Claiming
<1>4. ASSUME crashes' = 0, Prompt PROVE LeasedOK'
  <2>. SUFFICES ASSUME NEW u \in Task, task'[u].status = "leased"
                PROVE  /\ task'[u].lease \in Lease
                       /\ \/ lease'[task'[u].lease].task = u
                          \/ \E v \in Worker : RequeuedBy(v, u)'
    BY DEF LeasedOK
  <2>1. task'[u] = task[u] /\ task[u].lease \in Lease
    BY <1>4 DEF RecoverInv, LeasedOK
  <2>2. CASE \E v \in Worker : RequeuedBy(v, u)
    <3>1. PICK v \in Worker : RequeuedBy(v, u)
      BY <2>2
    <3>2. v # w
      BY <3>1 DEF RequeuedBy, Reaping
    <3>. QED
      BY <1>1, <2>1, <3>1, <3>2 DEF RequeuedBy, Reaping
  <2>3. CASE lease[task[u].lease].task = u /\ task[u].lease # l
    BY <1>1, <2>1, <2>3
  <2>4. CASE lease[l].task = u /\ task[u].lease = l
    <3>1. HasRow(l)
      BY <2>4, EngineAssumption DEF HasRow
    <3>2. LeasedUnder(t, l)
      BY <3>1 DEF RecoverInv, LeaseInv, HoldOK, Holding
    <3>3. u # t
      BY <2>1, <3>2, <1>1
    <3>4. PICK v \in Worker : RequeuedBy(v, t)
      BY <1>1, <1>4, <2>4, <3>2, <3>3 DEF RecoverInv, LeasedOK, LeasedUnder
    <3>5. held[v].lease = l /\ Reaping(v)
      BY <3>2, <3>4 DEF RequeuedBy, LeasedUnder, Reaping
    <3>. QED
      BY <3>1, <3>5 DEF RecoverInv, LeaseInv, GoneOK, Reaping
  <2>. QED
    BY <1>4, <2>1, <2>2, <2>3, <2>4 DEF RecoverInv, LeasedOK
<1>. QED BY <1>2, <1>3, <1>4

LEMMA WorkRecovery ==
  ASSUME RecoverInv, NEW w \in Worker, Work(w)
  PROVE  /\ UntakenOK' /\ UnbeatenOK'
         /\ Prompt => FreshOK'
         /\ crashes' = 0 /\ Prompt => LeasedOK'
<1>0. Typed
  BY DEF RecoverInv, LeaseInv
<1>1. CASE Start(w)
  BY <1>0, <1>1, QuietRecovery DEF Reaping, Start, Goto, Typed, TypeOK
<1>2. ASSUME NEW o \in Outcome, Execute(w, o)
      PROVE  /\ UntakenOK' /\ UnbeatenOK'
             /\ Prompt => FreshOK'
             /\ crashes' = 0 /\ Prompt => LeasedOK'
  BY <1>0, <1>2, QuietRecovery DEF Reaping, Execute, Goto, rowVars, Typed, TypeOK
<1>3. CASE LeaseLost(w)
  BY <1>0, <1>3, QuietRecovery DEF Reaping, LeaseLost, Executing, EndTick, Goto, rowVars, Typed, TypeOK
<1>4. CASE Validate(w)
  BY <1>0, <1>4, QuietRecovery DEF Reaping, Validate, EndTick, Goto, rowVars, Typed, TypeOK
<1>5. CASE CompleteTask(w) /\ (CommitCompleted(w) \/ CommitWaiting(w) \/ CommitYielded(w))
  <2>. DEFINE done == [task[held[w].task] EXCEPT !.status = "completed"]
              next == NewTask(RunOf(w), DefaultMaxAttempts)
  <2>1. /\ held[w].task \in Task /\ task[held[w].task] \in TaskRow
        /\ task[held[w].task].status = "leased"
    BY <1>0, <1>5, CompleteTyped
  <2>2. done.status = "completed" /\ done.lease = task[held[w].task].lease
    BY <2>1 DEF TaskRow
  <2>3. next.status = "pending" /\ next.lease = None
    BY DEF NewTask, AbsentTask
  <2>4. \/ task' = [task EXCEPT ![held[w].task] = done]
        \/ \E u \in Task : /\ task[u].status = "absent"
                           /\ task' = [task EXCEPT ![held[w].task] = done, ![u] = next]
    BY <1>0, <1>5, <2>1 DEF CommitCompleted, CommitWaiting, CommitYielded, NewTaskId, Typed, TypeOK
  <2>. HIDE DEF done, next
  <2>5. /\ \A u \in Task : /\ task'[u].lease \in {None, task[u].lease}
                           /\ task'[u].status = "leased" => task'[u] = task[u]
        /\ task'[held[w].task].status # "leased"
    BY <1>0, <2>1, <2>2, <2>3, <2>4 DEF Typed, TypeOK
  <2>. QED
    BY <1>5, <2>5, CommitRecovery DEF CompleteTask
<1>6. CASE CommitFailed(w)
  <2>. DEFINE t == held[w].task
  <2>1. t \in Task /\ task[t] \in TaskRow
    BY <1>0, <1>6 DEF CommitFailed, Typed, TypeOK, HeldOK, Owning, Reaping, Claiming
  <2>2. Released(task[t], Now).lease = None /\ Released(task[t], Now).status # "leased"
    BY <2>1, TimeRange, ReleasedRow
  <2>3. task' = [task EXCEPT ![t] = Released(task[t], Now)]
    BY <1>0, <1>6, <2>1 DEF CommitFailed, Typed, TypeOK
  <2>4. /\ \A u \in Task : /\ task'[u].lease \in {None, task[u].lease}
                           /\ task'[u].status = "leased" => task'[u] = task[u]
        /\ task'[t].status # "leased"
    BY <1>0, <2>1, <2>2, <2>3 DEF Typed, TypeOK
  <2>. QED
    BY <1>6, <2>4, CommitRecovery DEF CommitFailed
<1>7. CASE CommitNothing(w)
  BY <1>7, CommitRecovery DEF CommitNothing
<1>. QED
  BY <1>1, <1>2, <1>3, <1>4, <1>5, <1>6, <1>7
  DEF Work, CommitCompleted, CommitWaiting, CommitYielded

LEMMA BeatRecovery ==
  ASSUME RecoverInv, NEW w \in Worker, Beat(w)
  PROVE  /\ UntakenOK' /\ UnbeatenOK'
         /\ Prompt => FreshOK'
         /\ crashes' = 0 /\ Prompt => LeasedOK'
<1>0. Typed
  BY DEF RecoverInv, LeaseInv
<1>1. CASE BeatRead(w)
  <2>1. /\ pc[w] \in {"start", "exec"} /\ UNCHANGED <<task, lease, pc, ts, held, crashes>>
        /\ beat'[w].lease = held[w].lease
        /\ \A v \in Worker : v # w => beat'[v] = beat[v]
    BY <1>0, <1>1 DEF BeatRead, Executing, rowVars, localVars, Typed, TypeOK
  <2>2. UnbeatenOK'
    BY <2>1, OthersClaims DEF RecoverInv, UnbeatenOK, Owning, Claiming
  <2>3. UntakenOK' /\ (Prompt => FreshOK')
    BY <2>1 DEF RecoverInv, UntakenOK, FreshOK, Claiming
  <2>4. crashes' = 0 /\ Prompt => LeasedOK'
    BY <2>1, LeasedKept DEF RequeuedBy, Reaping
  <2>. QED BY <2>2, <2>3, <2>4
<1>2. CASE BeatFails(w)
  BY <1>0, <1>2, QuietRecovery DEF Reaping, BeatFails, rowVars
<1>3. CASE BeatWrite(w)
  <2>. DEFINE l == beat[w].lease
  <2>1. /\ UNCHANGED <<task, pc, ts, held, crashes>>
        /\ beat'[w].lease = None /\ \A v \in Worker : v # w => beat'[v] = beat[v]
        /\ \A k \in Lease : lease'[k].task = lease[k].task /\ (k # l => lease'[k] = lease[k])
    BY <1>0, <1>3 DEF BeatWrite, NoBeat, Typed, TypeOK, LeaseRow
  <2>2. UntakenOK' /\ UnbeatenOK'
    <3>1. \A v \in Worker : Claiming(v) => held[v].lease # None
      BY <1>0, EngineAssumption DEF Typed, HeldOK, Owning, Reaping, Claiming
    <3>. QED
      BY <2>1, <3>1 DEF RecoverInv, UntakenOK, UnbeatenOK, Claiming
  <2>3. ASSUME Prompt PROVE FreshOK'
    <3>1. \A v \in Worker : Claiming(v) => held[v].lease \in Lease /\ held[v].lease # l
      BY <1>0 DEF RecoverInv, UnbeatenOK, Typed, HeldOK, Owning, Reaping, Claiming
    <3>. QED
      BY <2>1, <2>3, <3>1 DEF RecoverInv, FreshOK, Claiming
  <2>4. crashes' = 0 /\ Prompt => LeasedOK'
    BY <2>1, LeasedKept DEF RequeuedBy, Reaping
  <2>. QED BY <2>2, <2>3, <2>4
<1>. QED BY <1>1, <1>2, <1>3 DEF Beat

LEMMA CrashRecovery ==
  ASSUME RecoverInv, NEW w \in Worker, Crash(w)
  PROVE  /\ UntakenOK' /\ UnbeatenOK'
         /\ Prompt => FreshOK'
         /\ crashes' = 0 /\ Prompt => LeasedOK'
<1>0. Typed
  BY DEF RecoverInv, LeaseInv
<1>1. /\ UNCHANGED <<task, lease>> /\ pc'[w] = "idle" /\ beat'[w].lease = None
      /\ \A v \in Worker : v # w => /\ pc'[v] = pc[v] /\ held'[v] = held[v]
                                   /\ ts'[v] = ts[v] /\ beat'[v] = beat[v]
  BY <1>0 DEF Crash, EndTick, Goto, rowVars, NoBeat, Typed, TypeOK
<1>2. UntakenOK' /\ UnbeatenOK'
  <2>1. \A v \in Worker : Claiming(v) => held[v].lease # None
    BY <1>0, EngineAssumption DEF Typed, HeldOK, Owning, Reaping, Claiming
  <2>. QED
    BY <1>1, <2>1 DEF RecoverInv, UntakenOK, UnbeatenOK, Claiming
<1>3. Prompt => FreshOK'
  BY <1>1 DEF RecoverInv, FreshOK, Claiming
<1>4. crashes' # 0
  BY <1>0 DEF Crash, Typed, TypeOK
<1>. QED BY <1>2, <1>3, <1>4

LEMMA TickRecovery ==
  ASSUME RecoverInv, Tick
  PROVE  /\ UntakenOK' /\ UnbeatenOK'
         /\ Prompt => FreshOK'
         /\ crashes' = 0 /\ Prompt => LeasedOK'
<1>0. Typed
  BY DEF RecoverInv, LeaseInv
<1>1. /\ \A k \in Lease : lease'[k].task = lease[k].task
      /\ \A t \in Task : task'[t].status = task[t].status /\ task'[t].lease = task[t].lease
      /\ \A v \in Worker : beat'[v].lease = beat[v].lease
      /\ UNCHANGED <<pc, held, crashes>>
  <2>1. \A k \in Lease : lease'[k].task = lease[k].task
    BY <1>0, AgedRows DEF Tick, Typed, TypeOK
  <2>2. \A t \in Task : task'[t].status = task[t].status /\ task'[t].lease = task[t].lease
    BY <1>0, AgedRows DEF Tick, Typed, TypeOK
  <2>3. \A v \in Worker : beat'[v].lease = beat[v].lease
    BY <1>0 DEF Tick, Typed, TypeOK, BeatRow
  <2>. QED BY <2>1, <2>2, <2>3 DEF Tick
<1>2. UntakenOK' /\ UnbeatenOK'
  BY <1>1 DEF RecoverInv, UntakenOK, UnbeatenOK, Claiming
<1>3. ASSUME Prompt PROVE FreshOK'
  <2>. SUFFICES ASSUME NEW v \in Worker, Claiming(v)
                PROVE  lease'[held[v].lease].expiresAt >= ts'[v] + LeaseTtl
    BY <1>0, <1>1, <1>3 DEF RecoverInv, FreshOK, Typed, HeldOK, Owning, Reaping, Claiming
  <2>1. /\ held[v].lease \in Lease /\ lease[held[v].lease] \in LeaseRow
        /\ lease[held[v].lease].expiresAt \in Nat /\ ts[v] \in Nat /\ LeaseTtl \in Nat
    BY <1>0, EngineAssumption DEF Typed, TypeOK, HeldOK, Owning, LeaseRow, Time, Now, Reaping, Claiming
  <2>2. lease[held[v].lease].expiresAt >= ts[v] + LeaseTtl /\ ts[v] > 0
    BY <1>3 DEF RecoverInv, FreshOK, Tick, UsesTs, Claiming
  <2>3. /\ lease'[held[v].lease].expiresAt = Older(lease[held[v].lease].expiresAt)
        /\ ts'[v] = Older(ts[v])
    BY <2>1 DEF Tick, LeaseRow
  <2>. QED
    BY <2>1, <2>2, <2>3 DEF Older
<1>4. crashes' = 0 /\ Prompt => LeasedOK'
  BY <1>1, LeasedKept DEF RequeuedBy, Reaping
<1>. QED BY <1>2, <1>3, <1>4

LEMMA RecoverNext == RecoverInv /\ [Next]_vars => RecoverInv'
<1>. SUFFICES ASSUME RecoverInv, [Next]_vars PROVE RecoverInv'
  OBVIOUS
<1>0. LeaseInv'
  BY LeaseInvNext DEF RecoverInv
<1>1. ASSUME NEW r \in Run, NEW limit \in Nat, EnqueueRun(r, limit) PROVE RecoverInv'
  BY <1>0, <1>1, EnqueueRecovery DEF RecoverInv
<1>2. ASSUME NEW w \in Worker, Reap(w) \/ Claim(w) \/ Work(w) \/ Beat(w) \/ Crash(w)
      PROVE  RecoverInv'
  BY <1>0, <1>2, ReapRecovery, ClaimRecovery, WorkRecovery, BeatRecovery, CrashRecovery
  DEF RecoverInv
<1>3. CASE Tick
  BY <1>0, <1>3, TickRecovery DEF RecoverInv
<1>4. CASE UNCHANGED vars
  <2>1. UNCHANGED <<task, lease, pc, ts, held, beat, crashes>>
    BY <1>4 DEF vars
  <2>2. UntakenOK' /\ UnbeatenOK' /\ (Prompt => FreshOK')
    BY <2>1 DEF RecoverInv, UntakenOK, UnbeatenOK, FreshOK, Claiming
  <2>3. crashes' = 0 /\ Prompt => LeasedOK'
    BY <2>1, LeasedKept DEF RequeuedBy, Reaping
  <2>. QED BY <1>0, <2>2, <2>3 DEF RecoverInv
<1>. QED
  BY <1>1, <1>2, <1>3, <1>4, EngineAssumption
  DEF Next, StartRun, ContinueRun, DefaultMaxAttempts

\* As long as no worker has crashed, and no claim takes as long as a lease lasts, every
\* leased task has its row, for the reaper to find, or a reaper about to requeue it.
THEOREM LeasedTasksAreRecoverable == Spec => []LeasedTaskIsRecoverable
<1>1. RecoverInv => LeasedTaskIsRecoverable
  BY DEF RecoverInv, LeasedOK, RequeuedBy, LeasedTaskIsRecoverable, Reaping
<1>. QED
  BY <1>1, RecoverInit, RecoverNext, PTL DEF Spec

----------------------------------------------------------------------------
(* The verdict of a reaper.                                                *)

\* As long as claims are prompt, the reaper that is about to give a task another
\* attempt finds attempts left, although it counted them in an earlier statement.
VerdictOK ==
  Prompt =>
    \A w \in Worker :
      pc[w] = "reapRetry" /\ LeasedUnder(held[w].task, held[w].lease)
        => ~ UsedUp(task[held[w].task])

VerdictInv == RecoverInv /\ VerdictOK

\* No task is leased anew, and no leased one counts another attempt.
Unclaimed ==
  \A t \in Task : task'[t].status = "leased" =>
    /\ task[t].status = "leased" /\ task'[t].lease = task[t].lease
    /\ task'[t].attempt = task[t].attempt /\ task'[t].maxAttempts = task[t].maxAttempts

\* The verdicts that were reached before the step.
VerdictsStand ==
  \A w \in Worker : pc'[w] = "reapRetry" => pc[w] = "reapRetry" /\ held'[w] = held[w]

LEMMA VerdictKept ==
  ASSUME VerdictInv, Unclaimed, VerdictsStand
  PROVE  VerdictOK'
<1>1. \A w \in Worker : pc[w] = "reapRetry" => held[w].task \in Task
  BY DEF VerdictInv, RecoverInv, LeaseInv, Typed, HeldOK, Reaping
<1>. QED
  BY <1>1 DEF VerdictInv, VerdictOK, Unclaimed, VerdictsStand, LeasedUnder, UsedUp

\* The lease of a claim in progress was consumed by no reaper.
LEMMA ReapersAreElsewhere ==
  ASSUME RecoverInv, Prompt, NEW v \in Worker, NEW w \in Worker, Reaping(v), Claiming(w)
  PROVE  held[v].lease # held[w].lease
<1>1. held[w].task \in Task
  BY DEF RecoverInv, LeaseInv, Typed, HeldOK, Owning, Claiming
<1>. QED
  BY <1>1, EngineAssumption DEF RecoverInv, LeaseInv, GoneOK, FreshOK, HasRow

LEMMA ReapVerdict ==
  ASSUME VerdictInv, NEW w \in Worker, Reap(w)
  PROVE  VerdictOK'
<1>0. Typed
  BY DEF VerdictInv, RecoverInv, LeaseInv
<1>1. CASE ReapRead(w)
  <2>1. /\ UNCHANGED <<task, held>> /\ \A v \in Worker \ {w} : pc'[v] = pc[v]
        /\ pc'[w] = "reapRetry" => ~ UsedUp(task[held[w].task])
    BY <1>0, <1>1 DEF ReapRead, Goto, rowVars, Typed, TypeOK
  <2>. QED
    BY <2>1 DEF VerdictInv, VerdictOK, LeasedUnder, UsedUp
<1>2. CASE ReapRequeue(w)
  <2>1. VerdictsStand
    BY <1>0, <1>2, RequeueStep DEF VerdictsStand
  <2>2. Unclaimed
    BY <1>0, <1>2, RequeueStep DEF Unclaimed, Typed, TypeOK
  <2>. QED BY <2>1, <2>2, VerdictKept
<1>3. CASE UNCHANGED task /\ VerdictsStand
  BY <1>3, VerdictKept DEF Unclaimed
<1>. QED
  BY <1>0, <1>1, <1>2, <1>3
  DEF Reap, ReapScan, ReapConsume, ReapFailRun, Goto, rowVars, VerdictsStand, Typed, TypeOK

LEMMA ClaimVerdict ==
  ASSUME VerdictInv, NEW w \in Worker, Claim(w)
  PROVE  VerdictOK'
<1>0. Typed
  BY DEF VerdictInv, RecoverInv, LeaseInv
<1>1. VerdictsStand
  BY <1>0
  DEF Claim, ClaimScan, ClaimNothing, ClaimBury, BuryFailRun, ClaimLease, ClaimTake, ClaimDrop,
      ClaimRunning, Goto, rowVars, VerdictsStand, Typed, TypeOK
<1>2. CASE ClaimTake(w) /\ StillPending(held[w].task)
  <2>. DEFINE t == held[w].task
  <2>1. /\ t \in Task /\ Claiming(w)
        /\ \A u \in Task : u # t => task'[u] = task[u]
        /\ task'[t].lease = held[w].lease
    <3>1. t \in Task /\ Claiming(w)
      BY <1>0, <1>2 DEF ClaimTake, Claiming, Typed, HeldOK, Owning
    <3>2. PICK c \in Tried(w) :
            task' = [task EXCEPT ![t] = [@ EXCEPT !.status = "leased",
                       !.lease = held[w].lease, !.attempt = NextAttempt(c)]]
      BY <1>2 DEF ClaimTake
    <3>3. task[t] \in TaskRow
      BY <1>0, <3>1 DEF Typed, TypeOK
    <3>. QED
      BY <1>0, <3>1, <3>2, <3>3 DEF Typed, TypeOK, TaskRow
  <2>. SUFFICES ASSUME Prompt, NEW v \in Worker, pc'[v] = "reapRetry",
                       LeasedUnder(held[v].task, held[v].lease)'
                PROVE  ~ UsedUp(task[held[v].task])'
    BY DEF VerdictOK
  <2>2. pc[v] = "reapRetry" /\ held'[v] = held[v] /\ held[v].task \in Task
    BY <1>0, <1>1 DEF VerdictsStand, Typed, HeldOK, Reaping
  <2>3. held[v].lease # held[w].lease
    BY <2>1, <2>2, ReapersAreElsewhere DEF VerdictInv, Reaping
  <2>4. held[v].task # t
    BY <2>1, <2>2, <2>3 DEF LeasedUnder
  <2>. QED
    BY <2>1, <2>2, <2>4 DEF VerdictInv, VerdictOK, LeasedUnder, UsedUp
<1>3. ASSUME NEW c \in cand[w], ClaimBury(w, c) PROVE VerdictOK'
  <2>1. Unclaimed
    BY <1>0, <1>3 DEF ClaimBury, StillPending, Unclaimed, Typed, TypeOK, Candidate, TaskRow
  <2>. QED BY <1>1, <2>1, VerdictKept
<1>4. CASE UNCHANGED task
  BY <1>1, <1>4, VerdictKept DEF Unclaimed
<1>. QED
  BY <1>2, <1>3, <1>4
  DEF Claim, ClaimScan, ClaimNothing, BuryFailRun, ClaimLease, ClaimTake, ClaimDrop,
      ClaimRunning, rowVars

LEMMA WorkVerdict ==
  ASSUME VerdictInv, NEW w \in Worker, Work(w)
  PROVE  VerdictOK'
<1>0. Typed
  BY DEF VerdictInv, RecoverInv, LeaseInv
<1>1. VerdictsStand
  BY <1>0
  DEF Work, Start, Execute, LeaseLost, Validate, CommitCompleted, CommitWaiting, CommitYielded,
      CompleteTask, CommitFailed, CommitNothing, EndTick, Goto, rowVars, VerdictsStand, Typed, TypeOK
<1>2. CASE CommitCompleted(w) \/ CommitWaiting(w) \/ CommitYielded(w)
  <2>. DEFINE done == [task[held[w].task] EXCEPT !.status = "completed"]
              next == NewTask(RunOf(w), DefaultMaxAttempts)
  <2>1. /\ held[w].task \in Task
        /\ done.status = "completed" /\ next.status = "pending"
    BY <1>0, <1>2, CompleteTyped
    DEF CommitCompleted, CommitWaiting, CommitYielded, NewTask, AbsentTask
  <2>2. \/ task' = [task EXCEPT ![held[w].task] = done]
        \/ \E u \in Task : /\ task[u].status = "absent"
                           /\ task' = [task EXCEPT ![held[w].task] = done, ![u] = next]
    BY <1>0, <1>2, <2>1 DEF CommitCompleted, CommitWaiting, CommitYielded, NewTaskId, Typed, TypeOK
  <2>. HIDE DEF done, next
  <2>3. Unclaimed
    BY <1>0, <2>1, <2>2 DEF Unclaimed, Typed, TypeOK
  <2>. QED BY <1>1, <2>3, VerdictKept
<1>3. CASE CommitFailed(w)
  <2>. DEFINE t == held[w].task
  <2>1. t \in Task /\ task[t] \in TaskRow
    BY <1>0, <1>3 DEF CommitFailed, Typed, TypeOK, HeldOK, Owning
  <2>2. Released(task[t], Now).status # "leased"
    BY <2>1, ReleasedRow, TimeRange
  <2>3. task' = [task EXCEPT ![t] = Released(task[t], Now)]
    BY <1>0, <1>3, <2>1 DEF CommitFailed, Typed, TypeOK
  <2>4. Unclaimed
    BY <1>0, <2>1, <2>2, <2>3 DEF Unclaimed, Typed, TypeOK
  <2>. QED BY <1>1, <2>4, VerdictKept
<1>4. CASE UNCHANGED task
  BY <1>1, <1>4, VerdictKept DEF Unclaimed
<1>. QED
  BY <1>2, <1>3, <1>4
  DEF Work, Start, Execute, LeaseLost, Validate, CommitNothing, rowVars

LEMMA VerdictInit == Init => VerdictInv
BY RecoverInit DEF Init, VerdictInv, VerdictOK

LEMMA VerdictNext == VerdictInv /\ [Next]_vars => VerdictInv'
<1>. SUFFICES ASSUME VerdictInv, [Next]_vars PROVE VerdictInv'
  OBVIOUS
<1>0. Typed /\ RecoverInv'
  BY RecoverNext DEF VerdictInv, RecoverInv, LeaseInv
<1>1. ASSUME NEW r \in Run, NEW limit \in Nat, EnqueueRun(r, limit) PROVE VerdictOK'
  <2>1. PICK t \in Task : task' = [task EXCEPT ![t] = NewTask(r, limit)]
    BY <1>1 DEF EnqueueRun, NewTaskId
  <2>2. Unclaimed
    BY <1>0, <2>1, NewTaskRow DEF Unclaimed, Typed, TypeOK
  <2>3. VerdictsStand
    BY <1>1 DEF EnqueueRun, localVars, VerdictsStand
  <2>. QED BY <2>2, <2>3, VerdictKept
<1>2. ASSUME NEW w \in Worker, Beat(w) \/ Crash(w) PROVE VerdictOK'
  <2>1. UNCHANGED task /\ VerdictsStand
    BY <1>0, <1>2 DEF Beat, BeatRead, BeatFails, BeatWrite, Crash, EndTick, Goto, rowVars,
                      localVars, VerdictsStand, Typed, TypeOK
  <2>. QED BY <2>1, VerdictKept DEF Unclaimed
<1>3. ASSUME Tick PROVE VerdictOK'
  <2>1. \A t \in Task :
          /\ task'[t].status = task[t].status /\ task'[t].lease = task[t].lease
          /\ task'[t].attempt = task[t].attempt /\ task'[t].maxAttempts = task[t].maxAttempts
    BY <1>0, <1>3, AgedRows DEF Tick, Typed, TypeOK
  <2>2. Unclaimed
    BY <2>1 DEF Unclaimed
  <2>3. VerdictsStand
    BY <1>3 DEF Tick, VerdictsStand
  <2>. QED BY <2>2, <2>3, VerdictKept
<1>4. ASSUME UNCHANGED vars PROVE VerdictOK'
  BY <1>4, VerdictKept DEF vars, Unclaimed, VerdictsStand
<1>. QED
  BY <1>0, <1>1, <1>2, <1>3, <1>4, ReapVerdict, ClaimVerdict, WorkVerdict, EngineAssumption
  DEF Next, StartRun, ContinueRun, DefaultMaxAttempts, VerdictInv

----------------------------------------------------------------------------
(* Runs and their tasks.                                                   *)

\* A run with a dead task has nothing left to do.
DeadIsLast ==
  \A t, u \in Task : task[t].status = "dead" /\ Live(u) => task[t].run # task[u].run

\* As long as claims are prompt, a pending task has attempts left, unless it was enqueued
\* with none; such a task is never taken.
AttemptsOK ==
  Prompt =>
    \A t \in Task :
      IF task[t].maxAttempts = 0
      THEN task[t].status \in {"absent", "pending", "dead"}
      ELSE task[t].status = "pending" => task[t].attempt < task[t].maxAttempts

TaskInv == OneLiveTask /\ DeadIsLast /\ AttemptsOK

\* What no step changes of a task that exists, and that no task comes back to life, or
\* dies twice.
Kept ==
  \A t \in Task :
    /\ task[t].status # "absent" => /\ task'[t].status # "absent"
                                    /\ task'[t].run = task[t].run
                                    /\ task'[t].maxAttempts = task[t].maxAttempts
    /\ task[t].status = "dead" => task'[t].status = "dead"
    /\ Live(t)' => Live(t) \/ task[t].status = "absent"
    /\ task'[t].status = "dead" => Live(t) \/ task[t].status = "dead"

\* The steps that leave every column but dueAt alone.
LEMMA KeepShape ==
  ASSUME Typed, TaskInv,
         \A t \in Task : /\ task'[t].status = task[t].status /\ task'[t].run = task[t].run
                         /\ task'[t].attempt = task[t].attempt
                         /\ task'[t].maxAttempts = task[t].maxAttempts
  PROVE  TaskInv' /\ Kept
BY DEF TaskInv, OneLiveTask, DeadIsLast, AttemptsOK, Kept, Live

\* The steps that change one task into a row of the same run.
LEMMA ChangeShape ==
  ASSUME Typed, TaskInv, NEW t \in Task, NEW row \in TaskRow,
         task' = [task EXCEPT ![t] = row],
         Live(t), row.run = task[t].run, row.maxAttempts = task[t].maxAttempts,
         row.status # "absent",
         Prompt => IF row.maxAttempts = 0
                   THEN row.status \in {"pending", "dead"}
                   ELSE row.status = "pending" => row.attempt < row.maxAttempts
  PROVE  TaskInv' /\ Kept
<1>1. /\ task'[t] = row
      /\ \A u \in Task : u # t => task'[u] = task[u]
  BY DEF Typed, TypeOK
<1>2. OneLiveTask'
  BY <1>1 DEF TaskInv, OneLiveTask, Live
<1>3. DeadIsLast'
  BY <1>1 DEF TaskInv, OneLiveTask, DeadIsLast, Live
<1>4. AttemptsOK'
  BY <1>1 DEF TaskInv, AttemptsOK
<1>5. Kept
  BY <1>1 DEF Kept, Live
<1>. QED BY <1>2, <1>3, <1>4, <1>5 DEF TaskInv

\* The first task of a run.
LEMMA FirstShape ==
  ASSUME Typed, TaskInv, NEW t \in Task, NEW r \in Run, NEW limit \in Nat,
         task[t].status = "absent",
         \A u \in Task : task[u].status # "absent" => task[u].run # r,
         task' = [task EXCEPT ![t] = NewTask(r, limit)]
  PROVE  TaskInv' /\ Kept
<1>1. /\ task'[t].status = "pending" /\ task'[t].run = r /\ task'[t].attempt = 0
      /\ task'[t].maxAttempts = limit
      /\ \A u \in Task : u # t => task'[u] = task[u]
  BY NewTaskRow DEF Typed, TypeOK
<1>2. OneLiveTask' /\ DeadIsLast'
  BY <1>1 DEF TaskInv, OneLiveTask, DeadIsLast, Live
<1>3. AttemptsOK'
  BY <1>1 DEF TaskInv, AttemptsOK
<1>4. Kept
  BY <1>1 DEF Kept, Live
<1>. QED BY <1>2, <1>3, <1>4 DEF TaskInv

\* A slice that yields to the next task of its run.
LEMMA YieldShape ==
  ASSUME Typed, TaskInv, NEW t \in Task, NEW u \in Task, NEW r \in Run, NEW limit \in Nat \ {0},
         task[t].status = "leased", task[t].run = r, task[u].status = "absent",
         task' = [task EXCEPT ![t].status = "completed", ![u] = NewTask(r, limit)]
  PROVE  TaskInv' /\ Kept
<1>. DEFINE done == [task[t] EXCEPT !.status = "completed"]
            next == NewTask(r, limit)
<1>1. t # u
  OBVIOUS
<1>2. /\ done.status = "completed" /\ done.run = r /\ done.maxAttempts = task[t].maxAttempts
      /\ next.status = "pending" /\ next.run = r /\ next.attempt = 0
      /\ next.maxAttempts = limit
  <2>1. task[t] \in TaskRow /\ "completed" \in TaskStatus
    BY DEF Typed, TypeOK, TaskStatus
  <2>2. done.status = "completed" /\ done.run = r /\ done.maxAttempts = task[t].maxAttempts
    BY <2>1, StatusRow
  <2>3. next.status = "pending" /\ next.run = r /\ next.attempt = 0 /\ next.maxAttempts = limit
    BY NewTaskRow
  <2>. QED BY <2>2, <2>3
<1>3. task'[t] = done /\ task'[u] = next /\ \A v \in Task \ {t, u} : task'[v] = task[v]
  BY <1>1 DEF Typed, TypeOK
<1>. HIDE DEF done, next
<1>4. /\ Live(t) /\ ~ Live(t)' /\ task'[t].status # "dead"
      /\ \A v \in Task \ {t} : Live(v) => task[v].run # r
      /\ \A v \in Task : task[v].status = "dead" => task[v].run # r
  BY <1>2, <1>3 DEF Live, TaskInv, OneLiveTask, DeadIsLast
<1>5. /\ task'[u].run = r /\ task'[u].status = "pending"
      /\ \A v \in Task \ {t, u} : Live(v)' => Live(v) /\ task'[v].run # r
      /\ \A v \in Task : task'[v].status = "dead" =>
                           v \in Task \ {t, u} /\ task[v].status = "dead" /\ task'[v].run # r
  BY <1>2, <1>3, <1>4 DEF Live
<1>6. OneLiveTask'
  <2>. SUFFICES ASSUME NEW v \in Task, NEW x \in Task, v # x, Live(v)', Live(x)'
                PROVE  task'[v].run # task'[x].run
    BY DEF OneLiveTask
  <2>1. v # t /\ x # t
    BY <1>4
  <2>2. CASE v = u \/ x = u
    BY <1>5, <2>1, <2>2
  <2>3. CASE v # u /\ x # u
    BY <1>3, <1>5, <2>1, <2>3, ZenonT(60) DEF TaskInv, OneLiveTask
  <2>. QED
    BY <2>2, <2>3
<1>7. DeadIsLast'
  <2>. SUFFICES ASSUME NEW v \in Task, NEW x \in Task, task'[v].status = "dead", Live(x)'
                PROVE  task'[v].run # task'[x].run
    BY DEF DeadIsLast
  <2>1. x # t
    BY <1>4
  <2>2. CASE x = u
    BY <1>5, <2>2
  <2>3. CASE x # u
    BY <1>3, <1>5, <2>1, <2>3, ZenonT(60) DEF TaskInv, DeadIsLast
  <2>. QED
    BY <2>2, <2>3
<1>8. AttemptsOK'
  <2>. SUFFICES ASSUME Prompt, NEW v \in Task
                PROVE  IF task'[v].maxAttempts = 0
                       THEN task'[v].status \in {"absent", "pending", "dead"}
                       ELSE task'[v].status = "pending" => task'[v].attempt < task'[v].maxAttempts
    BY DEF AttemptsOK
  <2>1. CASE v = t
    BY <1>2, <1>3, <2>1 DEF TaskInv, AttemptsOK
  <2>2. CASE v = u
    BY <1>2, <1>3, <2>2
  <2>3. CASE v # t /\ v # u
    BY <1>3, <2>3 DEF TaskInv, AttemptsOK
  <2>. QED
    BY <2>1, <2>2, <2>3
<1>9. Kept
  BY <1>2, <1>3 DEF Kept, Live
<1>. QED BY <1>6, <1>7, <1>8, <1>9 DEF TaskInv

\* A run that has tasks was created.
RunKnown == \A t \in Task : task[t].status # "absent" => run[task[t].run] # "absent"

\* What holds beside as long as claims are prompt.  A candidate is a task that was
\* enqueued, and shows attempts left unless its task never had any.
CandOK ==
  Prompt =>
    \A w \in Worker : \A c \in cand[w] :
      /\ task[c.task].status # "absent"
      /\ task[c.task].maxAttempts # 0 => c.attempt < task[c.task].maxAttempts

\* A task that is about to be taken may be attempted.
TakeOK ==
  Prompt =>
    \A w \in Worker :
      pc[w] = "take" => /\ task[held[w].task].status # "absent"
                        /\ task[held[w].task].maxAttempts # 0

\* The run that is about to fail has a dead task.
BuriedOK ==
  Prompt =>
    \A w \in Worker :
      pc[w] \in {"reapFailRun", "buryFailRun"} => task[held[w].task].status = "dead"

\* The run of a dead task has neither completed nor parked.
DeadRunOK ==
  Prompt =>
    \A t \in Task :
      task[t].status = "dead" => run[task[t].run] \in {"queued", "running", "failed"}

RunInv ==
  /\ VerdictInv /\ TaskInv /\ RunKnown /\ CandOK /\ TakeOK /\ BuriedOK
  /\ SettledRunHasNoWork /\ DeadRunOK

LEMMA RunTyped == RunInv => Typed
BY DEF RunInv, VerdictInv, RecoverInv, LeaseInv

LEMMA RunInvInit == Init => RunInv
<1>. SUFFICES ASSUME Init PROVE RunInv
  OBVIOUS
<1>1. \A t \in Task : task[t].status = "absent"
  BY Values DEF Init
<1>2. TaskInv
  BY <1>1, Values DEF Init, TaskInv, OneLiveTask, DeadIsLast, AttemptsOK, Live
<1>3. /\ RunKnown /\ CandOK /\ TakeOK /\ BuriedOK
      /\ SettledRunHasNoWork /\ DeadRunOK
  BY <1>1 DEF Init, RunKnown, CandOK, TakeOK, BuriedOK, SettledRunHasNoWork, DeadRunOK, Live
<1>. QED
  BY <1>2, <1>3, VerdictInit DEF RunInv

\* Candidates stay good while no worker reads new ones.
LEMMA CandKept ==
  ASSUME RunInv, Kept, \A v \in Worker : cand'[v] \subseteq cand[v]
  PROVE  CandOK'
<1>. SUFFICES ASSUME Prompt, NEW v \in Worker, NEW c \in cand'[v]
              PROVE  /\ task'[c.task].status # "absent"
                     /\ task'[c.task].maxAttempts # 0 => c.attempt < task'[c.task].maxAttempts
  BY DEF CandOK
<1>1. c \in cand[v] /\ c.task \in Task
  BY RunTyped DEF Typed, TypeOK, Candidate
<1>. QED
  BY <1>1 DEF RunInv, CandOK, Kept

\* So do the labels, for the workers that do not move to one of them.
LEMMA LabelKept ==
  ASSUME RunInv, Kept, Prompt, NEW v \in Worker, held'[v] = held[v], pc'[v] = pc[v]
  PROVE  /\ pc'[v] = "take" => /\ task'[held'[v].task].status # "absent"
                               /\ task'[held'[v].task].maxAttempts # 0
         /\ pc'[v] \in {"reapFailRun", "buryFailRun"} => task'[held'[v].task].status = "dead"
<1>1. pc[v] = "take" => held[v].task \in Task
  BY RunTyped DEF Typed, HeldOK, Owning
<1>2. pc[v] \in {"reapFailRun", "buryFailRun"} => held[v].task \in Task
  BY RunTyped DEF Typed, HeldOK
<1>. QED
  BY <1>1, <1>2 DEF RunInv, TakeOK, BuriedOK, Kept

\* w moves to a label of no interest to TakeOK and BuriedOK, the others stay.
LEMMA LabelsKept ==
  ASSUME RunInv, Kept, NEW w \in Worker,
         pc'[w] \notin {"take", "reapFailRun", "buryFailRun"},
         \A v \in Worker \ {w} : held'[v] = held[v] /\ pc'[v] = pc[v]
  PROVE  TakeOK' /\ BuriedOK'
BY LabelKept DEF TakeOK, BuriedOK

\* What is known of the runs after a step.
RunsOK == RunKnown /\ SettledRunHasNoWork /\ DeadRunOK

\* A step that leaves the runs alone and creates no task.
LEMMA RunKept ==
  ASSUME RunInv, Kept, UNCHANGED run,
         \A t \in Task : task[t].status = "absent" => task'[t].status = "absent"
  PROVE  RunsOK'
<1>1. RunKnown' /\ SettledRunHasNoWork'
  BY DEF RunInv, RunKnown, SettledRunHasNoWork, Kept, Live
<1>2. DeadRunOK'
  BY DEF RunInv, SettledRunHasNoWork, DeadRunOK, Kept, Live
<1>. QED BY <1>1, <1>2 DEF RunsOK

\* A step that marks the run of a task that is at its end: the run fails, or the task
\* was its last one and has not died.
LEMMA RunEnds ==
  ASSUME RunInv, Kept, NEW t \in Task, NEW s \in RunStatus \ {"absent"},
         run' = [run EXCEPT ![task[t].run] = s],
         Prompt => /\ task'[t].status \notin {"pending", "leased"}
                   /\ \A u \in Task \ {t} : Live(u) => task[u].run # task[t].run
                   /\ s = "failed" \/ (Live(t) /\ task'[t].status # "dead"),
         \A u \in Task : task[u].status = "absent" => task'[u].status = "absent"
  PROVE  RunsOK'
<1>0. Typed
  BY RunTyped
<1>1. \A r \in Run : run'[r] = "absent" => run[r] = "absent"
  BY <1>0 DEF Typed, TypeOK
<1>2. \A u \in Task : task[u].status # "absent" => task[u].run \in Run
  BY <1>0 DEF Typed, TypeOK, TaskRow
<1>3. RunKnown'
  BY <1>1, <1>2 DEF RunInv, RunKnown, Kept
<1>4. SettledRunHasNoWork'
  <2>. SUFFICES ASSUME Prompt, NEW u \in Task, Live(u)'
                PROVE  run'[task'[u].run] \in {"queued", "running"}
    BY DEF SettledRunHasNoWork
  <2>1. u # t /\ Live(u) /\ task'[u].run = task[u].run /\ task[u].run \in Run
    BY <1>2 DEF Kept, Live
  <2>. QED
    BY <1>0, <2>1 DEF RunInv, SettledRunHasNoWork, Typed, TypeOK
<1>5. DeadRunOK'
  <2>. SUFFICES ASSUME Prompt, NEW u \in Task, task'[u].status = "dead"
                PROVE  run'[task'[u].run] \in {"queued", "running", "failed"}
    BY DEF DeadRunOK
  <2>1. Live(u) \/ task[u].status = "dead"
    BY DEF Kept
  <2>2. task'[u].run = task[u].run /\ task[u].run \in Run
    BY <1>2, <2>1 DEF Kept, Live
  <2>3. run[task[u].run] \in {"queued", "running", "failed"}
    BY <2>1 DEF RunInv, SettledRunHasNoWork, DeadRunOK
  <2>4. task[u].run = task[t].run => s = "failed"
    BY <2>1 DEF RunInv, TaskInv, DeadIsLast
  <2>. QED
    BY <1>0, <2>2, <2>3, <2>4 DEF Typed, TypeOK
<1>. QED BY <1>3, <1>4, <1>5 DEF RunsOK

\* The parts of RunInv that a step has to preserve beside VerdictInv.
RunInvParts == TaskInv /\ CandOK /\ TakeOK /\ BuriedOK /\ RunsOK

LEMMA EnqueueRuns ==
  ASSUME RunInv, NEW r \in Run, NEW limit \in Nat, EnqueueRun(r, limit)
  PROVE  RunInvParts'
<1>0. Typed
  BY RunTyped
<1>1. PICK t \in Task : /\ task[t].status = "absent"
                        /\ task' = [task EXCEPT ![t] = NewTask(r, limit)]
  BY DEF EnqueueRun, NewTaskId
<1>2. /\ run[r] = "absent" /\ run' = [run EXCEPT ![r] = "queued"]
      /\ UNCHANGED <<pc, held, cand>>
  BY DEF EnqueueRun, localVars
<1>3. \A u \in Task : task[u].status # "absent" => task[u].run # r /\ task[u].run \in Run
  BY <1>0, <1>2 DEF RunInv, RunKnown, Typed, TypeOK, TaskRow
<1>4. TaskInv' /\ Kept
  BY <1>0, <1>1, <1>3, FirstShape DEF RunInv
<1>5. CandOK'
  BY <1>2, <1>4, CandKept
<1>6. TakeOK' /\ BuriedOK'
  BY <1>2, <1>4, LabelKept DEF TakeOK, BuriedOK
<1>7. /\ task'[t].run = r /\ task'[t].status = "pending"
      /\ \A u \in Task \ {t} : task'[u] = task[u]
  BY <1>0, <1>1, NewTaskRow DEF Typed, TypeOK
<1>8. RunKnown' /\ SettledRunHasNoWork'
  BY <1>0, <1>2, <1>3, <1>7
  DEF RunInv, RunKnown, SettledRunHasNoWork, Live, Typed, TypeOK
<1>9. DeadRunOK'
  BY <1>0, <1>2, <1>3, <1>7 DEF RunInv, DeadRunOK, Typed, TypeOK
<1>. QED
  BY <1>4, <1>5, <1>6, <1>8, <1>9 DEF RunInvParts, RunsOK

\* The steps of w that touch neither runs nor tasks and lead to no special label.
LEMMA QuietRuns ==
  ASSUME RunInv, NEW w \in Worker, UNCHANGED <<run, task>>,
         pc'[w] \notin {"take", "reapFailRun", "buryFailRun"},
         \A v \in Worker \ {w} : held'[v] = held[v] /\ pc'[v] = pc[v],
         \A v \in Worker : cand'[v] \subseteq cand[v]
  PROVE  RunInvParts'
<1>1. TaskInv' /\ Kept
  BY RunTyped, KeepShape DEF RunInv
<1>. QED
  BY <1>1, CandKept, LabelsKept, RunKept DEF RunInvParts

LEMMA ReapRuns ==
  ASSUME RunInv, NEW w \in Worker, Reap(w)
  PROVE  RunInvParts'
<1>0. Typed
  BY RunTyped
<1>1. CASE ReapScan(w)
  BY <1>0, <1>1, QuietRuns DEF ReapScan, Goto, rowVars, Typed, TypeOK
<1>2. ASSUME NEW l \in Lease, ReapConsume(w, l) PROVE RunInvParts'
  BY <1>0, <1>2, QuietRuns DEF ReapConsume, Goto, Typed, TypeOK
<1>3. CASE ReapRequeue(w)
  <2>. DEFINE t == held[w].task
  <2>1. /\ t \in Task /\ task[t] \in TaskRow /\ UNCHANGED <<run, cand>>
        /\ \A v \in Worker \ {w} : held'[v] = held[v] /\ pc'[v] = pc[v]
    BY <1>0, <1>3, RequeueStep DEF Typed, TypeOK
  <2>2. CASE LeasedUnder(t, held[w].lease)
    <3>1. PICK row \in TaskRow :
            /\ task' = [task EXCEPT ![t] = row]
            /\ row.run = task[t].run /\ row.maxAttempts = task[t].maxAttempts
            /\ row.attempt = task[t].attempt
            /\ row.status = IF pc[w] = "reapDead" THEN "dead" ELSE "pending"
      BY <1>0, <1>3, <2>2, RequeueStep
    <3>2. task[t].maxAttempts \in Nat /\ task[t].attempt \in Nat /\ Live(t)
      BY <2>1, <2>2 DEF TaskRow, LeasedUnder, Live
    <3>3. Prompt => IF row.maxAttempts = 0
                    THEN row.status \in {"pending", "dead"}
                    ELSE row.status = "pending" => row.attempt < row.maxAttempts
      <4>1. pc[w] \in {"reapRetry", "reapDead"}
        BY <1>3 DEF ReapRequeue
      <4>2. Prompt /\ pc[w] = "reapRetry" => ~ (task[t].attempt >= task[t].maxAttempts)
        BY <2>2 DEF RunInv, VerdictInv, VerdictOK, UsedUp
      <4>. QED
        BY <3>1, <3>2, <4>1, <4>2
    <3>4. row.status # "absent"
      BY <3>1
    <3>5. TaskInv' /\ Kept
      BY <1>0, <2>1, <3>1, <3>2, <3>3, <3>4, ChangeShape DEF RunInv
    <3>6. task'[t].status = row.status /\ \A u \in Task \ {t} : task'[u] = task[u]
      BY <1>0, <2>1, <3>1 DEF Typed, TypeOK
    <3>7. /\ pc'[w] # "take"
          /\ pc'[w] \in {"reapFailRun", "buryFailRun"} => task'[held'[w].task].status = "dead"
      BY <1>0, <1>3, <2>2, <3>1, <3>6, RequeueStep
    <3>8. TakeOK' /\ BuriedOK'
      BY <2>1, <3>5, <3>7, LabelKept DEF TakeOK, BuriedOK
    <3>9. RunsOK'
      BY <2>1, <3>2, <3>5, <3>6, RunKept DEF Live
    <3>. QED
      BY <2>1, <3>5, <3>8, <3>9, CandKept DEF RunInvParts
  <2>3. CASE ~ LeasedUnder(t, held[w].lease)
    BY <1>0, <1>3, <2>1, <2>3, RequeueStep, QuietRuns
  <2>. QED BY <2>2, <2>3
<1>4. CASE ReapFailRun(w)
  <2>. DEFINE t == held[w].task
  <2>1. t \in Task /\ (Prompt => task[t].status = "dead")
    BY <1>0, <1>4 DEF ReapFailRun, RunInv, BuriedOK, Typed, HeldOK
  <2>2. /\ UNCHANGED <<task, cand>> /\ run' = [run EXCEPT ![task[t].run] = "failed"]
        /\ pc'[w] = "reap"
        /\ \A v \in Worker \ {w} : held'[v] = held[v] /\ pc'[v] = pc[v]
    BY <1>0, <1>4 DEF ReapFailRun, Goto, Typed, TypeOK
  <2>3. TaskInv' /\ Kept
    BY <2>2, KeepShape, RunTyped DEF RunInv
  <2>4. Prompt => \A u \in Task \ {t} : Live(u) => task[u].run # task[t].run
    BY <2>1 DEF RunInv, TaskInv, DeadIsLast
  <2>5. "failed" \in RunStatus \ {"absent"}
    BY DEF RunStatus
  <2>6. RunsOK'
    BY <2>1, <2>2, <2>3, <2>4, <2>5, RunEnds
  <2>. QED
    BY <2>2, <2>3, <2>6, CandKept, LabelsKept DEF RunInvParts
<1>5. CASE ReapRead(w)
  BY <1>0, <1>5, QuietRuns DEF ReapRead, Goto, rowVars, Typed, TypeOK
<1>. QED
  BY <1>1, <1>2, <1>3, <1>4, <1>5 DEF Reap

LEMMA ClaimRuns ==
  ASSUME RunInv, NEW w \in Worker, Claim(w)
  PROVE  RunInvParts'
<1>0. Typed
  BY RunTyped
<1>1. CASE ClaimScan(w)
  <2>1. /\ UNCHANGED <<run, task, held>> /\ pc' = [pc EXCEPT ![w] = "claim"]
        /\ cand' = [cand EXCEPT ![w] =
             {[task |-> t, attempt |-> task[t].attempt, dueAt |-> task[t].dueAt] :
                t \in {u \in Task : task[u].status = "pending" /\ task[u].dueAt <= Now}}]
    BY <1>1 DEF ClaimScan, Goto, rowVars
  <2>2. TaskInv' /\ Kept
    BY <2>1, KeepShape, RunTyped DEF RunInv
  <2>3. \A v \in Worker : \A c \in cand'[v] :
          \/ v # w /\ c \in cand[v]
          \/ /\ c.task \in Task /\ c.attempt = task[c.task].attempt
             /\ task[c.task].status = "pending"
    BY <1>0, <2>1 DEF Typed, TypeOK
  <2>4. CandOK'
    BY <2>1, <2>3 DEF RunInv, TaskInv, AttemptsOK, CandOK
  <2>5. TakeOK' /\ BuriedOK'
    BY <1>0, <2>1, <2>2, LabelsKept DEF Typed, TypeOK
  <2>. QED
    BY <2>1, <2>2, <2>4, <2>5, RunKept DEF RunInvParts
<1>2. CASE ClaimNothing(w)
  BY <1>0, <1>2, QuietRuns DEF ClaimNothing, Goto, rowVars, Typed, TypeOK
<1>3. ASSUME NEW c \in cand[w], ClaimBury(w, c) PROVE RunInvParts'
  <2>. DEFINE t == c.task
              row == [task[t] EXCEPT !.status = "dead"]
  <2>1. /\ t \in Task /\ task[t] \in TaskRow /\ c.attempt \in Nat
        /\ c.attempt >= task[t].maxAttempts
    BY <1>0, <1>3 DEF ClaimBury, Typed, TypeOK, Candidate
  <2>2. Prompt => task[t].maxAttempts = 0 /\ task[t].status \in {"pending", "dead"}
    <3>1. Prompt => /\ task[t].status # "absent"
                    /\ task[t].maxAttempts # 0 => c.attempt < task[t].maxAttempts
      BY <1>3 DEF RunInv, CandOK
    <3>2. Prompt => task[t].maxAttempts = 0
      BY <2>1, <3>1 DEF TaskRow
    <3>. QED
      BY <2>1, <3>1, <3>2 DEF RunInv, TaskInv, AttemptsOK
  <2>3. /\ UNCHANGED run
        /\ cand' = [cand EXCEPT ![w] = @ \ {c}]
        /\ pc' = [pc EXCEPT ![w] = "buryFailRun"]
        /\ held' = [held EXCEPT ![w] = [lease |-> None, task |-> t]]
    BY <1>3 DEF ClaimBury, Goto
  <2>4. /\ TaskInv' /\ Kept /\ (Prompt => task'[t].status = "dead")
        /\ \A u \in Task : task[u].status = "absent" => task'[u].status = "absent"
    <3>1. CASE task[t].status = "pending"
      <4>1. /\ row \in TaskRow /\ row.run = task[t].run /\ row.status = "dead"
            /\ row.maxAttempts = task[t].maxAttempts
        BY <2>1, StatusRow DEF TaskStatus
      <4>2. task' = [task EXCEPT ![t] = row]
        BY <1>0, <1>3, <2>1, <3>1 DEF ClaimBury, StillPending, Typed, TypeOK
      <4>. HIDE DEF row
      <4>3. TaskInv' /\ Kept
        BY <1>0, <2>1, <3>1, <4>1, <4>2, ChangeShape DEF RunInv, Live
      <4>. QED
        BY <1>0, <2>1, <3>1, <4>1, <4>2, <4>3 DEF Typed, TypeOK
    <3>2. CASE task[t].status # "pending"
      <4>1. UNCHANGED task
        BY <1>3, <3>2 DEF ClaimBury, StillPending
      <4>2. TaskInv' /\ Kept
        BY <1>0, <4>1, KeepShape DEF RunInv
      <4>. QED
        BY <2>2, <3>2, <4>1, <4>2
    <3>. QED
      BY <3>1, <3>2
  <2>5. CandOK'
    BY <1>0, <2>3, <2>4, CandKept DEF Typed, TypeOK
  <2>6. /\ pc'[w] # "take" /\ held'[w].task = t
        /\ \A v \in Worker \ {w} : held'[v] = held[v] /\ pc'[v] = pc[v]
    BY <1>0, <2>3 DEF Typed, TypeOK
  <2>7. TakeOK' /\ BuriedOK'
    BY <2>4, <2>6, LabelKept DEF TakeOK, BuriedOK
  <2>. QED
    BY <2>3, <2>4, <2>5, <2>7, RunKept DEF RunInvParts
<1>4. CASE BuryFailRun(w)
  <2>. DEFINE t == held[w].task
  <2>1. t \in Task /\ (Prompt => task[t].status = "dead")
    BY <1>0, <1>4 DEF BuryFailRun, RunInv, BuriedOK, Typed, HeldOK
  <2>2. /\ UNCHANGED <<task, cand>> /\ run' = [run EXCEPT ![task[t].run] = "failed"]
        /\ pc'[w] = "claim"
        /\ \A v \in Worker \ {w} : held'[v] = held[v] /\ pc'[v] = pc[v]
    BY <1>0, <1>4 DEF BuryFailRun, Goto, Typed, TypeOK
  <2>3. TaskInv' /\ Kept
    BY <2>2, KeepShape, RunTyped DEF RunInv
  <2>4. Prompt => \A u \in Task \ {t} : Live(u) => task[u].run # task[t].run
    BY <2>1 DEF RunInv, TaskInv, DeadIsLast
  <2>5. "failed" \in RunStatus \ {"absent"}
    BY DEF RunStatus
  <2>6. RunsOK'
    BY <2>1, <2>2, <2>3, <2>4, <2>5, RunEnds
  <2>. QED
    BY <2>2, <2>3, <2>6, CandKept, LabelsKept DEF RunInvParts
<1>5. ASSUME NEW c \in cand[w], NEW l \in Lease, ClaimLease(w, c, l) PROVE RunInvParts'
  <2>1. /\ UNCHANGED <<run, task, cand>>
        /\ held' = [held EXCEPT ![w] = [lease |-> l, task |-> c.task]]
        /\ pc' = [pc EXCEPT ![w] = "take"]
        /\ c.attempt < task[c.task].maxAttempts
    BY <1>5 DEF ClaimLease, Goto
  <2>2. TaskInv' /\ Kept
    BY <2>1, KeepShape, RunTyped DEF RunInv
  <2>3. Prompt => task[c.task].status # "absent" /\ task[c.task].maxAttempts # 0
    BY <1>0, <2>1 DEF RunInv, CandOK, Typed, TypeOK, Candidate
  <2>4. /\ pc'[w] = "take" /\ held'[w].task = c.task
        /\ \A v \in Worker \ {w} : held'[v] = held[v] /\ pc'[v] = pc[v]
    BY <1>0, <2>1 DEF Typed, TypeOK
  <2>5. TakeOK' /\ BuriedOK'
    BY <2>1, <2>2, <2>3, <2>4, LabelKept DEF TakeOK, BuriedOK
  <2>. QED
    BY <2>1, <2>2, <2>5, CandKept, RunKept DEF RunInvParts
<1>6. CASE ClaimTake(w)
  <2>. DEFINE t == held[w].task
  <2>1. /\ t \in Task /\ held[w].lease \in Lease /\ task[t] \in TaskRow
        /\ Prompt => task[t].maxAttempts # 0
    BY <1>0, <1>6 DEF ClaimTake, Typed, TypeOK, HeldOK, Owning, RunInv, TakeOK
  <2>2. /\ UNCHANGED <<run, held>>
        /\ pc'[w] \in {"claimed", "drop"}
        /\ \A v \in Worker \ {w} : pc'[v] = pc[v]
        /\ \A v \in Worker : cand'[v] \subseteq cand[v]
    BY <1>0, <1>6 DEF ClaimTake, Goto, Typed, TypeOK
  <2>3. CASE StillPending(t)
    <3>1. PICK c \in Tried(w) :
            task' = [task EXCEPT ![t] = [@ EXCEPT !.status = "leased",
                       !.lease = held[w].lease, !.attempt = NextAttempt(c)]]
      BY <1>6, <2>3 DEF ClaimTake
    <3>. DEFINE row == [task[t] EXCEPT !.status = "leased",
                          !.lease = held[w].lease, !.attempt = NextAttempt(c)]
    <3>2. NextAttempt(c) \in Nat
      BY <1>0, <3>1 DEF Tried, NextAttempt, Typed, TypeOK, Candidate
    <3>3. /\ row \in TaskRow /\ row.run = task[t].run /\ row.status = "leased"
          /\ row.maxAttempts = task[t].maxAttempts
      BY <2>1, <3>2 DEF TaskRow, TaskStatus
    <3>4. task' = [task EXCEPT ![t] = row]
      BY <1>0, <2>1, <3>1 DEF Typed, TypeOK
    <3>. HIDE DEF row
    <3>5. TaskInv' /\ Kept
      BY <2>1, <2>3, <3>3, <3>4, ChangeShape, RunTyped DEF RunInv, Live, StillPending
    <3>6. \A u \in Task : task[u].status = "absent" => task'[u].status = "absent"
      BY <1>0, <2>1, <2>3, <3>4 DEF StillPending, Typed, TypeOK
    <3>. QED
      BY <2>2, <3>5, <3>6, CandKept, LabelsKept, RunKept DEF RunInvParts
  <2>4. CASE ~ StillPending(t)
    <3>1. UNCHANGED task
      BY <1>6, <2>4 DEF ClaimTake
    <3>. QED
      BY <2>2, <3>1, QuietRuns
  <2>. QED BY <2>3, <2>4
<1>7. CASE ClaimDrop(w)
  BY <1>0, <1>7, QuietRuns DEF ClaimDrop, Goto, Typed, TypeOK
<1>8. CASE ClaimRunning(w)
  <2>. DEFINE t == held[w].task
  <2>1. /\ UNCHANGED <<task, cand>> /\ run' = [run EXCEPT ![task[t].run] = "running"]
        /\ pc'[w] = "start"
        /\ \A v \in Worker \ {w} : held'[v] = held[v] /\ pc'[v] = pc[v]
    BY <1>0, <1>8 DEF ClaimRunning, Goto, Typed, TypeOK
  <2>2. TaskInv' /\ Kept
    BY <2>1, KeepShape, RunTyped DEF RunInv
  <2>3. RunKnown' /\ SettledRunHasNoWork' /\ DeadRunOK'
    BY <1>0, <2>1
    DEF RunInv, RunKnown, SettledRunHasNoWork, DeadRunOK, Live, Typed, TypeOK, TaskRow
  <2>. QED
    BY <2>1, <2>2, <2>3, CandKept, LabelsKept DEF RunInvParts, RunsOK
<1>. QED
  BY <1>1, <1>2, <1>3, <1>4, <1>5, <1>6, <1>7, <1>8 DEF Claim

\* A slice that ends its run: the task is completed, the run marked s.
LEMMA CompleteRuns ==
  ASSUME RunInv, NEW w \in Worker, CompleteTask(w),
         task' = [task EXCEPT ![held[w].task].status = "completed"],
         NEW s \in RunStatus \ {"absent"}, run' = [run EXCEPT ![RunOf(w)] = s]
  PROVE  RunInvParts'
<1>0. Typed
  BY RunTyped
<1>. PICK t \in Task : t = held[w].task
  BY <1>0, CompleteTyped
<1>. DEFINE row == [task[t] EXCEPT !.status = "completed"]
<1>1. /\ task[t] \in TaskRow /\ task[t].status = "leased"
      /\ pc'[w] = "idle" /\ UNCHANGED cand
      /\ \A v \in Worker \ {w} : held'[v] = held[v] /\ pc'[v] = pc[v]
  BY <1>0, CompleteTyped DEF CompleteTask, EndTick, Goto, Typed, TypeOK
<1>2. /\ row \in TaskRow /\ row.run = task[t].run /\ row.status = "completed"
      /\ row.maxAttempts = task[t].maxAttempts
  BY <1>1, StatusRow DEF TaskStatus
<1>3. task' = [task EXCEPT ![t] = row]
  BY <1>0, <1>1 DEF Typed, TypeOK
<1>. HIDE DEF row
<1>4. /\ Live(t) /\ row.status # "absent"
      /\ Prompt => IF row.maxAttempts = 0
                   THEN row.status \in {"pending", "dead"}
                   ELSE row.status = "pending" => row.attempt < row.maxAttempts
  BY <1>1, <1>2 DEF Live, RunInv, TaskInv, AttemptsOK
<1>5. TaskInv' /\ Kept
  BY <1>1, <1>2, <1>3, <1>4, ChangeShape, RunTyped DEF RunInv
<1>6. /\ task'[t].status = "completed"
      /\ \A u \in Task : task[u].status = "absent" => task'[u].status = "absent"
  BY <1>0, <1>1, <1>2, <1>3 DEF Typed, TypeOK
<1>7. \A u \in Task \ {t} : Live(u) => task[u].run # task[t].run
  BY <1>1, <1>4 DEF RunInv, TaskInv, OneLiveTask
<1>8. run' = [run EXCEPT ![task[t].run] = s] /\ task[t].status # "absent"
  BY <1>1 DEF RunOf
<1>9. RunsOK'
  BY <1>4, <1>5, <1>6, <1>7, <1>8, RunEnds
<1>. QED
  BY <1>1, <1>5, <1>9, CandKept, LabelsKept DEF RunInvParts

LEMMA WorkRuns ==
  ASSUME RunInv, NEW w \in Worker, Work(w)
  PROVE  RunInvParts'
<1>0. Typed
  BY RunTyped
<1>1. CASE Start(w)
  BY <1>0, <1>1, QuietRuns DEF Start, Goto, Typed, TypeOK
<1>2. ASSUME NEW o \in Outcome, Execute(w, o) PROVE RunInvParts'
  BY <1>0, <1>2, QuietRuns DEF Execute, Goto, rowVars, Typed, TypeOK
<1>3. CASE LeaseLost(w)
  BY <1>0, <1>3, QuietRuns DEF LeaseLost, EndTick, Goto, rowVars, Typed, TypeOK
<1>4. CASE Validate(w)
  BY <1>0, <1>4, QuietRuns DEF Validate, EndTick, Goto, rowVars, Typed, TypeOK
<1>5. CASE CommitCompleted(w)
  BY <1>5, CompleteRuns DEF CommitCompleted, RunStatus
<1>6. CASE CommitWaiting(w)
  BY <1>6, CompleteRuns DEF CommitWaiting, RunStatus
<1>7. CASE CommitYielded(w)
  <2>. DEFINE t == held[w].task
  <2>1. PICK u \in Task :
          /\ task[u].status = "absent"
          /\ task' = [task EXCEPT ![t].status = "completed", ![u] = NewTask(RunOf(w), 1)]
    BY <1>7 DEF CommitYielded, NewTaskId, DefaultMaxAttempts
  <2>2. /\ t \in Task /\ task[t].status = "leased" /\ RunOf(w) \in Run
        /\ task[t].run = RunOf(w)
    BY <1>0, <1>7, CompleteTyped DEF CommitYielded, RunOf
  <2>3. TaskInv' /\ Kept
    <3>1. 1 \in Nat \ {0}
      OBVIOUS
    <3>. QED
      BY <1>0, <2>1, <2>2, <3>1, YieldShape DEF RunInv
  <2>4. /\ run' = [run EXCEPT ![RunOf(w)] = "queued"]
        /\ pc'[w] = "idle" /\ UNCHANGED cand
        /\ \A v \in Worker \ {w} : held'[v] = held[v] /\ pc'[v] = pc[v]
    BY <1>0, <1>7 DEF CommitYielded, CompleteTask, EndTick, Goto, Typed, TypeOK
  <2>5. task'[u].run = RunOf(w) /\ \A v \in Task \ {t, u} : task'[v] = task[v]
    <3>1. NewTask(RunOf(w), 1).run = RunOf(w)
      BY <2>2, NewTaskRow
    <3>. QED
      BY <1>0, <2>1, <2>2, <3>1 DEF Typed, TypeOK
  <2>6. \A v \in Task : task'[v].status # "absent" =>
          \/ task'[v].run = RunOf(w)
          \/ task[v].status # "absent" /\ task'[v].run = task[v].run
    BY <2>2, <2>3, <2>5 DEF Kept
  <2>7. RunKnown'
    BY <1>0, <2>2, <2>4, <2>6 DEF RunInv, RunKnown, Typed, TypeOK, TaskRow
  <2>8. SettledRunHasNoWork'
    <3>. SUFFICES ASSUME Prompt, NEW v \in Task, Live(v)'
                  PROVE  run'[task'[v].run] \in {"queued", "running"}
      BY DEF SettledRunHasNoWork
    <3>1. CASE v = u
      BY <1>0, <2>2, <2>4, <2>5, <3>1 DEF Typed, TypeOK
    <3>2. CASE v # u
      <4>1. CASE task[v].status = "absent"
        BY <2>2, <2>5, <3>2, <4>1 DEF Live
      <4>2. CASE task[v].status # "absent"
        <5>1. Live(v) /\ task'[v].run = task[v].run /\ task[v].run \in Run
          BY <1>0, <2>3, <4>2 DEF Kept, Typed, TypeOK, TaskRow
        <5>. QED
          BY <1>0, <2>4, <5>1 DEF RunInv, SettledRunHasNoWork, Typed, TypeOK
      <4>. QED BY <4>1, <4>2
    <3>. QED BY <3>1, <3>2
  <2>9. DeadRunOK'
    <3>. SUFFICES ASSUME Prompt, NEW v \in Task, task'[v].status = "dead"
                  PROVE  run'[task'[v].run] \in {"queued", "running", "failed"}
      BY DEF DeadRunOK
    <3>1. /\ Live(v) \/ task[v].status = "dead"
          /\ task'[v].run = task[v].run /\ task[v].run \in Run
      BY <1>0, <2>3 DEF Kept, Live, Typed, TypeOK, TaskRow
    <3>2. run[task[v].run] \in {"queued", "running", "failed"}
      BY <3>1 DEF RunInv, SettledRunHasNoWork, DeadRunOK
    <3>. QED
      BY <1>0, <2>4, <3>1, <3>2 DEF Typed, TypeOK
  <2>. QED
    BY <2>3, <2>4, <2>7, <2>8, <2>9, CandKept, LabelsKept DEF RunInvParts, RunsOK
<1>8. CASE CommitFailed(w)
  <2>. DEFINE t == held[w].task
              row == Released(task[t], Now)
  <2>1. t \in Task /\ task[t] \in TaskRow /\ task[t].status = "leased"
    BY <1>0, <1>8 DEF CommitFailed, LeasedUnder, Typed, TypeOK, HeldOK, Owning, Reaping
  <2>2. /\ row \in TaskRow /\ row.run = task[t].run /\ row.maxAttempts = task[t].maxAttempts
        /\ row.attempt = task[t].attempt
        /\ row.status = IF task[t].attempt >= task[t].maxAttempts THEN "dead" ELSE "pending"
    BY <2>1, ReleasedRow, TimeRange
  <2>3. task' = [task EXCEPT ![t] = row]
    BY <1>0, <1>8, <2>1 DEF CommitFailed, Typed, TypeOK
  <2>4. task[t].maxAttempts \in Nat /\ task[t].attempt \in Nat /\ Live(t)
    BY <2>1 DEF TaskRow, Live
  <2>. HIDE DEF row
  <2>5. /\ row.status # "absent"
        /\ Prompt => IF row.maxAttempts = 0
                     THEN row.status \in {"pending", "dead"}
                     ELSE row.status = "pending" => row.attempt < row.maxAttempts
    BY <2>2, <2>4
  <2>6. TaskInv' /\ Kept
    BY <2>1, <2>2, <2>3, <2>4, <2>5, ChangeShape, RunTyped DEF RunInv
  <2>7. /\ task'[t] = row
        /\ \A u \in Task : task[u].status = "absent" => task'[u].status = "absent"
    BY <1>0, <2>1, <2>3 DEF Typed, TypeOK
  <2>8. /\ pc'[w] = "idle" /\ UNCHANGED cand
        /\ \A v \in Worker \ {w} : held'[v] = held[v] /\ pc'[v] = pc[v]
    BY <1>0, <1>8 DEF CommitFailed, EndTick, Goto, Typed, TypeOK
  <2>9. RunsOK'
    <3>1. CASE UsedUp(task[t])
      <4>1. run' = [run EXCEPT ![task[t].run] = "failed"]
        BY <1>8, <3>1 DEF CommitFailed, RunOf
      <4>2. row.status = "dead"
        BY <2>2, <3>1 DEF UsedUp
      <4>3. task'[t].status = "dead"
        BY <2>7, <4>2
      <4>4. \A u \in Task \ {t} : Live(u) => task[u].run # task[t].run
        BY <2>1, <2>4 DEF RunInv, TaskInv, OneLiveTask
      <4>5. "failed" \in RunStatus \ {"absent"}
        BY DEF RunStatus
      <4>. QED
        BY <2>1, <2>6, <2>7, <4>1, <4>3, <4>4, <4>5, RunEnds
    <3>2. CASE ~ UsedUp(task[t])
      BY <1>8, <2>6, <2>7, <3>2, RunKept DEF CommitFailed
    <3>. QED BY <3>1, <3>2
  <2>. QED
    BY <2>6, <2>8, <2>9, CandKept, LabelsKept DEF RunInvParts
<1>9. CASE CommitNothing(w)
  BY <1>0, <1>9, QuietRuns DEF CommitNothing, EndTick, Goto, Typed, TypeOK
<1>. QED
  BY <1>1, <1>2, <1>3, <1>4, <1>5, <1>6, <1>7, <1>8, <1>9 DEF Work

LEMMA RunInvNext == RunInv /\ [Next]_vars => RunInv'
<1>. SUFFICES ASSUME RunInv, [Next]_vars PROVE RunInv'
  OBVIOUS
<1>0. Typed /\ VerdictInv'
  BY RunTyped, VerdictNext DEF RunInv
<1>. SUFFICES RunInvParts'
  BY <1>0 DEF RunInv, RunInvParts, RunsOK
<1>1. ASSUME NEW r \in Run, NEW limit \in Nat, EnqueueRun(r, limit) PROVE RunInvParts'
  BY <1>1, EnqueueRuns
<1>2. ASSUME NEW w \in Worker, Reap(w) \/ Claim(w) \/ Work(w) PROVE RunInvParts'
  BY <1>2, ReapRuns, ClaimRuns, WorkRuns
<1>3. ASSUME NEW w \in Worker, Beat(w) PROVE RunInvParts'
  <2>1. UNCHANGED <<run, task, pc, held, cand>>
    BY <1>3 DEF Beat, BeatRead, BeatFails, BeatWrite, rowVars, localVars
  <2>2. TaskInv' /\ Kept
    BY <2>1, KeepShape, RunTyped DEF RunInv
  <2>. QED
    BY <2>1, <2>2, CandKept, LabelKept, RunKept DEF RunInvParts, TakeOK, BuriedOK
<1>4. ASSUME NEW w \in Worker, Crash(w) PROVE RunInvParts'
  BY <1>0, <1>4, QuietRuns DEF Crash, EndTick, Goto, rowVars, Typed, TypeOK
<1>5. CASE Tick
  <2>1. UNCHANGED <<run, pc, held, cand>>
    BY <1>5 DEF Tick
  <2>2. \A t \in Task :
          /\ task'[t].status = task[t].status /\ task'[t].run = task[t].run
          /\ task'[t].attempt = task[t].attempt /\ task'[t].maxAttempts = task[t].maxAttempts
    BY <1>0, <1>5, AgedRows DEF Tick, Typed, TypeOK
  <2>3. TaskInv' /\ Kept
    BY <2>2, KeepShape, RunTyped DEF RunInv
  <2>. QED
    BY <2>1, <2>2, <2>3, CandKept, LabelKept, RunKept DEF RunInvParts, TakeOK, BuriedOK
<1>6. CASE UNCHANGED vars
  <2>1. UNCHANGED <<run, task, pc, held, cand>>
    BY <1>6 DEF vars
  <2>2. TaskInv' /\ Kept
    BY <2>1, KeepShape, RunTyped DEF RunInv
  <2>. QED
    BY <2>1, <2>2, CandKept, LabelKept, RunKept DEF RunInvParts, TakeOK, BuriedOK
<1>. QED
  BY <1>1, <1>2, <1>3, <1>4, <1>5, <1>6, EngineAssumption
  DEF Next, StartRun, ContinueRun, DefaultMaxAttempts

\* Whatever yields, retries, reaps and stale claims do, a run never has two tasks that
\* are pending or leased: no slice of it is ever executed beside another one.
THEOREM RunsHaveOneTask == Spec => []OneLiveTask
<1>1. RunInv => OneLiveTask
  BY DEF RunInv, TaskInv
<1>. QED
  BY <1>1, RunInvInit, RunInvNext, PTL DEF Spec

\* As long as claims are prompt, a run marked completed, failed or waiting has nothing
\* left to claim: the writes that fail a run on their own (reaper, burial) find its task
\* dead, stale as they are.
THEOREM SettledRunsAreIdle == Spec => []SettledRunHasNoWork
<1>1. RunInv => SettledRunHasNoWork
  BY DEF RunInv
<1>. QED
  BY <1>1, RunInvInit, RunInvNext, PTL DEF Spec

----------------------------------------------------------------------------
(* A run is one chain of slices.                                           *)

\* The tasks of a run.
Own(r) == {t \in Task : task[t].run = r}

\* A run has finitely many tasks, whatever the set of task ids.
FiniteOK == \A r \in Run : IsFiniteSet(Own(r))

ChainInv == Prompt /\ RunInv /\ FiniteOK

\* The tasks stay with their runs.
OwnKept == \A t \in Task : task'[t].run = task[t].run

\* A step of the chain, or none.
ChainStepOK == FiniteOK' /\ [Chain!ChainNext]_(Chain!chainVars)

\* A stutter of the chain: no run moves.
LEMMA ChainStays ==
  ASSUME ChainInv, OwnKept, \A r \in Run : StageOf(r)' = StageOf(r)
  PROVE  ChainStepOK
<1>1. \A r \in Run : Own(r)' = Own(r)
  BY DEF Own, OwnKept
<1>2. UNCHANGED Chain!chainVars
  BY <1>1 DEF Chain!chainVars, Own
<1>. QED
  BY <1>1, <1>2 DEF ChainInv, FiniteOK, ChainStepOK

LEMMA QuietChain ==
  ASSUME ChainInv, OwnKept, UNCHANGED run
  PROVE  ChainStepOK
BY ChainStays DEF StageOf

\* A step of the chain: one run opens, advances or ends, the others stay.
LEMMA ChainMoves ==
  ASSUME NEW r \in Run,
         \A q \in Run \ {r} : StageOf(q)' = StageOf(q) /\ Own(q)' = Own(q),
         \/ /\ StageOf(r) = "absent" /\ StageOf(r)' = "open"
            /\ Cardinality(Own(r)') = 1
         \/ /\ StageOf(r) = "open" /\ StageOf(r)' = "open"
            /\ Cardinality(Own(r)') = Cardinality(Own(r)) + 1
         \/ /\ StageOf(r) = "open" /\ StageOf(r)' \in Chain!Final
            /\ Own(r)' = Own(r)
  PROVE  Chain!ChainNext
<1>. DEFINE stage == [q \in Run |-> StageOf(q)]
            slices == [q \in Run |-> Cardinality(Own(q))]
<1>1. CASE /\ StageOf(r) = "absent" /\ StageOf(r)' = "open"
           /\ Cardinality(Own(r)') = 1
  <2>1. stage' = [stage EXCEPT ![r] = "open"] /\ slices' = [slices EXCEPT ![r] = 1]
    BY <1>1
  <2>. QED BY <1>1, <2>1 DEF Chain!ChainNext, Chain!Open, Own
<1>2. CASE /\ StageOf(r) = "open" /\ StageOf(r)' = "open"
           /\ Cardinality(Own(r)') = Cardinality(Own(r)) + 1
  <2>1. stage' = stage /\ slices' = [slices EXCEPT ![r] = @ + 1]
    BY <1>2
  <2>. QED BY <1>2, <2>1 DEF Chain!ChainNext, Chain!Advance, Own
<1>3. CASE /\ StageOf(r) = "open" /\ StageOf(r)' \in Chain!Final
           /\ Own(r)' = Own(r)
  <2>1. stage' = [stage EXCEPT ![r] = StageOf(r)'] /\ slices' = slices
    BY <1>3
  <2>. QED BY <1>3, <2>1 DEF Chain!ChainNext, Chain!Settle, Own
<1>. QED BY <1>1, <1>2, <1>3

\* The runs a step does not write to.
LEMMA OtherRuns ==
  ASSUME ChainInv, NEW r \in Run, NEW s, run' = [run EXCEPT ![r] = s], NEW q \in Run \ {r}
  PROVE  StageOf(q)' = StageOf(q)
BY RunTyped DEF ChainInv, StageOf, Typed, TypeOK

\* The run of a task that is pending or leased is open: as long as claims are prompt it
\* has not been settled.
LEMMA LiveRun ==
  ASSUME ChainInv, NEW t \in Task, Live(t)
  PROVE  /\ task[t].run \in Run
         /\ run[task[t].run] \in {"queued", "running"} /\ StageOf(task[t].run) = "open"
<1>1. task[t].run \in Run
  BY RunTyped DEF Live, ChainInv, Typed, TypeOK, TaskRow
<1>2. run[task[t].run] \in {"queued", "running"}
  BY DEF ChainInv, RunInv, SettledRunHasNoWork
<1>. QED BY <1>1, <1>2 DEF StageOf

\* A write of the status of a run settles it when it was open, and changes nothing when
\* it stood there already.
LEMMA SettleChain ==
  ASSUME ChainInv, OwnKept, NEW r \in Run, NEW s \in {"completed", "waiting", "failed"},
         run' = [run EXCEPT ![r] = s], run[r] \in {"queued", "running", s}
  PROVE  ChainStepOK
<1>1. /\ run'[r] = s
      /\ \A q \in Run \ {r} : StageOf(q)' = StageOf(q) /\ Own(q)' = Own(q)
  BY RunTyped, OtherRuns DEF ChainInv, Typed, TypeOK, Own, OwnKept
<1>2. CASE run[r] = s
  <2>1. \A q \in Run : StageOf(q)' = StageOf(q)
    BY <1>1, <1>2 DEF StageOf
  <2>. QED BY <2>1, ChainStays
<1>3. CASE run[r] \in {"queued", "running"}
  <2>1. StageOf(r) = "open" /\ StageOf(r)' \in Chain!Final
    BY <1>1, <1>3 DEF StageOf, Chain!Final
  <2>2. Own(r)' = Own(r)
    BY DEF Own, OwnKept
  <2>3. Chain!ChainNext
    BY <1>1, <2>1, <2>2, ChainMoves
  <2>. QED
    BY <1>1, <2>2, <2>3 DEF ChainInv, FiniteOK, ChainStepOK
<1>. QED BY <1>2, <1>3

\* A new run.
LEMMA OpenChain ==
  ASSUME ChainInv, NEW r \in Run, NEW limit \in Nat, EnqueueRun(r, limit)
  PROVE  ChainStepOK
<1>0. Typed
  BY RunTyped DEF ChainInv
<1>1. PICK t \in Task : /\ task[t].status = "absent"
                        /\ task' = [task EXCEPT ![t] = NewTask(r, limit)]
  BY DEF EnqueueRun, NewTaskId
<1>2. /\ run[r] = "absent" /\ run' = [run EXCEPT ![r] = "queued"]
      /\ task[t].run = None /\ task'[t].run = r
      /\ \A u \in Task : u # t => task'[u] = task[u]
  BY <1>0, <1>1, NewTaskRow DEF EnqueueRun, Typed, TypeOK
<1>3. Own(r) = {}
  BY <1>0, <1>2, EngineAssumption DEF Own, ChainInv, RunInv, RunKnown, Typed, TypeOK
<1>4. Own(r)' = {t}
  BY <1>2, <1>3 DEF Own
<1>5. \A q \in Run \ {r} : StageOf(q)' = StageOf(q) /\ Own(q)' = Own(q)
  <2>1. \A q \in Run \ {r} : Own(q)' = Own(q)
    BY <1>2, EngineAssumption DEF Own
  <2>. QED BY <1>2, <2>1, OtherRuns
<1>6. StageOf(r) = "absent" /\ StageOf(r)' = "open"
  BY <1>0, <1>2 DEF StageOf, Typed, TypeOK
<1>7. IsFiniteSet(Own(r)') /\ Cardinality(Own(r)') = 1
  BY <1>4, FS_Singleton
<1>8. FiniteOK'
  BY <1>5, <1>7 DEF ChainInv, FiniteOK
<1>. QED BY <1>5, <1>6, <1>7, <1>8, ChainMoves DEF ChainStepOK

\* A slice that yields to the next one.
LEMMA YieldChain ==
  ASSUME ChainInv, NEW t \in Task, NEW u \in Task, NEW r \in Run, NEW limit \in Nat,
         Live(t), task[t].run = r, task[u].status = "absent",
         task' = [task EXCEPT ![t].status = "completed", ![u] = NewTask(r, limit)],
         run' = [run EXCEPT ![r] = "queued"]
  PROVE  ChainStepOK
<1>0. Typed
  BY RunTyped DEF ChainInv
<1>1. StageOf(r) = "open" /\ StageOf(r)' = "open"
  <2>1. StageOf(r) = "open"
    BY LiveRun
  <2>. QED BY <1>0, <2>1 DEF StageOf, Typed, TypeOK
<1>2. /\ u # t /\ task[u].run = None
      /\ task'[t].run = r /\ task'[u].run = r
      /\ \A x \in Task \ {t, u} : task'[x] = task[x]
  <2>1. u # t
    BY DEF Live
  <2>2. task[t] \in TaskRow /\ "completed" \in TaskStatus /\ task[u].run = None
    BY <1>0 DEF Typed, TypeOK, TaskStatus
  <2>. DEFINE done == [task[t] EXCEPT !.status = "completed"]
              next == NewTask(r, limit)
  <2>3. done.run = r /\ next.run = r
    BY <2>2, StatusRow, NewTaskRow
  <2>4. task' = [task EXCEPT ![t] = done, ![u] = next]
    OBVIOUS
  <2>. HIDE DEF done, next
  <2>5. /\ task'[t] = done /\ task'[u] = next
        /\ \A x \in Task \ {t, u} : task'[x] = task[x]
    BY <1>0, <2>1, <2>4 DEF Typed, TypeOK
  <2>. QED
    BY <2>1, <2>2, <2>3, <2>5
<1>3. u \notin Own(r) /\ Own(r)' = Own(r) \cup {u}
  <2>1. None # r /\ t # u
    BY <1>2, EngineAssumption
  <2>2. ASSUME NEW x \in Task
        PROVE  task'[x].run = r <=> task[x].run = r \/ x = u
    BY <1>2, <2>1, <2>2
  <2>. QED
    BY <1>2, <2>1, <2>2 DEF Own
<1>4. \A q \in Run \ {r} : StageOf(q)' = StageOf(q) /\ Own(q)' = Own(q)
  <2>1. \A q \in Run \ {r} : Own(q)' = Own(q)
    BY <1>2, EngineAssumption DEF Own
  <2>. QED BY <2>1, OtherRuns
<1>5. IsFiniteSet(Own(r)') /\ Cardinality(Own(r)') = Cardinality(Own(r)) + 1
  BY <1>3, FS_AddElement DEF ChainInv, FiniteOK
<1>6. FiniteOK'
  BY <1>4, <1>5 DEF ChainInv, FiniteOK
<1>. QED BY <1>1, <1>4, <1>5, <1>6, ChainMoves DEF ChainStepOK

\* A step that replaces the row of one task keeps the tasks of every run.
LEMMA RowKept ==
  ASSUME Typed, NEW t \in Task, NEW row, task' = [task EXCEPT ![t] = row],
         row.run = task[t].run
  PROVE  OwnKept
BY DEF OwnKept, Typed, TypeOK

LEMMA ReapChain ==
  ASSUME ChainInv, NEW w \in Worker, Reap(w)
  PROVE  ChainStepOK
<1>0. Typed
  BY RunTyped DEF ChainInv
<1>1. CASE ReapRequeue(w)
  <2>1. UNCHANGED run /\ OwnKept
    BY <1>0, <1>1, RequeueStep, RowKept DEF OwnKept
  <2>. QED BY <2>1, QuietChain
<1>2. CASE ReapFailRun(w)
  <2>. DEFINE t == held[w].task
  <2>1. t \in Task /\ task[t].status = "dead"
    BY <1>0, <1>2 DEF ReapFailRun, ChainInv, RunInv, BuriedOK, Typed, HeldOK
  <2>2. task[t].run \in Run /\ run[task[t].run] \in {"queued", "running", "failed"}
    BY <1>0, <2>1 DEF ChainInv, RunInv, DeadRunOK, Typed, TypeOK, TaskRow
  <2>3. run' = [run EXCEPT ![task[t].run] = "failed"] /\ OwnKept
    BY <1>2 DEF ReapFailRun, OwnKept
  <2>. QED BY <2>2, <2>3, SettleChain
<1>3. CASE UNCHANGED <<run, task>>
  BY <1>3, QuietChain DEF OwnKept
<1>. QED
  BY <1>1, <1>2, <1>3 DEF Reap, ReapScan, ReapConsume, ReapRead, rowVars

LEMMA ClaimChain ==
  ASSUME ChainInv, NEW w \in Worker, Claim(w)
  PROVE  ChainStepOK
<1>0. Typed
  BY RunTyped DEF ChainInv
<1>1. ASSUME NEW c \in cand[w], ClaimBury(w, c) PROVE ChainStepOK
  <2>1. c.task \in Task /\ UNCHANGED run
    BY <1>0, <1>1 DEF ClaimBury, Typed, TypeOK, Candidate
  <2>. DEFINE row == [task[c.task] EXCEPT !.status = "dead"]
  <2>2. UNCHANGED task \/ task' = [task EXCEPT ![c.task] = row]
    BY <1>0, <1>1, <2>1 DEF ClaimBury, Typed, TypeOK
  <2>3. row.run = task[c.task].run
    BY <1>0, <2>1, StatusRow DEF Typed, TypeOK, TaskStatus
  <2>. HIDE DEF row
  <2>4. OwnKept
    BY <1>0, <2>1, <2>2, <2>3, RowKept DEF OwnKept
  <2>. QED BY <2>1, <2>4, QuietChain
<1>2. CASE BuryFailRun(w)
  <2>. DEFINE t == held[w].task
  <2>1. t \in Task /\ task[t].status = "dead"
    BY <1>0, <1>2 DEF BuryFailRun, ChainInv, RunInv, BuriedOK, Typed, HeldOK
  <2>2. task[t].run \in Run /\ run[task[t].run] \in {"queued", "running", "failed"}
    BY <1>0, <2>1 DEF ChainInv, RunInv, DeadRunOK, Typed, TypeOK, TaskRow
  <2>3. run' = [run EXCEPT ![task[t].run] = "failed"] /\ OwnKept
    BY <1>2 DEF BuryFailRun, OwnKept
  <2>. QED BY <2>2, <2>3, SettleChain
<1>3. CASE ClaimTake(w)
  <2>. DEFINE t == held[w].task
  <2>1. t \in Task /\ task[t] \in TaskRow /\ UNCHANGED run
    BY <1>0, <1>3 DEF ClaimTake, Typed, TypeOK, HeldOK, Owning
  <2>2. CASE StillPending(t)
    <3>1. PICK c \in Tried(w) :
            task' = [task EXCEPT ![t] = [@ EXCEPT !.status = "leased",
                       !.lease = held[w].lease, !.attempt = NextAttempt(c)]]
      BY <1>3, <2>2 DEF ClaimTake
    <3>. DEFINE row == [task[t] EXCEPT !.status = "leased", !.lease = held[w].lease,
                                       !.attempt = NextAttempt(c)]
    <3>2. task' = [task EXCEPT ![t] = row]
      BY <1>0, <2>1, <3>1 DEF Typed, TypeOK
    <3>3. row.run = task[t].run
      BY <2>1 DEF TaskRow
    <3>. HIDE DEF row
    <3>4. OwnKept
      BY <1>0, <2>1, <3>2, <3>3, RowKept
    <3>. QED BY <2>1, <3>4, QuietChain
  <2>3. CASE ~ StillPending(t)
    BY <1>3, <2>1, <2>3, QuietChain DEF ClaimTake, OwnKept
  <2>. QED BY <2>2, <2>3
<1>4. CASE ClaimRunning(w)
  <2>. DEFINE t == held[w].task
              r == task[t].run
  <2>1. t \in Task /\ held[w].lease \in Lease /\ Claiming(w) /\ Holding(w)
    BY <1>0, <1>4 DEF ClaimRunning, Claiming, Holding, Typed, HeldOK, Owning
  <2>2. HasRow(held[w].lease)
    BY <2>1, EngineAssumption
    DEF ChainInv, RunInv, VerdictInv, RecoverInv, FreshOK, HasRow
  <2>3. Live(t)
    BY <2>1, <2>2
    DEF ChainInv, RunInv, VerdictInv, RecoverInv, LeaseInv, HoldOK, LeasedUnder, Live
  <2>4. r \in Run /\ run[r] \in {"queued", "running"}
    BY <2>1, <2>3, LiveRun
  <2>5. run' = [run EXCEPT ![r] = "running"] /\ OwnKept
    BY <1>4 DEF ClaimRunning, OwnKept
  <2>6. \A q \in Run : StageOf(q)' = StageOf(q)
    BY <1>0, <2>4, <2>5 DEF StageOf, Typed, TypeOK
  <2>. QED BY <2>5, <2>6, ChainStays
<1>5. CASE UNCHANGED <<run, task>>
  BY <1>5, QuietChain DEF OwnKept
<1>. QED
  BY <1>1, <1>2, <1>3, <1>4, <1>5
  DEF Claim, ClaimScan, ClaimNothing, ClaimLease, ClaimDrop, rowVars

LEMMA WorkChain ==
  ASSUME ChainInv, NEW w \in Worker, Work(w)
  PROVE  ChainStepOK
<1>0. Typed
  BY RunTyped DEF ChainInv
<1>1. CASE CommitCompleted(w) \/ CommitWaiting(w)
  <2>. DEFINE t == held[w].task
              row == [task[t] EXCEPT !.status = "completed"]
  <2>1. /\ t \in Task /\ Live(t) /\ RunOf(w) = task[t].run
        /\ row.run = task[t].run
    BY <1>0, <1>1, CompleteTyped DEF CommitCompleted, CommitWaiting, RunOf, Live
  <2>2. task' = [task EXCEPT ![t] = row]
    BY <1>0, <1>1, <2>1 DEF CommitCompleted, CommitWaiting, Typed, TypeOK
  <2>. HIDE DEF row
  <2>3. OwnKept
    BY <1>0, <2>1, <2>2, RowKept
  <2>4. RunOf(w) \in Run /\ run[RunOf(w)] \in {"queued", "running"}
    BY <2>1, LiveRun
  <2>. QED
    BY <1>1, <2>3, <2>4, SettleChain DEF CommitCompleted, CommitWaiting
<1>2. CASE CommitYielded(w)
  <2>. DEFINE t == held[w].task
  <2>1. t \in Task /\ Live(t) /\ RunOf(w) = task[t].run /\ RunOf(w) \in Run
    BY <1>0, <1>2, CompleteTyped DEF CommitYielded, RunOf, Live
  <2>2. PICK u \in Task : /\ task[u].status = "absent"
                          /\ task' = [task EXCEPT ![t].status = "completed",
                                                  ![u] = NewTask(RunOf(w), DefaultMaxAttempts)]
    BY <1>2 DEF CommitYielded, NewTaskId
  <2>3. run' = [run EXCEPT ![RunOf(w)] = "queued"]
    BY <1>2 DEF CommitYielded
  <2>4. DefaultMaxAttempts \in Nat
    BY DEF DefaultMaxAttempts
  <2>. QED
    BY <2>1, <2>2, <2>3, <2>4, YieldChain
<1>3. CASE CommitFailed(w)
  <2>. DEFINE t == held[w].task
  <2>1. /\ t \in Task /\ Live(t) /\ RunOf(w) = task[t].run /\ task[t] \in TaskRow
        /\ Now \in 0..Now
    BY <1>0, <1>3, TimeRange
    DEF CommitFailed, LeasedUnder, RunOf, Live, Typed, TypeOK, HeldOK, Owning
  <2>2. task' = [task EXCEPT ![t] = Released(task[t], Now)]
    BY <1>0, <1>3, <2>1 DEF CommitFailed, Typed, TypeOK
  <2>3. OwnKept
    BY <1>0, <2>1, <2>2, ReleasedRow, RowKept
  <2>4. RunOf(w) \in Run /\ run[RunOf(w)] \in {"queued", "running"}
    BY <2>1, LiveRun
  <2>5. run' = [run EXCEPT ![RunOf(w)] = "failed"] \/ UNCHANGED run
    BY <1>3 DEF CommitFailed
  <2>. QED
    BY <2>3, <2>4, <2>5, SettleChain, QuietChain
<1>4. CASE UNCHANGED <<run, task>>
  BY <1>4, QuietChain DEF OwnKept
<1>. QED
  BY <1>1, <1>2, <1>3, <1>4
  DEF Work, Start, Execute, LeaseLost, Validate, CommitNothing, rowVars

LEMMA ChainStep ==
  ASSUME ChainInv, [Next]_vars
  PROVE  ChainStepOK
<1>0. Typed
  BY RunTyped DEF ChainInv
<1>1. ASSUME NEW r \in Run, NEW limit \in Nat, EnqueueRun(r, limit) PROVE ChainStepOK
  BY <1>1, OpenChain
<1>2. ASSUME NEW w \in Worker, Reap(w) \/ Claim(w) \/ Work(w) PROVE ChainStepOK
  BY <1>2, ReapChain, ClaimChain, WorkChain
<1>3. ASSUME NEW w \in Worker, Beat(w) \/ Crash(w) PROVE ChainStepOK
  <2>1. UNCHANGED <<run, task>>
    BY <1>3 DEF Beat, BeatRead, BeatFails, BeatWrite, Crash, rowVars
  <2>. QED BY <2>1, QuietChain DEF OwnKept
<1>4. CASE Tick
  <2>1. OwnKept
    BY <1>0, <1>4, AgedRows DEF Tick, OwnKept, Typed, TypeOK
  <2>2. UNCHANGED run
    BY <1>4 DEF Tick
  <2>. QED BY <2>1, <2>2, QuietChain
<1>5. CASE UNCHANGED vars
  BY <1>5, QuietChain DEF vars, OwnKept
<1>. QED
  BY <1>1, <1>2, <1>3, <1>4, <1>5, EngineAssumption
  DEF Next, StartRun, ContinueRun, DefaultMaxAttempts

LEMMA ChainStart == Init => FiniteOK /\ Chain!ChainInit
<1>. SUFFICES ASSUME Init PROVE FiniteOK /\ Chain!ChainInit
  OBVIOUS
<1>1. \A r \in Run : Own(r) = {}
  BY Values, EngineAssumption DEF Init, Own
<1>2. \A r \in Run : StageOf(r) = "absent"
  BY DEF Init, StageOf
<1>3. IsFiniteSet({}) /\ Cardinality({}) = 0
  BY FS_EmptySet
<1>. QED
  BY <1>1, <1>2, <1>3 DEF FiniteOK, Chain!ChainInit, Own

\* As long as claims are prompt, the engine implements the chain of slices it promises:
\* whatever claims, yields, retries, reaps, zombies and crashes do, each step of the rows
\* is one step of one run (it opens, it advances by one slice, or its status settles for
\* good) or no step of any.
THEOREM EngineIsOneChain == Prompt /\ Spec => RunIsOneChain
<1>1. Prompt /\ Init => ChainInv /\ Chain!ChainInit
  BY RunInvInit, ChainStart DEF ChainInv
<1>2. ChainInv /\ [Next]_vars => ChainInv' /\ [Chain!ChainNext]_(Chain!chainVars)
  BY RunInvNext, ChainStep DEF ChainInv, ChainStepOK, Prompt
<1>. QED
  BY <1>1, <1>2, PTL DEF Spec, RunIsOneChain, Chain!ChainSpec

=============================================================================
