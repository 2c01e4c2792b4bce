------------------------------ MODULE RecordingSink ------------------------------
(***************************************************************************)
(* The history of a conversation's run (runtime events.ts, euroclaw        *)
(* events.ts, storage/durable claws.ts): the runtime tells what happens to *)
(* a tool call and to the run, one event after the other, and the          *)
(* recording sink keeps it as rows.  The run fails if the sink does.       *)
(*                                                                         *)
(* A call that waits for an approval is continued by another invocation,   *)
(* any number of times, by the api under the run's own id or by the engine *)
(* under an id of its own.  The sink reads before it writes, and the       *)
(* events of two invocations interleave.                                   *)
(***************************************************************************)
EXTENDS Naturals, Sequences, FiniteSets, Functions

CONSTANTS
  Actor,        \* invocations of the runtime that may run at the same time
  Own,          \* the id of the run
  Others,       \* ids of engine runs that continue it
  Text,         \* what the model says in the end
  MaxBegun,     \* bound on the invocations
  None

VARIABLES
  call,         \* the tool_call row, or None
  results,      \* the tool_result rows
  messages,     \* the assistant's message rows
  checkpoints,  \* the checkpoint rows of the history
  approval,     \* the approval that the call waits for
  parked,       \* how many times the run yielded and was not resumed
  actor,        \* each invocation's own state
  begun,
  last,         \* (history) the invocation that came to its end last, or None if one has begun since
  ran,          \* (history) ids under which the tool answered
  contested     \* (history) whether two invocations ever overlapped

vars == <<call, results, messages, checkpoints, approval, parked, actor, begun, last, ran, contested>>

Run == {Own} \cup Others
Idle == [op |-> "idle"]

\* The rows: a row of the call has its status and whether it names an approval; a denied call has a
\* failed result; there are two kinds of checkpoints.
ToolCall == [status : {"proposed", "waiting_approval", "completed", "denied", "failed"},
             approval : BOOLEAN]
ToolResult == [run : Run, status : {"completed", "failed"}]
Message == [run : Run, text : Text]
Checkpoint == [run : Run, kind : {"approval_wait", "step"}]
Approval == {"pending", "approved", "denied", "consumed"}

RecordingAssumption == MaxBegun \in Nat /\ None \notin ToolCall \cup Approval

TypeOK ==
  /\ call \in ToolCall \cup {None}
  /\ Range(results) \subseteq ToolResult
  /\ Range(messages) \subseteq Message
  /\ Range(checkpoints) \subseteq Checkpoint
  /\ approval \in Approval \cup {None}
  /\ begun \in 0..MaxBegun /\ parked \in 0..begun
  /\ \A p \in Actor : actor[p].op \in {"idle", "tool", "resume", "emit", "list", "create"}

Init ==
  /\ call = None
  /\ results = <<>> /\ messages = <<>> /\ checkpoints = <<>>
  /\ approval = None
  /\ parked = 0
  /\ actor = [p \in Actor |-> Idle]
  /\ begun = 0
  /\ last = None /\ ran = {} /\ contested = FALSE

Rows == <<call, results, messages, checkpoints>>

-----------------------------------------------------------------------------
(* The invocations.                                                        *)

\* What an invocation still has to tell, and what its call came to.
Tells(p, todo, status, text) ==
  actor' = [actor EXCEPT ![p] = [op |-> "emit", run |-> @.run, alone |-> @.alone, todo |-> todo,
                                 status |-> status, text |-> text]]

\* An event carries the id that the invocation was given, or else the recording's.
Begins(p, run, op, todo, status, text) ==
  LET others == {q \in Actor : actor[q] # Idle} IN
  /\ actor[p] = Idle /\ begun < MaxBegun /\ begun' = begun + 1
  /\ actor' = [q \in Actor |->
                 CASE q = p -> [op |-> op, run |-> run, alone |-> others = {}, todo |-> todo,
                                status |-> status, text |-> text]
                   [] q \in others -> [actor[q] EXCEPT !.alone = FALSE]
                   [] OTHER -> actor[q]]
  /\ last' = None
  /\ contested' = (contested \/ others # {})
  /\ UNCHANGED <<Rows, ran>>

Generate(p) ==
  /\ begun = 0
  /\ Begins(p, Own, "emit", <<"tool.called">>, "proposed", None)
  /\ UNCHANGED <<approval, parked>>

\* The loop yields: the messages and the step it comes to are kept for one resumption.
PersistYield == parked' = parked + 1

\* What follows an answer to the call: the model's last word, or the run yields.
Answers(p, event, status) ==
  \/ \E text \in Text : Tells(p, <<event, "run.completed">>, status, text) /\ UNCHANGED parked
  \/ Tells(p, <<event, "run.yielded">>, status, None) /\ PersistYield

\* The governed call of the tool; an approval can be decided as soon as it is parked, before the
\* invocation tells that it waits.
Called(p) ==
  /\ actor[p].op = "tool"
  /\ \/ /\ Tells(p, <<"tool.waiting_approval", "run.waiting_approval">>, "waiting_approval", None)
        /\ approval' = "pending" /\ UNCHANGED <<parked, ran>>
     \/ Tells(p, <<"tool.failed">>, "failed", None) /\ UNCHANGED <<approval, parked, ran>>
     \/ Answers(p, "tool.denied", "denied") /\ UNCHANGED <<approval, ran>>
     \/ Answers(p, "tool.completed", "completed") /\ ran' = ran \cup {actor[p].run} /\ UNCHANGED approval
  /\ UNCHANGED <<Rows, begun, last, contested>>

Decide ==
  /\ approval = "pending"
  /\ approval' \in {"approved", "denied"}
  /\ UNCHANGED <<Rows, parked, actor, begun, last, ran, contested>>

\* A denied approval is only told; one that was consumed is replayed.
Continue(p, run) ==
  /\ \/ approval = "denied" /\ Begins(p, run, "emit", <<"tool.denied", "run.denied">>, "denied", None)
     \/ approval \in {"approved", "consumed"} /\ Begins(p, run, "resume", <<>>, approval, None)
  /\ UNCHANGED <<approval, parked>>

\* The gates are asked again and may deny what was approved.  A tool that throws is not told of.
Resumed(p) ==
  /\ actor[p].op = "resume" /\ actor[p].status = approval
  /\ approval' = "consumed"
  /\ \/ Answers(p, "tool.completed", "completed") /\ ran' = ran \cup {actor[p].run}
     \/ Answers(p, "tool.denied", "denied") /\ UNCHANGED ran
  /\ UNCHANGED <<Rows, begun, last, contested>>

\* Another invocation consumed the approval in between.
Late(p) ==
  /\ actor[p].op = "resume" /\ actor[p].status # approval
  /\ actor' = [actor EXCEPT ![p] = Idle]
  /\ UNCHANGED <<Rows, approval, parked, begun, last, ran, contested>>

\* The run goes on behind the point where it yielded.
ResumeRun(p, run) ==
  /\ parked > 0 /\ parked' = parked - 1
  /\ \E text \in Text : Begins(p, run, "emit", <<"run.completed">>, "resumed", text)
  /\ UNCHANGED approval

Fail(p) ==
  /\ actor[p] # Idle
  /\ actor' = [actor EXCEPT ![p] = Idle]
  /\ approval' \in {approval} \cup (IF actor[p].op = "resume" THEN {"consumed"} ELSE {})
  /\ UNCHANGED <<Rows, parked, begun, last, ran, contested>>

-----------------------------------------------------------------------------
(* The sink.                                                               *)

Event(p) == IF actor[p].op \in {"emit", "list"} THEN Head(actor[p].todo) ELSE "none"

\* The next event; after the last one the invocation answers, or calls its tool.
Done(p) ==
  LET self == actor[p]
      rest == Tail(self.todo)
  IN  CASE rest # <<>> ->
             actor' = [actor EXCEPT ![p] = [self EXCEPT !.op = "emit", !.todo = rest]] /\ UNCHANGED last
        [] rest = <<>> /\ Head(self.todo) = "tool.called" ->
             actor' = [actor EXCEPT ![p].op = "tool"] /\ UNCHANGED last
        [] OTHER ->
             /\ actor' = [actor EXCEPT ![p] = Idle]
             /\ last' = IF self.alone THEN [run |-> self.run, status |-> self.status, text |-> self.text] ELSE None

CreateCall(p) ==
  /\ Event(p) = "tool.called"
  /\ call' = [status |-> "proposed", approval |-> FALSE]
  /\ Done(p)
  /\ UNCHANGED <<results, messages, checkpoints, approval, parked, begun, ran, contested>>

\* The row of a call is found by the id of the event, which is not the row's for an engine run.
Marked(p) ==
  IF call = None \/ actor[p].run # Own THEN call
  ELSE [status |-> actor[p].status, approval |-> call.approval \/ actor[p].status = "waiting_approval"]

Wait(p) ==
  /\ Event(p) = "tool.waiting_approval"
  /\ call' = Marked(p)
  /\ Done(p)
  /\ UNCHANGED <<results, messages, checkpoints, approval, parked, begun, ran, contested>>

\* Mutant: any result will do, as it does for a call that was denied.
Recorded_Any(p) ==
  CASE Event(p) = "run.completed" -> [run |-> actor[p].run, text |-> actor[p].text] \in Range(messages)
    [] OTHER -> \E i \in DOMAIN results : results[i].run = actor[p].run

\* What is recorded of an invocation: the results of its call, or the messages of its run.
Recorded(p) ==
  CASE Event(p) = "run.completed" -> [run |-> actor[p].run, text |-> actor[p].text] \in Range(messages)
    [] Event(p) = "tool.completed" -> [run |-> actor[p].run, status |-> "completed"] \in Range(results)
    [] OTHER -> \E i \in DOMAIN results : results[i].run = actor[p].run

\* The status is written before the results are read; a row is created if there was none.
Mark(p) ==
  /\ actor[p].op = "emit" /\ Event(p) \in {"tool.completed", "tool.denied", "tool.failed"}
  /\ call' = Marked(p)
  /\ actor' = [actor EXCEPT ![p].op = "list"] /\ UNCHANGED last
  /\ UNCHANGED <<results, messages, checkpoints, approval, parked, begun, ran, contested>>

\* What is listed decides whether a row is created.
List(p) ==
  LET self == actor[p] IN
  /\ self.op = "list" \/ Event(p) = "run.completed"
  /\ IF Recorded(p) THEN Done(p) ELSE actor' = [actor EXCEPT ![p].op = "create"] /\ UNCHANGED last
  /\ UNCHANGED <<Rows, approval, parked, begun, ran, contested>>

Create(p) ==
  LET self == actor[p] IN
  /\ self.op = "create"
  /\ IF Head(self.todo) = "run.completed"
     THEN messages' = Append(messages, [run |-> self.run, text |-> self.text]) /\ UNCHANGED results
     ELSE /\ results' = Append(results, [run |-> self.run,
                                         status |-> IF self.status = "completed" THEN "completed" ELSE "failed"])
          /\ UNCHANGED messages
  /\ Done(p)
  /\ UNCHANGED <<call, checkpoints, approval, parked, begun, ran, contested>>

CreateCheckpoint(p) ==
  /\ \/ Event(p) = "run.waiting_approval"
        /\ checkpoints' = Append(checkpoints, [run |-> actor[p].run, kind |-> "approval_wait"])
     \/ Event(p) = "run.yielded"
        /\ checkpoints' = Append(checkpoints, [run |-> actor[p].run, kind |-> "step"])
  /\ Done(p)
  /\ UNCHANGED <<call, results, messages, approval, parked, begun, ran, contested>>

\* The sink keeps nothing of it.
Ignore(p) ==
  /\ Event(p) = "run.denied"
  /\ Done(p)
  /\ UNCHANGED <<Rows, approval, parked, begun, ran, contested>>

Next ==
  \/ Decide
  \/ \E p \in Actor :
       \/ Generate(p) \/ Called(p) \/ Resumed(p) \/ Late(p) \/ Fail(p)
       \/ \E run \in Run : Continue(p, run) \/ ResumeRun(p, run)
       \/ CreateCall(p) \/ Wait(p) \/ Mark(p) \/ List(p) \/ Create(p)
       \/ CreateCheckpoint(p) \/ Ignore(p)

Spec == Init /\ [][Next]_vars

-----------------------------------------------------------------------------
(* Properties.                                                             *)

Count(rows, row) == Cardinality({i \in DOMAIN rows : rows[i] = row})

\* The history is what happened: a completed result is of a tool that answered; when an invocation
\* came to its end and no other one ran beside it, its run has a result and the message it ended
\* with, the row of the call says what it came to or waits, with the checkpoint that says so; and
\* however often a call was continued after invocations that failed anywhere, its run has a result
\* or a message twice only if two of them overlapped (createClawRuntimeEventSink).
HistoryIsWhatHappened ==
  /\ \A i \in DOMAIN results : results[i].status = "completed" => results[i].run \in ran
  /\ (last # None) =>
       /\ last.run = Own /\ last.status # "resumed" => call.status = last.status
       /\ last.status = "completed" => [run |-> last.run, status |-> "completed"] \in Range(results)
       /\ last.status \in {"denied", "failed"} => \E i \in DOMAIN results : results[i].run = last.run
       /\ last.status = "waiting_approval" =>
            call.approval /\ checkpoints[Len(checkpoints)] = [run |-> Own, kind |-> "approval_wait"]
       /\ last.text # None => [run |-> last.run, text |-> last.text] \in Range(messages)
  /\ ~contested =>
       /\ \A row \in Range(results) : Count(results, row) = 1
       /\ \A row \in Range(messages) : Count(messages, row) = 1
================================================================================
