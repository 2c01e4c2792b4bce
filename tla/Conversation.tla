----------------------------- MODULE Conversation -----------------------------
(***************************************************************************)
(* One external conversation and the bot that answers it: a provider that  *)
(* keeps updates until they are acknowledged, the handlers that relay them *)
(* (a cron that polls, or webhook requests; plugins/channels dispatch.ts), *)
(* bindConversation and sendMessage of the claw API, the claws store with  *)
(* its thread cursor, and the sink that records a run's answer.            *)
(*                                                                         *)
(* Several crons or webhook requests may run at once, in any processes, so *)
(* every store statement and every call of the provider or of the runtime  *)
(* is an action.  appendMessage is a transaction: it reads the thread, and *)
(* its conditional update of the cursor commits or rolls back its writes.  *)
(***************************************************************************)
EXTENDS Naturals, Sequences

CONSTANTS
  Handler,      \* crons and webhook requests that may run at the same time
  Claw,         \* ids of claws; bindConversation gives a claw one thread
  None,         \* no claw
  MaxUpdates,   \* bound: how many updates the provider gets
  MaxBatches,   \* bound: how often a handler begins
  MaxFailures   \* bound: how many handlers throw or crash

ASSUME ConversationAssumption ==
  /\ None \notin Claw
  /\ MaxUpdates \in Nat /\ MaxBatches \in Nat /\ MaxFailures \in Nat

VARIABLES
  mode,       \* how the bot is run: "poll" or "webhook"
  arrived,    \* the updates 1..arrived are with the provider
  mute,       \* updates that carry no text message
  gone,       \* updates that the provider does not deliver again
  cursor,     \* cursor column of the endpoint row: the next offset; 1 when there is none
  claws,      \* claw rows
  binding,    \* the claws that conversation_binding rows of the conversation name
  tail,       \* tail[c]: currentSequence of c's thread
  messages,   \* messages[c]: message rows of c's thread, in order of their commits
  pc,         \* pc[h]: the next statement of handler h
  todo,       \* todo[h]: updates of its batch that h has not handled
  mark,       \* mark[h]: the offset h saves, or the update it acknowledges
  claw,       \* claw[h]: the claw that h relays to
  at,         \* at[h]: the currentSequence that an append of h has read
  handled,    \* history: updates that some handler handled to the end
  replied,    \* history: updates the bot replied to
  batches,    \* number of batches begun so far
  failures    \* number of failures so far

provider == <<arrived, mute, gone>>
store == <<claws, binding, tail, messages>>
history == <<handled, replied>>
vars == <<mode, provider, cursor, store, pc, todo, mark, claw, at, history,
          batches, failures>>

Update == 1..MaxUpdates
Offset == 1..(MaxUpdates + 1)
Role == {"user", "assistant"}
MessageRow == [sequence : Nat, update : Update, role : Role]

\* Updates are polled and relayed in the order of their ids.
First_Newest(S) == CHOOSE u \in S : \A v \in S : v <= u
First(S) == CHOOSE u \in S : \A v \in S : u <= v
Current(h) == First(todo[h])

Goto(h, label) == pc' = [pc EXCEPT ![h] = label]

Init ==
  /\ mode \in {"poll", "webhook"}
  /\ arrived = 0 /\ mute = {} /\ gone = {} /\ cursor = 1
  /\ claws = {} /\ binding = {}
  /\ tail = [c \in Claw |-> 0] /\ messages = [c \in Claw |-> <<>>]
  /\ pc = [h \in Handler |-> "idle"] /\ todo = [h \in Handler |-> {}]
  /\ mark = [h \in Handler |-> 1] /\ claw = [h \in Handler |-> None]
  /\ at = [h \in Handler |-> 0]
  /\ handled = {} /\ replied = {} /\ batches = 0 /\ failures = 0

-----------------------------------------------------------------------------
(* Deliveries.                                                             *)

\* Somebody writes to the bot, or the provider reports what is no text message.
Arrive ==
  /\ arrived < MaxUpdates
  /\ arrived' = arrived + 1
  /\ mute' \in {mute, mute \cup {arrived + 1}}
  /\ UNCHANGED <<mode, gone, cursor, store, pc, todo, mark, claw, at, history,
                 batches, failures>>

\* pollTask: the endpoint's state row is read for its cursor.
PollRead(h) ==
  /\ mode = "poll" /\ pc[h] = "idle" /\ batches < MaxBatches
  /\ mark' = [mark EXCEPT ![h] = cursor]
  /\ batches' = batches + 1
  /\ Goto(h, "fetch")
  /\ UNCHANGED <<mode, provider, cursor, store, todo, claw, at, history, failures>>

\* The offset past an update; one that carries no message counts as well.
NextOffset(u) == u + 1

Relay(h, updates) ==
  /\ todo' = [todo EXCEPT ![h] = updates \ mute]
  /\ Goto(h, IF updates \subseteq mute THEN "persist" ELSE "bind")

\* getUpdates: the offset acknowledges every update below it, and a batch of the
\* oldest others comes back, no longer than the limit.
Fetch(h) ==
  /\ pc[h] = "fetch"
  /\ gone' = gone \cup {u \in 1..arrived : u < mark[h]}
  /\ LET waiting == {u \in 1..arrived : u >= mark[h] /\ u \notin gone}
     IN \/ waiting = {} /\ Relay(h, {}) /\ UNCHANGED mark
        \/ \E last \in waiting :
             /\ Relay(h, {u \in waiting : u <= last})
             /\ mark' = [mark EXCEPT ![h] = NextOffset(last)]
  /\ UNCHANGED <<mode, arrived, mute, cursor, store, claw, at, history, batches, failures>>

\* The provider posts an update until a request for it is answered with 200; it may
\* give a slow request up and post the update again.
Deliver(h) ==
  /\ mode = "webhook" /\ pc[h] = "idle" /\ batches < MaxBatches
  /\ \E u \in 1..arrived \ gone :
       /\ Relay(h, {u})
       /\ mark' = [mark EXCEPT ![h] = u]
  /\ batches' = batches + 1
  /\ UNCHANGED <<mode, provider, cursor, store, claw, at, history, failures>>

-----------------------------------------------------------------------------
(* bindConversation.                                                       *)

\* A row of the conversation, any if there are several, or none.
BindRead(h) ==
  /\ pc[h] = "bind"
  /\ \/ \E c \in binding : claw' = [claw EXCEPT ![h] = c] /\ Goto(h, "ask")
     \/ binding = {} /\ Goto(h, "claw") /\ UNCHANGED claw
  /\ UNCHANGED <<mode, provider, cursor, store, todo, mark, at, history, batches, failures>>

BindClaw(h) ==
  /\ pc[h] = "claw"
  /\ \E c \in Claw \ claws : claws' = claws \cup {c} /\ claw' = [claw EXCEPT ![h] = c]
  /\ Goto(h, "thread")
  /\ UNCHANGED <<mode, provider, cursor, binding, tail, messages, todo, mark, at, history,
                 batches, failures>>

BindThread(h) ==
  /\ pc[h] = "thread"
  /\ tail' = [tail EXCEPT ![claw[h]] = 0]
  /\ Goto(h, "binding")
  /\ UNCHANGED <<mode, provider, cursor, claws, binding, messages, todo, mark, claw, at,
                 history, batches, failures>>

BindCreate(h) ==
  /\ pc[h] = "binding"
  /\ binding' = binding \cup {claw[h]}
  /\ Goto(h, "ask")
  /\ UNCHANGED <<mode, provider, cursor, claws, tail, messages, todo, mark, claw, at,
                 history, batches, failures>>

-----------------------------------------------------------------------------
(* sendMessage and the end of a handler.                                   *)

\* A handler that ends, or throws, forgets everything but the rows it wrote.
End(h) ==
  /\ Goto(h, "idle")
  /\ todo' = [todo EXCEPT ![h] = {}]
  /\ mark' = [mark EXCEPT ![h] = 1]
  /\ claw' = [claw EXCEPT ![h] = None]
  /\ at' = [at EXCEPT ![h] = 0]

\* append begins: the user's message before the run, or the answer after it.
AppendRead(h) ==
  /\ \/ pc[h] = "ask" /\ Goto(h, "asked")
     \/ pc[h] = "answer" /\ Goto(h, "answered")
  /\ at' = [at EXCEPT ![h] = tail[claw[h]]]
  /\ UNCHANGED <<mode, provider, cursor, store, todo, mark, claw, history, batches, failures>>

\* The conditional update of the thread finds the cursor that was read.
AtCursor_Unchecked(h) == TRUE

AtCursor(h) == tail[claw[h]] = at[h]

Row(h, role) == [sequence |-> at[h] + 1, update |-> Current(h), role |-> role]

\* append ends: the row and the new cursor, or an error that ends the handler.
AppendCommit(h) ==
  /\ pc[h] \in {"asked", "answered"}
  /\ AtCursor(h)
  /\ \/ /\ pc[h] = "asked" /\ Goto(h, "run")
        /\ messages' = [messages EXCEPT ![claw[h]] = Append(@, Row(h, "user"))]
     \/ /\ pc[h] = "answered" /\ Goto(h, "reply")
        /\ messages' = [messages EXCEPT ![claw[h]] = Append(@, Row(h, "assistant"))]
  /\ tail' = [tail EXCEPT ![claw[h]] = at[h] + 1]
  /\ at' = [at EXCEPT ![h] = 0]
  /\ UNCHANGED <<mode, provider, cursor, claws, binding, todo, mark, claw, history,
                 batches, failures>>

AppendFails(h) ==
  /\ pc[h] \in {"asked", "answered"}
  /\ ~ AtCursor(h)
  /\ End(h)
  /\ UNCHANGED <<mode, provider, cursor, store, history, batches, failures>>

\* handleInbound returns: the next message of the batch follows, or the end of it.
Handled(h) ==
  /\ handled' = handled \cup {Current(h)}
  /\ todo' = [todo EXCEPT ![h] = @ \ {Current(h)}]
  /\ claw' = [claw EXCEPT ![h] = None]
  /\ Goto(h, IF todo[h] = {Current(h)} THEN "persist" ELSE "bind")

\* A run that completed emits its answer to the recording sink, whose failure would be
\* the run's; one that waits for an approval leaves no answer and no reply yet.
Completed(h) == Goto(h, "answer")

Run(h) ==
  /\ pc[h] = "run"
  /\ \/ Completed(h) /\ UNCHANGED <<todo, claw, handled>>
     \/ Handled(h)
  /\ UNCHANGED <<mode, provider, cursor, store, mark, at, replied, batches, failures>>

\* channel.send; an answer without text is not sent.
Reply(h) ==
  /\ pc[h] = "reply"
  /\ replied' \in {replied, replied \cup {Current(h)}}
  /\ Handled(h)
  /\ UNCHANGED <<mode, provider, cursor, store, mark, at, batches, failures>>

\* The cursor that an event of the endpoint leaves in its state row: only a batch that
\* was polled and handled moves it, to where that batch ended; an empty one that asked
\* without an offset ends nowhere, and the update leaves an undefined cursor out.
Recorded_Always(h, event) == mark[h]

Recorded(h, event) == IF event = "polled" /\ mark[h] > 1 THEN mark[h] ELSE cursor

\* The batch is done: the cursor is saved, or the request is answered with 200.
Persist(h) ==
  /\ pc[h] = "persist"
  /\ \/ mode = "poll" /\ cursor' = Recorded(h, "polled") /\ UNCHANGED gone
     \/ mode = "webhook" /\ gone' = gone \cup {mark[h]} /\ UNCHANGED cursor
  /\ End(h)
  /\ UNCHANGED <<mode, arrived, mute, store, history, batches, failures>>

\* A statement, the runtime or the provider throws, and the error is recorded and
\* thrown on; or the process ends.
Fail(h) ==
  /\ pc[h] # "idle"
  /\ failures < MaxFailures
  /\ failures' = failures + 1
  /\ cursor' = IF mode = "poll" THEN Recorded(h, "poll-error") ELSE cursor
  /\ End(h)
  /\ UNCHANGED <<mode, provider, store, history, batches>>

Bind(h) == BindRead(h) \/ BindClaw(h) \/ BindThread(h) \/ BindCreate(h)

Send(h) ==
  AppendRead(h) \/ AppendCommit(h) \/ AppendFails(h) \/ Run(h) \/ Reply(h)

Handle(h) ==
  PollRead(h) \/ Fetch(h) \/ Deliver(h) \/ Bind(h) \/ Send(h) \/ Persist(h) \/ Fail(h)

\* Nothing is under way: no cron fires and no request comes in.
Quiet == (\A h \in Handler : pc[h] = "idle") /\ UNCHANGED vars

Next == Arrive \/ Quiet \/ \E h \in Handler : Handle(h)

Spec == Init /\ [][Next]_vars

-----------------------------------------------------------------------------
(* Properties.                                                             *)

Label == {"idle", "fetch", "bind", "claw", "thread", "binding", "ask", "asked", "run",
          "answer", "answered", "reply", "persist"}

TypeOK ==
  /\ mode \in {"poll", "webhook"}
  /\ arrived \in 0..MaxUpdates /\ mute \subseteq Update /\ gone \subseteq Update
  /\ cursor \in Offset
  /\ claws \subseteq Claw /\ binding \subseteq Claw
  /\ tail \in [Claw -> Nat] /\ messages \in [Claw -> Seq(MessageRow)]
  /\ pc \in [Handler -> Label] /\ todo \in [Handler -> SUBSET Update]
  /\ mark \in [Handler -> Offset] /\ claw \in [Handler -> Claw \cup {None}]
  /\ at \in [Handler -> Nat]
  /\ handled \subseteq Update /\ replied \subseteq Update
  /\ batches \in 0..MaxBatches /\ failures \in 0..MaxFailures

\* Whoever appends, a thread is one numbered sequence: the numbers of its rows have
\* neither a gap nor a double, and the cursor is the number of the last.
ThreadIsSequence ==
  \A c \in Claw : /\ tail[c] = Len(messages[c])
                  /\ \A i \in 1..Len(messages[c]) : messages[c][i].sequence = i

\* An update that the provider will not deliver again, or that the next poll
\* acknowledges, was handled to its end by somebody, whatever failed in between.
NothingIsSkipped ==
  \A u \in 1..arrived :
    u \in gone \/ u < cursor => u \in mute \/ u \in handled

\* The updates whose message, or whose answer, some thread has a row of.
InTranscript(role) ==
  {u \in Update : \E c \in Claw : \E i \in 1..Len(messages[c]) :
                   messages[c][i].update = u /\ messages[c][i].role = role}

\* Polled messages reach the transcript in the order they were written in, also when
\* crons overlap, fail and poll again: none is there before an earlier one.
AskedInOrder ==
  mode = "poll" =>
    \A u \in InTranscript("user") : \A v \in 1..u : v \in mute \/ v \in InTranscript("user")

\* "a run that cannot record must fail" (runtime events.ts): the bot says nothing that
\* is not in the transcript.
RepliesAreRecorded == replied \subseteq InTranscript("assistant")

\* "idempotently binds an external conversation to a durable Claw thread"
\* (conversation-binding.test.ts): a conversation does not get two.
BoundOnce == \A c, d \in binding : c = d

==============================================================================
