-------------------------- MODULE ConversationProofs --------------------------
(***************************************************************************)
(* Proofs about conversations, for any number of handlers, claws, updates, *)
(* batches and failures.                                                   *)
(***************************************************************************)
EXTENDS Conversation, WellFoundedInduction, TLAPS

----------------------------------------------------------------------------
(* Type correctness.                                                       *)

\* The labels at which a handler has a message in its hands, and those at which it has
\* a claw for it.
InHand == {"bind", "claw", "thread", "binding", "ask", "asked", "run", "answer",
           "answered", "reply"}
WithClaw == {"thread", "binding", "ask", "asked", "run", "answer", "answered", "reply"}

HandlerOK ==
  \A h \in Handler :
    /\ pc[h] = "fetch" => mode = "poll"
    /\ mode = "webhook" /\ pc[h] # "idle" => mark[h] \in Update
    /\ pc[h] \in InHand => todo[h] # {}
    /\ pc[h] \notin InHand => todo[h] = {}
    /\ pc[h] \in WithClaw => claw[h] \in Claw

Typed == TypeOK /\ HandlerOK

LEMMA FirstIs ==
  ASSUME NEW S \in SUBSET Nat, S # {}
  PROVE  First(S) \in S /\ \A v \in S : First(S) <= v
<1>1. PICK u \in S : \A v \in S : <<v, u>> \notin OpToRel(<, Nat)
  BY NatLessThanWellFounded, WFMin
<1>2. \A v \in S : ~ (v < u)
  <2>1. \A m, n \in Nat : m < n => <<m, n>> \in OpToRel(<, Nat)
    BY Zenon DEF OpToRel
  <2>. QED BY <1>1, <2>1, Zenon
<1>3. \A v \in S : u <= v
  BY <1>2
<1>. QED BY <1>3 DEF First

\* The message in a handler's hands is the first of its batch that is left.
LEMMA CurrentIs ==
  ASSUME Typed, NEW h \in Handler, pc[h] \in InHand
  PROVE  /\ Current(h) \in todo[h] /\ Current(h) \in Update
         /\ \A v \in todo[h] : Current(h) <= v
<1>1. todo[h] \in SUBSET Update /\ todo[h] # {} /\ Update \subseteq Nat
  BY DEF Typed, TypeOK, HandlerOK, Update
<1>. QED BY <1>1, FirstIs DEF Current

LEMMA TypedInit == Init => Typed
<1>. SUFFICES ASSUME Init PROVE Typed
  OBVIOUS
<1>1. messages \in [Claw -> Seq(MessageRow)]
  BY DEF Init
<1>2. TypeOK
  BY <1>1, ConversationAssumption DEF Init, TypeOK, Label, Offset, Update
<1>3. HandlerOK
  BY DEF Init, HandlerOK, InHand, WithClaw
<1>. QED BY <1>2, <1>3 DEF Typed

\* What a handler knows after it got a batch.
LEMMA RelayTyped ==
  ASSUME Typed, NEW h \in Handler, NEW S \in SUBSET Update, Relay(h, S),
         mode' = mode, claw' = claw, mark' \in [Handler -> Offset],
         \A g \in Handler \ {h} : mark'[g] = mark[g],
         mode = "webhook" => mark'[h] \in Update
  PROVE  /\ pc' \in [Handler -> Label] /\ todo' \in [Handler -> SUBSET Update]
         /\ HandlerOK'
<1>1. /\ todo' = [todo EXCEPT ![h] = S \ mute]
      /\ pc' = [pc EXCEPT ![h] = IF S \subseteq mute THEN "persist" ELSE "bind"]
  BY DEF Relay, Goto
<1>2. pc' \in [Handler -> Label] /\ todo' \in [Handler -> SUBSET Update]
  BY <1>1 DEF Typed, TypeOK, Label
<1>3. HandlerOK'
  <2>. SUFFICES ASSUME NEW g \in Handler
                PROVE  /\ pc'[g] = "fetch" => mode' = "poll"
                       /\ mode' = "webhook" /\ pc'[g] # "idle" => mark'[g] \in Update
                       /\ pc'[g] \in InHand => todo'[g] # {}
                       /\ pc'[g] \notin InHand => todo'[g] = {}
                       /\ pc'[g] \in WithClaw => claw'[g] \in Claw
    BY DEF HandlerOK, Update
  <2>1. CASE g = h
    BY <1>1, <2>1 DEF Typed, TypeOK, InHand, WithClaw
  <2>2. CASE g # h
    BY <1>1, <2>2 DEF Typed, TypeOK, HandlerOK
  <2>. QED BY <2>1, <2>2
<1>. QED BY <1>2, <1>3

LEMMA EndTyped ==
  ASSUME Typed, NEW h \in Handler, End(h), mode' = mode
  PROVE  /\ pc' \in [Handler -> Label] /\ todo' \in [Handler -> SUBSET Update]
         /\ mark' \in [Handler -> Offset] /\ claw' \in [Handler -> Claw \cup {None}]
         /\ at' \in [Handler -> Nat]
         /\ HandlerOK'
<1>1. 1 \in Offset
  BY ConversationAssumption DEF Offset
<1>2. /\ pc' \in [Handler -> Label] /\ todo' \in [Handler -> SUBSET Update]
      /\ mark' \in [Handler -> Offset] /\ claw' \in [Handler -> Claw \cup {None}]
      /\ at' \in [Handler -> Nat]
  BY <1>1 DEF End, Goto, Typed, TypeOK, Label
<1>3. HandlerOK'
  BY DEF End, Goto, Typed, TypeOK, HandlerOK, InHand, WithClaw, Update
<1>. QED BY <1>2, <1>3

LEMMA HandledTyped ==
  ASSUME Typed, NEW h \in Handler, pc[h] \in {"run", "reply"}, Handled(h),
         mode' = mode, mark' = mark
  PROVE  /\ pc' \in [Handler -> Label] /\ todo' \in [Handler -> SUBSET Update]
         /\ claw' \in [Handler -> Claw \cup {None}] /\ handled' \subseteq Update
         /\ HandlerOK'
<1>0. Current(h) \in todo[h] /\ Current(h) \in Update
  BY CurrentIs DEF InHand
<1>1. /\ handled' = handled \cup {Current(h)}
      /\ todo' = [todo EXCEPT ![h] = todo[h] \ {Current(h)}]
      /\ claw' = [claw EXCEPT ![h] = None]
      /\ pc' = [pc EXCEPT ![h] = IF todo[h] = {Current(h)} THEN "persist" ELSE "bind"]
  BY DEF Handled, Goto
<1>2. /\ pc' \in [Handler -> Label] /\ todo' \in [Handler -> SUBSET Update]
      /\ claw' \in [Handler -> Claw \cup {None}] /\ handled' \subseteq Update
  BY <1>0, <1>1 DEF Typed, TypeOK, Label
<1>3. HandlerOK'
  <2>. SUFFICES ASSUME NEW g \in Handler
                PROVE  /\ pc'[g] = "fetch" => mode' = "poll"
                       /\ mode' = "webhook" /\ pc'[g] # "idle" => mark'[g] \in Update
                       /\ pc'[g] \in InHand => todo'[g] # {}
                       /\ pc'[g] \notin InHand => todo'[g] = {}
                       /\ pc'[g] \in WithClaw => claw'[g] \in Claw
    BY DEF HandlerOK, Update
  <2>1. CASE g = h
    BY <1>0, <1>1, <2>1 DEF Typed, TypeOK, HandlerOK, InHand, WithClaw
  <2>2. CASE g # h
    BY <1>1, <2>2 DEF Typed, TypeOK, HandlerOK
  <2>. QED BY <2>1, <2>2
<1>. QED BY <1>2, <1>3

LEMMA TypedStep == Typed /\ [Next]_vars => Typed'
<1>. SUFFICES ASSUME Typed, [Next]_vars PROVE Typed'
  OBVIOUS
<1>1. CASE Arrive
  <2>1. TypeOK'
    BY <1>1, ConversationAssumption
    DEF Arrive, Typed, TypeOK, store, history, Update
  <2>2. HandlerOK'
    BY <1>1 DEF Arrive, Typed, HandlerOK, Update
  <2>. QED BY <2>1, <2>2 DEF Typed
<1>2. ASSUME NEW h \in Handler, PollRead(h) PROVE Typed'
  <2>1. TypeOK'
    BY <1>2, ConversationAssumption
    DEF PollRead, Goto, Typed, TypeOK, provider, store, history, Label
  <2>2. HandlerOK'
    BY <1>2 DEF PollRead, Goto, Typed, TypeOK, HandlerOK, InHand, WithClaw, Update
  <2>. QED BY <2>1, <2>2 DEF Typed
<1>3. ASSUME NEW h \in Handler, Fetch(h) PROVE Typed'
  <2>. DEFINE waiting == {u \in 1..arrived : u >= mark[h] /\ u \notin gone}
  <2>1. /\ pc[h] = "fetch" /\ gone' = gone \cup {u \in 1..arrived : u < mark[h]}
        /\ UNCHANGED <<mode, arrived, mute, cursor, store, claw, at, history, batches,
                       failures>>
    BY <1>3 DEF Fetch
  <2>2. mode = "poll" /\ 1..arrived \subseteq Update
    BY <2>1, ConversationAssumption DEF Typed, TypeOK, HandlerOK, Update
  <2>3. \E S \in SUBSET Update :
          /\ Relay(h, S)
          /\ \/ mark' = mark
             \/ \E last \in 1..arrived : mark' = [mark EXCEPT ![h] = last + 1]
    <3>1. CASE Relay(h, {}) /\ UNCHANGED mark
      BY <3>1
    <3>2. ASSUME NEW last \in waiting, Relay(h, {u \in waiting : u <= last}),
                 mark' = [mark EXCEPT ![h] = NextOffset(last)]
          PROVE  \E S \in SUBSET Update :
                   /\ Relay(h, S)
                   /\ \E l \in 1..arrived : mark' = [mark EXCEPT ![h] = l + 1]
      <4>1. {u \in waiting : u <= last} \in SUBSET Update
        BY <2>2
      <4>2. last \in 1..arrived /\ NextOffset(last) = last + 1
        BY DEF NextOffset
      <4>. QED BY <3>2, <4>1, <4>2
    <3>. QED BY <1>3, <3>1, <3>2 DEF Fetch
  <2>4. PICK S \in SUBSET Update :
          /\ Relay(h, S)
          /\ \/ mark' = mark
             \/ \E last \in 1..arrived : mark' = [mark EXCEPT ![h] = last + 1]
    BY <2>3
  <2>5. /\ mark' \in [Handler -> Offset]
        /\ \A g \in Handler \ {h} : mark'[g] = mark[g]
    <3>1. mark \in [Handler -> Offset]
      BY DEF Typed, TypeOK
    <3>2. \A last \in 1..arrived : last + 1 \in Offset
      BY ConversationAssumption DEF Typed, TypeOK, Offset
    <3>. QED BY <2>4, <3>1, <3>2
  <2>6. /\ pc' \in [Handler -> Label] /\ todo' \in [Handler -> SUBSET Update]
        /\ HandlerOK'
    BY <2>1, <2>2, <2>4, <2>5, RelayTyped
  <2>. QED BY <2>1, <2>2, <2>5, <2>6 DEF Typed, TypeOK, store, history, Update
<1>4. ASSUME NEW h \in Handler, Deliver(h) PROVE Typed'
  <2>1. PICK u \in 1..arrived \ gone :
          Relay(h, {u}) /\ mark' = [mark EXCEPT ![h] = u]
    BY <1>4 DEF Deliver
  <2>2. u \in Update /\ {u} \in SUBSET Update /\ u \in Offset
    BY ConversationAssumption DEF Typed, TypeOK, Update, Offset
  <2>3. /\ mark' \in [Handler -> Offset] /\ mark'[h] \in Update
        /\ \A g \in Handler \ {h} : mark'[g] = mark[g]
    BY <2>1, <2>2 DEF Typed, TypeOK
  <2>4. /\ pc' \in [Handler -> Label] /\ todo' \in [Handler -> SUBSET Update]
        /\ HandlerOK'
    BY <1>4, <2>1, <2>2, <2>3, RelayTyped DEF Deliver
  <2>. QED BY <1>4, <2>3, <2>4, ConversationAssumption
           DEF Deliver, Typed, TypeOK, provider, store, history, Update
<1>5. ASSUME NEW h \in Handler, Bind(h) PROVE Typed'
  <2>1. CASE BindRead(h)
    <3>1. TypeOK'
      BY <2>1 DEF BindRead, Goto, Typed, TypeOK, provider, store, history, Label, Update
    <3>2. HandlerOK'
      BY <2>1 DEF BindRead, Goto, Typed, TypeOK, HandlerOK, InHand, WithClaw, Update
    <3>. QED BY <3>1, <3>2 DEF Typed
  <2>2. CASE BindClaw(h)
    <3>1. TypeOK'
      BY <2>2 DEF BindClaw, Goto, Typed, TypeOK, provider, history, Label, Update
    <3>2. HandlerOK'
      BY <2>2 DEF BindClaw, Goto, Typed, TypeOK, HandlerOK, InHand, WithClaw, Update
    <3>. QED BY <3>1, <3>2 DEF Typed
  <2>3. CASE BindThread(h)
    <3>1. TypeOK'
      BY <2>3 DEF BindThread, Goto, Typed, TypeOK, provider, history, Label, Update
    <3>2. HandlerOK'
      BY <2>3 DEF BindThread, Goto, Typed, TypeOK, HandlerOK, InHand, WithClaw, Update
    <3>. QED BY <3>1, <3>2 DEF Typed
  <2>4. CASE BindCreate(h)
    <3>1. TypeOK'
      BY <2>4 DEF BindCreate, Goto, Typed, TypeOK, HandlerOK, WithClaw, provider, history,
                  Label, Update
    <3>2. HandlerOK'
      BY <2>4 DEF BindCreate, Goto, Typed, TypeOK, HandlerOK, InHand, WithClaw, Update
    <3>. QED BY <3>1, <3>2 DEF Typed
  <2>. QED BY <1>5, <2>1, <2>2, <2>3, <2>4 DEF Bind
<1>6. ASSUME NEW h \in Handler, AppendRead(h) PROVE Typed'
  <2>1. TypeOK'
    BY <1>6 DEF AppendRead, Goto, Typed, TypeOK, HandlerOK, WithClaw, provider, store,
                history, Label, Update
  <2>2. HandlerOK'
    BY <1>6 DEF AppendRead, Goto, Typed, TypeOK, HandlerOK, InHand, WithClaw, Update
  <2>. QED BY <2>1, <2>2 DEF Typed
<1>7. ASSUME NEW h \in Handler, AppendCommit(h) PROVE Typed'
  <2>1. claw[h] \in Claw /\ Current(h) \in Update /\ at[h] \in Nat
    BY <1>7, CurrentIs DEF AppendCommit, Typed, TypeOK, HandlerOK, InHand, WithClaw
  <2>2. \A role \in Role : Row(h, role) \in MessageRow
    BY <2>1 DEF Row, MessageRow
  <2>3. messages' \in [Claw -> Seq(MessageRow)]
    <3>1. PICK role \in Role :
            messages' = [messages EXCEPT ![claw[h]] = Append(@, Row(h, role))]
      BY <1>7 DEF AppendCommit, Role
    <3>2. Append(messages[claw[h]], Row(h, role)) \in Seq(MessageRow)
      BY <2>1, <2>2 DEF Typed, TypeOK
    <3>. QED BY <3>1, <3>2 DEF Typed, TypeOK
  <2>4. TypeOK'
    <3>1. tail' \in [Claw -> Nat] /\ at' \in [Handler -> Nat]
      BY <1>7, <2>1 DEF AppendCommit, Typed, TypeOK
    <3>2. pc' \in [Handler -> Label]
      BY <1>7 DEF AppendCommit, Goto, Typed, TypeOK, Label
    <3>3. UNCHANGED <<mode, provider, cursor, claws, binding, todo, mark, claw, history,
                      batches, failures>>
      BY <1>7 DEF AppendCommit
    <3>. QED BY <2>3, <3>1, <3>2, <3>3 DEF Typed, TypeOK, provider, history, Update
  <2>5. HandlerOK'
    BY <1>7 DEF AppendCommit, Goto, Typed, TypeOK, HandlerOK, InHand, WithClaw, Update
  <2>. QED BY <2>4, <2>5 DEF Typed
<1>8. ASSUME NEW h \in Handler, AppendFails(h) PROVE Typed'
  BY <1>8, EndTyped DEF AppendFails, Typed, TypeOK, provider, store, history, Update
<1>9. ASSUME NEW h \in Handler, Run(h) PROVE Typed'
  <2>1. CASE Completed(h) /\ UNCHANGED <<todo, claw, handled>>
    <3>1. TypeOK'
      BY <1>9, <2>1 DEF Run, Completed, Goto, Typed, TypeOK, provider, store, Label, Update
    <3>2. HandlerOK'
      BY <1>9, <2>1 DEF Run, Completed, Goto, Typed, TypeOK, HandlerOK, InHand, WithClaw,
                        Update
    <3>. QED BY <3>1, <3>2 DEF Typed
  <2>2. CASE Handled(h)
    BY <1>9, <2>2, HandledTyped DEF Run, Typed, TypeOK, provider, store, Update
  <2>. QED BY <1>9, <2>1, <2>2 DEF Run
<1>10. ASSUME NEW h \in Handler, Reply(h) PROVE Typed'
  <2>1. replied' \subseteq Update
    BY <1>10, CurrentIs DEF Reply, Typed, TypeOK, InHand
  <2>. QED BY <1>10, <2>1, HandledTyped DEF Reply, Typed, TypeOK, provider, store, Update
<1>11. ASSUME NEW h \in Handler, Persist(h) PROVE Typed'
  <2>1. cursor' \in Offset /\ gone' \subseteq Update
    BY <1>11 DEF Persist, Recorded, Typed, TypeOK, HandlerOK
  <2>. QED BY <1>11, <2>1, EndTyped
           DEF Persist, Typed, TypeOK, provider, store, history, Update
<1>12. ASSUME NEW h \in Handler, Fail(h) PROVE Typed'
  <2>1. cursor' = cursor
    BY <1>12 DEF Fail, Recorded
  <2>. QED BY <1>12, <2>1, EndTyped, ConversationAssumption, SMTT(30)
           DEF Fail, Typed, TypeOK, provider, store, history, Update
<1>13. CASE UNCHANGED vars
  BY <1>13 DEF vars, provider, store, history, Typed, TypeOK, HandlerOK, Update
<1>. QED BY <1>1, <1>2, <1>3, <1>4, <1>5, <1>6, <1>7, <1>8, <1>9, <1>10, <1>11, <1>12,
            <1>13 DEF Next, Handle, Send, Quiet

\* Every row, cursor and local keeps its type, and a handler has a message, an offset and
\* a claw whenever its statements need one.
THEOREM ConversationTyping == Spec => []TypeOK
<1>1. Typed => TypeOK
  BY DEF Typed
<1>. QED BY TypedInit, TypedStep, <1>1, PTL DEF Spec

----------------------------------------------------------------------------
(* Threads.                                                                *)

\* A claw without a row is nobody's, and one whose thread or binding is yet to be
\* created is its creator's alone.
FreshClaws ==
  /\ \A c \in Claw \ claws :
       /\ c \notin binding /\ messages[c] = <<>>
       /\ \A h \in Handler : claw[h] # c
  /\ \A h \in Handler :
       pc[h] \in {"thread", "binding"} =>
         /\ claw[h] \notin binding /\ messages[claw[h]] = <<>>
         /\ \A g \in Handler : g # h => claw[g] # claw[h]

ThreadInv == FreshClaws /\ ThreadIsSequence

LEMMA ThreadInit == Init => ThreadInv
BY ConversationAssumption DEF Init, ThreadInv, FreshClaws, ThreadIsSequence

\* A step that leaves the rows alone, and whose handler takes at most a bound claw.
LEMMA ThreadFrame ==
  ASSUME Typed, ThreadInv, UNCHANGED store,
         \A g \in Handler :
           /\ pc'[g] \in {"thread", "binding"} => pc'[g] = pc[g] /\ claw'[g] = claw[g]
           /\ claw'[g] = claw[g] \/ claw'[g] = None \/ claw'[g] \in binding
  PROVE  ThreadInv'
<1>1. \A c \in Claw \ claws :
        /\ c \notin binding /\ messages[c] = <<>>
        /\ \A h \in Handler : claw'[h] # c
  BY ConversationAssumption DEF ThreadInv, FreshClaws
<1>2. ASSUME NEW h \in Handler, pc'[h] \in {"thread", "binding"}
      PROVE  /\ claw'[h] \notin binding /\ messages[claw'[h]] = <<>>
             /\ \A g \in Handler : g # h => claw'[g] # claw'[h]
  <2>1. claw'[h] = claw[h] /\ pc[h] \in {"thread", "binding"} /\ claw[h] \in Claw
    BY <1>2 DEF Typed, HandlerOK, WithClaw
  <2>. QED BY <2>1, ConversationAssumption DEF ThreadInv, FreshClaws
<1>3. FreshClaws'
  BY <1>1, <1>2 DEF FreshClaws, store
<1>4. ThreadIsSequence'
  BY DEF ThreadInv, ThreadIsSequence, store
<1>. QED BY <1>3, <1>4 DEF ThreadInv

\* A commit of an append under the cursor it read.
LEMMA ThreadCommit ==
  ASSUME Typed, ThreadInv, NEW h \in Handler, AppendCommit(h)
  PROVE  ThreadInv'
<1>1. PICK role \in Role :
        messages' = [messages EXCEPT ![claw[h]] = Append(@, Row(h, role))]
  BY DEF AppendCommit, Role
<1>. DEFINE c == claw[h]
            rows == messages[c]
<1>2. /\ c \in Claw /\ at[h] \in Nat /\ Current(h) \in Update
      /\ rows \in Seq(MessageRow) /\ Row(h, role) \in MessageRow
      /\ Row(h, role).sequence = at[h] + 1
  <2>1. c \in Claw /\ at[h] \in Nat /\ Current(h) \in Update
    BY CurrentIs DEF AppendCommit, Typed, TypeOK, HandlerOK, InHand, WithClaw
  <2>2. rows \in Seq(MessageRow)
    BY <2>1 DEF Typed, TypeOK
  <2>3. Row(h, role) \in MessageRow /\ Row(h, role).sequence = at[h] + 1
    BY <2>1 DEF Row, MessageRow
  <2>. QED BY <2>1, <2>2, <2>3
<1>3. /\ pc[h] \in {"asked", "answered"} /\ tail[c] = at[h]
      /\ tail' = [tail EXCEPT ![c] = at[h] + 1]
      /\ UNCHANGED <<claws, binding, claw>>
      /\ pc' \in {[pc EXCEPT ![h] = "run"], [pc EXCEPT ![h] = "reply"]}
  BY DEF AppendCommit, AtCursor, Goto
<1>4. /\ messages' = [messages EXCEPT ![c] = Append(rows, Row(h, role))]
      /\ c \in DOMAIN messages /\ c \in DOMAIN tail /\ Claw = DOMAIN messages
      /\ Claw = DOMAIN tail
  BY <1>1, <1>2 DEF Typed, TypeOK
<1>5. tail[c] = Len(rows) /\ \A i \in 1..Len(rows) : rows[i].sequence = i
  BY <1>2 DEF ThreadInv, ThreadIsSequence
<1>6. /\ Len(Append(rows, Row(h, role))) = at[h] + 1
      /\ \A i \in 1..(at[h] + 1) : Append(rows, Row(h, role))[i].sequence = i
  <2>. HIDE DEF rows
  <2>1. Len(rows) = at[h]
    BY <1>3, <1>5
  <2>2. Append(rows, Row(h, role))[at[h] + 1] = Row(h, role)
    BY <1>2, <2>1
  <2>3. \A i \in 1..at[h] : Append(rows, Row(h, role))[i] = rows[i]
    BY <1>2, <2>1
  <2>4. Len(Append(rows, Row(h, role))) = at[h] + 1
    BY <1>2, <2>1
  <2>. QED BY <1>2, <1>5, <2>1, <2>2, <2>3, <2>4
<1>7. ThreadIsSequence'
  <2>. HIDE DEF rows
  <2>. SUFFICES ASSUME NEW d \in Claw
                PROVE  /\ tail'[d] = Len(messages'[d])
                       /\ \A i \in 1..Len(messages'[d]) : messages'[d][i].sequence = i
    BY DEF ThreadIsSequence
  <2>1. CASE d = c
    BY <1>3, <1>4, <1>6, <2>1
  <2>2. CASE d # c
    BY <1>3, <1>4, <2>2 DEF ThreadInv, ThreadIsSequence
  <2>. QED BY <2>1, <2>2
<1>8. c \in claws
  BY <1>2 DEF ThreadInv, FreshClaws
<1>9. FreshClaws'
  <2>1. ASSUME NEW d \in Claw \ claws'
        PROVE  /\ d \notin binding' /\ messages'[d] = <<>>
               /\ \A g \in Handler : claw'[g] # d
    BY <1>3, <1>4, <1>8 DEF ThreadInv, FreshClaws
  <2>2. ASSUME NEW g \in Handler, pc'[g] \in {"thread", "binding"}
        PROVE  /\ claw'[g] \notin binding' /\ messages'[claw'[g]] = <<>>
               /\ \A k \in Handler : k # g => claw'[k] # claw'[g]
    <3>1. g # h /\ pc[g] \in {"thread", "binding"} /\ claw[g] \in Claw
      BY <1>3, <2>2 DEF Typed, TypeOK, HandlerOK, WithClaw
    <3>2. claw[g] # c
      BY <3>1 DEF ThreadInv, FreshClaws
    <3>. QED BY <1>3, <1>4, <3>1, <3>2 DEF ThreadInv, FreshClaws
  <2>. QED BY <2>1, <2>2 DEF FreshClaws
<1>. QED BY <1>7, <1>9 DEF ThreadInv

\* The statements of bindConversation that write a row.
LEMMA ThreadBind ==
  ASSUME Typed, ThreadInv, NEW h \in Handler, Bind(h)
  PROVE  ThreadInv'
<1>1. CASE BindRead(h)
  <2>1. UNCHANGED store
    BY <1>1 DEF BindRead
  <2>2. ASSUME NEW g \in Handler
        PROVE /\ pc'[g] \in {"thread", "binding"} => pc'[g] = pc[g] /\ claw'[g] = claw[g]
              /\ claw'[g] = claw[g] \/ claw'[g] = None \/ claw'[g] \in binding
    BY <1>1 DEF BindRead, Goto, Typed, TypeOK
  <2>. QED BY <2>1, <2>2, ThreadFrame
<1>2. CASE BindClaw(h)
  <2>1. PICK c \in Claw \ claws :
          claws' = claws \cup {c} /\ claw' = [claw EXCEPT ![h] = c]
    BY <1>2 DEF BindClaw
  <2>2. /\ pc' = [pc EXCEPT ![h] = "thread"] /\ UNCHANGED <<binding, tail, messages>>
    BY <1>2 DEF BindClaw, Goto
  <2>3. ThreadIsSequence'
    BY <2>2 DEF ThreadInv, ThreadIsSequence
  <2>4. FreshClaws'
    <3>1. ASSUME NEW d \in Claw \ claws'
          PROVE  /\ d \notin binding' /\ messages'[d] = <<>>
                 /\ \A g \in Handler : claw'[g] # d
      BY <2>1, <2>2 DEF ThreadInv, FreshClaws, Typed, TypeOK
    <3>2. ASSUME NEW g \in Handler, pc'[g] \in {"thread", "binding"}
          PROVE  /\ claw'[g] \notin binding' /\ messages'[claw'[g]] = <<>>
                 /\ \A k \in Handler : k # g => claw'[k] # claw'[g]
      <4>1. CASE g = h
        BY <2>1, <2>2, <4>1 DEF ThreadInv, FreshClaws, Typed, TypeOK
      <4>2. CASE g # h
        BY <2>1, <2>2, <3>2, <4>2 DEF ThreadInv, FreshClaws, Typed, TypeOK
      <4>. QED BY <4>1, <4>2
    <3>. QED BY <3>1, <3>2 DEF FreshClaws
  <2>. QED BY <2>3, <2>4 DEF ThreadInv
<1>3. CASE BindThread(h)
  <2>1. /\ tail' = [tail EXCEPT ![claw[h]] = 0] /\ UNCHANGED <<claws, binding, messages, claw>>
        /\ pc[h] = "thread" /\ pc' = [pc EXCEPT ![h] = "binding"]
    BY <1>3 DEF BindThread, Goto
  <2>2. ThreadIsSequence'
    BY <2>1 DEF ThreadInv, FreshClaws, ThreadIsSequence, Typed, TypeOK
  <2>3. FreshClaws'
    BY <2>1 DEF ThreadInv, FreshClaws, Typed, TypeOK
  <2>. QED BY <2>2, <2>3 DEF ThreadInv
<1>4. CASE BindCreate(h)
  <2>1. /\ binding' = binding \cup {claw[h]} /\ UNCHANGED <<claws, tail, messages, claw>>
        /\ pc[h] = "binding" /\ pc' = [pc EXCEPT ![h] = "ask"]
    BY <1>4 DEF BindCreate, Goto
  <2>2. ThreadIsSequence'
    BY <2>1 DEF ThreadInv, ThreadIsSequence
  <2>3. FreshClaws'
    BY <2>1 DEF ThreadInv, FreshClaws, Typed, TypeOK
  <2>. QED BY <2>2, <2>3 DEF ThreadInv
<1>. QED BY <1>1, <1>2, <1>3, <1>4 DEF Bind

LEMMA ThreadStep == Typed /\ ThreadInv /\ [Next]_vars => ThreadInv'
<1>. SUFFICES ASSUME Typed, ThreadInv, [Next]_vars PROVE ThreadInv'
  OBVIOUS
<1>. DEFINE Keeps(g) ==
       /\ pc'[g] \in {"thread", "binding"} => pc'[g] = pc[g] /\ claw'[g] = claw[g]
       /\ claw'[g] = claw[g] \/ claw'[g] = None \/ claw'[g] \in binding
<1>1. CASE Arrive
  BY <1>1, ThreadFrame DEF Arrive
<1>2. ASSUME NEW h \in Handler, PollRead(h) \/ Fetch(h) \/ Deliver(h) PROVE ThreadInv'
  <2>1. UNCHANGED <<store, claw>>
    BY <1>2 DEF PollRead, Fetch, Deliver
  <2>2. \A g \in Handler : pc'[g] \in {"thread", "binding"} => pc'[g] = pc[g]
    BY <1>2 DEF PollRead, Fetch, Deliver, Relay, Goto, Typed, TypeOK
  <2>. QED BY <2>1, <2>2, ThreadFrame
<1>3. ASSUME NEW h \in Handler, Bind(h) PROVE ThreadInv'
  BY <1>3, ThreadBind
<1>4. ASSUME NEW h \in Handler, AppendRead(h) PROVE ThreadInv'
  BY <1>4, ThreadFrame DEF AppendRead, Goto, Typed, TypeOK
<1>5. ASSUME NEW h \in Handler, AppendCommit(h) PROVE ThreadInv'
  BY <1>5, ThreadCommit
<1>6. ASSUME NEW h \in Handler, AppendFails(h) \/ Persist(h) \/ Fail(h) PROVE ThreadInv'
  <2>1. UNCHANGED store /\ End(h)
    BY <1>6 DEF AppendFails, Persist, Fail
  <2>2. \A g \in Handler : Keeps(g)
    BY <2>1 DEF End, Goto, Typed, TypeOK
  <2>. QED BY <2>1, <2>2, ThreadFrame
<1>7. ASSUME NEW h \in Handler, Run(h) \/ Reply(h) PROVE ThreadInv'
  <2>1. UNCHANGED store
    BY <1>7 DEF Run, Reply
  <2>2. \A g \in Handler : Keeps(g)
    BY <1>7 DEF Run, Reply, Handled, Completed, Goto, Typed, TypeOK
  <2>. QED BY <2>1, <2>2, ThreadFrame
<1>8. CASE UNCHANGED vars
  BY <1>8, ThreadFrame DEF vars
<1>. QED BY <1>1, <1>2, <1>3, <1>4, <1>5, <1>6, <1>7, <1>8 DEF Next, Handle, Send, Quiet

\* Whoever appends: the rows of a thread are numbered without gap or double, and its
\* cursor is the number of the last.
THEOREM ThreadsAreSequences == Spec => []ThreadIsSequence
<1>1. ThreadInv => ThreadIsSequence
  BY DEF ThreadInv
<1>. QED BY TypedInit, TypedStep, ThreadInit, ThreadStep, <1>1, PTL DEF Spec

----------------------------------------------------------------------------
(* What is acknowledged.                                                   *)

\* The updates that a handler will acknowledge, by the offset it saves or by its 200.
Pledged(h) == IF mode = "poll" THEN {u \in Update : u < mark[h]} ELSE {mark[h]}

\* The updates that nobody has to handle any more.
Settled == mute \cup handled

\* Only settled updates are acknowledged, and of what a handler is about to acknowledge
\* it still has whatever is not settled.
BatchInv ==
  /\ gone \subseteq Settled
  /\ \A u \in Update : u < cursor => u \in Settled
  /\ \A h \in Handler :
       pc[h] # "idle" => /\ Pledged(h) \subseteq todo[h] \cup Settled
                         /\ todo[h] \subseteq Pledged(h)

LEMMA BatchInit == Init => BatchInv
BY DEF Init, BatchInv, Update

\* A step in which nobody acknowledges, settles or gets anything.
LEMMA BatchFrame ==
  ASSUME BatchInv, UNCHANGED <<mode, gone, cursor, mark, todo>>, Settled \subseteq Settled',
         \A g \in Handler : pc'[g] # "idle" => pc[g] # "idle"
  PROVE  BatchInv'
BY DEF BatchInv, Pledged, Update

\* Settled updates stay settled, the pledges of the others hold, and the handler that
\* steps pledges no more than it has or is settled.
LEMMA BatchLocal ==
  ASSUME BatchInv, NEW h \in Handler, UNCHANGED <<mode, cursor>>,
         Settled \subseteq Settled', gone' \subseteq Settled',
         \A g \in Handler \ {h} : pc'[g] = pc[g] /\ todo'[g] = todo[g] /\ mark'[g] = mark[g],
         pc'[h] # "idle" => /\ Pledged(h)' \subseteq todo'[h] \cup Settled'
                            /\ todo'[h] \subseteq Pledged(h)'
  PROVE  BatchInv'
<1>1. ASSUME NEW g \in Handler, pc'[g] # "idle"
      PROVE  /\ Pledged(g)' \subseteq todo'[g] \cup Settled'
             /\ todo'[g] \subseteq Pledged(g)'
  <2>1. CASE g = h
    BY <1>1, <2>1
  <2>2. CASE g # h
    <3>1. Pledged(g)' = Pledged(g)
      BY <2>2 DEF Pledged, Update
    <3>. QED BY <1>1, <2>2, <3>1 DEF BatchInv
  <2>. QED BY <2>1, <2>2
<1>. QED BY <1>1 DEF BatchInv, Update

LEMMA BatchEnd ==
  ASSUME Typed, BatchInv, NEW h \in Handler, End(h), UNCHANGED <<mode, cursor, mute, handled>>,
         gone' \subseteq Settled
  PROVE  BatchInv'
<1>1. Settled' = Settled
  BY DEF Settled
<1>2. /\ pc'[h] = "idle"
      /\ \A g \in Handler \ {h} : pc'[g] = pc[g] /\ todo'[g] = todo[g] /\ mark'[g] = mark[g]
  BY DEF End, Goto, Typed, TypeOK
<1>. QED BY <1>1, <1>2, BatchLocal

LEMMA BatchHandled ==
  ASSUME Typed, BatchInv, NEW h \in Handler, pc[h] \in {"run", "reply"}, Handled(h),
         UNCHANGED <<mode, cursor, mute, gone, mark>>
  PROVE  BatchInv'
<1>1. /\ handled' = handled \cup {Current(h)}
      /\ todo' = [todo EXCEPT ![h] = todo[h] \ {Current(h)}]
      /\ pc' = [pc EXCEPT ![h] = IF todo[h] = {Current(h)} THEN "persist" ELSE "bind"]
  BY DEF Handled, Goto
<1>2. Settled' = Settled \cup {Current(h)}
  BY <1>1 DEF Settled
<1>3. Pledged(h)' = Pledged(h)
  BY DEF Pledged, Update
<1>4. \A g \in Handler \ {h} : pc'[g] = pc[g] /\ todo'[g] = todo[g] /\ mark'[g] = mark[g]
  BY <1>1 DEF Typed, TypeOK
<1>5. todo'[h] = todo[h] \ {Current(h)}
  BY <1>1 DEF Typed, TypeOK
<1>6. Pledged(h) \subseteq todo[h] \cup Settled /\ todo[h] \subseteq Pledged(h)
  BY DEF BatchInv
<1>7. gone' \subseteq Settled'
  BY <1>2 DEF BatchInv
<1>. QED BY <1>2, <1>3, <1>4, <1>5, <1>6, <1>7, BatchLocal

LEMMA BatchFetch ==
  ASSUME Typed, BatchInv, NEW h \in Handler, Fetch(h)
  PROVE  BatchInv'
<1>. DEFINE waiting == {u \in 1..arrived : u >= mark[h] /\ u \notin gone}
<1>1. /\ pc[h] = "fetch" /\ gone' = gone \cup {u \in 1..arrived : u < mark[h]}
      /\ UNCHANGED <<mode, arrived, mute, cursor, handled>>
  BY DEF Fetch, history
<1>2. mode = "poll" /\ todo[h] = {} /\ 1..arrived \subseteq Update
  <2>1. mode = "poll" /\ todo[h] = {}
    BY <1>1 DEF Typed, HandlerOK, InHand
  <2>2. 1..arrived \subseteq Update
    BY ConversationAssumption DEF Typed, TypeOK, Update
  <2>. QED BY <2>1, <2>2
<1>3. \A u \in Update : u < mark[h] => u \in Settled
  BY <1>1, <1>2 DEF BatchInv, Pledged
<1>4. Settled' = Settled /\ gone' \subseteq Settled
  BY <1>1, <1>2, <1>3 DEF Settled, BatchInv
<1>5. CASE waiting = {} /\ Relay(h, {}) /\ UNCHANGED mark
  <2>1. /\ todo'[h] = {} /\ mark' = mark
        /\ \A g \in Handler \ {h} : pc'[g] = pc[g] /\ todo'[g] = todo[g]
    BY <1>5 DEF Relay, Goto, Typed, TypeOK
  <2>2. Pledged(h)' \subseteq Settled
    BY <1>1, <1>2, <1>3, <2>1 DEF Pledged, Update
  <2>. QED BY <1>1, <1>4, <2>1, <2>2, BatchLocal
<1>6. ASSUME NEW last \in waiting, Relay(h, {u \in waiting : u <= last}),
             mark' = [mark EXCEPT ![h] = NextOffset(last)]
      PROVE  BatchInv'
  <2>1. /\ todo'[h] = {u \in waiting : u <= last} \ mute /\ mark'[h] = last + 1
        /\ \A g \in Handler \ {h} : pc'[g] = pc[g] /\ todo'[g] = todo[g] /\ mark'[g] = mark[g]
    BY <1>6 DEF Relay, Goto, NextOffset, Typed, TypeOK
  <2>2. last \in Nat /\ mark[h] \in Nat /\ arrived \in Nat /\ last <= arrived
    BY ConversationAssumption DEF Typed, TypeOK, Offset
  <2>3. Pledged(h)' = {u \in Update : u < last + 1}
    BY <1>1, <1>2, <2>1 DEF Pledged, Update
  <2>4. todo'[h] \subseteq Pledged(h)'
    BY <1>2, <2>1, <2>2, <2>3
  <2>5. Pledged(h)' \subseteq todo'[h] \cup Settled
    <3>. SUFFICES ASSUME NEW u \in Update, u < last + 1, u \notin Settled
                  PROVE  u \in {v \in waiting : v <= last} \ mute
      BY <2>1, <2>3
    <3>1. u \in 1..arrived /\ u <= last
      BY <2>2 DEF Update
    <3>2. ~ (u < mark[h]) /\ u \notin gone /\ u \notin mute
      BY <1>3 DEF BatchInv, Settled
    <3>. QED BY <2>2, <3>1, <3>2
  <2>. QED BY <1>1, <1>4, <2>1, <2>4, <2>5, BatchLocal
<1>. QED BY <1>5, <1>6 DEF Fetch

LEMMA BatchStep == Typed /\ BatchInv /\ [Next]_vars => BatchInv'
<1>. SUFFICES ASSUME Typed, BatchInv, [Next]_vars PROVE BatchInv'
  OBVIOUS
<1>1. CASE Arrive
  <2>1. /\ UNCHANGED <<mode, gone, cursor, mark, todo, pc>>
        /\ mute \subseteq mute' /\ handled' = handled
    BY <1>1 DEF Arrive, history
  <2>. QED BY <2>1, BatchFrame DEF Settled
<1>2. ASSUME NEW h \in Handler, PollRead(h) PROVE BatchInv'
  <2>1. /\ UNCHANGED <<mode, cursor, gone, mute, handled, todo>>
        /\ mode = "poll" /\ pc[h] = "idle"
        /\ mark' = [mark EXCEPT ![h] = cursor] /\ pc' = [pc EXCEPT ![h] = "fetch"]
    BY <1>2 DEF PollRead, Goto, provider, history
  <2>2. /\ mark'[h] = cursor /\ todo[h] = {}
        /\ \A g \in Handler \ {h} : pc'[g] = pc[g] /\ mark'[g] = mark[g]
    BY <2>1 DEF Typed, TypeOK, HandlerOK, InHand
  <2>3. Settled' = Settled
    BY <2>1 DEF Settled
  <2>4. Pledged(h)' \subseteq Settled
    BY <2>1, <2>2 DEF Pledged, BatchInv, Update
  <2>5. gone' \subseteq Settled
    BY <2>1 DEF BatchInv
  <2>. QED BY <2>1, <2>2, <2>3, <2>4, <2>5, BatchLocal
<1>3. ASSUME NEW h \in Handler, Fetch(h) PROVE BatchInv'
  BY <1>3, BatchFetch
<1>4. ASSUME NEW h \in Handler, Deliver(h) PROVE BatchInv'
  <2>1. PICK u \in 1..arrived \ gone :
          Relay(h, {u}) /\ mark' = [mark EXCEPT ![h] = u]
    BY <1>4 DEF Deliver
  <2>2. mode = "webhook" /\ UNCHANGED <<mode, cursor, gone, mute, handled>>
    BY <1>4 DEF Deliver, provider, history
  <2>3. /\ todo'[h] = {u} \ mute /\ mark'[h] = u
        /\ \A g \in Handler \ {h} : pc'[g] = pc[g] /\ todo'[g] = todo[g] /\ mark'[g] = mark[g]
    BY <2>1 DEF Relay, Goto, Typed, TypeOK
  <2>4. Settled' = Settled /\ Pledged(h)' = {u}
    BY <2>2, <2>3 DEF Settled, Pledged
  <2>5. gone' \subseteq Settled
    BY <2>2 DEF BatchInv
  <2>6. {u} \subseteq ({u} \ mute) \cup Settled
    BY DEF Settled
  <2>. QED BY <2>2, <2>3, <2>4, <2>5, <2>6, BatchLocal
<1>5. ASSUME NEW h \in Handler, Bind(h) \/ AppendRead(h) \/ AppendCommit(h) PROVE BatchInv'
  <2>1. UNCHANGED <<mode, gone, cursor, mark, todo, mute, handled>>
    BY <1>5 DEF Bind, BindRead, BindClaw, BindThread, BindCreate, AppendRead, AppendCommit,
                provider, history
  <2>2. \A g \in Handler : pc'[g] # "idle" => pc[g] # "idle"
    BY <1>5 DEF Bind, BindRead, BindClaw, BindThread, BindCreate, AppendRead, AppendCommit,
                Goto, Typed, TypeOK
  <2>. QED BY <2>1, <2>2, BatchFrame DEF Settled
<1>6. ASSUME NEW h \in Handler, AppendFails(h) \/ Fail(h) PROVE BatchInv'
  <2>1. End(h) /\ UNCHANGED <<mode, cursor, gone, mute, handled>>
    BY <1>6 DEF AppendFails, Fail, Recorded, provider, history
  <2>2. gone' \subseteq Settled
    BY <2>1 DEF BatchInv
  <2>. QED BY <2>1, <2>2, BatchEnd
<1>7. ASSUME NEW h \in Handler, Run(h) PROVE BatchInv'
  <2>1. CASE Completed(h) /\ UNCHANGED <<todo, claw, handled>>
    <3>1. UNCHANGED <<mode, gone, cursor, mark, todo, mute, handled>>
      BY <1>7, <2>1 DEF Run, provider
    <3>2. \A g \in Handler : pc'[g] # "idle" => pc[g] # "idle"
      BY <1>7, <2>1 DEF Run, Completed, Goto, Typed, TypeOK
    <3>. QED BY <3>1, <3>2, BatchFrame DEF Settled
  <2>2. CASE Handled(h)
    BY <1>7, <2>2, BatchHandled DEF Run, provider
  <2>. QED BY <1>7, <2>1, <2>2 DEF Run
<1>8. ASSUME NEW h \in Handler, Reply(h) PROVE BatchInv'
  BY <1>8, BatchHandled DEF Reply, provider
<1>9. ASSUME NEW h \in Handler, Persist(h) PROVE BatchInv'
  <2>1. /\ pc[h] = "persist" /\ End(h) /\ UNCHANGED <<mode, mute, handled>>
    BY <1>9 DEF Persist, history
  <2>2. Pledged(h) \subseteq Settled
    BY <2>1 DEF BatchInv, Typed, HandlerOK, InHand
  <2>3. CASE mode = "poll"
    <3>1. cursor' \in {mark[h], cursor} /\ gone' = gone
      BY <1>9, <2>3 DEF Persist, Recorded
    <3>2. \A u \in Update : u < cursor' => u \in Settled
      BY <2>2, <2>3, <3>1 DEF Pledged, BatchInv
    <3>3. Settled' = Settled
      BY <2>1 DEF Settled
    <3>4. ASSUME NEW g \in Handler, pc'[g] # "idle"
          PROVE  /\ Pledged(g)' \subseteq todo'[g] \cup Settled
                 /\ todo'[g] \subseteq Pledged(g)'
      <4>1. g # h /\ pc'[g] = pc[g] /\ todo'[g] = todo[g] /\ mark'[g] = mark[g]
        BY <2>1, <3>4 DEF End, Goto, Typed, TypeOK
      <4>2. Pledged(g)' = Pledged(g)
        BY <2>1, <4>1 DEF Pledged, Update
      <4>. QED BY <3>4, <4>1, <4>2 DEF BatchInv
    <3>. QED BY <3>1, <3>2, <3>3, <3>4 DEF BatchInv, Update
  <2>4. CASE mode = "webhook"
    <3>1. gone' = gone \cup {mark[h]} /\ cursor' = cursor
      BY <1>9, <2>4 DEF Persist
    <3>2. gone' \subseteq Settled
      BY <2>2, <2>4, <3>1 DEF Pledged, BatchInv
    <3>. QED BY <2>1, <3>1, <3>2, BatchEnd
  <2>. QED BY <2>3, <2>4 DEF Typed, TypeOK
<1>10. CASE UNCHANGED vars
  BY <1>10, BatchFrame DEF vars, provider, history, Settled
<1>. QED BY <1>1, <1>2, <1>3, <1>4, <1>5, <1>6, <1>7, <1>8, <1>9, <1>10
         DEF Next, Handle, Send, Quiet

\* An update that the provider will not deliver again, or that the next poll acknowledges,
\* was handled to its end.
THEOREM NoUpdateIsSkipped == Spec => []NothingIsSkipped
<1>1. Typed /\ BatchInv => NothingIsSkipped
  BY ConversationAssumption DEF Typed, TypeOK, BatchInv, NothingIsSkipped, Settled, Update
<1>. QED BY TypedInit, TypedStep, BatchInit, BatchStep, <1>1, PTL DEF Spec

----------------------------------------------------------------------------
(* Transcripts.                                                            *)

HasRow(rows, u, role) == \E i \in 1..Len(rows) : rows[i].update = u /\ rows[i].role = role

\* A commit adds one row, of the message in the handler's hands.
LEMMA CommitTranscript ==
  ASSUME Typed, NEW h \in Handler, AppendCommit(h)
  PROVE  /\ pc[h] = "asked" =>
              /\ pc' = [pc EXCEPT ![h] = "run"]
              /\ InTranscript("user")' = InTranscript("user") \cup {Current(h)}
              /\ InTranscript("assistant")' = InTranscript("assistant")
         /\ pc[h] = "answered" =>
              /\ pc' = [pc EXCEPT ![h] = "reply"]
              /\ InTranscript("user")' = InTranscript("user")
              /\ InTranscript("assistant")' = InTranscript("assistant") \cup {Current(h)}
         /\ pc[h] \in {"asked", "answered"}
<1>. DEFINE c == claw[h]
            rows == messages[c]
<1>1. /\ c \in Claw /\ Current(h) \in Update
      /\ rows \in Seq(MessageRow) /\ messages \in [Claw -> Seq(MessageRow)]
  BY CurrentIs DEF AppendCommit, Typed, TypeOK, HandlerOK, InHand, WithClaw
<1>2. ASSUME NEW role \in Role,
             messages' = [messages EXCEPT ![c] = Append(rows, Row(h, role))]
      PROVE  \A r \in Role :
               InTranscript(r)' = IF r = role THEN InTranscript(r) \cup {Current(h)}
                                  ELSE InTranscript(r)
  <2>. TAKE r \in Role
  <2>. DEFINE more == Append(rows, Row(h, role))
  <2>1. /\ Len(more) = Len(rows) + 1 /\ Len(rows) \in Nat
        /\ more[Len(rows) + 1] = Row(h, role)
        /\ \A i \in 1..Len(rows) : more[i] = rows[i]
    <3>1. Row(h, role) \in MessageRow
      BY <1>1 DEF Row, MessageRow, Typed, TypeOK
    <3>. HIDE DEF rows
    <3>. QED BY <1>1, <3>1
  <2>2. Row(h, role).update = Current(h) /\ Row(h, role).role = role
    BY DEF Row
  <2>3. messages'[c] = more /\ \A d \in Claw : d # c => messages'[d] = messages[d]
    BY <1>1, <1>2
  <2>. HIDE DEF more, rows
  <2>4. ASSUME NEW u
        PROVE  HasRow(more, u, r) <=> HasRow(rows, u, r) \/ (u = Current(h) /\ r = role)
    <3>1. ASSUME HasRow(more, u, r) PROVE HasRow(rows, u, r) \/ (u = Current(h) /\ r = role)
      <4>1. PICK i \in 1..Len(more) : more[i].update = u /\ more[i].role = r
        BY <3>1 DEF HasRow
      <4>2. CASE i = Len(rows) + 1
        BY <2>1, <2>2, <4>1, <4>2
      <4>3. CASE i # Len(rows) + 1
        <5>1. i \in 1..Len(rows)
          BY <2>1, <4>3
        <5>2. rows[i].update = u /\ rows[i].role = r
          BY <2>1, <4>1, <5>1
        <5>. QED BY <5>1, <5>2 DEF HasRow
      <4>. QED BY <4>2, <4>3
    <3>2. ASSUME HasRow(rows, u, r) PROVE HasRow(more, u, r)
      <4>1. PICK i \in 1..Len(rows) : rows[i].update = u /\ rows[i].role = r
        BY <3>2 DEF HasRow
      <4>2. i \in 1..Len(more) /\ more[i] = rows[i]
        BY <2>1
      <4>. QED BY <4>1, <4>2 DEF HasRow
    <3>3. ASSUME u = Current(h), r = role PROVE HasRow(more, u, r)
      <4>1. Len(rows) + 1 \in 1..Len(more)
        BY <2>1
      <4>. QED BY <2>1, <2>2, <3>3, <4>1 DEF HasRow
    <3>. QED BY <3>1, <3>2, <3>3
  <2>5. ASSUME NEW u
        PROVE  (\E d \in Claw : HasRow(messages'[d], u, r))
               <=> (\E d \in Claw : HasRow(messages[d], u, r)) \/ (u = Current(h) /\ r = role)
    <3>1. HasRow(messages'[c], u, r)
          <=> HasRow(messages[c], u, r) \/ (u = Current(h) /\ r = role)
      BY <2>3, <2>4 DEF rows
    <3>2. \A d \in Claw : d # c => (HasRow(messages'[d], u, r) <=> HasRow(messages[d], u, r))
      BY <2>3
    <3>3. c \in Claw
      BY <1>1
    <3>. HIDE DEF c
    <3>. QED BY <3>1, <3>2, <3>3, Zenon
  <2>6. /\ InTranscript(r) = {u \in Update : \E d \in Claw : HasRow(messages[d], u, r)}
        /\ InTranscript(r)' = {u \in Update : \E d \in Claw : HasRow(messages'[d], u, r)}
    BY DEF InTranscript, HasRow, Update
  <2>7. CASE r = role
    BY <1>1, <2>5, <2>6, <2>7
  <2>8. CASE r # role
    <3>1. \A u : (\E d \in Claw : HasRow(messages'[d], u, r))
                 <=> \E d \in Claw : HasRow(messages[d], u, r)
      BY <2>5, <2>8, Zenon
    <3>2. InTranscript(r)' = InTranscript(r)
      BY <2>6, <3>1, Zenon
    <3>. QED BY <2>8, <3>2
  <2>. QED BY <2>7, <2>8
<1>3. CASE pc[h] = "asked"
  BY <1>2, <1>3 DEF AppendCommit, Goto, Role
<1>4. CASE pc[h] = "answered"
  BY <1>2, <1>4 DEF AppendCommit, Goto, Role
<1>. QED BY <1>3, <1>4 DEF AppendCommit

\* A handler that is about to reply has the answer in the transcript.
AnswerInv ==
  /\ RepliesAreRecorded
  /\ \A h \in Handler : pc[h] = "reply" => Current(h) \in InTranscript("assistant")

LEMMA AnswerInit == Init => AnswerInv
BY DEF Init, AnswerInv, RepliesAreRecorded

LEMMA AnswerFrame ==
  ASSUME AnswerInv, UNCHANGED <<messages, replied>>,
         \A g \in Handler : pc'[g] = "reply" => pc[g] = "reply" /\ todo'[g] = todo[g]
  PROVE  AnswerInv'
<1>1. InTranscript("assistant")' = InTranscript("assistant")
  BY DEF InTranscript, Update
<1>2. \A g \in Handler : pc'[g] = "reply" => Current(g)' = Current(g)
  BY DEF Current
<1>. QED BY <1>1, <1>2 DEF AnswerInv, RepliesAreRecorded

LEMMA AnswerStep == Typed /\ AnswerInv /\ [Next]_vars => AnswerInv'
<1>. SUFFICES ASSUME Typed, AnswerInv, [Next]_vars PROVE AnswerInv'
  OBVIOUS
<1>. DEFINE Keeps(g) == pc'[g] = "reply" => pc[g] = "reply" /\ todo'[g] = todo[g]
<1>1. CASE Arrive \/ UNCHANGED vars
  BY <1>1, AnswerFrame DEF Arrive, vars, store, history
<1>2. ASSUME NEW h \in Handler, PollRead(h) \/ Fetch(h) \/ Deliver(h) PROVE AnswerInv'
  <2>1. UNCHANGED <<messages, replied>>
    BY <1>2 DEF PollRead, Fetch, Deliver, store, history
  <2>2. \A g \in Handler : Keeps(g)
    BY <1>2 DEF PollRead, Fetch, Deliver, Relay, Goto, Typed, TypeOK
  <2>. QED BY <2>1, <2>2, AnswerFrame
<1>3. ASSUME NEW h \in Handler, Bind(h) \/ AppendRead(h) PROVE AnswerInv'
  <2>1. UNCHANGED <<messages, replied, todo>>
    BY <1>3 DEF Bind, BindRead, BindClaw, BindThread, BindCreate, AppendRead, store, history
  <2>2. \A g \in Handler : Keeps(g)
    BY <1>3, <2>1 DEF Bind, BindRead, BindClaw, BindThread, BindCreate, AppendRead, Goto,
                      Typed, TypeOK
  <2>. QED BY <2>1, <2>2, AnswerFrame
<1>4. ASSUME NEW h \in Handler, AppendCommit(h) PROVE AnswerInv'
  <2>1. UNCHANGED <<replied, todo>>
    BY <1>4 DEF AppendCommit, history
  <2>2. \A g \in Handler : Current(g)' = Current(g)
    BY <2>1 DEF Current
  <2>3. InTranscript("assistant") \subseteq InTranscript("assistant")'
    BY <1>4, CommitTranscript
  <2>4. ASSUME NEW g \in Handler, pc'[g] = "reply"
        PROVE  Current(g) \in InTranscript("assistant")'
    <3>1. CASE pc[g] = "reply"
      BY <2>3, <3>1 DEF AnswerInv
    <3>2. CASE pc[g] # "reply"
      BY <1>4, <2>4, <3>2, CommitTranscript DEF Typed, TypeOK
    <3>. QED BY <3>1, <3>2
  <2>. QED BY <2>1, <2>2, <2>3, <2>4 DEF AnswerInv, RepliesAreRecorded
<1>5. ASSUME NEW h \in Handler, AppendFails(h) \/ Persist(h) \/ Fail(h) PROVE AnswerInv'
  <2>1. End(h) /\ UNCHANGED <<messages, replied>>
    BY <1>5 DEF AppendFails, Persist, Fail, store, history
  <2>2. \A g \in Handler : Keeps(g)
    BY <2>1 DEF End, Goto, Typed, TypeOK
  <2>. QED BY <2>1, <2>2, AnswerFrame
<1>6. ASSUME NEW h \in Handler, Run(h) PROVE AnswerInv'
  <2>1. UNCHANGED <<messages, replied>>
    BY <1>6 DEF Run, store
  <2>2. \A g \in Handler : Keeps(g)
    BY <1>6 DEF Run, Completed, Handled, Goto, Typed, TypeOK
  <2>. QED BY <2>1, <2>2, AnswerFrame
<1>7. ASSUME NEW h \in Handler, Reply(h) PROVE AnswerInv'
  <2>1. /\ Current(h) \in InTranscript("assistant") /\ UNCHANGED messages
        /\ replied' \subseteq replied \cup {Current(h)}
    BY <1>7 DEF Reply, store, AnswerInv
  <2>2. InTranscript("assistant")' = InTranscript("assistant")
    BY <2>1 DEF InTranscript, Update
  <2>3. ASSUME NEW g \in Handler, pc'[g] = "reply"
        PROVE  Current(g)' \in InTranscript("assistant")
    <3>1. pc[g] = "reply" /\ todo'[g] = todo[g]
      BY <1>7, <2>3 DEF Reply, Handled, Goto, Typed, TypeOK
    <3>. QED BY <3>1 DEF Current, AnswerInv
  <2>. QED BY <2>1, <2>2, <2>3 DEF AnswerInv, RepliesAreRecorded
<1>. QED BY <1>1, <1>2, <1>3, <1>4, <1>5, <1>6, <1>7 DEF Next, Handle, Send, Quiet

\* The bot says nothing that is not in the transcript.
THEOREM RepliesHaveRows == Spec => []RepliesAreRecorded
<1>1. AnswerInv => RepliesAreRecorded
  BY DEF AnswerInv
<1>. QED BY TypedInit, TypedStep, AnswerInit, AnswerStep, <1>1, PTL DEF Spec

----------------------------------------------------------------------------
(* The order of a transcript.                                              *)

Asked == {"run", "answer", "answered", "reply"}

\* Handled messages are in a transcript, and so is the one a handler runs the claw for.
OrderInv ==
  /\ AskedInOrder
  /\ handled \subseteq InTranscript("user")
  /\ \A h \in Handler : pc[h] \in Asked => Current(h) \in InTranscript("user")

LEMMA OrderInit == Init => OrderInv
<1>. SUFFICES ASSUME Init PROVE OrderInv
  OBVIOUS
<1>1. InTranscript("user") = {}
  BY DEF Init, InTranscript, Update
<1>. QED BY <1>1 DEF Init, OrderInv, AskedInOrder, Asked

\* A step that adds no message of a user and handles none that is not there.
LEMMA OrderFrame ==
  ASSUME OrderInv, UNCHANGED mode, InTranscript("user")' = InTranscript("user"),
         mute \subseteq mute', handled' \subseteq InTranscript("user"),
         \A g \in Handler : pc'[g] \in Asked => pc[g] \in Asked /\ todo'[g] = todo[g]
  PROVE  OrderInv'
<1>1. \A g \in Handler : pc'[g] \in Asked => Current(g)' = Current(g)
  BY DEF Current
<1>2. AskedInOrder'
  BY DEF OrderInv, AskedInOrder
<1>. QED BY <1>1, <1>2 DEF OrderInv

\* A handler asks for the first message it has left: by its pledge, the ones before it
\* are settled.
LEMMA OrderAsk ==
  ASSUME Typed, BatchInv, OrderInv, NEW h \in Handler, AppendCommit(h), pc[h] = "asked"
  PROVE  OrderInv'
<1>. DEFINE asked == InTranscript("user")
<1>1. /\ asked' = asked \cup {Current(h)} /\ pc' = [pc EXCEPT ![h] = "run"]
      /\ UNCHANGED <<mode, mute, handled, todo>>
  BY CommitTranscript DEF AppendCommit, provider, history
<1>2. /\ Current(h) \in todo[h] /\ Current(h) \in Update
      /\ \A v \in todo[h] : Current(h) <= v
  BY CurrentIs DEF InHand
<1>3. /\ Pledged(h) \subseteq todo[h] \cup Settled /\ todo[h] \subseteq Pledged(h)
      /\ handled \subseteq asked /\ AskedInOrder
  BY DEF BatchInv, OrderInv
<1>4. ASSUME mode = "poll", NEW v \in 1..Current(h), v # Current(h)
      PROVE  v \in mute \/ v \in asked
  <2>1. v \in Update /\ v < Current(h) /\ v \in Nat /\ Current(h) \in Nat
    BY <1>2, <1>4, ConversationAssumption DEF Update
  <2>2. Current(h) < mark[h] /\ mark[h] \in Nat
    BY <1>2, <1>3, <1>4 DEF Pledged, Typed, TypeOK, Offset
  <2>3. v \in Pledged(h)
    BY <1>4, <2>1, <2>2 DEF Pledged
  <2>4. v \notin todo[h]
    BY <1>2, <2>1
  <2>. QED BY <1>3, <2>3, <2>4 DEF Settled
<1>5. AskedInOrder'
  <2>. HIDE DEF asked
  <2>1. ASSUME mode = "poll", NEW u \in asked', NEW v \in 1..u
        PROVE  v \in mute \/ v \in asked'
    <3>1. CASE u \in asked
      BY <1>1, <1>3, <2>1, <3>1 DEF AskedInOrder, asked
    <3>2. CASE u = Current(h)
      BY <1>1, <1>4, <2>1, <3>2
    <3>. QED BY <1>1, <2>1, <3>1, <3>2
  <2>. QED BY <1>1, <2>1 DEF AskedInOrder, asked
<1>6. ASSUME NEW g \in Handler, pc'[g] \in Asked
      PROVE  Current(g)' \in asked'
  <2>1. Current(g)' = Current(g)
    BY <1>1 DEF Current
  <2>2. CASE g = h
    BY <1>1, <2>1, <2>2
  <2>3. CASE g # h
    BY <1>1, <1>6, <2>1, <2>3 DEF OrderInv, Typed, TypeOK
  <2>. QED BY <2>2, <2>3
<1>. QED BY <1>1, <1>3, <1>5, <1>6 DEF OrderInv

LEMMA OrderStep == Typed /\ BatchInv /\ OrderInv /\ [Next]_vars => OrderInv'
<1>. SUFFICES ASSUME Typed, BatchInv, OrderInv, [Next]_vars PROVE OrderInv'
  OBVIOUS
<1>. DEFINE Keeps(g) == pc'[g] \in Asked => pc[g] \in Asked /\ todo'[g] = todo[g]
<1>0. UNCHANGED messages => InTranscript("user")' = InTranscript("user")
  BY DEF InTranscript, Update
<1>1. CASE Arrive \/ UNCHANGED vars
  <2>1. /\ UNCHANGED <<mode, messages, handled, pc, todo>> /\ mute \subseteq mute'
    BY <1>1 DEF Arrive, vars, provider, store, history
  <2>. QED BY <1>0, <2>1, OrderFrame DEF OrderInv
<1>2. ASSUME NEW h \in Handler, PollRead(h) \/ Fetch(h) \/ Deliver(h) PROVE OrderInv'
  <2>1. UNCHANGED <<mode, mute, messages, handled>>
    BY <1>2 DEF PollRead, Fetch, Deliver, provider, store, history
  <2>2. \A g \in Handler : Keeps(g)
    BY <1>2 DEF PollRead, Fetch, Deliver, Relay, Goto, Typed, TypeOK, Asked
  <2>3. handled' \subseteq InTranscript("user")
    BY <2>1 DEF OrderInv
  <2>. QED BY <1>0, <2>1, <2>2, <2>3, OrderFrame
<1>3. ASSUME NEW h \in Handler, Bind(h) \/ AppendRead(h) PROVE OrderInv'
  <2>1. UNCHANGED <<mode, mute, messages, handled, todo>>
    BY <1>3 DEF Bind, BindRead, BindClaw, BindThread, BindCreate, AppendRead, provider,
                store, history
  <2>2. \A g \in Handler : Keeps(g)
    BY <1>3, <2>1 DEF Bind, BindRead, BindClaw, BindThread, BindCreate, AppendRead, Goto,
                      Typed, TypeOK, Asked
  <2>3. handled' \subseteq InTranscript("user")
    BY <2>1 DEF OrderInv
  <2>. QED BY <1>0, <2>1, <2>2, <2>3, OrderFrame
<1>4. ASSUME NEW h \in Handler, AppendCommit(h) PROVE OrderInv'
  <2>1. CASE pc[h] = "asked"
    BY <1>4, <2>1, OrderAsk
  <2>2. CASE pc[h] = "answered"
    <3>1. UNCHANGED <<mode, mute, handled, todo>>
      BY <1>4 DEF AppendCommit, provider, history
    <3>2. /\ InTranscript("user")' = InTranscript("user")
          /\ pc' = [pc EXCEPT ![h] = "reply"]
      BY <1>4, <2>2, CommitTranscript
    <3>3. \A g \in Handler : Keeps(g)
      BY <2>2, <3>1, <3>2 DEF Typed, TypeOK, Asked
    <3>4. handled' \subseteq InTranscript("user")
      BY <3>1 DEF OrderInv
    <3>. QED BY <3>1, <3>2, <3>3, <3>4, OrderFrame
  <2>. QED BY <1>4, <2>1, <2>2 DEF AppendCommit
<1>5. ASSUME NEW h \in Handler, AppendFails(h) \/ Persist(h) \/ Fail(h) PROVE OrderInv'
  <2>1. End(h) /\ UNCHANGED <<mode, mute, messages, handled>>
    BY <1>5 DEF AppendFails, Persist, Fail, provider, store, history
  <2>2. \A g \in Handler : Keeps(g)
    BY <2>1 DEF End, Goto, Typed, TypeOK, Asked
  <2>3. handled' \subseteq InTranscript("user")
    BY <2>1 DEF OrderInv
  <2>. QED BY <1>0, <2>1, <2>2, <2>3, OrderFrame
<1>6. ASSUME NEW h \in Handler, Run(h) \/ Reply(h) PROVE OrderInv'
  <2>1. UNCHANGED <<mode, mute, messages>>
    BY <1>6 DEF Run, Reply, provider, store
  <2>2. \A g \in Handler : Keeps(g)
    BY <1>6 DEF Run, Reply, Completed, Handled, Goto, Typed, TypeOK, Asked
  <2>3. handled' \subseteq InTranscript("user")
    <3>1. Current(h) \in InTranscript("user")
      BY <1>6 DEF Run, Reply, OrderInv, Asked
    <3>. QED BY <1>6, <3>1 DEF Run, Reply, Handled, OrderInv
  <2>. QED BY <1>0, <2>1, <2>2, <2>3, OrderFrame
<1>. QED BY <1>1, <1>2, <1>3, <1>4, <1>5, <1>6 DEF Next, Handle, Send, Quiet

\* Polled messages reach the transcript in the order they were written in.
THEOREM MessagesAreInOrder == Spec => []AskedInOrder
<1>1. OrderInv => AskedInOrder
  BY DEF OrderInv
<1>. QED BY TypedInit, TypedStep, BatchInit, BatchStep, OrderInit, OrderStep, <1>1, PTL
         DEF Spec

==============================================================================
