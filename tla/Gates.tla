--------------------------------- MODULE Gates ---------------------------------
(***************************************************************************)
(* The governance of one run (foundation/core governance.ts): gates are    *)
(* registered in three ordered lists, and every call of a tool or of the   *)
(* model passes them.  Boundary gates and tool gates decide before the     *)
(* call, after-gates observe it in a finally: the first two of them write  *)
(* the audit entry and the row of a parked call.  A granted row is         *)
(* consumed and its call is run again without the gate that asked.         *)
(*                                                                         *)
(* A gate's handler is other people's code: its verdict is open, each time *)
(* it is asked.  An invalid verdict throws, as the handler may itself.     *)
(* Reasons, annotations, redaction and the time are left out.              *)
(***************************************************************************)
EXTENDS Naturals, FiniteSets, SequencesExt

CONSTANTS Call,      \* calls of tools or of the model; a continued call is another one
          None,
          Setups,    \* the sequences of registrations [list, gate] a run may begin with
          Stores     \* which of the ports "audit" and "approval" the host may give

VARIABLES setup,      \* the registrations that are left
          boundary,   \* boundaryBefore: the gates of both kinds of calls
          before,     \* the gates of tool calls
          after,      \* the after-gates
          sealed,     \* the ids that were registered sealed
          kinds,      \* the ids registered as boundary gates and as tool gates
          call,       \* per call: where it is and what became of it
          trail,      \* the audit entries of this run
          parked      \* the approval rows, by the call that was parked

gateVars == <<boundary, before, after, sealed, kinds>>
vars == <<setup, boundary, before, after, sealed, kinds, call, trail, parked>>

Gate(id, isSealed, version) == [id |-> id, sealed |-> isSealed, version |-> version]
AuditGate == Gate("audit", TRUE, 0)
ApprovalGate == Gate("approval", TRUE, 0)

Kinds == {"tool", "model", "stream"}
Outcome(status, gate) == [status |-> status, gate |-> gate]
NoOutcome == Outcome("none", None)

\* A call not yet made.  cleared are the gates it was permitted by, or that did not match it;
\* payload is the call whose arguments it runs with, bypass the gate it need not pass.
NewCall(pc, kind, payload, bypass) ==
  [pc |-> pc, kind |-> kind, payload |-> payload, bypass |-> bypass, at |-> 1,
   outcome |-> NoOutcome, throws |-> FALSE, cleared |-> {}, ran |-> FALSE]

Named == {registration.gate.id : registration \in UNION {Range(s) : s \in Setups}}

\* A list of registrations, and a missing gate, which is none.
GatesAssumption ==
  /\ Setups \subseteq Seq([list : {"boundary", "tool", "after"},
                          gate : [id : Named, sealed : BOOLEAN, version : Nat]])
  /\ None \notin Named

BoundaryCall ==
  [pc : {"idle", "context", "boundary", "gates", "run", "after", "answered", "thrown"},
   kind : Kinds, payload : Call, bypass : Named \cup {None}, at : Nat,
   outcome : [status : {"none", "ok", "error", "denied", "needs-approval"},
              gate : Named \cup {None}],
   throws : BOOLEAN, cleared : SUBSET Named, ran : BOOLEAN]

TypeOK ==
  /\ call \in [Call -> BoundaryCall]
  /\ \A i \in DOMAIN trail : trail[i].call \in Call
  /\ \A c \in Call : parked[c].status \in {"none", "pending", "granted", "denied", "consumed"}

Init ==
  /\ \E stores \in Stores :
       after = (IF "audit" \in stores THEN <<AuditGate>> ELSE <<>>)
               \o (IF "approval" \in stores THEN <<ApprovalGate>> ELSE <<>>)
  /\ setup \in Setups
  /\ boundary = <<>> /\ before = <<>>
  /\ sealed = {} /\ kinds = [boundary |-> {}, tool |-> {}]
  /\ call = [c \in Call |-> NewCall("idle", "tool", c, None)]
  /\ trail = <<>>
  /\ parked = [c \in Call |-> [status |-> "none", gate |-> None, payload |-> None, by |-> None]]

-----------------------------------------------------------------------------
(* Registration.                                                           *)

\* A gate of this id that add may not replace: it throws, and leaves the lists alone.
Refused(list, gate, kind) ==
  \/ kind = "boundary" /\ gate.id \in kinds.tool
  \/ kind = "tool" /\ gate.id \in kinds.boundary
  \/ \E i \in DOMAIN list : list[i].id = gate.id /\ (gate.id \in sealed \/ list[i].sealed)

\* Mutant: a sealed gate is put at the end like any other.
Place_AtEnd(list, gate) == Append(list, gate)

\* Where add puts a gate: a sealed one before the first that is not, another at the end.
Place(list, gate) ==
  IF gate.sealed
    THEN LET rest == SelectInSeq(list, LAMBDA g : ~g.sealed)
         IN  InsertAt(list, IF rest = 0 THEN Len(list) + 1 ELSE rest, gate)
    ELSE Append(list, gate)

Without(list, id) ==
  LET i == SelectInSeq(list, LAMBDA g : g.id = id)
  IN  IF i = 0 THEN list ELSE RemoveAt(list, i)

Added(list, gate) == Place(Without(list, gate.id), gate)

Register ==
  /\ setup # <<>>
  /\ setup' = Tail(setup)
  /\ LET kind == Head(setup).list
         gate == Head(setup).gate
         list == CASE kind = "boundary" -> boundary [] kind = "tool" -> before [] OTHER -> after
     IN  IF Refused(list, gate, kind)
           THEN UNCHANGED gateVars
           ELSE /\ boundary' = IF kind = "boundary" THEN Added(list, gate) ELSE boundary
                /\ before' = IF kind = "tool" THEN Added(list, gate) ELSE before
                /\ after' = IF kind = "after" THEN Added(list, gate) ELSE after
                /\ sealed' = sealed \cup {id \in {gate.id} : gate.sealed}
                /\ kinds' = [k \in DOMAIN kinds |->
                              kinds[k] \cup {id \in {gate.id} : k = kind}]
  /\ UNCHANGED <<call, trail, parked>>

-----------------------------------------------------------------------------
(* One governed call.                                                      *)

Update(c, record) == call' = [call EXCEPT ![c] = record]

\* handleToolCall, handleModelCall and checkModelBoundary.
Begin(c, kind) ==
  /\ setup = <<>> /\ call[c].pc = "idle"
  /\ Update(c, NewCall("context", kind, c, None))
  /\ UNCHANGED <<setup, gateVars, trail, parked>>

\* Mutant: the row is not consumed, and can be continued again.
Continue_Kept(c, id) ==
  /\ setup = <<>> /\ call[c].pc = "idle"
  /\ parked[id].status = "granted"
  /\ parked' = [parked EXCEPT ![id].by = c]
  /\ Update(c, NewCall("context", "tool", parked[id].payload, parked[id].gate))
  /\ UNCHANGED <<setup, gateVars, trail>>

\* continueRun: nothing unless the row is there to be consumed.
Continue(c, id) ==
  /\ setup = <<>> /\ call[c].pc = "idle"
  /\ parked[id].status = "granted"
  /\ parked' = [parked EXCEPT ![id].status = "consumed", ![id].by = c]
  /\ Update(c, NewCall("context", "tool", parked[id].payload, parked[id].gate))
  /\ UNCHANGED <<setup, gateVars, trail>>

\* resolveCtx and the redaction of the arguments come before the try: nothing observes a call
\* that they end.
Resolve(c, ok) ==
  /\ call[c].pc = "context"
  /\ Update(c, [call[c] EXCEPT !.pc = IF ok THEN "boundary" ELSE "thrown"])
  /\ UNCHANGED <<setup, gateVars, trail, parked>>

\* Where a call goes with its outcome: on to the after-gates, which checkModelBoundary has not.
Conclude(c, outcome, throws) ==
  Update(c, [call[c] EXCEPT !.outcome = outcome, !.throws = throws, !.at = 1,
                            !.ran = call[c].pc = "run",
                            !.pc = IF call[c].kind # "stream" THEN "after"
                                   ELSE IF throws THEN "thrown" ELSE "answered"])

\* The next gate of a list is asked, and the call goes on, or ends with the gate's decision.  A
\* model call cannot wait for an approval: that throws.
Ask(c, gate, verdict) ==
  CASE gate.id = call[c].bypass \/ verdict \in {"skip", "permit"} ->
         Update(c, [call[c] EXCEPT !.at = @ + 1,
                     !.cleared = IF gate.id = call[c].bypass THEN @ ELSE @ \cup {gate.id}])
    [] OTHER ->
         LET throws == verdict = "throw" \/ (verdict = "needs-approval" /\ call[c].kind # "tool")
         IN  Conclude(c, IF throws THEN Outcome("error", None) ELSE Outcome(verdict, gate.id), throws)

Verdicts == {"skip", "permit", "denied", "needs-approval", "throw"}

BoundaryGates(c, verdict) ==
  /\ call[c].pc = "boundary"
  /\ IF call[c].at <= Len(boundary)
       THEN Ask(c, boundary[call[c].at], verdict)
       ELSE /\ verdict = "permit"
            /\ Update(c, [call[c] EXCEPT !.at = 1,
                           !.pc = IF call[c].kind = "tool" THEN "gates" ELSE "run"])
  /\ UNCHANGED <<setup, gateVars, trail, parked>>

ToolGates(c, verdict) ==
  /\ call[c].pc = "gates"
  /\ IF call[c].at <= Len(before)
       THEN Ask(c, before[call[c].at], verdict)
       ELSE verdict = "permit" /\ Update(c, [call[c] EXCEPT !.pc = "run"])
  /\ UNCHANGED <<setup, gateVars, trail, parked>>

\* runTool, callModel, or the stream the caller goes on to read.
Execute(c, ok) ==
  /\ call[c].pc = "run"
  /\ Conclude(c, Outcome(IF ok THEN "ok" ELSE "error", None), ~ok)
  /\ UNCHANGED <<setup, gateVars, trail, parked>>

\* auditGate and approvalGate; an after-gate of a plugin only looks on.
Record(c, gate) ==
  /\ trail' = IF gate = AuditGate
                THEN Append(trail, [call |-> c, outcome |-> call[c].outcome]) ELSE trail
  /\ parked' = IF gate = ApprovalGate /\ call[c].kind = "tool"
                    /\ call[c].outcome.status = "needs-approval"
                 THEN [parked EXCEPT ![c] = [status |-> "pending", gate |-> call[c].outcome.gate,
                                             payload |-> call[c].payload, by |-> None]]
                 ELSE parked

\* The finally: each after-gate in turn.  One that throws ends the call, whatever its outcome.
Observe(c) ==
  /\ call[c].pc = "after" /\ call[c].at <= Len(after)
  /\ Record(c, after[call[c].at])
  /\ Update(c, [call[c] EXCEPT !.at = @ + 1])
  /\ UNCHANGED <<setup, gateVars>>

ObserverFails(c) ==
  /\ call[c].pc = "after" /\ call[c].at <= Len(after)
  /\ Update(c, [call[c] EXCEPT !.pc = "thrown"])
  /\ UNCHANGED <<setup, gateVars, trail, parked>>

Return(c) ==
  /\ call[c].pc = "after" /\ call[c].at > Len(after)
  /\ Update(c, [call[c] EXCEPT !.pc = IF call[c].throws THEN "thrown" ELSE "answered"])
  /\ UNCHANGED <<setup, gateVars, trail, parked>>

\* Somebody grants or denies a parked call.
Decide(id, status) ==
  /\ parked[id].status = "pending"
  /\ parked' = [parked EXCEPT ![id].status = status]
  /\ UNCHANGED <<setup, gateVars, call, trail>>

Next ==
  \/ Register
  \/ \E c \in Call :
       \/ \E kind \in Kinds : Begin(c, kind)
       \/ \E id \in Call : Continue(c, id)
       \/ \E ok \in BOOLEAN : Resolve(c, ok) \/ Execute(c, ok)
       \/ \E verdict \in Verdicts : BoundaryGates(c, verdict) \/ ToolGates(c, verdict)
       \/ Observe(c) \/ ObserverFails(c) \/ Return(c)
       \/ \E status \in {"granted", "denied"} : Decide(c, status)

Spec == Init /\ [][Next]_vars

-----------------------------------------------------------------------------
(* Properties.                                                             *)

Ids(list) == {list[i].id : i \in DOMAIN list}

\* What runs was let through: by every gate of its boundary and, for a tool, by every tool gate,
\* each asked in this very call, except one that had parked the same arguments, whose row was
\* granted and is consumed by this call and no other (runGoverned, continueRun).
RunsPastEveryGate ==
  \A c \in Call : call[c].ran =>
    \A id \in Ids(boundary) \cup (IF call[c].kind = "tool" THEN Ids(before) ELSE {}) :
      \/ id \in call[c].cleared
      \/ \E p \in Call : /\ parked[p].status = "consumed" /\ parked[p].by = c
                         /\ parked[p].gate = id /\ parked[p].payload = call[c].payload

Has(store) == \E i \in DOMAIN after : after[i] = store

\* Who gets an answer left its traces: an entry with the status it was told, and a row for a
\* person to decide if it was told to wait, whatever gates of plugins do or throw.  A streamed
\* call has neither (the finally of runGoverned and handleModelCall).
AnsweredIsRecorded ==
  \A c \in Call : (call[c].pc = "answered" /\ call[c].kind # "stream") =>
    /\ Has(AuditGate) =>
         Cardinality({i \in DOMAIN trail : trail[i].call = c}) = 1
         /\ \E i \in DOMAIN trail : trail[i] = [call |-> c, outcome |-> call[c].outcome]
    /\ (Has(ApprovalGate) /\ call[c].outcome.status = "needs-approval") =>
         parked[c].status # "none" /\ parked[c].gate = call[c].outcome.gate

\* The sealed gates of a list come first in it, and keep their places in the next.
Keeps(old, new) ==
  /\ \A i \in DOMAIN old : old[i].sealed => i \in DOMAIN new /\ new[i] = old[i]
  /\ \A i, j \in DOMAIN new : i < j /\ new[j].sealed => new[i].sealed

\* A registration only adds to the sealed gates of a list.
KeepsSealed == Keeps(boundary, boundary') /\ Keeps(before, before') /\ Keeps(after, after')

\* A sealed gate cannot be removed, replaced or passed by another, whatever is registered after
\* it and in which order (add).
SealedStay == [][KeepsSealed]_vars
================================================================================
