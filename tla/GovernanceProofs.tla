---------------------------- MODULE GovernanceProofs ----------------------------
(***************************************************************************)
(* Proofs about the governance of runs: the gates, for any number of calls *)
(* and any registrations; the audit log, for any entries and damage; the   *)
(* decisions on policies, for any organizations and any writes; and two    *)
(* parts that are functions of what they are given: wheres of any length,  *)
(* and any slices over the floor.                                          *)
(***************************************************************************)
EXTENDS Components, SequenceTheorems, FiniteSetTheorems, WellFoundedInduction, TLAPS

----------------------------------------------------------------------------
(* Lists of gates.                                                         *)

LEMMA LeastIs ==
  ASSUME NEW S \in SUBSET Nat, S # {}
  PROVE  Gates_!Min(S) \in S /\ \A v \in S : Gates_!Min(S) <= v
<1>1. PICK u \in S : \A v \in S : <<v, u>> \notin OpToRel(<, Nat)
  BY NatLessThanWellFounded, WFMin
<1>2. \A v \in S : ~ (v < u)
  <2>1. \A m, n \in Nat : m < n => <<m, n>> \in OpToRel(<, Nat)
    BY Zenon DEF OpToRel
  <2>. QED BY <1>1, <2>1, Zenon
<1>3. \A v \in S : u <= v
  BY <1>2
<1>. QED BY <1>3 DEF Gates_!Min

LEMMA JoinIs ==
  ASSUME NEW S, NEW s \in Seq(S), NEW t \in Seq(S)
  PROVE  /\ s \o t \in Seq(S) /\ Len(s \o t) = Len(s) + Len(t)
         /\ \A i \in 1..Len(s) : (s \o t)[i] = s[i]
         /\ \A i \in 1..(Len(s) + Len(t)) : i > Len(s) => (s \o t)[i] = t[i - Len(s)]
BY ConcatProperties

LEMMA PartIs ==
  ASSUME NEW S, NEW s \in Seq(S), NEW m \in 1..(Len(s) + 1), NEW n \in (m - 1)..Len(s)
  PROVE  /\ SubSeq(s, m, n) \in Seq(S) /\ Len(SubSeq(s, m, n)) = n - m + 1
         /\ \A i \in 1..(n - m + 1) : SubSeq(s, m, n)[i] = s[m - 1 + i]
OBVIOUS

\* The list without the first gate of an id, if there is one.
LEMMA WithoutIs ==
  ASSUME NEW S, NEW list \in Seq(S), NEW id
  PROVE  LET rest == Gates_!Without(list, id) IN
         \/ /\ \A i \in DOMAIN list : list[i].id # id
            /\ rest = list
         \/ \E n \in DOMAIN list :
              /\ list[n].id = id
              /\ rest \in Seq(S) /\ Len(rest) = Len(list) - 1
              /\ \A i \in 1..(Len(list) - 1) : rest[i] = IF i < n THEN list[i] ELSE list[i + 1]
<1> DEFINE I == {i \in 1..Len(list) : list[i].id = id}
           rest == Gates_!Without(list, id)
<1>1. CASE I = {}
  BY <1>1 DEF Gates_!Without, Gates_!SelectInSeq
<1>2. CASE I # {}
  <2>1. PICK n \in 1..Len(list) : list[n].id = id /\ rest = Gates_!RemoveAt(list, n)
    <3>1. Gates_!Min(I) \in I
      <4>1. I \in SUBSET Nat
        OBVIOUS
      <4>. HIDE DEF I
      <4>. QED BY <1>2, <4>1, LeastIs
    <3> DEFINE m == Gates_!Min(I)
    <3>2. m \in 1..Len(list) /\ m # 0 /\ list[m].id = id
      BY <3>1
    <3>3. rest = IF m = 0 THEN list ELSE Gates_!RemoveAt(list, m)
      BY <1>2 DEF Gates_!Without, Gates_!SelectInSeq
    <3>. HIDE DEF m, rest
    <3>. QED BY <3>2, <3>3
  <2> DEFINE s == SubSeq(list, 1, n - 1)
             t == SubSeq(list, n + 1, Len(list))
  <2>2. rest = s \o t
    BY <2>1 DEF Gates_!RemoveAt
  <2>3. s \in Seq(S) /\ Len(s) = n - 1 /\ \A i \in 1..(n - 1) : s[i] = list[i]
    BY PartIs
  <2>4. t \in Seq(S) /\ Len(t) = Len(list) - n /\ \A i \in 1..(Len(list) - n) : t[i] = list[n + i]
    BY PartIs
  <2>. HIDE DEF s, t, rest
  <2>5. rest \in Seq(S) /\ Len(rest) = Len(list) - 1
    <3>1. s \o t \in Seq(S) /\ Len(s \o t) = Len(s) + Len(t)
      BY <2>3, <2>4, JoinIs
    <3>. QED BY <2>2, <2>3, <2>4, <3>1
  <2>6. ASSUME NEW i \in 1..(Len(list) - 1)
        PROVE  rest[i] = IF i < n THEN list[i] ELSE list[i + 1]
    <3>1. CASE i < n
      BY <2>2, <2>3, <2>4, <3>1, JoinIs
    <3>2. CASE ~ (i < n)
      <4>1. rest[i] = t[i - (n - 1)]
        BY <2>2, <2>3, <2>4, <3>2, JoinIs
      <4>2. i - (n - 1) \in 1..(Len(list) - n) /\ n + (i - (n - 1)) = i + 1
        BY <3>2
      <4>. QED BY <2>4, <3>2, <4>1, <4>2
    <3>. QED BY <3>1, <3>2
  <2>. QED BY <2>1, <2>5, <2>6 DEF rest
<1>. QED BY <1>1, <1>2

\* The list with a gate between others: a sealed one before the first that is not.
LEMMA PlaceIs ==
  ASSUME NEW S, NEW list \in Seq(S), NEW gate \in S, gate.sealed \in BOOLEAN
  PROVE  LET new == Gates_!Place(list, gate) IN
         \E n \in 1..(Len(list) + 1) :
           /\ new \in Seq(S) /\ Len(new) = Len(list) + 1
           /\ \A i \in 1..(Len(list) + 1) :
                new[i] = IF i < n THEN list[i] ELSE IF i = n THEN gate ELSE list[i - 1]
           /\ gate.sealed => \A i \in 1..(n - 1) : list[i].sealed
           /\ gate.sealed /\ n <= Len(list) => ~ list[n].sealed
           /\ ~ gate.sealed => n = Len(list) + 1
<1> DEFINE new == Gates_!Place(list, gate)
<1>1. CASE ~ gate.sealed
  <2>1. new = Append(list, gate)
    BY <1>1 DEF Gates_!Place
  <2>. QED BY <1>1, <2>1
<1>2. CASE gate.sealed
  <2> DEFINE I == {i \in 1..Len(list) : ~ list[i].sealed}
  <2>1. PICK n \in 1..(Len(list) + 1) :
          /\ new = Gates_!InsertAt(list, n, gate)
          /\ \A i \in 1..(n - 1) : list[i].sealed
          /\ n <= Len(list) => ~ list[n].sealed
    <3>1. CASE I = {}
      <4>1. new = Gates_!InsertAt(list, Len(list) + 1, gate)
        BY <1>2, <3>1 DEF Gates_!Place, Gates_!SelectInSeq
      <4>. QED BY <3>1, <4>1
    <3>2. CASE I # {}
      <4> DEFINE m == Gates_!Min(I)
      <4>1. m \in I /\ \A v \in I : m <= v
        <5>1. I \in SUBSET Nat
          OBVIOUS
        <5>. HIDE DEF I
        <5>. QED BY <3>2, <5>1, LeastIs
      <4>2. new = Gates_!InsertAt(list, m, gate)
        BY <1>2, <3>2, <4>1 DEF Gates_!Place, Gates_!SelectInSeq
      <4>. HIDE DEF m
      <4>. QED BY <4>1, <4>2
    <3>. QED BY <3>1, <3>2
  <2> DEFINE s == SubSeq(list, 1, n - 1)
             t == SubSeq(list, n, Len(list))
             start == s \o <<gate>>
  <2>2. new = start \o t
    BY <2>1 DEF Gates_!InsertAt
  <2>3. s \in Seq(S) /\ Len(s) = n - 1 /\ \A i \in 1..(n - 1) : s[i] = list[i]
    BY PartIs
  <2>4. /\ t \in Seq(S) /\ Len(t) = Len(list) - n + 1
        /\ \A i \in 1..(Len(list) - n + 1) : t[i] = list[n - 1 + i]
    BY PartIs
  <2>5. start \in Seq(S) /\ Len(start) = n /\ \A i \in 1..n : start[i] = IF i < n THEN list[i] ELSE gate
    <3>. HIDE DEF s
    <3>. QED BY <2>3
  <2>. HIDE DEF s, t, start, new
  <2>6. new \in Seq(S) /\ Len(new) = Len(list) + 1
    BY <2>2, <2>4, <2>5, JoinIs
  <2>7. ASSUME NEW i \in 1..(Len(list) + 1)
        PROVE  new[i] = IF i < n THEN list[i] ELSE IF i = n THEN gate ELSE list[i - 1]
    <3>1. CASE i <= n
      BY <2>2, <2>4, <2>5, <3>1, JoinIs
    <3>2. CASE i > n
      <4>1. new[i] = t[i - n]
        BY <2>2, <2>4, <2>5, <3>2, JoinIs
      <4>2. i - n \in 1..(Len(list) - n + 1) /\ n - 1 + (i - n) = i - 1
        BY <3>2
      <4>. QED BY <2>4, <3>2, <4>1, <4>2
    <3>. QED BY <3>1, <3>2
  <2>. QED BY <1>2, <2>1, <2>6, <2>7 DEF new
<1>. QED BY <1>1, <1>2

\* Ids are those of one gate of a list, and sealed gates come first in it.
InOrder(list) ==
  /\ \A i, j \in DOMAIN list : list[i].id = list[j].id => i = j
  /\ \A i, j \in DOMAIN list : i < j /\ list[j].sealed => list[i].sealed

\* A registration that is not refused keeps the order, and every sealed gate in its place.
LEMMA AddedKeeps ==
  ASSUME NEW S, NEW list \in Seq(S), \A g \in S : g.sealed \in BOOLEAN, InOrder(list),
         NEW gate \in S, \A i \in DOMAIN list : list[i].id = gate.id => ~ list[i].sealed
  PROVE  LET new == Gates_!Added(list, gate) IN
         new \in Seq(S) /\ InOrder(new) /\ Gates_!Keeps(list, new)
<1> DEFINE rest == Gates_!Without(list, gate.id)
           new == Gates_!Place(rest, gate)
<1>1. /\ rest \in Seq(S) /\ InOrder(rest)
      /\ \A i \in DOMAIN rest : rest[i].id # gate.id
      /\ \A i \in DOMAIN list : list[i].sealed => i \in DOMAIN rest /\ rest[i] = list[i]
  <2>1. CASE (\A i \in DOMAIN list : list[i].id # gate.id) /\ rest = list
    BY <2>1
  <2>2. ASSUME NEW n \in DOMAIN list, list[n].id = gate.id,
               rest \in Seq(S), Len(rest) = Len(list) - 1,
               \A i \in 1..(Len(list) - 1) : rest[i] = IF i < n THEN list[i] ELSE list[i + 1]
        PROVE  /\ InOrder(rest)
               /\ \A i \in DOMAIN rest : rest[i].id # gate.id
               /\ \A i \in DOMAIN list : list[i].sealed => i \in DOMAIN rest /\ rest[i] = list[i]
    <3>. HIDE DEF rest
    <3>1. DOMAIN list = 1..Len(list) /\ DOMAIN rest = 1..(Len(list) - 1)
      BY <2>2
    <3>2. \A i \in DOMAIN rest : rest[i].id # gate.id
      <4>1. \A i \in DOMAIN rest : \E j \in DOMAIN list : j # n /\ rest[i] = list[j]
        <5>1. Len(list) \in Nat /\ n \in 1..Len(list)
          BY <2>2, <3>1
        <5>2. ASSUME NEW i \in DOMAIN rest, i < n
              PROVE  i \in DOMAIN list /\ i # n /\ rest[i] = list[i]
          BY <2>2, <3>1, <5>1, <5>2
        <5>3. ASSUME NEW i \in DOMAIN rest, ~ (i < n)
              PROVE  i + 1 \in DOMAIN list /\ i + 1 # n /\ rest[i] = list[i + 1]
          BY <2>2, <3>1, <5>1, <5>3
        <5>. QED BY <5>2, <5>3
      <4>2. \A j \in DOMAIN list : j # n => list[j].id # gate.id
        BY <2>2 DEF InOrder
      <4>. QED BY <4>1, <4>2
    <3>3. \A i \in DOMAIN list : list[i].sealed => i < n
      BY <2>2, <3>1 DEF InOrder
    <3>4. InOrder(rest)
      <4> DEFINE was(i) == IF i < n THEN i ELSE i + 1
      <4>1. \A i \in DOMAIN rest : was(i) \in DOMAIN list /\ rest[i] = list[was(i)]
        BY <2>2, <3>1
      <4>2. \A i, j \in DOMAIN rest : i < j <=> was(i) < was(j)
        BY <3>1
      <4>3. \A i, j \in DOMAIN rest : was(i) = was(j) => i = j
        BY <3>1
      <4>. HIDE DEF was
      <4>. QED BY <4>1, <4>2, <4>3 DEF InOrder
    <3>. QED BY <2>2, <3>1, <3>2, <3>3, <3>4
  <2>. QED BY <2>1, <2>2, WithoutIs
<1>. HIDE DEF rest
<1>2. PICK n \in 1..(Len(rest) + 1) :
        /\ new \in Seq(S) /\ Len(new) = Len(rest) + 1
        /\ \A i \in 1..(Len(rest) + 1) :
             new[i] = IF i < n THEN rest[i] ELSE IF i = n THEN gate ELSE rest[i - 1]
        /\ gate.sealed => \A i \in 1..(n - 1) : rest[i].sealed
        /\ gate.sealed /\ n <= Len(rest) => ~ rest[n].sealed
        /\ ~ gate.sealed => n = Len(rest) + 1
  BY <1>1, PlaceIs
<1>. HIDE DEF new
<1>3. DOMAIN rest = 1..Len(rest) /\ DOMAIN new = 1..(Len(rest) + 1)
  BY <1>1, <1>2
<1>4. \A i \in DOMAIN rest : rest[i].sealed => i < n
  BY <1>1, <1>2, <1>3 DEF InOrder
<1>5. InOrder(new)
  <2>1. ASSUME NEW i \in DOMAIN new, NEW j \in DOMAIN new, new[i].id = new[j].id
        PROVE  i = j
    <3> DEFINE was(k) == IF k < n THEN k ELSE k - 1
    <3>1. \A k \in DOMAIN new \ {n} : was(k) \in DOMAIN rest /\ new[k] = rest[was(k)]
      BY <1>2, <1>3
    <3>2. \A k, l \in DOMAIN new \ {n} : was(k) = was(l) => k = l
      BY <1>3
    <3>3. new[n] = gate
      BY <1>2
    <3>. HIDE DEF was
    <3>. QED BY <1>1, <2>1, <3>1, <3>2, <3>3 DEF InOrder
  <2>2. ASSUME NEW i \in DOMAIN new, NEW j \in DOMAIN new, i < j, new[j].sealed
        PROVE  new[i].sealed
    <3>1. CASE j < n
      BY <1>1, <1>2, <1>3, <2>2, <3>1 DEF InOrder
    <3>2. CASE j = n
      BY <1>2, <1>3, <2>2, <3>2
    <3>3. CASE j > n
      BY <1>2, <1>3, <1>4, <2>2, <3>3
    <3>. QED BY <1>3, <3>1, <3>2, <3>3
  <2>. QED BY <2>1, <2>2 DEF InOrder
<1>6. Gates_!Keeps(list, new)
  BY <1>1, <1>2, <1>3, <1>4, <1>5 DEF Gates_!Keeps, InOrder
<1>. QED BY <1>2, <1>5, <1>6 DEF Gates_!Added, rest, new

----------------------------------------------------------------------------
(* What governed calls go through.                                         *)

NamedGate == [id : Gates_!Named, sealed : BOOLEAN, version : Nat]
AnyGate == [id : Gates_!Named \cup {"audit", "approval"}, sealed : BOOLEAN, version : Nat]
Outcomes ==
  [status : {"none", "ok", "error", "denied", "needs-approval"}, gate : Gates_!Named \cup {None}]

ListsOK ==
  /\ setup \in Seq([list : {"boundary", "tool", "after"}, gate : NamedGate])
  /\ boundary \in Seq(NamedGate) /\ before \in Seq(NamedGate) /\ after \in Seq(AnyGate)
  /\ InOrder(boundary) /\ InOrder(before) /\ InOrder(after)
  /\ kinds \in [{"boundary", "tool"} -> SUBSET Gates_!Named]

StoresOK ==
  /\ trail \in Seq([call : GateCall, outcome : Outcomes])
  /\ parked \in [GateCall -> [status : {"none", "pending", "granted", "denied", "consumed"},
                              gate : Gates_!Named \cup {None}, payload : GateCall \cup {None},
                              by : GateCall \cup {None}]]

\* A gate lets a call through, or need not be asked.
Passed(self, id) == id \in self.cleared \/ id = self.bypass
PassedAll(self) ==
  /\ \A i \in DOMAIN boundary : Passed(self, boundary[i].id)
  /\ self.kind = "tool" => \A i \in DOMAIN before : Passed(self, before[i].id)

\* How far a call came: past the gates before the next one to ask, and what ran past them all.
PassOK(self) ==
  /\ self.pc \in {"idle", "context"} => self.at = 1 /\ ~ self.ran
  /\ self.pc = "boundary" =>
       self.at \in 1..(Len(boundary) + 1) /\ \A i \in 1..(self.at - 1) : Passed(self, boundary[i].id)
  /\ self.pc = "gates" =>
       /\ self.kind = "tool" /\ \A i \in DOMAIN boundary : Passed(self, boundary[i].id)
       /\ self.at \in 1..(Len(before) + 1) /\ \A i \in 1..(self.at - 1) : Passed(self, before[i].id)
  /\ self.pc = "run" \/ self.ran => PassedAll(self)
  /\ self.pc = "after" => self.at \in 1..(Len(after) + 1)

\* A gate need not be asked because its own row was granted and consumed.
ResumeOK(c, self) ==
  self.pc # "idle" /\ self.bypass # None =>
    \E p \in GateCall : /\ parked[p].status = "consumed" /\ parked[p].by = c
                        /\ parked[p].gate = self.bypass /\ parked[p].payload = self.payload

Before == {"idle", "context", "boundary", "gates", "run"}
Entries(c) == {i \in DOMAIN trail : trail[i].call = c}
OneEntry(c, self) ==
  \E i \in DOMAIN trail : trail[i] = [call |-> c, outcome |-> self.outcome] /\ Entries(c) = {i}
Seen(self, gate) == \E i \in 1..(self.at - 1) : after[i] = gate

\* What a call leaves in the stores, when each of the first two after-gates has seen it.
TraceOK(c, self) ==
  /\ self.outcome.status = "needs-approval" => self.kind = "tool"
  /\ parked[c].status # "none" =>
       /\ self.pc \notin Before /\ self.outcome.status = "needs-approval"
       /\ parked[c].gate = self.outcome.gate /\ parked[c].payload = self.payload
  /\ self.pc \in Before => Entries(c) = {}
  /\ self.pc = "after" =>
       /\ IF Seen(self, Gates_!AuditGate) THEN OneEntry(c, self) ELSE Entries(c) = {}
       /\ Seen(self, Gates_!ApprovalGate) =>
            (self.outcome.status = "needs-approval" <=> parked[c].status # "none")
       /\ ~ Seen(self, Gates_!ApprovalGate) => parked[c].status = "none"
  /\ self.pc = "answered" /\ self.kind # "stream" =>
       /\ Gates_!Has(Gates_!AuditGate) => OneEntry(c, self)
       /\ Gates_!Has(Gates_!ApprovalGate) /\ self.outcome.status = "needs-approval" =>
            parked[c].status # "none"

CallOK(c, self) == PassOK(self) /\ ResumeOK(c, self) /\ TraceOK(c, self)

GateInv ==
  /\ ListsOK /\ StoresOK
  /\ call \in [GateCall -> Gates_!BoundaryCall]
  /\ setup # <<>> => \A c \in GateCall : call[c].pc = "idle"
  /\ \A c \in GateCall : CallOK(c, call[c])

LEMMA GateTypes ==
  /\ \A g \in NamedGate : g.sealed \in BOOLEAN /\ g.id \in Gates_!Named
  /\ \A g \in AnyGate : g.sealed \in BOOLEAN
  /\ NamedGate \subseteq AnyGate
  /\ Gates_!AuditGate \in AnyGate /\ Gates_!ApprovalGate \in AnyGate
  /\ Gates_!AuditGate # Gates_!ApprovalGate
  /\ None \notin Gates_!Named
BY Gates_GatesAssumption
DEF NamedGate, AnyGate, Gates_!AuditGate, Gates_!ApprovalGate, Gates_!Gate, Gates_!GatesAssumption

LEMMA GatesInit == Gates_!Init => GateInv
<1>. SUFFICES ASSUME Gates_!Init PROVE GateInv
  OBVIOUS
<1> DEFINE audit == Gates_!AuditGate
           approval_ == Gates_!ApprovalGate
<1>1. /\ setup \in Seq([list : {"boundary", "tool", "after"}, gate : NamedGate])
      /\ boundary = <<>> /\ before = <<>> /\ trail = <<>>
  BY Gates_GatesAssumption DEF Gates_!Init, Gates_!GatesAssumption, NamedGate
<1>2. after \in Seq(AnyGate) /\ InOrder(after)
  <2>1. \/ after = <<>> \o <<>> \/ after = <<audit>> \o <<>>
        \/ after = <<>> \o <<approval_>> \/ after = <<audit>> \o <<approval_>>
    BY DEF Gates_!Init
  <2>2. /\ audit \in AnyGate /\ approval_ \in AnyGate /\ audit.id # approval_.id
        /\ audit.sealed /\ approval_.sealed
    BY GateTypes DEF Gates_!AuditGate, Gates_!ApprovalGate, Gates_!Gate
  <2>. HIDE DEF audit, approval_
  <2>3. CASE after = <<>> \o <<>>
    BY <2>3 DEF InOrder
  <2>4. CASE after = <<audit>> \o <<>>
    <3>1. after = <<audit>>
      BY <2>4
    <3>. QED BY <2>2, <3>1 DEF InOrder
  <2>5. CASE after = <<>> \o <<approval_>>
    <3>1. after = <<approval_>>
      BY <2>5
    <3>. QED BY <2>2, <3>1 DEF InOrder
  <2>6. CASE after = <<audit>> \o <<approval_>>
    <3>1. /\ after \in Seq(AnyGate) /\ Len(after) = 2
          /\ after[1] = audit /\ after[2] = approval_
      <4>1. <<audit>> \in Seq(AnyGate) /\ <<approval_>> \in Seq(AnyGate)
        BY <2>2
      <4>. QED BY <2>6, <4>1, JoinIs
    <3>. QED BY <2>2, <3>1 DEF InOrder
  <2>. QED BY <2>1, <2>3, <2>4, <2>5, <2>6
<1>3. ListsOK
  <2>1. kinds \in [{"boundary", "tool"} -> SUBSET Gates_!Named]
    BY DEF Gates_!Init
  <2>2. boundary \in Seq(NamedGate) /\ before \in Seq(NamedGate) /\ InOrder(boundary) /\ InOrder(before)
    BY <1>1 DEF InOrder
  <2>. QED BY <1>1, <1>2, <2>1, <2>2 DEF ListsOK
<1>4. StoresOK
  BY <1>1 DEF Gates_!Init, StoresOK
<1>5. ASSUME NEW c \in GateCall
      PROVE  /\ call[c] \in Gates_!BoundaryCall /\ call[c].pc = "idle" /\ CallOK(c, call[c])
  <2>1. /\ call[c] = [pc |-> "idle", kind |-> "tool", payload |-> c, bypass |-> None, at |-> 1,
                      outcome |-> [status |-> "none", gate |-> None],
                      throws |-> FALSE, cleared |-> {}, ran |-> FALSE]
        /\ parked[c].status = "none"
    BY DEF Gates_!Init, Gates_!NewCall, Gates_!NoOutcome, Gates_!Outcome
  <2>2. Entries(c) = {}
    BY <1>1 DEF Entries
  <2>. QED
    BY <2>1, <2>2 DEF Gates_!BoundaryCall, Gates_!Kinds, CallOK, PassOK, ResumeOK, TraceOK, Before
<1>6. call \in [GateCall -> Gates_!BoundaryCall]
  BY <1>5 DEF Gates_!Init
<1>. QED BY <1>3, <1>4, <1>5, <1>6 DEF GateInv

LEMMA KeepsItself ==
  ASSUME NEW list, InOrder(list)
  PROVE  Gates_!Keeps(list, list)
BY DEF Gates_!Keeps, InOrder

\* A registration leaves every list in order, with its sealed gates.
LEMMA RegisterStep ==
  ASSUME GateInv, Gates_!Register
  PROVE  GateInv' /\ Gates_!KeepsSealed
<1> DEFINE kind == Head(setup).list
           gate == Head(setup).gate
           list == CASE kind = "boundary" -> boundary [] kind = "tool" -> before [] OTHER -> after
<1>1. /\ setup # <<>> /\ setup' = Tail(setup) /\ UNCHANGED <<call, trail, parked>>
      /\ setup' \in Seq([list : {"boundary", "tool", "after"}, gate : NamedGate])
      /\ kind \in {"boundary", "tool", "after"} /\ gate \in NamedGate
  <2>1. setup # <<>> /\ setup' = Tail(setup) /\ UNCHANGED <<call, trail, parked>>
    BY DEF Gates_!Register
  <2> DEFINE R == [list : {"boundary", "tool", "after"}, gate : NamedGate]
  <2>2. setup \in Seq(R)
    BY DEF GateInv, ListsOK
  <2>3. Head(setup) \in R /\ setup' \in Seq(R)
    <3>. HIDE DEF R
    <3>. QED BY <2>1, <2>2, HeadTailProperties
  <2>. QED BY <2>1, <2>3
<1>2. /\ ListsOK' /\ Gates_!KeepsSealed
  <2>1. CASE Gates_!Refused(list, gate, kind)
    <3>1. UNCHANGED Gates_!gateVars
      BY <2>1 DEF Gates_!Register
    <3>. QED BY <1>1, <3>1, KeepsItself
             DEF Gates_!gateVars, GateInv, ListsOK, InOrder, Gates_!KeepsSealed
  <2>2. CASE ~ Gates_!Refused(list, gate, kind)
    <3>1. /\ boundary' = IF kind = "boundary" THEN Gates_!Added(list, gate) ELSE boundary
          /\ before' = IF kind = "tool" THEN Gates_!Added(list, gate) ELSE before
          /\ after' = IF kind = "after" THEN Gates_!Added(list, gate) ELSE after
          /\ kinds' = [k \in DOMAIN kinds |-> kinds[k] \cup {id \in {gate.id} : k = kind}]
      BY <2>2 DEF Gates_!Register
    <3>2. \A i \in DOMAIN list : list[i].id = gate.id => ~ list[i].sealed
      BY <2>2 DEF Gates_!Refused
    <3>3. kinds' \in [{"boundary", "tool"} -> SUBSET Gates_!Named]
      BY <1>1, <3>1, GateTypes DEF GateInv, ListsOK
    <3>4. /\ boundary \in Seq(NamedGate) /\ before \in Seq(NamedGate) /\ after \in Seq(AnyGate)
          /\ InOrder(boundary) /\ InOrder(before) /\ InOrder(after)
      BY DEF GateInv, ListsOK
    <3>5. /\ Gates_!Keeps(boundary, boundary) /\ Gates_!Keeps(before, before)
          /\ Gates_!Keeps(after, after)
      BY <3>4, KeepsItself
    <3>6. CASE kind = "after"
      <4>1. list = after /\ gate \in AnyGate
        BY <1>1, <3>6, GateTypes
      <4>. HIDE DEF list, gate, kind
      <4>2. /\ after' \in Seq(AnyGate) /\ InOrder(after') /\ Gates_!Keeps(after, after')
        BY <3>1, <3>2, <3>4, <3>6, <4>1, AddedKeeps, GateTypes
      <4>3. boundary' = boundary /\ before' = before
        BY <3>1, <3>6
      <4>. QED BY <1>1, <3>3, <3>4, <3>5, <4>2, <4>3 DEF ListsOK, InOrder, Gates_!KeepsSealed
    <3>7. CASE kind = "boundary"
      <4>1. list = boundary
        BY <3>7
      <4>. HIDE DEF list, gate, kind
      <4>2. /\ boundary' \in Seq(NamedGate) /\ InOrder(boundary') /\ Gates_!Keeps(boundary, boundary')
        BY <1>1, <3>1, <3>2, <3>4, <3>7, <4>1, AddedKeeps, GateTypes
      <4>3. after' = after /\ before' = before
        BY <3>1, <3>7
      <4>. QED BY <1>1, <3>3, <3>4, <3>5, <4>2, <4>3 DEF ListsOK, InOrder, Gates_!KeepsSealed
    <3>8. CASE kind = "tool"
      <4>1. list = before
        BY <3>8
      <4>. HIDE DEF list, gate, kind
      <4>2. /\ before' \in Seq(NamedGate) /\ InOrder(before') /\ Gates_!Keeps(before, before')
        BY <1>1, <3>1, <3>2, <3>4, <3>8, <4>1, AddedKeeps, GateTypes
      <4>3. after' = after /\ boundary' = boundary
        BY <3>1, <3>8
      <4>. QED BY <1>1, <3>3, <3>4, <3>5, <4>2, <4>3 DEF ListsOK, InOrder, Gates_!KeepsSealed
    <3>. HIDE DEF list, gate, kind
    <3>. QED BY <1>1, <3>6, <3>7, <3>8
  <2>. QED BY <2>1, <2>2
<1>3. StoresOK'
  BY <1>1 DEF GateInv, StoresOK
<1>4. \A c \in GateCall : call[c].pc = "idle"
  BY <1>1 DEF GateInv
<1>5. ASSUME NEW c \in GateCall
      PROVE  CallOK(c, call[c])'
  <2>1. CallOK(c, call[c]) /\ call[c].pc = "idle"
    BY <1>4 DEF GateInv
  <2>. QED BY <1>1, <2>1 DEF CallOK, PassOK, ResumeOK, TraceOK, Entries, Before
<1>6. call' \in [GateCall -> Gates_!BoundaryCall]
  BY <1>1 DEF GateInv
<1>7. setup' # <<>> => \A c \in GateCall : call'[c].pc = "idle"
  BY <1>1, <1>4
<1>. QED BY <1>2, <1>3, <1>5, <1>6, <1>7 DEF GateInv

\* A call that goes on by itself.
LEMMA CallGoes ==
  ASSUME GateInv, NEW c \in GateCall, NEW record \in Gates_!BoundaryCall,
         call' = [call EXCEPT ![c] = record], setup # <<>> => record.pc = "idle",
         CallOK(c, record), UNCHANGED <<setup, Gates_!gateVars, trail, parked>>
  PROVE  GateInv'
<1>1. /\ call' \in [GateCall -> Gates_!BoundaryCall] /\ call'[c] = record
      /\ \A d \in GateCall \ {c} : call'[d] = call[d]
  BY DEF GateInv
<1>2. /\ ListsOK' /\ StoresOK'
      /\ setup' # <<>> => \A d \in GateCall : call'[d].pc = "idle"
  BY <1>1 DEF GateInv, ListsOK, StoresOK, InOrder, Gates_!gateVars
<1>3. ASSUME NEW d \in GateCall
      PROVE  CallOK(d, call[d])'
  <2>1. CallOK(d, call'[d])
    BY <1>1 DEF GateInv
  <2>. QED BY <2>1 DEF CallOK, PassOK, Passed, PassedAll, ResumeOK, TraceOK, Entries, Before, Seen,
              OneEntry, Gates_!Has, Gates_!gateVars
<1>. QED BY <1>1, <1>2, <1>3 DEF GateInv

LEMMA Started ==
  ASSUME GateInv, NEW c \in GateCall
  PROVE  /\ call[c] \in Gates_!BoundaryCall /\ CallOK(c, call[c])
         /\ call[c].pc # "idle" => setup = <<>>
BY DEF GateInv

LEMMA BeginStep ==
  ASSUME GateInv, NEW c \in GateCall, NEW kind \in Gates_!Kinds, Gates_!Begin(c, kind)
  PROVE  GateInv'
<1> DEFINE record == Gates_!NewCall("context", kind, c, None)
<1>1. record \in Gates_!BoundaryCall
  BY DEF Gates_!NewCall, Gates_!BoundaryCall, Gates_!NoOutcome, Gates_!Outcome
<1>2. call[c].pc = "idle" /\ CallOK(c, call[c])
  BY Started DEF Gates_!Begin
<1>3. CallOK(c, record)
  BY <1>2 DEF CallOK, PassOK, ResumeOK, TraceOK, Before, Gates_!NewCall, Gates_!NoOutcome, Gates_!Outcome
<1>4. call' = [call EXCEPT ![c] = record] /\ setup = <<>>
  BY DEF Gates_!Begin, Gates_!Update
<1>5. UNCHANGED <<setup, Gates_!gateVars, trail, parked>>
  BY DEF Gates_!Begin
<1>. HIDE DEF record
<1>. QED BY <1>1, <1>3, <1>4, <1>5, CallGoes

LEMMA ResolveStep ==
  ASSUME GateInv, NEW c \in GateCall, NEW ok \in BOOLEAN, Gates_!Resolve(c, ok)
  PROVE  GateInv'
<1> DEFINE place == IF ok THEN "boundary" ELSE "thrown"
           record == [call[c] EXCEPT !.pc = place]
<1>1. /\ call[c].pc = "context" /\ setup = <<>>
      /\ call[c] \in Gates_!BoundaryCall /\ CallOK(c, call[c])
  BY Started DEF Gates_!Resolve
<1>2. record \in Gates_!BoundaryCall /\ record.pc = place
  BY <1>1 DEF Gates_!BoundaryCall
<1>3. \A f \in DOMAIN record \ {"pc"} : record[f] = call[c][f]
  BY <1>1 DEF Gates_!BoundaryCall
<1>4. CallOK(c, record)
  <2>1. boundary \in Seq(NamedGate)
    BY DEF GateInv, ListsOK
  <2>. QED
    BY <1>1, <2>1 DEF CallOK, PassOK, PassedAll, Passed, ResumeOK, TraceOK, Before, Gates_!BoundaryCall
<1>5. call' = [call EXCEPT ![c] = record] /\ UNCHANGED <<setup, Gates_!gateVars, trail, parked>>
  BY DEF Gates_!Resolve, Gates_!Update
<1>. HIDE DEF record
<1>. QED BY <1>1, <1>2, <1>4, <1>5, CallGoes

\* A call that is decided, or has run, goes on to the after-gates.
LEMMA ConcludeStep ==
  ASSUME GateInv, NEW c \in GateCall, call[c].pc \in {"boundary", "gates", "run"},
         NEW outcome \in Outcomes, NEW throws \in BOOLEAN,
         outcome.status = "needs-approval" => call[c].kind = "tool",
         Gates_!Conclude(c, outcome, throws), UNCHANGED <<setup, Gates_!gateVars, trail, parked>>
  PROVE  GateInv'
<1> DEFINE self == call[c]
           place == IF self.kind # "stream" THEN "after" ELSE IF throws THEN "thrown" ELSE "answered"
           hasRun == self.pc = "run"
           record == [self EXCEPT !.outcome = outcome, !.throws = throws, !.at = 1, !.ran = hasRun, !.pc = place]
<1>1. self \in Gates_!BoundaryCall /\ CallOK(c, self) /\ setup = <<>>
  BY Started
<1>2. place \in {"after", "thrown", "answered"} /\ hasRun \in BOOLEAN /\ (hasRun <=> self.pc = "run")
  OBVIOUS
<1>3. call' = [call EXCEPT ![c] = record]
  BY DEF Gates_!Conclude, Gates_!Update
<1>. HIDE DEF place, hasRun
<1>4. /\ record \in Gates_!BoundaryCall
      /\ record.outcome = outcome /\ record.at = 1 /\ record.ran = hasRun /\ record.pc = place
      /\ record.kind = self.kind /\ record.payload = self.payload /\ record.bypass = self.bypass
      /\ record.cleared = self.cleared
  BY <1>1, <1>2 DEF Gates_!BoundaryCall, Outcomes
<1>. HIDE DEF record
<1>5. PassOK(record)
  <2>1. after \in Seq(AnyGate)
    BY DEF GateInv, ListsOK
  <2>. QED BY <1>1, <1>2, <1>4, <2>1 DEF CallOK, PassOK, PassedAll, Passed
<1>6. ResumeOK(c, record)
  BY <1>1, <1>4 DEF CallOK, ResumeOK
<1>7. TraceOK(c, record)
  <2>1. Entries(c) = {} /\ parked[c].status = "none"
    BY <1>1 DEF CallOK, TraceOK, Before
  <2>2. ~ Seen(record, Gates_!AuditGate) /\ ~ Seen(record, Gates_!ApprovalGate)
    BY <1>4 DEF Seen
  <2>3. place = "answered" => self.kind = "stream"
    BY DEF place
  <2>. QED BY <1>2, <1>4, <2>1, <2>2, <2>3 DEF TraceOK, Before
<1>. QED BY <1>1, <1>3, <1>4, <1>5, <1>6, <1>7, CallGoes DEF CallOK

\* A gate is asked, and lets the call go on to the next, or decides.
LEMMA AskStep ==
  ASSUME GateInv, NEW c \in GateCall, call[c].pc \in {"boundary", "gates"},
         NEW gate \in NamedGate, NEW verdict \in Gates_!Verdicts,
         Gates_!Ask(c, gate, verdict), UNCHANGED <<setup, Gates_!gateVars, trail, parked>>,
         call[c].pc = "boundary" => call[c].at <= Len(boundary) /\ gate = boundary[call[c].at],
         call[c].pc = "gates" => call[c].at <= Len(before) /\ gate = before[call[c].at]
  PROVE  GateInv'
<1> DEFINE self == call[c]
<1>1. self \in Gates_!BoundaryCall /\ CallOK(c, self) /\ setup = <<>>
  BY Started
<1>2. gate.id \in Gates_!Named
  BY GateTypes
<1>3. CASE gate.id = self.bypass \/ verdict \in {"skip", "permit"}
  <2> DEFINE cleared == IF gate.id = self.bypass THEN self.cleared ELSE self.cleared \cup {gate.id}
             record == [self EXCEPT !.at = self.at + 1, !.cleared = cleared]
  <2>1. call' = [call EXCEPT ![c] = record]
    BY <1>3 DEF Gates_!Ask, Gates_!Update
  <2>2. /\ cleared \in SUBSET Gates_!Named /\ self.cleared \subseteq cleared
        /\ gate.id \in cleared \/ gate.id = self.bypass
    BY <1>1, <1>2 DEF Gates_!BoundaryCall
  <2>. HIDE DEF cleared
  <2>3. /\ record \in Gates_!BoundaryCall
        /\ record.at = self.at + 1 /\ record.cleared = cleared
        /\ record.kind = self.kind /\ record.payload = self.payload /\ record.bypass = self.bypass
        /\ record.pc = self.pc /\ record.outcome = self.outcome /\ record.ran = self.ran
    <3> DEFINE at == self.at + 1
    <3>1. at \in Nat /\ record = [self EXCEPT !.at = at, !.cleared = cleared]
      BY <1>1 DEF Gates_!BoundaryCall
    <3>. HIDE DEF at, record
    <3>2. /\ record.at = at /\ record.cleared = cleared
          /\ record.kind = self.kind /\ record.payload = self.payload /\ record.bypass = self.bypass
          /\ record.pc = self.pc /\ record.outcome = self.outcome /\ record.ran = self.ran
      BY <1>1, <3>1 DEF Gates_!BoundaryCall
    <3>3. record \in Gates_!BoundaryCall
      BY <1>1, <2>2, <3>1 DEF Gates_!BoundaryCall
    <3>. QED BY <3>2, <3>3 DEF at
  <2>. HIDE DEF record
  <2>4. boundary \in Seq(NamedGate) /\ before \in Seq(NamedGate)
    BY DEF GateInv, ListsOK
  <2>5. \A id : Passed(self, id) => Passed(record, id)
    BY <2>2, <2>3 DEF Passed
  <2>6. Passed(record, gate.id)
    BY <2>2, <2>3 DEF Passed
  <2>7. PassOK(record)
    <3>1. CASE self.pc = "boundary"
      <4>1. /\ self.at \in 1..(Len(boundary) + 1)
            /\ \A i \in 1..(self.at - 1) : Passed(self, boundary[i].id)
        BY <1>1, <3>1 DEF CallOK, PassOK
      <4>2. /\ record.at \in 1..(Len(boundary) + 1)
            /\ \A i \in 1..(record.at - 1) : Passed(record, boundary[i].id)
        BY <2>3, <2>4, <2>5, <2>6, <3>1, <4>1, SMTT(30)
      <4>3. record.ran => PassedAll(record)
        BY <1>1, <2>3, <2>5 DEF CallOK, PassOK, PassedAll
      <4>. QED BY <2>3, <3>1, <4>2, <4>3 DEF PassOK
    <3>2. CASE self.pc = "gates"
      <4>1. /\ self.at \in 1..(Len(before) + 1) /\ self.kind = "tool"
            /\ \A i \in DOMAIN boundary : Passed(self, boundary[i].id)
            /\ \A i \in 1..(self.at - 1) : Passed(self, before[i].id)
        BY <1>1, <3>2 DEF CallOK, PassOK
      <4>2. /\ record.at \in 1..(Len(before) + 1)
            /\ \A i \in DOMAIN boundary : Passed(record, boundary[i].id)
            /\ \A i \in 1..(record.at - 1) : Passed(record, before[i].id)
        BY <2>3, <2>4, <2>5, <2>6, <3>2, <4>1, SMTT(30)
      <4>3. record.ran => PassedAll(record)
        BY <1>1, <2>3, <2>5 DEF CallOK, PassOK, PassedAll
      <4>. QED BY <2>3, <3>2, <4>1, <4>2, <4>3 DEF PassOK
    <3>. QED BY <3>1, <3>2
  <2>8. ResumeOK(c, record)
    BY <1>1, <2>3 DEF CallOK, ResumeOK
  <2>9. TraceOK(c, record)
    BY <1>1, <2>3 DEF CallOK, TraceOK, Before
  <2>. QED BY <1>1, <2>1, <2>3, <2>7, <2>8, <2>9, CallGoes DEF CallOK
<1>4. CASE ~ (gate.id = self.bypass \/ verdict \in {"skip", "permit"})
  <2> DEFINE throws == verdict = "throw" \/ (verdict = "needs-approval" /\ self.kind # "tool")
             outcome == IF throws THEN Gates_!Outcome("error", None)
                        ELSE Gates_!Outcome(verdict, gate.id)
  <2>1. Gates_!Conclude(c, outcome, throws)
    BY <1>4 DEF Gates_!Ask
  <2>2. outcome \in Outcomes /\ (outcome.status = "needs-approval" => self.kind = "tool")
    BY <1>2, <1>4 DEF Outcomes, Gates_!Outcome, Gates_!Verdicts
  <2>3. throws \in BOOLEAN
    OBVIOUS
  <2>. HIDE DEF throws, outcome
  <2>. QED BY <2>1, <2>2, <2>3, ConcludeStep
<1>. QED BY <1>3, <1>4

LEMMA BoundaryGatesStep ==
  ASSUME GateInv, NEW c \in GateCall, NEW verdict \in Gates_!Verdicts,
         Gates_!BoundaryGates(c, verdict)
  PROVE  GateInv'
<1> DEFINE self == call[c]
<1>1. /\ self \in Gates_!BoundaryCall /\ CallOK(c, self) /\ setup = <<>> /\ self.pc = "boundary"
      /\ UNCHANGED <<setup, Gates_!gateVars, trail, parked>>
  BY Started DEF Gates_!BoundaryGates
<1>2. /\ self.at \in 1..(Len(boundary) + 1) /\ boundary \in Seq(NamedGate) /\ before \in Seq(NamedGate)
      /\ \A i \in 1..(self.at - 1) : Passed(self, boundary[i].id)
  BY <1>1 DEF CallOK, PassOK, GateInv, ListsOK
<1>3. CASE self.at <= Len(boundary)
  <2>1. Gates_!Ask(c, boundary[self.at], verdict)
    BY <1>3 DEF Gates_!BoundaryGates
  <2>2. boundary[self.at] \in NamedGate
    BY <1>2, <1>3
  <2>. QED BY <1>1, <1>3, <2>1, <2>2, AskStep
<1>4. CASE ~ (self.at <= Len(boundary))
  <2> DEFINE place == IF self.kind = "tool" THEN "gates" ELSE "run"
             record == [self EXCEPT !.at = 1, !.pc = place]
  <2>1. call' = [call EXCEPT ![c] = record]
    BY <1>4 DEF Gates_!BoundaryGates, Gates_!Update
  <2>2. /\ record \in Gates_!BoundaryCall
        /\ record.at = 1 /\ record.cleared = self.cleared
        /\ record.kind = self.kind /\ record.payload = self.payload /\ record.bypass = self.bypass
        /\ record.pc = place /\ record.outcome = self.outcome /\ record.ran = self.ran
    BY <1>1 DEF Gates_!BoundaryCall
  <2>. HIDE DEF record
  <2>3. \A i \in DOMAIN boundary : Passed(record, boundary[i].id)
    BY <1>2, <1>4, <2>2, SMTT(30) DEF Passed
  <2>4. PassOK(record)
    BY <1>1, <1>2, <2>2, <2>3 DEF CallOK, PassOK, PassedAll, Passed
  <2>5. ResumeOK(c, record) /\ TraceOK(c, record)
    BY <1>1, <2>2 DEF CallOK, ResumeOK, TraceOK, Before
  <2>. QED BY <1>1, <2>1, <2>2, <2>4, <2>5, CallGoes DEF CallOK
<1>. QED BY <1>3, <1>4

LEMMA ToolGatesStep ==
  ASSUME GateInv, NEW c \in GateCall, NEW verdict \in Gates_!Verdicts,
         Gates_!ToolGates(c, verdict)
  PROVE  GateInv'
<1> DEFINE self == call[c]
<1>1. /\ self \in Gates_!BoundaryCall /\ CallOK(c, self) /\ setup = <<>> /\ self.pc = "gates"
      /\ UNCHANGED <<setup, Gates_!gateVars, trail, parked>>
  BY Started DEF Gates_!ToolGates
<1>2. /\ self.at \in 1..(Len(before) + 1) /\ boundary \in Seq(NamedGate) /\ before \in Seq(NamedGate)
      /\ self.kind = "tool"
      /\ \A i \in DOMAIN boundary : Passed(self, boundary[i].id)
      /\ \A i \in 1..(self.at - 1) : Passed(self, before[i].id)
  BY <1>1 DEF CallOK, PassOK, GateInv, ListsOK
<1>3. CASE self.at <= Len(before)
  <2>1. Gates_!Ask(c, before[self.at], verdict)
    BY <1>3 DEF Gates_!ToolGates
  <2>2. before[self.at] \in NamedGate
    BY <1>2, <1>3
  <2>. QED BY <1>1, <1>3, <2>1, <2>2, AskStep
<1>4. CASE ~ (self.at <= Len(before))
  <2> DEFINE record == [self EXCEPT !.pc = "run"]
  <2>1. call' = [call EXCEPT ![c] = record]
    BY <1>4 DEF Gates_!ToolGates, Gates_!Update
  <2>2. /\ record \in Gates_!BoundaryCall
        /\ record.cleared = self.cleared
        /\ record.kind = self.kind /\ record.payload = self.payload /\ record.bypass = self.bypass
        /\ record.pc = "run" /\ record.outcome = self.outcome /\ record.ran = self.ran
    BY <1>1 DEF Gates_!BoundaryCall
  <2>. HIDE DEF record
  <2>3. PassedAll(record)
    <3>1. \A i \in DOMAIN before : i \in 1..(self.at - 1)
      BY <1>2, <1>4
    <3>. QED BY <1>2, <2>2, <3>1 DEF Passed, PassedAll
  <2>4. PassOK(record)
    BY <2>2, <2>3 DEF PassOK
  <2>5. ResumeOK(c, record) /\ TraceOK(c, record)
    BY <1>1, <2>2 DEF CallOK, ResumeOK, TraceOK, Before
  <2>. QED BY <1>1, <2>1, <2>2, <2>4, <2>5, CallGoes DEF CallOK
<1>. QED BY <1>3, <1>4

LEMMA ExecuteStep ==
  ASSUME GateInv, NEW c \in GateCall, NEW ok \in BOOLEAN, Gates_!Execute(c, ok)
  PROVE  GateInv'
<1> DEFINE outcome == Gates_!Outcome(IF ok THEN "ok" ELSE "error", None)
<1>1. outcome \in Outcomes /\ outcome.status # "needs-approval"
  BY DEF Outcomes, Gates_!Outcome
<1>2. /\ Gates_!Conclude(c, outcome, ~ok) /\ call[c].pc = "run"
      /\ UNCHANGED <<setup, Gates_!gateVars, trail, parked>>
  BY DEF Gates_!Execute
<1>. HIDE DEF outcome
<1>. QED BY <1>1, <1>2, ConcludeStep

\* The finally is over, or one of its gates threw.
LEMMA AfterStep ==
  ASSUME GateInv, NEW c \in GateCall, Gates_!ObserverFails(c) \/ Gates_!Return(c)
  PROVE  GateInv'
<1> DEFINE self == call[c]
<1>1. /\ self \in Gates_!BoundaryCall /\ CallOK(c, self) /\ setup = <<>> /\ self.pc = "after"
      /\ UNCHANGED <<setup, Gates_!gateVars, trail, parked>>
  BY Started DEF Gates_!ObserverFails, Gates_!Return
<1>2. PICK place \in {"thrown", "answered"} :
        /\ call' = [call EXCEPT ![c] = [self EXCEPT !.pc = place]]
        /\ place = "answered" => self.at > Len(after)
  <2>1. CASE Gates_!ObserverFails(c)
    BY <2>1 DEF Gates_!ObserverFails, Gates_!Update
  <2>2. CASE Gates_!Return(c)
    BY <2>2 DEF Gates_!Return, Gates_!Update
  <2>. QED BY <2>1, <2>2
<1> DEFINE record == [self EXCEPT !.pc = place]
<1>3. /\ record \in Gates_!BoundaryCall
      /\ record.cleared = self.cleared /\ record.at = self.at
      /\ record.kind = self.kind /\ record.payload = self.payload /\ record.bypass = self.bypass
      /\ record.pc = place /\ record.outcome = self.outcome /\ record.ran = self.ran
  BY <1>1 DEF Gates_!BoundaryCall
<1>4. call' = [call EXCEPT ![c] = record]
  BY <1>2
<1>. HIDE DEF record
<1>5. PassOK(record) /\ ResumeOK(c, record)
  BY <1>1, <1>3 DEF CallOK, PassOK, PassedAll, Passed, ResumeOK
<1>6. TraceOK(c, record)
  <2>1. after \in Seq(AnyGate) /\ self.at \in 1..(Len(after) + 1)
    BY <1>1 DEF CallOK, PassOK, GateInv, ListsOK
  <2>2. place = "answered" =>
          \A gate : Gates_!Has(gate) => Seen(self, gate)
    BY <1>2, <2>1 DEF Gates_!Has, Seen
  <2>. QED BY <1>1, <1>3, <2>2 DEF CallOK, TraceOK, OneEntry, Before
<1>. QED BY <1>1, <1>3, <1>4, <1>5, <1>6, CallGoes DEF CallOK

\* A granted row is consumed by the call that it lets run.
LEMMA ContinueStep ==
  ASSUME GateInv, NEW c \in GateCall, NEW id \in GateCall, Gates_!Continue(c, id)
  PROVE  GateInv'
<1> DEFINE row == [parked[id] EXCEPT !.status = "consumed", !.by = c]
           record == Gates_!NewCall("context", "tool", parked[id].payload, parked[id].gate)
<1>1. /\ setup = <<>> /\ call[c].pc = "idle" /\ CallOK(c, call[c]) /\ CallOK(id, call[id])
      /\ call[id] \in Gates_!BoundaryCall /\ parked[id].status = "granted"
      /\ UNCHANGED <<setup, Gates_!gateVars, trail>>
  BY Started DEF Gates_!Continue
<1>2. /\ parked' = [parked EXCEPT ![id] = row] /\ call' = [call EXCEPT ![c] = record]
  BY DEF Gates_!Continue, Gates_!Update
<1>3. /\ parked[id].payload \in GateCall /\ parked[id].gate \in Gates_!Named \cup {None}
      /\ id # c /\ parked[c].status = "none"
  BY <1>1 DEF CallOK, TraceOK, Before, Gates_!BoundaryCall, GateInv, StoresOK
<1>4. /\ row \in [status : {"none", "pending", "granted", "denied", "consumed"},
                  gate : Gates_!Named \cup {None}, payload : GateCall \cup {None},
                  by : GateCall \cup {None}]
      /\ row.status = "consumed" /\ row.by = c
      /\ row.gate = parked[id].gate /\ row.payload = parked[id].payload
  BY DEF GateInv, StoresOK
<1>5. /\ record \in Gates_!BoundaryCall
      /\ record.pc = "context" /\ record.at = 1 /\ record.ran = FALSE /\ record.kind = "tool"
      /\ record.outcome.status = "none"
      /\ record.bypass = parked[id].gate /\ record.payload = parked[id].payload
  BY <1>3 DEF Gates_!NewCall, Gates_!BoundaryCall, Gates_!Kinds, Gates_!NoOutcome, Gates_!Outcome
<1>. HIDE DEF row, record
<1>6. /\ parked'[id] = row /\ \A d \in GateCall \ {id} : parked'[d] = parked[d]
      /\ call' \in [GateCall -> Gates_!BoundaryCall]
      /\ call'[c] = record /\ \A d \in GateCall \ {c} : call'[d] = call[d]
  BY <1>2, <1>5 DEF GateInv, StoresOK
<1>7. ListsOK' /\ StoresOK'
  <2>1. parked' \in [GateCall -> [status : {"none", "pending", "granted", "denied", "consumed"},
                                  gate : Gates_!Named \cup {None}, payload : GateCall \cup {None},
                                  by : GateCall \cup {None}]]
    BY <1>2, <1>4 DEF GateInv, StoresOK
  <2>. QED BY <1>1, <2>1 DEF GateInv, ListsOK, StoresOK, InOrder, Gates_!gateVars
<1>8. ASSUME NEW d \in GateCall
      PROVE  CallOK(d, call[d])'
  <2>1. CallOK(d, call[d])
    BY DEF GateInv
  <2>2. /\ parked'[d].status = "none" <=> parked[d].status = "none"
        /\ parked'[d].gate = parked[d].gate /\ parked'[d].payload = parked[d].payload
    BY <1>1, <1>4, <1>6
  <2>3. \A p \in GateCall : parked[p].status = "consumed" => parked'[p] = parked[p]
    BY <1>1, <1>6
  <2>4. CASE d = c
    <3>1. PassOK(call[c])'
      BY <1>5, <1>6 DEF PassOK
    <3>2. ResumeOK(c, call[c])'
      BY <1>4, <1>5, <1>6 DEF ResumeOK
    <3>3. TraceOK(c, call[c])'
      <4>1. Entries(c)' = {}
        BY <1>1 DEF CallOK, TraceOK, Before, Entries
      <4>2. parked'[c].status = "none"
        BY <1>3, <1>6
      <4>. QED BY <1>5, <1>6, <4>1, <4>2 DEF TraceOK, Before
    <3>. QED BY <1>6, <2>4, <3>1, <3>2, <3>3 DEF CallOK
  <2>5. CASE d # c
    <3>1. call'[d] = call[d]
      BY <1>6, <2>5
    <3>2. PassOK(call[d])'
      BY <1>1, <2>1, <3>1 DEF CallOK, PassOK, PassedAll, Passed, Gates_!gateVars
    <3>3. ResumeOK(d, call[d])'
      BY <2>1, <2>3, <3>1 DEF CallOK, ResumeOK
    <3>4. TraceOK(d, call[d])'
      BY <1>1, <2>1, <2>2, <3>1 DEF CallOK, TraceOK, Before, Entries, OneEntry, Seen,
                                    Gates_!Has, Gates_!gateVars
    <3>. QED BY <3>2, <3>3, <3>4 DEF CallOK
  <2>. QED BY <2>4, <2>5
<1>9. setup' = <<>>
  BY <1>1
<1>. QED BY <1>6, <1>7, <1>8, <1>9 DEF GateInv

LEMMA DecideStep ==
  ASSUME GateInv, NEW id \in GateCall, NEW status \in {"granted", "denied"},
         Gates_!Decide(id, status)
  PROVE  GateInv'
<1> DEFINE row == [parked[id] EXCEPT !.status = status]
<1>1. /\ parked[id].status = "pending" /\ parked' = [parked EXCEPT ![id] = row]
      /\ UNCHANGED <<setup, Gates_!gateVars, call, trail>>
  BY DEF Gates_!Decide
<1>2. /\ row \in [status : {"none", "pending", "granted", "denied", "consumed"},
                  gate : Gates_!Named \cup {None}, payload : GateCall \cup {None},
                  by : GateCall \cup {None}]
      /\ row.status = status /\ row.by = parked[id].by
      /\ row.gate = parked[id].gate /\ row.payload = parked[id].payload
  BY DEF GateInv, StoresOK
<1>. HIDE DEF row
<1>3. ListsOK' /\ StoresOK' /\ call' \in [GateCall -> Gates_!BoundaryCall]
  <2>1. parked' \in [GateCall -> [status : {"none", "pending", "granted", "denied", "consumed"},
                                  gate : Gates_!Named \cup {None}, payload : GateCall \cup {None},
                                  by : GateCall \cup {None}]]
    BY <1>1, <1>2 DEF GateInv, StoresOK
  <2>. QED BY <1>1, <2>1 DEF GateInv, ListsOK, StoresOK, InOrder, Gates_!gateVars
<1>4. \A p \in GateCall :
        /\ parked'[p].status = "none" <=> parked[p].status = "none"
        /\ parked'[p].gate = parked[p].gate /\ parked'[p].payload = parked[p].payload
        /\ parked[p].status = "consumed" => parked'[p] = parked[p]
  BY <1>1, <1>2 DEF GateInv, StoresOK
<1>5. ASSUME NEW d \in GateCall
      PROVE  CallOK(d, call[d])'
  <2>1. CallOK(d, call[d])
    BY DEF GateInv
  <2>2. PassOK(call[d])'
    BY <1>1, <2>1 DEF CallOK, PassOK, PassedAll, Passed, Gates_!gateVars
  <2>3. ResumeOK(d, call[d])'
    BY <1>1, <1>4, <2>1 DEF CallOK, ResumeOK
  <2>4. TraceOK(d, call[d])'
    BY <1>1, <1>4, <2>1 DEF CallOK, TraceOK, Before, Entries, OneEntry, Seen,
                            Gates_!Has, Gates_!gateVars
  <2>. QED BY <2>2, <2>3, <2>4 DEF CallOK
<1>6. setup' # <<>> => \A d \in GateCall : call'[d].pc = "idle"
  BY <1>1 DEF GateInv
<1>. QED BY <1>3, <1>5, <1>6 DEF GateInv

\* The next after-gate sees a call: the audit gate writes its entry, the approval gate its row,
\* each once.
LEMMA ObserveStep ==
  ASSUME GateInv, NEW c \in GateCall, Gates_!Observe(c)
  PROVE  GateInv'
<1> DEFINE self == call[c]
           gate == after[self.at]
           at == self.at + 1
           record == [self EXCEPT !.at = at]
           entry == [call |-> c, outcome |-> self.outcome]
           parks == gate = Gates_!ApprovalGate /\ self.outcome.status = "needs-approval"
           row == [status |-> "pending", gate |-> self.outcome.gate,
                   payload |-> self.payload, by |-> None]
<1>1. /\ self \in Gates_!BoundaryCall /\ CallOK(c, self) /\ setup = <<>> /\ self.pc = "after"
      /\ UNCHANGED <<setup, Gates_!gateVars>> /\ self.at <= Len(after)
      /\ call' = [call EXCEPT ![c] = record]
  BY Started DEF Gates_!Observe, Gates_!Update
<1>2. /\ after \in Seq(AnyGate) /\ InOrder(after) /\ self.at \in 1..Len(after)
      /\ at \in 1..(Len(after) + 1) /\ at \in Nat
  BY <1>1 DEF CallOK, PassOK, GateInv, ListsOK
<1>3. /\ trail' = IF gate = Gates_!AuditGate THEN Append(trail, entry) ELSE trail
      /\ parked' = IF parks THEN [parked EXCEPT ![c] = row] ELSE parked
  BY <1>1 DEF Gates_!Observe, Gates_!Record, CallOK, TraceOK
<1>4. /\ record \in Gates_!BoundaryCall
      /\ record.cleared = self.cleared /\ record.at = at
      /\ record.kind = self.kind /\ record.payload = self.payload /\ record.bypass = self.bypass
      /\ record.pc = "after" /\ record.outcome = self.outcome /\ record.ran = self.ran
  <2>. HIDE DEF at
  <2>. QED BY <1>1, <1>2 DEF Gates_!BoundaryCall
<1>5. \A g : Seen(record, g) <=> Seen(self, g) \/ gate = g
  BY <1>2, <1>4, SMTT(30) DEF Seen
<1>6. ~ Seen(self, gate)
  BY <1>2, SMTT(30) DEF Seen, InOrder
<1>7. Gates_!AuditGate # Gates_!ApprovalGate
  BY GateTypes
<1>8. entry \in [call : GateCall, outcome : Outcomes] /\ entry.call = c
  BY <1>1 DEF Gates_!BoundaryCall, Outcomes
<1>9. row \in [status : {"none", "pending", "granted", "denied", "consumed"},
               gate : Gates_!Named \cup {None}, payload : GateCall \cup {None},
               by : GateCall \cup {None}]
      /\ row.status = "pending" /\ row.gate = self.outcome.gate /\ row.payload = self.payload
  BY <1>1 DEF Gates_!BoundaryCall
<1>. HIDE DEF record, entry, row, at, gate
<1>10. trail \in Seq([call : GateCall, outcome : Outcomes])
  BY DEF GateInv, StoresOK
<1>11. /\ call' \in [GateCall -> Gates_!BoundaryCall]
       /\ call'[c] = record /\ \A d \in GateCall \ {c} : call'[d] = call[d]
       /\ \A d \in GateCall \ {c} : parked'[d] = parked[d]
       /\ parked'[c] = IF parks THEN row ELSE parked[c]
  BY <1>1, <1>3, <1>4 DEF GateInv, StoresOK
<1>12. ListsOK' /\ StoresOK'
  <2>1. parked' \in [GateCall -> [status : {"none", "pending", "granted", "denied", "consumed"},
                                  gate : Gates_!Named \cup {None}, payload : GateCall \cup {None},
                                  by : GateCall \cup {None}]]
    BY <1>3, <1>9 DEF GateInv, StoresOK
  <2>2. trail' \in Seq([call : GateCall, outcome : Outcomes])
    <3> DEFINE R == [call : GateCall, outcome : Outcomes]
    <3>1. trail \in Seq(R) /\ entry \in R
      BY <1>8, <1>10
    <3>. HIDE DEF R
    <3>2. trail' \in Seq(R)
      BY <1>3, <3>1
    <3>. QED BY <3>2 DEF R
  <2>. QED BY <1>1, <2>1, <2>2 DEF GateInv, ListsOK, StoresOK, InOrder, Gates_!gateVars
<1>13. parks => parked[c].status = "none"
  BY <1>1, <1>6 DEF CallOK, TraceOK
<1>14. ASSUME NEW d \in GateCall \ {c}
       PROVE  Entries(d)' = Entries(d) /\ (OneEntry(d, call[d]) => OneEntry(d, call[d])')
  <2>1. CASE trail' = Append(trail, entry)
    <3>1. /\ Len(trail') = Len(trail) + 1 /\ trail'[Len(trail) + 1] = entry
          /\ \A i \in DOMAIN trail : trail'[i] = trail[i]
          /\ DOMAIN trail = 1..Len(trail) /\ DOMAIN trail' = 1..(Len(trail) + 1)
      BY <1>8, <1>10, <2>1
    <3>2. Entries(d)' = Entries(d)
      BY <1>8, <3>1 DEF Entries
    <3>. QED BY <1>11, <3>1, <3>2 DEF OneEntry
  <2>2. CASE trail' = trail
    BY <1>11, <2>2 DEF Entries, OneEntry
  <2>. QED BY <1>3, <2>1, <2>2
<1>15. IF Seen(record, Gates_!AuditGate) THEN OneEntry(c, call[c])' ELSE Entries(c)' = {}
  <2>1. CASE gate = Gates_!AuditGate
    <3>1. Entries(c) = {}
      BY <1>1, <1>6, <2>1 DEF CallOK, TraceOK
    <3>2. trail' = Append(trail, entry)
      BY <1>3, <2>1
    <3>3. /\ Len(trail') = Len(trail) + 1 /\ trail'[Len(trail) + 1] = entry
          /\ \A i \in DOMAIN trail : trail'[i] = trail[i]
          /\ DOMAIN trail = 1..Len(trail) /\ DOMAIN trail' = 1..(Len(trail) + 1)
      BY <1>8, <1>10, <3>2
    <3>4. Entries(c)' = {Len(trail) + 1}
      BY <1>8, <3>1, <3>3 DEF Entries
    <3>5. trail'[Len(trail) + 1] = [call |-> c, outcome |-> record.outcome]
      BY <1>4, <3>3 DEF entry
    <3>6. Len(trail) + 1 \in DOMAIN trail'
      BY <1>10, <3>3
    <3>7. OneEntry(c, call[c])'
      BY <1>11, <3>4, <3>5, <3>6 DEF OneEntry
    <3>. QED BY <1>5, <2>1, <3>7
  <2>2. CASE gate # Gates_!AuditGate
    <3>1. trail' = trail
      BY <1>3, <2>2
    <3>. QED BY <1>1, <1>4, <1>5, <1>11, <2>2, <3>1 DEF CallOK, TraceOK, OneEntry, Entries
  <2>. QED BY <2>1, <2>2
<1>16. ASSUME NEW d \in GateCall
       PROVE  CallOK(d, call[d])'
  <2>1. CallOK(d, call[d])
    BY DEF GateInv
  <2>2. \A p \in GateCall : parked[p].status = "consumed" => parked'[p] = parked[p]
    BY <1>11, <1>13
  <2>3. CASE d = c
    <3>1. PassOK(call[c])'
      BY <1>1, <1>2, <1>4, <1>11 DEF CallOK, PassOK, PassedAll, Passed, Gates_!gateVars
    <3>2. ResumeOK(c, call[c])'
      BY <1>1, <1>4, <1>11, <2>2 DEF CallOK, ResumeOK
    <3>3. TraceOK(c, call[c])'
      <4>1. \A g : Seen(call[c], g)' <=> Seen(self, g) \/ gate = g
        BY <1>1, <1>5, <1>11 DEF Seen, Gates_!gateVars
      <4>2. record.outcome.status = "needs-approval" => record.kind = "tool"
        BY <1>1, <1>4 DEF CallOK, TraceOK
      <4>3. parked'[c].status # "none" =>
              /\ record.outcome.status = "needs-approval"
              /\ parked'[c].gate = record.outcome.gate /\ parked'[c].payload = record.payload
        BY <1>1, <1>4, <1>9, <1>11 DEF CallOK, TraceOK
      <4>4. IF Seen(call[c], Gates_!AuditGate)' THEN OneEntry(c, call[c])' ELSE Entries(c)' = {}
        BY <1>5, <1>15, <4>1
      <4>5. Seen(call[c], Gates_!ApprovalGate)' =>
              (record.outcome.status = "needs-approval" <=> parked'[c].status # "none")
        BY <1>1, <1>4, <1>6, <1>9, <1>11, <4>1 DEF CallOK, TraceOK
      <4>6. ~ Seen(call[c], Gates_!ApprovalGate)' => parked'[c].status = "none"
        BY <1>1, <1>11, <4>1 DEF CallOK, TraceOK
      <4>. QED BY <1>4, <1>11, <4>2, <4>3, <4>4, <4>5, <4>6 DEF TraceOK, Before
    <3>. QED BY <1>11, <2>3, <3>1, <3>2, <3>3 DEF CallOK
  <2>4. CASE d # c
    <3>1. call'[d] = call[d] /\ parked'[d] = parked[d]
      BY <1>11, <2>4
    <3>2. PassOK(call[d])'
      BY <1>1, <2>1, <3>1 DEF CallOK, PassOK, PassedAll, Passed, Gates_!gateVars
    <3>3. ResumeOK(d, call[d])'
      BY <2>1, <2>2, <3>1 DEF CallOK, ResumeOK
    <3>4. TraceOK(d, call[d])'
      BY <1>1, <1>14, <2>1, <2>4, <3>1 DEF CallOK, TraceOK, Seen, Gates_!Has, Gates_!gateVars
    <3>. QED BY <3>2, <3>3, <3>4 DEF CallOK
  <2>. QED BY <2>3, <2>4
<1>. QED BY <1>1, <1>11, <1>12, <1>16 DEF GateInv

LEMMA GatesStep ==
  ASSUME GateInv, [Gates_!Next]_Gates_Vars
  PROVE  GateInv' /\ Gates_!KeepsSealed
<1>1. UNCHANGED <<boundary, before, after>> => Gates_!KeepsSealed
  BY KeepsItself DEF Gates_!KeepsSealed, GateInv, ListsOK
<1>2. CASE Gates_!Register
  BY <1>2, RegisterStep
<1>3. ASSUME NEW c \in GateCall,
             \/ \E kind \in Gates_!Kinds : Gates_!Begin(c, kind)
             \/ \E id \in GateCall : Gates_!Continue(c, id)
             \/ \E ok \in BOOLEAN : Gates_!Resolve(c, ok) \/ Gates_!Execute(c, ok)
             \/ \E verdict \in Gates_!Verdicts :
                  Gates_!BoundaryGates(c, verdict) \/ Gates_!ToolGates(c, verdict)
             \/ Gates_!Observe(c) \/ Gates_!ObserverFails(c) \/ Gates_!Return(c)
             \/ \E status \in {"granted", "denied"} : Gates_!Decide(c, status)
      PROVE  GateInv' /\ Gates_!KeepsSealed
  <2>1. UNCHANGED <<boundary, before, after>>
    BY <1>3 DEF Gates_!Begin, Gates_!Continue, Gates_!Resolve, Gates_!Execute, Gates_!BoundaryGates,
                Gates_!ToolGates, Gates_!Observe, Gates_!ObserverFails, Gates_!Return, Gates_!Decide,
                Gates_!gateVars
  <2>2. Gates_!KeepsSealed
    BY <1>1, <2>1
  <2>3. ASSUME NEW kind \in Gates_!Kinds, Gates_!Begin(c, kind)
        PROVE  GateInv'
    BY <2>3, BeginStep
  <2>4. ASSUME NEW id \in GateCall, Gates_!Continue(c, id)
        PROVE  GateInv'
    BY <2>4, ContinueStep
  <2>5. ASSUME NEW ok \in BOOLEAN, Gates_!Resolve(c, ok) \/ Gates_!Execute(c, ok)
        PROVE  GateInv'
    BY <2>5, ResolveStep, ExecuteStep
  <2>6. ASSUME NEW verdict \in Gates_!Verdicts,
               Gates_!BoundaryGates(c, verdict) \/ Gates_!ToolGates(c, verdict)
        PROVE  GateInv'
    BY <2>6, BoundaryGatesStep, ToolGatesStep
  <2>7. ASSUME Gates_!Observe(c)
        PROVE  GateInv'
    BY <2>7, ObserveStep
  <2>8. ASSUME Gates_!ObserverFails(c) \/ Gates_!Return(c)
        PROVE  GateInv'
    BY <2>8, AfterStep
  <2>9. ASSUME NEW status \in {"granted", "denied"}, Gates_!Decide(c, status)
        PROVE  GateInv'
    BY <2>9, DecideStep
  <2>10. GateInv'
    BY <1>3, <2>3, <2>4, <2>5, <2>6, <2>7, <2>8, <2>9, Zenon
  <2>. QED BY <2>2, <2>10
<1>4. CASE UNCHANGED Gates_Vars
  <2>1. GateInv'
    <3>1. ListsOK' /\ StoresOK' /\ call' \in [GateCall -> Gates_!BoundaryCall]
      BY <1>4 DEF Gates_Vars, GateInv, ListsOK, StoresOK, InOrder
    <3>2. ASSUME NEW c \in GateCall
          PROVE  CallOK(c, call[c])'
      <4>1. CallOK(c, call[c])
        BY Started
      <4>. QED
        BY <1>4, <4>1 DEF Gates_Vars, CallOK, PassOK, PassedAll, Passed, ResumeOK, TraceOK, OneEntry,
                          Entries, Seen, Before, Gates_!Has
    <3>. QED BY <1>4, <3>1, <3>2 DEF Gates_Vars, GateInv
  <2>. QED BY <1>1, <1>4, <2>1 DEF Gates_Vars
<1>. QED BY <1>2, <1>3, <1>4 DEF Gates_!Next

\* What was let through and what is recorded, where a call stands.
LEMMA GatesHold ==
  ASSUME GateInv
  PROVE  Gates_!TypeOK /\ Gates_!RunsPastEveryGate /\ Gates_!AnsweredIsRecorded
<1>1. Gates_!TypeOK
  <2> DEFINE R == [call : GateCall, outcome : Outcomes]
  <2>1. trail \in Seq(R) /\ \A r \in R : r.call \in GateCall
    BY DEF GateInv, StoresOK
  <2>2. \A i \in DOMAIN trail : trail[i].call \in GateCall
    <3>. HIDE DEF R
    <3>. QED BY <2>1
  <2>. QED BY <2>2 DEF GateInv, StoresOK, Gates_!TypeOK
<1>2. ASSUME NEW c \in GateCall, call[c].ran,
             NEW id \in Gates_!Ids(boundary)
                        \cup (IF call[c].kind = "tool" THEN Gates_!Ids(before) ELSE {})
      PROVE  \/ id \in call[c].cleared
             \/ \E p \in GateCall : /\ parked[p].status = "consumed" /\ parked[p].by = c
                                    /\ parked[p].gate = id /\ parked[p].payload = call[c].payload
  <2>1. PassedAll(call[c]) /\ call[c].pc # "idle"
    BY <1>2, Started DEF CallOK, PassOK
  <2>2. Passed(call[c], id)
    BY <1>2, <2>1 DEF PassedAll, Gates_!Ids
  <2>3. id # None
    <3>1. boundary \in Seq(NamedGate) /\ before \in Seq(NamedGate)
      BY DEF GateInv, ListsOK
    <3>2. id \in Gates_!Named
      BY <1>2, <3>1, GateTypes DEF Gates_!Ids
    <3>. QED BY <3>2, GateTypes
  <2>4. ResumeOK(c, call[c])
    BY Started DEF CallOK
  <2>. QED BY <2>1, <2>2, <2>3, <2>4 DEF Passed, ResumeOK
<1>3. ASSUME NEW c \in GateCall, call[c].pc = "answered", call[c].kind # "stream"
      PROVE  /\ Gates_!Has(Gates_!AuditGate) =>
                  /\ Cardinality({i \in DOMAIN trail : trail[i].call = c}) = 1
                  /\ \E i \in DOMAIN trail : trail[i] = [call |-> c, outcome |-> call[c].outcome]
             /\ (Gates_!Has(Gates_!ApprovalGate) /\ call[c].outcome.status = "needs-approval") =>
                  parked[c].status # "none" /\ parked[c].gate = call[c].outcome.gate
  <2>1. TraceOK(c, call[c])
    BY Started DEF CallOK
  <2>2. ASSUME Gates_!Has(Gates_!AuditGate)
        PROVE  /\ Cardinality({i \in DOMAIN trail : trail[i].call = c}) = 1
               /\ \E i \in DOMAIN trail : trail[i] = [call |-> c, outcome |-> call[c].outcome]
    <3>1. PICK i \in DOMAIN trail : /\ trail[i] = [call |-> c, outcome |-> call[c].outcome]
                                    /\ Entries(c) = {i}
      BY <1>3, <2>1, <2>2 DEF TraceOK, OneEntry
    <3>2. Cardinality(Entries(c)) = 1
      BY <3>1, FS_Singleton
    <3>. QED BY <3>1, <3>2 DEF Entries
  <2>3. Gates_!Has(Gates_!ApprovalGate) /\ call[c].outcome.status = "needs-approval" =>
          parked[c].status # "none" /\ parked[c].gate = call[c].outcome.gate
    BY <1>3, <2>1 DEF TraceOK
  <2>. QED BY <2>2, <2>3, Zenon
<1>4. Gates_!RunsPastEveryGate
  BY <1>2, Zenon DEF Gates_!RunsPastEveryGate
<1>5. \A S : Gates_!Cardinality(S) = Cardinality(S)
  BY DEF Gates_!Cardinality, Cardinality
<1>6. Gates_!AnsweredIsRecorded
  BY <1>3, <1>5, Zenon DEF Gates_!AnsweredIsRecorded
<1>. QED BY <1>1, <1>4, <1>6

GovernedInv == part = "gates" => GateInv

LEMMA GovernedInit == Init => GovernedInv
BY GatesInit DEF Init, GovernedInv

LEMMA GovernedStep ==
  ASSUME GovernedInv, [Next]_vars
  PROVE  GovernedInv' /\ (part = "gates" => Gates_!KeepsSealed)
<1>. SUFFICES ASSUME part = "gates", GateInv PROVE GateInv' /\ Gates_!KeepsSealed
  BY DEF GovernedInv, Next, vars
<1>1. [Gates_!Next]_Gates_Vars
  BY DEF Next, vars
<1>. QED BY <1>1, GatesStep

\* What runs was let through by every gate of its lists, asked in that call, but for one whose row
\* was granted and consumed by it; and who got an answer left one audit entry with its outcome, and
\* a row if it has to wait (runGoverned and continueRun of governance.ts).
THEOREM GovernedCallsPassTheGates == Spec => []CallsPassTheGates
<1>1. GovernedInv /\ [Next]_vars => GovernedInv'
  BY GovernedStep
<1>2. GovernedInv => CallsPassTheGates
  BY GatesHold DEF GovernedInv, CallsPassTheGates
<1>. QED BY GovernedInit, <1>1, <1>2, PTL DEF Spec

\* A sealed gate is never removed, replaced or passed by another, whatever is registered after it
\* (add of governance.ts).
THEOREM SealedGatesStay == Spec => SealedStay
<1>1. GovernedInv /\ [Next]_vars => GovernedInv'
  BY GovernedStep
<1>2. GovernedInv /\ [Next]_vars => [part = "gates" => Gates_!KeepsSealed]_vars
  BY GovernedStep
<1>. QED BY GovernedInit, <1>1, <1>2, PTL DEF Spec, SealedStay
----------------------------------------------------------------------------
(* The audit log.                                                          *)

IsList(s) == \E S : s \in Seq(S)

\* A list in which each entry is sealed over the one before it.
IsChain(es) ==
  /\ IsList(es)
  /\ \A i \in DOMAIN es : /\ es[i].snapshot.seq = i - 1
                          /\ es[i].hash = Audit!Hash(es[i].snapshot)
                          /\ es[i].snapshot.prevHash = IF i = 1 THEN Audit!Genesis ELSE es[i - 1].hash

\* An anchor stands for a chain, whatever has become of the log since.
AnchorStands(a) ==
  \/ a = Audit!Corrupt
  \/ \E es : IsChain(es) /\ es # <<>> /\ a = Audit!AnchorProof(Audit!Head_(es), Audit!Bodies(es))

\* Nobody has touched the log: it is a chain, and every anchor was taken of a part of it.
AsWritten ==
  /\ IsChain(log) /\ Audit!Bodies(log) = appended
  /\ \A a \in anchors : \E n \in 1..Len(log) :
       a = Audit!AnchorProof(Audit!Head_(SubSeq(log, 1, n)), SubSeq(appended, 1, n))

AuditInv ==
  /\ IsList(log) /\ damage \in Nat
  /\ damage = 0 => AsWritten
  /\ \A a \in anchors : AnchorStands(a)

LEMMA LeastOf ==
  ASSUME NEW S \in SUBSET Nat, S # {}
  PROVE  \E u \in S : \A v \in S : u <= v
<1>1. PICK u \in S : \A v \in S : <<v, u>> \notin OpToRel(<, Nat)
  BY NatLessThanWellFounded, WFMin
<1>2. \A v \in S : ~ (v < u)
  <2>1. \A m, n \in Nat : m < n => <<m, n>> \in OpToRel(<, Nat)
    BY Zenon DEF OpToRel
  <2>. QED BY <1>1, <2>1, Zenon
<1>. QED BY <1>2, SMTT(30)

LEMMA ListIs ==
  ASSUME NEW s, IsList(s)
  PROVE  Len(s) \in Nat /\ DOMAIN s = 1..Len(s)
BY DEF IsList

\* The hash of the entry before, as the log has it.
LEMMA TipIs ==
  ASSUME NEW s, IsList(s), NEW i \in DOMAIN s
  PROVE  Audit!TipHash(SubSeq(s, 1, i - 1)) = IF i = 1 THEN Audit!Genesis ELSE s[i - 1].hash
<1>1. PICK S : s \in Seq(S)
  BY DEF IsList
<1>2. i \in 1..Len(s) /\ Len(s) \in Nat
  BY <1>1
<1> DEFINE t == SubSeq(s, 1, i - 1)
<1>3. t \in Seq(S) /\ Len(t) = i - 1 /\ \A j \in 1..(i - 1) : t[j] = s[j]
  BY <1>1, <1>2, PartIs
<1>. HIDE DEF t
<1>4. CASE i = 1
  BY <1>3, <1>4 DEF Audit!TipHash
<1>5. CASE i # 1
  <2>1. t # <<>> /\ Audit!Last(t) = s[i - 1]
    BY <1>2, <1>3, <1>5 DEF Audit!Last
  <2>. QED BY <1>5, <2>1 DEF Audit!TipHash, t
<1>. QED BY <1>4, <1>5 DEF t

\* What is verified of the entries is that they are a chain.
LEMMA VerifiedIs ==
  ASSUME NEW s, IsList(s)
  PROVE  (/\ Audit!BrokenLinks(s) = {} /\ Audit!HashMismatches(s) = {} /\ Audit!SeqGaps(s) = {})
            <=> IsChain(s)
<1>1. \A i \in DOMAIN s : Audit!TipHash(SubSeq(s, 1, i - 1)) = IF i = 1 THEN Audit!Genesis ELSE s[i - 1].hash
  BY TipIs
<1>2. Audit!BrokenLinks(s) = {} <=>
        \A i \in DOMAIN s : s[i].snapshot.prevHash = IF i = 1 THEN Audit!Genesis ELSE s[i - 1].hash
  BY <1>1 DEF Audit!BrokenLinks
<1>3. Audit!HashMismatches(s) = {} <=> \A i \in DOMAIN s : s[i].hash = Audit!Hash(s[i].snapshot)
  BY DEF Audit!HashMismatches
<1>4. Audit!SeqGaps(s) = {} <=> \A i \in DOMAIN s : s[i].snapshot.seq = i - 1
  BY DEF Audit!SeqGaps
<1>. QED BY <1>2, <1>3, <1>4 DEF IsChain

\* The hash of a seq is that of its entry, or none.
LEMMA HashOfSeq ==
  ASSUME NEW s, IsChain(s), NEW seq
  PROVE  Audit!HashBySeq(s, seq) = IF seq + 1 \in DOMAIN s /\ seq \in Nat THEN s[seq + 1].hash ELSE Audit!Genesis
<1> DEFINE I == {i \in 1..Len(s) : s[i].snapshot.seq = seq}
<1>1. Len(s) \in Nat /\ DOMAIN s = 1..Len(s)
  BY ListIs DEF IsChain
<1>2. \A i \in 1..Len(s) : s[i].snapshot.seq = i - 1
  BY <1>1 DEF IsChain
<1>3. CASE seq \in Nat /\ seq + 1 \in DOMAIN s
  <2>1. I = {seq + 1}
    BY <1>1, <1>2, <1>3
  <2>2. Audit!Max({seq + 1}) = seq + 1
    BY <1>3 DEF Audit!Max
  <2>3. seq + 1 # 0
    BY <1>3
  <2>4. Audit!HashBySeq(s, seq) = s[seq + 1].hash
    BY <2>1, <2>2, <2>3 DEF Audit!HashBySeq, Audit!SelectLastInSeq
  <2>. QED BY <1>3, <2>4
<1>4. CASE ~ (seq \in Nat /\ seq + 1 \in DOMAIN s)
  <2>1. I = {}
    <3>1. ASSUME NEW i \in 1..Len(s), s[i].snapshot.seq = seq PROVE FALSE
      <4>1. seq = i - 1 /\ i \in Nat /\ i >= 1
        BY <1>1, <1>2, <3>1
      <4>. QED BY <1>1, <1>4, <4>1
    <3>. QED BY <3>1
  <2>2. Audit!HashBySeq(s, seq) = Audit!Genesis
    BY <2>1 DEF Audit!HashBySeq, Audit!SelectLastInSeq
  <2>. QED BY <1>4, <2>2
<1>. QED BY <1>3, <1>4

\* Two chains that agree at one place agree before it: a hash tells what it is of, and so the hash
\* of the entry before.
LEMMA ChainsAgree ==
  ASSUME NEW s, IsChain(s), NEW t, IsChain(t), NEW n \in DOMAIN s, n \in DOMAIN t,
         s[n].hash = t[n].hash
  PROVE  \A i \in 1..n : s[i].snapshot = t[i].snapshot
<1>1. /\ Len(s) \in Nat /\ DOMAIN s = 1..Len(s) /\ Len(t) \in Nat /\ DOMAIN t = 1..Len(t)
      /\ n \in Nat /\ n >= 1 /\ n <= Len(s) /\ n <= Len(t)
  BY ListIs DEF IsChain
<1>2. \A i \in 1..n : /\ s[i].hash = <<s[i].snapshot>> /\ t[i].hash = <<t[i].snapshot>>
                      /\ i # 1 => /\ s[i].snapshot.prevHash = s[i - 1].hash
                                  /\ t[i].snapshot.prevHash = t[i - 1].hash
  <2>. TAKE i \in 1..n
  <2>1. i \in DOMAIN s /\ i \in DOMAIN t
    BY <1>1
  <2>. QED BY <2>1 DEF IsChain, Audit!Hash
<1> DEFINE D == {d \in 0..(n - 1) : s[n - d].hash # t[n - d].hash}
<1>3. D = {}
  <2>. SUFFICES ASSUME D # {} PROVE FALSE
    OBVIOUS
  <2>1. D \in SUBSET Nat
    BY <1>1
  <2>2. PICK d \in D : \A v \in D : d <= v
    <3>. HIDE DEF D
    <3>. QED BY <2>1, LeastOf
  <2>3. d \in 0..(n - 1) /\ s[n - d].hash # t[n - d].hash
    BY <2>2
  <2>4. d # 0
    BY <1>1, <2>3
  <2>5. d - 1 \notin D /\ d - 1 \in 0..(n - 1)
    <3>1. d \in Nat
      BY <2>3
    <3>2. d - 1 \in D => d <= d - 1
      BY <2>2
    <3>3. d - 1 \in 0..(n - 1)
      BY <1>1, <2>3, <2>4
    <3>. HIDE DEF D
    <3>. QED BY <3>1, <3>2, <3>3
  <2> DEFINE i == n - (d - 1)
  <2>6. s[i].hash = t[i].hash /\ i \in 1..n /\ i # 1 /\ i - 1 = n - d
    BY <1>1, <2>3, <2>4, <2>5, SMTT(30)
  <2>. HIDE DEF i
  <2>7. s[i].snapshot = t[i].snapshot
    BY <1>2, <2>6
  <2>8. s[i - 1].hash = t[i - 1].hash
    BY <1>2, <2>6, <2>7
  <2>. QED BY <2>3, <2>6, <2>8
<1>4. \A i \in 1..n : s[i].hash = t[i].hash
  <2>. TAKE i \in 1..n
  <2>1. n - i \in 0..(n - 1) /\ n - (n - i) = i
    BY <1>1
  <2>. QED BY <1>3, <2>1
<1>. QED BY <1>2, <1>4

----------------------------------------------------------------------------
(* What the store does to a log leaves a list.                             *)

LEMMA EditedIs ==
  ASSUME NEW s, IsList(s), NEW i \in DOMAIN s, NEW e
  PROVE  IsList([s EXCEPT ![i] = e])
<1>1. PICK S : s \in Seq(S)
  BY DEF IsList
<1>2. [s EXCEPT ![i] = e] \in Seq(S \cup {e})
  BY <1>1
<1>. QED BY <1>2 DEF IsList

LEMMA CutIs ==
  ASSUME NEW s, IsList(s), NEW i \in 0..Len(s)
  PROVE  /\ IsList(SubSeq(s, 1, i)) /\ IsList(SubSeq(s, i + 1, Len(s)))
         /\ i # 0 => IsList(SubSeq(s, i, Len(s)))
<1>1. PICK S : s \in Seq(S)
  BY DEF IsList
<1>2. SubSeq(s, 1, i) \in Seq(S) /\ SubSeq(s, i + 1, Len(s)) \in Seq(S)
  BY <1>1, PartIs
<1>3. i # 0 => SubSeq(s, i, Len(s)) \in Seq(S)
  BY <1>1, PartIs
<1>. QED BY <1>2, <1>3 DEF IsList

LEMMA JoinedIs ==
  ASSUME NEW s, IsList(s), NEW t, IsList(t)
  PROVE  IsList(s \o t)
<1>1. PICK S, T : s \in Seq(S) /\ t \in Seq(T)
  BY DEF IsList
<1>2. s \in Seq(S \cup T) /\ t \in Seq(S \cup T)
  BY <1>1
<1>3. s \o t \in Seq(S \cup T)
  BY <1>2, JoinIs
<1>. QED BY <1>3 DEF IsList

\* The logs that a store may write again, entry by entry, exist and are lists.
LEMMA ChainIsList ==
  ASSUME NEW N \in Nat, NEW bodies \in [1..N -> AuditBody]
  PROVE  IsList(Audit!Chain(bodies))
<1> DEFINE more(es, n) == Append(es, Audit!Sealed(Audit!Snapshot(bodies[n], n - 1, Audit!TipHash(es))))
           IsLog(g, k) == g = [n \in 0..k |-> IF n = 0 THEN <<>> ELSE more(g[n - 1], n)]
           Missing == {k \in Nat : ~ \E g : IsLog(g, k)}
<1>1. Len(bodies) = N
  BY LenProperties
<1>2. Missing = {}
  <2>. SUFFICES ASSUME Missing # {} PROVE FALSE
    OBVIOUS
  <2>1. PICK k \in Missing : \A v \in Missing : k <= v
    <3>1. Missing \in SUBSET Nat
      OBVIOUS
    <3>. HIDE DEF Missing
    <3>. QED BY <3>1, LeastOf
  <2>2. k \in Nat /\ ~ \E g : IsLog(g, k)
    BY <2>1
  <2>3. k # 0
    <3>1. IsLog([n \in 0..0 |-> <<>>], 0)
      <4>. HIDE DEF more
      <4>. QED OBVIOUS
    <3>. QED BY <2>2, <3>1
  <2>4. \E g : IsLog(g, k - 1)
    <3>1. k - 1 \in Nat /\ ~ (k <= k - 1)
      BY <2>2, <2>3
    <3>2. k - 1 \notin Missing
      <4>. HIDE DEF Missing
      <4>. QED BY <2>1, <3>1
    <3>. HIDE DEF IsLog
    <3>. QED BY <3>1, <3>2
  <2>5. PICK g : IsLog(g, k - 1)
    BY <2>4
  <2> DEFINE h == [n \in 0..k |-> IF n = k THEN more(g[k - 1], k) ELSE g[n]]
  <2>6. IsLog(h, k)
    <3>1. ASSUME NEW n \in 0..k
          PROVE  h[n] = IF n = 0 THEN <<>> ELSE more(h[n - 1], n)
      <4>. HIDE DEF more
      <4>. QED BY <2>2, <2>3, <2>5
    <3>2. h = [n \in 0..k |-> h[n]]
      BY SMTT(30)
    <3>. HIDE DEF h, more
    <3>. QED BY <3>1, <3>2
  <2>. QED BY <2>2, <2>6
<1>3. PICK es : IsLog(es, N) /\ Audit!Chain(bodies) = es[N]
  <2>1. \E g : IsLog(g, N)
    <3>. HIDE DEF IsLog
    <3>. QED BY <1>2
  <2> DEFINE es == CHOOSE g : IsLog(g, N)
  <2>2. IsLog(es, N)
    <3>. HIDE DEF IsLog
    <3>. QED BY <2>1
  <2>3. Audit!Chain(bodies) = es[N]
    BY <1>1 DEF Audit!Chain
  <2>. QED BY <2>2, <2>3, Zenon
<1> DEFINE Broken == {n \in 0..N : ~ IsList(es[n])}
<1>4. Broken = {}
  <2>. SUFFICES ASSUME Broken # {} PROVE FALSE
    OBVIOUS
  <2>1. PICK n \in Broken : \A v \in Broken : n <= v
    <3>1. Broken \in SUBSET Nat
      OBVIOUS
    <3>. HIDE DEF Broken
    <3>. QED BY <3>1, LeastOf
  <2>2. n \in 0..N /\ ~ IsList(es[n])
    BY <2>1
  <2>3. n # 0
    <3>1. es[0] = <<>>
      BY <1>3
    <3>2. <<>> \in Seq({})
      OBVIOUS
    <3>. QED BY <2>2, <3>1, <3>2 DEF IsList
  <2>4. IsList(es[n - 1])
    <3>1. n - 1 \in 0..N /\ ~ (n <= n - 1)
      BY <2>2, <2>3
    <3>2. n - 1 \notin Broken
      <4>. HIDE DEF Broken
      <4>. QED BY <2>1, <3>1
    <3>. QED BY <3>1, <3>2
  <2>5. PICK e : es[n] = Append(es[n - 1], e)
    BY <1>3, <2>2, <2>3
  <2>6. PICK S : es[n - 1] \in Seq(S)
    BY <2>4 DEF IsList
  <2>7. es[n - 1] \in Seq(S \cup {e}) /\ e \in S \cup {e}
    BY <2>6
  <2>8. Append(es[n - 1], e) \in Seq(S \cup {e})
    BY <2>7
  <2>. QED BY <2>2, <2>5, <2>8 DEF IsList
<1>5. N \in 0..N
  OBVIOUS
<1>6. IsList(es[N])
  <2>. HIDE DEF IsLog
  <2>. QED BY <1>4, <1>5
<1>. QED BY <1>3, <1>6

LEMMA DamagedIs ==
  ASSUME NEW s, IsList(s), NEW t,
         \/ t \in Audit!Edits(s) \/ t \in Audit!Rehashed(s)
         \/ t \in Audit!Lost(s) \cup Audit!Moved(s) \cup Audit!CutOff(s) \cup Audit!Inserted(s)
         \/ t \in Audit!Rewritten(s)
  PROVE  IsList(t)
<1>1. Len(s) \in Nat /\ DOMAIN s = 1..Len(s)
  BY ListIs
<1>2. CASE t \in Audit!Edits(s)
  <2>1. PICK i \in DOMAIN s, b \in AuditBody : t = [s EXCEPT ![i].snapshot.body = b]
    BY <1>2 DEF Audit!Edits
  <2>2. PICK e : e = [s[i] EXCEPT !.snapshot.body = b]
    OBVIOUS
  <2>3. t = [s EXCEPT ![i] = e]
    BY <2>1, <2>2
  <2>. QED BY <2>3, EditedIs
<1>3. CASE t \in Audit!Rehashed(s)
  <2>1. PICK i \in DOMAIN s, b \in AuditBody :
          t = [s EXCEPT ![i] = Audit!Sealed([s[i].snapshot EXCEPT !.body = b])]
    BY <1>3 DEF Audit!Rehashed
  <2>. QED BY <2>1, EditedIs
<1>4. CASE t \in Audit!Lost(s)
  <2>1. PICK i \in DOMAIN s : t = SubSeq(s, 1, i - 1) \o SubSeq(s, i + 1, Len(s))
    BY <1>4 DEF Audit!Lost, Audit!RemoveAt
  <2>2. i \in 0..Len(s) /\ i - 1 \in 0..Len(s)
    BY <1>1
  <2>. QED BY <2>1, <2>2, CutIs, JoinedIs
<1>5. CASE t \in Audit!Moved(s)
  <2>1. PICK i \in DOMAIN s, j \in DOMAIN s : t = [s EXCEPT ![i] = s[j], ![j] = s[i]]
    BY <1>5 DEF Audit!Moved
  <2>2. PICK u : u = [s EXCEPT ![i] = s[j]]
    OBVIOUS
  <2>3. t = [u EXCEPT ![j] = s[i]] /\ DOMAIN u = DOMAIN s
    BY <1>1, <2>1, <2>2
  <2>4. IsList(u)
    BY <2>2, EditedIs
  <2>. QED BY <2>3, <2>4, EditedIs
<1>6. CASE t \in Audit!CutOff(s)
  <2>1. PICK i \in 0..Len(s) : t = SubSeq(s, 1, i)
    BY <1>6 DEF Audit!CutOff
  <2>. QED BY <2>1, CutIs
<1>7. CASE t \in Audit!Inserted(s)
  <2>1. PICK i \in DOMAIN s : \E b \in AuditBody :
          t = Audit!InsertAt(s, i, Audit!Sealed(Audit!Snapshot(b, i - 1,
                                                               Audit!TipHash(SubSeq(s, 1, i - 1)))))
    BY <1>7, SMTT(30) DEF Audit!Inserted
  <2>2. PICK e : t = SubSeq(s, 1, i - 1) \o <<e>> \o SubSeq(s, i, Len(s))
    BY <2>1, Zenon DEF Audit!InsertAt
  <2>3. i \in 0..Len(s) /\ i - 1 \in 0..Len(s) /\ i # 0
    BY <1>1
  <2>4. IsList(SubSeq(s, 1, i - 1)) /\ IsList(SubSeq(s, i, Len(s)))
    BY <2>3, CutIs
  <2>5. <<e>> \in Seq({e})
    OBVIOUS
  <2>6. IsList(<<e>>)
    BY <2>5 DEF IsList
  <2>7. IsList(SubSeq(s, 1, i - 1) \o <<e>>)
    BY <2>4, <2>6, JoinedIs
  <2>. QED BY <2>2, <2>4, <2>7, JoinedIs
<1>8. CASE t \in Audit!Rewritten(s)
  <2>1. PICK bodies \in [1..Len(s) -> AuditBody] : t = Audit!Chain(bodies)
    BY <1>8 DEF Audit!Rewritten
  <2>. QED BY <1>1, <2>1, ChainIsList
<1>. QED BY <1>2, <1>3, <1>4, <1>5, <1>6, <1>7, <1>8
----------------------------------------------------------------------------
LEMMA AuditInit ==
  ASSUME Audit!Init
  PROVE  AuditInv
<1>1. log = <<>> /\ anchors = {} /\ appended = <<>> /\ damage = 0
  BY DEF Audit!Init
<1>2. log \in Seq({}) /\ DOMAIN log = {}
  BY <1>1
<1>3. IsList(log)
  BY <1>2 DEF IsList
<1>4. Audit!Bodies(log) = appended
  BY <1>1, <1>2 DEF Audit!Bodies
<1>. QED BY <1>1, <1>2, <1>3, <1>4 DEF AuditInv, AsWritten, IsChain

\* A chain with one more entry, whose content is body.
Extends(s, t, body) ==
  /\ IsChain(t) /\ Len(t) = Len(s) + 1 /\ Audit!Bodies(t) = Append(Audit!Bodies(s), body)
  /\ \A n \in 1..Len(s) : SubSeq(t, 1, n) = SubSeq(s, 1, n)

\* A chain, and one more entry sealed over its last.
LEMMA ChainGrows ==
  ASSUME NEW s, IsChain(s), NEW body, NEW t,
         t = Append(s, Audit!Sealed(Audit!Snapshot(body, Len(s), Audit!TipHash(s))))
  PROVE  Extends(s, t, body)
<1>1. PICK S : s \in Seq(S)
  BY DEF IsChain, IsList
<1>2. PICK e : e = Audit!Sealed(Audit!Snapshot(body, Len(s), Audit!TipHash(s)))
  OBVIOUS
<1>3. s \in Seq(S \cup {e}) /\ e \in S \cup {e}
  BY <1>1
<1>4. /\ t \in Seq(S \cup {e}) /\ Len(t) = Len(s) + 1 /\ Len(s) \in Nat
      /\ \A i \in 1..Len(s) : t[i] = s[i]
      /\ t[Len(s) + 1] = e
  BY <1>2, <1>3
<1>5. /\ e.snapshot.seq = Len(s) /\ e.snapshot.body = body /\ e.snapshot.prevHash = Audit!TipHash(s)
      /\ e.hash = Audit!Hash(e.snapshot)
  BY <1>2 DEF Audit!Sealed, Audit!Snapshot, Audit!Entry
<1>6. Audit!TipHash(s) = IF Len(s) = 0 THEN Audit!Genesis ELSE s[Len(s)].hash
  BY <1>1 DEF Audit!TipHash, Audit!Last
<1>7. DOMAIN t = 1..(Len(s) + 1) /\ DOMAIN s = 1..Len(s)
  BY <1>1, <1>4
<1>8. ASSUME NEW i \in DOMAIN t
      PROVE  /\ t[i].snapshot.seq = i - 1 /\ t[i].hash = Audit!Hash(t[i].snapshot)
             /\ t[i].snapshot.prevHash = IF i = 1 THEN Audit!Genesis ELSE t[i - 1].hash
  <2>1. CASE i \in DOMAIN s
    <3>1. t[i] = s[i] /\ (i # 1 => t[i - 1] = s[i - 1])
      BY <1>4, <1>7, <2>1
    <3>. QED BY <2>1, <3>1 DEF IsChain
  <2>2. CASE i = Len(s) + 1
    <3>1. t[i] = e /\ (i # 1 => t[i - 1] = s[Len(s)] /\ Len(s) # 0) /\ (i = 1 => Len(s) = 0)
      BY <1>4, <2>2
    <3>. QED BY <1>4, <1>5, <1>6, <2>2, <3>1
  <2>. QED BY <1>4, <1>7, <2>1, <2>2
<1>9. IsChain(t)
  <2>1. IsList(t)
    BY <1>4 DEF IsList
  <2>. QED BY <1>8, <2>1 DEF IsChain
<1>10. Audit!Bodies(t) = Append(Audit!Bodies(s), body)
  <2> DEFINE B == {s[i].snapshot.body : i \in DOMAIN s} \cup {body}
             u == Audit!Bodies(s)
  <2>1. u \in Seq(B) /\ Len(u) = Len(s) /\ \A i \in 1..Len(s) : u[i] = s[i].snapshot.body
    BY <1>4, <1>7 DEF Audit!Bodies
  <2>2. body \in B
    OBVIOUS
  <2>. HIDE DEF u, B
  <2>3. PICK a : a = Append(u, body)
    OBVIOUS
  <2>4. /\ a \in Seq(B) /\ Len(a) = Len(s) + 1 /\ a[Len(s) + 1] = body
        /\ \A i \in 1..Len(s) : a[i] = s[i].snapshot.body
    BY <1>4, <2>1, <2>2, <2>3
  <2>5. a = [i \in 1..(Len(s) + 1) |-> a[i]]
    BY <2>4
  <2>6. \A i \in 1..(Len(s) + 1) : a[i] = t[i].snapshot.body
    BY <1>4, <1>5, <2>4
  <2>7. Audit!Bodies(t) = [i \in 1..(Len(s) + 1) |-> t[i].snapshot.body]
    BY <1>7 DEF Audit!Bodies
  <2>8. a = [i \in 1..(Len(s) + 1) |-> t[i].snapshot.body]
    BY <2>5, <2>6
  <2>. QED BY <2>3, <2>7, <2>8 DEF u
<1>11. \A n \in 1..Len(s) : SubSeq(t, 1, n) = SubSeq(s, 1, n)
  <2>. TAKE n \in 1..Len(s)
  <2>1. SubSeq(t, 1, n) = [i \in 1..n |-> t[i]] /\ SubSeq(s, 1, n) = [i \in 1..n |-> s[i]]
    BY <1>3, <1>4
  <2>2. \A i \in 1..n : t[i] = s[i]
    BY <1>4
  <2>. QED BY <2>1, <2>2
<1>. QED BY <1>4, <1>9, <1>10, <1>11 DEF Extends

LEMMA AppendStep ==
  ASSUME AuditInv, NEW body \in AuditBody, Audit!Append_(body)
  PROVE  AuditInv'
<1>1. /\ log' = Append(log, Audit!Sealed(Audit!Snapshot(body, Len(log), Audit!TipHash(log))))
      /\ appended' = Append(appended, body) /\ anchors' = anchors /\ damage' = damage
  BY DEF Audit!Append_
<1>2. IsList(log')
  <2>1. PICK S, e : log \in Seq(S) /\ log' = Append(log, e)
    BY <1>1 DEF AuditInv, IsList
  <2>2. log \in Seq(S \cup {e}) /\ e \in S \cup {e}
    BY <2>1
  <2>3. log' \in Seq(S \cup {e})
    BY <2>1, <2>2
  <2>. QED BY <2>3 DEF IsList
<1>3. ASSUME damage = 0
      PROVE  AsWritten'
  <2>1. IsChain(log) /\ Audit!Bodies(log) = appended
    BY <1>3 DEF AuditInv, AsWritten
  <2>2. /\ IsChain(log') /\ Len(log') = Len(log) + 1 /\ Audit!Bodies(log') = appended'
        /\ \A n \in 1..Len(log) : SubSeq(log', 1, n) = SubSeq(log, 1, n)
    <3>1. PICK t : t = Append(log, Audit!Sealed(Audit!Snapshot(body, Len(log), Audit!TipHash(log))))
      OBVIOUS
    <3>2. Extends(log, t, body)
      BY <2>1, <3>1, ChainGrows
    <3>3. log' = t /\ appended' = Audit!Bodies(t)
      BY <1>1, <2>1, <3>1, <3>2 DEF Extends
    <3>. QED BY <3>2, <3>3 DEF Extends
  <2>3. PICK S : log \in Seq(S)
    BY DEF AuditInv, IsList
  <2>4. Len(appended) = Len(log) /\ Len(log) \in Nat /\ \E B : appended \in Seq(B)
    <3>1. appended \in Seq({log[i].snapshot.body : i \in DOMAIN log}) /\ Len(appended) = Len(log)
      BY <2>1, <2>3 DEF Audit!Bodies
    <3>. QED BY <2>3, <3>1
  <2>5. ASSUME NEW n \in 1..Len(log)
        PROVE  SubSeq(appended', 1, n) = SubSeq(appended, 1, n)
    <3>1. PICK B : appended \in Seq(B)
      BY <2>4
    <3>2. appended \in Seq(B \cup {body}) /\ body \in B \cup {body}
      BY <3>1
    <3>. QED BY <1>1, <2>4, <3>2
  <2>6. ASSUME NEW a \in anchors'
        PROVE  \E n \in 1..Len(log') :
                 a = Audit!AnchorProof(Audit!Head_(SubSeq(log', 1, n)), SubSeq(appended', 1, n))
    <3>1. PICK n \in 1..Len(log) :
            a = Audit!AnchorProof(Audit!Head_(SubSeq(log, 1, n)), SubSeq(appended, 1, n))
      BY <1>1, <1>3 DEF AuditInv, AsWritten
    <3>2. n \in 1..Len(log')
      BY <2>2, <2>4
    <3>. QED BY <2>2, <2>5, <3>1, <3>2
  <2>. QED BY <2>2, <2>6 DEF AsWritten
<1>4. \A a \in anchors' : AnchorStands(a)
  BY <1>1 DEF AuditInv
<1>. QED BY <1>1, <1>2, <1>3, <1>4 DEF AuditInv

\* A head is taken of a chain, and stands for it from then on.
LEMMA AnchorStep ==
  ASSUME AuditInv, Audit!Anchor
  PROVE  AuditInv'
<1>1. /\ log # <<>> /\ damage = 0 /\ UNCHANGED <<log, appended, damage>>
      /\ anchors' = anchors \cup {Audit!AnchorProof(Audit!Head_(log), appended)}
  BY DEF Audit!Anchor
<1>2. IsChain(log) /\ Audit!Bodies(log) = appended
  BY <1>1 DEF AuditInv, AsWritten
<1>3. PICK S : log \in Seq(S)
  BY DEF AuditInv, IsList
<1>4. Len(log) \in 1..Len(log)
  BY <1>1, <1>3
<1>5. SubSeq(log, 1, Len(log)) = log
  BY <1>3
<1>6. SubSeq(appended, 1, Len(log)) = appended
  <2>1. appended \in Seq({log[i].snapshot.body : i \in DOMAIN log}) /\ Len(appended) = Len(log)
    BY <1>2, <1>3 DEF Audit!Bodies
  <2>. QED BY <2>1
<1>7. AsWritten'
  <2>. SUFFICES ASSUME NEW a \in anchors'
                PROVE  \E n \in 1..Len(log) :
                         a = Audit!AnchorProof(Audit!Head_(SubSeq(log, 1, n)), SubSeq(appended, 1, n))
    BY <1>1, <1>2 DEF AsWritten
  <2>1. CASE a \in anchors
    BY <1>1, <2>1 DEF AuditInv, AsWritten
  <2>2. CASE a = Audit!AnchorProof(Audit!Head_(log), appended)
    BY <1>4, <1>5, <1>6, <2>2
  <2>. QED BY <1>1, <2>1, <2>2
<1>8. \A a \in anchors' : AnchorStands(a)
  <2>1. AnchorStands(Audit!AnchorProof(Audit!Head_(log), appended))
    BY <1>1, <1>2 DEF AnchorStands
  <2>. QED BY <1>1, <2>1 DEF AuditInv
<1>. QED BY <1>1, <1>7, <1>8 DEF AuditInv

LEMMA DamageStep ==
  ASSUME AuditInv, Audit!Damage
  PROVE  AuditInv'
<1>1. damage' = damage + 1 /\ damage' \in Nat /\ damage' # 0
  BY DEF Audit!Damage, AuditInv
<1>2. IsList(log')
  <2>1. CASE log' = log
    BY <2>1 DEF AuditInv
  <2>2. CASE log' # log
    <3>1. \/ log' \in Audit!Edits(log) \/ log' \in Audit!Rehashed(log)
          \/ log' \in Audit!Lost(log) \cup Audit!Moved(log) \cup Audit!CutOff(log) \cup Audit!Inserted(log)
          \/ log' \in Audit!Rewritten(log)
      BY <2>2 DEF Audit!Damage
    <3>. QED BY <3>1, DamagedIs DEF AuditInv
  <2>. QED BY <2>1, <2>2
<1>3. \A a \in anchors' : AnchorStands(a)
  BY DEF Audit!Damage, AuditInv, AnchorStands
<1>. QED BY <1>1, <1>2, <1>3 DEF AuditInv

LEMMA AuditStep ==
  ASSUME AuditInv, [Audit!Next]_AuditVars
  PROVE  AuditInv'
<1>1. CASE UNCHANGED AuditVars
  BY <1>1 DEF AuditVars, AuditInv, AsWritten
<1>. QED BY <1>1, AppendStep, AnchorStep, DamageStep DEF Audit!Next

\* Of a log that verifies, an anchor's entries are the first.
LEMMA AnchorHolds ==
  ASSUME NEW s, IsChain(s), NEW a, AnchorStands(a), a # Audit!Corrupt,
         Audit!HashBySeq(s, a.head.seq) = a.head.hash
  PROVE  Audit!IsPrefix(a.witnessed, Audit!Bodies(s))
<1>1. PICK t : IsChain(t) /\ t # <<>> /\ a = Audit!AnchorProof(Audit!Head_(t), Audit!Bodies(t))
  BY DEF AnchorStands
<1>2. PICK S, T : s \in Seq(S) /\ t \in Seq(T)
  BY <1>1 DEF IsChain, IsList
<1>3. PICK n : n = Len(t) /\ n \in Nat /\ n >= 1 /\ n \in DOMAIN t /\ DOMAIN t = 1..n
  BY <1>1, <1>2
<1>4. /\ a.head.seq = n - 1 /\ a.head.hash = t[n].hash /\ a.witnessed = Audit!Bodies(t)
      /\ t[n].hash = <<t[n].snapshot>>
  BY <1>1, <1>3 DEF Audit!AnchorProof, Audit!Head_, Audit!Last, IsChain, Audit!Hash
<1>5. t[n].hash # <<>>
  BY <1>4
<1>6. n \in DOMAIN s /\ s[n].hash = t[n].hash
  <2>1. n - 1 \in Nat /\ (n - 1) + 1 = n
    BY <1>3
  <2>2. Audit!HashBySeq(s, n - 1) = IF n \in DOMAIN s THEN s[n].hash ELSE Audit!Genesis
    BY <2>1, HashOfSeq
  <2>. QED BY <1>4, <1>5, <2>2 DEF Audit!Genesis
<1>7. \A i \in 1..n : s[i].snapshot = t[i].snapshot
  BY <1>1, <1>3, <1>6, ChainsAgree
<1> DEFINE B == {s[i].snapshot.body : i \in DOMAIN s} \cup {t[i].snapshot.body : i \in DOMAIN t}
           u == Audit!Bodies(t)
           v == Audit!Bodies(s)
<1>8. /\ u \in Seq(B) /\ Len(u) = n /\ \A i \in 1..n : u[i] = t[i].snapshot.body
      /\ v \in Seq(B) /\ Len(v) = Len(s) /\ \A i \in 1..Len(s) : v[i] = s[i].snapshot.body
  BY <1>2, <1>3 DEF Audit!Bodies
<1>9. Len(s) \in Nat /\ n <= Len(s)
  BY <1>2, <1>6
<1>. HIDE DEF u, v, B
<1>10. \A i \in 1..n : u[i] = v[i]
  BY <1>7, <1>8, <1>9
<1>11. SubSeq(u, 1, n) = [i \in 1..n |-> u[i]] /\ SubSeq(v, 1, n) = [i \in 1..n |-> v[i]]
  BY <1>3, <1>8, <1>9
<1>12. Audit!IsPrefix(u, v)
  BY <1>8, <1>9, <1>10, <1>11 DEF Audit!IsPrefix
<1>. QED BY <1>4, <1>12 DEF u, v

\* The verdict on the audit log can be relied on: a log that nobody touched verifies, and one that
\* verifies begins with all that was appended before its anchors, unchanged, however long it is and
\* whatever was done to it since (verifyAuditChain, given that hashes do not collide).
THEOREM AuditVerdictsAreSound == Spec => []VerdictIsSound
<1> DEFINE Inv == part = "audit" => AuditInv
<1>1. Init => Inv
  BY AuditInit DEF Init
<1>2. Inv /\ [Next]_vars => Inv'
  <2>. SUFFICES ASSUME part = "audit", AuditInv, [Next]_vars PROVE AuditInv'
    BY DEF Next, vars
  <2>1. [Audit!Next]_AuditVars
    BY DEF Next, vars
  <2>. QED BY <2>1, AuditStep
<1>3. Inv => VerdictIsSound
  <2>. SUFFICES ASSUME part = "audit", AuditInv
                PROVE  Audit!VerdictIsSound
    BY DEF VerdictIsSound
  <2>1. IsChain(log) <=> /\ Audit!BrokenLinks(log) = {} /\ Audit!HashMismatches(log) = {}
                         /\ Audit!SeqGaps(log) = {}
    BY VerifiedIs DEF AuditInv
  <2>2. Audit!Verified(log, anchors) =>
          \A a \in anchors : a # Audit!Corrupt /\ Audit!IsPrefix(a.witnessed, Audit!Bodies(log))
    <3>. SUFFICES ASSUME Audit!Verified(log, anchors), NEW a \in anchors
                  PROVE  a # Audit!Corrupt /\ Audit!IsPrefix(a.witnessed, Audit!Bodies(log))
      OBVIOUS
    <3>1. IsChain(log) /\ a # Audit!Corrupt /\ Audit!HashBySeq(log, a.head.seq) = a.head.hash
      BY <2>1 DEF Audit!Verified, Audit!AnchorProblems
    <3>2. AnchorStands(a)
      BY DEF AuditInv
    <3>. QED BY <3>1, <3>2, AnchorHolds
  <2>3. damage = 0 => Audit!Verified(log, anchors) /\ Audit!Bodies(log) = appended
    <3>. SUFFICES ASSUME damage = 0, NEW a \in anchors
                  PROVE  a # Audit!Corrupt /\ Audit!HashBySeq(log, a.head.seq) = a.head.hash
      BY <2>1 DEF AuditInv, AsWritten, Audit!Verified, Audit!AnchorProblems
    <3>1. PICK n \in 1..Len(log) :
            a = Audit!AnchorProof(Audit!Head_(SubSeq(log, 1, n)), SubSeq(appended, 1, n))
      BY DEF AuditInv, AsWritten
    <3>2. IsChain(log) /\ n \in DOMAIN log /\ n \in Nat /\ n >= 1
      BY ListIs DEF AuditInv, AsWritten
    <3>3. PICK S : log \in Seq(S)
      BY DEF AuditInv, IsList
    <3>4. Audit!Last(SubSeq(log, 1, n)) = log[n]
      BY <3>3 DEF Audit!Last
    <3>5. a # Audit!Corrupt /\ a.head.seq = n - 1 /\ a.head.hash = log[n].hash
      BY <3>1, <3>2, <3>4 DEF Audit!Corrupt, Audit!AnchorProof, Audit!Head_, IsChain
    <3>6. Audit!HashBySeq(log, n - 1) = log[n].hash
      BY <3>2, HashOfSeq
    <3>. QED BY <3>5, <3>6
  <2>. QED BY <2>2, <2>3 DEF Audit!VerdictIsSound
<1>. QED BY <1>1, <1>2, <1>3, PTL DEF Spec
-----------------------------------------------------------------------------
(* Decisions by cached bundles.                                            *)

BundleKeys == {<<"system">>} \cup (RouterOrg \X Nat)
DecisionRecord ==
  [pc : {"idle", "lookup", "wait", "done", "threw"}, org : RouterOrg \cup {None},
   key : BundleKeys \cup {None}, build : RouterDecision \cup {None},
   used : Router!OrgRows, quiet : BOOLEAN]
WriteRecord ==
  [pc : {"idle", "change", "create", "append", "done", "failed"}, org : RouterOrg \cup {None},
   kind : Router!Kinds \cup {"none"}]
BuildRecord == [status : {"none", "running", "ready", "failed"}, policies : Router!OrgRows]

\* What may be cached: builds that began, each under the key of the decision that began it.
CachedBundles ==
  {e \in [key : BundleKeys, build : RouterDecision] :
     decision[e.build].pc # "idle" /\ decision[e.build].key = e.key}

DoneWrites == {w \in RouterWrite : write[w].pc = "done"}

\* An organization has no more events than writes that ended.
EventsAreBounded ==
  /\ changes \in [RouterOrg -> Nat]
  /\ \A o \in RouterOrg : changes[o] <= Cardinality(DoneWrites)

WritesAreOK ==
  /\ write \in [RouterWrite -> WriteRecord]
  /\ \A w \in RouterWrite : write[w].pc # "idle" => write[w].org \in RouterOrg

RouterTyped ==
  /\ rows \in [RouterOrg -> Router!OrgRows]
  /\ builds \in [RouterDecision -> BuildRecord]
  /\ decision \in [RouterDecision -> DecisionRecord]

CacheIsOK == cache \in Seq(CachedBundles) /\ Len(cache) <= RouterMaxBundles

\* A key is the organization's, and of a count of events that it has had.
KeyIsDue(d) ==
  LET o == decision[d].org
      key == decision[d].key
  IN  /\ \/ key = <<"system">>
         \/ o # None /\ \E n \in 1..changes[o] : key = <<o, n>>
      /\ o = None => key = <<"system">>

KeyIsCurrent(d) ==
  LET o == decision[d].org IN
  o = None \/ (decision[d].key = Router!BundleKey(o, changes[o]) /\ ~ Router!Changing(o))

DecisionIsOK(d) ==
  /\ decision[d].pc # "idle" => KeyIsDue(d)
  /\ decision[d].pc = "wait" =>
       /\ decision[d].build \in RouterDecision
       /\ decision[decision[d].build].pc # "idle"
       /\ decision[decision[d].build].key = decision[d].key
  /\ decision[d].pc \in {"lookup", "wait"} /\ decision[d].quiet => KeyIsCurrent(d)

\* A finished build whose key is not contested is of the rows that its key tells of.
BuildIsOK(b) ==
  /\ builds[b].status # "none" => decision[b].pc # "idle"
  /\ builds[b].status = "ready" /\ decision[b].key \notin contested =>
       /\ decision[b].key = <<"system">> => builds[b].policies = Router!NoRows
       /\ \A o \in RouterOrg : decision[b].key = <<o, changes[o]>> /\ ~ Router!Changing(o)
            => builds[b].policies = rows[o]

\* An organization without an event and without a write in progress has no rows.
RowsAreTold == \A o \in RouterOrg : changes[o] = 0 /\ ~ Router!Changing(o) => rows[o] = Router!NoRows

RouterInv ==
  /\ RouterTyped /\ WritesAreOK /\ EventsAreBounded /\ CacheIsOK /\ RowsAreTold
  /\ \A d \in RouterDecision : DecisionIsOK(d)
  /\ \A b \in RouterDecision : BuildIsOK(b)

LEMMA RouterConstants == /\ IsFiniteSet(RouterWrite)
                         /\ RouterMaxBundles \in Nat /\ None \notin RouterOrg
BY RouterRouterAssumption DEF Router!RouterAssumption, Router!IsFiniteSet, IsFiniteSet

LEMMA KeysDiffer ==
  ASSUME NEW o, NEW p, NEW m, NEW n
  PROVE  /\ <<"system">> # <<o, m>>
         /\ <<o, m>> = <<p, n>> => o = p /\ m = n
OBVIOUS

LEMMA RouterInit ==
  ASSUME Router!Init
  PROVE  RouterInv
<1>. USE RouterConstants
<1>1. Router!NoRows \in Router!OrgRows
  BY DEF Router!NoRows, Router!OrgRows
<1>2. RouterTyped
  BY <1>1 DEF RouterTyped, Router!Init, Router!NoBuild, BuildRecord, DecisionRecord
<1>3. WritesAreOK
  BY DEF WritesAreOK, WriteRecord, Router!Init
<1>4. EventsAreBounded
  <2>1. DoneWrites = {}
    BY DEF DoneWrites, Router!Init
  <2>. QED BY <2>1, FS_EmptySet DEF EventsAreBounded, Router!Init
<1>5. CacheIsOK
  BY DEF CacheIsOK, Router!Init
<1>6. RowsAreTold
  BY DEF RowsAreTold, Router!Init
<1>7. \A d \in RouterDecision : DecisionIsOK(d) /\ BuildIsOK(d)
  BY DEF DecisionIsOK, BuildIsOK, Router!Init, Router!NoBuild
<1>. QED BY <1>2, <1>3, <1>4, <1>5, <1>6, <1>7 DEF RouterInv

LEMMA RouterTypes ==
  ASSUME RouterInv
  PROVE  Router!TypeOK
<1>1. IsFiniteSet(DoneWrites) /\ Cardinality(DoneWrites) <= Cardinality(RouterWrite)
  BY RouterConstants, FS_Subset DEF DoneWrites
<1>2. Cardinality(DoneWrites) \in Nat /\ Cardinality(RouterWrite) \in Nat
  BY <1>1, RouterConstants, FS_CardinalityType
<1>3. Cardinality(RouterWrite) = Router!Cardinality(RouterWrite)
  BY DEF Cardinality, Router!Cardinality, IsFiniteSet, Router!IsFiniteSet
<1>4. changes \in [RouterOrg -> 0..Router!Cardinality(RouterWrite)]
  BY <1>1, <1>2, <1>3 DEF RouterInv, EventsAreBounded
<1>. QED BY <1>4 DEF RouterInv, RouterTyped, CacheIsOK, Router!TypeOK, BuildRecord, DecisionRecord

\* Keys stay with decisions that have one, so what was cached may still be.
KeysStay ==
  \A d \in RouterDecision : decision[d].pc # "idle" =>
    /\ decision'[d].pc # "idle" /\ decision'[d].key = decision[d].key
    /\ decision'[d].org = decision[d].org

LEMMA EntriesStay ==
  ASSUME KeysStay
  PROVE  CachedBundles \subseteq CachedBundles'
BY DEF KeysStay, CachedBundles

LEMMA CacheStays ==
  ASSUME RouterInv, KeysStay, UNCHANGED cache
  PROVE  CacheIsOK'
<1>1. CachedBundles \subseteq CachedBundles' /\ cache \in Seq(CachedBundles)
  BY EntriesStay DEF RouterInv, CacheIsOK
<1>2. cache \in Seq(CachedBundles')
  BY <1>1
<1>. QED BY <1>2 DEF RouterInv, CacheIsOK

\* The events of a write that ends now.
LEMMA EndsOne ==
  ASSUME RouterInv, NEW w \in RouterWrite, write[w].pc # "done", write'[w].pc = "done",
         \A v \in RouterWrite \ {w} : write'[v] = write[v]
  PROVE  Cardinality(DoneWrites') = Cardinality(DoneWrites) + 1 /\ Cardinality(DoneWrites) \in Nat
<1>1. DoneWrites' = DoneWrites \cup {w} /\ w \notin DoneWrites
  BY DEF DoneWrites
<1>2. IsFiniteSet(DoneWrites)
  BY RouterConstants, FS_Subset DEF DoneWrites
<1>. QED BY <1>1, <1>2, FS_AddElement, FS_CardinalityType

LEMMA EndsNone ==
  ASSUME RouterInv,
         \A v \in RouterWrite : write'[v].pc = "done" <=> write[v].pc = "done"
  PROVE  DoneWrites' = DoneWrites
BY DEF DoneWrites

\* Decisions go on while an organization is disturbed, which they remember.
LEMMA DisturbIs ==
  ASSUME RouterInv, NEW o, Router!Disturb(o)
  PROVE  /\ decision' \in [RouterDecision -> DecisionRecord]
         /\ \A d \in RouterDecision :
              /\ decision'[d].pc = decision[d].pc /\ decision'[d].org = decision[d].org
              /\ decision'[d].key = decision[d].key /\ decision'[d].build = decision[d].build
              /\ decision'[d].used = decision[d].used
              /\ decision'[d].quiet => decision[d].quiet
              /\ decision'[d].quiet /\ decision[d].pc # "done" => decision[d].org # o
<1>1. \A d \in RouterDecision : decision[d] \in DecisionRecord
  BY DEF RouterInv, RouterTyped
<1>2. SUFFICES ASSUME NEW d \in RouterDecision
      PROVE  /\ decision'[d] \in DecisionRecord
             /\ decision'[d].pc = decision[d].pc /\ decision'[d].org = decision[d].org
             /\ decision'[d].key = decision[d].key /\ decision'[d].build = decision[d].build
             /\ decision'[d].used = decision[d].used
             /\ decision'[d].quiet => decision[d].quiet
             /\ decision'[d].quiet /\ decision[d].pc # "done" => decision[d].org # o
  <2>1. decision' = [d \in RouterDecision |-> decision'[d]]
    BY DEF Router!Disturb
  <2>. QED BY <2>1
<1>3. PICK q \in BOOLEAN :
        q = (decision[d].quiet /\ ~ (decision[d].org = o /\ decision[d].pc # "done"))
  BY <1>1 DEF DecisionRecord
<1>4. decision'[d] = [decision[d] EXCEPT !.quiet = q]
  BY <1>3, Zenon DEF Router!Disturb
<1>. QED BY <1>1, <1>3, <1>4 DEF DecisionRecord

\* Writes are of an organization, and one of them is at a time.
LEMMA ChangingIs ==
  ASSUME NEW w \in RouterWrite, NEW o,
         write[w].org = o, write'[w].org = o, \A v \in RouterWrite \ {w} : write'[v] = write[v]
  PROVE  /\ \A p : p # o => (Router!Changing(p)' <=> Router!Changing(p))
         /\ write'[w].pc \in {"create", "append", "failed"} => Router!Changing(o)'
         /\ write[w].pc \in {"create", "append", "failed"} => Router!Changing(o)
BY DEF Router!Changing

\* A write's next statement, which changes rows or appends the event.
LEMMA WriteGoesOn ==
  ASSUME RouterInv, NEW w \in RouterWrite, NEW o \in RouterOrg, write[w].org = o,
         write[w].pc \in {"change", "create", "append"},
         write' \in [RouterWrite -> WriteRecord], write'[w].org = o, write'[w].pc # "idle",
         \A v \in RouterWrite \ {w} : write'[v] = write[v],
         rows' \in [RouterOrg -> Router!OrgRows], changes' \in [RouterOrg -> Nat],
         \A p \in RouterOrg \ {o} : rows'[p] = rows[p] /\ changes'[p] = changes[p],
         \/ write'[w].pc \in {"create", "append"} /\ changes' = changes
         \/ write'[w].pc = "done" /\ changes'[o] = changes[o] + 1,
         Router!Disturb(o), UNCHANGED <<cache, builds, contested>>
  PROVE  RouterInv' /\ Router!DecidesByTheRows
<1>. USE RouterConstants
<1>1. changes \in [RouterOrg -> Nat]
  BY DEF RouterInv, EventsAreBounded
<1>2. WritesAreOK'
  <2>1. \A v \in RouterWrite : write'[v].pc # "idle" => write'[v].org \in RouterOrg
    BY DEF RouterInv, WritesAreOK
  <2>. QED BY <2>1 DEF WritesAreOK
<1>3. RouterTyped'
  BY DisturbIs DEF RouterInv, RouterTyped
<1>4. EventsAreBounded'
  <2>1. CASE write'[w].pc \in {"create", "append"} /\ changes' = changes
    <3>1. DoneWrites' = DoneWrites
      BY <2>1, EndsNone
    <3>. QED BY <2>1, <3>1 DEF RouterInv, EventsAreBounded
  <2>2. CASE write'[w].pc = "done" /\ changes'[o] = changes[o] + 1
    <3>1. Cardinality(DoneWrites') = Cardinality(DoneWrites) + 1 /\ Cardinality(DoneWrites) \in Nat
      BY <2>2, EndsOne
    <3>2. \A p \in RouterOrg : changes[p] <= Cardinality(DoneWrites)
      BY DEF RouterInv, EventsAreBounded
    <3>3. \A p \in RouterOrg : changes'[p] <= changes[p] + 1
      BY <1>1, <2>2
    <3>4. \A p \in RouterOrg : changes'[p] \in Nat
      OBVIOUS
    <3>5. \A p \in RouterOrg : changes'[p] <= Cardinality(DoneWrites')
      BY <1>1, <3>1, <3>2, <3>3, <3>4
    <3>. QED BY <3>5 DEF EventsAreBounded
  <2>. QED BY <2>1, <2>2
<1>5. KeysStay
  BY DisturbIs DEF KeysStay
<1>6. CacheIsOK'
  BY <1>5, CacheStays
<1>7. /\ \A p : p # o => (Router!Changing(p)' <=> Router!Changing(p))
      /\ write'[w].pc \in {"create", "append", "failed"} => Router!Changing(o)'
  BY ChangingIs
<1>8. RowsAreTold'
  <2>. SUFFICES ASSUME NEW p \in RouterOrg, changes'[p] = 0, ~ Router!Changing(p)'
                PROVE  rows'[p] = Router!NoRows
    BY DEF RowsAreTold, Router!NoRows
  <2>1. p # o
    BY <1>1, <1>7
  <2>2. rows[p] = Router!NoRows
    BY <1>7, <2>1 DEF RouterInv, RowsAreTold
  <2>. QED BY <2>1, <2>2
<1>9. ASSUME NEW d \in RouterDecision
      PROVE  DecisionIsOK(d)'
  <2>1. /\ decision'[d].pc = decision[d].pc /\ decision'[d].org = decision[d].org
        /\ decision'[d].key = decision[d].key /\ decision'[d].build = decision[d].build
        /\ decision'[d].quiet => decision[d].quiet
        /\ decision'[d].quiet /\ decision[d].pc # "done" => decision[d].org # o
    BY DisturbIs
  <2>2. DecisionIsOK(d)
    BY DEF RouterInv
  <2>3. decision[d].org \in RouterOrg \cup {None}
    BY DEF RouterInv, RouterTyped, DecisionRecord
  <2>4. decision[d].pc # "idle" => KeyIsDue(d)'
    <3>. SUFFICES ASSUME decision[d].pc # "idle"
                  PROVE  KeyIsDue(d)'
      OBVIOUS
    <3>1. KeyIsDue(d)
      BY <2>2 DEF DecisionIsOK
    <3>2. ASSUME decision[d].org # None, NEW n \in 1..changes[decision[d].org]
          PROVE  n \in 1..changes'[decision[d].org]
      BY <1>1, <2>3, <3>2
    <3>. QED BY <2>1, <3>1, <3>2 DEF KeyIsDue
  <2>5. decision[d].pc = "wait" =>
          /\ decision'[d].build \in RouterDecision
          /\ decision'[decision'[d].build].pc # "idle"
          /\ decision'[decision'[d].build].key = decision'[d].key
    BY <1>5, <2>1, <2>2 DEF DecisionIsOK, KeysStay
  <2>6. decision[d].pc \in {"lookup", "wait"} /\ decision'[d].quiet => KeyIsCurrent(d)'
    <3>. SUFFICES ASSUME decision[d].pc \in {"lookup", "wait"}, decision'[d].quiet
                  PROVE  KeyIsCurrent(d)'
      OBVIOUS
    <3>1. KeyIsCurrent(d) /\ decision[d].org # o
      BY <2>1, <2>2 DEF DecisionIsOK
    <3>2. CASE decision[d].org = None
      BY <2>1, <3>2 DEF KeyIsCurrent
    <3>3. CASE decision[d].org # None
      <4>. PICK p \in RouterOrg : p = decision[d].org
        BY <2>3, <3>3
      <4>1. decision[d].key = Router!BundleKey(p, changes[p]) /\ ~ Router!Changing(p) /\ p # o
        BY <3>1, <3>3 DEF KeyIsCurrent
      <4>2. ~ Router!Changing(p)' /\ changes'[p] = changes[p]
        BY <1>7, <4>1
      <4>3. decision'[d].key = Router!BundleKey(p, changes'[p])
        BY <2>1, <4>1, <4>2
      <4>. QED BY <2>1, <4>2, <4>3 DEF KeyIsCurrent, Router!BundleKey, Router!Changing
    <3>. QED BY <3>2, <3>3
  <2>. QED BY <2>1, <2>4, <2>5, <2>6 DEF DecisionIsOK
<1>10. ASSUME NEW b \in RouterDecision
       PROVE  BuildIsOK(b)'
  <2>1. decision'[b].pc = decision[b].pc /\ decision'[b].key = decision[b].key
        /\ decision'[b].org = decision[b].org
    BY DisturbIs
  <2>2. BuildIsOK(b) /\ DecisionIsOK(b)
    BY DEF RouterInv
  <2>3. ASSUME builds[b].status = "ready", decision[b].key \notin contested,
               NEW p \in RouterOrg, decision[b].key = <<p, changes'[p]>>, ~ Router!Changing(p)'
        PROVE  builds[b].policies = rows'[p]
    <3>1. CASE p = o
      <4>1. changes'[o] = changes[o] + 1
        BY <1>7, <2>3, <3>1
      <4>2. KeyIsDue(b)
        BY <2>2, <2>3 DEF BuildIsOK, DecisionIsOK
      <4>3. PICK q, n : n \in 1..changes[q] /\ q = decision[b].org /\ decision[b].key = <<q, n>>
        BY <2>3, <4>2, KeysDiffer DEF KeyIsDue
      <4>4. q = o /\ n = changes'[o]
        BY <2>3, <3>1, <4>3, KeysDiffer
      <4>. QED BY <1>1, <4>1, <4>3, <4>4
    <3>2. CASE p # o
      <4>1. ~ Router!Changing(p) /\ changes'[p] = changes[p] /\ rows'[p] = rows[p]
        BY <1>7, <2>3, <3>2
      <4>. QED BY <2>2, <2>3, <4>1 DEF BuildIsOK
    <3>. QED BY <3>1, <3>2
  <2>. QED BY <2>1, <2>2, <2>3 DEF BuildIsOK, Router!NoRows, Router!Changing
<1>11. RouterInv'
  BY <1>2, <1>3, <1>4, <1>6, <1>8, <1>9, <1>10 DEF RouterInv
<1>12. Router!DecidesByTheRows
  BY DisturbIs DEF Router!DecidesByTheRows
<1>. QED BY <1>11, <1>12

LEMMA WriteIs ==
  ASSUME RouterInv, NEW w \in RouterWrite, write[w].pc # "idle",
         NEW place \in {"change", "create", "append", "done", "failed"},
         write' = [write EXCEPT ![w].pc = place]
  PROVE  /\ write' \in [RouterWrite -> WriteRecord]
         /\ write'[w].pc = place /\ write'[w].org = write[w].org
         /\ write[w].org \in RouterOrg
         /\ \A v \in RouterWrite \ {w} : write'[v] = write[v]
<1>1. write \in [RouterWrite -> WriteRecord] /\ write[w].org \in RouterOrg
  BY DEF RouterInv, WritesAreOK
<1>2. PICK r : r = [write[w] EXCEPT !.pc = place]
  OBVIOUS
<1>3. r = [pc |-> place, org |-> write[w].org, kind |-> write[w].kind] /\ r \in WriteRecord
  BY <1>1, <1>2 DEF WriteRecord
<1>4. write' = [write EXCEPT ![w] = r]
  BY <1>2, Zenon
<1>. QED BY <1>1, <1>3, <1>4

LEMMA RouterWriteStep ==
  ASSUME RouterInv, NEW w \in RouterWrite,
         (\E text \in RouterTexts : Router!Change(w, text) \/ Router!Create(w, text))
           \/ Router!AppendChange(w)
  PROVE  RouterInv' /\ Router!DecidesByTheRows
<1>. PICK o : o = write[w].org
  OBVIOUS
<1>1. write[w].pc \in {"change", "create", "append"}
  BY DEF Router!Change, Router!Create, Router!AppendChange
<1>2. o \in RouterOrg /\ changes \in [RouterOrg -> Nat] /\ rows \in [RouterOrg -> Router!OrgRows]
  BY <1>1 DEF RouterInv, WritesAreOK, EventsAreBounded, RouterTyped
<1>3. \A field \in {"slice", "overlay"}, text \in {0} \cup RouterTexts :
        [rows EXCEPT ![o][field] = text] \in [RouterOrg -> Router!OrgRows]
  <2>. SUFFICES ASSUME NEW field \in {"slice", "overlay"}, NEW text \in {0} \cup RouterTexts
                PROVE  [rows EXCEPT ![o][field] = text] \in [RouterOrg -> Router!OrgRows]
    OBVIOUS
  <2>1. PICK r : r = [rows[o] EXCEPT ![field] = text]
    OBVIOUS
  <2>2. r \in Router!OrgRows
    BY <1>2, <2>1 DEF Router!OrgRows
  <2>3. [rows EXCEPT ![o][field] = text] = [rows EXCEPT ![o] = r]
    BY <2>1, Zenon
  <2>. QED BY <1>2, <2>2, <2>3
<1>4. ASSUME NEW text \in RouterTexts, Router!Change(w, text)
      PROVE  RouterInv' /\ Router!DecidesByTheRows
  <2>1. PICK place \in {"create", "append"} : write' = [write EXCEPT ![w].pc = place]
    BY <1>4, Zenon DEF Router!Change
  <2>2. PICK field \in {"slice", "overlay"}, new \in {0} \cup RouterTexts :
          rows' = [rows EXCEPT ![o][field] = new]
    <3>1. Router!Table(write[w].kind) \in {"slice", "overlay"}
      BY DEF Router!Table
    <3>. QED BY <1>4, <3>1, Zenon DEF Router!Change
  <2>3. rows' \in [RouterOrg -> Router!OrgRows] /\ \A p \in RouterOrg \ {o} : rows'[p] = rows[p]
    BY <1>2, <1>3, <2>2
  <2>4. /\ write' \in [RouterWrite -> WriteRecord]
        /\ write'[w].pc = place /\ write'[w].org = o
        /\ \A v \in RouterWrite \ {w} : write'[v] = write[v]
    BY <1>1, <2>1, WriteIs
  <2>5. Router!Disturb(o) /\ UNCHANGED <<changes, cache, builds, contested>>
    BY <1>4 DEF Router!Change
  <2>. QED BY <1>1, <1>2, <2>3, <2>4, <2>5, WriteGoesOn
<1>5. ASSUME NEW text \in RouterTexts, Router!Create(w, text)
      PROVE  RouterInv' /\ Router!DecidesByTheRows
  <2>1. write' = [write EXCEPT ![w].pc = "append"] /\ rows' = [rows EXCEPT ![o].overlay = text]
    BY <1>5 DEF Router!Create
  <2>2. rows' \in [RouterOrg -> Router!OrgRows] /\ \A p \in RouterOrg \ {o} : rows'[p] = rows[p]
    BY <1>2, <1>3, <2>1
  <2>3. /\ write' \in [RouterWrite -> WriteRecord]
        /\ write'[w].pc = "append" /\ write'[w].org = o
        /\ \A v \in RouterWrite \ {w} : write'[v] = write[v]
    BY <1>1, <2>1, WriteIs
  <2>4. Router!Disturb(o) /\ UNCHANGED <<changes, cache, builds, contested>>
    BY <1>5 DEF Router!Create
  <2>. QED BY <1>1, <1>2, <2>2, <2>3, <2>4, WriteGoesOn
<1>6. ASSUME Router!AppendChange(w)
      PROVE  RouterInv' /\ Router!DecidesByTheRows
  <2>1. write' = [write EXCEPT ![w].pc = "done"] /\ changes' = [changes EXCEPT ![o] = @ + 1]
    BY <1>6 DEF Router!AppendChange, Router!Appended
  <2>2. /\ changes' \in [RouterOrg -> Nat] /\ changes'[o] = changes[o] + 1
        /\ \A p \in RouterOrg \ {o} : changes'[p] = changes[p]
    BY <1>2, <2>1
  <2>3. /\ write' \in [RouterWrite -> WriteRecord]
        /\ write'[w].pc = "done" /\ write'[w].org = o
        /\ \A v \in RouterWrite \ {w} : write'[v] = write[v]
    BY <1>1, <2>1, WriteIs
  <2>4. Router!Disturb(o) /\ UNCHANGED <<rows, cache, builds, contested>>
    BY <1>6 DEF Router!AppendChange
  <2>. QED BY <1>1, <1>2, <2>2, <2>3, <2>4, WriteGoesOn
<1>. QED BY <1>4, <1>5, <1>6

\* Nothing that is decided by changes while a row is looked for, or when a write fails.
LEMMA WriteStandsBy ==
  ASSUME RouterInv, NEW w \in RouterWrite,
         WritesAreOK', EventsAreBounded',
         \A p \in RouterOrg : Router!Changing(p)' <=> Router!Changing(p),
         UNCHANGED <<rows, changes, cache, builds, decision, contested>>
  PROVE  RouterInv' /\ Router!DecidesByTheRows
<1>1. RouterTyped' /\ RowsAreTold'
  BY DEF RouterInv, RouterTyped, RowsAreTold, Router!NoRows
<1>2. CacheIsOK'
  BY CacheStays DEF KeysStay
<1>3. ASSUME NEW d \in RouterDecision
      PROVE  DecisionIsOK(d)' /\ BuildIsOK(d)'
  <2>1. DecisionIsOK(d) /\ BuildIsOK(d)
    BY DEF RouterInv
  <2>2. decision[d].org \in RouterOrg \cup {None}
    BY DEF RouterInv, RouterTyped, DecisionRecord
  <2>3. KeyIsDue(d)' <=> KeyIsDue(d)
    BY DEF KeyIsDue
  <2>4. KeyIsCurrent(d) => KeyIsCurrent(d)'
    BY <2>2 DEF KeyIsCurrent, Router!BundleKey
  <2>5. DecisionIsOK(d)'
    BY <2>1, <2>3, <2>4 DEF DecisionIsOK
  <2>6. BuildIsOK(d)'
    BY <2>1 DEF BuildIsOK, Router!NoRows
  <2>. QED BY <2>5, <2>6
<1>4. Router!DecidesByTheRows
  BY DEF Router!DecidesByTheRows
<1>. QED BY <1>1, <1>2, <1>3, <1>4 DEF RouterInv

LEMMA FindStep ==
  ASSUME RouterInv, NEW w \in RouterWrite, NEW o \in RouterOrg, NEW kind \in Router!Kinds,
         Router!Find(w, o, kind)
  PROVE  RouterInv' /\ Router!DecidesByTheRows
<1>1. /\ write' = [write EXCEPT ![w] = [pc |-> "change", org |-> o, kind |-> kind]]
      /\ write[w].pc = "idle"
      /\ UNCHANGED <<rows, changes, cache, builds, decision, contested>>
  BY DEF Router!Find
<1>2. WritesAreOK'
  BY <1>1 DEF RouterInv, WritesAreOK, WriteRecord
<1>3. /\ write'[w] = [pc |-> "change", org |-> o, kind |-> kind]
      /\ \A v \in RouterWrite \ {w} : write'[v] = write[v]
  BY <1>1 DEF RouterInv, WritesAreOK
<1>4. DoneWrites' = DoneWrites
  BY <1>1, <1>3, EndsNone
<1>5. EventsAreBounded'
  BY <1>1, <1>4 DEF RouterInv, EventsAreBounded
<1>6. \A p \in RouterOrg : Router!Changing(p)' <=> Router!Changing(p)
  BY <1>1, <1>3 DEF Router!Changing
<1>. QED BY <1>1, <1>2, <1>5, <1>6, WriteStandsBy

LEMMA WriteFailsStep ==
  ASSUME RouterInv, NEW w \in RouterWrite, Router!WriteFails(w)
  PROVE  RouterInv' /\ Router!DecidesByTheRows
<1>1. PICK place \in {"done", "failed"} :
        /\ place = (IF write[w].pc = "change" THEN "done" ELSE "failed")
        /\ write' = [write EXCEPT ![w].pc = place]
  BY Zenon DEF Router!WriteFails
<1>2. /\ write[w].pc \in {"change", "create", "append"}
      /\ UNCHANGED <<rows, changes, cache, builds, decision, contested>>
  BY DEF Router!WriteFails
<1>3. /\ write' \in [RouterWrite -> WriteRecord]
      /\ write'[w].pc = place /\ write'[w].org = write[w].org
      /\ write[w].org \in RouterOrg
      /\ \A v \in RouterWrite \ {w} : write'[v] = write[v]
  BY <1>1, <1>2, WriteIs
<1>4. WritesAreOK'
  <2>1. \A v \in RouterWrite : write'[v].pc # "idle" => write'[v].org \in RouterOrg
    BY <1>3 DEF RouterInv, WritesAreOK
  <2>. QED BY <1>3, <2>1 DEF WritesAreOK
<1>5. changes \in [RouterOrg -> Nat] /\ \A o \in RouterOrg : changes[o] <= Cardinality(DoneWrites)
  BY DEF RouterInv, EventsAreBounded
<1>6. EventsAreBounded'
  <2>1. CASE place = "done"
    <3>1. Cardinality(DoneWrites') = Cardinality(DoneWrites) + 1 /\ Cardinality(DoneWrites) \in Nat
      BY <1>2, <1>3, <2>1, EndsOne
    <3>. HIDE DEF DoneWrites
    <3>2. PICK m \in Nat : m = Cardinality(DoneWrites)
      BY <3>1
    <3>3. \A o \in RouterOrg : changes[o] \in Nat /\ changes[o] <= m
      BY <1>5, <3>2
    <3>4. \A o \in RouterOrg : changes[o] <= m + 1
      BY <3>3
    <3>. QED BY <1>2, <1>5, <3>1, <3>2, <3>4 DEF EventsAreBounded
  <2>2. CASE place = "failed"
    <3>1. DoneWrites' = DoneWrites
      BY <1>2, <1>3, <2>2, EndsNone
    <3>. QED BY <1>2, <3>1 DEF RouterInv, EventsAreBounded
  <2>. QED BY <2>1, <2>2
<1>7. \A p \in RouterOrg : Router!Changing(p)' <=> Router!Changing(p)
  BY <1>1, <1>2, <1>3 DEF Router!Changing
<1>. QED BY <1>2, <1>4, <1>6, <1>7, WriteStandsBy

LEMMA FirstIs ==
  ASSUME NEW S \in SUBSET Nat, S # {}
  PROVE  Router!Min(S) \in S
<1>1. PICK u \in S : \A v \in S : u <= v
  BY LeastOf
<1>. QED BY <1>1 DEF Router!Min

LEMMA FoundIs ==
  ASSUME NEW n \in Nat, NEW I \in SUBSET (1..n), NEW i, i = IF I # {} THEN Router!Min(I) ELSE 0
  PROVE  i = 0 \/ (i \in I /\ i # 0)
<1>1. I \in SUBSET Nat /\ 0 \notin I
  OBVIOUS
<1>. QED BY <1>1, FirstIs

LEMMA LeftInCache ==
  ASSUME NEW S, cache \in Seq(S), NEW i, i = 0 \/ (i \in DOMAIN cache /\ i # 0)
  PROVE  /\ Router!Without(i) \in Seq(S)
         /\ Len(Router!Without(i)) = IF i = 0 THEN Len(cache) ELSE Len(cache) - 1
<1>1. CASE i = 0
  BY <1>1 DEF Router!Without
<1>2. CASE i \in DOMAIN cache /\ i # 0
  <2>1. i \in 1..Len(cache) /\ Len(cache) \in Nat
    BY <1>2
  <2> DEFINE s == SubSeq(cache, 1, i - 1)
             t == SubSeq(cache, i + 1, Len(cache))
  <2>2. s \in Seq(S) /\ Len(s) = i - 1
    BY <2>1
  <2>3. t \in Seq(S) /\ Len(t) = Len(cache) - i
    BY <2>1
  <2>4. Router!Without(i) = s \o t
    BY <1>2 DEF Router!Without, Router!RemoveAt
  <2>. HIDE DEF s, t
  <2>. QED BY <1>2, <2>1, <2>2, <2>3, <2>4, ConcatProperties
<1>. QED BY <1>1, <1>2

\* What a step of a decision leaves alone, when it disturbs nothing.
LEMMA DecisionGoesOn ==
  ASSUME RouterInv, KeysStay,
         decision' \in [RouterDecision -> DecisionRecord], builds' \in [RouterDecision -> BuildRecord],
         CacheIsOK', UNCHANGED <<rows, changes, write>>,
         \A d \in RouterDecision : DecisionIsOK(d)' /\ BuildIsOK(d)'
  PROVE  RouterInv'
<1>1. RouterTyped' /\ WritesAreOK' /\ EventsAreBounded' /\ RowsAreTold'
  BY DEF RouterInv, RouterTyped, WritesAreOK, EventsAreBounded, RowsAreTold, Router!NoRows,
         Router!Changing, DoneWrites
<1>. QED BY <1>1 DEF RouterInv

\* A decision that stays as it is, and a build that does.
LEMMA DecisionStaysOK ==
  ASSUME RouterInv, KeysStay, NEW d \in RouterDecision, decision'[d] = decision[d],
         UNCHANGED <<changes, write>>
  PROVE  DecisionIsOK(d)'
<1>1. DecisionIsOK(d)
  BY DEF RouterInv
<1>2. KeyIsDue(d)' <=> KeyIsDue(d)
  BY DEF KeyIsDue
<1>3. KeyIsCurrent(d)' <=> KeyIsCurrent(d)
  BY DEF KeyIsCurrent, Router!BundleKey, Router!Changing
<1>4. decision[d].pc = "wait" =>
        /\ decision[d].build \in RouterDecision
        /\ decision'[decision[d].build].pc # "idle"
        /\ decision'[decision[d].build].key = decision[d].key
  BY <1>1 DEF DecisionIsOK, KeysStay
<1>. QED BY <1>1, <1>2, <1>3, <1>4 DEF DecisionIsOK

LEMMA BuildStaysOK ==
  ASSUME RouterInv, KeysStay, NEW b \in RouterDecision, builds'[b] = builds[b],
         contested \subseteq contested', UNCHANGED <<rows, changes, write>>
  PROVE  BuildIsOK(b)'
<1>1. BuildIsOK(b)
  BY DEF RouterInv
<1>2. builds[b].status # "none" => decision'[b].pc # "idle" /\ decision'[b].key = decision[b].key
  BY <1>1 DEF BuildIsOK, KeysStay
<1>. QED BY <1>1, <1>2 DEF BuildIsOK, Router!NoRows, Router!Changing

LEMMA KeyForStep ==
  ASSUME RouterInv, NEW d \in RouterDecision, NEW o \in RouterOrg \cup {None},
         Router!KeyFor(d, o)
  PROVE  RouterInv' /\ Router!DecidesByTheRows
<1>. USE RouterConstants
<1>. PICK q \in BOOLEAN : q <=> ~ Router!Changing(o)
  OBVIOUS
<1>. PICK key : key = Router!BundleKey(o, IF o = None THEN 0 ELSE changes[o])
  OBVIOUS
<1>1. /\ decision \in [RouterDecision -> DecisionRecord]
      /\ builds \in [RouterDecision -> BuildRecord]
      /\ changes \in [RouterOrg -> Nat]
  BY DEF RouterInv, RouterTyped, EventsAreBounded
<1>2. decision[d].pc = "idle" /\ UNCHANGED <<rows, changes, cache, builds, write, contested>>
  BY DEF Router!KeyFor
<1>3. PICK r : r = [decision[d] EXCEPT !.pc = "lookup", !.org = o, !.quiet = q, !.key = key]
  OBVIOUS
<1>4. key \in BundleKeys
  BY <1>1 DEF Router!BundleKey, BundleKeys
<1>5. /\ r = [pc |-> "lookup", org |-> o, key |-> key, build |-> decision[d].build,
              used |-> decision[d].used, quiet |-> q]
      /\ r \in DecisionRecord
  <2>1. decision[d] \in DecisionRecord
    BY <1>1
  <2>2. decision[d] = [pc |-> decision[d].pc, org |-> decision[d].org, key |-> decision[d].key,
          build |-> decision[d].build, used |-> decision[d].used, quiet |-> decision[d].quiet]
    BY <2>1 DEF DecisionRecord
  <2>3. PICK r1 : r1 = [decision[d] EXCEPT !.pc = "lookup"]
    OBVIOUS
  <2>4. PICK r2 : r2 = [r1 EXCEPT !.org = o]
    OBVIOUS
  <2>5. PICK r3 : r3 = [r2 EXCEPT !.quiet = q]
    OBVIOUS
  <2>6. PICK r4 : r4 = [r3 EXCEPT !.key = key]
    OBVIOUS
  <2>7. r1 = [pc |-> "lookup", org |-> decision[d].org, key |-> decision[d].key,
          build |-> decision[d].build, used |-> decision[d].used, quiet |-> decision[d].quiet]
    BY <2>2, <2>3
  <2>8. r2 = [pc |-> "lookup", org |-> o, key |-> decision[d].key,
          build |-> decision[d].build, used |-> decision[d].used, quiet |-> decision[d].quiet]
    BY <2>4, <2>7
  <2>9. r3 = [pc |-> "lookup", org |-> o, key |-> decision[d].key,
          build |-> decision[d].build, used |-> decision[d].used, quiet |-> q]
    BY <2>5, <2>8
  <2>10. r4 = [pc |-> "lookup", org |-> o, key |-> key,
          build |-> decision[d].build, used |-> decision[d].used, quiet |-> q]
    BY <2>6, <2>9
  <2>11. r = r4
    BY <1>3, <2>3, <2>4, <2>5, <2>6, Zenon
  <2>. QED BY <1>4, <2>1, <2>10, <2>11 DEF DecisionRecord
<1>6. decision' = [decision EXCEPT ![d] = r]
  <2>1. q = (~ Router!Changing(o))
    BY DEF Router!Changing
  <2>. QED BY <1>3, <2>1, Zenon DEF Router!KeyFor
<1>7. /\ decision' \in [RouterDecision -> DecisionRecord] /\ decision'[d] = r
      /\ \A c \in RouterDecision \ {d} : decision'[c] = decision[c]
  BY <1>1, <1>5, <1>6
<1>8. KeysStay
  BY <1>2, <1>7 DEF KeysStay
<1>9. DecisionIsOK(d)'
  <2>1. o # None => changes[o] \in Nat /\ (key = <<"system">> \/ (key = <<o, changes[o]>> /\ changes[o] # 0))
    BY <1>1 DEF Router!BundleKey
  <2>2. o = None => key = <<"system">>
    BY DEF Router!BundleKey
  <2>3. KeyIsDue(d)'
    BY <1>2, <1>5, <1>7, <2>1, <2>2 DEF KeyIsDue
  <2>4. q => KeyIsCurrent(d)'
    <3>. SUFFICES ASSUME q, o # None
                  PROVE  KeyIsCurrent(d)'
      BY <1>5, <1>7 DEF KeyIsCurrent
    <3>1. key = Router!BundleKey(o, changes'[o])
      BY <1>2
    <3>2. ~ Router!Changing(o)'
      BY <1>2 DEF Router!Changing
    <3>. QED BY <1>5, <1>7, <3>1, <3>2 DEF KeyIsCurrent, Router!BundleKey, Router!Changing
  <2>. QED BY <1>5, <1>7, <2>3, <2>4 DEF DecisionIsOK
<1>10. \A c \in RouterDecision : DecisionIsOK(c)'
  BY <1>2, <1>7, <1>8, <1>9, DecisionStaysOK
<1>11. \A c \in RouterDecision : BuildIsOK(c)'
  BY <1>2, <1>8, BuildStaysOK
<1>12. CacheIsOK'
  BY <1>2, <1>8, CacheStays
<1>13. RouterInv'
  BY <1>1, <1>2, <1>7, <1>8, <1>10, <1>11, <1>12, DecisionGoesOn
<1>14. Router!DecidesByTheRows
  BY <1>2, <1>7 DEF Router!DecidesByTheRows
<1>. QED BY <1>13, <1>14

LEMMA LookupStep ==
  ASSUME RouterInv, NEW d \in RouterDecision, Router!Lookup(d)
  PROVE  RouterInv' /\ Router!DecidesByTheRows
<1>. USE RouterConstants
<1>a. PICK I : I = {j \in 1..Len(cache) : cache[j].key = decision[d].key}
  OBVIOUS
<1>b. PICK i : i = IF I # {} THEN Router!Min(I) ELSE 0
  OBVIOUS
<1>c. PICK key : key = decision[d].key
  OBVIOUS
<1>d. PICK build : build = IF i = 0 THEN d ELSE cache[i].build
  OBVIOUS
<1>e. PICK kept : kept = Append(Router!Without(i), [key |-> key, build |-> build])
  OBVIOUS
<1>1. /\ decision[d].pc = "lookup"
      /\ cache' = IF Len(kept) > RouterMaxBundles THEN Tail(kept) ELSE kept
      /\ builds' = IF i = 0 THEN [builds EXCEPT ![d].status = "running"] ELSE builds
      /\ decision' = [decision EXCEPT ![d].pc = "wait", ![d].build = build]
      /\ UNCHANGED <<rows, changes, write, contested>>
  BY <1>a, <1>b, <1>c, <1>d, <1>e, Zenon DEF Router!Lookup, Router!SelectInSeq
<1>2. /\ decision \in [RouterDecision -> DecisionRecord]
      /\ builds \in [RouterDecision -> BuildRecord]
      /\ cache \in Seq(CachedBundles) /\ Len(cache) <= RouterMaxBundles
      /\ DecisionIsOK(d)
  BY DEF RouterInv, RouterTyped, CacheIsOK
<1>3. i = 0 \/ (i \in DOMAIN cache /\ i # 0 /\ cache[i].key = key)
  <2>1. I \in SUBSET (1..Len(cache)) /\ Len(cache) \in Nat /\ DOMAIN cache = 1..Len(cache)
    BY <1>2, <1>a
  <2>2. \A j \in I : cache[j].key = key
    BY <1>a, <1>c
  <2>. QED BY <1>b, <2>1, <2>2, FoundIs
<1>4. key \in BundleKeys
  <2>1. decision[d].org \in RouterOrg \cup {None} /\ KeyIsDue(d)
    BY <1>1, <1>2 DEF DecisionRecord, DecisionIsOK
  <2>2. changes \in [RouterOrg -> Nat]
    BY DEF RouterInv, EventsAreBounded
  <2>3. CASE key = <<"system">>
    BY <2>3 DEF BundleKeys
  <2>4. CASE key # <<"system">>
    <3>1. PICK o \in RouterOrg, n \in Nat : key = <<o, n>>
      BY <1>c, <2>1, <2>2, <2>4 DEF KeyIsDue
    <3>. QED BY <3>1 DEF BundleKeys
  <2>. QED BY <2>3, <2>4
<1>5. build \in RouterDecision /\ (build = d \/ (decision[build].pc # "idle" /\ decision[build].key = key))
  <2>1. CASE i = 0
    BY <1>d, <2>1
  <2>2. CASE i # 0
    <3>1. cache[i] \in CachedBundles
      BY <1>2, <1>3, <2>2
    <3>. QED BY <1>3, <1>d, <2>2, <3>1 DEF CachedBundles
  <2>. QED BY <2>1, <2>2
<1>6. PICK r : r = [decision[d] EXCEPT !.pc = "wait", !.build = build]
  OBVIOUS
<1>7. /\ r = [pc |-> "wait", org |-> decision[d].org, key |-> key, build |-> build,
              used |-> decision[d].used, quiet |-> decision[d].quiet]
      /\ r \in DecisionRecord
  <2>1. decision[d] \in DecisionRecord
    BY <1>2
  <2>2. decision[d] = [pc |-> decision[d].pc, org |-> decision[d].org, key |-> decision[d].key,
          build |-> decision[d].build, used |-> decision[d].used, quiet |-> decision[d].quiet]
    BY <2>1 DEF DecisionRecord
  <2>3. PICK r1 : r1 = [decision[d] EXCEPT !.pc = "wait"]
    OBVIOUS
  <2>4. PICK r2 : r2 = [r1 EXCEPT !.build = build]
    OBVIOUS
  <2>5. r1 = [pc |-> "wait", org |-> decision[d].org, key |-> decision[d].key,
          build |-> decision[d].build, used |-> decision[d].used, quiet |-> decision[d].quiet]
    BY <2>2, <2>3
  <2>6. r2 = [pc |-> "wait", org |-> decision[d].org, key |-> key, build |-> build,
          used |-> decision[d].used, quiet |-> decision[d].quiet]
    BY <1>c, <2>4, <2>5
  <2>7. r = r2
    BY <1>6, <2>3, <2>4, Zenon
  <2>. QED BY <1>4, <1>5, <2>1, <2>6, <2>7 DEF DecisionRecord
<1>8. decision' = [decision EXCEPT ![d] = r]
  <2>1. PICK f : f = [decision EXCEPT ![d].pc = "wait"]
    OBVIOUS
  <2>2. PICK r1 : r1 = [decision[d] EXCEPT !.pc = "wait"]
    OBVIOUS
  <2>3. f \in [RouterDecision -> {f[c] : c \in RouterDecision}] /\ f[d] = r1
        /\ \A c \in RouterDecision \ {d} : f[c] = decision[c]
    BY <1>2, <2>1, <2>2
  <2>4. decision' = [f EXCEPT ![d].build = build]
    BY <1>1, <2>1, Zenon
  <2>5. decision' = [f EXCEPT ![d] = [r1 EXCEPT !.build = build]]
    BY <2>3, <2>4, Zenon
  <2>6. r = [r1 EXCEPT !.build = build]
    BY <1>6, <2>2, Zenon
  <2>. QED BY <1>2, <2>3, <2>5, <2>6
<1>9. /\ decision' \in [RouterDecision -> DecisionRecord] /\ decision'[d] = r
      /\ \A c \in RouterDecision \ {d} : decision'[c] = decision[c]
  BY <1>2, <1>7, <1>8
<1>10. /\ builds' \in [RouterDecision -> BuildRecord]
       /\ \A c \in RouterDecision : builds'[c] = builds[c] \/ (c = d /\ builds'[c].status = "running")
  <2>1. PICK s : s = [builds[d] EXCEPT !.status = "running"]
    OBVIOUS
  <2>2. s \in BuildRecord /\ s.status = "running"
    <3>1. builds[d] \in BuildRecord
      BY <1>2
    <3>. QED BY <2>1, <3>1 DEF BuildRecord
  <2>3. builds' = IF i = 0 THEN [builds EXCEPT ![d] = s] ELSE builds
    BY <1>1, <2>1, Zenon
  <2>. QED BY <1>2, <2>2, <2>3
<1>11. KeysStay
  <2>1. /\ decision'[d].pc = "wait" /\ decision'[d].key = decision[d].key
        /\ decision'[d].org = decision[d].org
    BY <1>7, <1>9, <1>c
  <2>. QED BY <1>9, <2>1 DEF KeysStay
<1>12. decision'[build].pc # "idle" /\ decision'[build].key = key
  <2>1. CASE build = d
    <3>1. decision'[d].pc = "wait" /\ decision'[d].key = key
      BY <1>7, <1>9
    <3>. QED BY <2>1, <3>1
  <2>2. CASE build # d
    BY <1>5, <1>11, <2>2 DEF KeysStay
  <2>. QED BY <2>1, <2>2
<1>13. CacheIsOK'
  <2>1. CachedBundles \subseteq CachedBundles'
    BY <1>11, EntriesStay
  <2>2. cache \in Seq(CachedBundles')
    BY <1>2, <2>1
  <2>3. [key |-> key, build |-> build] \in CachedBundles'
    BY <1>4, <1>5, <1>12 DEF CachedBundles
  <2>4. /\ Router!Without(i) \in Seq(CachedBundles')
        /\ Len(Router!Without(i)) = IF i = 0 THEN Len(cache) ELSE Len(cache) - 1
    BY <1>3, <2>2, LeftInCache
  <2>5. Len(cache) \in Nat
    BY <1>2
  <2>6. kept \in Seq(CachedBundles') /\ Len(kept) <= RouterMaxBundles + 1 /\ Len(kept) >= 1
    <3>. PICK t : t = Router!Without(i)
      OBVIOUS
    <3>1. t \in Seq(CachedBundles') /\ Len(t) <= RouterMaxBundles /\ Len(t) \in Nat
      BY <1>2, <2>4, <2>5
    <3>2. kept \in Seq(CachedBundles') /\ Len(kept) = Len(t) + 1
      BY <1>e, <2>3, <3>1
    <3>. QED BY <3>1, <3>2
  <2>7. kept # <<>>
    <3>1. Len(<<>>) = 0
      OBVIOUS
    <3>2. Len(kept) # 0
      BY <2>6
    <3>. QED BY <3>1, <3>2, Zenon
  <2>8. Tail(kept) \in Seq(CachedBundles') /\ Len(Tail(kept)) = Len(kept) - 1
    BY <2>6, <2>7, HeadTailProperties
  <2>9. Len(kept) \in Nat
    BY <2>6
  <2>10. Len(cache') <= RouterMaxBundles /\ cache' \in Seq(CachedBundles')
    <3>1. CASE Len(kept) > RouterMaxBundles
      <4>1. cache' = Tail(kept)
        BY <1>1, <3>1
      <4>2. Len(Tail(kept)) <= RouterMaxBundles
        BY <2>6, <2>8, <2>9
      <4>. QED BY <2>8, <4>1, <4>2
    <3>2. CASE ~ (Len(kept) > RouterMaxBundles)
      <4>1. cache' = kept
        BY <1>1, <3>2
      <4>2. Len(kept) <= RouterMaxBundles
        BY <2>9, <3>2
      <4>. QED BY <2>6, <4>1, <4>2
    <3>. QED BY <3>1, <3>2
  <2>. QED BY <2>10 DEF CacheIsOK
<1>14. DecisionIsOK(d)'
  <2>1. KeyIsDue(d)'
    <3>1. KeyIsDue(d)
      BY <1>1, <1>2 DEF DecisionIsOK
    <3>2. /\ decision'[d].org = decision[d].org /\ decision'[d].key = decision[d].key
          /\ changes' = changes
      BY <1>1, <1>7, <1>9, <1>c
    <3>. QED BY <3>1, <3>2 DEF KeyIsDue
  <2>2. decision'[d].quiet => KeyIsCurrent(d)'
    <3>1. decision[d].quiet => KeyIsCurrent(d)
      BY <1>1, <1>2 DEF DecisionIsOK
    <3>2. /\ decision'[d].org = decision[d].org /\ decision'[d].key = decision[d].key
          /\ decision'[d].quiet = decision[d].quiet /\ changes' = changes /\ write' = write
      BY <1>1, <1>7, <1>9, <1>c
    <3>. QED BY <3>1, <3>2 DEF KeyIsCurrent, Router!BundleKey, Router!Changing
  <2>3. /\ decision'[d].pc = "wait" /\ decision'[d].key = key /\ decision'[d].build = build
    BY <1>7, <1>9
  <2>. QED BY <1>5, <1>12, <2>1, <2>2, <2>3 DEF DecisionIsOK
<1>15. \A c \in RouterDecision : DecisionIsOK(c)'
  BY <1>1, <1>9, <1>11, <1>14, DecisionStaysOK
<1>16. \A c \in RouterDecision : BuildIsOK(c)'
  <2>. SUFFICES ASSUME NEW c \in RouterDecision PROVE BuildIsOK(c)'
    OBVIOUS
  <2>1. CASE builds'[c] = builds[c]
    BY <1>1, <1>11, <2>1, BuildStaysOK
  <2>2. CASE c = d /\ builds'[c].status = "running"
    <3>1. decision'[d].pc # "idle"
      BY <1>7, <1>9
    <3>. QED BY <2>2, <3>1 DEF BuildIsOK
  <2>. QED BY <1>10, <2>1, <2>2
<1>17. RouterInv'
  BY <1>1, <1>9, <1>10, <1>11, <1>13, <1>15, <1>16, DecisionGoesOn
<1>18. Router!DecidesByTheRows
  BY <1>1, <1>7, <1>9 DEF Router!DecidesByTheRows
<1>. QED BY <1>17, <1>18

LEMMA BuildStep ==
  ASSUME RouterInv, NEW d \in RouterDecision, Router!Build(d)
  PROVE  RouterInv' /\ Router!DecidesByTheRows
<1>. USE RouterConstants
<1>. PICK o : o = decision[d].org
  OBVIOUS
<1>. PICK p : p = IF o = None THEN Router!NoRows ELSE rows[o]
  OBVIOUS
<1>1. /\ builds[d].status = "running"
      /\ builds' = [builds EXCEPT ![d] = [status |-> "ready", policies |-> p]]
      /\ contested' = IF o # None /\ (Router!Changing(o) \/ decision[d].key # Router!BundleKey(o, changes[o]))
                        THEN contested \cup {decision[d].key} ELSE contested
      /\ UNCHANGED <<rows, changes, cache, decision, write>>
  BY Zenon DEF Router!Build
<1>2. /\ decision \in [RouterDecision -> DecisionRecord]
      /\ builds \in [RouterDecision -> BuildRecord]
      /\ rows \in [RouterOrg -> Router!OrgRows]
      /\ changes \in [RouterOrg -> Nat]
      /\ DecisionIsOK(d) /\ BuildIsOK(d) /\ RowsAreTold
  BY DEF RouterInv, RouterTyped, EventsAreBounded
<1>3. o \in RouterOrg \cup {None}
  BY <1>2 DEF DecisionRecord
<1>4. p \in Router!OrgRows
  BY <1>2, <1>3 DEF Router!OrgRows, Router!NoRows
<1>5. /\ builds' \in [RouterDecision -> BuildRecord]
      /\ builds'[d] = [status |-> "ready", policies |-> p]
      /\ \A c \in RouterDecision \ {d} : builds'[c] = builds[c]
  BY <1>1, <1>2, <1>4 DEF BuildRecord
<1>6. KeysStay
  BY <1>1 DEF KeysStay
<1>7. \A c \in RouterDecision : DecisionIsOK(c)'
  BY <1>1, <1>6, DecisionStaysOK
<1>8. KeyIsDue(d) /\ decision[d].pc # "idle"
  BY <1>1, <1>2 DEF BuildIsOK, DecisionIsOK
<1>9. decision[d].key \notin contested' =>
        \/ o = None /\ decision[d].key = <<"system">> /\ p = Router!NoRows
        \/ /\ o \in RouterOrg /\ decision[d].key = Router!BundleKey(o, changes[o])
           /\ ~ Router!Changing(o) /\ p = rows[o]
  BY <1>1, <1>3, <1>8 DEF KeyIsDue
<1>10. BuildIsOK(d)'
  <2>. SUFFICES ASSUME decision[d].key \notin contested'
                PROVE  /\ decision[d].key = <<"system">> => p = Router!NoRows
                       /\ \A q \in RouterOrg : decision[d].key = <<q, changes[q]>> => p = rows[q]
    BY <1>1, <1>5, <1>8 DEF BuildIsOK, Router!NoRows
  <2>1. CASE o = None /\ decision[d].key = <<"system">> /\ p = Router!NoRows
    BY <2>1, KeysDiffer
  <2>2. CASE /\ o \in RouterOrg /\ decision[d].key = Router!BundleKey(o, changes[o])
             /\ ~ Router!Changing(o) /\ p = rows[o]
    <3>1. CASE changes[o] = 0
      <4>1. p = Router!NoRows /\ decision[d].key = <<"system">>
        BY <1>2, <2>2, <3>1 DEF RowsAreTold, Router!BundleKey
      <4>. QED BY <4>1, KeysDiffer
    <3>2. CASE changes[o] # 0
      <4>1. decision[d].key = <<o, changes[o]>>
        BY <2>2, <3>2 DEF Router!BundleKey
      <4>. QED BY <2>2, <4>1, KeysDiffer
    <3>. QED BY <3>1, <3>2
  <2>. QED BY <1>9, <2>1, <2>2
<1>11. \A c \in RouterDecision : BuildIsOK(c)'
  <2>1. contested \subseteq contested'
    BY <1>1
  <2>. QED BY <1>1, <1>5, <1>6, <1>10, <2>1, BuildStaysOK
<1>12. CacheIsOK'
  BY <1>1, <1>6, CacheStays
<1>13. RouterInv'
  BY <1>1, <1>2, <1>5, <1>6, <1>7, <1>11, <1>12, DecisionGoesOn
<1>14. Router!DecidesByTheRows
  BY <1>1 DEF Router!DecidesByTheRows
<1>. QED BY <1>13, <1>14

LEMMA BuildFailsStep ==
  ASSUME RouterInv, NEW d \in RouterDecision, Router!BuildFails(d)
  PROVE  RouterInv' /\ Router!DecidesByTheRows
<1>a. PICK I : I = {j \in 1..Len(cache) : cache[j].build = d}
  OBVIOUS
<1>b. PICK i : i = IF I # {} THEN Router!Min(I) ELSE 0
  OBVIOUS
<1>1. /\ builds[d].status = "running"
      /\ builds' = [builds EXCEPT ![d].status = "failed"]
      /\ cache' = Router!Without(i)
      /\ UNCHANGED <<rows, changes, decision, write, contested>>
  BY <1>a, <1>b, Zenon DEF Router!BuildFails, Router!SelectInSeq
<1>2. /\ decision \in [RouterDecision -> DecisionRecord]
      /\ builds \in [RouterDecision -> BuildRecord]
      /\ cache \in Seq(CachedBundles) /\ Len(cache) <= RouterMaxBundles
      /\ BuildIsOK(d)
  BY DEF RouterInv, RouterTyped, CacheIsOK
<1>3. i = 0 \/ (i \in DOMAIN cache /\ i # 0)
  <2>1. I \in SUBSET (1..Len(cache)) /\ Len(cache) \in Nat /\ DOMAIN cache = 1..Len(cache)
    BY <1>2, <1>a
  <2>. QED BY <1>b, <2>1, FoundIs
<1>4. PICK s : s = [builds[d] EXCEPT !.status = "failed"]
  OBVIOUS
<1>5. s \in BuildRecord /\ s.status = "failed"
  <2>1. builds[d] \in BuildRecord
    BY <1>2
  <2>. QED BY <1>4, <2>1 DEF BuildRecord
<1>6. builds' = [builds EXCEPT ![d] = s]
  BY <1>1, <1>4, Zenon
<1>7. KeysStay
  BY <1>1 DEF KeysStay
<1>8. CacheIsOK'
  <2>1. CachedBundles' = CachedBundles
    BY <1>1 DEF CachedBundles
  <2>2. /\ Router!Without(i) \in Seq(CachedBundles)
        /\ Len(Router!Without(i)) = IF i = 0 THEN Len(cache) ELSE Len(cache) - 1
    BY <1>2, <1>3, LeftInCache
  <2>3. Len(cache) \in Nat
    BY <1>2
  <2>4. Len(cache') <= RouterMaxBundles
    BY <1>1, <1>2, <2>2, <2>3, RouterConstants
  <2>. QED BY <1>1, <2>1, <2>2, <2>4 DEF CacheIsOK
<1>9. \A c \in RouterDecision : DecisionIsOK(c)'
  BY <1>1, <1>7, DecisionStaysOK
<1>10. \A c \in RouterDecision : BuildIsOK(c)'
  <2>. SUFFICES ASSUME NEW c \in RouterDecision PROVE BuildIsOK(c)'
    OBVIOUS
  <2>1. CASE c # d
    BY <1>1, <1>2, <1>6, <1>7, <2>1, BuildStaysOK
  <2>2. CASE c = d
    <3>1. builds'[d].status = "failed"
      BY <1>2, <1>5, <1>6
    <3>. QED BY <1>1, <1>2, <2>2, <3>1 DEF BuildIsOK
  <2>. QED BY <2>1, <2>2
<1>11. builds' \in [RouterDecision -> BuildRecord]
  BY <1>2, <1>5, <1>6
<1>12. RouterInv'
  BY <1>1, <1>2, <1>7, <1>8, <1>9, <1>10, <1>11, DecisionGoesOn
<1>13. Router!DecidesByTheRows
  BY <1>1 DEF Router!DecidesByTheRows
<1>. QED BY <1>12, <1>13

LEMMA AuthorizeStep ==
  ASSUME RouterInv, NEW d \in RouterDecision, Router!Authorize(d)
  PROVE  RouterInv' /\ Router!DecidesByTheRows
<1>. USE RouterConstants
<1>. PICK b : b = decision[d].build
  OBVIOUS
<1>1. /\ decision[d].pc = "wait" /\ builds[b].status \in {"ready", "failed"}
      /\ decision' = [decision EXCEPT ![d].used = builds[b].policies,
           ![d].pc = IF builds[b].status = "ready" THEN "done" ELSE "threw"]
      /\ UNCHANGED <<rows, changes, cache, builds, write, contested>>
  BY Zenon DEF Router!Authorize
<1>. PICK place \in {"done", "threw"} : place = IF builds[b].status = "ready" THEN "done" ELSE "threw"
  OBVIOUS
<1>2. /\ decision \in [RouterDecision -> DecisionRecord]
      /\ builds \in [RouterDecision -> BuildRecord]
      /\ DecisionIsOK(d)
  BY DEF RouterInv, RouterTyped
<1>3. b \in RouterDecision /\ decision[b].pc # "idle" /\ decision[b].key = decision[d].key
  BY <1>1, <1>2 DEF DecisionIsOK
<1>4. BuildIsOK(b)
  BY <1>3 DEF RouterInv
<1>5. PICK r : r = [decision[d] EXCEPT !.used = builds[b].policies, !.pc = place]
  OBVIOUS
<1>6. /\ r = [pc |-> place, org |-> decision[d].org, key |-> decision[d].key, build |-> b,
              used |-> builds[b].policies, quiet |-> decision[d].quiet]
      /\ r \in DecisionRecord
  <2>1. decision[d] \in DecisionRecord /\ builds[b].policies \in Router!OrgRows
    BY <1>2, <1>3 DEF BuildRecord
  <2>2. decision[d] = [pc |-> decision[d].pc, org |-> decision[d].org, key |-> decision[d].key,
          build |-> b, used |-> decision[d].used, quiet |-> decision[d].quiet]
    BY <2>1 DEF DecisionRecord
  <2>3. PICK r1 : r1 = [decision[d] EXCEPT !.used = builds[b].policies]
    OBVIOUS
  <2>4. PICK r2 : r2 = [r1 EXCEPT !.pc = place]
    OBVIOUS
  <2>5. r1 = [pc |-> decision[d].pc, org |-> decision[d].org, key |-> decision[d].key,
          build |-> b, used |-> builds[b].policies, quiet |-> decision[d].quiet]
    BY <2>2, <2>3
  <2>6. r2 = [pc |-> place, org |-> decision[d].org, key |-> decision[d].key, build |-> b,
          used |-> builds[b].policies, quiet |-> decision[d].quiet]
    BY <2>4, <2>5
  <2>7. r = r2
    BY <1>5, <2>3, <2>4, Zenon
  <2>. QED BY <2>1, <2>6, <2>7 DEF DecisionRecord
<1>7. decision' = [decision EXCEPT ![d] = r]
  <2>1. PICK f : f = [decision EXCEPT ![d].used = builds[b].policies]
    OBVIOUS
  <2>2. PICK r1 : r1 = [decision[d] EXCEPT !.used = builds[b].policies]
    OBVIOUS
  <2>3. f \in [RouterDecision -> {f[c] : c \in RouterDecision}] /\ f[d] = r1
        /\ \A c \in RouterDecision \ {d} : f[c] = decision[c]
    BY <1>2, <2>1, <2>2
  <2>4. decision' = [f EXCEPT ![d].pc = place]
    BY <1>1, <2>1, Zenon
  <2>5. decision' = [f EXCEPT ![d] = [r1 EXCEPT !.pc = place]]
    BY <2>3, <2>4, Zenon
  <2>6. r = [r1 EXCEPT !.pc = place]
    BY <1>5, <2>2, Zenon
  <2>. QED BY <1>2, <2>3, <2>5, <2>6
<1>8. /\ decision' \in [RouterDecision -> DecisionRecord] /\ decision'[d] = r
      /\ \A c \in RouterDecision \ {d} : decision'[c] = decision[c]
  BY <1>2, <1>6, <1>7
<1>9. KeysStay
  BY <1>6, <1>8 DEF KeysStay
<1>10. DecisionIsOK(d)'
  <2>1. KeyIsDue(d)
    BY <1>1, <1>2, SMTT(30) DEF DecisionIsOK
  <2>2. KeyIsDue(d)'
    BY <1>1, <1>6, <1>8, <2>1 DEF KeyIsDue
  <2>. QED BY <1>6, <1>8, <2>2 DEF DecisionIsOK
<1>11. \A c \in RouterDecision : DecisionIsOK(c)'
  BY <1>1, <1>8, <1>9, <1>10, DecisionStaysOK
<1>12. \A c \in RouterDecision : BuildIsOK(c)'
  BY <1>1, <1>9, BuildStaysOK
<1>13. CacheIsOK'
  BY <1>1, <1>9, CacheStays
<1>14. RouterInv'
  BY <1>1, <1>2, <1>8, <1>9, <1>11, <1>12, <1>13, DecisionGoesOn
<1>15. Router!DecidesByTheRows
  <2>. SUFFICES ASSUME place = "done", decision[d].quiet, decision[d].key \notin contested
                PROVE  builds[b].policies =
                         IF decision[d].org = None THEN Router!NoRows ELSE rows[decision[d].org]
    BY <1>1, <1>6, <1>8 DEF Router!DecidesByTheRows
  <2>1. builds[b].status = "ready" /\ decision[b].key \notin contested
    BY <1>3
  <2>2. KeyIsDue(d) /\ KeyIsCurrent(d)
    BY <1>1, <1>2 DEF DecisionIsOK
  <2>3. CASE decision[d].org = None
    <3>1. decision[b].key = <<"system">>
      BY <1>3, <2>2, <2>3 DEF KeyIsDue
    <3>. QED BY <1>4, <2>1, <2>3, <3>1 DEF BuildIsOK
  <2>4. CASE decision[d].org # None
    <3>. PICK o \in RouterOrg : o = decision[d].org
      BY <1>2, <2>4 DEF DecisionRecord
    <3>1. decision[b].key = Router!BundleKey(o, changes[o]) /\ ~ Router!Changing(o)
      BY <1>3, <2>2, <2>4 DEF KeyIsCurrent
    <3>2. CASE changes[o] = 0
      <4>1. decision[b].key = <<"system">> /\ rows[o] = Router!NoRows
        BY <3>1, <3>2 DEF Router!BundleKey, RouterInv, RowsAreTold
      <4>2. builds[b].policies = Router!NoRows
        BY <1>4, <2>1, <4>1 DEF BuildIsOK
      <4>. QED BY <2>4, <4>1, <4>2
    <3>3. CASE changes[o] # 0
      <4>1. decision[b].key = <<o, changes[o]>>
        BY <3>1, <3>3 DEF Router!BundleKey
      <4>2. builds[b].policies = rows[o]
        BY <1>4, <2>1, <3>1, <4>1 DEF BuildIsOK
      <4>. QED BY <2>4, <4>2
    <3>. QED BY <3>2, <3>3
  <2>. QED BY <2>3, <2>4
<1>. QED BY <1>14, <1>15

LEMMA RouterStep ==
  ASSUME RouterInv, Router!Next
  PROVE  RouterInv' /\ Router!DecidesByTheRows
<1>1. ASSUME NEW w \in RouterWrite,
             \/ \E o \in RouterOrg, kind \in Router!Kinds : Router!Find(w, o, kind)
             \/ \E text \in RouterTexts : Router!Change(w, text) \/ Router!Create(w, text)
             \/ Router!AppendChange(w) \/ Router!WriteFails(w)
      PROVE  RouterInv' /\ Router!DecidesByTheRows
  BY <1>1, FindStep, RouterWriteStep, WriteFailsStep
<1>2. ASSUME NEW d \in RouterDecision,
             \/ \E o \in RouterOrg \cup {None} : Router!KeyFor(d, o)
             \/ Router!Lookup(d) \/ Router!Build(d) \/ Router!BuildFails(d) \/ Router!Authorize(d)
      PROVE  RouterInv' /\ Router!DecidesByTheRows
  BY <1>2, KeyForStep, LookupStep, BuildStep, BuildFailsStep, AuthorizeStep
<1>. QED BY <1>1, <1>2 DEF Router!Next

\* An edit takes effect with the next decision, and no organization is decided by another's
\* policies: a decision that no write disturbs and whose key no build contested goes by the rows
\* there are, however bundles are shared, rebuilt and dropped (authorize, authzBundleKey).
THEOREM DecisionsAreCurrent == Spec => QuietDecisionsAreCurrent
<1> DEFINE Inv == part = "router" => RouterInv
           Act == part = "router" => Router!TypeOK /\ Router!DecidesByTheRows
<1>1. Init => Inv
  BY RouterInit DEF Init
<1>2. Inv /\ [Next]_vars => Inv' /\ [Act]_vars
  <2>1. CASE UNCHANGED vars
    <3>1. Inv => Inv'
      <4>. SUFFICES ASSUME part = "router", RouterInv, UNCHANGED vars
                    PROVE  RouterInv'
        BY <2>1 DEF vars
      <4>1. UNCHANGED RouterVars
        BY DEF vars
      <4>. QED BY <4>1 DEF RouterVars, RouterInv, RouterTyped, WritesAreOK, EventsAreBounded,
             CacheIsOK, CachedBundles, RowsAreTold, DecisionIsOK, BuildIsOK, KeyIsDue, KeyIsCurrent,
             Router!NoRows, Router!BundleKey, Router!Changing, DoneWrites
    <3>. QED BY <2>1, <3>1
  <2>2. CASE Next
    <3>. SUFFICES ASSUME part = "router", RouterInv
                  PROVE  RouterInv' /\ Router!TypeOK /\ Router!DecidesByTheRows
      BY <2>2 DEF Next
    <3>1. Router!Next
      BY <2>2 DEF Next
    <3>. QED BY <3>1, RouterStep, RouterTypes
  <2>. QED BY <2>1, <2>2
<1>3. Inv /\ [Next]_vars => Inv'
  BY <1>2
<1>4. Inv /\ [Next]_vars => [Act]_vars
  BY <1>2
<1>. QED BY <1>1, <1>3, <1>4, PTL DEF Spec, QuietDecisionsAreCurrent

----------------------------------------------------------------------------
(* Wheres.                                                                 *)

\* What follows from nodes that are joined from left to right, member by member: held[i] is what
\* the nodes to i say.
JoinedBy(m, or, f) ==
  [i \in 0..Len(m) |-> IF i = 0 THEN TRUE
                       ELSE IF i = 1 THEN m[1]
                       ELSE IF or[i] THEN f[i - 1] \/ m[i] ELSE f[i - 1] /\ m[i]]

Held(m, or, i) ==
  \/ i = 0
  \/ \E k \in 1..i : /\ k = 1 \/ or[k]
                     /\ m[k]
                     /\ \A j \in (k + 1)..i : or[j] \/ m[j]

LEMMA HeldStep ==
  ASSUME NEW m \in Seq(BOOLEAN), NEW or \in [1..Len(m) -> BOOLEAN], NEW i \in 2..Len(m)
  PROVE  Held(m, or, i) <=> IF or[i] THEN Held(m, or, i - 1) \/ m[i] ELSE Held(m, or, i - 1) /\ m[i]
<1>1. m[i] \in BOOLEAN /\ or[i] \in BOOLEAN
  OBVIOUS
<1>2. ASSUME Held(m, or, i)
      PROVE  IF or[i] THEN Held(m, or, i - 1) \/ m[i] ELSE Held(m, or, i - 1) /\ m[i]
  <2>1. PICK k \in 1..i : (k = 1 \/ or[k]) /\ m[k] /\ \A j \in (k + 1)..i : or[j] \/ m[j]
    BY <1>2 DEF Held
  <2>2. CASE k = i
    BY <2>1, <2>2
  <2>3. CASE k # i
    <3>1. k \in 1..(i - 1) /\ (or[i] \/ m[i])
      BY <2>1, <2>3
    <3>2. \A j \in (k + 1)..(i - 1) : or[j] \/ m[j]
      BY <2>1
    <3>3. Held(m, or, i - 1)
      BY <2>1, <2>3, <3>2 DEF Held
    <3>. QED BY <2>1, <2>3, <3>3
  <2>. QED BY <2>2, <2>3
<1>3. ASSUME m[i], or[i]
      PROVE  Held(m, or, i)
  <2>1. \A j \in (i + 1)..i : or[j] \/ m[j]
    OBVIOUS
  <2>. QED BY <1>3, <2>1 DEF Held
<1>4. ASSUME Held(m, or, i - 1), or[i] \/ m[i]
      PROVE  Held(m, or, i)
  <2>1. PICK k \in 1..(i - 1) : (k = 1 \/ or[k]) /\ m[k] /\ \A j \in (k + 1)..(i - 1) : or[j] \/ m[j]
    BY <1>4 DEF Held
  <2>2. \A j \in (k + 1)..i : or[j] \/ m[j]
    <3>1. \A j \in (k + 1)..i : j = i \/ j \in (k + 1)..(i - 1)
      OBVIOUS
    <3>. QED BY <1>4, <2>1, <3>1
  <2>3. k \in 1..i
    OBVIOUS
  <2>. QED BY <2>1, <2>2, <2>3 DEF Held
<1>. QED BY <1>1, <1>2, <1>3, <1>4

LEMMA HeldIsJoined ==
  ASSUME NEW m \in Seq(BOOLEAN), NEW or \in [1..Len(m) -> BOOLEAN]
  PROVE  (CHOOSE f : f = JoinedBy(m, or, f))[Len(m)] = Held(m, or, Len(m))
<1> DEFINE n == Len(m)
           g == [i \in 0..n |-> Held(m, or, i)]
           f == CHOOSE x : x = JoinedBy(m, or, x)
<1>1. n \in Nat
  OBVIOUS
<1>2. \A i \in 0..n : Held(m, or, i) \in BOOLEAN
  BY DEF Held
<1>3. ASSUME NEW i \in 0..n
      PROVE  g[i] = JoinedBy(m, or, g)[i]
  <2>1. CASE i = 0
    BY <1>1, <2>1 DEF Held, JoinedBy
  <2>2. CASE i = 1
    <3>1. Held(m, or, 1) = m[1]
      <4>1. m[1] \in BOOLEAN
        BY <2>2
      <4>2. Held(m, or, 1) <=> \E k \in 1..1 : /\ k = 1 \/ or[k]
                                             /\ m[k]
                                             /\ \A j \in (k + 1)..1 : or[j] \/ m[j]
        BY DEF Held
      <4>3. \A k \in 1..1 : k = 1
        OBVIOUS
      <4>4. 1 \in 1..1 /\ \A j \in (1 + 1)..1 : FALSE
        OBVIOUS
      <4>5. CASE m[1] = TRUE
        <5>1. m[1] /\ (1 = 1 \/ or[1])
          BY <4>5
        <5>2. Held(m, or, 1)
          BY <4>2, <4>4, <5>1, Zenon
        <5>. QED BY <4>5, <5>2 DEF Held
      <4>6. CASE m[1] = FALSE
        <5>1. ~ Held(m, or, 1)
          BY <4>2, <4>3, <4>6
        <5>. QED BY <4>6, <5>1 DEF Held
      <4>. QED BY <4>1, <4>5, <4>6
    <3>. QED BY <2>2, <3>1 DEF JoinedBy
  <2>3. CASE i \in 2..n
    <3>1. g[i] = Held(m, or, i) /\ g[i - 1] = Held(m, or, i - 1)
      BY <2>3
    <3>2. JoinedBy(m, or, g)[i] = IF or[i] THEN g[i - 1] \/ m[i] ELSE g[i - 1] /\ m[i]
      BY <1>1, <2>3 DEF JoinedBy
    <3>3. m[i] \in BOOLEAN /\ or[i] \in BOOLEAN
      BY <2>3
    <3>. HIDE DEF g
    <3>. QED BY <1>2, <2>3, <3>1, <3>2, <3>3, HeldStep
  <2>. QED BY <1>1, <2>1, <2>2, <2>3
<1>4. g = JoinedBy(m, or, g)
  BY <1>3 DEF JoinedBy
<1>5. f = JoinedBy(m, or, f)
  <2>. HIDE DEF g
  <2>. QED BY <1>4
<1>6. \A i \in 0..n : f[i] = g[i]
  <2> DEFINE Wrong == {i \in 0..n : f[i] # g[i]}
  <2>1. SUFFICES ASSUME Wrong # {} PROVE FALSE
    OBVIOUS
  <2>2. PICK i \in Wrong : \A j \in Wrong : i <= j
    <3>1. Wrong \in SUBSET Nat
      BY <1>1
    <3>. HIDE DEF Wrong
    <3>. QED BY <2>1, <3>1, LeastOf
  <2>3. i \in 0..n /\ f[i] # g[i]
    OBVIOUS
  <2>. HIDE DEF f, g
  <2>4. i > 1 => f[i - 1] = g[i - 1]
    BY <1>1, <2>2, <2>3
  <2>5. f[i] = JoinedBy(m, or, f)[i] /\ g[i] = JoinedBy(m, or, g)[i]
    BY <1>4, <1>5
  <2>6. JoinedBy(m, or, f)[i] = JoinedBy(m, or, g)[i]
    <3>1. CASE i = 0 \/ i = 1
      BY <1>1, <2>3, <3>1 DEF JoinedBy
    <3>2. CASE i > 1
      <4>1. /\ JoinedBy(m, or, f)[i] = IF or[i] THEN f[i - 1] \/ m[i] ELSE f[i - 1] /\ m[i]
            /\ JoinedBy(m, or, g)[i] = IF or[i] THEN g[i - 1] \/ m[i] ELSE g[i - 1] /\ m[i]
        <5>1. i # 0 /\ i # 1
          BY <3>2
        <5>. QED BY <2>3, <5>1, Zenon DEF JoinedBy
      <4>2. f[i - 1] = g[i - 1]
        BY <2>4, <3>2
      <4>. QED BY <4>1, <4>2, Zenon
    <3>. QED BY <1>1, <2>3, <3>1, <3>2
  <2>. QED BY <2>3, <2>5, <2>6
<1>. QED BY <1>1, <1>6

\* What a column, a clause and what it asks for can be.
Asks(row, clause) ==
  LET v == row[clause.field]  w == clause.value
  IN  /\ WhereNull # WhereAbsent
      /\ clause.op \in {"eq", "ne", "in", "not_in", "contains", "lt", "lte", "gt", "gte"}
      /\ Where!Plain(v) <=> v \notin {WhereNull, WhereAbsent}
      /\ clause.op \in {"in", "not_in"} => w # WhereNull /\ WhereNull \notin w /\ WhereAbsent \notin w
      /\ clause.op \notin {"in", "not_in"} => w # WhereAbsent /\ (Where!Plain(w) <=> w # WhereNull)
      /\ clause.op \notin {"eq", "ne"} => w # WhereNull
      /\ Where!Plain(v) => v \in Where!Values
      /\ clause.op \in {"in", "not_in"} => w \subseteq Where!Values
      /\ clause.op \notin {"in", "not_in"} /\ w # WhereNull => w \in Where!Values

LEMMA ClauseAsks ==
  ASSUME NEW row, NEW clause, NEW adapter,
         Where!IsClause(clause),
         row[clause.field] \in Where!Values \cup {WhereNull, WhereAbsent},
         ~ Where!Unclear(adapter, row, clause)
  PROVE  Asks(row, clause)
<1> DEFINE v == row[clause.field]
           w == clause.value
           op == clause.op
           list == op \in {"in", "not_in"}
<1>1. /\ WhereNull # WhereAbsent /\ WhereNull \notin Where!Values /\ WhereAbsent \notin Where!Values
  BY WhereWhereAssumption DEF Where!WhereAssumption
<1>2. /\ list => w \in SUBSET Where!Values /\ w # WhereNull
      /\ ~ list => w \in Where!Values \cup {WhereNull}
  BY DEF Where!IsClause
<1>3. w = WhereNull => op \in {"eq", "ne"}
  BY <1>2 DEF Where!Unclear
<1>4. op \in {"eq", "ne", "in", "not_in", "contains", "lt", "lte", "gt", "gte"}
  BY DEF Where!IsClause, Where!Orders
<1>5. Where!Plain(v) <=> v \notin {WhereNull, WhereAbsent}
  BY DEF Where!Plain
<1>6. ~ list => w # WhereAbsent /\ (Where!Plain(w) <=> w # WhereNull)
  BY <1>1, <1>2 DEF Where!Plain
<1>7. list => WhereNull \notin w /\ WhereAbsent \notin w
  BY <1>1, <1>2
<1>8. /\ Where!Plain(v) => v \in Where!Values
      /\ list => w \subseteq Where!Values
      /\ ~ list /\ w # WhereNull => w \in Where!Values
  BY <1>2, <1>5
<1>. QED BY <1>1, <1>2, <1>3, <1>4, <1>5, <1>6, <1>7, <1>8 DEF Asks

LEMMA MemoryIsMeant ==
  ASSUME NEW row, NEW clause, Asks(row, clause),
         ~ Where!Unclear(<<"memory", "memory">>, row, clause)
  PROVE  Where!MemoryHolds(row[clause.field], clause) <=> Where!Meant(row, clause)
<1> DEFINE v == row[clause.field]
           w == clause.value
           op == clause.op
           orders == {"lt", "lte", "gt", "gte"}
<1>0. op \in {"eq", "ne", "in", "not_in", "contains"} \cup orders
  BY DEF Asks
<1>1. CASE op = "eq"
  BY <1>1 DEF Asks, Where!MemoryHolds, Where!Unclear, Where!Meant, Where!Orders
<1>2. CASE op = "ne"
  BY <1>2 DEF Asks, Where!MemoryHolds, Where!Unclear, Where!Meant, Where!Orders
<1>3. CASE op = "in"
  BY <1>3 DEF Asks, Where!MemoryHolds, Where!Unclear, Where!Meant, Where!Orders
<1>4. CASE op = "not_in"
  BY <1>4 DEF Asks, Where!MemoryHolds, Where!Unclear, Where!Meant, Where!Orders
<1>5. CASE op = "contains"
  BY <1>5 DEF Asks, Where!MemoryHolds, Where!Unclear, Where!Meant, Where!Orders
<1>6. CASE op \in orders
  BY <1>6 DEF Asks, Where!MemoryHolds, Where!Unclear, Where!Meant, Where!Orders
<1>. QED BY <1>0, <1>1, <1>2, <1>3, <1>4, <1>5, <1>6

\* Where the case does not decide, text is ordered as by code unit.
LEMMA OrderIsMeant ==
  ASSUME NEW v \in Where!Values, NEW w \in Where!Values, v.upper = w.upper,
         NEW op \in {"lt", "lte", "gt", "gte"}, NEW collation \in {"code", "locale", "no case"}
  PROVE  Where!Compare(op, v, w, collation) <=> Where!Compare(op, v, w, "code")
<1>1. v.upper \in BOOLEAN /\ w.upper \in BOOLEAN
  BY DEF Where!Values
<1>2. ASSUME NEW c \in {"code", "locale", "no case"}
      PROVE  (Where!Before(v, w, c) <=> v.n < w.n) /\ (Where!Before(w, v, c) <=> w.n < v.n)
  <2>1. CASE c = "code"
    BY <1>1, <2>1 DEF Where!Before
  <2>2. CASE c = "locale"
    BY <1>1, <2>2 DEF Where!Before
  <2>3. CASE c = "no case"
    BY <2>3 DEF Where!Before
  <2>. QED BY <2>1, <2>2, <2>3
<1>3. /\ Where!Before(v, w, collation) <=> Where!Before(v, w, "code")
      /\ Where!Before(w, v, collation) <=> Where!Before(w, v, "code")
  BY <1>2
<1>. QED BY <1>3 DEF Where!Compare

LEMMA SqlIsMeant ==
  ASSUME NEW row, NEW clause, Asks(row, clause), Where!IsClause(clause),
         NEW database \in {"sqlite", "postgres", "mysql"},
         ~ (clause.op \in Where!Folded(database) /\ Where!CaseDecides(row[clause.field], clause)),
         NEW column, column = IF row[clause.field] = WhereAbsent THEN WhereNull ELSE row[clause.field]
  PROVE  Where!SqlHolds(column, clause, database) <=> Where!Meant(row, clause)
<1> DEFINE v == row[clause.field]
           w == clause.value
           op == clause.op
           orders == {"lt", "lte", "gt", "gte"}
<1>0. op \in {"eq", "ne", "in", "not_in", "contains"} \cup orders
  BY DEF Asks
<1>1. CASE w = WhereNull
  <2>1. op \in {"eq", "ne"} /\ (column = WhereNull <=> ~ Where!Plain(v))
    BY <1>1 DEF Asks
  <2>2. /\ op = "eq" => (Where!SqlHolds(column, clause, database) <=> column = WhereNull)
        /\ op = "ne" => (Where!SqlHolds(column, clause, database) <=> column # WhereNull)
    BY <1>1 DEF Where!SqlHolds
  <2>3. CASE op = "eq"
    <3>1. Where!Meant(row, clause) <=> ~ Where!Plain(v)
      BY <1>1, <2>3 DEF Where!Meant, Where!Orders
    <3>. QED BY <2>1, <2>2, <2>3, <3>1
  <2>4. CASE op = "ne"
    <3>1. Where!Meant(row, clause) <=> Where!Plain(v)
      BY <1>1, <2>4 DEF Where!Meant, Where!Orders
    <3>. QED BY <2>1, <2>2, <2>4, <3>1
  <2>. QED BY <2>1, <2>3, <2>4
<1>2. CASE w # WhereNull /\ ~ Where!Plain(v)
  <2>1. v \in {WhereNull, WhereAbsent} /\ column = WhereNull
    BY <1>2 DEF Asks
  <2>2. op = "in" => \A x \in w : v # x
    BY <2>1 DEF Asks
  <2>4. Where!SqlHolds(column, clause, database) <=> (op = "not_in" /\ w = {})
    BY <1>2, <2>1 DEF Where!SqlHolds
  <2>5. Where!Meant(row, clause) <=> (op = "not_in" /\ w = {})
    BY <1>0, <1>2, <2>2 DEF Where!Meant, Where!Orders
  <2>. QED BY <2>4, <2>5
<1>3. CASE w # WhereNull /\ Where!Plain(v)
  <2>1. column = v /\ v # WhereNull /\ v # WhereAbsent /\ v \in Where!Values
    BY <1>3 DEF Asks
  <2>2. /\ clause.mode \in {"sensitive", "insensitive"}
        /\ clause.mode = "insensitive" => op \in {"eq", "ne", "contains"}
    BY DEF Where!IsClause
  <2> DEFINE like == Where!Like(column, clause, Where!FoldsLike(database))
             equal == Where!Equal(column, w, clause.mode, database)
             listed == \E x \in w : Where!Equal(column, x, "sensitive", database)
             ordered == Where!Compare(op, column, w, Where!Collation(database))
  <2>0. /\ op = "eq" => (Where!SqlHolds(column, clause, database) <=> equal)
        /\ op = "ne" => (Where!SqlHolds(column, clause, database) <=> ~ equal)
        /\ op = "in" => (Where!SqlHolds(column, clause, database) <=> listed)
        /\ op = "not_in" => (Where!SqlHolds(column, clause, database) <=> (w = {} \/ ~ listed))
        /\ op = "contains" => (Where!SqlHolds(column, clause, database) <=> like)
        /\ op \in orders => (Where!SqlHolds(column, clause, database) <=> ordered)
    BY <1>3, <2>1 DEF Where!SqlHolds, Where!Orders
  <2>7. /\ op = "eq" => (Where!Meant(row, clause) <=> Where!Same(v, w, clause.mode))
        /\ op = "ne" => (Where!Meant(row, clause) <=> ~ Where!Same(v, w, clause.mode))
        /\ op = "in" => (Where!Meant(row, clause) <=> \E x \in w : v = x)
        /\ op = "not_in" => (Where!Meant(row, clause) <=> (w = {} \/ \A x \in w : v # x))
        /\ op = "contains" => (Where!Meant(row, clause) <=> Where!Like(v, clause, FALSE))
        /\ op \in orders => (Where!Meant(row, clause) <=> Where!Compare(op, v, w, "code"))
    BY <1>3 DEF Where!Meant, Where!Orders
  <2>3. CASE op \in {"eq", "ne"}
    <3>1. database = "mysql" /\ clause.mode = "sensitive" => v.upper = w.upper
      BY <1>3, <2>3 DEF Asks, Where!Folded, Where!CaseDecides, Where!Asked
    <3>2. Where!Equal(v, w, clause.mode, database) <=> Where!Same(v, w, clause.mode)
      BY <2>2, <3>1 DEF Where!Equal, Where!Same
    <3>3. equal <=> Where!Same(v, w, clause.mode)
      BY <2>1, <3>2
    <3>. HIDE DEF equal
    <3>. QED BY <2>0, <2>3, <2>7, <3>3
  <2>4. CASE op \in {"in", "not_in"}
    <3>1. ASSUME NEW x \in w PROVE Where!Equal(v, x, "sensitive", database) <=> v = x
      <4>1. x \in Where!Values
        BY <2>4 DEF Asks
      <4>2. clause.mode = "sensitive"
        BY <2>2, <2>4
      <4>3. database = "mysql" => v.upper = x.upper
        <5>1. Where!Plain(x)
          BY <2>4 DEF Asks, Where!Plain
        <5>. QED BY <1>3, <2>4, <4>2, <5>1 DEF Where!Folded, Where!CaseDecides, Where!Asked
      <4>4. Where!Equal(v, x, "sensitive", database) <=> (v.n = x.n /\ v.upper = x.upper)
        BY <4>3 DEF Where!Equal, Where!Same
      <4>5. v = x <=> (v.n = x.n /\ v.upper = x.upper)
        BY <2>1, <4>1 DEF Where!Values
      <4>. QED BY <4>4, <4>5
    <3>2. listed <=> \E x \in w : v = x
      BY <2>1, <3>1
    <3>. HIDE DEF listed
    <3>. QED BY <2>0, <2>4, <2>7, <3>2
  <2>5. CASE op = "contains"
    <3>1. database \in {"sqlite", "mysql"} /\ clause.mode = "sensitive" => v.upper = w.upper
      BY <1>3, <2>5 DEF Asks, Where!Folded, Where!CaseDecides, Where!Asked
    <3>2. Where!Like(v, clause, Where!FoldsLike(database)) <=> Where!Like(v, clause, FALSE)
      BY <2>2, <3>1 DEF Where!Like, Where!FoldsLike, Where!Same
    <3>3. like <=> Where!Like(v, clause, FALSE)
      BY <2>1, <3>2
    <3>. HIDE DEF like
    <3>. QED BY <2>0, <2>5, <2>7, <3>3
  <2>6. CASE op \in orders
    <3>1. database \in {"postgres", "mysql"} => v.upper = w.upper
      BY <1>3, <2>2, <2>6 DEF Asks, Where!Folded, Where!CaseDecides, Where!Asked, Where!Orders
    <3>2. Where!Compare(op, v, w, Where!Collation(database)) <=> Where!Compare(op, v, w, "code")
      <4>1. CASE database = "sqlite"
        BY <4>1 DEF Where!Collation
      <4>2. CASE database \in {"postgres", "mysql"}
        <5>1. w \in Where!Values
          BY <1>3, <2>6 DEF Asks
        <5>2. Where!Collation(database) \in {"code", "locale", "no case"}
          BY DEF Where!Collation
        <5>. QED BY <2>1, <2>6, <3>1, <4>2, <5>1, <5>2, OrderIsMeant
      <4>. QED BY <4>1, <4>2
    <3>3. ordered <=> Where!Compare(op, v, w, "code")
      BY <2>1, <3>2
    <3>. HIDE DEF ordered
    <3>. QED BY <2>0, <2>6, <2>7, <3>3
  <2>. QED BY <1>0, <2>3, <2>4, <2>5, <2>6
<1>. QED BY <1>1, <1>2, <1>3

LEMMA MongoIsMeant ==
  ASSUME NEW row, NEW clause, Asks(row, clause),
         ~ Where!Unclear(<<"mongodb", "mongodb">>, row, clause)
  PROVE  Where!MongoHolds(row[clause.field], clause) <=> Where!Meant(row, clause)
<1> DEFINE v == row[clause.field]
           w == clause.value
           op == clause.op
           orders == {"lt", "lte", "gt", "gte"}
<1>0. op \in {"eq", "ne", "in", "not_in", "contains"} \cup orders
  BY DEF Asks
<1>1. CASE op = "eq"
  BY <1>1 DEF Asks, Where!MongoHolds, Where!Unclear, Where!Meant, Where!Orders
<1>2. CASE op = "ne"
  BY <1>2 DEF Asks, Where!MongoHolds, Where!Unclear, Where!Meant, Where!Orders
<1>3. CASE op = "in"
  BY <1>3 DEF Asks, Where!MongoHolds, Where!Unclear, Where!Meant, Where!Orders
<1>4. CASE op = "not_in"
  BY <1>4 DEF Asks, Where!MongoHolds, Where!Unclear, Where!Meant, Where!Orders
<1>5. CASE op = "contains"
  BY <1>5 DEF Asks, Where!MongoHolds, Where!Unclear, Where!Meant, Where!Orders
<1>6. CASE op \in orders
  BY <1>6 DEF Asks, Where!MongoHolds, Where!Unclear, Where!Meant, Where!Orders
<1>. QED BY <1>0, <1>1, <1>2, <1>3, <1>4, <1>5, <1>6

\* A clause that is clear is decided by each adapter as it is meant.
LEMMA ClauseIsMeant ==
  ASSUME NEW row, NEW clause, NEW adapter \in Where!Adapters,
         Where!IsClause(clause),
         row[clause.field] \in Where!Values \cup {WhereNull, WhereAbsent},
         ~ Where!Unclear(adapter, row, clause)
  PROVE  Where!Holds(adapter, row, clause) <=> Where!Meant(row, clause)
<1>1. Asks(row, clause)
  BY ClauseAsks
<1>2. CASE adapter = <<"memory", "memory">>
  BY <1>1, <1>2, MemoryIsMeant DEF Where!Holds
<1>3. CASE adapter = <<"mongodb", "mongodb">>
  BY <1>1, <1>3, MongoIsMeant DEF Where!Holds
<1>4. CASE /\ adapter[1] \in {"drizzle", "kysely", "prisma"}
           /\ adapter[2] \in {"sqlite", "postgres", "mysql"}
  <2> DEFINE column == IF row[clause.field] = WhereAbsent THEN WhereNull ELSE row[clause.field]
  <2>2. ~ (clause.op \in Where!Folded(adapter[2]) /\ Where!CaseDecides(row[clause.field], clause))
    BY DEF Where!Unclear
  <2>1. Where!SqlHolds(column, clause, adapter[2]) <=> Where!Meant(row, clause)
    BY <1>1, <1>4, <2>2, SqlIsMeant
  <2>. QED BY <1>4, <2>1 DEF Where!Holds, Where!DrizzleHolds, Where!KyselyHolds, Where!PrismaHolds
<1>. QED BY <1>2, <1>3, <1>4 DEF Where!Adapters

LEMMA HoldsIsBoolean ==
  ASSUME NEW row, NEW clause, NEW adapter \in Where!Adapters, Where!IsClause(clause)
  PROVE  Where!Holds(adapter, row, clause) \in BOOLEAN
<1> DEFINE op == clause.op
<1>1. ASSUME NEW v
      PROVE  Where!MemoryHolds(v, clause) \in BOOLEAN
  <2>1. CASE op = "eq"
    BY <2>1 DEF Where!MemoryHolds, Where!Orders, Where!Same, Where!Like, Where!Compare, Where!Before
  <2>2. CASE op = "ne"
    BY <2>2 DEF Where!MemoryHolds, Where!Orders, Where!Same, Where!Like, Where!Compare, Where!Before
  <2>3. CASE op = "in"
    BY <2>3 DEF Where!MemoryHolds, Where!Orders, Where!Same, Where!Like, Where!Compare, Where!Before
  <2>4. CASE op = "not_in"
    BY <2>4 DEF Where!MemoryHolds, Where!Orders, Where!Same, Where!Like, Where!Compare, Where!Before
  <2>5. CASE op = "contains"
    BY <2>5 DEF Where!MemoryHolds, Where!Orders, Where!Same, Where!Like, Where!Compare, Where!Before
  <2>6. CASE op \in {"lt", "lte", "gt", "gte"}
    BY <2>6 DEF Where!MemoryHolds, Where!Orders, Where!Same, Where!Like, Where!Compare, Where!Before
  <2>. QED BY <2>1, <2>2, <2>3, <2>4, <2>5, <2>6 DEF Where!IsClause, Where!Orders
<1>2. ASSUME NEW v, NEW database \in {"sqlite", "postgres", "mysql"}
      PROVE  Where!SqlHolds(v, clause, database) \in BOOLEAN
  BY DEF Where!SqlHolds, Where!IsClause
<1>3. ASSUME NEW v
      PROVE  Where!MongoHolds(v, clause) \in BOOLEAN
  <2>1. CASE op = "eq"
    BY <2>1 DEF Where!MongoHolds, Where!Plain, Where!Orders, Where!Same, Where!Like, Where!Compare, Where!Before
  <2>2. CASE op = "ne"
    BY <2>2 DEF Where!MongoHolds, Where!Plain, Where!Orders, Where!Same, Where!Like, Where!Compare, Where!Before
  <2>3. CASE op = "in"
    BY <2>3 DEF Where!MongoHolds, Where!Plain, Where!Orders, Where!Same, Where!Like, Where!Compare, Where!Before
  <2>4. CASE op = "not_in"
    BY <2>4 DEF Where!MongoHolds, Where!Plain, Where!Orders, Where!Same, Where!Like, Where!Compare, Where!Before
  <2>5. CASE op = "contains"
    BY <2>5 DEF Where!MongoHolds, Where!Plain, Where!Orders, Where!Same, Where!Like, Where!Compare, Where!Before
  <2>6. CASE op \in {"lt", "lte", "gt", "gte"}
    BY <2>6 DEF Where!MongoHolds, Where!Plain, Where!Orders, Where!Same, Where!Like, Where!Compare, Where!Before
  <2>. QED BY <2>1, <2>2, <2>3, <2>4, <2>5, <2>6 DEF Where!IsClause, Where!Orders
<1>. QED BY <1>1, <1>2, <1>3 DEF Where!Adapters, Where!Holds, Where!DrizzleHolds, Where!KyselyHolds,
       Where!PrismaHolds

LEMMA NodeIsMeant ==
  ASSUME NEW row, NEW node, NEW adapter \in Where!Adapters,
         Where!IsNode(node),
         \A i \in DOMAIN node.clauses :
           /\ row[node.clauses[i].field] \in Where!Values \cup {WhereNull, WhereAbsent}
           /\ ~ Where!Unclear(adapter, row, node.clauses[i])
  PROVE  Where!Member(adapter, row, node) = Where!MeantNode(row, node)
<1>1. \A i \in DOMAIN node.clauses :
        /\ Where!Holds(adapter, row, node.clauses[i]) <=> Where!Meant(row, node.clauses[i])
        /\ Where!Holds(adapter, row, node.clauses[i]) \in BOOLEAN
  BY ClauseIsMeant, HoldsIsBoolean DEF Where!IsNode
<1>2. CASE node.joins = "and"
  BY <1>1, <1>2 DEF Where!Member, Where!MeantNode
<1>3. CASE node.joins = "or"
  BY <1>1, <1>3 DEF Where!Member, Where!MeantNode
<1>4. CASE node.joins = "none"
  <2>1. DOMAIN node.clauses = {1}
    BY <1>4 DEF Where!IsNode
  <2>2. Where!Member(adapter, row, node) = Where!Holds(adapter, row, node.clauses[1])
    BY <1>4 DEF Where!Member
  <2>3. Where!MeantNode(row, node) <=> Where!Meant(row, node.clauses[1])
    BY <1>4, <2>1 DEF Where!MeantNode
  <2>4. Where!MeantNode(row, node) \in BOOLEAN
    BY DEF Where!MeantNode
  <2>. QED BY <1>1, <2>1, <2>2, <2>3, <2>4
<1>. QED BY <1>2, <1>3, <1>4 DEF Where!IsNode

\* A where is what its nodes are, joined from left to right.
LEMMA WhereIsMeant ==
  ASSUME NEW row, NEW S, NEW where \in Seq(S), NEW adapter,
         \A i \in DOMAIN where : Where!Member(adapter, row, where[i]) = Where!MeantNode(row, where[i])
  PROVE  Where!Selects(adapter, row, where) = Where!MeantWhere(row, where)
<1> DEFINE n == Len(where)
           m == [i \in 1..n |-> Where!MeantNode(row, where[i])]
           or == [i \in 1..n |-> where[i].connector = "OR"]
           body(f) == [i \in 0..n |->
             IF i = 0 THEN TRUE
             ELSE IF i = 1 THEN Where!Member(adapter, row, where[1])
             ELSE IF where[i].connector = "OR" THEN f[i - 1] \/ Where!Member(adapter, row, where[i])
                                               ELSE f[i - 1] /\ Where!Member(adapter, row, where[i])]
<1>1. n \in Nat /\ DOMAIN where = 1..n
  OBVIOUS
<1>2. m \in Seq(BOOLEAN) /\ Len(m) = n /\ or \in [1..n -> BOOLEAN]
  <2>1. \A i \in 1..n : Where!MeantNode(row, where[i]) \in BOOLEAN
    BY DEF Where!MeantNode
  <2>. QED BY <1>1, <2>1
<1>3. \A i \in 1..n : Where!Member(adapter, row, where[i]) = m[i]
  BY <1>1
<1>4. Where!Selects(adapter, row, where) = (CHOOSE f : f = body(f))[n]
  BY DEF Where!Selects
<1>5. ASSUME NEW f PROVE body(f) = JoinedBy(m, or, f)
  <2>1. ASSUME NEW i \in 0..n PROVE body(f)[i] = JoinedBy(m, or, f)[i]
    <3>1. CASE i = 0
      BY <1>2, <3>1 DEF JoinedBy
    <3>2. CASE i = 1
      BY <1>2, <1>3, <3>2 DEF JoinedBy
    <3>3. CASE i # 0 /\ i # 1
      <4>1. i \in 1..n
        BY <1>1, <3>3
      <4>2. body(f)[i] = IF where[i].connector = "OR" THEN f[i - 1] \/ Where!Member(adapter, row, where[i])
                                                      ELSE f[i - 1] /\ Where!Member(adapter, row, where[i])
        BY <3>3, Zenon
      <4>3. JoinedBy(m, or, f)[i] = IF or[i] THEN f[i - 1] \/ m[i] ELSE f[i - 1] /\ m[i]
        BY <1>2, <3>3, Zenon DEF JoinedBy
      <4>4. Where!Member(adapter, row, where[i]) = m[i] /\ or[i] = (where[i].connector = "OR")
        BY <1>3, <4>1
      <4>. HIDE DEF m, or, body
      <4>. QED BY <4>2, <4>3, <4>4, Zenon
    <3>. QED BY <3>1, <3>2, <3>3
  <2>. QED BY <1>2, <2>1, Zenon DEF JoinedBy
<1>6. (CHOOSE f : f = body(f)) = CHOOSE f : f = JoinedBy(m, or, f)
  <2>. HIDE DEF body, m, or, n
  <2>. QED BY <1>5
<1>7. Where!Selects(adapter, row, where) = Held(m, or, n)
  <2>. HIDE DEF body, m, or, n
  <2>1. (CHOOSE f : f = JoinedBy(m, or, f))[n] = Held(m, or, n)
    BY <1>2, HeldIsJoined
  <2>. QED BY <1>4, <1>6, <2>1
<1>8. Held(m, or, n) <=> Where!MeantWhere(row, where)
  <2>1. n = 0 <=> where = <<>>
    OBVIOUS
  <2>2. \A k \in 1..n : (m[k] <=> Where!MeantNode(row, where[k])) /\ (or[k] <=> where[k].connector = "OR")
    OBVIOUS
  <2>3. \A k \in 1..n : \A j \in (k + 1)..n : j \in 1..n
    BY <1>1
  <2>. HIDE DEF m, or, n
  <2>. QED BY <1>1, <2>1, <2>2, <2>3 DEF Held, Where!MeantWhere
<1>9. Held(m, or, n) \in BOOLEAN /\ Where!MeantWhere(row, where) \in BOOLEAN
  BY DEF Held, Where!MeantWhere
<1>. QED BY <1>7, <1>8, <1>9

\* A where selects the same rows on every adapter, the ones it is meant to, whatever clauses and
\* groups it joins, but for the clauses of Unclear: about null, a column the row lacks, and text whose
\* case a database's collation decides (matchWhere, whereClause, whereExpr, toWhere, toFilter).
THEOREM StoresSelectTheSame == Spec => []StoresSelectAlike
<1>1. ASSUME NEW x \in WhereInputs PROVE Where!StoresSelectAlike(x)
  <2>. SUFFICES ASSUME NEW adapter \in Where!Adapters,
                       \A i \in DOMAIN x.where : \A j \in DOMAIN x.where[i].clauses :
                         ~ Where!Unclear(adapter, x.row, x.where[i].clauses[j])
                PROVE  Where!Selects(adapter, x.row, x.where) = Where!MeantWhere(x.row, x.where)
    BY DEF Where!StoresSelectAlike
  <2>1. Where!IsGiven(x)
    BY WhereInputsAssumption
  <2>2. \A i \in DOMAIN x.where :
          Where!Member(adapter, x.row, x.where[i]) = Where!MeantNode(x.row, x.where[i])
    BY <2>1, NodeIsMeant DEF Where!IsGiven
  <2>3. x.where \in Seq({x.where[i] : i \in DOMAIN x.where})
    BY <2>1 DEF Where!IsGiven
  <2>. QED BY <2>2, <2>3, WhereIsMeant
<1> DEFINE Inv == part = "where" => given \in WhereInputs
<1>2. Init => Inv
  BY DEF Init
<1>3. Inv /\ [Next]_vars => Inv'
  BY DEF Next, vars
<1>4. Inv => StoresSelectAlike
  BY <1>1 DEF StoresSelectAlike
<1>. QED BY <1>2, <1>3, <1>4, PTL DEF Spec

----------------------------------------------------------------------------
(* Policies: what the slices of a list are joined to.                      *)

\* The bundle of every part of the list that begins with its first slice.
IsJoined(slices, f) ==
  /\ DOMAIN f = 0..Len(slices)
  /\ f[0] = Policy!Floor
  /\ \A i \in 1..Len(slices) : f[i] = Policy!Joined(f[i - 1], slices[i])

LEMMA JoinedUniquely ==
  ASSUME NEW S, NEW s \in Seq(S), NEW t \in Seq(S), Len(s) <= Len(t),
         \A i \in 1..Len(s) : s[i] = t[i],
         NEW f, NEW g, IsJoined(s, f), IsJoined(t, g)
  PROVE  \A i \in 0..Len(s) : f[i] = g[i]
<1> DEFINE Wrong == {i \in 0..Len(s) : f[i] # g[i]}
<1>1. SUFFICES ASSUME Wrong # {} PROVE FALSE
  OBVIOUS
<1>2. PICK i \in Wrong : \A j \in Wrong : i <= j
  <2>1. Wrong \in SUBSET Nat
    OBVIOUS
  <2>. HIDE DEF Wrong
  <2>. QED BY <1>1, <2>1, LeastOf
<1>3. i \in 0..Len(s) /\ f[i] # g[i]
  OBVIOUS
<1>4. i # 0
  BY <1>3 DEF IsJoined
<1>5. i \in 1..Len(s) /\ i \in 1..Len(t) /\ f[i - 1] = g[i - 1]
  BY <1>2, <1>3, <1>4
<1>6. f[i] = Policy!Joined(f[i - 1], s[i]) /\ g[i] = Policy!Joined(g[i - 1], t[i])
  BY <1>5 DEF IsJoined
<1>. QED BY <1>3, <1>5, <1>6

LEMMA JoinedExists ==
  ASSUME NEW S, NEW s \in Seq(S)
  PROVE  \E f : IsJoined(s, f)
<1> DEFINE Upto(n, f) == /\ DOMAIN f = 0..n /\ f[0] = Policy!Floor
                         /\ \A i \in 1..n : f[i] = Policy!Joined(f[i - 1], s[i])
           Wrong == {n \in 0..Len(s) : ~ \E f : Upto(n, f)}
<1>1. Wrong = {}
  <2>. SUFFICES ASSUME Wrong # {} PROVE FALSE
    OBVIOUS
  <2>1. PICK n \in Wrong : \A j \in Wrong : n <= j
    <3>1. Wrong \in SUBSET Nat
      OBVIOUS
    <3>. HIDE DEF Wrong
    <3>. QED BY <3>1, LeastOf
  <2>2. CASE n = 0
    <3> DEFINE f == [i \in {0} |-> Policy!Floor]
    <3>1. DOMAIN f = 0..0 /\ f[0] = Policy!Floor
      OBVIOUS
    <3>2. Upto(0, f)
      BY <3>1
    <3>3. ~ \E x : Upto(n, x)
      OBVIOUS
    <3>. HIDE DEF Upto, Wrong, f
    <3>. QED BY <2>2, <3>2, <3>3
  <2>3. CASE n # 0
    <3>1. n - 1 \in 0..Len(s) /\ n - 1 \notin Wrong /\ n \in 1..Len(s)
      <4>1. n \in 0..Len(s)
        OBVIOUS
      <4>. HIDE DEF Wrong
      <4>. QED BY <2>1, <2>3, <4>1
    <3>2. PICK g : Upto(n - 1, g)
      BY <3>1
    <3> DEFINE f == [i \in 0..n |-> IF i = n THEN Policy!Joined(g[n - 1], s[n]) ELSE g[i]]
    <3>3. DOMAIN f = 0..n /\ f[0] = Policy!Floor
      BY <2>3, <3>1, <3>2
    <3>4. ASSUME NEW i \in 1..n PROVE f[i] = Policy!Joined(f[i - 1], s[i])
      <4>1. CASE i = n
        <5>1. f[n] = Policy!Joined(g[n - 1], s[n]) /\ f[n - 1] = g[n - 1]
          BY <3>1
        <5>. QED BY <4>1, <5>1
      <4>2. CASE i # n
        <5>1. i \in 1..(n - 1) /\ f[i] = g[i] /\ f[i - 1] = g[i - 1]
          BY <3>1, <4>2
        <5>2. g[i] = Policy!Joined(g[i - 1], s[i])
          BY <3>2, <5>1
        <5>. QED BY <5>1, <5>2
      <4>. QED BY <4>1, <4>2
    <3>5. Upto(n, f)
      BY <3>3, <3>4
    <3>. QED BY <3>5
  <2>. QED BY <2>2, <2>3
<1>2. PICK f : Upto(Len(s), f)
  BY <1>1
<1>. QED BY <1>2 DEF IsJoined

LEMMA BundleIs ==
  ASSUME NEW S, NEW s \in Seq(S)
  PROVE  \E f : IsJoined(s, f) /\ Policy!Bundle(s) = f[Len(s)]
<1> DEFINE body(f) == [i \in 0..Len(s) |-> IF i = 0 THEN Policy!Floor ELSE Policy!Joined(f[i - 1], s[i])]
<1>1. ASSUME NEW f PROVE f = body(f) <=> /\ f = [i \in DOMAIN f |-> f[i]]
                                         /\ IsJoined(s, f)
  <2>1. ASSUME f = body(f) PROVE f = [i \in DOMAIN f |-> f[i]] /\ IsJoined(s, f)
    <3>1. DOMAIN f = 0..Len(s)
      BY <2>1
    <3>2. \A i \in 0..Len(s) : f[i] = IF i = 0 THEN Policy!Floor ELSE Policy!Joined(f[i - 1], s[i])
      BY <2>1
    <3>3. f = [i \in DOMAIN f |-> f[i]]
      BY <2>1
    <3>. QED BY <3>1, <3>2, <3>3 DEF IsJoined
  <2>2. ASSUME f = [i \in DOMAIN f |-> f[i]], IsJoined(s, f) PROVE f = body(f)
    <3>1. DOMAIN f = 0..Len(s)
      BY <2>2 DEF IsJoined
    <3>2. \A i \in 0..Len(s) : f[i] = IF i = 0 THEN Policy!Floor ELSE Policy!Joined(f[i - 1], s[i])
      BY <2>2 DEF IsJoined
    <3>. QED BY <2>2, <3>1, <3>2
  <2>. QED BY <2>1, <2>2
<1>2. Policy!Bundle(s) = (CHOOSE f : f = body(f))[Len(s)]
  BY DEF Policy!Bundle
<1>3. PICK f : f = body(f)
  <2>1. PICK g : IsJoined(s, g)
    BY JoinedExists
  <2> DEFINE f == [i \in DOMAIN g |-> g[i]]
  <2>2. f = [i \in DOMAIN f |-> f[i]] /\ IsJoined(s, f)
    BY <2>1 DEF IsJoined
  <2>. HIDE DEF f
  <2>. QED BY <1>1, <2>2
<1>4. (CHOOSE x : x = body(x)) = body(CHOOSE x : x = body(x))
  BY <1>3
<1>. HIDE DEF body
<1>. QED BY <1>1, <1>2, <1>4

Kept(kept, slice) == IF slice.mode = "enforce" THEN Append(kept, slice) ELSE kept

\* The slices that are enforced, of the first ones, in their order.
IsKept(slices, f) ==
  /\ DOMAIN f = 0..Len(slices)
  /\ f[0] = <<>>
  /\ \A i \in 1..Len(slices) :
       f[i] = Kept(f[i - 1], slices[i])

LEMMA KeptExists ==
  ASSUME NEW S, NEW s \in Seq(S)
  PROVE  \E f : IsKept(s, f)
<1> DEFINE Upto(n, f) == /\ DOMAIN f = 0..n /\ f[0] = <<>>
                         /\ \A i \in 1..n : f[i] = Kept(f[i - 1], s[i])
           Wrong == {n \in 0..Len(s) : ~ \E f : Upto(n, f)}
<1>1. Wrong = {}
  <2>. SUFFICES ASSUME Wrong # {} PROVE FALSE
    OBVIOUS
  <2>1. PICK n \in Wrong : \A j \in Wrong : n <= j
    <3>1. Wrong \in SUBSET Nat
      OBVIOUS
    <3>. HIDE DEF Wrong
    <3>. QED BY <3>1, LeastOf
  <2>2. CASE n = 0
    <3> DEFINE f == [i \in {0} |-> <<>>]
    <3>1. DOMAIN f = 0..0 /\ f[0] = <<>>
      OBVIOUS
    <3>2. Upto(0, f)
      BY <3>1
    <3>3. ~ \E x : Upto(n, x)
      OBVIOUS
    <3>. HIDE DEF Upto, Wrong, f
    <3>. QED BY <2>2, <3>2, <3>3
  <2>3. CASE n # 0
    <3>1. n - 1 \in 0..Len(s) /\ n - 1 \notin Wrong /\ n \in 1..Len(s)
      <4>1. n \in 0..Len(s)
        OBVIOUS
      <4>. HIDE DEF Wrong
      <4>. QED BY <2>1, <2>3, <4>1
    <3>2. PICK g : Upto(n - 1, g)
      BY <3>1
    <3> DEFINE f == [i \in 0..n |-> IF i = n THEN Kept(g[n - 1], s[n]) ELSE g[i]]
    <3>3. DOMAIN f = 0..n /\ f[0] = <<>>
      BY <2>3, <3>1, <3>2
    <3>4. ASSUME NEW i \in 1..n PROVE f[i] = Kept(f[i - 1], s[i])
      <4>1. CASE i = n
        <5>1. f[n] = Kept(g[n - 1], s[n]) /\ f[n - 1] = g[n - 1]
          BY <3>1
        <5>. QED BY <4>1, <5>1
      <4>2. CASE i # n
        <5>1. i \in 1..(n - 1) /\ f[i] = g[i] /\ f[i - 1] = g[i - 1]
          BY <3>1, <4>2
        <5>2. g[i] = Kept(g[i - 1], s[i])
          BY <3>2, <5>1
        <5>. QED BY <5>1, <5>2
      <4>. QED BY <4>1, <4>2
    <3>5. Upto(n, f)
      BY <3>3, <3>4
    <3>. QED BY <3>5
  <2>. QED BY <2>2, <2>3
<1>2. PICK f : Upto(Len(s), f)
  BY <1>1
<1>. QED BY <1>2 DEF IsKept

LEMMA EnforcedIs ==
  ASSUME NEW S, NEW s \in Seq(S)
  PROVE  \E f : IsKept(s, f) /\ Policy!Enforced(s) = f[Len(s)]
<1> DEFINE body(f) == [i \in 0..Len(s) |-> IF i = 0 THEN <<>> ELSE Kept(f[i - 1], s[i])]
<1>1. ASSUME NEW f PROVE f = body(f) <=> /\ f = [i \in DOMAIN f |-> f[i]]
                                         /\ IsKept(s, f)
  <2>1. ASSUME f = body(f) PROVE f = [i \in DOMAIN f |-> f[i]] /\ IsKept(s, f)
    <3>1. DOMAIN f = 0..Len(s)
      BY <2>1
    <3>2. \A i \in 0..Len(s) : f[i] = IF i = 0 THEN <<>> ELSE Kept(f[i - 1], s[i])
      BY <2>1
    <3>3. f = [i \in DOMAIN f |-> f[i]]
      BY <2>1
    <3>. QED BY <3>1, <3>2, <3>3 DEF IsKept
  <2>2. ASSUME f = [i \in DOMAIN f |-> f[i]], IsKept(s, f) PROVE f = body(f)
    <3>1. DOMAIN f = 0..Len(s)
      BY <2>2 DEF IsKept
    <3>2. \A i \in 0..Len(s) : f[i] = IF i = 0 THEN <<>> ELSE Kept(f[i - 1], s[i])
      BY <2>2 DEF IsKept
    <3>. QED BY <2>2, <3>1, <3>2
  <2>. QED BY <2>1, <2>2
<1>2. Policy!Enforced(s) = (CHOOSE f : f = body(f))[Len(s)]
  BY DEF Policy!Enforced, Kept
<1>3. PICK f : f = body(f)
  <2>1. PICK g : IsKept(s, g)
    BY KeptExists
  <2> DEFINE f == [i \in DOMAIN g |-> g[i]]
  <2>2. f = [i \in DOMAIN f |-> f[i]] /\ IsKept(s, f)
    BY <2>1 DEF IsKept
  <2>. HIDE DEF f
  <2>. QED BY <1>1, <2>2
<1>4. (CHOOSE x : x = body(x)) = body(CHOOSE x : x = body(x))
  BY <1>3
<1>. HIDE DEF body
<1>. QED BY <1>1, <1>2, <1>4


LEMMA BundleOfOneMore ==
  ASSUME NEW S, NEW s \in Seq(S), NEW x \in S
  PROVE  Policy!Bundle(Append(s, x)) = Policy!Joined(Policy!Bundle(s), x)
<1> DEFINE t == Append(s, x)
           n == Len(s)
<1>1. t \in Seq(S) /\ Len(t) = n + 1 /\ t[n + 1] = x /\ \A i \in 1..n : s[i] = t[i]
  OBVIOUS
<1>2. n \in Nat
  OBVIOUS
<1>3. PICK f : IsJoined(s, f) /\ Policy!Bundle(s) = f[n]
  BY BundleIs
<1>4. PICK g : IsJoined(t, g) /\ Policy!Bundle(t) = g[n + 1]
  BY <1>1, BundleIs
<1>. HIDE DEF t, n
<1>5. \A i \in 0..n : f[i] = g[i]
  BY <1>1, <1>2, <1>3, <1>4, JoinedUniquely DEF n
<1>6. g[n + 1] = Policy!Joined(g[n], x)
  BY <1>1, <1>2, <1>4 DEF IsJoined
<1>. QED BY <1>2, <1>3, <1>4, <1>5, <1>6 DEF t

IsBundle(b) ==
  b = [names |-> b.names, live |-> b.live, shadow |-> b.shadow, candidate |-> b.candidate]

LEMMA BundleIsNotBroken == ASSUME NEW b, IsBundle(b) PROVE b # Policy!Broken
<1>1. "names" \in DOMAIN b
  BY DEF IsBundle
<1>2. "names" \notin DOMAIN Policy!Broken
  BY DEF Policy!Broken
<1>. QED BY <1>1, <1>2

\* What a slice makes of a bundle, unless it has a name that is taken.
LEMMA JoinedWith ==
  ASSUME NEW b, IsBundle(b), NEW x, x.mode \in {"enforce", "shadow", "off"},
         Policy!Joined(b, x) # Policy!Broken
  PROVE  LET c == Policy!Joined(b, x) IN
         /\ IsBundle(c)
         /\ x.mode = "off" => c = b
         /\ x.mode # "off" => x.name \notin b.names /\ c.names = b.names \cup {x.name}
         /\ x.mode = "enforce" => c.live = Policy!Over(Policy!Named(x), b.live)
         /\ x.mode # "enforce" => c.live = b.live
<1> DEFINE c == Policy!Joined(b, x)
<1>1. b # Policy!Broken
  BY BundleIsNotBroken
<1>2. CASE x.mode = "off"
  BY <1>1, <1>2 DEF Policy!Joined
<1>3. CASE x.mode # "off"
  <2>1. ~ Policy!Taken(b, x)
    BY <1>1, <1>3 DEF Policy!Joined
  <2>2. c = [names |-> b.names \cup {x.name},
             live |-> IF x.mode = "enforce" THEN Policy!Over(Policy!Named(x), b.live) ELSE b.live,
             shadow |-> b.shadow \/ x.mode = "shadow",
             candidate |-> Policy!Over(Policy!Named(x), b.candidate)]
    BY <1>1, <1>3, <2>1 DEF Policy!Joined
  <2>. HIDE DEF c
  <2>3. IsBundle(c) /\ c.names = b.names \cup {x.name}
        /\ c.live = IF x.mode = "enforce" THEN Policy!Over(Policy!Named(x), b.live) ELSE b.live
    BY <2>2 DEF IsBundle
  <2>. QED BY <1>3, <2>1, <2>3 DEF Policy!Taken, c
<1>. QED BY <1>2, <1>3

LEMMA UpTo ==
  ASSUME NEW n \in Nat, NEW W \in SUBSET (0..n), 0 \in W, \A i \in 1..n : i - 1 \in W => i \in W
  PROVE  W = 0..n
<1> DEFINE Wrong == (0..n) \ W
<1>. SUFFICES ASSUME Wrong # {} PROVE FALSE
  OBVIOUS
<1>1. PICK i \in Wrong : \A j \in Wrong : i <= j
  <2>1. Wrong \in SUBSET Nat
    OBVIOUS
  <2>. HIDE DEF Wrong
  <2>. QED BY <2>1, LeastOf
<1>2. i \in 0..n /\ i \notin W
  OBVIOUS
<1>3. i \in 1..n
  BY <1>2
<1>4. i - 1 \in 0..n /\ i - 1 \notin Wrong
  <2>. HIDE DEF Wrong
  <2>. QED BY <1>1, <1>3
<1>. QED BY <1>2, <1>3, <1>4

LEMMA OverIs ==
  ASSUME NEW f, NEW g
  PROVE  /\ DOMAIN Policy!Over(f, g) = DOMAIN f \cup DOMAIN g
         /\ \A x \in DOMAIN f : Policy!Over(f, g)[x] = f[x]
         /\ \A x \in DOMAIN g \ DOMAIN f : Policy!Over(f, g)[x] = g[x]
BY DEF Policy!Over

\* The policies of a slice go by its name.
LEMMA NamedIs ==
  ASSUME NEW x, NEW id \in DOMAIN Policy!Named(x)
  PROVE  id[1] = x.name
BY DEF Policy!Named

\* A bundle in which the floor is as it was, and every slice that is enforced.
KeepsAll(b, slices, n) ==
  /\ IsBundle(b)
  /\ \A id \in DOMAIN Policy!SystemPosture : id[1] \in b.names
  /\ \A id \in DOMAIN b.live : id[1] \in b.names
  /\ \A id \in DOMAIN Policy!SystemPosture :
       id \in DOMAIN b.live /\ b.live[id] = Policy!SystemPosture[id]
  /\ \A j \in 1..n : slices[j].mode = "enforce" =>
       \A id \in DOMAIN Policy!Named(slices[j]) :
         id \in DOMAIN b.live /\ b.live[id] = Policy!Named(slices[j])[id]

LEMMA FloorKeepsAll == ASSUME NEW slices PROVE KeepsAll(Policy!Floor, slices, 0)
<1>1. IsBundle(Policy!Floor)
  BY DEF IsBundle, Policy!Floor
<1>2. \A id \in DOMAIN Policy!SystemPosture : id[1] \in Policy!Floor.names
  BY DEF Policy!Floor
<1>3. Policy!Floor.live = Policy!SystemPosture
  BY DEF Policy!Floor
<1>. QED BY <1>1, <1>2, <1>3 DEF KeepsAll

LEMMA JoinedKeepsAll ==
  ASSUME NEW S, NEW slices \in Seq(S), NEW n \in 1..Len(slices), NEW b,
         KeepsAll(b, slices, n - 1), slices[n].mode \in {"enforce", "shadow", "off"},
         Policy!Joined(b, slices[n]) # Policy!Broken
  PROVE  KeepsAll(Policy!Joined(b, slices[n]), slices, n)
<1> DEFINE x == slices[n]
           c == Policy!Joined(b, x)
<1>1. IsBundle(b)
  BY DEF KeepsAll
<1>2. /\ IsBundle(c)
      /\ x.mode = "off" => c = b
      /\ x.mode # "off" => x.name \notin b.names /\ c.names = b.names \cup {x.name}
      /\ x.mode = "enforce" => c.live = Policy!Over(Policy!Named(x), b.live)
      /\ x.mode # "enforce" => c.live = b.live
  BY <1>1, JoinedWith
<1>. HIDE DEF c
<1>3. \A id \in DOMAIN b.live : id[1] \in b.names
  BY DEF KeepsAll
<1>4. x.mode = "enforce" =>
        /\ DOMAIN c.live = DOMAIN Policy!Named(x) \cup DOMAIN b.live
        /\ \A id \in DOMAIN Policy!Named(x) : c.live[id] = Policy!Named(x)[id]
        /\ \A id \in DOMAIN b.live : c.live[id] = b.live[id]
  <2>. SUFFICES ASSUME x.mode = "enforce"
                PROVE  /\ DOMAIN c.live = DOMAIN Policy!Named(x) \cup DOMAIN b.live
                       /\ \A id \in DOMAIN Policy!Named(x) : c.live[id] = Policy!Named(x)[id]
                       /\ \A id \in DOMAIN b.live : c.live[id] = b.live[id]
    OBVIOUS
  <2>1. c.live = Policy!Over(Policy!Named(x), b.live) /\ x.name \notin b.names
    BY <1>2
  <2>2. \A id \in DOMAIN b.live : id \notin DOMAIN Policy!Named(x)
    BY <1>3, <2>1, NamedIs
  <2> DEFINE p == Policy!Named(x)
             q == b.live
  <2>3. /\ DOMAIN Policy!Over(p, q) = DOMAIN p \cup DOMAIN q
        /\ \A id \in DOMAIN p : Policy!Over(p, q)[id] = p[id]
        /\ \A id \in DOMAIN q \ DOMAIN p : Policy!Over(p, q)[id] = q[id]
    <3>. HIDE DEF p, q
    <3>. QED BY OverIs
  <2>4. \A id \in DOMAIN q : id \in DOMAIN q \ DOMAIN p
    BY <2>2
  <2>5. c.live = Policy!Over(p, q)
    BY <2>1
  <2>. HIDE DEF p, q
  <2>6. /\ DOMAIN c.live = DOMAIN p \cup DOMAIN q
        /\ \A id \in DOMAIN p : c.live[id] = p[id]
        /\ \A id \in DOMAIN q : c.live[id] = q[id]
    BY <2>3, <2>4, <2>5
  <2>. QED BY <2>6 DEF p, q
<1>5. b.names \subseteq c.names /\ \A id \in DOMAIN c.live : id[1] \in c.names
  <2>1. CASE x.mode = "enforce"
    BY <1>2, <1>3, <1>4, <2>1, NamedIs
  <2>2. CASE x.mode # "enforce"
    BY <1>2, <1>3, <2>2
  <2>. QED BY <2>1, <2>2
<1>6. \A id \in DOMAIN b.live : id \in DOMAIN c.live /\ c.live[id] = b.live[id]
  BY <1>2, <1>4
<1>7. ASSUME NEW j \in 1..n, slices[j].mode = "enforce", NEW id \in DOMAIN Policy!Named(slices[j])
      PROVE  id \in DOMAIN c.live /\ c.live[id] = Policy!Named(slices[j])[id]
  <2>1. CASE j = n
    BY <1>4, <1>7, <2>1
  <2>2. CASE j # n
    <3>1. j \in 1..(n - 1)
      BY <2>2
    <3>2. id \in DOMAIN b.live /\ b.live[id] = Policy!Named(slices[j])[id]
      BY <1>7, <3>1 DEF KeepsAll
    <3>. QED BY <1>6, <3>2
  <2>. QED BY <2>1, <2>2
<1>8. \A id \in DOMAIN Policy!SystemPosture :
        /\ id[1] \in c.names
        /\ id \in DOMAIN c.live /\ c.live[id] = Policy!SystemPosture[id]
  BY <1>5, <1>6 DEF KeepsAll
<1>. QED BY <1>2, <1>5, <1>7, <1>8 DEF KeepsAll, c

AreSlices(slices) == \A i \in 1..Len(slices) : slices[i].mode \in {"enforce", "shadow", "off"}

LEMMA BundleKeepsAll ==
  ASSUME NEW S, NEW slices \in Seq(S), AreSlices(slices), Policy!Bundle(slices) # Policy!Broken
  PROVE  KeepsAll(Policy!Bundle(slices), slices, Len(slices))
<1> DEFINE n == Len(slices)
<1>1. n \in Nat
  OBVIOUS
<1>2. PICK f : IsJoined(slices, f) /\ Policy!Bundle(slices) = f[n]
  BY BundleIs
<1> DEFINE W == {i \in 0..n : f[i] # Policy!Broken => KeepsAll(f[i], slices, i)}
<1>3. 0 \in W
  BY <1>1, <1>2, FloorKeepsAll DEF IsJoined
<1>4. ASSUME NEW i \in 1..n, i - 1 \in W PROVE i \in W
  <2>. SUFFICES ASSUME f[i] # Policy!Broken PROVE KeepsAll(f[i], slices, i)
    BY <1>1
  <2>1. f[i] = Policy!Joined(f[i - 1], slices[i])
    BY <1>2 DEF IsJoined
  <2>2. f[i - 1] # Policy!Broken
    BY <2>1 DEF Policy!Joined
  <2>3. KeepsAll(f[i - 1], slices, i - 1)
    BY <1>4, <2>2
  <2>4. slices[i].mode \in {"enforce", "shadow", "off"}
    BY DEF AreSlices
  <2>. QED BY <2>1, <2>3, <2>4, JoinedKeepsAll
<1>5. W = 0..n
  <2>1. W \in SUBSET (0..n)
    OBVIOUS
  <2>. HIDE DEF W, n
  <2>. QED BY <1>1, <1>3, <1>4, <2>1, UpTo
<1>6. n \in W
  BY <1>1, <1>5
<1>. QED BY <1>2, <1>6

\* The slices that are enforced make, without the others, the same policies.
LEMMA EnforcedSuffice ==
  ASSUME NEW S, NEW slices \in Seq(S), AreSlices(slices), Policy!Bundle(slices) # Policy!Broken
  PROVE  Policy!Bundle(Policy!Enforced(slices)).live = Policy!Bundle(slices).live
<1> DEFINE n == Len(slices)
           B(t) == Policy!Bundle(t)
<1>1. n \in Nat
  OBVIOUS
<1>2. PICK f : IsJoined(slices, f) /\ Policy!Bundle(slices) = f[n]
  BY BundleIs
<1>3. PICK k : IsKept(slices, k) /\ Policy!Enforced(slices) = k[n]
  BY EnforcedIs
<1> DEFINE Same(i) == /\ k[i] \in Seq(S)
                      /\ f[i] # Policy!Broken =>
                           /\ IsBundle(f[i]) /\ IsBundle(B(k[i]))
                           /\ B(k[i]).live = f[i].live
                           /\ B(k[i]).names \subseteq f[i].names
           W == {i \in 0..n : Same(i)}
<1>4. 0 \in W
  <2>1. k[0] = <<>> /\ f[0] = Policy!Floor
    BY <1>2, <1>3 DEF IsKept, IsJoined
  <2>2. B(<<>>) = Policy!Floor
    <3>1. <<>> \in Seq(S) /\ Len(<<>>) = 0
      OBVIOUS
    <3>2. PICK g : IsJoined(<<>>, g) /\ B(<<>>) = g[0]
      BY <3>1, BundleIs
    <3>. QED BY <3>2 DEF IsJoined
  <2>3. IsBundle(Policy!Floor)
    BY FloorKeepsAll DEF KeepsAll
  <2>4. <<>> \in Seq(S)
    OBVIOUS
  <2>. HIDE DEF B
  <2>5. Same(0)
    BY <2>1, <2>2, <2>3, <2>4
  <2>. HIDE DEF Same
  <2>. QED BY <1>1, <2>5
<1>5. ASSUME NEW i \in 1..n, i - 1 \in W PROVE i \in W
  <2> DEFINE x == slices[i]
             b == f[i - 1]
             e == B(k[i - 1])
  <2>1. /\ f[i] = Policy!Joined(b, x) /\ x.mode \in {"enforce", "shadow", "off"} /\ x \in S
        /\ k[i] = Kept(k[i - 1], x)
    BY <1>2, <1>3 DEF IsJoined, IsKept, AreSlices
  <2>2. /\ k[i - 1] \in Seq(S)
        /\ b # Policy!Broken => /\ IsBundle(b) /\ IsBundle(e)
                                /\ e.live = b.live /\ e.names \subseteq b.names
    BY <1>5
  <2>. HIDE DEF e, b
  <2>3. k[i] \in Seq(S)
    BY <2>1, <2>2 DEF Kept
  <2>4. ASSUME f[i] # Policy!Broken
        PROVE  /\ IsBundle(f[i]) /\ IsBundle(B(k[i]))
               /\ B(k[i]).live = f[i].live
               /\ B(k[i]).names \subseteq f[i].names
    <3>1. b # Policy!Broken
      BY <2>1, <2>4 DEF Policy!Joined
    <3>2. /\ IsBundle(f[i])
          /\ x.mode = "off" => f[i] = b
          /\ x.mode # "off" => x.name \notin b.names /\ f[i].names = b.names \cup {x.name}
          /\ x.mode = "enforce" => f[i].live = Policy!Over(Policy!Named(x), b.live)
          /\ x.mode # "enforce" => f[i].live = b.live
      BY <2>1, <2>2, <2>4, <3>1, JoinedWith
    <3>3. CASE x.mode # "enforce"
      <4>1. B(k[i]) = e
        BY <2>1, <3>3 DEF Kept, e
      <4>2. b.names \subseteq f[i].names
        BY <2>1, <3>2, <3>3
      <4>. HIDE DEF B, x
      <4>. QED BY <2>2, <3>1, <3>2, <3>3, <4>1, <4>2
    <3>4. CASE x.mode = "enforce"
      <4>1. B(k[i]) = Policy!Joined(e, x)
        BY <2>1, <2>2, <3>4, BundleOfOneMore DEF Kept, e
      <4>2. e # Policy!Broken /\ ~ Policy!Taken(e, x)
        BY <2>2, <3>1, <3>2, <3>4, BundleIsNotBroken DEF Policy!Taken
      <4>3. B(k[i]) # Policy!Broken
        <5>1. Policy!Joined(e, x) = [names |-> e.names \cup {x.name},
                live |-> IF x.mode = "enforce" THEN Policy!Over(Policy!Named(x), e.live) ELSE e.live,
                shadow |-> e.shadow \/ x.mode = "shadow",
                candidate |-> Policy!Over(Policy!Named(x), e.candidate)]
          BY <3>4, <4>2 DEF Policy!Joined
        <5>2. IsBundle(Policy!Joined(e, x))
          BY <5>1 DEF IsBundle
        <5>. QED BY <4>1, <5>2, BundleIsNotBroken
      <4>4. /\ IsBundle(B(k[i])) /\ B(k[i]).names = e.names \cup {x.name}
            /\ B(k[i]).live = Policy!Over(Policy!Named(x), e.live)
        BY <2>1, <2>2, <3>1, <3>4, <4>1, <4>3, JoinedWith
      <4>. HIDE DEF B, x
      <4>. QED BY <2>2, <3>1, <3>2, <3>4, <4>4
    <3>. QED BY <3>3, <3>4
  <2>. HIDE DEF B, x
  <2>. QED BY <1>1, <2>3, <2>4
<1>6. W = 0..n
  <2>1. W \in SUBSET (0..n)
    OBVIOUS
  <2>. HIDE DEF W, n
  <2>. QED BY <1>1, <1>4, <1>5, <2>1, UpTo
<1>7. n \in W
  BY <1>1, <1>6
<1>. QED BY <1>2, <1>3, <1>7

----------------------------------------------------------------------------
(* Policies: the decision.                                                 *)

\* A gate skips what is not in its model, and asks the policies of the bundle about the rest.
LEMMA GateDecides ==
  ASSUME NEW model, NEW b, NEW asked
  PROVE  /\ asked.name \notin DOMAIN model.groups => Policy!Gate(model, b, asked).decision = "skip"
         /\ asked.name \in DOMAIN model.groups =>
              \/ Policy!Gate(model, b, asked).decision = "throw"
              \/ Policy!Gate(model, b, asked)
                   = Policy!Authorize(b.live, asked.name, model.groups[asked.name], Policy!ModeOf(asked))
<1>1. CASE asked.name \notin DOMAIN model.groups
  BY <1>1 DEF Policy!Gate
<1>2. CASE asked.name \in DOMAIN model.groups /\ asked.principal = PolicyAbsent
  BY <1>2 DEF Policy!Gate
<1>3. CASE asked.name \in DOMAIN model.groups /\ asked.principal # PolicyAbsent
  BY <1>3 DEF Policy!Gate, Policy!Shadowed
<1>. QED BY <1>1, <1>2, <1>3

LEMMA AnswersAre ==
  ASSUME NEW policies, NEW action, NEW groups, NEW mode
  PROVE  Policy!Authorize(policies, action, groups, mode).decision \in {"permit", "needs-approval", "deny"}
<1> DEFINE first == Policy!Evaluate(policies, action, groups, Policy!Context(FALSE, mode))
           probed == Policy!Evaluate(policies, action, groups, Policy!Context(TRUE, mode))
           answer == Policy!Authorize(policies, action, groups, mode)
<1>1. CASE first.allow
  <2>1. answer = [decision |-> "permit", policies |-> first.policies]
    BY <1>1, Zenon DEF Policy!Authorize
  <2>. HIDE DEF answer, first
  <2>. QED BY <2>1 DEF answer
<1>2. CASE ~ first.allow /\ probed.allow
  <2>1. answer = [decision |-> "needs-approval", policies |-> probed.policies]
    BY <1>2, Zenon DEF Policy!Authorize
  <2>. HIDE DEF answer, probed
  <2>. QED BY <2>1 DEF answer
<1>3. CASE ~ first.allow /\ ~ probed.allow
  <2>1. answer = [decision |-> "deny", policies |-> first.policies]
    BY <1>3, Zenon DEF Policy!Authorize
  <2>. HIDE DEF answer, first
  <2>. QED BY <2>1 DEF answer
<1>. QED BY <1>1, <1>2, <1>3

LEMMA GateIsOfLive ==
  ASSUME NEW model, NEW b, NEW c, NEW asked, b.live = c.live
  PROVE  Policy!Gate(model, b, asked) = Policy!Gate(model, c, asked)
<1>1. CASE asked.name \notin DOMAIN model.groups
  BY <1>1 DEF Policy!Gate
<1>2. CASE asked.name \in DOMAIN model.groups /\ asked.principal = PolicyAbsent
  BY <1>2 DEF Policy!Gate
<1>3. CASE asked.name \in DOMAIN model.groups /\ asked.principal # PolicyAbsent
  BY <1>3 DEF Policy!Gate, Policy!Shadowed
<1>. QED BY <1>1, <1>2, <1>3

\* What forbids an action in a context does not allow it.
LEMMA ForbidWins ==
  ASSUME NEW policies, NEW action, NEW groups, NEW context, NEW n \in DOMAIN policies,
         policies[n].effect = "forbid", Policy!Applies(policies[n], action, groups, context)
  PROVE  Policy!Evaluate(policies, action, groups, context).allow = FALSE
<1> DEFINE hit == {x \in DOMAIN policies : policies[x].effect = "forbid"
                                           /\ Policy!Applies(policies[x], action, groups, context)}
<1>1. hit # {}
  OBVIOUS
<1>2. Policy!Evaluate(policies, action, groups, context) = [allow |-> FALSE, policies |-> hit]
  BY <1>1 DEF Policy!Evaluate
<1>. QED BY <1>2

LEMMA ContextsAre ==
  ASSUME NEW mode \in Policy!Modes
  PROVE  \A confirmed \in BOOLEAN : Policy!Context(confirmed, mode) \in Policy!Contexts
BY DEF Policy!Contexts

\* A slice that forbids an action in every context denies it.
LEMMA ForbiddenIsDenied ==
  ASSUME NEW policies, NEW action, NEW groups, NEW mode \in Policy!Modes, NEW n \in DOMAIN policies,
         policies[n].effect = "forbid", policies[n].on \in {"any", action},
         policies[n].contexts = Policy!Contexts
  PROVE  Policy!Authorize(policies, action, groups, mode).decision = "deny"
<1>1. \A confirmed \in BOOLEAN : Policy!Context(confirmed, mode) \in Policy!Contexts
  BY ContextsAre
<1>2. \A confirmed \in BOOLEAN :
        Policy!Evaluate(policies, action, groups, Policy!Context(confirmed, mode)).allow = FALSE
  <2>1. \A confirmed \in BOOLEAN :
          Policy!Applies(policies[n], action, groups, Policy!Context(confirmed, mode))
    BY <1>1 DEF Policy!Applies
  <2>. QED BY <2>1, ForbidWins
<1>. QED BY <1>2 DEF Policy!Authorize

Unwatched == <<"floor:unconfirmed-autonomous-write-forbidden", 0>>

LEMMA FloorForbids ==
  /\ Unwatched \in DOMAIN Policy!SystemPosture
  /\ Policy!SystemPosture[Unwatched].effect = "forbid"
  /\ Policy!SystemPosture[Unwatched].on = "writes"
  /\ Policy!Context(FALSE, "autonomous") \in Policy!SystemPosture[Unwatched].contexts
<1>1. Unwatched \in DOMAIN Policy!SystemPosture
  BY DEF Unwatched, Policy!SystemPosture
<1>2. Policy!SystemPosture[Unwatched]
        = Policy!Policy("forbid", "writes", Policy!Contexts \ (Policy!Confirmed \cup Policy!Interactive))
  <2>1. Unwatched[1] # "floor:reads-run" /\ Unwatched[1] # "floor:writes-need-confirmation"
    BY DEF Unwatched
  <2>. QED BY <1>1, <2>1 DEF Policy!SystemPosture
<1>3. Policy!Context(FALSE, "autonomous") \in Policy!Contexts \ (Policy!Confirmed \cup Policy!Interactive)
  <2>1. Policy!Context(FALSE, "autonomous") \in Policy!Contexts
    <3>1. "autonomous" \in Policy!Modes
      BY DEF Policy!Modes
    <3>. QED BY <3>1, ContextsAre
  <2>2. Policy!Context(FALSE, "autonomous").confirmed = FALSE
        /\ Policy!Context(FALSE, "autonomous").mode = "autonomous"
    BY DEF Policy!Context
  <2> DEFINE c == Policy!Context(FALSE, "autonomous")
  <2>3. c \notin Policy!Confirmed
    <3>1. ~ c.confirmed
      BY <2>2
    <3>. HIDE DEF c
    <3>. QED BY <3>1, Zenon DEF Policy!Confirmed
  <2>4. c \notin Policy!Interactive
    <3>1. c.mode # "interactive"
      BY <2>2
    <3>. HIDE DEF c
    <3>. QED BY <3>1, Zenon DEF Policy!Interactive
  <2>. QED BY <2>1, <2>3, <2>4
<1> DEFINE unwatched == Policy!Contexts \ (Policy!Confirmed \cup Policy!Interactive)
<1>4. Policy!SystemPosture[Unwatched] = [effect |-> "forbid", on |-> "writes", contexts |-> unwatched]
  BY <1>2 DEF Policy!Policy
<1>. HIDE DEF unwatched
<1>5. Policy!Context(FALSE, "autonomous") \in unwatched
  BY <1>3 DEF unwatched
<1>6. /\ Policy!SystemPosture[Unwatched].effect = "forbid"
      /\ Policy!SystemPosture[Unwatched].on = "writes"
      /\ Policy!SystemPosture[Unwatched].contexts = unwatched
  BY <1>4
<1>. QED BY <1>1, <1>5, <1>6

\* An unconfirmed write that nobody watches is not permitted on top of the floor.
LEMMA WritesWait ==
  ASSUME NEW b, NEW slices, NEW n, KeepsAll(b, slices, n), NEW action, NEW groups, "writes" \in groups
  PROVE  Policy!Authorize(b.live, action, groups, "autonomous").decision # "permit"
<1>1. Unwatched \in DOMAIN b.live /\ b.live[Unwatched] = Policy!SystemPosture[Unwatched]
  BY FloorForbids DEF KeepsAll
<1>2. Policy!Applies(b.live[Unwatched], action, groups, Policy!Context(FALSE, "autonomous"))
  BY <1>1, FloorForbids DEF Policy!Applies
<1>3. Policy!Evaluate(b.live, action, groups, Policy!Context(FALSE, "autonomous")).allow = FALSE
  BY <1>1, <1>2, FloorForbids, ForbidWins
<1>. QED BY <1>3 DEF Policy!Authorize

\* The model is of the tools that declare an access, and a declared write is a write in it.
LEMMA ModelIs ==
  ASSUME NEW stamps, Policy!FloorModel(stamps) # Policy!Broken
  PROVE  /\ DOMAIN Policy!FloorModel(stamps).groups = Policy!Governed(stamps)
         /\ \A name \in Policy!Governed(stamps) :
              stamps[name].access = "write" => "writes" \in Policy!FloorModel(stamps).groups[name]
<1> DEFINE groups == [name \in Policy!Governed(stamps) |-> Policy!GroupsOf(stamps[name])]
<1>1. Policy!FloorModel(stamps) = [groups |-> groups]
  BY DEF Policy!FloorModel
<1>2. Policy!FloorModel(stamps).groups = groups
  <2>. HIDE DEF groups
  <2>. QED BY <1>1
<1>3. \A stamp : stamp.access = "write" => "writes" \in Policy!GroupsOf(stamp)
  BY DEF Policy!GroupsOf
<1>. QED BY <1>2, <1>3

LEMMA FloorHoldsOf ==
  ASSUME NEW x, Policy!IsGiven(x)
  PROVE  Policy!FloorHolds(x)
<1> DEFINE model == Policy!FloorModel(x.tools)
           bundle == Policy!Bundle(x.slices)
           found == Policy!Gate(model, bundle, x.call)
           id == x.call.name
           governed == id \in Policy!Governed(x.tools)
<1>. SUFFICES ASSUME model # Policy!Broken, bundle # Policy!Broken
              PROVE  /\ (governed /\ x.tools[id].access = "write" /\ x.call.mode # "interactive")
                          => found.decision \in {"needs-approval", "deny", "throw"}
                     /\ found.decision = "skip" <=> ~ governed
                     /\ \A i \in DOMAIN x.slices : \A k \in DOMAIN x.slices[i].cedar :
                          (/\ x.slices[i].mode = "enforce" /\ x.slices[i].cedar[k].effect = "forbid"
                           /\ x.slices[i].cedar[k].on \in {"any", id}
                           /\ x.slices[i].cedar[k].contexts = Policy!Contexts /\ governed)
                            => found.decision \in {"deny", "throw"}
                     /\ found = Policy!Gate(model, Policy!Bundle(Policy!Enforced(x.slices)), x.call)
  BY DEF Policy!FloorHolds
<1>1. x.slices \in Seq({x.slices[i] : i \in DOMAIN x.slices})
  BY DEF Policy!IsGiven, Policy!IsList
<1>2. AreSlices(x.slices)
  BY <1>1 DEF Policy!IsGiven, AreSlices
<1>3. KeepsAll(bundle, x.slices, Len(x.slices))
  BY <1>1, <1>2, BundleKeepsAll
<1>4. Policy!Bundle(Policy!Enforced(x.slices)).live = bundle.live
  BY <1>1, <1>2, EnforcedSuffice
<1>0. DOMAIN model.groups = Policy!Governed(x.tools)
  BY ModelIs
<1>5. governed => \/ found.decision = "throw"
                  \/ found = Policy!Authorize(bundle.live, id, model.groups[id], Policy!ModeOf(x.call))
  BY <1>0, GateDecides
<1>6. x.call.mode \in Policy!Modes \cup {PolicyAbsent}
  BY DEF Policy!IsGiven
<1>7. Policy!ModeOf(x.call) \in Policy!Modes
      /\ (x.call.mode # "interactive" => Policy!ModeOf(x.call) = "autonomous")
  BY <1>6 DEF Policy!ModeOf, Policy!Modes
<1>11. found.decision = "skip" <=> ~ governed
  <2>1. ~ governed => found.decision = "skip"
    BY <1>0, GateDecides
  <2>2. governed => found.decision # "skip"
    BY <1>5, AnswersAre
  <2>. QED BY <2>1, <2>2
<1>8. ASSUME governed, x.tools[id].access = "write", x.call.mode # "interactive"
      PROVE  found.decision \in {"needs-approval", "deny", "throw"}
  <2>1. CASE found.decision = "throw"
    BY <2>1
  <2>2. CASE found.decision # "throw"
    <3>1. found = Policy!Authorize(bundle.live, id, model.groups[id], "autonomous")
      BY <1>5, <1>7, <1>8, <2>2
    <3>2. "writes" \in model.groups[id]
      BY <1>8, ModelIs
    <3>3. found.decision # "permit"
      BY <1>3, <3>1, <3>2, WritesWait
    <3>4. found.decision \in {"permit", "needs-approval", "deny"}
      BY <3>1, AnswersAre
    <3>. QED BY <3>3, <3>4
  <2>. QED BY <2>1, <2>2
<1>9. ASSUME NEW i \in DOMAIN x.slices, NEW k \in DOMAIN x.slices[i].cedar,
             x.slices[i].mode = "enforce", x.slices[i].cedar[k].effect = "forbid",
             x.slices[i].cedar[k].on \in {"any", id},
             x.slices[i].cedar[k].contexts = Policy!Contexts, governed
      PROVE  found.decision \in {"deny", "throw"}
  <2> DEFINE slice == x.slices[i]
             named == Policy!Named(slice)
  <2>1. slice.cedar \in Seq({slice.cedar[j] : j \in DOMAIN slice.cedar})
    BY DEF Policy!IsGiven, Policy!IsList
  <2>2. \E n \in DOMAIN named : named[n] = slice.cedar[k]
    <3>1. CASE Len(slice.cedar) = 1
      <4>1. named = [n \in {<<slice.name, 0>>} |-> slice.cedar[1]]
        BY <3>1 DEF Policy!Named
      <4>2. k = 1
        BY <2>1, <3>1
      <4>. HIDE DEF named
      <4>. QED BY <4>1, <4>2
    <3>2. CASE Len(slice.cedar) # 1
      <4>1. named = [n \in {<<slice.name, j>> : j \in DOMAIN slice.cedar} |-> slice.cedar[n[2]]]
        BY <3>2 DEF Policy!Named
      <4>2. <<slice.name, k>> \in DOMAIN named /\ named[<<slice.name, k>>] = slice.cedar[k]
        BY <4>1
      <4>. QED BY <4>2
    <3>. QED BY <3>1, <3>2
  <2>3. PICK n \in DOMAIN named : named[n] = slice.cedar[k]
    BY <2>2
  <2>4. i \in 1..Len(x.slices)
    BY <1>1
  <2>5. n \in DOMAIN bundle.live /\ bundle.live[n] = slice.cedar[k]
    BY <1>3, <1>9, <2>3, <2>4 DEF KeepsAll
  <2>. HIDE DEF found, bundle, model, slice, named, id, governed
  <2>6. Policy!Authorize(bundle.live, id, model.groups[id], Policy!ModeOf(x.call)).decision = "deny"
    BY <1>7, <1>9, <2>5, ForbiddenIsDenied DEF slice
  <2>. QED BY <1>5, <1>9, <2>6
<1>10. found = Policy!Gate(model, Policy!Bundle(Policy!Enforced(x.slices)), x.call)
  BY <1>4, GateIsOfLive
<1>. HIDE DEF found, bundle, model, governed, id
<1>. QED BY <1>8, <1>9, <1>10, <1>11

\* The floor cannot be passed, whatever tools a host and slices its plugins have, in any number: a
\* tool that declares to write is not run without a confirmation for a run that nobody watches, a
\* slice that forbids a governed tool forbids it, slices that are shadow or off change no decision,
\* and what is skipped is exactly what declares no access (buildFloorPolicyPlugin,
\* loadPolicyBundle, cedarEngine).
THEOREM TheFloorHolds == Spec => []FloorHolds
<1> DEFINE Inv == part = "policies" => given \in PolicyInputs
<1>1. Init => Inv
  BY DEF Init
<1>2. Inv /\ [Next]_vars => Inv'
  BY DEF Next, vars
<1>3. Inv => FloorHolds
  BY PolicyInputsAssumption, FloorHoldsOf DEF FloorHolds
<1>. QED BY <1>1, <1>2, <1>3, PTL DEF Spec
================================================================================
