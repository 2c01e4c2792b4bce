------------------------------ MODULE AuditChain ------------------------------
(***************************************************************************)
(* The audit log (foundation/core audit.ts): a sink that chains each entry *)
(* to the one before it, heads that a witness keeps (anchors), and the     *)
(* verification of a log that was read back from its store, where anything *)
(* may have happened to it.                                                *)
(*                                                                         *)
(* A hash is the term it is the hash of: SHA-256 is taken to be injective  *)
(* and nothing more, so anybody may compute one.  The body stands for the  *)
(* fields of an entry other than seq, prevHash and hash.                   *)
(***************************************************************************)
EXTENDS Naturals, FiniteSets, SequencesExt

CONSTANTS Body,        \* what entries may say
          MaxEntries, MaxDamage, MaxAnchors

VARIABLES log,       \* the entries in the store
          anchors,   \* the anchor rows
          appended,  \* history: what the sink was given, in order
          damage     \* history: how often the store was changed behind the sink's back

vars == <<log, anchors, appended, damage>>

Genesis == <<>>
Hash(snapshot) == <<snapshot>>
Snapshot(body, seq, prev) == [body |-> body, seq |-> seq, prevHash |-> prev]
Entry(snapshot, hash) == [snapshot |-> snapshot, hash |-> hash]
Sealed(snapshot) == Entry(snapshot, Hash(snapshot))

TipHash(entries) == IF entries = <<>> THEN Genesis ELSE Last(entries).hash
Head_(entries) == [seq |-> Last(entries).snapshot.seq, hash |-> Last(entries).hash]

\* What a witness keeps, and (history) the bodies that it stands for.
AnchorProof(head, witnessed) == [head |-> head, witnessed |-> witnessed]

\* An anchor row that does not parse has no head.
Corrupt == [text |-> "malformed"]

Init == log = <<>> /\ anchors = {} /\ appended = <<>> /\ damage = 0

\* The sink: head, seq and push in one step, for nothing is awaited between them.
Append_(body) ==
  /\ Len(appended) < MaxEntries
  /\ log' = Append(log, Sealed(Snapshot(body, Len(log), TipHash(log))))
  /\ appended' = Append(appended, body)
  /\ UNCHANGED <<anchors, damage>>

\* A head is published while the log is as it was written; witnessed is what it stands for.
Anchor ==
  /\ log # <<>> /\ damage = 0 /\ Cardinality(anchors) < MaxAnchors
  /\ anchors' = anchors \cup {AnchorProof(Head_(log), appended)}
  /\ UNCHANGED <<log, appended, damage>>

\* The store: rows edited, with their own hash put right or not, lost, moved, cut off, or all of
\* them written again; and an anchor row that does not parse any more.
Edits(entries) ==
  {[entries EXCEPT ![i].snapshot.body = b] : i \in DOMAIN entries, b \in Body}
Rehashed(entries) ==
  {[entries EXCEPT ![i] = Sealed([@.snapshot EXCEPT !.body = b])] : i \in DOMAIN entries, b \in Body}
Lost(entries) == {RemoveAt(entries, i) : i \in DOMAIN entries}
Moved(entries) ==
  {[entries EXCEPT ![i] = entries[j], ![j] = entries[i]] : i, j \in DOMAIN entries}
CutOff(entries) == {SubSeq(entries, 1, i) : i \in 0..Len(entries)}
Inserted(entries) ==
  {InsertAt(entries, i, Sealed(Snapshot(b, i - 1, TipHash(SubSeq(entries, 1, i - 1))))) :
     i \in DOMAIN entries, b \in Body}
Chain(bodies) ==
  LET es[n \in 0..Len(bodies)] ==
        IF n = 0 THEN <<>>
        ELSE Append(es[n - 1], Sealed(Snapshot(bodies[n], n - 1, TipHash(es[n - 1]))))
  IN  es[Len(bodies)]
Rewritten(entries) == {Chain(bodies) : bodies \in [1..Len(entries) -> Body]}

Damage ==
  /\ damage < MaxDamage
  /\ \/ log' \in Edits(log) /\ UNCHANGED anchors
     \/ log' \in Rehashed(log) /\ UNCHANGED anchors
     \/ log' \in Lost(log) \cup Moved(log) \cup CutOff(log) \cup Inserted(log) /\ UNCHANGED anchors
     \/ log' \in Rewritten(log) /\ UNCHANGED anchors
     \/ UNCHANGED log /\ \E a \in anchors : anchors' = (anchors \ {a}) \cup {Corrupt}
  /\ damage' = damage + 1
  /\ UNCHANGED appended

Next == (\E body \in Body : Append_(body)) \/ Anchor \/ Damage

Spec == Init /\ [][Next]_vars

-----------------------------------------------------------------------------
(* verifyAuditChain: every problem of a log and of the anchors.            *)

\* Mutant: the links between entries are not checked.
BrokenLinks_None(entries) == {}

BrokenLinks(entries) ==
  {i \in DOMAIN entries : entries[i].snapshot.prevHash # TipHash(SubSeq(entries, 1, i - 1))}

HashMismatches(entries) == {i \in DOMAIN entries : Hash(entries[i].snapshot) # entries[i].hash}

SeqGaps(entries) == {i \in DOMAIN entries : entries[i].snapshot.seq # i - 1}

\* hashBySeq keeps the last entry of a seq.
HashBySeq(entries, seq) ==
  LET i == SelectLastInSeq(entries, LAMBDA e : e.snapshot.seq = seq)
  IN  IF i = 0 THEN Genesis ELSE entries[i].hash

AnchorProblems(entries, rows) ==
  {a \in rows : a = Corrupt \/ HashBySeq(entries, a.head.seq) # a.head.hash}

Verified(entries, rows) ==
  /\ BrokenLinks(entries) = {} /\ HashMismatches(entries) = {} /\ SeqGaps(entries) = {}
  /\ AnchorProblems(entries, rows) = {}

-----------------------------------------------------------------------------
Bodies(entries) == [i \in DOMAIN entries |-> entries[i].snapshot.body]

\* The verdict can be relied on: a log nobody touched verifies with the anchors taken of it, and
\* a log that verifies begins with all that was appended before its newest anchor, unchanged,
\* whatever was edited, rehashed, lost, moved, inserted, cut off or written again since.
VerdictIsSound ==
  /\ damage = 0 => Verified(log, anchors) /\ Bodies(log) = appended
  /\ Verified(log, anchors) =>
       \A a \in anchors : a # Corrupt /\ IsPrefix(a.witnessed, Bodies(log))
================================================================================
