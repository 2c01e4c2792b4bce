----------------------------- MODULE PolicyRouter -----------------------------
(***************************************************************************)
(* Decisions of many organizations by cached policy bundles: the router    *)
(* (foundation/authz router.ts), the key of a bundle (policy-bundle.ts),   *)
(* and the stores a bundle is built from (storage/durable registry.ts).    *)
(*                                                                         *)
(* The key is the organization with the number of its change events, or    *)
(* "system" while there is none; the bundle is built later, from the rows  *)
(* there are then; and a write changes rows first and appends its event    *)
(* afterwards.  So a build may meet rows its key does not tell of: such    *)
(* keys are contested, and nothing is claimed about what they decide.      *)
(* The organization's rows are its one slice and its one overlay.          *)
(***************************************************************************)
EXTENDS Naturals, FiniteSets, SequencesExt

CONSTANTS Org, Decision, Write, None,
          Texts,       \* what rows may say: positive numbers
          MaxBundles   \* bundles the cache holds

RouterAssumption == IsFiniteSet(Write) /\ MaxBundles \in Nat /\ None \notin Org

VARIABLES rows,       \* per organization: the text of its slice and of its overlay, 0 for no row
          changes,    \* per organization: how many change events it has
          cache,      \* the keys with their builds, the least recently used first
          builds,     \* builds, by the decision that began them
          decision,   \* per decision: where it is
          write,      \* per write: where it is
          contested   \* history: keys under which a build met a write in progress

vars == <<rows, changes, cache, builds, decision, write, contested>>

OrgRows == [slice : {0} \cup Texts, overlay : {0} \cup Texts]
NoRows == [slice |-> 0, overlay |-> 0]
NoBuild == [status |-> "none", policies |-> NoRows]

TypeOK ==
  /\ rows \in [Org -> OrgRows]
  /\ changes \in [Org -> 0..Cardinality(Write)]
  /\ Len(cache) <= MaxBundles
  /\ \A d \in Decision : builds[d].policies \in OrgRows /\ decision[d].used \in OrgRows

Init ==
  /\ rows = [o \in Org |-> NoRows] /\ changes = [o \in Org |-> 0]
  /\ cache = <<>> /\ contested = {}
  /\ builds = [d \in Decision |-> NoBuild]
  /\ decision = [d \in Decision |->
       [pc |-> "idle", org |-> None, key |-> None, build |-> None, used |-> NoRows, quiet |-> TRUE]]
  /\ write = [w \in Write |-> [pc |-> "idle", org |-> None, kind |-> "none"]]

-----------------------------------------------------------------------------
(* Writes, one statement at a time.                                        *)

Kinds == {"upsertSlice", "deleteSlice", "upsertOverlay", "deleteOverlay"}
Table(kind) == IF kind \in {"upsertSlice", "deleteSlice"} THEN "slice" ELSE "overlay"

\* A write in progress has changed rows and not yet appended its event; one that failed never will.
Changing(o) == \E w \in Write : write[w].org = o /\ write[w].pc \in {"create", "append", "failed"}

\* Decisions that are under way while the organization's rows or events change.
Disturb(o) ==
  decision' = [d \in Decision |->
                [decision[d] EXCEPT !.quiet = @ /\ ~(decision[d].org = o /\ decision[d].pc # "done")]]

\* The row is looked for: a delete of no row ends here.
Find(w, o, kind) ==
  /\ write[w].pc = "idle"
  /\ kind \in {"deleteSlice", "deleteOverlay"} => rows[o][Table(kind)] # 0
  /\ write' = [write EXCEPT ![w] = [pc |-> "change", org |-> o, kind |-> kind]]
  /\ UNCHANGED <<rows, changes, cache, builds, decision, contested>>

\* The first statement that changes a row: the slice is updated or created, the overlay deleted,
\* to be created again by the next if it is an upsert.
Change(w, text) ==
  LET o == write[w].org
      kind == write[w].kind
  IN  /\ write[w].pc = "change"
      /\ rows' = [rows EXCEPT ![o][Table(kind)] = IF kind = "upsertSlice" THEN text ELSE 0]
      /\ write' = [write EXCEPT ![w].pc = IF kind = "upsertOverlay" THEN "create" ELSE "append"]
      /\ Disturb(o)
      /\ UNCHANGED <<changes, cache, builds, contested>>

Create(w, text) ==
  /\ write[w].pc = "create"
  /\ rows' = [rows EXCEPT ![write[w].org].overlay = text]
  /\ write' = [write EXCEPT ![w].pc = "append"]
  /\ Disturb(write[w].org)
  /\ UNCHANGED <<changes, cache, builds, contested>>

\* A log that only grows, of which the length is all that a decision reads.
Appended(o) == [changes EXCEPT ![o] = @ + 1]

\* Mutant: a delete appends no change event.
AppendChange_UpsertsOnly(w) ==
  /\ write[w].pc = "append"
  /\ changes' = IF write[w].kind \in {"deleteSlice", "deleteOverlay"} THEN changes
                ELSE Appended(write[w].org)
  /\ write' = [write EXCEPT ![w].pc = "done"]
  /\ Disturb(write[w].org)
  /\ UNCHANGED <<rows, cache, builds, contested>>

AppendChange(w) ==
  /\ write[w].pc = "append"
  /\ changes' = Appended(write[w].org)
  /\ write' = [write EXCEPT ![w].pc = "done"]
  /\ Disturb(write[w].org)
  /\ UNCHANGED <<rows, cache, builds, contested>>

WriteFails(w) ==
  /\ write[w].pc \in {"change", "create", "append"}
  /\ write' = [write EXCEPT ![w].pc = IF @ = "change" THEN "done" ELSE "failed"]
  /\ UNCHANGED <<rows, changes, cache, builds, decision, contested>>

-----------------------------------------------------------------------------
(* Decisions.                                                              *)

BundleKey(o, count) == IF o = None \/ count = 0 THEN <<"system">> ELSE <<o, count>>

KeyFor(d, o) ==
  /\ decision[d].pc = "idle"
  /\ decision' = [decision EXCEPT ![d] =
       [@ EXCEPT !.pc = "lookup", !.org = o, !.quiet = ~Changing(o),
                 !.key = BundleKey(o, IF o = None THEN 0 ELSE changes[o])]]
  /\ UNCHANGED <<rows, changes, cache, builds, write, contested>>

Without(i) == IF i = 0 THEN cache ELSE RemoveAt(cache, i)

\* A hit is moved to the newest slot; a miss begins a build, which others will wait for, and the
\* oldest bundles beyond the limit go.
Lookup(d) ==
  LET key == decision[d].key
      i == SelectInSeq(cache, LAMBDA entry : entry.key = key)
      build == IF i = 0 THEN d ELSE cache[i].build
      kept == Append(Without(i), [key |-> key, build |-> build])
  IN  /\ decision[d].pc = "lookup"
      /\ cache' = IF Len(kept) > MaxBundles THEN Tail(kept) ELSE kept
      /\ builds' = IF i = 0 THEN [builds EXCEPT ![d].status = "running"] ELSE builds
      /\ decision' = [decision EXCEPT ![d].pc = "wait", ![d].build = build]
      /\ UNCHANGED <<rows, changes, write, contested>>

\* engineFor of the decision that began the build reads the rows there are now.
Build(d) ==
  LET o == decision[d].org
  IN  /\ builds[d].status = "running"
      /\ builds' = [builds EXCEPT ![d] =
           [status |-> "ready", policies |-> IF o = None THEN NoRows ELSE rows[o]]]
      /\ contested' = IF o # None /\ (Changing(o) \/ decision[d].key # BundleKey(o, changes[o]))
                        THEN contested \cup {decision[d].key} ELSE contested
      /\ UNCHANGED <<rows, changes, cache, decision, write>>

\* A build that fails fails every decision that waits for it, and leaves the cache.
BuildFails(d) ==
  /\ builds[d].status = "running"
  /\ builds' = [builds EXCEPT ![d].status = "failed"]
  /\ cache' = Without(SelectInSeq(cache, LAMBDA entry : entry.build = d))
  /\ UNCHANGED <<rows, changes, decision, write, contested>>

Authorize(d) ==
  /\ decision[d].pc = "wait" /\ builds[decision[d].build].status \in {"ready", "failed"}
  /\ decision' = [decision EXCEPT ![d].used = builds[decision[d].build].policies,
       ![d].pc = IF builds[decision[d].build].status = "ready" THEN "done" ELSE "threw"]
  /\ UNCHANGED <<rows, changes, cache, builds, write, contested>>

Next ==
  \/ \E w \in Write :
       \/ \E o \in Org, kind \in Kinds : Find(w, o, kind)
       \/ \E text \in Texts : Change(w, text) \/ Create(w, text)
       \/ AppendChange(w) \/ WriteFails(w)
  \/ \E d \in Decision :
       \/ \E o \in Org \cup {None} : KeyFor(d, o)
       \/ Lookup(d) \/ Build(d) \/ BuildFails(d) \/ Authorize(d)

Spec == Init /\ [][Next]_vars

-----------------------------------------------------------------------------
\* A decision that nobody wrote its organization's rows during, and whose key is not contested,
\* ends with the policies that the rows there are make.
DecidesByTheRows ==
  \A d \in Decision :
    (/\ decision[d].pc = "wait" /\ decision'[d].pc = "done"
     /\ decision[d].quiet /\ decision[d].key \notin contested)
      => decision'[d].used = (IF decision[d].org = None THEN NoRows ELSE rows[decision[d].org])

\* An edit takes effect with the next decision, and no organization is decided by another's
\* policies, however bundles are shared, rebuilt and dropped, unless the key a decision goes by
\* is contested (authorize, authzBundleKey, and the stores' appends).
QuietDecisionsAreCurrent == [][DecidesByTheRows]_vars
================================================================================
