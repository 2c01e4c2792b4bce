---------------------------- MODULE ProductProofs ----------------------------
(***************************************************************************)
(* Proofs about the product's parts, for any of their names and setups:    *)
(* what access the api's calls are let through with, what the history of a *)
(* run tells, and who takes a row of a store.                              *)
(***************************************************************************)
EXTENDS Components, FiniteSetTheorems, SequenceTheorems, TLAPS

----------------------------------------------------------------------------
(* The access of a caller in the entity graph.                             *)

LEMMA AccessNames ==
  /\ None \notin Access!Target /\ None \notin Access!Label /\ None \notin AccessPrincipal
  /\ AccessAnonymous \in AccessPrincipal
  /\ AccessClaw \cap AccessThread = {} /\ AccessClaw \cap AccessRun = {}
  /\ AccessThread \cap AccessRun = {}
  /\ None \notin Access!ClawRow /\ None \notin Access!ThreadRow
  /\ AccessStray \cap (AccessClaw \cup AccessThread \cup AccessRun) = {}
  /\ \A s \in AccessSetup : s \in Access!Settings
BY AccessAccessAssumption DEF Access!AccessAssumption, Access!Label

AccessNode == [base : {"scope", "grant"}, label : AccessTeam \cup {None}, level : Access!Level]
NodeOf(base, label, level) == [base |-> base, label |-> label, level |-> level]

\* A node, and that of the level below it.
LEMMA ClimbOnce ==
  ASSUME NEW S \in SUBSET AccessNode, NEW base, NEW label
  PROVE  /\ Access!Climb(S) \subseteq AccessNode
         /\ NodeOf(base, label, "manage") \in Access!Climb(S) <=> NodeOf(base, label, "manage") \in S
         /\ NodeOf(base, label, "use") \in Access!Climb(S)
              <=> NodeOf(base, label, "use") \in S \/ NodeOf(base, label, "manage") \in S
         /\ NodeOf(base, label, "read") \in Access!Climb(S)
              <=> NodeOf(base, label, "read") \in S \/ NodeOf(base, label, "use") \in S
<1>1. ASSUME NEW n \in AccessNode
      PROVE  /\ Access!Parents(n) \subseteq AccessNode
             /\ NodeOf(base, label, "manage") \notin Access!Parents(n)
             /\ NodeOf(base, label, "use") \in Access!Parents(n) <=> n = NodeOf(base, label, "manage")
             /\ NodeOf(base, label, "read") \in Access!Parents(n) <=> n = NodeOf(base, label, "use")
  <2>1. n = NodeOf(n.base, n.label, n.level) /\ n.level \in Access!Level
    BY DEF AccessNode, NodeOf
  <2>2. Access!Parents(n) = IF n.level = "manage" THEN {NodeOf(n.base, n.label, "use")}
                            ELSE IF n.level = "use" THEN {NodeOf(n.base, n.label, "read")} ELSE {}
    BY <2>1 DEF Access!Parents, Access!Level, NodeOf
  <2>3. \A l \in Access!Level : NodeOf(n.base, n.label, l) \in AccessNode
    BY DEF AccessNode, NodeOf
  <2>4. \A l, m : NodeOf(base, label, l) = NodeOf(n.base, n.label, m)
                    <=> base = n.base /\ label = n.label /\ l = m
    BY DEF NodeOf
  <2>5. \A l : n = NodeOf(base, label, l) <=> base = n.base /\ label = n.label /\ l = n.level
    BY <2>1, <2>4
  <2>. QED BY <2>1, <2>2, <2>3, <2>4, <2>5 DEF Access!Level
<1>2. \A n : n \in Access!Climb(S) <=> n \in S \/ \E m \in S : n \in Access!Parents(m)
  BY DEF Access!Climb
<1>. QED BY <1>1, <1>2

\* Who is in a node of a level is in a node of that level or above.
LEMMA ClimbIs ==
  ASSUME NEW S \in SUBSET AccessNode, NEW base, NEW label, NEW level \in Access!Level
  PROVE  NodeOf(base, label, level) \in Access!Climb(Access!Climb(S))
           <=> \E v \in Access!Level : NodeOf(base, label, v) \in S /\ Access!AtLeast(v, level)
<1> DEFINE C == Access!Climb(S)
<1>1. /\ C \subseteq AccessNode
      /\ NodeOf(base, label, "manage") \in C <=> NodeOf(base, label, "manage") \in S
      /\ NodeOf(base, label, "use") \in C
           <=> NodeOf(base, label, "use") \in S \/ NodeOf(base, label, "manage") \in S
      /\ NodeOf(base, label, "read") \in C
           <=> NodeOf(base, label, "read") \in S \/ NodeOf(base, label, "use") \in S
  BY ClimbOnce
<1>. HIDE DEF C
<1>2. /\ NodeOf(base, label, "manage") \in Access!Climb(C) <=> NodeOf(base, label, "manage") \in C
      /\ NodeOf(base, label, "use") \in Access!Climb(C)
           <=> NodeOf(base, label, "use") \in C \/ NodeOf(base, label, "manage") \in C
      /\ NodeOf(base, label, "read") \in Access!Climb(C)
           <=> NodeOf(base, label, "read") \in C \/ NodeOf(base, label, "use") \in C
  BY <1>1, ClimbOnce
<1>3. NodeOf(base, label, level) \in Access!Climb(C) <=>
        \E v \in Access!Level : NodeOf(base, label, v) \in S /\ Access!AtLeast(v, level)
  BY <1>1, <1>2 DEF Access!Level, Access!AtLeast, Access!Rank
<1>. QED BY <1>3 DEF C

\* What the engine permits, in terms of what the call has read.
LEMMA PermitsIs ==
  ASSUME NEW c \in Access!CallRec
  PROVE  /\ Access!ScopePermits(c) <=>
              /\ c.shape.label # None
              /\ \E s \in c.scopes : s.label = c.shape.label /\ Access!AtLeast(s.level, Access!LevelOf(c.method))
         /\ Access!GrantPermits(c) <=>
              \E g \in c.shape.grants : Access!GrantReaches(g, c) /\ Access!AtLeast(g.level, Access!LevelOf(c.method))
<1> DEFINE level == Access!LevelOf(c.method)
           label == c.shape.label
           nodes == Access!HeldNodes(c)
<1>1. level \in Access!Level
  BY DEF Access!LevelOf, Access!Level
<1>2. /\ c.scopes \subseteq Access!Scope /\ c.shape.grants \subseteq Access!Grant
  BY DEF Access!CallRec, Access!Shape
<1>3. nodes \subseteq AccessNode
  BY <1>2 DEF Access!HeldNodes, Access!ScopeNode, Access!GrantNode, Access!Scope, Access!Grant, AccessNode
<1>4. \A v : NodeOf("scope", label, v) \in nodes <=> \E s \in c.scopes : s.label = label /\ s.level = v
  BY DEF Access!HeldNodes, Access!ScopeNode, Access!GrantNode, NodeOf
<1>5. \A v : NodeOf("grant", None, v) \in nodes <=>
               \E g \in c.shape.grants : Access!GrantReaches(g, c) /\ g.level = v
  BY DEF Access!HeldNodes, Access!ScopeNode, Access!GrantNode, NodeOf
<1>6. Access!ScopePermits(c) <=>
        label # None /\ NodeOf("scope", label, level) \in Access!Climb(Access!Climb(nodes))
  BY DEF Access!ScopePermits, Access!In, Access!ScopeNode, NodeOf
<1>7. Access!GrantPermits(c) <=> NodeOf("grant", None, level) \in Access!Climb(Access!Climb(nodes))
  BY DEF Access!GrantPermits, Access!In, Access!GrantNode, NodeOf
<1>8. \A s \in c.scopes : s.level \in Access!Level
  BY <1>2 DEF Access!Scope
<1>9. \A g \in c.shape.grants : g.level \in Access!Level
  BY <1>2 DEF Access!Grant
<1>. HIDE DEF level, nodes, label
<1>10. \A base, lab : NodeOf(base, lab, level) \in Access!Climb(Access!Climb(nodes))
           <=> \E v \in Access!Level : NodeOf(base, lab, v) \in nodes /\ Access!AtLeast(v, level)
  BY <1>1, <1>3, ClimbIs
<1>11. Access!ScopePermits(c) <=>
         label # None /\ \E s \in c.scopes : s.label = label /\ Access!AtLeast(s.level, level)
  BY <1>4, <1>6, <1>8, <1>10
<1>12. Access!GrantPermits(c) <=>
         \E g \in c.shape.grants : Access!GrantReaches(g, c) /\ Access!AtLeast(g.level, level)
  BY <1>5, <1>7, <1>9, <1>10
<1>. QED BY <1>11, <1>12 DEF level, label
----------------------------------------------------------------------------
(* What a call has read of its resource.                                   *)

\* The resource and what it inherits from are there, and the call has its owner and label; its
\* grants are of the resource, were there at some moment, and are all that were there throughout.
ShapeIsLoaded(c, s, w) ==
  /\ c.target \in Access!Rows /\ Access!KeysOf(c.target) \subseteq Access!Rows
  /\ c.shape.owner = Access!BaseOf(c.target).owner /\ c.shape.label = Access!BaseOf(c.target).label
  /\ c.keys \subseteq Access!KeysOf(c.target)
  /\ \A g \in c.shape.grants : g \in s.grants /\ g.on \in Access!KeysOf(c.target)
  /\ \A g \in w.grants : g.on \in Access!KeysOf(c.target) \ c.keys => g \in c.shape.grants

\* The resource was not there, or not what it inherits from.
ShapeIsMissing(c, w) ==
  /\ c.shape = Access!NoShape
  /\ ~ (c.target \in w.rows /\ Access!KeysOf(c.target) \subseteq w.rows)

\* What a method is anchored on is what the call names.
IsPosed(c) ==
  /\ IF Access!Anchors(c.method) = {} THEN c.target = None
     ELSE c.target \in Access!Anchors(c.method) /\ c.method \notin Access!CreateMethods
  /\ c.method = "createThread" => c.target \in AccessClaw
  /\ c.method = "shareResource" => c.target \in Access!Target

\* Where a call is, given what held at some moment (s) and throughout (w).
WindowOK(c, step, s, w) ==
  /\ s.rows \subseteq Access!Rows /\ w.rows \subseteq Access!Rows
  /\ step \in Access!Deciding =>
       /\ Access!Rows \subseteq s.rows
       /\ grants \subseteq s.grants /\ w.grants \subseteq grants
       /\ Access!HeldBy(c.by) \subseteq s.scopes /\ w.scopes \subseteq Access!HeldBy(c.by)

ShapeOK(c, step, s, w) ==
  /\ step \in {"thread", "row"} => c.shape = Access!NoShape
  /\ step = "thread" => c.target \in AccessThread
  /\ step = "row" =>
       \/ c.target \in AccessClaw \cup AccessRun /\ c.keys = {c.target}
       \/ /\ c.target \in AccessThread /\ thread[c.target] # None
          /\ c.keys = {c.target, thread[c.target].claw}
  /\ step = "grants" => ShapeIsLoaded(c, s, w)
  /\ step \in {"scopes", "decide"} =>
       \/ Access!Anchors(c.method) = {} /\ c.shape = Access!FirstShape(c)
       \/ Access!Anchors(c.method) # {} /\ ShapeIsMissing(c, w)
       \/ Access!Anchors(c.method) # {} /\ ShapeIsLoaded(c, s, w) /\ c.keys = {}
  /\ step = "decide" => c.scopes \subseteq s.scopes /\ w.scopes \subseteq c.scopes

DecidedOK(c, step, s, w) ==
  /\ step = "permitted" /\ config.posture = "enforce" /\ c.method \notin config.permits =>
       Access!Entitled(c, s)
  /\ step = "denied" => c.method \in config.forbids \/ ~ Access!Entitled(c, w)

GovernedOK(c, step, s, w) ==
  /\ IsPosed(c)
  /\ WindowOK(c, step, s, w) /\ ShapeOK(c, step, s, w) /\ DecidedOK(c, step, s, w)

AccessInv ==
  /\ Access!TypeOK
  /\ \A k \in AccessCall : GovernedOK(apiCall[k], pc[k], seen[k], steady[k])

LEMMA RequestIs ==
  ASSUME NEW c \in Access!Request
  PROVE  /\ c \in Access!CallRec /\ IsPosed(c)
         /\ c.shape = Access!NoShape /\ c.keys = {} /\ c.scopes = {}
<1>1. ASSUME NEW m \in Access!Method, NEW by \in Access!Owner, NEW x \in Access!Target \cup {None},
             NEW d \in AccessClaw \cup AccessThread \cup {None}, NEW ref \in Access!Ref,
             NEW level \in Access!Level,
             IF Access!Anchors(m) = {} THEN x = None
             ELSE x \in Access!Anchors(m) /\ m \notin Access!CreateMethods,
             m = "createThread" => x \in AccessClaw, m = "shareResource" => x \in Access!Target,
             c = Access!NewCall(m, by, x, d, ref, level)
      PROVE  /\ c \in Access!CallRec /\ IsPosed(c)
             /\ c.shape = Access!NoShape /\ c.keys = {} /\ c.scopes = {}
  BY <1>1 DEF Access!NewCall, Access!CallRec, Access!Shape, Access!NoShape, IsPosed, Access!Owner
<1> DEFINE Goal == /\ c \in Access!CallRec /\ IsPosed(c)
                   /\ c.shape = Access!NoShape /\ c.keys = {} /\ c.scopes = {}
<1>2. "public" \in Access!Ref /\ "read" \in Access!Level
  BY DEF Access!Ref, Access!Level
<1>3. ASSUME NEW by \in Access!Owner, NEW d \in AccessClaw,
             c = Access!NewCall("createClaw", by, None, d, "public", "read")
      PROVE  Goal
  <2>1. "createClaw" \in Access!Method /\ Access!Anchors("createClaw") = {}
    BY DEF Access!Method, Access!ManageMethods, Access!Anchors
  <2>. QED BY <1>1, <1>2, <1>3, <2>1
<1>4. ASSUME NEW m \in {"createThread", "appendMessage", "sendMessage"}, NEW by \in Access!Owner,
             NEW x \in AccessClaw, NEW d \in AccessThread,
             c = Access!NewCall(m, by, x, d, "public", "read")
      PROVE  Goal
  <2>1. /\ m \in Access!Method /\ Access!Anchors(m) = AccessClaw /\ m \notin Access!CreateMethods
        /\ x \in Access!Target
    BY DEF Access!Method, Access!UseMethods, Access!Anchors, Access!CreateMethods, Access!Target
  <2>. QED BY <1>1, <1>2, <1>4, <2>1
<1>5. ASSUME NEW m \in {"shareResource", "unshareResource"}, NEW by \in Access!Owner,
             NEW x \in Access!Target, NEW ref \in Access!Ref, NEW level \in Access!Level,
             c = Access!NewCall(m, by, x, None, ref, level)
      PROVE  Goal
  <2>1. m \in Access!Method /\ Access!Anchors(m) = Access!Target /\ m \notin Access!CreateMethods
    BY DEF Access!Method, Access!ManageMethods, Access!Anchors, Access!CreateMethods
  <2>. QED BY <1>1, <1>5, <2>1
<1>6. ASSUME NEW m \in {"getClaw", "updateClaw", "archiveClaw", "listThreads"}, NEW by \in Access!Owner,
             NEW x \in AccessClaw, c = Access!NewCall(m, by, x, None, "public", "read")
      PROVE  Goal
  <2>1. /\ m \in Access!Method /\ Access!Anchors(m) = AccessClaw /\ m \notin Access!CreateMethods
        /\ x \in Access!Target
    BY DEF Access!Method, Access!ReadMethods, Access!ManageMethods, Access!Anchors,
           Access!CreateMethods, Access!Target
  <2>. QED BY <1>1, <1>2, <1>6, <2>1
<1>7. ASSUME NEW m \in {"getThread", "archiveThread", "listMessages"}, NEW by \in Access!Owner,
             NEW x \in AccessThread, c = Access!NewCall(m, by, x, None, "public", "read")
      PROVE  Goal
  <2>1. /\ m \in Access!Method /\ Access!Anchors(m) = AccessThread /\ m \notin Access!CreateMethods
        /\ x \in Access!Target
    BY DEF Access!Method, Access!ReadMethods, Access!ManageMethods, Access!Anchors,
           Access!CreateMethods, Access!Target
  <2>. QED BY <1>1, <1>2, <1>7, <2>1
<1>8. ASSUME NEW m \in {"getRun", "listRunEvents"}, NEW by \in Access!Owner,
             NEW x \in AccessRun, c = Access!NewCall(m, by, x, None, "public", "read")
      PROVE  Goal
  <2>1. /\ m \in Access!Method /\ Access!Anchors(m) = AccessRun /\ m \notin Access!CreateMethods
        /\ x \in Access!Target
    BY DEF Access!Method, Access!ReadMethods, Access!Anchors, Access!CreateMethods, Access!Target
  <2>. QED BY <1>1, <1>2, <1>8, <2>1
<1>9. ASSUME NEW m \in {"getMessage", "generate", "forgetSubject", "plugin"}, NEW by \in Access!Owner,
             c = Access!NewCall(m, by, None, None, "public", "read")
      PROVE  Goal
  <2>1. m \in Access!Method /\ Access!Anchors(m) = {}
    BY DEF Access!Method, Access!ReadMethods, Access!UseMethods, Access!ManageMethods, Access!Anchors
  <2>. QED BY <1>1, <1>2, <1>9, <2>1
<1>. HIDE DEF Goal
<1>10. Goal
  BY <1>3, <1>4, <1>5, <1>6, <1>7, <1>8, <1>9 DEF Access!Request
<1>. QED BY <1>10 DEF Goal

\* Rows come and are never gone, nor do they change owner, label or claw.
RowsExtend ==
  /\ config' = config
  /\ \A x \in AccessClaw : claw[x] # None =>
       claw'[x] # None /\ claw'[x].owner = claw[x].owner /\ claw'[x].label = claw[x].label
  /\ \A t \in AccessThread : thread[t] # None => thread'[t] # None /\ thread'[t].claw = thread[t].claw

LEMMA RowsLast ==
  ASSUME Access!TypeOK, RowsExtend
  PROVE  Access!Rows \subseteq Access!Rows' /\ Access!Rows \subseteq Access!Target
BY DEF RowsExtend, Access!Rows, Access!Target

\* What is read of a resource that is there stays what it is.
LEMMA ResourceLasts ==
  ASSUME Access!TypeOK, RowsExtend, NEW r, r \subseteq Access!Rows, NEW x
  PROVE  /\ (x \in r /\ Access!KeysOf(x) \subseteq r) <=> (x \in r /\ Access!KeysOf(x)' \subseteq r)
         /\ x \in r /\ Access!KeysOf(x) \subseteq r =>
              Access!KeysOf(x)' = Access!KeysOf(x) /\ Access!BaseOf(x)' = Access!BaseOf(x)
<1>1. CASE x \in AccessThread
  <2>1. x \in r => thread[x] # None
    BY <1>1, AccessNames DEF Access!Rows
  <2>2. ASSUME x \in r
        PROVE  /\ Access!KeysOf(x)' = Access!KeysOf(x) /\ Access!KeysOf(x) = {x, thread[x].claw}
               /\ thread'[x].claw = thread[x].claw /\ thread[x].claw \in AccessClaw
    BY <1>1, <2>1, <2>2 DEF RowsExtend, Access!KeysOf, Access!TypeOK, Access!ThreadRow
  <2>3. ASSUME x \in r, Access!KeysOf(x) \subseteq r
        PROVE  Access!BaseOf(x)' = Access!BaseOf(x)
    <3> DEFINE y == thread[x].claw
    <3>1. /\ y \in AccessClaw /\ claw[y] # None /\ y \notin AccessRun /\ thread'[x].claw = y
      BY <2>2, <2>3, AccessNames DEF Access!Rows
    <3>2. claw'[y] # None /\ claw'[y].owner = claw[y].owner /\ claw'[y].label = claw[y].label
      BY <3>1 DEF RowsExtend
    <3>. HIDE DEF y
    <3>3. Access!BaseOf(x) = [owner |-> claw[y].owner, label |-> claw[y].label, grants |-> {}]
      BY <1>1, <3>1 DEF Access!BaseOf, Access!Base, y
    <3>4. Access!BaseOf(x)' = [owner |-> claw'[y].owner, label |-> claw'[y].label, grants |-> {}]
      BY <1>1, <3>1, <3>2 DEF Access!BaseOf, Access!Base
    <3>. QED BY <3>2, <3>3, <3>4
  <2>. QED BY <2>2, <2>3
<1>2. CASE x \notin AccessThread
  <2>1. Access!KeysOf(x)' = Access!KeysOf(x)
    BY <1>2 DEF Access!KeysOf
  <2>2. ASSUME x \in r
        PROVE  Access!BaseOf(x)' = Access!BaseOf(x)
    <3>1. x \in AccessRun \/ (x \in AccessClaw /\ claw[x] # None /\ x \notin AccessRun)
      BY <1>2, <2>2, AccessNames DEF Access!Rows
    <3>. QED BY <1>2, <3>1 DEF RowsExtend, Access!BaseOf, Access!Base
  <2>. QED BY <2>1, <2>2
<1>. QED BY <1>1, <1>2

LEMMA EntitledLasts ==
  ASSUME Access!TypeOK, RowsExtend, NEW c, NEW w, w.rows \subseteq Access!Rows
  PROVE  Access!Entitled(c, w)' <=> Access!Entitled(c, w)
<1> DEFINE there == c.target \in w.rows /\ Access!KeysOf(c.target) \subseteq w.rows
           has(keys, base) ==
             \/ base.owner = c.by
             \/ \E s \in w.scopes : s.label = base.label /\ Access!AtLeast(s.level, Access!LevelOf(c.method))
             \/ \E g \in w.grants :
                  /\ g.on \in keys
                  /\ Access!AtLeast(g.level, Access!LevelOf(c.method))
                  /\ Access!GrantReaches(g, [c EXCEPT !.scopes = w.scopes])
           free == c.method \in Access!CreateMethods \/ Access!Anchors(c.method) = {}
<1>1. Access!Entitled(c, w) <=>
        c.by # None /\ (free \/ (there /\ has(Access!KeysOf(c.target), Access!BaseOf(c.target))))
  BY Zenon DEF Access!Entitled
<1>2. Access!Entitled(c, w)' <=>
        /\ c.by # None
        /\ free \/ (/\ c.target \in w.rows /\ Access!KeysOf(c.target)' \subseteq w.rows
                    /\ has(Access!KeysOf(c.target)', Access!BaseOf(c.target)'))
  BY Zenon DEF Access!Entitled
<1>3. /\ there <=> c.target \in w.rows /\ Access!KeysOf(c.target)' \subseteq w.rows
      /\ there => /\ Access!KeysOf(c.target)' = Access!KeysOf(c.target)
                  /\ Access!BaseOf(c.target)' = Access!BaseOf(c.target)
  BY ResourceLasts
<1>. HIDE DEF has, free
<1>. QED BY <1>1, <1>2, <1>3
\* What a call has read stays right while rows and grants change, as long as its windows do.
LEMMA GovernedLasts ==
  ASSUME Access!TypeOK, RowsExtend,
         NEW c, NEW step, NEW s, NEW w, GovernedOK(c, step, s, w),
         NEW s2, NEW w2, WindowOK(c, step, s2, w2)',
         IF step \in Access!Deciding
           THEN /\ s.grants \subseteq s2.grants /\ s.scopes \subseteq s2.scopes
                /\ w2.rows \subseteq w.rows /\ w2.grants \subseteq w.grants /\ w2.scopes \subseteq w.scopes
           ELSE s2 = s /\ w2 = w
  PROVE  GovernedOK(c, step, s2, w2)'
<1>1. w.rows \subseteq Access!Rows /\ s.rows \subseteq Access!Rows
  BY DEF GovernedOK, WindowOK
<1>2. ASSUME step \in Access!Deciding, ShapeIsMissing(c, w)
      PROVE  ShapeIsMissing(c, w2)'
  <2>1. ~ (c.target \in w.rows /\ Access!KeysOf(c.target)' \subseteq w.rows)
    BY <1>1, <1>2, ResourceLasts DEF ShapeIsMissing
  <2>. QED BY <1>2, <2>1 DEF ShapeIsMissing
<1>3. ASSUME step \in Access!Deciding, ShapeIsLoaded(c, s, w)
      PROVE  ShapeIsLoaded(c, s2, w2)'
  <2>1. /\ c.target \in Access!Rows /\ Access!KeysOf(c.target) \subseteq Access!Rows
        /\ Access!Rows \subseteq Access!Rows'
    BY <1>3, RowsLast DEF ShapeIsLoaded
  <2>2. /\ Access!KeysOf(c.target)' = Access!KeysOf(c.target)
        /\ Access!BaseOf(c.target)' = Access!BaseOf(c.target)
    BY <2>1, ResourceLasts
  <2>. QED BY <1>3, <2>1, <2>2 DEF ShapeIsLoaded
<1>4. ShapeOK(c, step, s2, w2)'
  <2>1. CASE step \in {"thread", "row"}
    BY <2>1 DEF GovernedOK, ShapeOK, RowsExtend
  <2>2. CASE step = "grants"
    <3>1. ShapeIsLoaded(c, s2, w2)'
      BY <1>3, <2>2 DEF GovernedOK, ShapeOK, Access!Deciding
    <3>. QED BY <2>2, <3>1 DEF ShapeOK
  <2>3. CASE step \in {"scopes", "decide"}
    <3>1. \/ Access!Anchors(c.method) = {} /\ c.shape = Access!FirstShape(c)
          \/ Access!Anchors(c.method) # {} /\ ShapeIsMissing(c, w2)'
          \/ Access!Anchors(c.method) # {} /\ ShapeIsLoaded(c, s2, w2)' /\ c.keys = {}
      BY <1>2, <1>3, <2>3 DEF GovernedOK, ShapeOK, Access!Deciding
    <3>2. step = "decide" => c.scopes \subseteq s2.scopes /\ w2.scopes \subseteq c.scopes
      BY <2>3 DEF GovernedOK, ShapeOK, Access!Deciding
    <3>. QED BY <2>3, <3>1, <3>2 DEF ShapeOK
  <2>4. CASE step \notin Access!Deciding
    BY <2>4 DEF ShapeOK, Access!Deciding
  <2>. QED BY <2>1, <2>2, <2>3, <2>4 DEF Access!Deciding
<1>5. DecidedOK(c, step, s2, w2)'
  <2>1. step \in {"permitted", "denied"} => s2 = s /\ w2 = w
    BY DEF Access!Deciding
  <2>2. Access!Entitled(c, s)' <=> Access!Entitled(c, s)
    BY <1>1, EntitledLasts
  <2>3. Access!Entitled(c, w)' <=> Access!Entitled(c, w)
    BY <1>1, EntitledLasts
  <2>4. config' = config /\ DecidedOK(c, step, s, w)
    BY DEF RowsExtend, GovernedOK
  <2>. QED BY <2>1, <2>2, <2>3, <2>4 DEF DecidedOK
<1>. QED BY <1>4, <1>5 DEF GovernedOK

\* A step by which one call goes on and nothing else changes.
LEMMA AccessGoes ==
  ASSUME AccessInv, NEW k \in AccessCall, NEW c \in Access!CallRec,
         NEW step \in Access!Deciding \cup {"idle", "permitted", "denied"},
         NEW s \in Access!Window, NEW w \in Access!Window,
         apiCall' = [apiCall EXCEPT ![k] = c], pc' = [pc EXCEPT ![k] = step],
         seen' = [seen EXCEPT ![k] = s], steady' = [steady EXCEPT ![k] = w],
         UNCHANGED <<config, claw, thread, grants, held>>, calls' \in Nat, scopeChanges' \in Nat,
         GovernedOK(c, step, s, w)
  PROVE  AccessInv'
<1>1. Access!TypeOK'
  BY DEF AccessInv, Access!TypeOK
<1>2. RowsExtend
  BY DEF RowsExtend
<1>3. ASSUME NEW j \in AccessCall
      PROVE  GovernedOK(apiCall[j], pc[j], seen[j], steady[j])'
  <2>1. PICK x, st, a, b : x = apiCall'[j] /\ st = pc'[j] /\ a = seen'[j] /\ b = steady'[j]
    OBVIOUS
  <2>2. GovernedOK(x, st, a, b)
    BY <2>1 DEF AccessInv, Access!TypeOK
  <2>3. WindowOK(x, st, a, b)'
    BY <2>2 DEF GovernedOK, WindowOK, Access!Rows, Access!HeldBy
  <2>4. GovernedOK(x, st, a, b)'
    BY <1>2, <2>2, <2>3, GovernedLasts DEF AccessInv
  <2>. QED BY <2>1, <2>4 DEF GovernedOK, WindowOK, ShapeOK, DecidedOK, ShapeIsLoaded, ShapeIsMissing
<1>. QED BY <1>1, <1>3 DEF AccessInv
LEMMA Governed ==
  ASSUME AccessInv, NEW k \in AccessCall
  PROVE  /\ apiCall[k] \in Access!CallRec /\ pc[k] \in Access!Deciding \cup {"idle", "permitted", "denied"}
         /\ seen[k] \in Access!Window /\ steady[k] \in Access!Window
         /\ GovernedOK(apiCall[k], pc[k], seen[k], steady[k])
         /\ apiCall = [apiCall EXCEPT ![k] = apiCall[k]] /\ pc = [pc EXCEPT ![k] = pc[k]]
         /\ seen = [seen EXCEPT ![k] = seen[k]] /\ steady = [steady EXCEPT ![k] = steady[k]]
BY DEF AccessInv, Access!TypeOK

LEMMA NoCallIs ==
  /\ Access!NoCall \in Access!CallRec /\ IsPosed(Access!NoCall)
  /\ Access!Nothing \in Access!Window /\ Access!Nothing.rows = {}
<1>1. Access!NoCall \in Access!CallRec /\ IsPosed(Access!NoCall)
  BY DEF Access!NoCall, Access!NewCall, Access!NoShape, Access!CallRec, Access!Shape, Access!Method,
         Access!ReadMethods, Access!Owner, Access!Ref, Access!Level, IsPosed, Access!Anchors
<1>2. Access!Nothing \in Access!Window /\ Access!Nothing.rows = {}
  BY DEF Access!Nothing, Access!Window
<1>. QED BY <1>1, <1>2

LEMMA NoCallGoes == GovernedOK(Access!NoCall, "idle", Access!Nothing, Access!Nothing)
BY NoCallIs DEF GovernedOK, WindowOK, ShapeOK, DecidedOK, Access!Deciding

LEMMA AccessInit == Access!Init => AccessInv
<1>. SUFFICES ASSUME Access!Init PROVE AccessInv
  OBVIOUS
<1>1. config \in Access!Settings /\ config \in AccessSetup
  BY AccessNames DEF Access!Init
<1>2. \A k \in AccessCall : GovernedOK(apiCall[k], pc[k], seen[k], steady[k])
  BY NoCallGoes DEF Access!Init
<1>3. /\ apiCall \in [AccessCall -> Access!CallRec] /\ seen \in [AccessCall -> Access!Window]
      /\ steady \in [AccessCall -> Access!Window]
  BY NoCallIs DEF Access!Init
<1>4. claw \in [AccessClaw -> Access!ClawRow \cup {None}]
  BY <1>1 DEF Access!Init, Access!Settings, Access!ClawRow, Access!Owner, Access!ClawStatus
<1>5. thread \in [AccessThread -> Access!ThreadRow \cup {None}]
  BY <1>1 DEF Access!Init, Access!Settings, Access!ThreadRow
<1>6. grants \subseteq Access!Grant /\ held \in [AccessPrincipal -> SUBSET Access!Scope]
  BY DEF Access!Init
<1>. QED BY <1>1, <1>2, <1>3, <1>4, <1>5, <1>6 DEF AccessInv, Access!TypeOK, Access!Init

LEMMA HeldIs ==
  ASSUME Access!TypeOK, NEW by \in Access!Owner
  PROVE  Access!HeldBy(by) \in SUBSET Access!Scope
BY DEF Access!TypeOK, Access!HeldBy, Access!Owner

LEMMA RowsAre ==
  ASSUME Access!TypeOK
  PROVE  Access!Rows \in SUBSET Access!Target
BY DEF Access!Rows, Access!Target

LEMMA ArriveStep ==
  ASSUME AccessInv, NEW k \in AccessCall, NEW c \in config.traffic, Access!Arrive(k, c)
  PROVE  AccessInv'
<1> DEFINE keys == {c.target} \cap (AccessClaw \cup AccessRun)
           new == [c EXCEPT !.shape = Access!FirstShape(c), !.keys = keys]
           now == IF config.posture = "open" THEN Access!Nothing
                  ELSE [rows |-> Access!Rows, grants |-> grants, scopes |-> Access!HeldBy(c.by)]
           step == Access!FirstStep(c)
<1>1. /\ c \in Access!Request /\ config \in AccessSetup /\ Access!TypeOK
  BY AccessNames DEF AccessInv, Access!TypeOK, Access!Settings
<1>2. /\ c \in Access!CallRec /\ IsPosed(c)
      /\ c.shape = Access!NoShape /\ c.keys = {} /\ c.scopes = {} /\ c.by \in Access!Owner
  BY <1>1, RequestIs DEF Access!CallRec
<1>3. Access!FirstShape(c) \in Access!Shape
  BY <1>2 DEF Access!FirstShape, Access!PersonalScope, Access!NoShape, Access!Shape, Access!Owner,
              Access!Label
<1>4. /\ new \in Access!CallRec /\ new.shape = Access!FirstShape(c) /\ new.keys = keys
      /\ new.target = c.target /\ new.method = c.method /\ new.by = c.by
  BY <1>2, <1>3 DEF Access!CallRec
<1>5. /\ now \in Access!Window /\ now.rows \subseteq Access!Rows
      /\ config.posture # "open" =>
           now.rows = Access!Rows /\ now.grants = grants /\ now.scopes = Access!HeldBy(c.by)
  <2>1. grants \in SUBSET Access!Grant
    BY <1>1 DEF Access!TypeOK
  <2>. QED BY <1>1, <1>2, <2>1, HeldIs, RowsAre DEF Access!Nothing, Access!Window
<1>6. step = IF config.posture = "open" THEN "permitted"
             ELSE IF c.target \in AccessThread THEN "thread"
             ELSE IF c.target \in AccessClaw \cup AccessRun THEN "row" ELSE "scopes"
  BY AccessNames DEF Access!FirstStep
<1>7. Access!FirstShape(new) = Access!FirstShape(c)
  BY <1>4 DEF Access!FirstShape
<1>8. /\ calls' \in Nat /\ scopeChanges' \in Nat
      /\ apiCall' = [apiCall EXCEPT ![k] = new] /\ pc' = [pc EXCEPT ![k] = step]
      /\ seen' = [seen EXCEPT ![k] = now] /\ steady' = [steady EXCEPT ![k] = now]
      /\ UNCHANGED <<config, claw, thread, grants, held>>
  BY <1>1 DEF Access!Arrive, Access!TypeOK, Access!rows
<1>. HIDE DEF new, now, step
<1>9. WindowOK(new, step, now, now)
  BY <1>4, <1>5, <1>6 DEF WindowOK, Access!Deciding
<1>10. DecidedOK(new, step, now, now)
  BY <1>6 DEF DecidedOK
<1>11. IsPosed(new)
  BY <1>2, <1>4 DEF IsPosed
<1>12. ShapeOK(new, step, now, now)
  <2>1. CASE c.target \in AccessThread \cup AccessClaw \cup AccessRun
    <3>1. new.shape = Access!NoShape
      BY <1>2, <1>4, <2>1, AccessNames DEF IsPosed, Access!FirstShape, Access!Target
    <3>. QED BY <1>4, <1>6, <2>1, <3>1, AccessNames DEF ShapeOK
  <2>2. CASE c.target \notin AccessThread \cup AccessClaw \cup AccessRun
    <3>1. Access!Anchors(c.method) # {} => new.shape = Access!NoShape
      BY <1>4 DEF Access!FirstShape
    <3>2. c.target \notin now.rows
      BY <1>5, <2>2 DEF Access!Rows
    <3>. QED BY <1>4, <1>6, <1>7, <2>2, <3>1, <3>2 DEF ShapeOK, ShapeIsMissing
  <2>. QED BY <2>1, <2>2
<1>13. step \in Access!Deciding \cup {"idle", "permitted", "denied"}
  BY <1>6 DEF Access!Deciding
<1>. QED BY <1>4, <1>5, <1>8, <1>9, <1>10, <1>11, <1>12, <1>13, AccessGoes DEF GovernedOK

LEMMA LoadThreadStep ==
  ASSUME AccessInv, NEW k \in AccessCall, Access!LoadThread(k)
  PROVE  AccessInv'
<1> DEFINE c == apiCall[k]
           t == c.target
           s == seen[k]
           w == steady[k]
<1>1. /\ c \in Access!CallRec /\ s \in Access!Window /\ w \in Access!Window /\ pc[k] = "thread"
      /\ GovernedOK(c, "thread", s, w)
      /\ seen' = [seen EXCEPT ![k] = s] /\ steady' = [steady EXCEPT ![k] = w]
      /\ UNCHANGED <<config, claw, thread, grants, held, calls, scopeChanges>>
  BY Governed DEF Access!LoadThread, Access!bounds, Access!rows
<1>2. calls' \in Nat /\ scopeChanges' \in Nat
  BY <1>1 DEF AccessInv, Access!TypeOK
<1>3. t \in AccessThread /\ c.shape = Access!NoShape /\ WindowOK(c, "thread", s, w) /\ IsPosed(c)
  BY <1>1 DEF GovernedOK, ShapeOK
<1>4. Access!Anchors(c.method) # {}
  BY <1>3, AccessNames DEF IsPosed, Access!Target
<1>5. CASE thread[t] = None
  <2>1. t \notin w.rows
    BY <1>3, <1>5, AccessNames DEF WindowOK, Access!Rows
  <2>2. GovernedOK(c, "scopes", s, w)
    BY <1>3, <1>4, <2>1 DEF GovernedOK, WindowOK, ShapeOK, ShapeIsMissing, DecidedOK, Access!Deciding
  <2>3. pc' = [pc EXCEPT ![k] = "scopes"] /\ apiCall' = [apiCall EXCEPT ![k] = c]
    BY <1>5, Governed DEF Access!LoadThread
  <2>. HIDE DEF c, s, w
  <2>. QED BY <1>1, <1>2, <2>2, <2>3, AccessGoes DEF Access!Deciding
<1>6. CASE thread[t] # None
  <2> DEFINE keys == {t, thread[t].claw}
             new == [c EXCEPT !.keys = keys]
  <2>1. thread[t].claw \in AccessClaw
    BY <1>3, <1>6 DEF AccessInv, Access!TypeOK, Access!ThreadRow
  <2>2. /\ new \in Access!CallRec /\ new.keys = keys /\ new.shape = c.shape
        /\ new.target = t /\ new.method = c.method /\ new.by = c.by
    BY <1>1, <1>3, <2>1 DEF Access!CallRec
  <2>3. GovernedOK(new, "row", s, w)
    BY <1>3, <1>6, <2>2 DEF GovernedOK, WindowOK, ShapeOK, DecidedOK, Access!Deciding, IsPosed
  <2>4. pc' = [pc EXCEPT ![k] = "row"] /\ apiCall' = [apiCall EXCEPT ![k] = new]
    BY <1>6 DEF Access!LoadThread
  <2>. HIDE DEF new, s, w
  <2>. QED BY <1>1, <1>2, <2>2, <2>3, <2>4, AccessGoes DEF Access!Deciding
<1>. QED BY <1>5, <1>6

LEMMA LoadRowStep ==
  ASSUME AccessInv, NEW k \in AccessCall, Access!LoadRow(k)
  PROVE  AccessInv'
<1> DEFINE c == apiCall[k]
           s == seen[k]
           w == steady[k]
<1>1. /\ c \in Access!CallRec /\ s \in Access!Window /\ w \in Access!Window /\ pc[k] = "row"
      /\ GovernedOK(c, "row", s, w)
      /\ seen' = [seen EXCEPT ![k] = s] /\ steady' = [steady EXCEPT ![k] = w]
      /\ UNCHANGED <<config, claw, thread, grants, held, calls, scopeChanges>>
  BY Governed DEF Access!LoadRow, Access!bounds, Access!rows
<1>2. calls' \in Nat /\ scopeChanges' \in Nat /\ Access!TypeOK
  BY <1>1 DEF AccessInv, Access!TypeOK
<1>3. PICK x \in c.keys \cap (AccessClaw \cup AccessRun) :
        /\ apiCall' = [apiCall EXCEPT ![k] = [c EXCEPT !.shape = Access!Base(x)]]
        /\ pc' = [pc EXCEPT ![k] = IF Access!Base(x) = Access!NoShape THEN "scopes" ELSE "grants"]
  BY Zenon DEF Access!LoadRow
<1> DEFINE base == Access!Base(x)
           new == [c EXCEPT !.shape = base]
           step == IF base = Access!NoShape THEN "scopes" ELSE "grants"
<1>4. base \in Access!Shape
  <2>1. Access!NoShape \in Access!Shape
    BY DEF Access!NoShape, Access!Shape, Access!Owner
  <2>2. \A p \in AccessPrincipal : \A l \in Access!Label :
          [owner |-> p, label |-> l, grants |-> {}] \in Access!Shape
    BY DEF Access!Shape, Access!Owner
  <2>3. CASE x \in AccessRun
    <3>1. config.runner[x] \in AccessPrincipal \cup {None}
      BY <1>2, <2>3, AccessNames DEF Access!TypeOK, Access!Settings, Access!Owner
    <3>. QED BY <2>1, <2>2, <2>3, <3>1 DEF Access!Base, Access!PersonalScope, Access!Label
  <2>4. CASE x \notin AccessRun
    <3>1. claw[x] \in Access!ClawRow \cup {None}
      BY <1>2, <1>3, <2>4 DEF Access!TypeOK
    <3>. QED BY <2>1, <2>2, <2>4, <3>1 DEF Access!Base, Access!ClawRow
  <2>. QED BY <2>3, <2>4
<1>5. /\ new \in Access!CallRec /\ new.shape = base /\ new.keys = c.keys
      /\ new.target = c.target /\ new.method = c.method /\ new.by = c.by
  <2>. HIDE DEF base
  <2>. QED BY <1>1, <1>4 DEF Access!CallRec
<1>6. /\ WindowOK(c, "row", s, w) /\ IsPosed(c)
      /\ \/ c.target \in AccessClaw \cup AccessRun /\ c.keys = {c.target}
         \/ /\ c.target \in AccessThread /\ thread[c.target] # None
            /\ c.keys = {c.target, thread[c.target].claw}
  BY <1>1 DEF GovernedOK, ShapeOK
<1>7. Access!Anchors(c.method) # {}
  BY <1>6, AccessNames DEF IsPosed, Access!Target
<1>8. c.keys = Access!KeysOf(c.target) /\ base = Access!BaseOf(c.target)
  BY <1>3, <1>6, AccessNames DEF Access!KeysOf, Access!BaseOf
<1>9. CASE base = Access!NoShape
  <2>1. x \notin Access!Rows
    <3>1. config \in Access!Settings
      BY <1>2, AccessNames DEF Access!TypeOK
    <3>2. x \in AccessClaw => claw[x] = None \/ claw[x].owner # None
      BY <1>2, AccessNames DEF Access!TypeOK, Access!ClawRow
    <3>3. x \in AccessRun => x \notin AccessClaw
      BY AccessNames
    <3>. QED BY <1>3, <1>9, <3>2, <3>3, AccessNames
             DEF Access!Base, Access!NoShape, Access!PersonalScope, Access!Rows
  <2>2. ShapeIsMissing(new, w)
    BY <1>3, <1>5, <1>6, <1>8, <1>9, <2>1 DEF ShapeIsMissing, WindowOK
  <2>3. GovernedOK(new, "scopes", s, w)
    BY <1>5, <1>6, <1>7, <2>2 DEF GovernedOK, WindowOK, ShapeOK, DecidedOK, Access!Deciding, IsPosed
  <2>4. apiCall' = [apiCall EXCEPT ![k] = new] /\ pc' = [pc EXCEPT ![k] = "scopes"]
    BY <1>3, <1>9
  <2>. HIDE DEF new, s, w
  <2>. QED BY <1>1, <1>2, <1>5, <2>3, <2>4, AccessGoes DEF Access!Deciding
<1>10. CASE base # Access!NoShape
  <2>1. x \in Access!Rows
    BY <1>3, <1>10 DEF Access!Base, Access!NoShape, Access!PersonalScope, Access!Rows
  <2>2. c.target \in Access!Rows /\ c.keys \subseteq Access!Rows
    BY <1>3, <1>6, <2>1, AccessNames DEF Access!Rows
  <2>3. base.grants = {}
    BY DEF Access!Base, Access!NoShape, Access!PersonalScope
  <2>4. ShapeIsLoaded(new, s, w)
    BY <1>5, <1>8, <2>2, <2>3 DEF ShapeIsLoaded
  <2>5. GovernedOK(new, "grants", s, w)
    BY <1>5, <1>6, <1>7, <2>4 DEF GovernedOK, WindowOK, ShapeOK, DecidedOK, Access!Deciding, IsPosed
  <2>6. apiCall' = [apiCall EXCEPT ![k] = new] /\ pc' = [pc EXCEPT ![k] = "grants"]
    BY <1>3, <1>10
  <2>. HIDE DEF new, s, w
  <2>. QED BY <1>1, <1>2, <1>5, <2>5, <2>6, AccessGoes DEF Access!Deciding
<1>. QED BY <1>9, <1>10
LEMMA LoadGrantsStep ==
  ASSUME AccessInv, NEW k \in AccessCall, Access!LoadGrants(k)
  PROVE  AccessInv'
<1> DEFINE c == apiCall[k]
           s == seen[k]
           w == steady[k]
<1>1. /\ c \in Access!CallRec /\ s \in Access!Window /\ w \in Access!Window /\ pc[k] = "grants"
      /\ GovernedOK(c, "grants", s, w)
      /\ seen' = [seen EXCEPT ![k] = s] /\ steady' = [steady EXCEPT ![k] = w]
      /\ UNCHANGED <<config, claw, thread, grants, held, calls, scopeChanges>>
  BY Governed DEF Access!LoadGrants, Access!bounds, Access!rows
<1>2. calls' \in Nat /\ scopeChanges' \in Nat /\ grants \subseteq Access!Grant
  BY <1>1 DEF AccessInv, Access!TypeOK
<1>3. PICK x \in c.keys :
        /\ apiCall' = [apiCall EXCEPT ![k].keys = @ \ {x},
                                      ![k].shape.grants = @ \cup {g \in grants : g.on = x}]
        /\ pc' = [pc EXCEPT ![k] = IF c.keys = {x} THEN "scopes" ELSE "grants"]
  BY Zenon DEF Access!LoadGrants
<1> DEFINE on == {g \in grants : g.on = x}
           keys == c.keys \ {x}
           read == c.shape.grants \cup on
           shape == [c.shape EXCEPT !.grants = read]
           new == [c EXCEPT !.keys = keys, !.shape = shape]
           step == IF c.keys = {x} THEN "scopes" ELSE "grants"
<1>4. /\ shape \in Access!Shape /\ shape.grants = read
      /\ shape.owner = c.shape.owner /\ shape.label = c.shape.label
  <2>1. c.shape \in Access!Shape /\ read \in SUBSET Access!Grant
    BY <1>1, <1>2 DEF Access!CallRec, Access!Shape
  <2>. HIDE DEF read
  <2>. QED BY <2>1 DEF Access!Shape
<1>5. apiCall' = [apiCall EXCEPT ![k] = new]
  <2>1. [c EXCEPT !.keys = @ \ {x}, !.shape.grants = @ \cup on] = new
    BY <1>1 DEF Access!CallRec
  <2>. HIDE DEF new, on
  <2>. QED BY <1>3, <2>1 DEF on
<1>. HIDE DEF shape
<1>6. /\ new \in Access!CallRec /\ new.shape = shape /\ new.keys = keys
      /\ new.target = c.target /\ new.method = c.method /\ new.by = c.by
  BY <1>1, <1>4 DEF Access!CallRec
<1>. HIDE DEF new
<1>7. WindowOK(c, "grants", s, w) /\ IsPosed(c) /\ ShapeIsLoaded(c, s, w) /\ grants \subseteq s.grants
      /\ w.grants \subseteq grants
  BY <1>1 DEF GovernedOK, ShapeOK, WindowOK, Access!Deciding
<1>8. ShapeIsLoaded(new, s, w)
  BY <1>3, <1>4, <1>6, <1>7 DEF ShapeIsLoaded
<1>9. Access!Anchors(c.method) # {}
  BY <1>7, AccessNames DEF IsPosed, ShapeIsLoaded, Access!Rows, Access!Target
<1>10. step = "scopes" => new.keys = {}
  BY <1>6
<1>11. GovernedOK(new, step, s, w)
  BY <1>6, <1>7, <1>8, <1>9, <1>10
     DEF GovernedOK, WindowOK, ShapeOK, DecidedOK, Access!Deciding, IsPosed
<1>12. step \in Access!Deciding /\ pc' = [pc EXCEPT ![k] = step]
  BY <1>3 DEF Access!Deciding
<1>. HIDE DEF s, w, step
<1>. QED BY <1>1, <1>2, <1>5, <1>6, <1>11, <1>12, AccessGoes

LEMMA ResolveScopesStep ==
  ASSUME AccessInv, NEW k \in AccessCall, Access!ResolveScopes(k)
  PROVE  AccessInv'
<1> DEFINE c == apiCall[k]
           s == seen[k]
           w == steady[k]
           scopes == Access!HeldBy(c.by)
           new == [c EXCEPT !.scopes = scopes]
<1>1. /\ c \in Access!CallRec /\ s \in Access!Window /\ w \in Access!Window /\ pc[k] = "scopes"
      /\ GovernedOK(c, "scopes", s, w)
      /\ seen' = [seen EXCEPT ![k] = s] /\ steady' = [steady EXCEPT ![k] = w]
      /\ UNCHANGED <<config, claw, thread, grants, held, calls, scopeChanges>>
  BY Governed DEF Access!ResolveScopes, Access!bounds, Access!rows
<1>2. /\ calls' \in Nat /\ scopeChanges' \in Nat
      /\ apiCall' = [apiCall EXCEPT ![k] = new] /\ pc' = [pc EXCEPT ![k] = "decide"]
  BY <1>1, Zenon DEF AccessInv, Access!TypeOK, Access!ResolveScopes
<1>3. scopes \in SUBSET Access!Scope
  BY <1>1, HeldIs DEF AccessInv, Access!CallRec
<1>. HIDE DEF scopes
<1>4. /\ new \in Access!CallRec /\ new.shape = c.shape /\ new.keys = c.keys /\ new.scopes = scopes
      /\ new.target = c.target /\ new.method = c.method /\ new.by = c.by
  BY <1>1, <1>3 DEF Access!CallRec
<1>. HIDE DEF new
<1>5. WindowOK(new, "decide", s, w) /\ scopes \subseteq s.scopes /\ w.scopes \subseteq scopes
  BY <1>1, <1>4 DEF GovernedOK, WindowOK, Access!Deciding, scopes
<1>6. ShapeOK(new, "decide", s, w)
  <2>1. \/ Access!Anchors(c.method) = {} /\ c.shape = Access!FirstShape(c)
        \/ Access!Anchors(c.method) # {} /\ ShapeIsMissing(c, w)
        \/ Access!Anchors(c.method) # {} /\ ShapeIsLoaded(c, s, w) /\ c.keys = {}
    BY <1>1 DEF GovernedOK, ShapeOK
  <2>2. Access!FirstShape(new) = Access!FirstShape(c)
    BY <1>4 DEF Access!FirstShape
  <2>3. ShapeIsMissing(c, w) => ShapeIsMissing(new, w)
    BY <1>4 DEF ShapeIsMissing
  <2>4. ShapeIsLoaded(c, s, w) => ShapeIsLoaded(new, s, w)
    BY <1>4 DEF ShapeIsLoaded
  <2>. QED BY <1>4, <1>5, <2>1, <2>2, <2>3, <2>4 DEF ShapeOK
<1>7. GovernedOK(new, "decide", s, w)
  BY <1>1, <1>4, <1>5, <1>6 DEF GovernedOK, DecidedOK, IsPosed
<1>. HIDE DEF s, w
<1>. QED BY <1>1, <1>2, <1>4, <1>7, AccessGoes DEF Access!Deciding

\* The engine permits whom something entitled at some moment, and denies nobody who was entitled
\* throughout.
LEMMA DecisionIs ==
  ASSUME AccessInv, NEW c \in Access!CallRec, NEW s, NEW w, GovernedOK(c, "decide", s, w)
  PROVE  /\ Access!Permits(c) => c.method \in config.permits \/ Access!Entitled(c, s)
         /\ ~ Access!Permits(c) => c.method \in config.forbids \/ ~ Access!Entitled(c, w)
<1> DEFINE level == Access!LevelOf(c.method)
           has(grants_, scopes_) ==
             \/ c.shape.owner = c.by
             \/ \E q \in scopes_ : q.label = c.shape.label /\ Access!AtLeast(q.level, level)
             \/ \E g \in grants_ : Access!GrantReaches(g, [c EXCEPT !.scopes = scopes_])
                                   /\ Access!AtLeast(g.level, level)
<1>1. /\ IsPosed(c) /\ c.scopes \subseteq s.scopes /\ w.scopes \subseteq c.scopes
      /\ s.rows \subseteq Access!Rows /\ w.rows \subseteq Access!Rows /\ Access!Rows \subseteq s.rows
      /\ \/ Access!Anchors(c.method) = {} /\ c.shape = Access!FirstShape(c)
         \/ Access!Anchors(c.method) # {} /\ ShapeIsMissing(c, w)
         \/ Access!Anchors(c.method) # {} /\ ShapeIsLoaded(c, s, w) /\ c.keys = {}
  BY DEF GovernedOK, ShapeOK, WindowOK, Access!Deciding
<1>2. Access!ScopePermits(c) <=>
        /\ c.shape.label # None
        /\ \E q \in c.scopes : q.label = c.shape.label /\ Access!AtLeast(q.level, level)
  BY PermitsIs
<1>3. Access!GrantPermits(c) <=>
        \E g \in c.shape.grants : Access!GrantReaches(g, c) /\ Access!AtLeast(g.level, level)
  BY PermitsIs
<1>4. \A q \in c.scopes : q.label # None
  BY AccessNames DEF Access!CallRec, Access!Scope, Access!Label
<1>5. CASE Access!Anchors(c.method) = {} /\ c.shape = Access!FirstShape(c)
  BY <1>5 DEF Access!Permits, Access!Entitled, Access!OwnerPermits, Access!CreatePermits,
              Access!FirstShape, Access!PersonalScope
<1>6. CASE Access!Anchors(c.method) # {} /\ ShapeIsMissing(c, w)
  <2>1. ~ Access!Entitled(c, w)
    BY <1>1, <1>6 DEF IsPosed, ShapeIsMissing, Access!Entitled
  <2>2. Access!Permits(c) => c.method \in config.permits
    BY <1>1, <1>2, <1>3, <1>6 DEF IsPosed, ShapeIsMissing, Access!NoShape, Access!Permits,
                                  Access!OwnerPermits, Access!CreatePermits
  <2>. QED BY <2>1, <2>2
<1>7. CASE Access!Anchors(c.method) # {} /\ ShapeIsLoaded(c, s, w) /\ c.keys = {}
  <2>1. /\ c.target \in Access!Rows /\ Access!KeysOf(c.target) \subseteq Access!Rows
        /\ c.shape.owner = Access!BaseOf(c.target).owner /\ c.shape.label = Access!BaseOf(c.target).label
        /\ \A g \in c.shape.grants : g \in s.grants /\ g.on \in Access!KeysOf(c.target)
        /\ \A g \in w.grants : g.on \in Access!KeysOf(c.target) => g \in c.shape.grants
    BY <1>7 DEF ShapeIsLoaded
  <2>2. c.method \notin Access!CreateMethods
    BY <1>1, <1>7 DEF IsPosed
  <2>3. \A g, r : Access!GrantReaches(g, [c EXCEPT !.scopes = r]) <=>
                    g.ref = "public" \/ g.ref = c.by \/ \E q \in r : q.label = g.ref
    BY DEF Access!GrantReaches, Access!CallRec
  <2>4. \A g : Access!GrantReaches(g, c) <=>
                 g.ref = "public" \/ g.ref = c.by \/ \E q \in c.scopes : q.label = g.ref
    BY DEF Access!GrantReaches
  <2>5. Access!Permits(c) => c.method \in config.permits \/ Access!Entitled(c, s)
    BY <1>1, <1>2, <1>3, <2>1, <2>2, <2>3, <2>4
       DEF Access!Permits, Access!Entitled, Access!OwnerPermits, Access!CreatePermits
  <2>6. c.by # None /\ c.method \notin config.forbids /\ Access!Entitled(c, w) => Access!Permits(c)
    BY <1>1, <1>2, <1>3, <1>4, <1>7, <2>1, <2>2, <2>3, <2>4
       DEF Access!Permits, Access!Entitled, Access!OwnerPermits
  <2>. QED BY <2>5, <2>6 DEF Access!Permits, Access!Entitled
<1>. QED BY <1>1, <1>5, <1>6, <1>7

LEMMA DecideStep ==
  ASSUME AccessInv, NEW k \in AccessCall, Access!Decide(k)
  PROVE  AccessInv'
<1> DEFINE c == apiCall[k]
           s == seen[k]
           w == steady[k]
           step == IF Access!Permits(c) \/ config.posture = "shadow" THEN "permitted" ELSE "denied"
<1>1. /\ c \in Access!CallRec /\ s \in Access!Window /\ w \in Access!Window /\ pc[k] = "decide"
      /\ GovernedOK(c, "decide", s, w)
      /\ seen' = [seen EXCEPT ![k] = s] /\ steady' = [steady EXCEPT ![k] = w]
      /\ apiCall' = [apiCall EXCEPT ![k] = c] /\ pc' = [pc EXCEPT ![k] = step]
      /\ UNCHANGED <<config, claw, thread, grants, held, calls, scopeChanges>>
  BY Governed DEF Access!Decide, Access!bounds, Access!rows
<1>2. calls' \in Nat /\ scopeChanges' \in Nat
  BY <1>1 DEF AccessInv, Access!TypeOK
<1>3. /\ step \in {"permitted", "denied"}
      /\ step = "permitted" => Access!Permits(c) \/ config.posture = "shadow"
      /\ step = "denied" => ~ Access!Permits(c)
  OBVIOUS
<1>. HIDE DEF c, s, w, step
<1>4. DecidedOK(c, step, s, w)
  BY <1>1, <1>3, DecisionIs DEF DecidedOK
<1>5. GovernedOK(c, step, s, w)
  BY <1>1, <1>3, <1>4 DEF GovernedOK, WindowOK, ShapeOK, Access!Deciding
<1>. QED BY <1>1, <1>2, <1>3, <1>5, AccessGoes

LEMMA RefuseStep ==
  ASSUME AccessInv, NEW k \in AccessCall, Access!Refuse(k)
  PROVE  AccessInv'
<1>1. calls' \in Nat /\ scopeChanges' \in Nat /\ UNCHANGED <<config, claw, thread, grants, held>>
  BY DEF AccessInv, Access!TypeOK, Access!Refuse, Access!bounds, Access!rows
<1>2. /\ apiCall' = [apiCall EXCEPT ![k] = Access!NoCall] /\ pc' = [pc EXCEPT ![k] = "idle"]
      /\ seen' = [seen EXCEPT ![k] = Access!Nothing] /\ steady' = [steady EXCEPT ![k] = Access!Nothing]
  BY DEF Access!Refuse, Access!Ends
<1>. QED BY <1>1, <1>2, NoCallIs, NoCallGoes, AccessGoes
\* Whatever a handler writes, rows stay and keep what decides about access to them.
LEMMA HandlerStep ==
  ASSUME AccessInv, NEW c \in Access!CallRec, IsPosed(c), Access!Handler(c), UNCHANGED config
  PROVE  /\ RowsExtend
         /\ claw' \in [AccessClaw -> Access!ClawRow \cup {None}]
         /\ thread' \in [AccessThread -> Access!ThreadRow \cup {None}]
         /\ grants' \subseteq Access!Grant
<1>1. /\ claw \in [AccessClaw -> Access!ClawRow \cup {None}]
      /\ thread \in [AccessThread -> Access!ThreadRow \cup {None}]
      /\ grants \subseteq Access!Grant
  BY DEF AccessInv, Access!TypeOK
<1>2. ASSUME UNCHANGED <<claw, thread>>, grants' \subseteq Access!Grant
      PROVE  /\ RowsExtend
             /\ claw' \in [AccessClaw -> Access!ClawRow \cup {None}]
             /\ thread' \in [AccessThread -> Access!ThreadRow \cup {None}]
             /\ grants' \subseteq Access!Grant
  BY <1>1, <1>2 DEF RowsExtend
<1>3. ASSUME NEW status \in Access!ClawStatus, Access!UpdateClaw(c, status)
      PROVE  /\ RowsExtend
             /\ claw' \in [AccessClaw -> Access!ClawRow \cup {None}]
             /\ thread' \in [AccessThread -> Access!ThreadRow \cup {None}]
             /\ grants' \subseteq Access!Grant
  <2>1. \A x \in AccessClaw : claw[x] # None =>
          LET row == [claw[x] EXCEPT !.status = status] IN
          /\ row \in Access!ClawRow /\ row # None
          /\ row.owner = claw[x].owner /\ row.label = claw[x].label
    <3>1. ASSUME NEW x \in AccessClaw, claw[x] # None
          PROVE  LET row == [claw[x] EXCEPT !.status = status] IN
                 /\ row \in Access!ClawRow
                 /\ row.owner = claw[x].owner /\ row.label = claw[x].label
      <4>1. claw[x] \in Access!ClawRow
        BY <1>1, <3>1
      <4>. QED BY <4>1 DEF Access!ClawRow
    <3>. QED BY <3>1, AccessNames
  <2>. QED BY <1>1, <1>3, <2>1 DEF Access!UpdateClaw, RowsExtend
<1>4. CASE c.method = "createClaw"
  <2> DEFINE row == [owner |-> Access!Stamp(c.by), label |-> Access!Stamp(c.by), status |-> "active"]
  <2>1. Access!Stamp(c.by) \in AccessPrincipal
    BY AccessNames DEF Access!Stamp, Access!CallRec, Access!Owner
  <2>2. row \in Access!ClawRow
    BY <2>1 DEF Access!ClawRow, Access!Label, Access!ClawStatus
  <2>3. /\ claw[c.child] = None /\ claw' = [claw EXCEPT ![c.child] = row]
        /\ UNCHANGED <<thread, grants>>
    BY <1>4 DEF Access!Handler, Access!CreateClaw
  <2>. HIDE DEF row
  <2>. QED BY <1>1, <2>2, <2>3 DEF RowsExtend
<1>5. CASE c.method = "createThread"
  <2> DEFINE row == [claw |-> c.target, status |-> "active", messages |-> 0]
  <2>1. c.target \in AccessClaw
    BY <1>5 DEF IsPosed
  <2>2. row \in Access!ThreadRow
    BY <2>1 DEF Access!ThreadRow
  <2>3. /\ thread[c.child] = None /\ thread' = [thread EXCEPT ![c.child] = row]
        /\ UNCHANGED <<claw, grants>>
    BY <1>5 DEF Access!Handler, Access!CreateThread
  <2>. HIDE DEF row
  <2>. QED BY <1>1, <2>2, <2>3 DEF RowsExtend
<1>6. CASE c.method \in {"archiveThread", "appendMessage", "sendMessage"}
  <2>1. UNCHANGED <<claw, grants>>
    BY <1>6 DEF Access!Handler, Access!ArchiveThread, Access!AppendMessage
  <2>2. \A t \in AccessThread :
          \/ thread'[t] = thread[t]
          \/ thread[t] # None /\ thread'[t] \in {[thread[t] EXCEPT !.status = "archived"],
                                                 [thread[t] EXCEPT !.messages = @ + 1]}
    BY <1>6 DEF Access!Handler, Access!ArchiveThread, Access!AppendMessage
  <2>3. thread' = [t \in AccessThread |-> thread'[t]]
    BY <1>6 DEF Access!Handler, Access!ArchiveThread, Access!AppendMessage
  <2>4. ASSUME NEW t \in AccessThread, thread[t] # None
        PROVE  /\ thread'[t] \in Access!ThreadRow /\ thread'[t].claw = thread[t].claw
    <3>1. thread[t] \in Access!ThreadRow
      BY <1>1, <2>4
    <3>2. /\ [thread[t] EXCEPT !.status = "archived"] \in Access!ThreadRow
          /\ [thread[t] EXCEPT !.messages = @ + 1] \in Access!ThreadRow
          /\ [thread[t] EXCEPT !.status = "archived"].claw = thread[t].claw
          /\ [thread[t] EXCEPT !.messages = @ + 1].claw = thread[t].claw
      BY <3>1 DEF Access!ThreadRow
    <3>. QED BY <2>2, <3>1, <3>2
  <2>5. \A t \in AccessThread : thread'[t] \in Access!ThreadRow \cup {None}
    BY <2>2, <2>4
  <2>6. thread' \in [AccessThread -> Access!ThreadRow \cup {None}]
    BY <2>3, <2>5
  <2>. QED BY <1>1, <2>1, <2>4, <2>6, AccessNames DEF RowsExtend
<1>7. CASE c.method \in {"updateClaw", "archiveClaw"}
  <2>1. PICK status \in Access!ClawStatus : Access!UpdateClaw(c, status)
    BY <1>7 DEF Access!Handler, Access!ClawStatus
  <2>. QED BY <1>3, <2>1
<1>8. CASE c.method = "shareResource"
  <2>1. c.target \in Access!Target
    BY <1>8 DEF IsPosed
  <2>2. [on |-> c.target, ref |-> c.ref, level |-> c.level] \in Access!Grant
    BY <2>1 DEF Access!Grant, Access!CallRec
  <2>. QED BY <1>1, <1>2, <1>8, <2>2 DEF Access!Handler, Access!ShareResource, Access!rows
<1>9. CASE c.method = "unshareResource"
  BY <1>1, <1>2, <1>9 DEF Access!Handler, Access!UnshareResource, Access!rows
<1>10. CASE c.method \notin {"createClaw", "createThread", "archiveThread", "appendMessage",
                             "sendMessage", "updateClaw", "archiveClaw", "shareResource",
                             "unshareResource"}
  BY <1>1, <1>2, <1>10 DEF Access!Handler, Access!rows
<1>. QED BY <1>4, <1>5, <1>6, <1>7, <1>8, <1>9, <1>10

LEMMA ExecuteStep ==
  ASSUME AccessInv, NEW k \in AccessCall, Access!Execute(k)
  PROVE  AccessInv'
<1>1. /\ apiCall[k] \in Access!CallRec /\ IsPosed(apiCall[k])
      /\ UNCHANGED <<config, calls, scopeChanges, held>>
  BY Governed DEF GovernedOK, Access!Execute, Access!bounds
<1>2. /\ RowsExtend
      /\ claw' \in [AccessClaw -> Access!ClawRow \cup {None}]
      /\ thread' \in [AccessThread -> Access!ThreadRow \cup {None}]
      /\ grants' \subseteq Access!Grant
  BY <1>1, HandlerStep DEF Access!Execute
<1>3. Access!Rows' \subseteq Access!Target
  BY DEF Access!Rows, Access!Target
<1>4. /\ apiCall' = [apiCall EXCEPT ![k] = Access!NoCall] /\ pc' = [pc EXCEPT ![k] = "idle"]
      /\ Access!Watch(k)
  BY DEF Access!Execute, Access!Ends
<1>5. ASSUME NEW j \in AccessCall
      PROVE  /\ seen'[j] \in Access!Window /\ steady'[j] \in Access!Window
             /\ GovernedOK(apiCall[j], pc[j], seen[j], steady[j])'
  <2>1. PICK x, st, a, b : x = apiCall'[j] /\ st = pc'[j] /\ a = seen'[j] /\ b = steady'[j]
    OBVIOUS
  <2>2. a \in Access!Window /\ b \in Access!Window /\ GovernedOK(x, st, a, b)'
    <3>1. CASE j = k
      <4>1. x = Access!NoCall /\ st = "idle" /\ a = Access!Nothing /\ b = Access!Nothing
        BY <1>4, <2>1, <3>1 DEF Access!Watch, AccessInv, Access!TypeOK
      <4>. QED BY <4>1, NoCallIs DEF GovernedOK, WindowOK, ShapeOK, DecidedOK, Access!Deciding
    <3>2. CASE j # k /\ st \in Access!Deciding
      <4>1. /\ x = apiCall[j] /\ st = pc[j]
            /\ a = [rows |-> seen[j].rows \cup Access!Rows', grants |-> seen[j].grants \cup grants',
                    scopes |-> seen[j].scopes]
            /\ b = [rows |-> steady[j].rows \cap Access!Rows', grants |-> steady[j].grants \cap grants',
                    scopes |-> steady[j].scopes]
        BY <1>4, <2>1, <3>2 DEF Access!Watch, Access!Adds, Access!Keeps, AccessInv, Access!TypeOK
      <4>2. /\ seen[j] \in Access!Window /\ steady[j] \in Access!Window
            /\ GovernedOK(x, st, seen[j], steady[j])
        BY <4>1, Governed
      <4>3. a \in Access!Window /\ b \in Access!Window
        BY <1>2, <1>3, <4>1, <4>2 DEF Access!Window
      <4>4. WindowOK(x, st, a, b)'
        <5>1. Access!HeldBy(x.by)' = Access!HeldBy(x.by)
          BY <1>1 DEF Access!HeldBy
        <5>2. WindowOK(x, st, seen[j], steady[j]) /\ Access!Rows \subseteq Access!Rows'
          BY <1>2, <4>2, RowsLast DEF GovernedOK, AccessInv
        <5>. QED BY <3>2, <4>1, <5>1, <5>2 DEF WindowOK
      <4>. QED BY <1>2, <3>2, <4>1, <4>2, <4>3, <4>4, GovernedLasts DEF AccessInv
    <3>3. CASE j # k /\ st \notin Access!Deciding
      <4>1. x = apiCall[j] /\ st = pc[j] /\ a = seen[j] /\ b = steady[j]
        BY <1>4, <2>1, <3>3 DEF Access!Watch, AccessInv, Access!TypeOK
      <4>2. a \in Access!Window /\ b \in Access!Window /\ GovernedOK(x, st, a, b)
        BY <4>1, Governed
      <4>3. WindowOK(x, st, a, b)'
        BY <1>2, <3>3, <4>2, RowsLast DEF GovernedOK, WindowOK, AccessInv
      <4>. QED BY <1>2, <3>3, <4>2, <4>3, GovernedLasts DEF AccessInv
    <3>. QED BY <3>1, <3>2, <3>3
  <2>. QED BY <2>1, <2>2 DEF GovernedOK, WindowOK, ShapeOK, DecidedOK, ShapeIsLoaded, ShapeIsMissing
<1>6. Access!TypeOK'
  <2>1. seen' \in [AccessCall -> Access!Window] /\ steady' \in [AccessCall -> Access!Window]
    BY <1>4, <1>5 DEF Access!Watch
  <2>. QED BY <1>1, <1>2, <1>4, <2>1, NoCallIs DEF AccessInv, Access!TypeOK
<1>. QED BY <1>5, <1>6 DEF AccessInv

LEMMA ScopesChangeStep ==
  ASSUME AccessInv, NEW p \in AccessPrincipal, NEW scopes \in config.memberships,
         Access!ScopesChange(p, scopes)
  PROVE  AccessInv'
<1>1. /\ UNCHANGED <<config, calls, claw, thread, grants, pc, apiCall>> /\ scopeChanges' = scopeChanges + 1
      /\ held' = [held EXCEPT ![p] = scopes]
  BY DEF Access!ScopesChange, Access!rows
<1>2. scopes \in SUBSET Access!Scope
  BY AccessNames DEF AccessInv, Access!TypeOK, Access!Settings
<1>3. RowsExtend /\ Access!Rows' = Access!Rows
  BY <1>1 DEF RowsExtend, Access!Rows
<1>4. ASSUME NEW j \in AccessCall
      PROVE  /\ seen'[j] \in Access!Window /\ steady'[j] \in Access!Window
             /\ GovernedOK(apiCall[j], pc[j], seen[j], steady[j])'
  <2>1. PICK x, st, a, b : x = apiCall[j] /\ st = pc[j] /\ a = seen'[j] /\ b = steady'[j]
    OBVIOUS
  <2>2. /\ seen[j] \in Access!Window /\ steady[j] \in Access!Window /\ x.by \in Access!Owner
        /\ GovernedOK(x, st, seen[j], steady[j]) /\ WindowOK(x, st, seen[j], steady[j])
    BY <2>1, Governed DEF GovernedOK, Access!CallRec
  <2>3. a \in Access!Window /\ b \in Access!Window /\ GovernedOK(x, st, a, b)'
    <3>1. CASE st \in Access!Deciding /\ x.by = p
      <4>1. /\ a = [seen[j] EXCEPT !.scopes = @ \cup scopes]
            /\ b = [steady[j] EXCEPT !.scopes = @ \cap scopes]
        BY <2>1, <3>1 DEF Access!ScopesChange
      <4>2. /\ a \in Access!Window /\ a.rows = seen[j].rows /\ a.grants = seen[j].grants
            /\ a.scopes = seen[j].scopes \cup scopes
        BY <1>2, <2>2, <4>1 DEF Access!Window
      <4>3. /\ b \in Access!Window /\ b.rows = steady[j].rows /\ b.grants = steady[j].grants
            /\ b.scopes = steady[j].scopes \cap scopes
        BY <1>2, <2>2, <4>1 DEF Access!Window
      <4>4. Access!HeldBy(x.by)' = scopes
        BY <1>1, <3>1, AccessNames DEF Access!HeldBy, AccessInv, Access!TypeOK
      <4>5. WindowOK(x, st, a, b)'
        BY <1>1, <1>3, <2>2, <4>2, <4>3, <4>4 DEF WindowOK
      <4>. QED BY <1>3, <2>2, <3>1, <4>2, <4>3, <4>5, GovernedLasts DEF AccessInv
    <3>2. CASE ~ (st \in Access!Deciding /\ x.by = p)
      <4>1. a = seen[j] /\ b = steady[j]
        BY <2>1, <3>2 DEF Access!ScopesChange
      <4>2. st \in Access!Deciding => Access!HeldBy(x.by)' = Access!HeldBy(x.by)
        BY <1>1, <2>2, <3>2 DEF Access!HeldBy, AccessInv, Access!TypeOK, Access!Owner
      <4>3. WindowOK(x, st, a, b)'
        BY <1>1, <1>3, <2>2, <4>1, <4>2 DEF WindowOK
      <4>. QED BY <1>3, <2>2, <4>1, <4>3, GovernedLasts DEF AccessInv
    <3>. QED BY <3>1, <3>2
  <2>. QED BY <1>1, <2>1, <2>3 DEF GovernedOK, WindowOK, ShapeOK, DecidedOK, ShapeIsLoaded, ShapeIsMissing
<1>5. Access!TypeOK'
  <2>1. seen' \in [AccessCall -> Access!Window] /\ steady' \in [AccessCall -> Access!Window]
    BY <1>4 DEF Access!ScopesChange
  <2>. QED BY <1>1, <1>2, <2>1 DEF AccessInv, Access!TypeOK
<1>. QED BY <1>4, <1>5 DEF AccessInv

LEMMA AccessStep ==
  ASSUME AccessInv, [Access!Next]_AccessVars
  PROVE  AccessInv'
<1>1. ASSUME NEW k \in AccessCall,
             \/ \E c \in config.traffic : Access!Arrive(k, c)
             \/ Access!LoadThread(k) \/ Access!LoadRow(k) \/ Access!LoadGrants(k)
             \/ Access!ResolveScopes(k) \/ Access!Decide(k) \/ Access!Execute(k) \/ Access!Refuse(k)
      PROVE  AccessInv'
  BY <1>1, ArriveStep, LoadThreadStep, LoadRowStep, LoadGrantsStep, ResolveScopesStep, DecideStep,
     ExecuteStep, RefuseStep
<1>2. ASSUME NEW p \in AccessPrincipal, NEW scopes \in config.memberships,
             Access!ScopesChange(p, scopes)
      PROVE  AccessInv'
  BY <1>2, ScopesChangeStep
<1>3. CASE UNCHANGED AccessVars
  <2>1. UNCHANGED <<config, claw, thread, grants, held, pc, apiCall, calls, scopeChanges, seen, steady>>
    BY <1>3 DEF AccessVars
  <2>2. Access!TypeOK'
    BY <2>1 DEF AccessInv, Access!TypeOK
  <2>3. ASSUME NEW j \in AccessCall
        PROVE  GovernedOK(apiCall[j], pc[j], seen[j], steady[j])'
    <3>1. PICK x, st, a, b : x = apiCall[j] /\ st = pc[j] /\ a = seen[j] /\ b = steady[j]
      OBVIOUS
    <3>2. GovernedOK(x, st, a, b) /\ RowsExtend
      BY <2>1, <3>1 DEF AccessInv, RowsExtend
    <3>3. WindowOK(x, st, a, b)'
      BY <2>1, <3>2 DEF GovernedOK, WindowOK, Access!Rows, Access!HeldBy
    <3>4. GovernedOK(x, st, a, b)'
      BY <3>2, <3>3, GovernedLasts DEF AccessInv
    <3>. QED BY <2>1, <3>1, <3>4 DEF GovernedOK, WindowOK, ShapeOK, DecidedOK, ShapeIsLoaded, ShapeIsMissing
  <2>. QED BY <2>2, <2>3 DEF AccessInv
<1>. QED BY <1>1, <1>2, <1>3 DEF Access!Next

\* Whoever is let through owned the resource or held a scope or a grant on it while the call was
\* decided, and nobody who did so all that time is denied, whatever is shared, revoked and created
\* between the reads of a decision (wrapMethod and decideApiCall).
THEOREM AccessIsWhatWasGranted == Spec => []AccessIsAsGranted
<1> DEFINE Inv == part = "access" => AccessInv
<1>1. Init => Inv
  BY AccessInit DEF Init
<1>2. Inv /\ [Next]_vars => Inv'
  <2>. SUFFICES ASSUME part = "access", AccessInv, [Next]_vars PROVE AccessInv'
    BY DEF Next, vars
  <2>1. [Access!Next]_AccessVars
    BY DEF Next, vars
  <2>. QED BY <2>1, AccessStep
<1>3. Inv => AccessIsAsGranted
  BY DEF AccessIsAsGranted, AccessInv, GovernedOK, DecidedOK, Access!PermittedHadAccess,
         Access!SteadyAccessIsHonoured
<1>. QED BY <1>1, <1>2, <1>3, PTL DEF Spec
----------------------------------------------------------------------------
(* The history of a run.                                                   *)

RecordingEvent == {"tool.called", "tool.waiting_approval", "tool.failed", "tool.denied", "tool.completed",
                   "run.completed", "run.waiting_approval", "run.yielded", "run.denied"}
RecordingStatus == {"proposed", "waiting_approval", "completed", "denied", "failed", "approved",
                    "consumed", "resumed"}
Invocation == [op : {"tool", "resume", "emit", "list", "create"}, run : Recording!Run, alone : BOOLEAN,
               todo : Seq(RecordingEvent), status : RecordingStatus, text : RecordingText \cup {None}]

\* Where an invocation is: before it calls the tool, at its approval, or with something to tell.
IsCalling(x) ==
  /\ x.op \in {"emit", "tool"} /\ x.todo = <<"tool.called">>
  /\ x.status = "proposed" /\ x.run = RecordingOwn /\ x.text = None

IsResuming(x) == x.op = "resume" /\ x.status \in {"approved", "consumed"}

IsWaiting(x) ==
  /\ x.op = "emit" /\ x.todo = <<"tool.waiting_approval", "run.waiting_approval">>
  /\ x.status = "waiting_approval" /\ x.run = RecordingOwn /\ x.text = None

HasWaited(x) ==
  /\ x.op = "emit" /\ x.todo = <<"run.waiting_approval">>
  /\ x.status = "waiting_approval" /\ x.run = RecordingOwn /\ x.text = None

\* What an invocation can tell last.
EndsWith(x, event) ==
  \/ event = "run.completed" /\ x.text \in RecordingText
  \/ event = "run.yielded" /\ x.text = None
  \/ event = "run.denied" /\ x.text = None /\ x.status = "denied"

IsFailing(x) ==
  /\ x.op \in {"emit", "list", "create"} /\ x.todo = <<"tool.failed">>
  /\ x.status = "failed" /\ x.text = None

IsAnswering(x) ==
  /\ x.op \in {"emit", "list", "create"}
  /\ \E event \in RecordingEvent :
       /\ EndsWith(x, event)
       /\ \/ x.status = "denied" /\ x.todo = <<"tool.denied", event>>
          \/ x.status = "completed" /\ x.todo = <<"tool.completed", event>>

IsEnding(x) ==
  /\ x.status \in {"denied", "completed", "resumed"}
  /\ \E event \in RecordingEvent :
       /\ EndsWith(x, event) /\ x.todo = <<event>>
       /\ x.op = "emit" \/ (x.op = "create" /\ event = "run.completed")

PlanOK(x) ==
  IsCalling(x) \/ IsResuming(x) \/ IsWaiting(x) \/ HasWaited(x) \/ IsFailing(x) \/ IsAnswering(x) \/ IsEnding(x)

\* The row that an invocation has found missing.
NewResult(x) == [run |-> x.run, status |-> IF x.status = "completed" THEN "completed" ELSE "failed"]
NewMessage(x) == [run |-> x.run, text |-> x.text]

\* The status of the call's row is the invocation's.
IsMarked(x) ==
  \/ HasWaited(x) \/ (IsEnding(x) /\ x.status # "resumed")
  \/ (IsFailing(x) \/ IsAnswering(x)) /\ x.op \in {"list", "create"}

HasResult(run, status) ==
  /\ status = "completed" => [run |-> run, status |-> "completed"] \in Recording!Range(results)
  /\ status \in {"denied", "failed"} => \E i \in DOMAIN results : results[i].run = run

\* What the rows have of an invocation.
ToldOK(x) ==
  /\ (x.op = "emit" /\ IsCalling(x)) <=> toolCall = None
  /\ x.status = "completed" => x.run \in ran
  /\ IsEnding(x) => HasResult(x.run, x.status)
  /\ x.alone =>
       /\ IsMarked(x) /\ x.run = RecordingOwn => toolCall.status = x.status
       /\ HasWaited(x) => toolCall.approval
       /\ x.op = "create" =>
            IF IsEnding(x) THEN NewMessage(x) \notin Recording!Range(messages) ELSE NewResult(x) \notin Recording!Range(results)

InvocationOK(p) ==
  invocation[p] # Recording!Idle =>
    /\ invocation[p] \in Invocation /\ PlanOK(invocation[p]) /\ ToldOK(invocation[p])
    /\ ~ besides => invocation[p].alone
    /\ invocation[p].alone \/ toolCall = None =>
         \A q \in RecordingActor \ {p} : invocation[q] = Recording!Idle

\* What the last invocation left.
EndedOK(x) ==
  /\ x.run = RecordingOwn /\ x.status # "resumed" => toolCall.status = x.status
  /\ HasResult(x.run, x.status)
  /\ x.status = "waiting_approval" =>
       /\ toolCall.approval /\ checkpoints # <<>>
       /\ checkpoints[Len(checkpoints)] = [run |-> RecordingOwn, kind |-> "approval_wait"]
  /\ x.text # None => [run |-> x.run, text |-> x.text] \in Recording!Range(messages)

\* The invocations that may yield.
MayYield(x) == x.op \in {"tool", "resume"} \/ (x.op = "emit" /\ x.todo = <<"tool.called">>)
Open == {p \in RecordingActor : invocation[p] # Recording!Idle /\ MayYield(invocation[p])}

OnceEach(list) == \A i, j \in DOMAIN list : list[i] = list[j] => i = j

RowsOK ==
  /\ toolCall \in Recording!ToolCall \cup {None}
  /\ results \in Seq(Recording!ToolResult) /\ messages \in Seq(Recording!Message)
  /\ checkpoints \in Seq(Recording!Checkpoint)
  /\ approval \in Recording!Approval \cup {None}
  /\ toolCall = None => approval = None /\ runParked = 0
  /\ \A i \in DOMAIN results : results[i].status = "completed" => results[i].run \in ran
  /\ ~ besides => OnceEach(results) /\ OnceEach(messages)

RecordingInv ==
  /\ RowsOK
  /\ invocation = [p \in RecordingActor |-> invocation[p]]
  /\ invoked \in 0..RecordingMaxBegun /\ runParked \in Nat
  /\ IsFiniteSet(Open) /\ Cardinality(Open) + runParked <= invoked
  /\ invoked = 0 => toolCall = None
  /\ invoked = 0 => \A p \in RecordingActor : invocation[p] = Recording!Idle
  /\ \A p \in RecordingActor : InvocationOK(p)
  /\ lastEnded # None => EndedOK(lastEnded)
  /\ lastEnded # None => \A p \in RecordingActor : invocation[p] = Recording!Idle
----------------------------------------------------------------------------
LEMMA RecordingNames ==
  /\ RecordingMaxBegun \in Nat /\ None \notin Recording!ToolCall
  /\ None \notin {"pending", "approved", "denied", "consumed"}
BY RecordingRecordingAssumption DEF Recording!RecordingAssumption, Recording!Approval

\* The first event and the rest of a list of one or two.
LEMMA ListsAre ==
  ASSUME NEW e, NEW f
  PROVE  /\ Head(<<e>>) = e /\ Tail(<<e>>) = << >> /\ <<e>> # << >>
         /\ Head(<<e, f>>) = e /\ Tail(<<e, f>>) = <<f>>
OBVIOUS

\* Where an invocation is, by the event that it tells next.
LEMMA HeadIs ==
  ASSUME NEW x
  PROVE  /\ IsCalling(x) => Head(x.todo) = "tool.called" /\ Tail(x.todo) = << >>
         /\ IsWaiting(x) => /\ Head(x.todo) = "tool.waiting_approval"
                            /\ Tail(x.todo) = <<"run.waiting_approval">>
         /\ HasWaited(x) => Head(x.todo) = "run.waiting_approval" /\ Tail(x.todo) = << >>
         /\ IsFailing(x) => Head(x.todo) = "tool.failed" /\ Tail(x.todo) = << >>
         /\ IsAnswering(x) =>
              \/ x.status = "denied" /\ Head(x.todo) = "tool.denied"
              \/ x.status = "completed" /\ Head(x.todo) = "tool.completed"
         /\ IsAnswering(x) => \E event \in RecordingEvent : EndsWith(x, event) /\ Tail(x.todo) = <<event>>
         /\ IsEnding(x) =>
              /\ Tail(x.todo) = << >>
              /\ \/ Head(x.todo) = "run.completed" /\ x.text \in RecordingText /\ x.op \in {"emit", "create"}
                 \/ Head(x.todo) = "run.yielded" /\ x.text = None /\ x.op = "emit"
                 \/ Head(x.todo) = "run.denied" /\ x.text = None /\ x.op = "emit" /\ x.status = "denied"
<1>1. IsCalling(x) => Head(x.todo) = "tool.called" /\ Tail(x.todo) = << >>
  BY ListsAre DEF IsCalling
<1>2. IsWaiting(x) => Head(x.todo) = "tool.waiting_approval" /\ Tail(x.todo) = <<"run.waiting_approval">>
  BY ListsAre DEF IsWaiting
<1>3. HasWaited(x) => Head(x.todo) = "run.waiting_approval" /\ Tail(x.todo) = << >>
  BY ListsAre DEF HasWaited
<1>4. IsFailing(x) => Head(x.todo) = "tool.failed" /\ Tail(x.todo) = << >>
  BY ListsAre DEF IsFailing
<1>5. IsAnswering(x) =>
        /\ \/ x.status = "denied" /\ Head(x.todo) = "tool.denied"
           \/ x.status = "completed" /\ Head(x.todo) = "tool.completed"
        /\ \E event \in RecordingEvent : EndsWith(x, event) /\ Tail(x.todo) = <<event>>
  <2>. SUFFICES ASSUME NEW event \in RecordingEvent, EndsWith(x, event),
                       \/ x.status = "denied" /\ x.todo = <<"tool.denied", event>>
                       \/ x.status = "completed" /\ x.todo = <<"tool.completed", event>>
                PROVE  /\ \/ x.status = "denied" /\ Head(x.todo) = "tool.denied"
                          \/ x.status = "completed" /\ Head(x.todo) = "tool.completed"
                       /\ Tail(x.todo) = <<event>>
    BY DEF IsAnswering
  <2>1. \A e : Head(<<e, event>>) = e /\ Tail(<<e, event>>) = <<event>>
    BY ListsAre
  <2>. QED BY <2>1
<1>6. IsEnding(x) =>
        /\ Tail(x.todo) = << >>
        /\ \/ Head(x.todo) = "run.completed" /\ x.text \in RecordingText /\ x.op \in {"emit", "create"}
           \/ Head(x.todo) = "run.yielded" /\ x.text = None /\ x.op = "emit"
           \/ Head(x.todo) = "run.denied" /\ x.text = None /\ x.op = "emit" /\ x.status = "denied"
  BY ListsAre DEF IsEnding, EndsWith
<1>. QED BY <1>1, <1>2, <1>3, <1>4, <1>5, <1>6

\* A list with one more row.
LEMMA AppendIs ==
  ASSUME NEW S, NEW list \in Seq(S), NEW e \in S
  PROVE  /\ Append(list, e) \in Seq(S) /\ Append(list, e) # << >>
         /\ Len(Append(list, e)) = Len(list) + 1 /\ Append(list, e)[Len(list) + 1] = e
         /\ \A i \in DOMAIN list : i \in DOMAIN Append(list, e) /\ Append(list, e)[i] = list[i]
         /\ \A i \in DOMAIN Append(list, e) : i \in DOMAIN list \/ i = Len(list) + 1
         /\ Recording!Range(Append(list, e)) = Recording!Range(list) \cup {e}
         /\ OnceEach(list) /\ e \notin Recording!Range(list) => OnceEach(Append(list, e))
<1> DEFINE more == Append(list, e)
<1>1. /\ more \in Seq(S) /\ Len(more) = Len(list) + 1 /\ more[Len(list) + 1] = e
      /\ \A i \in 1..Len(list) : more[i] = list[i]
      /\ more # << >>
  OBVIOUS
<1>2. DOMAIN more = 1..(Len(list) + 1) /\ DOMAIN list = 1..Len(list) /\ Len(list) \in Nat
  BY <1>1
<1>. HIDE DEF more
<1>3. Recording!Range(more) = Recording!Range(list) \cup {e}
  BY <1>1, <1>2 DEF Recording!Range
<1>4. OnceEach(list) /\ e \notin Recording!Range(list) => OnceEach(more)
  BY <1>1, <1>2 DEF Recording!Range, OnceEach
<1>. QED BY <1>1, <1>2, <1>3, <1>4 DEF more
----------------------------------------------------------------------------
LEMMA RecordingInit ==
  ASSUME Recording!Init
  PROVE  RecordingInv
<1>1. /\ toolCall = None /\ results = << >> /\ messages = << >> /\ checkpoints = << >>
      /\ approval = None /\ runParked = 0 /\ invoked = 0 /\ lastEnded = None
      /\ invocation = [p \in RecordingActor |-> Recording!Idle]
  BY DEF Recording!Init
<1>2. RowsOK
  BY <1>1 DEF RowsOK, OnceEach
<1>3. Open = {}
  BY <1>1 DEF Open
<1>4. IsFiniteSet(Open) /\ Cardinality(Open) = 0
  BY <1>3, FS_EmptySet
<1>5. \A p \in RecordingActor : InvocationOK(p)
  BY <1>1 DEF InvocationOK
<1>. QED BY <1>1, <1>2, <1>4, <1>5, RecordingNames DEF RecordingInv

\* One more or one less of a finite set.
LEMMA OpenSize ==
  ASSUME NEW S, IsFiniteSet(S), NEW T, NEW p
  PROVE  /\ Cardinality(S) \in Nat
         /\ T \subseteq S => IsFiniteSet(T) /\ Cardinality(T) \in Nat /\ Cardinality(T) <= Cardinality(S)
         /\ T \subseteq S \cup {p} =>
              IsFiniteSet(T) /\ Cardinality(T) \in Nat /\ Cardinality(T) <= Cardinality(S) + 1
         /\ p \in S /\ T \subseteq S \ {p} =>
              IsFiniteSet(T) /\ Cardinality(T) \in Nat /\ Cardinality(T) <= Cardinality(S) - 1
<1>1. Cardinality(S) \in Nat
  BY FS_CardinalityType
<1>2. \A U : IsFiniteSet(U) /\ T \subseteq U =>
               IsFiniteSet(T) /\ Cardinality(T) \in Nat /\ Cardinality(T) <= Cardinality(U)
  BY FS_Subset, FS_CardinalityType
<1>3. IsFiniteSet(S \cup {p}) /\ Cardinality(S \cup {p}) \in {Cardinality(S), Cardinality(S) + 1}
  BY FS_AddElement
<1>4. IsFiniteSet(S \ {p}) /\ (p \in S => Cardinality(S \ {p}) = Cardinality(S) - 1)
  BY FS_RemoveElement
<1>. QED BY <1>1, <1>2, <1>3, <1>4

\* A step of one invocation: the others were idle if it was alone, and what was recorded stays.
LEMMA StepIs ==
  ASSUME RecordingInv, NEW p \in RecordingActor, invocation[p] # Recording!Idle,
         invocation' = [q \in RecordingActor |-> IF q = p THEN invocation'[p] ELSE invocation[q]],
         RowsOK', toolCall # None => toolCall' # None,
         \A run, status : HasResult(run, status) => HasResult(run, status)',
         ran \subseteq ran', UNCHANGED <<besides, invoked>>, InvocationOK(p)',
         runParked' \in Nat,
         \/ runParked' = runParked /\ (p \in Open' => p \in Open)
         \/ runParked' = runParked + 1 /\ p \in Open /\ p \notin Open',
         \/ UNCHANGED lastEnded
         \/ lastEnded' = None
         \/ EndedOK(lastEnded)' /\ \A q \in RecordingActor : invocation'[q] = Recording!Idle
  PROVE  RecordingInv'
<1>1. ASSUME NEW q \in RecordingActor, q # p
      PROVE  InvocationOK(q)'
  <2>1. PICK x : x = invocation[q]
    OBVIOUS
  <2>2. invocation'[q] = x
    BY <1>1, <2>1
  <2>3. SUFFICES ASSUME x # Recording!Idle
                 PROVE  InvocationOK(q)'
    BY <2>2 DEF InvocationOK
  <2>4. /\ x \in Invocation /\ PlanOK(x) /\ ToldOK(x)
        /\ x.alone \/ toolCall = None => \A r \in RecordingActor \ {q} : invocation[r] = Recording!Idle
        /\ ~ besides => x.alone
    BY <2>1, <2>3 DEF RecordingInv, InvocationOK
  <2>5. ~ x.alone /\ toolCall # None /\ toolCall' # None /\ besides
    BY <1>1, <2>4
  <2>6. ToldOK(x)'
    BY <2>4, <2>5 DEF ToldOK
  <2>. QED BY <2>2, <2>4, <2>5, <2>6 DEF InvocationOK
<1>2. lastEnded = None
  BY DEF RecordingInv
<1>3. /\ (p \in Open' => p \in Open) => Open' \subseteq Open
      /\ p \notin Open' => Open' \subseteq Open \ {p}
  BY DEF Open
<1>4. IsFiniteSet(Open') /\ Cardinality(Open') + runParked' <= invoked'
  <2>1. IsFiniteSet(Open) /\ Cardinality(Open) + runParked <= invoked /\ runParked \in Nat /\ invoked \in Nat
    BY RecordingNames DEF RecordingInv
  <2>. DEFINE n == Open'
  <2>2. /\ Cardinality(Open) \in Nat
        /\ n \subseteq Open => IsFiniteSet(n) /\ Cardinality(n) \in Nat /\ Cardinality(n) <= Cardinality(Open)
        /\ p \in Open /\ n \subseteq Open \ {p} =>
             IsFiniteSet(n) /\ Cardinality(n) \in Nat /\ Cardinality(n) <= Cardinality(Open) - 1
    BY <2>1, OpenSize
  <2>. QED BY <1>3, <2>1, <2>2
<1>5. /\ invoked' \in 0..RecordingMaxBegun /\ invoked # 0
      /\ invocation' = [q \in RecordingActor |-> invocation'[q]]
  BY DEF RecordingInv
<1>6. lastEnded' # None => EndedOK(lastEnded)' /\ \A q \in RecordingActor : invocation'[q] = Recording!Idle
  BY <1>2
<1>. QED BY <1>1, <1>4, <1>5, <1>6 DEF RecordingInv
----------------------------------------------------------------------------
\* An invocation that is not alone any more is where it was.
LEMMA CrowdedIs ==
  ASSUME NEW x \in Invocation, NEW y, y = [x EXCEPT !.alone = FALSE], PlanOK(x), ToldOK(x)
  PROVE  y \in Invocation /\ PlanOK(y) /\ ToldOK(y) /\ ~ y.alone /\ (MayYield(y) <=> MayYield(x))
<1>1. /\ y \in Invocation /\ ~ y.alone /\ y.op = x.op /\ y.run = x.run /\ y.todo = x.todo
      /\ y.status = x.status /\ y.text = x.text
  BY DEF Invocation
<1>2. /\ IsCalling(y) <=> IsCalling(x)
      /\ IsResuming(y) <=> IsResuming(x)
      /\ IsWaiting(y) <=> IsWaiting(x)
      /\ HasWaited(y) <=> HasWaited(x)
      /\ IsFailing(y) <=> IsFailing(x)
  BY <1>1 DEF IsCalling, IsResuming, IsWaiting, HasWaited, IsFailing
<1>3. \A event : EndsWith(y, event) <=> EndsWith(x, event)
  BY <1>1 DEF EndsWith
<1>4. /\ IsAnswering(y) <=> IsAnswering(x)
      /\ IsEnding(y) <=> IsEnding(x)
  BY <1>1, <1>3 DEF IsAnswering, IsEnding
<1>. QED BY <1>1, <1>2, <1>4 DEF PlanOK, ToldOK, MayYield

\* An invocation begins: those under way are not alone any more, and nor is it.
LEMMA BeginsStep ==
  ASSUME RecordingInv, NEW p \in RecordingActor, NEW run, NEW op, NEW todo, NEW status, NEW text,
         Recording!Begins(p, run, op, todo, status, text), UNCHANGED approval,
         runParked' \in Nat, runParked' <= runParked,
         toolCall = None => \A q \in RecordingActor : invocation[q] = Recording!Idle,
         toolCall = None => runParked' = 0,
         \A alone \in BOOLEAN :
           LET y == [op |-> op, run |-> run, alone |-> alone, todo |-> todo, status |-> status,
                     text |-> text]
           IN  y \in Invocation /\ PlanOK(y) /\ ToldOK(y)
  PROVE  RecordingInv'
<1> DEFINE others == {q \in RecordingActor : invocation[q] # Recording!Idle}
<1>1. PICK alone \in BOOLEAN : alone = (others = {})
  OBVIOUS
<1>2. PICK y : y = [op |-> op, run |-> run, alone |-> alone, todo |-> todo, status |-> status,
                    text |-> text]
  OBVIOUS
<1>3. y \in Invocation /\ PlanOK(y) /\ ToldOK(y) /\ y.alone = (others = {}) /\ y # Recording!Idle
  BY <1>1, <1>2 DEF Recording!Idle, Invocation
<1>4. /\ invocation[p] = Recording!Idle /\ invoked < RecordingMaxBegun /\ invoked' = invoked + 1
      /\ lastEnded' = None /\ besides' = (besides \/ others # {})
      /\ UNCHANGED <<toolCall, results, messages, checkpoints, ran>>
  BY DEF Recording!Begins, Recording!Rows
<1>5. invocation' = [q \in RecordingActor |->
                       IF q = p THEN y
                       ELSE IF q \in others THEN [invocation[q] EXCEPT !.alone = FALSE]
                       ELSE invocation[q]]
  BY <1>1, <1>2, <1>4 DEF Recording!Begins
<1>6. ASSUME NEW q \in RecordingActor, q # p, invocation[q] # Recording!Idle
      PROVE  /\ InvocationOK(q)'
             /\ MayYield(invocation'[q]) <=> MayYield(invocation[q])
  <2>1. PICK x, z : x = invocation[q] /\ z = [x EXCEPT !.alone = FALSE]
    OBVIOUS
  <2>2. x \in Invocation /\ PlanOK(x) /\ ToldOK(x)
    BY <1>6, <2>1 DEF RecordingInv, InvocationOK
  <2>3. z \in Invocation /\ PlanOK(z) /\ ToldOK(z) /\ ~ z.alone /\ (MayYield(z) <=> MayYield(x))
    BY <2>1, <2>2, CrowdedIs
  <2>4. q \in others /\ invocation'[q] = z
    BY <1>5, <1>6, <2>1
  <2>5. toolCall' # None /\ besides'
    BY <1>4, <1>6, <2>4
  <2>6. ToldOK(z)'
    BY <1>4, <2>3 DEF ToldOK, HasResult
  <2>. QED BY <2>1, <2>3, <2>4, <2>5, <2>6 DEF InvocationOK
<1>7. InvocationOK(p)'
  <2>1. ToldOK(y)'
    BY <1>3, <1>4 DEF ToldOK, HasResult
  <2>2. y.alone \/ toolCall' = None => \A q \in RecordingActor \ {p} : invocation'[q] = Recording!Idle
    BY <1>3, <1>4, <1>5
  <2>3. ~ besides' => y.alone
    BY <1>3, <1>4
  <2>4. invocation'[p] = y
    BY <1>5
  <2>. QED BY <1>3, <2>1, <2>2, <2>3, <2>4 DEF InvocationOK
<1>8. \A q \in RecordingActor : InvocationOK(q)'
  <2>1. ASSUME NEW q \in RecordingActor, q # p, invocation[q] = Recording!Idle
        PROVE  InvocationOK(q)'
    BY <1>5, <2>1 DEF InvocationOK
  <2>. QED BY <1>6, <1>7, <2>1
<1>9. IsFiniteSet(Open') /\ Cardinality(Open') + runParked' <= invoked'
  <2>1. IsFiniteSet(Open) /\ Cardinality(Open) + runParked <= invoked /\ runParked \in Nat /\ invoked \in Nat
    BY RecordingNames DEF RecordingInv
  <2>. DEFINE n == Open'
  <2>2. n \subseteq Open \cup {p}
    BY <1>5, <1>6 DEF Open
  <2>3. /\ Cardinality(Open) \in Nat
        /\ IsFiniteSet(n) /\ Cardinality(n) \in Nat /\ Cardinality(n) <= Cardinality(Open) + 1
    BY <2>1, <2>2, OpenSize
  <2>. QED BY <1>4, <2>1, <2>3
<1>10. RowsOK'
  BY <1>4 DEF RecordingInv, RowsOK, OnceEach
<1>11. /\ invocation' = [q \in RecordingActor |-> invocation'[q]]
       /\ invoked' \in 0..RecordingMaxBegun /\ invoked' # 0
  BY <1>4, <1>5, RecordingNames DEF RecordingInv
<1>. QED BY <1>4, <1>8, <1>9, <1>10, <1>11 DEF RecordingInv

LEMMA GenerateStep ==
  ASSUME RecordingInv, NEW p \in RecordingActor, Recording!Generate(p)
  PROVE  RecordingInv'
<1>1. /\ Recording!Begins(p, RecordingOwn, "emit", <<"tool.called">>, "proposed", None)
      /\ UNCHANGED <<approval, runParked>> /\ runParked \in Nat
      /\ toolCall = None /\ \A q \in RecordingActor : invocation[q] = Recording!Idle
      /\ runParked = 0
  BY DEF Recording!Generate, RecordingInv, RowsOK
<1>2. ASSUME NEW alone \in BOOLEAN, NEW y,
             y = [op |-> "emit", run |-> RecordingOwn, alone |-> alone, todo |-> <<"tool.called">>,
                  status |-> "proposed", text |-> None]
      PROVE  y \in Invocation /\ PlanOK(y) /\ ToldOK(y)
  <2>1. y \in Invocation
    BY <1>2 DEF Invocation, RecordingEvent, RecordingStatus, Recording!Run
  <2>2. IsCalling(y) /\ y.op = "emit" /\ y.status = "proposed"
    BY <1>2 DEF IsCalling
  <2>3. ~ IsEnding(y) /\ ~ HasWaited(y) /\ ~ IsMarked(y)
    BY <2>2, HeadIs DEF IsMarked, IsEnding, HasWaited
  <2>. QED BY <1>1, <2>1, <2>2, <2>3 DEF PlanOK, ToldOK
<1>. QED BY <1>1, <1>2, BeginsStep

LEMMA ContinueStep ==
  ASSUME RecordingInv, NEW p \in RecordingActor, NEW run \in Recording!Run, Recording!Continue(p, run)
  PROVE  RecordingInv'
<1>1. /\ UNCHANGED <<approval, runParked>> /\ runParked \in Nat
      /\ approval \in {"denied", "approved", "consumed"} /\ toolCall # None
  BY RecordingNames DEF Recording!Continue, RecordingInv, RowsOK
<1>2. ASSUME NEW alone \in BOOLEAN, NEW y,
             y = [op |-> "emit", run |-> run, alone |-> alone,
                  todo |-> <<"tool.denied", "run.denied">>, status |-> "denied", text |-> None]
      PROVE  y \in Invocation /\ PlanOK(y) /\ ToldOK(y)
  <2>1. y \in Invocation
    BY <1>2 DEF Invocation, RecordingEvent, RecordingStatus
  <2>2. IsAnswering(y) /\ y.op = "emit" /\ y.status = "denied"
    BY <1>2 DEF IsAnswering, EndsWith, RecordingEvent
  <2>3. ~ IsCalling(y) /\ ~ IsEnding(y) /\ ~ HasWaited(y) /\ ~ IsMarked(y)
    BY <2>2, HeadIs DEF IsMarked
  <2>. QED BY <1>1, <2>1, <2>2, <2>3 DEF PlanOK, ToldOK
<1>3. ASSUME NEW alone \in BOOLEAN, NEW y, NEW status \in {"approved", "consumed"},
             y = [op |-> "resume", run |-> run, alone |-> alone, todo |-> << >>, status |-> status,
                  text |-> None]
      PROVE  y \in Invocation /\ PlanOK(y) /\ ToldOK(y)
  <2>1. y \in Invocation
    BY <1>3 DEF Invocation, RecordingEvent, RecordingStatus
  <2>2. IsResuming(y) /\ y.op = "resume" /\ y.status \in {"approved", "consumed"}
    BY <1>3 DEF IsResuming
  <2>3. ~ IsEnding(y) /\ ~ HasWaited(y) /\ ~ IsMarked(y)
    BY <2>2 DEF IsMarked, IsEnding, HasWaited, IsFailing, IsAnswering
  <2>. QED BY <1>1, <2>1, <2>2, <2>3 DEF PlanOK, ToldOK
<1>4. CASE Recording!Begins(p, run, "emit", <<"tool.denied", "run.denied">>, "denied", None)
  BY <1>1, <1>2, <1>4, BeginsStep
<1>5. CASE approval \in {"approved", "consumed"} /\ Recording!Begins(p, run, "resume", << >>, approval, None)
  <2>1. PICK status \in {"approved", "consumed"} : status = approval
    BY <1>5
  <2>2. Recording!Begins(p, run, "resume", << >>, status, None)
    BY <1>5, <2>1
  <2>. QED BY <1>1, <1>3, <2>2, BeginsStep
<1>. QED BY <1>4, <1>5 DEF Recording!Continue

LEMMA ResumeRunStep ==
  ASSUME RecordingInv, NEW p \in RecordingActor, NEW run \in Recording!Run, Recording!ResumeRun(p, run)
  PROVE  RecordingInv'
<1>1. /\ UNCHANGED approval /\ runParked' \in Nat /\ runParked' <= runParked /\ toolCall # None
      /\ runParked \in Nat
  BY RecordingNames DEF Recording!ResumeRun, RecordingInv, RowsOK
<1>2. ASSUME NEW text \in RecordingText, NEW alone \in BOOLEAN, NEW y,
             y = [op |-> "emit", run |-> run, alone |-> alone, todo |-> <<"run.completed">>,
                  status |-> "resumed", text |-> text]
      PROVE  y \in Invocation /\ PlanOK(y) /\ ToldOK(y)
  <2>1. y \in Invocation
    BY <1>2 DEF Invocation, RecordingEvent, RecordingStatus
  <2>2. IsEnding(y) /\ y.op = "emit" /\ y.status = "resumed"
    BY <1>2 DEF IsEnding, EndsWith, RecordingEvent
  <2>3. ~ IsCalling(y) /\ ~ HasWaited(y) /\ ~ IsMarked(y)
    BY <2>2, HeadIs DEF IsMarked
  <2>. QED BY <1>1, <2>1, <2>2, <2>3 DEF PlanOK, ToldOK, HasResult
<1>3. PICK text \in RecordingText :
        Recording!Begins(p, run, "emit", <<"run.completed">>, "resumed", text)
  BY DEF Recording!ResumeRun
<1>. QED BY <1>1, <1>2, <1>3, BeginsStep
----------------------------------------------------------------------------
\* What an invocation that is under way has in common with every other one.
LEMMA UnderWay ==
  ASSUME RecordingInv, NEW p \in RecordingActor, invocation[p] # Recording!Idle
  PROVE  /\ invocation[p] \in Invocation /\ PlanOK(invocation[p]) /\ ToldOK(invocation[p])
         /\ ~ besides => invocation[p].alone
         /\ invocation[p].alone => \A q \in RecordingActor \ {p} : invocation[q] = Recording!Idle
         /\ lastEnded = None /\ RowsOK /\ runParked \in Nat
BY DEF RecordingInv, InvocationOK

\* An invocation comes to have something else to tell, or to do, and the rows are as they were.
LEMMA TellsStep ==
  ASSUME RecordingInv, NEW p \in RecordingActor, invocation[p] # Recording!Idle,
         NEW y \in Invocation, invocation' = [invocation EXCEPT ![p] = y],
         PlanOK(y), y.alone = invocation[p].alone, ToldOK(y)',
         UNCHANGED <<toolCall, results, messages, checkpoints, invoked, lastEnded, besides>>,
         ran \subseteq ran', approval' \in Recording!Approval \cup {None},
         toolCall = None => approval' = None /\ runParked' = 0,
         runParked' \in Nat,
         \/ runParked' = runParked /\ (MayYield(y) => MayYield(invocation[p]))
         \/ runParked' = runParked + 1 /\ MayYield(invocation[p]) /\ ~ MayYield(y)
  PROVE  RecordingInv'
<1>1. y # Recording!Idle
  BY DEF Invocation, Recording!Idle
<1>2. /\ invocation'[p] = y
      /\ invocation' = [q \in RecordingActor |-> IF q = p THEN invocation'[p] ELSE invocation[q]]
  BY DEF RecordingInv
<1>3. InvocationOK(p)'
  <2>1. y.alone \/ toolCall' = None => \A q \in RecordingActor \ {p} : invocation'[q] = Recording!Idle
    BY <1>2 DEF RecordingInv, InvocationOK
  <2>2. ~ besides' => y.alone
    BY UnderWay
  <2>. QED BY <1>2, <2>1, <2>2 DEF InvocationOK
<1>4. RowsOK'
  BY DEF RecordingInv, RowsOK, OnceEach
<1>5. \A run, status : HasResult(run, status) => HasResult(run, status)'
  BY DEF HasResult
<1>6. /\ p \in Open' <=> MayYield(y)
      /\ p \in Open <=> MayYield(invocation[p])
  BY <1>1, <1>2 DEF Open
<1>. QED BY <1>2, <1>3, <1>4, <1>5, <1>6, StepIs

\* The governed call answers, and something follows.
LEMMA AnswersStep ==
  ASSUME RecordingInv, NEW p \in RecordingActor, invocation[p] # Recording!Idle,
         MayYield(invocation[p]), toolCall # None,
         NEW status \in {"denied", "completed"}, NEW event,
         event = IF status = "denied" THEN "tool.denied" ELSE "tool.completed",
         Recording!Answers(p, event, status),
         UNCHANGED <<toolCall, results, messages, checkpoints, invoked, lastEnded, besides>>,
         ran \subseteq ran', status = "completed" => invocation[p].run \in ran',
         approval' \in Recording!Approval \cup {None}
  PROVE  RecordingInv'
<1>1. PICK x : x = invocation[p]
  OBVIOUS
<1>2. x \in Invocation /\ runParked \in Nat
  BY <1>1, UnderWay
<1>3. PICK text \in RecordingText \cup {None}, end \in {"run.completed", "run.yielded"} :
        /\ Recording!Tells(p, <<event, end>>, status, text)
        /\ \/ end = "run.completed" /\ text \in RecordingText /\ runParked' = runParked
           \/ end = "run.yielded" /\ text = None /\ runParked' = runParked + 1
  <2>1. CASE \E text \in RecordingText :
               Recording!Tells(p, <<event, "run.completed">>, status, text) /\ UNCHANGED runParked
    BY <2>1
  <2>2. CASE Recording!Tells(p, <<event, "run.yielded">>, status, None) /\ runParked' = runParked + 1
    BY <2>2
  <2>. QED BY <2>1, <2>2 DEF Recording!Answers, Recording!PersistYield
<1>4. PICK y : y = [op |-> "emit", run |-> x.run, alone |-> x.alone, todo |-> <<event, end>>,
                    status |-> status, text |-> text]
  OBVIOUS
<1>5. /\ invocation' = [invocation EXCEPT ![p] = y] /\ y \in Invocation /\ y.alone = x.alone
  BY <1>1, <1>2, <1>3, <1>4 DEF Recording!Tells, Invocation, RecordingEvent, RecordingStatus
<1>6. IsAnswering(y) /\ y.op = "emit" /\ y.status = status /\ y.run = x.run
  BY <1>3, <1>4 DEF IsAnswering, EndsWith, RecordingEvent
<1>7. ~ IsCalling(y) /\ ~ IsEnding(y) /\ ~ HasWaited(y) /\ ~ IsMarked(y)
  BY <1>6, HeadIs DEF IsMarked
<1>8. ~ MayYield(y)
  BY <1>4 DEF MayYield
<1>9. ToldOK(y)'
  <2>1. toolCall' # None /\ (status = "completed" => x.run \in ran')
    BY <1>1
  <2>. QED BY <1>6, <1>7, <2>1 DEF ToldOK
<1>10. PlanOK(y) /\ y.alone = invocation[p].alone
  BY <1>1, <1>5, <1>6 DEF PlanOK
<1>11. /\ runParked' \in Nat
       /\ \/ runParked' = runParked /\ (MayYield(y) => MayYield(invocation[p]))
          \/ runParked' = runParked + 1 /\ MayYield(invocation[p]) /\ ~ MayYield(y)
  BY <1>2, <1>3, <1>8
<1>. QED BY <1>5, <1>9, <1>10, <1>11, TellsStep

LEMMA CalledStep ==
  ASSUME RecordingInv, NEW p \in RecordingActor, Recording!Called(p)
  PROVE  RecordingInv'
<1>1. PICK x : x = invocation[p]
  OBVIOUS
<1>2. /\ x.op = "tool" /\ x # Recording!Idle
      /\ UNCHANGED <<toolCall, results, messages, checkpoints, invoked, lastEnded, besides>>
  BY <1>1 DEF Recording!Called, Recording!Rows, Recording!Idle
<1>3. x \in Invocation /\ PlanOK(x) /\ ToldOK(x) /\ RowsOK /\ runParked \in Nat
  BY <1>1, <1>2, UnderWay
<1>4. IsCalling(x) /\ MayYield(x) /\ x.run = RecordingOwn
  BY <1>2, <1>3 DEF PlanOK, IsCalling, IsResuming, IsWaiting, HasWaited, IsFailing, IsAnswering, IsEnding,
                    MayYield
<1>5. toolCall # None
  BY <1>2, <1>3 DEF ToldOK
<1>6. approval \in Recording!Approval \cup {None}
  BY <1>3 DEF RowsOK
<1>7. CASE /\ Recording!Tells(p, <<"tool.waiting_approval", "run.waiting_approval">>, "waiting_approval", None)
           /\ approval' = "pending" /\ UNCHANGED <<runParked, ran>>
  <2>1. PICK y : y = [op |-> "emit", run |-> x.run, alone |-> x.alone,
                      todo |-> <<"tool.waiting_approval", "run.waiting_approval">>,
                      status |-> "waiting_approval", text |-> None]
    OBVIOUS
  <2>2. invocation' = [invocation EXCEPT ![p] = y] /\ y \in Invocation /\ y.alone = x.alone
    BY <1>1, <1>3, <1>7, <2>1 DEF Recording!Tells, Invocation, RecordingEvent, RecordingStatus
  <2>3. IsWaiting(y) /\ y.op = "emit" /\ y.status = "waiting_approval"
    BY <1>4, <2>1 DEF IsWaiting
  <2>4. ~ IsCalling(y) /\ ~ IsEnding(y) /\ ~ HasWaited(y) /\ ~ IsMarked(y) /\ ~ MayYield(y)
    BY <2>3, HeadIs, ListsAre DEF IsMarked, MayYield
  <2>5. ToldOK(y)'
    BY <1>2, <1>5, <2>3, <2>4 DEF ToldOK
  <2>. QED BY <1>1, <1>2, <1>3, <1>5, <1>7, <2>2, <2>3, <2>4, <2>5, TellsStep DEF PlanOK, Recording!Approval
<1>8. CASE Recording!Tells(p, <<"tool.failed">>, "failed", None) /\ UNCHANGED <<approval, runParked, ran>>
  <2>1. PICK y : y = [op |-> "emit", run |-> x.run, alone |-> x.alone, todo |-> <<"tool.failed">>,
                      status |-> "failed", text |-> None]
    OBVIOUS
  <2>2. invocation' = [invocation EXCEPT ![p] = y] /\ y \in Invocation /\ y.alone = x.alone
    BY <1>1, <1>3, <1>8, <2>1 DEF Recording!Tells, Invocation, RecordingEvent, RecordingStatus
  <2>3. IsFailing(y) /\ y.op = "emit" /\ y.status = "failed"
    BY <2>1 DEF IsFailing
  <2>4. ~ IsCalling(y) /\ ~ IsEnding(y) /\ ~ HasWaited(y) /\ ~ IsMarked(y) /\ ~ MayYield(y)
    BY <2>3, HeadIs, ListsAre DEF IsMarked, MayYield, IsEnding
  <2>5. ToldOK(y)'
    BY <1>2, <1>5, <2>3, <2>4 DEF ToldOK
  <2>. QED BY <1>1, <1>2, <1>3, <1>5, <1>6, <1>8, <2>2, <2>3, <2>4, <2>5, TellsStep DEF PlanOK
<1>9. CASE Recording!Answers(p, "tool.denied", "denied") /\ UNCHANGED <<approval, ran>>
  BY <1>1, <1>2, <1>4, <1>5, <1>6, <1>9, AnswersStep
<1>10. CASE /\ Recording!Answers(p, "tool.completed", "completed")
            /\ ran' = ran \cup {invocation[p].run} /\ UNCHANGED approval
  BY <1>1, <1>2, <1>4, <1>5, <1>6, <1>10, AnswersStep
<1>. QED BY <1>7, <1>8, <1>9, <1>10 DEF Recording!Called

LEMMA ResumedStep ==
  ASSUME RecordingInv, NEW p \in RecordingActor, Recording!Resumed(p)
  PROVE  RecordingInv'
<1>1. PICK x : x = invocation[p]
  OBVIOUS
<1>2. /\ x.op = "resume" /\ x # Recording!Idle /\ approval' = "consumed"
      /\ UNCHANGED <<toolCall, results, messages, checkpoints, invoked, lastEnded, besides>>
  BY <1>1 DEF Recording!Resumed, Recording!Rows, Recording!Idle
<1>3. ToldOK(x) /\ MayYield(x)
  BY <1>1, <1>2, UnderWay DEF MayYield
<1>4. toolCall # None
  BY <1>2, <1>3 DEF ToldOK
<1>5. CASE Recording!Answers(p, "tool.completed", "completed") /\ ran' = ran \cup {invocation[p].run}
  BY <1>1, <1>2, <1>3, <1>4, <1>5, AnswersStep DEF Recording!Approval
<1>6. CASE Recording!Answers(p, "tool.denied", "denied") /\ UNCHANGED ran
  BY <1>1, <1>2, <1>3, <1>4, <1>6, AnswersStep DEF Recording!Approval
<1>. QED BY <1>5, <1>6 DEF Recording!Resumed

\* An invocation is no more, and nothing was recorded of it by this step.
LEMMA GoneStep ==
  ASSUME RecordingInv, NEW p \in RecordingActor, invocation[p] # Recording!Idle,
         invocation' = [invocation EXCEPT ![p] = Recording!Idle],
         UNCHANGED <<toolCall, results, messages, checkpoints, runParked, invoked, lastEnded, ran, besides>>,
         approval' \in Recording!Approval \cup {None}, toolCall = None => approval' = approval
  PROVE  RecordingInv'
<1>1. /\ invocation'[p] = Recording!Idle
      /\ invocation' = [q \in RecordingActor |-> IF q = p THEN invocation'[p] ELSE invocation[q]]
  BY DEF RecordingInv
<1>2. InvocationOK(p)' /\ p \notin Open'
  BY <1>1 DEF InvocationOK, Open
<1>3. RowsOK' /\ runParked' \in Nat
  BY DEF RecordingInv, RowsOK, OnceEach
<1>4. \A run, status : HasResult(run, status) => HasResult(run, status)'
  BY DEF HasResult
<1>. QED BY <1>1, <1>2, <1>3, <1>4, StepIs

LEMMA FailStep ==
  ASSUME RecordingInv, NEW p \in RecordingActor, Recording!Fail(p) \/ Recording!Late(p)
  PROVE  RecordingInv'
<1>1. /\ invocation[p] # Recording!Idle /\ invocation' = [invocation EXCEPT ![p] = Recording!Idle]
      /\ approval' = approval \/ (approval' = "consumed" /\ invocation[p].op = "resume")
      /\ UNCHANGED <<toolCall, results, messages, checkpoints, runParked, invoked, lastEnded, ran, besides>>
  BY DEF Recording!Fail, Recording!Late, Recording!Rows, Recording!Idle
<1>2. ToldOK(invocation[p]) /\ approval \in Recording!Approval \cup {None}
  BY <1>1, UnderWay DEF RowsOK
<1>3. /\ invocation[p].op = "resume" => toolCall # None
      /\ approval' \in Recording!Approval \cup {None}
  BY <1>1, <1>2 DEF ToldOK, Recording!Approval
<1>. QED BY <1>1, <1>3, GoneStep

LEMMA DecideApprovalStep ==
  ASSUME RecordingInv, Recording!Decide
  PROVE  RecordingInv'
<1>1. /\ approval = "pending" /\ approval' \in {"approved", "denied"}
      /\ UNCHANGED <<toolCall, results, messages, checkpoints, runParked, invocation, invoked, lastEnded,
                     ran, besides>>
  BY DEF Recording!Decide, Recording!Rows
<1>2. RowsOK'
  BY <1>1, RecordingNames DEF RecordingInv, RowsOK, OnceEach, Recording!Approval
<1>3. ASSUME NEW q \in RecordingActor
      PROVE  InvocationOK(q)'
  BY <1>1 DEF RecordingInv, InvocationOK, ToldOK, HasResult
<1>4. Open' = Open
  BY <1>1 DEF Open
<1>5. lastEnded # None => EndedOK(lastEnded)'
  BY <1>1 DEF RecordingInv, EndedOK, HasResult
<1>. QED BY <1>1, <1>2, <1>3, <1>4, <1>5 DEF RecordingInv
----------------------------------------------------------------------------
(* The sink.                                                               *)

\* The next event is told, or the tool is called, or the invocation comes to its end.
LEMMA DoneIs ==
  ASSUME NEW p \in RecordingActor, NEW x, x = invocation[p], Recording!Done(p)
  PROVE  /\ Tail(x.todo) # << >> =>
              /\ invocation' = [invocation EXCEPT ![p] = [x EXCEPT !.op = "emit", !.todo = Tail(x.todo)]]
              /\ UNCHANGED lastEnded
         /\ Tail(x.todo) = << >> /\ Head(x.todo) = "tool.called" =>
              /\ invocation' = [invocation EXCEPT ![p].op = "tool"]
              /\ UNCHANGED lastEnded
         /\ Tail(x.todo) = << >> /\ Head(x.todo) # "tool.called" =>
              /\ invocation' = [invocation EXCEPT ![p] = Recording!Idle]
              /\ lastEnded' = IF x.alone THEN [run |-> x.run, status |-> x.status, text |-> x.text] ELSE None
BY DEF Recording!Done

\* An invocation goes on, and the rows have more than before.
LEMMA GoesOnStep ==
  ASSUME RecordingInv, NEW p \in RecordingActor, invocation[p] # Recording!Idle,
         NEW y \in Invocation, invocation' = [invocation EXCEPT ![p] = y],
         PlanOK(y), y.alone = invocation[p].alone, ToldOK(y)', MayYield(y) => MayYield(invocation[p]),
         RowsOK', toolCall' # None,
         \A run, status : HasResult(run, status) => HasResult(run, status)',
         UNCHANGED <<runParked, invoked, lastEnded, ran, besides>>
  PROVE  RecordingInv'
<1>1. y # Recording!Idle
  BY DEF Invocation, Recording!Idle
<1>2. /\ invocation'[p] = y
      /\ invocation' = [q \in RecordingActor |-> IF q = p THEN invocation'[p] ELSE invocation[q]]
  BY DEF RecordingInv
<1>3. InvocationOK(p)'
  <2>1. y.alone \/ toolCall' = None => \A q \in RecordingActor \ {p} : invocation'[q] = Recording!Idle
    BY <1>2 DEF RecordingInv, InvocationOK
  <2>2. ~ besides' => y.alone
    BY UnderWay
  <2>. QED BY <1>2, <2>1, <2>2 DEF InvocationOK
<1>4. p \in Open' => p \in Open
  BY <1>1, <1>2 DEF Open
<1>5. runParked' \in Nat
  BY DEF RecordingInv
<1>. QED BY <1>2, <1>3, <1>4, <1>5, StepIs

\* An invocation comes to its end, with what it tells last.
LEMMA EndsStep ==
  ASSUME RecordingInv, NEW p \in RecordingActor, NEW x, x = invocation[p], x # Recording!Idle,
         Recording!Done(p), Tail(x.todo) = << >>, Head(x.todo) # "tool.called",
         RowsOK', toolCall' # None,
         \A run, status : HasResult(run, status) => HasResult(run, status)',
         UNCHANGED <<runParked, invoked, ran, besides>>,
         NEW z, z = [run |-> x.run, status |-> x.status, text |-> x.text], x.alone => EndedOK(z)'
  PROVE  RecordingInv'
<1>1. /\ invocation' = [invocation EXCEPT ![p] = Recording!Idle]
      /\ lastEnded' = IF x.alone THEN z ELSE None
  BY DoneIs
<1>2. /\ invocation'[p] = Recording!Idle
      /\ invocation' = [q \in RecordingActor |-> IF q = p THEN invocation'[p] ELSE invocation[q]]
  BY <1>1 DEF RecordingInv
<1>3. InvocationOK(p)' /\ p \notin Open'
  BY <1>2 DEF InvocationOK, Open
<1>4. CASE x.alone
  <2>1. \A q \in RecordingActor : invocation'[q] = Recording!Idle
    BY <1>2, <1>4, UnderWay
  <2>2. EndedOK(lastEnded)'
    BY <1>1, <1>4 DEF EndedOK
  <2>. QED BY <1>2, <1>3, <2>1, <2>2, StepIs DEF RecordingInv
<1>5. CASE ~ x.alone
  <2>1. lastEnded' = None
    BY <1>1, <1>5
  <2>. QED BY <1>2, <1>3, <2>1, StepIs DEF RecordingInv
<1>. QED BY <1>4, <1>5

\* The kind of an invocation, by the event that it tells next.
LEMMA KindIs ==
  ASSUME NEW x, x \in Invocation, PlanOK(x)
  PROVE  /\ x.op = "tool" => IsCalling(x)
         /\ x.op # "resume" /\ Head(x.todo) = "tool.called" => IsCalling(x)
         /\ x.op # "resume" /\ Head(x.todo) = "tool.waiting_approval" => IsWaiting(x)
         /\ x.op # "resume" /\ Head(x.todo) = "run.waiting_approval" => HasWaited(x)
         /\ x.op # "resume" /\ Head(x.todo) = "tool.failed" => IsFailing(x)
         /\ x.op # "resume" /\ Head(x.todo) \in {"tool.denied", "tool.completed"} => IsAnswering(x)
         /\ x.op # "resume" /\ Head(x.todo) \in {"run.completed", "run.yielded", "run.denied"} => IsEnding(x)
         /\ x.op = "list" => IsFailing(x) \/ IsAnswering(x)
         /\ x.op = "create" => \/ IsFailing(x) \/ IsAnswering(x)
                               \/ IsEnding(x) /\ Head(x.todo) = "run.completed"
<1>1. IsResuming(x) => x.op = "resume"
  BY DEF IsResuming
<1>2. x.op = "tool" => IsCalling(x)
  BY DEF PlanOK, IsResuming, IsWaiting, HasWaited, IsFailing, IsAnswering, IsEnding
<1>3. x.op = "list" => IsFailing(x) \/ IsAnswering(x)
  BY DEF PlanOK, IsCalling, IsResuming, IsWaiting, HasWaited, IsEnding
<1>4. x.op = "create" => IsFailing(x) \/ IsAnswering(x) \/ IsEnding(x)
  BY DEF PlanOK, IsCalling, IsResuming, IsWaiting, HasWaited
<1>. QED BY <1>1, <1>2, <1>3, <1>4, HeadIs DEF PlanOK

LEMMA CreateCallStep ==
  ASSUME RecordingInv, NEW p \in RecordingActor, Recording!CreateCall(p)
  PROVE  RecordingInv'
<1>1. PICK x : x = invocation[p]
  OBVIOUS
<1>2. /\ x.op \in {"emit", "list"} /\ Head(x.todo) = "tool.called" /\ x # Recording!Idle
      /\ Recording!Done(p) /\ toolCall' = [status |-> "proposed", approval |-> FALSE]
      /\ UNCHANGED <<results, messages, checkpoints, approval, runParked, invoked, ran, besides>>
  BY <1>1 DEF Recording!CreateCall, Recording!Event, Recording!Idle
<1>3. x \in Invocation /\ PlanOK(x) /\ ToldOK(x) /\ RowsOK
  BY <1>1, <1>2, UnderWay
<1>4. IsCalling(x) /\ x.op = "emit" /\ Tail(x.todo) = << >> /\ MayYield(x)
  BY <1>2, <1>3, KindIs, HeadIs DEF IsCalling, MayYield
<1>5. PICK y : y = [x EXCEPT !.op = "tool"]
  OBVIOUS
<1>6. /\ y \in Invocation /\ y.alone = x.alone /\ IsCalling(y) /\ y.op = "tool" /\ y.status = "proposed"
      /\ invocation' = [invocation EXCEPT ![p] = y] /\ UNCHANGED lastEnded
  <2>1. y \in Invocation /\ y.alone = x.alone /\ IsCalling(y) /\ y.op = "tool" /\ y.status = "proposed"
    BY <1>3, <1>4, <1>5 DEF Invocation, IsCalling
  <2>2. invocation' = [invocation EXCEPT ![p].op = "tool"] /\ UNCHANGED lastEnded
    BY <1>1, <1>2, <1>4, DoneIs
  <2>3. invocation' = [invocation EXCEPT ![p] = y]
    BY <1>1, <1>3, <1>5, <2>2 DEF Invocation
  <2>. QED BY <2>1, <2>2, <2>3
<1>7. toolCall' \in Recording!ToolCall /\ toolCall' # None
  <2>1. toolCall' \in Recording!ToolCall
    BY <1>2 DEF Recording!ToolCall
  <2>. QED BY <2>1, RecordingNames
<1>8. RowsOK'
  BY <1>2, <1>3, <1>7 DEF RowsOK, OnceEach
<1>9. ~ IsEnding(y) /\ ~ HasWaited(y) /\ ~ IsMarked(y)
  BY <1>6, HeadIs DEF IsMarked, IsEnding, HasWaited
<1>10. ToldOK(y)'
  BY <1>6, <1>7, <1>9 DEF ToldOK
<1>11. \A run, status : HasResult(run, status) => HasResult(run, status)'
  BY <1>2 DEF HasResult
<1>12. PlanOK(y)
  BY <1>6 DEF PlanOK
<1>. QED BY <1>1, <1>2, <1>4, <1>6, <1>7, <1>8, <1>10, <1>11, <1>12, GoesOnStep

\* The row of a call that is there stays there.
LEMMA MarkedIs ==
  ASSUME RowsOK, toolCall # None, NEW p, NEW x, x = invocation[p],
         x.status \in {"waiting_approval", "completed", "denied", "failed"},
         toolCall' = Recording!Marked(p),
         UNCHANGED <<results, messages, checkpoints, approval, runParked, ran, besides>>
  PROVE  /\ RowsOK' /\ toolCall' # None
         /\ x.run = RecordingOwn => /\ toolCall'.status = x.status
                                    /\ x.status = "waiting_approval" => toolCall'.approval
         /\ \A run, status : HasResult(run, status) => HasResult(run, status)'
<1>1. toolCall \in Recording!ToolCall
  BY DEF RowsOK
<1>2. CASE x.run = RecordingOwn
  <2>. PICK b \in BOOLEAN : b = (toolCall.approval \/ x.status = "waiting_approval")
    OBVIOUS
  <2>1. toolCall' = [status |-> x.status, approval |-> b] /\ (x.status = "waiting_approval" => b)
    BY <1>2 DEF Recording!Marked
  <2>2. toolCall' \in Recording!ToolCall
    BY <2>1 DEF Recording!ToolCall
  <2>3. toolCall' # None
    BY <2>2, RecordingNames
  <2>4. RowsOK'
    BY <2>2, <2>3 DEF RowsOK, OnceEach
  <2>5. toolCall'.status = x.status /\ (x.status = "waiting_approval" => toolCall'.approval)
    BY <2>1
  <2>6. \A run, status : HasResult(run, status) => HasResult(run, status)'
    BY DEF HasResult
  <2>. QED BY <2>3, <2>4, <2>5, <2>6
<1>3. CASE x.run # RecordingOwn
  <2>1. toolCall' = toolCall
    BY <1>3 DEF Recording!Marked
  <2>2. RowsOK'
    BY <2>1 DEF RowsOK, OnceEach
  <2>. QED BY <1>3, <2>1, <2>2 DEF HasResult
<1>. QED BY <1>2, <1>3

LEMMA WaitStep ==
  ASSUME RecordingInv, NEW p \in RecordingActor, Recording!Wait(p)
  PROVE  RecordingInv'
<1>1. PICK x : x = invocation[p]
  OBVIOUS
<1>2. /\ x.op \in {"emit", "list"} /\ Head(x.todo) = "tool.waiting_approval" /\ x # Recording!Idle
      /\ Recording!Done(p) /\ toolCall' = Recording!Marked(p)
      /\ UNCHANGED <<results, messages, checkpoints, approval, runParked, invoked, ran, besides>>
  BY <1>1 DEF Recording!Wait, Recording!Event, Recording!Idle
<1>3. x \in Invocation /\ PlanOK(x) /\ ToldOK(x) /\ RowsOK
  BY <1>1, <1>2, UnderWay
<1>4. IsWaiting(x) /\ Tail(x.todo) = <<"run.waiting_approval">> /\ ~ IsCalling(x)
  BY <1>2, <1>3, KindIs, HeadIs
<1>5. /\ x.run = RecordingOwn /\ x.status = "waiting_approval" /\ x.text = None /\ x.op = "emit"
      /\ toolCall # None
  BY <1>3, <1>4 DEF IsWaiting, ToldOK
<1>6. PICK y : y = [x EXCEPT !.op = "emit", !.todo = <<"run.waiting_approval">>]
  OBVIOUS
<1>7. y \in Invocation /\ y.alone = x.alone /\ HasWaited(y)
  <2>1. <<"run.waiting_approval">> \in Seq(RecordingEvent)
    BY DEF RecordingEvent
  <2>2. y \in Invocation /\ y.alone = x.alone /\ y.run = x.run
        /\ y.status = x.status /\ y.text = x.text
        /\ y.op = "emit" /\ y.todo = <<"run.waiting_approval">>
    BY <1>3, <1>6, <2>1, Zenon DEF Invocation
  <2>. QED BY <1>5, <2>2 DEF HasWaited
<1>8. invocation' = [invocation EXCEPT ![p] = y] /\ UNCHANGED lastEnded
  <2>1. Tail(x.todo) # << >>
    BY <1>4, ListsAre
  <2>2. /\ invocation' = [invocation EXCEPT ![p] = [x EXCEPT !.op = "emit", !.todo = Tail(x.todo)]]
        /\ UNCHANGED lastEnded
    BY <1>1, <1>2, <2>1, DoneIs
  <2>. QED BY <1>4, <1>6, <2>2, Zenon
<1>9. /\ RowsOK' /\ toolCall' # None /\ toolCall'.status = "waiting_approval" /\ toolCall'.approval
      /\ \A run, status : HasResult(run, status) => HasResult(run, status)'
  BY <1>1, <1>2, <1>3, <1>5, MarkedIs
<1>10. ~ IsEnding(y) /\ ~ IsCalling(y) /\ ~ MayYield(y) /\ y.status = "waiting_approval" /\ y.op = "emit"
  BY <1>7, HeadIs, ListsAre DEF HasWaited, MayYield
<1>11. ToldOK(y)'
  BY <1>9, <1>10 DEF ToldOK
<1>12. PlanOK(y)
  BY <1>7 DEF PlanOK
<1>. QED BY <1>1, <1>2, <1>7, <1>8, <1>9, <1>10, <1>11, <1>12, GoesOnStep

LEMMA MarkStep ==
  ASSUME RecordingInv, NEW p \in RecordingActor, Recording!Mark(p)
  PROVE  RecordingInv'
<1>1. PICK x : x = invocation[p]
  OBVIOUS
<1>2. /\ x.op = "emit" /\ Head(x.todo) \in {"tool.completed", "tool.denied", "tool.failed"}
      /\ x # Recording!Idle
      /\ toolCall' = Recording!Marked(p) /\ invocation' = [invocation EXCEPT ![p].op = "list"]
      /\ UNCHANGED <<results, messages, checkpoints, approval, runParked, invoked, lastEnded, ran, besides>>
  BY <1>1 DEF Recording!Mark, Recording!Event, Recording!Idle
<1>3. x \in Invocation /\ PlanOK(x) /\ ToldOK(x) /\ RowsOK
  BY <1>1, <1>2, UnderWay
<1>4. (IsFailing(x) \/ IsAnswering(x)) /\ ~ IsCalling(x)
  BY <1>2, <1>3, KindIs, HeadIs
<1>5. x.status \in {"completed", "denied", "failed"} /\ toolCall # None
  BY <1>3, <1>4 DEF IsFailing, IsAnswering, ToldOK
<1>6. PICK y : y = [x EXCEPT !.op = "list"]
  OBVIOUS
<1>7. /\ y \in Invocation /\ y.alone = x.alone /\ y.op = "list" /\ y.run = x.run /\ y.status = x.status
      /\ y.text = x.text /\ y.todo = x.todo /\ invocation' = [invocation EXCEPT ![p] = y]
  BY <1>1, <1>2, <1>3, <1>6 DEF Invocation
<1>8. \A event : EndsWith(x, event) => EndsWith(y, event)
  BY <1>7 DEF EndsWith
<1>9. IsFailing(y) \/ IsAnswering(y)
  BY <1>4, <1>7, <1>8 DEF IsFailing, IsAnswering
<1>10. /\ RowsOK' /\ toolCall' # None /\ (x.run = RecordingOwn => toolCall'.status = x.status)
       /\ \A run, status : HasResult(run, status) => HasResult(run, status)'
  BY <1>1, <1>2, <1>3, <1>5, MarkedIs
<1>11. ~ IsEnding(y) /\ ~ HasWaited(y) /\ ~ MayYield(y) /\ PlanOK(y)
  BY <1>7, <1>9 DEF IsEnding, HasWaited, MayYield, PlanOK
<1>12. y.status = "completed" => y.run \in ran'
  BY <1>2, <1>3, <1>7 DEF ToldOK
<1>13. ToldOK(y)'
  BY <1>7, <1>10, <1>11, <1>12 DEF ToldOK
<1>. QED BY <1>1, <1>2, <1>7, <1>10, <1>11, <1>13, GoesOnStep
\* A result is there, and the invocation goes on to what it tells last.
LEMMA ToldStep ==
  ASSUME RecordingInv, NEW p \in RecordingActor, NEW x, x = invocation[p], x # Recording!Idle,
         IsAnswering(x), x.op \in {"list", "create"}, Recording!Done(p), HasResult(x.run, x.status)',
         RowsOK', UNCHANGED <<toolCall, runParked, invoked, ran, besides>>,
         \A run, status : HasResult(run, status) => HasResult(run, status)'
  PROVE  RecordingInv'
<1>1. x \in Invocation /\ ToldOK(x)
  BY UnderWay
<1>2. PICK event \in RecordingEvent : EndsWith(x, event) /\ Tail(x.todo) = <<event>>
  BY HeadIs
<1>3. PICK y : y = [x EXCEPT !.op = "emit", !.todo = <<event>>]
  OBVIOUS
<1>4. /\ y \in Invocation /\ y.op = "emit" /\ y.todo = <<event>> /\ y.run = x.run
      /\ y.status = x.status /\ y.text = x.text /\ y.alone = x.alone
  <2>1. <<event>> \in Seq(RecordingEvent)
    OBVIOUS
  <2>. QED BY <1>1, <1>3, <2>1 DEF Invocation
<1>5. invocation' = [invocation EXCEPT ![p] = y] /\ UNCHANGED lastEnded
  <2>1. Tail(x.todo) # << >>
    BY <1>2, ListsAre
  <2>2. /\ invocation' = [invocation EXCEPT ![p] = [x EXCEPT !.op = "emit", !.todo = Tail(x.todo)]]
        /\ UNCHANGED lastEnded
    BY <2>1, DoneIs
  <2>. QED BY <1>2, <1>3, <2>2
<1>6. EndsWith(y, event) /\ x.status \in {"denied", "completed"}
  BY <1>2, <1>4 DEF EndsWith, IsAnswering
<1>7. IsEnding(y)
  BY <1>4, <1>6 DEF IsEnding
<1>8. ~ IsCalling(y) /\ ~ HasWaited(y) /\ ~ MayYield(y) /\ PlanOK(y)
  BY <1>4, <1>7, HeadIs, ListsAre DEF MayYield, PlanOK
<1>9. IsMarked(x) /\ ~ IsCalling(x) /\ (x.status = "completed" => x.run \in ran)
  BY <1>1, HeadIs DEF IsMarked, ToldOK
<1>10. toolCall # None
  BY <1>1, <1>9 DEF ToldOK
<1>11. x.alone /\ x.run = RecordingOwn => toolCall.status = x.status
  BY <1>1, <1>9 DEF ToldOK
<1>12. ToldOK(y)'
  BY <1>4, <1>8, <1>9, <1>10, <1>11 DEF ToldOK
<1>. QED BY <1>4, <1>5, <1>8, <1>10, <1>12, GoesOnStep

LEMMA ListStep ==
  ASSUME RecordingInv, NEW p \in RecordingActor, Recording!List(p)
  PROVE  RecordingInv'
<1>1. PICK x : x = invocation[p]
  OBVIOUS
<1>2. /\ x.op = "list" \/ (x.op = "emit" /\ Head(x.todo) = "run.completed")
      /\ x # Recording!Idle
      /\ UNCHANGED <<toolCall, results, messages, checkpoints, approval, runParked, invoked, ran, besides>>
  BY <1>1 DEF Recording!List, Recording!Event, Recording!Idle, Recording!Rows
<1>3. x \in Invocation /\ PlanOK(x) /\ ToldOK(x) /\ RowsOK
  BY <1>1, <1>2, UnderWay
<1>4. /\ IsFailing(x) \/ IsAnswering(x) \/ (IsEnding(x) /\ Head(x.todo) = "run.completed")
      /\ x.op = "list" => IsFailing(x) \/ IsAnswering(x)
      /\ x.op = "emit" => Head(x.todo) = "run.completed"
      /\ ~ IsCalling(x) /\ Recording!Event(p) = Head(x.todo)
  BY <1>1, <1>2, <1>3, KindIs, HeadIs DEF Recording!Event
<1>5. toolCall # None
  BY <1>3, <1>4 DEF ToldOK
<1>6. RowsOK'
  BY <1>2, <1>3 DEF RowsOK, OnceEach
<1>7. \A run, status : HasResult(run, status) => HasResult(run, status)'
  BY <1>2 DEF HasResult
<1>8. CASE ~ Recording!Recorded(p)
  <2>1. invocation' = [invocation EXCEPT ![p].op = "create"] /\ UNCHANGED lastEnded
    BY <1>8 DEF Recording!List
  <2>2. PICK y : y = [x EXCEPT !.op = "create"]
    OBVIOUS
  <2>3. /\ y \in Invocation /\ y.alone = x.alone /\ y.op = "create" /\ y.run = x.run
        /\ y.status = x.status /\ y.text = x.text /\ y.todo = x.todo
        /\ invocation' = [invocation EXCEPT ![p] = y]
    BY <1>1, <1>2, <1>3, <2>1, <2>2 DEF Invocation
  <2>4. \A event : EndsWith(x, event) <=> EndsWith(y, event)
    BY <2>3 DEF EndsWith
  <2>5. /\ IsFailing(x) => IsFailing(y)
        /\ IsAnswering(x) => IsAnswering(y)
        /\ IsEnding(x) /\ Head(x.todo) = "run.completed" => IsEnding(y)
    <3>1. IsFailing(x) => IsFailing(y)
      BY <2>3 DEF IsFailing
    <3>2. IsAnswering(x) => IsAnswering(y)
      BY <2>3, <2>4 DEF IsAnswering
    <3>3. ASSUME IsEnding(x), Head(x.todo) = "run.completed"
          PROVE  IsEnding(y)
      <4>1. PICK event \in RecordingEvent : EndsWith(x, event) /\ x.todo = <<event>>
        BY <3>3 DEF IsEnding
      <4>2. event = "run.completed"
        BY <3>3, <4>1, ListsAre
      <4>. QED BY <2>3, <2>4, <3>3, <4>1, <4>2 DEF IsEnding
    <3>. QED BY <3>1, <3>2, <3>3
  <2>6. PlanOK(y) /\ ~ MayYield(y) /\ ~ HasWaited(y)
    BY <1>4, <2>3, <2>5 DEF PlanOK, MayYield, HasWaited
  <2>7. /\ IsEnding(y) => IsEnding(x)
        /\ IsMarked(y) => IsMarked(x)
    <3>1. IsEnding(y) => IsEnding(x)
      BY <1>4, <2>3, <2>5, HeadIs
    <3>2. (IsFailing(y) \/ IsAnswering(y)) => x.op = "list" /\ (IsFailing(x) \/ IsAnswering(x))
      BY <1>2, <1>4, <2>3, HeadIs
    <3>. QED BY <2>3, <2>6, <3>1, <3>2 DEF IsMarked
  <2>8. IF IsEnding(y) THEN NewMessage(y) \notin Recording!Range(messages)
        ELSE NewResult(y) \notin Recording!Range(results)
    <3>1. CASE IsEnding(x) /\ Head(x.todo) = "run.completed"
      BY <1>1, <1>4, <1>8, <2>3, <2>5, <3>1 DEF Recording!Recorded, NewMessage
    <3>2. CASE IsFailing(x) \/ IsAnswering(x)
      <4>1. ~ IsEnding(y) /\ Head(x.todo) # "run.completed"
        BY <2>7, <3>2, HeadIs
      <4>2. CASE x.status = "completed"
        <5>1. Head(x.todo) = "tool.completed"
          BY <3>2, <4>2, HeadIs DEF IsFailing
        <5>. QED BY <1>1, <1>4, <1>8, <2>3, <4>1, <4>2, <5>1 DEF Recording!Recorded, NewResult
      <4>3. CASE x.status # "completed"
        <5>1. Head(x.todo) # "tool.completed"
          BY <3>2, <4>3, HeadIs
        <5>2. \A i \in DOMAIN results : results[i].run # x.run
          BY <1>1, <1>4, <1>8, <4>1, <5>1 DEF Recording!Recorded
        <5>. QED BY <2>3, <4>1, <5>2 DEF Recording!Range, NewResult
      <4>. QED BY <4>2, <4>3
    <3>. QED BY <1>4, <3>1, <3>2
  <2>9. ToldOK(y)
    <3>1. ~ (y.op = "emit" /\ IsCalling(y))
      BY <2>3
    <3>2. y.status = "completed" => y.run \in ran
      BY <1>3, <2>3 DEF ToldOK
    <3>3. IsEnding(y) => HasResult(y.run, y.status)
      BY <1>3, <2>3, <2>7 DEF ToldOK
    <3>4. y.alone /\ IsMarked(y) /\ y.run = RecordingOwn => toolCall.status = y.status
      BY <1>3, <2>3, <2>7 DEF ToldOK
    <3>. QED BY <1>5, <2>6, <2>8, <3>1, <3>2, <3>3, <3>4 DEF ToldOK
  <2>10. ToldOK(y)'
    BY <1>2, <2>9 DEF ToldOK, HasResult
  <2>. QED BY <1>1, <1>2, <1>5, <1>6, <1>7, <2>1, <2>3, <2>6, <2>10, GoesOnStep
<1>9. CASE Recording!Recorded(p) /\ IsAnswering(x)
  <2>1. Recording!Done(p) /\ x.op = "list"
    BY <1>2, <1>9, HeadIs DEF Recording!List
  <2>2. HasResult(x.run, x.status)
    <3>1. \/ x.status = "denied" /\ Head(x.todo) = "tool.denied"
          \/ x.status = "completed" /\ Head(x.todo) = "tool.completed"
      BY <1>9, HeadIs
    <3>. QED BY <1>1, <1>4, <1>9, <3>1 DEF Recording!Recorded, HasResult
  <2>. QED BY <1>1, <1>2, <1>5, <1>6, <1>7, <1>9, <2>1, <2>2, ToldStep
<1>10. CASE Recording!Recorded(p) /\ ~ IsAnswering(x)
  <2>1. Recording!Done(p)
    BY <1>10 DEF Recording!List
  <2>2. Tail(x.todo) = << >> /\ Head(x.todo) # "tool.called"
    BY <1>4, <1>10, HeadIs
  <2>3. PICK z : z = [run |-> x.run, status |-> x.status, text |-> x.text]
    OBVIOUS
  <2>4. x.alone => EndedOK(z)
    <3>1. CASE IsFailing(x)
      <4>1. x.status = "failed" /\ x.text = None /\ Head(x.todo) = "tool.failed" /\ x.op = "list"
        BY <1>2, <3>1, HeadIs DEF IsFailing
      <4>2. \E i \in DOMAIN results : results[i].run = x.run
        BY <1>1, <1>4, <1>10, <4>1 DEF Recording!Recorded
      <4>3. IsMarked(x)
        BY <3>1, <4>1 DEF IsMarked
      <4>. QED BY <1>3, <2>3, <4>1, <4>2, <4>3 DEF ToldOK, EndedOK, HasResult
    <3>2. CASE IsEnding(x) /\ Head(x.todo) = "run.completed"
      <4>1. NewMessage(x) \in Recording!Range(messages)
        BY <1>1, <1>4, <1>10, <3>2 DEF Recording!Recorded, NewMessage
      <4>2. x.status # "waiting_approval" /\ HasResult(x.run, x.status)
        BY <1>3, <3>2 DEF IsEnding, ToldOK
      <4>3. x.status # "resumed" => IsMarked(x)
        BY <3>2 DEF IsMarked
      <4>. QED BY <1>3, <2>3, <4>1, <4>2, <4>3 DEF ToldOK, EndedOK, NewMessage
    <3>. QED BY <1>4, <1>10, <3>1, <3>2
  <2>5. x.alone => EndedOK(z)'
    BY <1>2, <2>4 DEF EndedOK, HasResult
  <2>. QED BY <1>1, <1>2, <1>5, <1>6, <1>7, <2>1, <2>2, <2>3, <2>5, EndsStep
<1>. QED BY <1>8, <1>9, <1>10
LEMMA CreateStep ==
  ASSUME RecordingInv, NEW p \in RecordingActor, Recording!Create(p)
  PROVE  RecordingInv'
<1>1. PICK x : x = invocation[p]
  OBVIOUS
<1>2. /\ x.op = "create" /\ x # Recording!Idle /\ Recording!Done(p)
      /\ UNCHANGED <<toolCall, checkpoints, approval, runParked, invoked, ran, besides>>
  BY <1>1 DEF Recording!Create, Recording!Idle
<1>3. x \in Invocation /\ PlanOK(x) /\ ToldOK(x) /\ RowsOK /\ (~ besides => x.alone)
  BY <1>1, <1>2, UnderWay
<1>4. /\ IsFailing(x) \/ IsAnswering(x) \/ (IsEnding(x) /\ Head(x.todo) = "run.completed")
      /\ ~ IsCalling(x)
  BY <1>2, <1>3, KindIs, HeadIs
<1>5. toolCall # None /\ toolCall' # None
  BY <1>2, <1>3, <1>4 DEF ToldOK
<1>6. CASE IsEnding(x) /\ Head(x.todo) = "run.completed"
  <2>1. messages' = Append(messages, NewMessage(x)) /\ UNCHANGED results
    BY <1>1, <1>6 DEF Recording!Create, NewMessage
  <2>2. NewMessage(x) \in Recording!Message
    BY <1>3, <1>6, HeadIs DEF NewMessage, Invocation, Recording!Message
  <2>3. messages \in Seq(Recording!Message)
    BY <1>3 DEF RowsOK
  <2>4. PICK m : m = Append(messages, NewMessage(x))
    OBVIOUS
  <2>5. /\ m \in Seq(Recording!Message) /\ NewMessage(x) \in Recording!Range(m)
        /\ OnceEach(messages) /\ NewMessage(x) \notin Recording!Range(messages) => OnceEach(m)
    BY <2>2, <2>3, <2>4, AppendIs
  <2>6. ~ besides => OnceEach(m)
    BY <1>2, <1>3, <1>6, <2>5 DEF RowsOK, ToldOK
  <2>7. RowsOK'
    BY <1>2, <1>3, <2>1, <2>4, <2>5, <2>6 DEF RowsOK, OnceEach
  <2>8. \A run, status : HasResult(run, status) => HasResult(run, status)'
    BY <2>1 DEF HasResult
  <2>9. PICK z : z = [run |-> x.run, status |-> x.status, text |-> x.text]
    OBVIOUS
  <2>10. x.alone => EndedOK(z)'
    <3>1. x.status # "waiting_approval" /\ HasResult(x.run, x.status)'
      BY <1>3, <1>6, <2>8 DEF IsEnding, ToldOK
    <3>2. x.status # "resumed" => IsMarked(x)
      BY <1>6 DEF IsMarked
    <3>3. x.alone /\ x.run = RecordingOwn /\ x.status # "resumed" => toolCall'.status = x.status
      BY <1>2, <1>3, <3>2 DEF ToldOK
    <3>4. [run |-> x.run, text |-> x.text] \in Recording!Range(messages)'
      BY <2>1, <2>4, <2>5 DEF NewMessage, Recording!Range
    <3>. QED BY <2>9, <3>1, <3>3, <3>4 DEF EndedOK
  <2>11. Tail(x.todo) = << >> /\ Head(x.todo) # "tool.called"
    BY <1>6, HeadIs
  <2>. QED BY <1>1, <1>2, <1>5, <2>7, <2>8, <2>9, <2>10, <2>11, EndsStep
<1>7. CASE IsFailing(x) \/ IsAnswering(x)
  <2>1. Head(x.todo) # "run.completed" /\ ~ IsEnding(x) /\ x.status \in {"failed", "denied", "completed"}
    BY <1>7, HeadIs DEF IsFailing, IsAnswering
  <2>2. results' = Append(results, NewResult(x)) /\ UNCHANGED messages
    BY <1>1, <2>1 DEF Recording!Create, NewResult
  <2>3. NewResult(x) \in Recording!ToolResult /\ NewResult(x).run = x.run
    BY <1>3 DEF NewResult, Invocation, Recording!ToolResult
  <2>4. results \in Seq(Recording!ToolResult)
    BY <1>3 DEF RowsOK
  <2>5. PICK r : r = Append(results, NewResult(x))
    OBVIOUS
  <2>6. /\ r \in Seq(Recording!ToolResult)
        /\ Recording!Range(r) = Recording!Range(results) \cup {NewResult(x)}
        /\ OnceEach(results) /\ NewResult(x) \notin Recording!Range(results) => OnceEach(r)
    BY <2>3, <2>4, <2>5, AppendIs
  <2>7. ~ besides => OnceEach(r)
    BY <1>2, <1>3, <2>1, <2>6 DEF RowsOK, ToldOK
  <2>8. NewResult(x).status = "completed" => x.run \in ran
    BY <1>3 DEF NewResult, ToldOK
  <2>9. \A i \in DOMAIN r : r[i].status = "completed" => r[i].run \in ran
    <3>1. \A row \in Recording!Range(results) : row.status = "completed" => row.run \in ran
      BY <1>3 DEF RowsOK, Recording!Range
    <3>2. \A i \in DOMAIN r : r[i] \in Recording!Range(results) \/ r[i] = NewResult(x)
      BY <2>6 DEF Recording!Range
    <3>. QED BY <2>3, <2>8, <3>1, <3>2
  <2>10. RowsOK'
    BY <1>2, <1>3, <2>2, <2>5, <2>6, <2>7, <2>9 DEF RowsOK, OnceEach
  <2>11. Recording!Range(results)' = Recording!Range(r) /\ DOMAIN results' = DOMAIN r /\ results' = r
    BY <2>2, <2>5 DEF Recording!Range
  <2>12. ASSUME NEW run, NEW status
         PROVE  /\ HasResult(run, status) => HasResult(run, status)'
                /\ run = x.run /\ status = x.status => HasResult(run, status)'
    <3>1. /\ \A i \in DOMAIN results : \E j \in DOMAIN r : r[j] = results[i]
          /\ \E j \in DOMAIN r : r[j] = NewResult(x)
      BY <2>6 DEF Recording!Range
    <3>2. (\E i \in DOMAIN results : results[i].run = run) \/ run = x.run =>
            \E j \in DOMAIN r : r[j].run = run
      BY <2>3, <3>1
    <3>3. \/ [run |-> run, status |-> "completed"] \in Recording!Range(results)
          \/ run = x.run /\ x.status = "completed" =>
            [run |-> run, status |-> "completed"] \in Recording!Range(r)
      BY <2>6 DEF NewResult
    <3>4. [run |-> run, status |-> "completed"] \in Recording!Range(results) =>
            [run |-> run, status |-> "completed"] \in Recording!Range(r)
      BY <2>6
    <3>. QED BY <2>11, <3>2, <3>3, <3>4 DEF HasResult
  <2>13. CASE IsAnswering(x)
    BY <1>1, <1>2, <2>10, <2>12, <2>13, ToldStep
  <2>14. CASE IsFailing(x)
    <3>1. PICK z : z = [run |-> x.run, status |-> x.status, text |-> x.text]
      OBVIOUS
    <3>2. x.status = "failed" /\ x.text = None /\ IsMarked(x)
      BY <1>2, <2>14 DEF IsFailing, IsMarked
    <3>3. x.alone /\ x.run = RecordingOwn => toolCall'.status = x.status
      BY <1>2, <1>3, <3>2 DEF ToldOK
    <3>4. HasResult(x.run, x.status)'
      BY <2>12
    <3>5. x.alone => EndedOK(z)'
      BY <3>1, <3>2, <3>3, <3>4 DEF EndedOK
    <3>6. Tail(x.todo) = << >> /\ Head(x.todo) # "tool.called"
      BY <2>14, HeadIs
    <3>. QED BY <1>1, <1>2, <1>5, <2>10, <2>12, <3>1, <3>5, <3>6, EndsStep
  <2>. QED BY <1>7, <2>13, <2>14
<1>. QED BY <1>4, <1>6, <1>7

LEMMA CreateCheckpointStep ==
  ASSUME RecordingInv, NEW p \in RecordingActor, Recording!CreateCheckpoint(p) \/ Recording!Ignore(p)
  PROVE  RecordingInv'
<1>1. PICK x : x = invocation[p]
  OBVIOUS
<1>2. PICK c : c = checkpoints'
  OBVIOUS
<1>3. /\ x.op \in {"emit", "list"} /\ x # Recording!Idle /\ Recording!Done(p)
      /\ \/ Head(x.todo) = "run.waiting_approval"
            /\ c = Append(checkpoints, [run |-> x.run, kind |-> "approval_wait"])
         \/ Head(x.todo) = "run.yielded" /\ c = Append(checkpoints, [run |-> x.run, kind |-> "step"])
         \/ Head(x.todo) = "run.denied" /\ c = checkpoints
      /\ UNCHANGED <<toolCall, results, messages, approval, runParked, invoked, ran, besides>>
  BY <1>1, <1>2 DEF Recording!CreateCheckpoint, Recording!Ignore, Recording!Event, Recording!Idle,
                    Recording!Rows
<1>4. x \in Invocation /\ PlanOK(x) /\ ToldOK(x) /\ RowsOK
  BY <1>1, <1>3, UnderWay
<1>5. /\ Head(x.todo) = "run.waiting_approval" => HasWaited(x)
      /\ Head(x.todo) # "run.waiting_approval" => IsEnding(x)
      /\ Tail(x.todo) = << >> /\ Head(x.todo) # "tool.called" /\ ~ IsCalling(x)
  BY <1>3, <1>4, KindIs, HeadIs
<1>6. toolCall # None
  BY <1>4, <1>5 DEF ToldOK
<1>7. /\ c \in Seq(Recording!Checkpoint)
      /\ HasWaited(x) => c # << >> /\ c[Len(c)] = [run |-> x.run, kind |-> "approval_wait"]
  <2>1. /\ [run |-> x.run, kind |-> "approval_wait"] \in Recording!Checkpoint
        /\ [run |-> x.run, kind |-> "step"] \in Recording!Checkpoint
        /\ checkpoints \in Seq(Recording!Checkpoint)
    BY <1>4 DEF Invocation, Recording!Checkpoint, RowsOK
  <2>2. HasWaited(x) => c = Append(checkpoints, [run |-> x.run, kind |-> "approval_wait"])
    BY <1>3, HeadIs
  <2>. QED BY <1>3, <2>1, <2>2, AppendIs
<1>8. RowsOK'
  BY <1>2, <1>3, <1>4, <1>7 DEF RowsOK, OnceEach
<1>9. \A run, status : HasResult(run, status) => HasResult(run, status)'
  BY <1>3 DEF HasResult
<1>10. PICK z : z = [run |-> x.run, status |-> x.status, text |-> x.text]
  OBVIOUS
<1>11. ASSUME x.alone
       PROVE  EndedOK(z)'
  <2>1. CASE HasWaited(x)
    <3>1. x.run = RecordingOwn /\ x.status = "waiting_approval" /\ x.text = None /\ IsMarked(x)
      BY <2>1 DEF HasWaited, IsMarked
    <3>2. toolCall'.status = x.status /\ toolCall'.approval
      BY <1>3, <1>4, <1>11, <2>1, <3>1 DEF ToldOK
    <3>. QED BY <1>2, <1>7, <1>10, <2>1, <3>1, <3>2 DEF EndedOK, HasResult
  <2>2. CASE IsEnding(x) /\ Head(x.todo) # "run.waiting_approval"
    <3>1. x.text = None /\ x.status # "waiting_approval"
      BY <1>3, <2>2, HeadIs DEF IsEnding
    <3>2. HasResult(x.run, x.status)'
      BY <1>4, <1>9, <2>2 DEF ToldOK
    <3>3. x.status # "resumed" => IsMarked(x)
      BY <2>2 DEF IsMarked
    <3>4. x.run = RecordingOwn /\ x.status # "resumed" => toolCall'.status = x.status
      BY <1>3, <1>4, <1>11, <3>3 DEF ToldOK
    <3>. QED BY <1>10, <3>1, <3>2, <3>4 DEF EndedOK
  <2>. QED BY <1>5, <2>1, <2>2
<1>. QED BY <1>1, <1>3, <1>5, <1>6, <1>8, <1>9, <1>10, <1>11, EndsStep

LEMMA RecordingStep ==
  ASSUME RecordingInv, [Recording!Next]_RecordingVars
  PROVE  RecordingInv'
<1>1. CASE Recording!Decide
  BY <1>1, DecideApprovalStep
<1>2. ASSUME NEW p \in RecordingActor,
             \/ Recording!Generate(p) \/ Recording!Called(p) \/ Recording!Resumed(p)
             \/ Recording!Late(p) \/ Recording!Fail(p)
             \/ \E run \in Recording!Run : Recording!Continue(p, run) \/ Recording!ResumeRun(p, run)
             \/ Recording!CreateCall(p) \/ Recording!Wait(p) \/ Recording!Mark(p)
             \/ Recording!List(p) \/ Recording!Create(p)
             \/ Recording!CreateCheckpoint(p) \/ Recording!Ignore(p)
      PROVE  RecordingInv'
  BY <1>2, GenerateStep, CalledStep, ResumedStep, FailStep, ContinueStep, ResumeRunStep,
     CreateCallStep, WaitStep, MarkStep, ListStep, CreateStep, CreateCheckpointStep
<1>3. CASE UNCHANGED RecordingVars
  <2>1. UNCHANGED <<toolCall, results, messages, checkpoints, approval, runParked, invocation, invoked,
                    lastEnded, ran, besides>>
    BY <1>3 DEF RecordingVars
  <2>2. RowsOK'
    BY <2>1 DEF RecordingInv, RowsOK, OnceEach
  <2>3. ASSUME NEW q \in RecordingActor
        PROVE  InvocationOK(q)'
    BY <2>1 DEF RecordingInv, InvocationOK, ToldOK, HasResult
  <2>4. Open' = Open
    BY <2>1 DEF Open
  <2>5. lastEnded # None => EndedOK(lastEnded)'
    BY <2>1 DEF RecordingInv, EndedOK, HasResult
  <2>. QED BY <2>1, <2>2, <2>3, <2>4, <2>5 DEF RecordingInv
<1>. QED BY <1>1, <1>2, <1>3 DEF Recording!Next

\* The rows of a list that are like one that it has once.
LEMMA CountIs ==
  ASSUME NEW list, OnceEach(list), NEW row \in Recording!Range(list)
  PROVE  Recording!Count(list, row) = 1
<1>1. PICK i \in DOMAIN list : list[i] = row
  BY DEF Recording!Range
<1>2. {j \in DOMAIN list : list[j] = row} = {i}
  BY <1>1 DEF OnceEach
<1>3. Cardinality({i}) = 1
  BY FS_Singleton
<1>4. Recording!Cardinality({i}) = Cardinality({i})
  BY DEF Recording!Cardinality, Cardinality
<1>. QED BY <1>2, <1>3, <1>4 DEF Recording!Count

\* What a run's rows say happened: a completed result is of a tool that answered, an invocation that
\* ended by itself left its results, message, status and checkpoint, and nothing is there twice
\* unless two invocations overlapped (createClawRuntimeEventSink).
THEOREM RecordsWhatHappened == Spec => []HistoryIsWhatHappened
<1> DEFINE Inv == part = "recording" => RecordingInv
<1>1. Init => Inv
  BY RecordingInit DEF Init
<1>2. Inv /\ [Next]_vars => Inv'
  <2>. SUFFICES ASSUME part = "recording", RecordingInv, [Next]_vars PROVE RecordingInv'
    BY DEF Next, vars
  <2>1. [Recording!Next]_RecordingVars
    BY DEF Next, vars
  <2>. QED BY <2>1, RecordingStep
<1>3. Inv => HistoryIsWhatHappened
  <2>. SUFFICES ASSUME part = "recording", RecordingInv
                PROVE  Recording!TypeOK /\ Recording!HistoryIsWhatHappened
    BY DEF HistoryIsWhatHappened
  <2>1. Recording!TypeOK
    <3>1. /\ Recording!Range(results) \subseteq Recording!ToolResult
          /\ Recording!Range(messages) \subseteq Recording!Message
          /\ Recording!Range(checkpoints) \subseteq Recording!Checkpoint
      BY DEF RecordingInv, RowsOK, Recording!Range
    <3>2. runParked \in 0..invoked
      BY OpenSize, RecordingNames DEF RecordingInv
    <3>3. \A p \in RecordingActor :
            invocation[p].op \in {"idle", "tool", "resume", "emit", "list", "create"}
      BY DEF RecordingInv, InvocationOK, Invocation, Recording!Idle
    <3>. QED BY <3>1, <3>2, <3>3 DEF RecordingInv, RowsOK, Recording!TypeOK
  <2>2. ~ besides => /\ \A row \in Recording!Range(results) : Recording!Count(results, row) = 1
                     /\ \A row \in Recording!Range(messages) : Recording!Count(messages, row) = 1
    BY CountIs DEF RecordingInv, RowsOK
  <2>. QED BY <2>1, <2>2 DEF RecordingInv, RowsOK, EndedOK, HasResult, Recording!HistoryIsWhatHappened
<1>. QED BY <1>1, <1>2, <1>3, PTL DEF Spec
----------------------------------------------------------------------------
(* The rows of a model.                                                    *)

IsFree(row) == row # StorageNull /\ row.status = "free"
AsNumber(holds) == IF holds THEN 1 ELSE 0

RowsAreOK(list) ==
  /\ list = [i \in StorageId |-> list[i]]
  /\ \A i \in StorageId : list[i] = StorageNull \/ DOMAIN list[i] = Storage!Columns

\* What a call would take, if it comes to write.
IsTaking(x) ==
  /\ x.status = "free"
  /\ \/ x.op = "consume"
     \/ x.op = "update" /\ "status" \in DOMAIN x.data /\ x.data["status"] = "taken"

\* Where a call is: only mysql and prisma read again, and only memory has transactions.
StorageCallOK(c, x) ==
  /\ x = [pc |-> x.pc, op |-> x.op, id |-> x.id, status |-> x.status, data |-> x.data,
          found |-> x.found, read |-> x.read]
  /\ x.op \in Storage!Operations \cup {StorageNull}
  /\ x.id \in StorageId \cup {StorageNull} /\ x.found \in StorageId \cup {StorageNull}
  /\ x.op = "create" => x.id \in StorageId
  /\ x.pc \in {"ready", "statement", "act", "again", "remove", "commit", "done", "threw"}
  /\ x.pc \in {"act", "remove", "again"} => x.found \in StorageId /\ backend \notin {"memory", "mongodb"}
  /\ x.pc = "act" => x.op \in {"update", "delete"}
  /\ x.pc = "again" => x.op = "update" /\ backend \in {"mysql", "prisma"}
  /\ x.pc = "remove" => x.op = "consume"
  /\ x.pc = "commit" => transaction.call = c

\* The transaction has one statement; a call that took a row in it found it free.
TransactionOK ==
  \/ transaction = Storage!Nobody
  \/ /\ backend = "memory" /\ transaction.call \in StorageCall
     /\ transaction = [call |-> transaction.call, base |-> transaction.base, copy |-> transaction.copy]
     /\ RowsAreOK(transaction.base) /\ RowsAreOK(transaction.copy)
     /\ LET x == storageCalls[transaction.call] IN
        /\ x.pc \in {"statement", "commit", "threw"} /\ x.op \in {"create", "update"}
        /\ x.pc = "statement" => transaction.copy = transaction.base
        /\ x.pc = "commit" /\ x.read # StorageNull /\ IsTaking(x) /\ x.found \in StorageId =>
             IsFree(transaction.base[x.found]) /\ ~ IsFree(transaction.copy[x.found])

\* The calls that have taken a row, those among them that have yet to answer, and the turn that the
\* transaction has given it in its copy.
Holders(i) ==
  takers[i] \cup {c \in StorageCall : /\ storageCalls[c].pc = "again" /\ IsTaking(storageCalls[c])
                                      /\ storageCalls[c].found = i}
Given(i) ==
  AsNumber(/\ transaction.call # StorageNull
           /\ IsFree(transaction.copy[i]) /\ ~ IsFree(transaction.base[i]))

Ledger(i) ==
  /\ IsFiniteSet(Holders(i))
  /\ Cardinality(Holders(i)) + AsNumber(IsFree(table[i])) + Given(i) <= turns[i]

StorageInv ==
  /\ backend \in StorageBackends /\ RowsAreOK(table)
  /\ storageCalls = [c \in StorageCall |-> storageCalls[c]]
  /\ \A c \in StorageCall : StorageCallOK(c, storageCalls[c])
  /\ TransactionOK
  /\ turns \in [StorageId -> 0..StorageMaxTurns] /\ takers \in [StorageId -> SUBSET StorageCall]
  /\ dropped \subseteq StorageId
  /\ backend # "mysql" => \A i \in StorageId \ dropped : Ledger(i)

\* How many more calls may take a row.
Left(i) == turns[i] - AsNumber(IsFree(table[i])) - Given(i)
IsPending(x, i) == x.pc = "again" /\ IsTaking(x) /\ x.found = i
----------------------------------------------------------------------------
LEMMA StorageNames ==
  /\ StorageMaxTurns \in Nat \ {0} /\ StorageNull \notin StorageCall /\ StorageNull \notin StorageId
  /\ StorageNull \notin Storage!Operations /\ StorageNull # "free"
  /\ \A row \in StorageStored : DOMAIN row = Storage!Columns
  /\ \A input \in StorageInputs :
       /\ input.op \in Storage!Operations /\ input.id \in StorageId \cup {StorageNull}
       /\ input.op = "create" => input.id \in StorageId
BY StorageStorageAssumption DEF Storage!StorageAssumption

LEMMA NumberIs == ASSUME NEW b PROVE AsNumber(b) \in {0, 1}
BY DEF AsNumber

LEMMA LedgerIs ==
  ASSUME NEW i \in StorageId, turns \in [StorageId -> 0..StorageMaxTurns]
  PROVE  /\ Left(i) \in Int
         /\ Ledger(i) <=> IsFiniteSet(Holders(i)) /\ Cardinality(Holders(i)) <= Left(i)
<1>1. AsNumber(IsFree(table[i])) \in {0, 1} /\ Given(i) \in {0, 1} /\ turns[i] \in Nat
  BY StorageNames DEF Given, AsNumber
<1>2. IsFiniteSet(Holders(i)) => Cardinality(Holders(i)) \in Nat
  BY FS_CardinalityType
<1>. QED BY <1>1, <1>2 DEF Ledger, Left

\* One more or none of a finite set.
LEMMA OneMore ==
  ASSUME NEW S, IsFiniteSet(S), NEW n \in Int, Cardinality(S) <= n, NEW T, NEW c, NEW m \in Int,
         \/ T \subseteq S /\ m >= n
         \/ T \subseteq S \cup {c} /\ m >= n + 1
  PROVE  IsFiniteSet(T) /\ Cardinality(T) <= m
<1>1. Cardinality(S) \in Nat
  BY FS_CardinalityType
<1>2. \A U : IsFiniteSet(U) /\ T \subseteq U =>
               IsFiniteSet(T) /\ Cardinality(T) \in Nat /\ Cardinality(T) <= Cardinality(U)
  BY FS_Subset, FS_CardinalityType
<1>3. IsFiniteSet(S \cup {c}) /\ Cardinality(S \cup {c}) \in {Cardinality(S), Cardinality(S) + 1}
  BY FS_AddElement
<1>. QED BY <1>1, <1>2, <1>3

\* A step of a call leaves a ledger balanced: nobody takes the row, or the call does where a turn was
\* left, or it answers that it has taken it.
LEMMA LedgerStep ==
  ASSUME StorageInv, NEW c \in StorageCall, NEW y, storageCalls' = [storageCalls EXCEPT ![c] = y],
         NEW i \in StorageId, i \notin dropped, backend # "mysql",
         turns' \in [StorageId -> 0..StorageMaxTurns],
         \/ takers'[i] \subseteq takers[i] /\ ~ IsPending(y, i) /\ Left(i)' >= Left(i)
         \/ takers'[i] \subseteq takers[i] \cup {c} /\ Left(i)' >= Left(i) + 1
         \/ /\ takers'[i] \subseteq takers[i] \cup {c} /\ IsPending(storageCalls[c], i)
            /\ Left(i)' >= Left(i)
  PROVE  Ledger(i)'
<1> DEFINE S == Holders(i)
           T == Holders(i)'
<1>1. IsFiniteSet(S) /\ Cardinality(S) <= Left(i) /\ Left(i) \in Int
  BY LedgerIs DEF StorageInv
<1>2. Left(i)' \in Int /\ (Ledger(i)' <=> IsFiniteSet(T) /\ Cardinality(T) <= Left(i)')
  <2>1. AsNumber(IsFree(table[i]))' \in {0, 1} /\ Given(i)' \in {0, 1} /\ turns'[i] \in Nat
    BY NumberIs, StorageNames DEF Given, AsNumber
  <2>2. IsFiniteSet(T) => Cardinality(T) \in Nat
    BY FS_CardinalityType
  <2>. QED BY <2>1, <2>2 DEF Ledger, Left
<1>3. /\ S = takers[i] \cup {q \in StorageCall : IsPending(storageCalls[q], i)}
      /\ T = takers'[i] \cup {q \in StorageCall : IsPending(storageCalls'[q], i)}
  BY DEF Holders, IsPending
<1>4. /\ \A q \in StorageCall : q # c => storageCalls'[q] = storageCalls[q]
      /\ storageCalls'[c] = y
  BY DEF StorageInv
<1>5. /\ takers'[i] \subseteq takers[i] /\ ~ IsPending(y, i) => T \subseteq S
      /\ takers'[i] \subseteq takers[i] \cup {c} => T \subseteq S \cup {c}
      /\ takers'[i] \subseteq takers[i] \cup {c} /\ IsPending(storageCalls[c], i) => T \subseteq S
  <2>. HIDE DEF S, T
  <2>. QED BY <1>3, <1>4
<1>. HIDE DEF S, T
<1>. QED BY <1>1, <1>2, <1>5, OneMore

\* A step of a call that keeps the types, the transaction and the ledgers.
LEMMA OneCallStep ==
  ASSUME StorageInv, NEW c \in StorageCall, NEW y, storageCalls' = [storageCalls EXCEPT ![c] = y],
         StorageCallOK(c, y)', TransactionOK', RowsAreOK(table)',
         turns' \in [StorageId -> 0..StorageMaxTurns], takers' \in [StorageId -> SUBSET StorageCall],
         UNCHANGED backend, dropped' \subseteq StorageId,
         \A q \in StorageCall : q # c /\ transaction.call = q => transaction'.call = q,
         \A i \in StorageId \ dropped' : backend # "mysql" => Ledger(i)'
  PROVE  StorageInv'
<1>1. /\ storageCalls' = [q \in StorageCall |-> storageCalls'[q]]
      /\ \A q \in StorageCall : q # c => storageCalls'[q] = storageCalls[q]
      /\ storageCalls'[c] = y
  BY DEF StorageInv
<1>2. ASSUME NEW q \in StorageCall
      PROVE  StorageCallOK(q, storageCalls[q])'
  <2>1. CASE q = c
    BY <1>1, <2>1 DEF StorageCallOK
  <2>2. CASE q # c
    <3>1. PICK z : z = storageCalls[q]
      OBVIOUS
    <3>2. StorageCallOK(q, z)
      BY <3>1 DEF StorageInv
    <3>3. StorageCallOK(q, z)'
      BY <2>2, <3>2, SMTT(30) DEF StorageCallOK
    <3>. QED BY <1>1, <2>2, <3>1, <3>3 DEF StorageCallOK
  <2>. QED BY <2>1, <2>2
<1>. QED BY <1>1, <1>2 DEF StorageInv

\* The transaction is another call's, or there is none.
LEMMA OtherTransaction ==
  ASSUME StorageInv, NEW c \in StorageCall, NEW y, storageCalls' = [storageCalls EXCEPT ![c] = y],
         transaction.call # c, UNCHANGED <<backend, transaction>>
  PROVE  TransactionOK'
<1>1. \A q \in StorageCall : q # c => storageCalls'[q] = storageCalls[q]
  BY DEF StorageInv
<1>. QED BY <1>1 DEF StorageInv, TransactionOK, RowsAreOK

\* A call goes on and writes nothing.
LEMMA MovesStep ==
  ASSUME StorageInv, NEW c \in StorageCall, NEW y, storageCalls' = [storageCalls EXCEPT ![c] = y],
         StorageCallOK(c, y), y.pc = "again" => backend = "mysql", transaction.call # c,
         UNCHANGED <<backend, dropped, table, transaction, turns, takers>>
  PROVE  StorageInv'
<1>1. TransactionOK'
  BY OtherTransaction
<1>2. StorageCallOK(c, y)'
  BY DEF StorageCallOK
<1>3. RowsAreOK(table)'
  BY DEF StorageInv, RowsAreOK
<1>4. ASSUME NEW i \in StorageId, i \notin dropped, backend # "mysql"
      PROVE  Ledger(i)'
  <2>1. Left(i)' = Left(i) /\ Left(i) \in Int /\ takers'[i] = takers[i]
    BY LedgerIs DEF Left, Given, StorageInv
  <2>2. ~ IsPending(y, i)
    BY <1>4 DEF IsPending
  <2>3. turns' \in [StorageId -> 0..StorageMaxTurns]
    BY DEF StorageInv
  <2>4. takers'[i] \subseteq takers[i] /\ Left(i)' >= Left(i)
    BY <2>1
  <2>. HIDE DEF Left
  <2>. QED BY <1>4, <2>2, <2>3, <2>4, LedgerStep
<1>. QED BY <1>1, <1>2, <1>3, <1>4, OneCallStep DEF StorageInv
----------------------------------------------------------------------------
\* The rows of a call are those of its transaction, whose statement is its first.
LEMMA RowsOf ==
  ASSUME StorageInv, NEW c \in StorageCall
  PROVE  /\ RowsAreOK(Storage!Rows(c))
         /\ transaction.call # c => Storage!Rows(c) = table
         /\ transaction.call = c => /\ Storage!Rows(c) = transaction.copy /\ backend = "memory"
                                    /\ storageCalls[c].pc \in {"statement", "commit", "threw"}
                                    /\ storageCalls[c].op \in {"create", "update"}
                                    /\ transaction.call # StorageNull
                                    /\ storageCalls[c].pc = "statement" =>
                                         transaction.copy = transaction.base
         /\ transaction = Storage!Nobody => transaction.call = StorageNull
BY StorageNames DEF StorageInv, TransactionOK, Storage!Rows, Storage!Nobody

\* A write of a call counts the rows that become free.
LEMMA WriteIs ==
  ASSUME StorageInv, NEW c \in StorageCall, NEW list, RowsAreOK(list), Storage!Write(c, list),
         transaction.call = c => storageCalls[c].pc = "statement"
  PROVE  /\ turns' \in [StorageId -> 0..StorageMaxTurns]
         /\ RowsAreOK(table)'
         /\ transaction.call # c => table' = list /\ UNCHANGED transaction
         /\ transaction.call = c => /\ UNCHANGED table
                                    /\ transaction' = [transaction EXCEPT !.copy = list]
         /\ \A i \in StorageId :
              /\ Left(i)' >= Left(i)
              /\ transaction.call # c /\ IsFree(table[i]) /\ ~ IsFree(list[i]) => Left(i)' >= Left(i) + 1
<1> DEFINE old == Storage!Rows(c)
           frees(i) == list[i] # StorageNull /\ list[i].status = "free"
                       /\ (old[i] = StorageNull \/ old[i].status # "free")
<1>1. /\ \A i \in StorageId : frees(i) => turns[i] < StorageMaxTurns
      /\ turns' = [i \in StorageId |-> IF frees(i) THEN turns[i] + 1 ELSE turns[i]]
  BY DEF Storage!Write, Storage!Bounded, Storage!Count
<1>2. \A i : frees(i) <=> IsFree(list[i]) /\ ~ IsFree(old[i])
  BY DEF IsFree
<1>3. turns \in [StorageId -> 0..StorageMaxTurns] /\ StorageMaxTurns \in Nat
  BY StorageNames DEF StorageInv
<1>. HIDE DEF frees
<1>4. /\ turns' \in [StorageId -> 0..StorageMaxTurns]
      /\ \A i \in StorageId : turns'[i] = IF frees(i) THEN turns[i] + 1 ELSE turns[i]
  BY <1>1, <1>3
<1>5. /\ transaction.call # c => table' = list /\ UNCHANGED transaction
      /\ transaction.call = c => UNCHANGED table /\ transaction' = [transaction EXCEPT !.copy = list]
  BY DEF Storage!Write
<1>6. RowsAreOK(table)'
  BY <1>5 DEF StorageInv, RowsAreOK
<1>7. ASSUME NEW i \in StorageId
      PROVE  /\ Left(i)' >= Left(i)
             /\ transaction.call # c /\ IsFree(table[i]) /\ ~ IsFree(list[i]) => Left(i)' >= Left(i) + 1
  <2>1. turns[i] \in Nat /\ turns'[i] \in Nat
    BY <1>3, <1>4
  <2>2. CASE transaction.call # c
    <3>1. old = table /\ table' = list /\ transaction' = transaction
      BY <1>5, <2>2, RowsOf
    <3>2. Given(i)' = Given(i) /\ Given(i) \in {0, 1}
      BY <3>1 DEF Given, AsNumber
    <3>3. frees(i) <=> IsFree(table'[i]) /\ ~ IsFree(table[i])
      BY <1>2, <3>1
    <3>4. Left(i)' = turns'[i] - AsNumber(IsFree(table'[i])) - Given(i)'
      BY DEF Left, AsNumber, IsFree
    <3>5. Left(i) = turns[i] - AsNumber(IsFree(table[i])) - Given(i)
      BY DEF Left
    <3>6. turns'[i] = IF frees(i) THEN turns[i] + 1 ELSE turns[i]
      BY <1>4
    <3>. HIDE DEF frees, old
    <3>7. CASE frees(i)
      BY <2>1, <3>1, <3>2, <3>3, <3>4, <3>5, <3>6, <3>7 DEF AsNumber
    <3>8. CASE ~ frees(i)
      BY <2>1, <3>1, <3>2, <3>3, <3>4, <3>5, <3>6, <3>8 DEF AsNumber
    <3>. QED BY <3>7, <3>8
  <2>3. CASE transaction.call = c
    <3>1. /\ old = transaction.copy /\ transaction.copy = transaction.base
          /\ transaction.call # StorageNull /\ table' = table
          /\ transaction' = [transaction EXCEPT !.copy = list]
      BY <1>5, <2>3, RowsOf
    <3>2. /\ transaction'.copy = list /\ transaction'.base = transaction.base
          /\ transaction'.call = transaction.call
      BY <2>3, <3>1 DEF StorageInv, TransactionOK, Storage!Nobody
    <3>3. Given(i) = 0
      BY <3>1 DEF Given, AsNumber
    <3>4. Given(i)' = IF frees(i) THEN 1 ELSE 0
      BY <1>2, <3>1, <3>2 DEF Given, AsNumber, IsFree
    <3>5. turns'[i] = IF frees(i) THEN turns[i] + 1 ELSE turns[i]
      BY <1>4
    <3>6. AsNumber(IsFree(table[i])) \in {0, 1} /\ AsNumber(IsFree(table[i]))' = AsNumber(IsFree(table[i]))
      BY <3>1 DEF AsNumber, IsFree
    <3>7. /\ Left(i)' = turns'[i] - AsNumber(IsFree(table[i])) - Given(i)'
          /\ Left(i) = turns[i] - AsNumber(IsFree(table[i])) - Given(i)
      BY <3>6 DEF Left
    <3>. HIDE DEF frees, old
    <3>. QED BY <2>1, <2>3, <3>3, <3>4, <3>5, <3>6, <3>7
  <2>. QED BY <2>2, <2>3
<1>. QED BY <1>4, <1>5, <1>6, <1>7

\* A call's end: with a row, or none, or the row is no record.
LEMMA AnswerIs ==
  ASSUME StorageInv, NEW c \in StorageCall, NEW x, x = storageCalls[c],
         NEW i \in StorageId \cup {StorageNull}, NEW row, Storage!Answer(c, i, row)
  PROVE  \E y : /\ storageCalls' = [storageCalls EXCEPT ![c] = y]
                /\ y = [pc |-> y.pc, op |-> x.op, id |-> x.id, status |-> x.status, data |-> x.data,
                        found |-> i, read |-> y.read]
                /\ y.pc \in {"done", "commit", "threw"}
                /\ y.pc = "commit" => transaction.call = c
                /\ transaction.call = c => y.pc # "done"
                /\ y.pc = "commit" /\ y.read # StorageNull => row # StorageNull
                /\ \/ UNCHANGED takers
                   \/ /\ IsTaking(x) /\ row # StorageNull /\ transaction.call # c
                      /\ takers' = [takers EXCEPT ![i] = @ \cup {c}]
<1>1. x = [pc |-> x.pc, op |-> x.op, id |-> x.id, status |-> x.status, data |-> x.data,
           found |-> x.found, read |-> x.read]
  BY DEF StorageInv, StorageCallOK
<1> DEFINE valid == row = StorageNull \/ Storage!Valid(Storage!Decoded(row), Storage!Returned)
<1>2. PICK to, read :
        /\ to = IF valid THEN IF transaction.call = c THEN "commit" ELSE "done" ELSE "threw"
        /\ read = IF valid /\ row # StorageNull THEN Storage!Decoded(row) ELSE StorageNull
  OBVIOUS
<1>3. PICK y : y = [pc |-> to, op |-> x.op, id |-> x.id, status |-> x.status, data |-> x.data,
                    found |-> i, read |-> read]
  OBVIOUS
<1>4. y = [x EXCEPT !.pc = to, !.found = i, !.read = read]
  <2>1. PICK x1 : x1 = [x EXCEPT !.pc = to]
    OBVIOUS
  <2>2. x1 = [pc |-> to, op |-> x.op, id |-> x.id, status |-> x.status, data |-> x.data,
              found |-> x.found, read |-> x.read]
    BY <1>1, <2>1
  <2>3. PICK x2 : x2 = [x1 EXCEPT !.found = i]
    OBVIOUS
  <2>4. x2 = [pc |-> to, op |-> x.op, id |-> x.id, status |-> x.status, data |-> x.data,
              found |-> i, read |-> x.read]
    BY <2>2, <2>3
  <2>5. PICK x3 : x3 = [x2 EXCEPT !.read = read]
    OBVIOUS
  <2>6. x3 = y
    BY <1>3, <2>4, <2>5
  <2>. QED BY <2>1, <2>3, <2>5, <2>6, Zenon
<1>5. storageCalls' = [storageCalls EXCEPT ![c] = y]
  BY <1>2, <1>4 DEF Storage!Answer, Storage!To
<1>6. Storage!Takes(c) <=> IsTaking(x)
  BY DEF Storage!Takes, IsTaking
<1>7. \/ UNCHANGED takers
      \/ IsTaking(x) /\ row # StorageNull /\ transaction.call # c /\ takers' = [takers EXCEPT ![i] = @ \cup {c}]
  <2>1. IF row # StorageNull /\ valid /\ transaction.call # c
          THEN Storage!Took(c, i) ELSE UNCHANGED takers
    BY DEF Storage!Answer
  <2>. HIDE DEF valid
  <2>2. \/ UNCHANGED takers
        \/ row # StorageNull /\ transaction.call # c /\ Storage!Took(c, i)
    BY <2>1
  <2>3. Storage!Took(c, i) =>
          \/ UNCHANGED takers
          \/ IsTaking(x) /\ takers' = [takers EXCEPT ![i] = @ \cup {c}]
    BY <1>6 DEF Storage!Took
  <2>. QED BY <2>2, <2>3
<1>8. y.pc = to /\ y.read = read
  BY <1>3
<1>9. /\ y = [pc |-> y.pc, op |-> x.op, id |-> x.id, status |-> x.status, data |-> x.data,
               found |-> i, read |-> y.read]
      /\ y.pc \in {"done", "commit", "threw"}
      /\ y.pc = "commit" => transaction.call = c
      /\ transaction.call = c => y.pc # "done"
      /\ y.pc = "commit" /\ y.read # StorageNull => row # StorageNull
  <2>. HIDE DEF valid
  <2>. QED BY <1>2, <1>3, <1>8
<1>. QED BY <1>5, <1>7, <1>9, Zenon

\* A call ends, with a row of which it has the turn or which it does not take.
LEMMA AnswerStep ==
  ASSUME StorageInv, NEW c \in StorageCall, NEW x, x = storageCalls[c],
         NEW i \in StorageId \cup {StorageNull}, NEW row, Storage!Answer(c, i, row),
         UNCHANGED <<backend, dropped>>, RowsAreOK(table)',
         turns' \in [StorageId -> 0..StorageMaxTurns],
         \A j \in StorageId : Left(j)' >= Left(j),
         NEW list, RowsAreOK(list),
         transaction.call # c => UNCHANGED transaction,
         transaction.call = c => /\ x.pc = "statement"
                                 /\ transaction' = [call |-> c, base |-> transaction.base, copy |-> list],
         IsTaking(x) /\ row # StorageNull =>
           /\ i \in StorageId
           /\ transaction.call # c => Left(i)' >= Left(i) + 1 \/ IsPending(x, i)
           /\ transaction.call = c => IsFree(transaction.base[i]) /\ ~ IsFree(list[i])
  PROVE  StorageInv'
<1>1. PICK y :
        /\ storageCalls' = [storageCalls EXCEPT ![c] = y]
        /\ y = [pc |-> y.pc, op |-> x.op, id |-> x.id, status |-> x.status, data |-> x.data,
                found |-> i, read |-> y.read]
        /\ y.pc \in {"done", "commit", "threw"}
        /\ y.pc = "commit" => transaction.call = c
        /\ transaction.call = c => y.pc # "done"
        /\ y.pc = "commit" /\ y.read # StorageNull => row # StorageNull
        /\ \/ UNCHANGED takers
           \/ /\ IsTaking(x) /\ row # StorageNull /\ transaction.call # c
              /\ takers' = [takers EXCEPT ![i] = @ \cup {c}]
  BY AnswerIs
<1>2. StorageCallOK(c, x)
  BY DEF StorageInv
<1>3. y.op = x.op /\ y.id = x.id /\ y.status = x.status /\ y.data = x.data /\ y.found = i
  BY <1>1
<1>4. IsTaking(y) <=> IsTaking(x)
  BY <1>3 DEF IsTaking
<1>5. StorageCallOK(c, y)'
  BY <1>1, <1>2, <1>3 DEF StorageCallOK
<1>6. /\ \A q \in StorageCall : q # c => storageCalls'[q] = storageCalls[q]
      /\ storageCalls'[c] = y
  BY <1>1 DEF StorageInv
<1>7. TransactionOK'
  <2>1. CASE transaction.call # c
    BY <1>1, <2>1, OtherTransaction
  <2>2. CASE transaction.call = c
    <3>1. /\ transaction'.call = c /\ transaction'.base = transaction.base /\ transaction'.copy = list
          /\ transaction' = [call |-> c, base |-> transaction.base, copy |-> list]
      BY <2>2
    <3>2. backend = "memory" /\ RowsAreOK(transaction.base) /\ x.op \in {"create", "update"}
      BY <2>2, RowsOf DEF StorageInv, TransactionOK, Storage!Nobody
    <3>3. y.pc \in {"commit", "threw"} /\ y.op \in {"create", "update"}
      BY <1>1, <1>3, <2>2, <3>2
    <3>4. y.pc = "commit" /\ y.read # StorageNull /\ IsTaking(y) =>
            IsFree(transaction.base[i]) /\ ~ IsFree(list[i])
      BY <1>1, <1>4, <2>2
    <3>. QED BY <1>3, <1>6, <3>1, <3>2, <3>3, <3>4 DEF TransactionOK, RowsAreOK, IsFree, IsTaking
  <2>. QED BY <2>1, <2>2
<1>8. takers' \in [StorageId -> SUBSET StorageCall]
  BY <1>1 DEF StorageInv
<1>9. \A j \in StorageId : backend # "mysql" /\ j \notin dropped => Ledger(j)'
  <2>. SUFFICES ASSUME NEW j \in StorageId, j \notin dropped, backend # "mysql"
                PROVE  Ledger(j)'
    OBVIOUS
  <2>1. ~ IsPending(y, j)
    BY <1>1 DEF IsPending
  <2>2. Left(j)' >= Left(j)
    OBVIOUS
  <2>3. CASE takers'[j] \subseteq takers[j]
    BY <1>1, <2>1, <2>2, <2>3, LedgerStep
  <2>4. CASE ~ (takers'[j] \subseteq takers[j])
    <3>1. j = i /\ takers'[j] = takers[j] \cup {c} /\ IsTaking(x) /\ row # StorageNull
          /\ transaction.call # c
      BY <1>1, <2>4 DEF StorageInv
    <3>2. Left(j)' >= Left(j) + 1 \/ IsPending(storageCalls[c], j)
      BY <3>1
    <3>3. takers'[j] \subseteq takers[j] \cup {c}
      BY <3>1
    <3>. QED BY <1>1, <2>2, <3>2, <3>3, LedgerStep
  <2>. QED BY <2>3, <2>4
<1>10. dropped' = dropped /\ dropped \subseteq StorageId
  BY DEF StorageInv
<1>. QED BY <1>1, <1>5, <1>6, <1>7, <1>8, <1>9, <1>10, OneCallStep

\* A call writes and answers.
LEMMA WritesAndAnswers ==
  ASSUME StorageInv, NEW c \in StorageCall, NEW x, x = storageCalls[c],
         NEW i \in StorageId \cup {StorageNull}, NEW row, NEW list, RowsAreOK(list),
         Storage!Write(c, list), Storage!Answer(c, i, row), UNCHANGED <<backend, dropped>>,
         x.pc \in {"statement", "act", "remove"},
         IsTaking(x) /\ row # StorageNull =>
           i \in StorageId /\ IsFree(Storage!Rows(c)[i]) /\ ~ IsFree(list[i])
  PROVE  StorageInv'
<1>1. transaction.call = c => x.pc = "statement" /\ transaction.copy = transaction.base
                              /\ transaction = [call |-> c, base |-> transaction.base,
                                                copy |-> transaction.copy]
  BY RowsOf DEF StorageInv, TransactionOK, Storage!Nobody
<1>2. Storage!Rows(c) = IF transaction.call = c THEN transaction.copy ELSE table
  BY DEF Storage!Rows
<1>3. /\ turns' \in [StorageId -> 0..StorageMaxTurns]
      /\ RowsAreOK(table)'
      /\ transaction.call # c => table' = list /\ UNCHANGED transaction
      /\ transaction.call = c => transaction' = [transaction EXCEPT !.copy = list]
      /\ \A j \in StorageId :
           /\ Left(j)' >= Left(j)
           /\ transaction.call # c /\ IsFree(table[j]) /\ ~ IsFree(list[j]) => Left(j)' >= Left(j) + 1
  BY <1>1, WriteIs
<1>4. transaction.call = c => transaction' = [call |-> c, base |-> transaction.base, copy |-> list]
  BY <1>1, <1>3
<1>5. IsTaking(x) /\ row # StorageNull =>
        /\ i \in StorageId
        /\ transaction.call # c => Left(i)' >= Left(i) + 1 \/ IsPending(x, i)
        /\ transaction.call = c => IsFree(transaction.base[i]) /\ ~ IsFree(list[i])
  BY <1>1, <1>2, <1>3
<1>. QED BY <1>1, <1>3, <1>4, <1>5, AnswerStep

\* A call answers and writes nothing.
LEMMA OnlyAnswers ==
  ASSUME StorageInv, NEW c \in StorageCall, NEW x, x = storageCalls[c],
         NEW i \in StorageId \cup {StorageNull}, NEW row,
         Storage!Answer(c, i, row), Storage!NoWrite, UNCHANGED <<backend, dropped>>,
         x.pc \in {"statement", "act", "remove", "again"},
         row = StorageNull \/ ~ IsTaking(x) \/ (IsPending(x, i) /\ i \in StorageId)
  PROVE  StorageInv'
<1>1. transaction.call = c => x.pc = "statement" /\ transaction.copy = transaction.base
                              /\ transaction = [call |-> c, base |-> transaction.base,
                                                copy |-> transaction.copy]
                              /\ RowsAreOK(transaction.copy)
  BY RowsOf DEF StorageInv, TransactionOK, Storage!Nobody
<1>2. UNCHANGED <<table, transaction, turns>>
  BY DEF Storage!NoWrite
<1>3. RowsAreOK(table)' /\ RowsAreOK(table) /\ turns' \in [StorageId -> 0..StorageMaxTurns]
  BY <1>2 DEF StorageInv, RowsAreOK
<1>4. \A j \in StorageId : Left(j)' >= Left(j)
  <2>. TAKE j \in StorageId
  <2>1. Left(j)' = Left(j) /\ Left(j) \in Int
    BY <1>2, LedgerIs DEF Left, Given, StorageInv
  <2>. HIDE DEF Left
  <2>. QED BY <2>1
<1>5. PICK list : list = IF transaction.call = c THEN transaction.copy ELSE table
  OBVIOUS
<1>6. RowsAreOK(list)
  BY <1>1, <1>3, <1>5
<1>7. transaction.call = c => transaction' = [call |-> c, base |-> transaction.base, copy |-> list]
  BY <1>1, <1>2, <1>5
<1>8. IsTaking(x) /\ row # StorageNull =>
        /\ i \in StorageId
        /\ transaction.call # c => Left(i)' >= Left(i) + 1 \/ IsPending(x, i)
        /\ transaction.call = c => IsFree(transaction.base[i]) /\ ~ IsFree(list[i])
  BY <1>1 DEF IsPending
<1>. QED BY <1>1, <1>2, <1>3, <1>4, <1>6, <1>7, <1>8, AnswerStep
----------------------------------------------------------------------------
\* What the calls find, and what they make of it.
LEMMA FoundIs ==
  ASSUME StorageInv, NEW c \in StorageCall, NEW x, x = storageCalls[c]
  PROVE  \A i \in Storage!Found(c) :
           /\ i \in StorageId /\ Storage!Rows(c)[i] # StorageNull
           /\ DOMAIN Storage!Rows(c)[i] = Storage!Columns
           /\ IsTaking(x) => IsFree(Storage!Rows(c)[i])
<1>1. RowsAreOK(Storage!Rows(c))
  BY RowsOf
<1>. QED BY <1>1, StorageNames DEF Storage!Found, Storage!Matches, IsTaking, IsFree, RowsAreOK

LEMMA ConditionalIs ==
  ASSUME StorageInv, NEW c \in StorageCall, NEW x, x = storageCalls[c], NEW i \in StorageId,
         Storage!Conditional(c, i)
  PROVE  /\ Storage!Rows(c)[i] # StorageNull
         /\ IsTaking(x) => IsFree(Storage!Rows(c)[i])
BY StorageNames DEF Storage!Conditional, Storage!Matches, IsTaking, IsFree

LEMMA PatchedIs ==
  ASSUME NEW row, NEW x
  PROVE  /\ DOMAIN Storage!Patched(row, x.data) = Storage!Columns
         /\ IsTaking(x) /\ x.op = "update" => ~ IsFree(Storage!Patched(row, x.data))
BY DEF Storage!Patched, Storage!Columns, IsTaking, IsFree

\* One row is written, or one is deleted.
LEMMA OneRow ==
  ASSUME NEW list, RowsAreOK(list), NEW i \in StorageId, NEW row,
         row = StorageNull \/ DOMAIN row = Storage!Columns
  PROVE  RowsAreOK([list EXCEPT ![i] = row])
BY DEF RowsAreOK

LEMMA StorageBegin ==
  ASSUME StorageInv, NEW c \in StorageCall, NEW input \in StorageInputs, Storage!Begin(c, input)
  PROVE  StorageInv'
<1> DEFINE refused ==
             (input.op = "create" /\ ~ Storage!Valid(Storage!CreateData(input.data), Storage!Columns))
             \/ (input.op \in {"update", "updateMany"} /\ ~ Storage!Updatable(input.data))
<1>1. PICK to : to = IF refused THEN "threw" ELSE "statement"
  OBVIOUS
<1>2. PICK y : y = Storage!Called(input, to)
  OBVIOUS
<1>3. storageCalls' = [storageCalls EXCEPT ![c] = y]
  BY <1>1, <1>2 DEF Storage!Begin, Storage!To
<1>4. storageCalls[c].pc = "ready" /\ UNCHANGED <<backend, dropped, table, transaction, turns, takers>>
  BY DEF Storage!Begin, Storage!NoWrite, Storage!Constant
<1>5. transaction.call # c
  BY <1>4, RowsOf
<1>6. to \in {"threw", "statement"}
  BY <1>1
<1>7. StorageCallOK(c, y)
  <2>. HIDE DEF refused
  <2>. QED BY <1>2, <1>6, StorageNames DEF StorageCallOK, Storage!Called
<1>8. y.pc = "again" => backend = "mysql"
  BY <1>2, <1>6 DEF Storage!Called
<1>. QED BY <1>3, <1>4, <1>5, <1>7, <1>8, MovesStep

LEMMA StorageCreate ==
  ASSUME StorageInv, NEW c \in StorageCall, Storage!Create(c)
  PROVE  StorageInv'
<1>1. PICK x : x = storageCalls[c]
  OBVIOUS
<1>2. StorageCallOK(c, x) /\ x.pc = "statement" /\ x.op = "create" /\ x.id \in StorageId
      /\ ~ IsTaking(x) /\ UNCHANGED <<backend, dropped>>
  BY <1>1 DEF StorageInv, StorageCallOK, Storage!Create, Storage!Constant, IsTaking
<1>3. CASE Storage!Rows(c)[x.id] # StorageNull
  <2>1. backend \notin {"memory", "mongodb"} /\ Storage!NoWrite /\ UNCHANGED takers
        /\ storageCalls' = [storageCalls EXCEPT ![c] = [x EXCEPT !.pc = "threw"]]
    BY <1>1, <1>3 DEF Storage!Create, Storage!To
  <2>2. PICK y : y = [x EXCEPT !.pc = "threw"]
    OBVIOUS
  <2>3. StorageCallOK(c, y) /\ y.pc = "threw"
    BY <1>2, <2>2 DEF StorageCallOK
  <2>4. transaction.call # c /\ UNCHANGED <<table, transaction, turns>>
    BY <2>1, RowsOf DEF Storage!NoWrite
  <2>. QED BY <1>2, <2>1, <2>2, <2>3, <2>4, MovesStep
<1>4. CASE Storage!Rows(c)[x.id] = StorageNull
  <2>1. PICK row : row = Storage!CreateData(x.data)
    OBVIOUS
  <2>2. PICK list : list = [Storage!Rows(c) EXCEPT ![x.id] = row]
    OBVIOUS
  <2>3. Storage!Write(c, list) /\ Storage!Answer(c, x.id, row)
    BY <1>1, <1>4, <2>1, <2>2 DEF Storage!Create
  <2>4. DOMAIN row = Storage!Columns
    BY <2>1 DEF Storage!CreateData
  <2>5. RowsAreOK(list)
    BY <1>2, <2>2, <2>4, OneRow, RowsOf
  <2>. QED BY <1>1, <1>2, <2>3, <2>5, WritesAndAnswers
<1>. QED BY <1>3, <1>4

\* A call finds a row, which it acts upon next.
LEMMA StorageRead ==
  ASSUME StorageInv, NEW c \in StorageCall, Storage!Read(c)
  PROVE  StorageInv'
<1>1. PICK x : x = storageCalls[c]
  OBVIOUS
<1>2. StorageCallOK(c, x) /\ x.pc = "statement" /\ x.op \in {"find", "update", "delete"}
      /\ UNCHANGED <<backend, dropped>>
      /\ (x.op = "find" \/ backend \notin {"memory", "mongodb"})
  BY <1>1 DEF StorageInv, Storage!Read, Storage!Constant
<1>3. CASE Storage!Nothing(c)
  BY <1>1, <1>2, <1>3, OnlyAnswers DEF Storage!Nothing
<1>4. ASSUME NEW i \in Storage!Found(c), x.op = "find",
             Storage!Answer(c, i, Storage!Rows(c)[i]), Storage!NoWrite
      PROVE  StorageInv'
  <2>1. ~ IsTaking(x) /\ i \in StorageId
    BY <1>1, <1>4, FoundIs DEF IsTaking
  <2>. QED BY <1>1, <1>2, <1>4, <2>1, OnlyAnswers
<1>5. ASSUME NEW i \in Storage!Found(c), x.op # "find",
             Storage!To(c, [x EXCEPT !.pc = "act", !.found = i]), Storage!NoWrite, UNCHANGED takers
      PROVE  StorageInv'
  <2>1. PICK y1 : y1 = [x EXCEPT !.pc = "act"]
    OBVIOUS
  <2>2. PICK y : y = [y1 EXCEPT !.found = i]
    OBVIOUS
  <2>3. storageCalls' = [storageCalls EXCEPT ![c] = y]
    BY <1>5, <2>1, <2>2 DEF Storage!To
  <2>4. i \in StorageId
    BY <1>1, FoundIs
  <2>5. y1 = [pc |-> "act", op |-> x.op, id |-> x.id, status |-> x.status, data |-> x.data,
              found |-> x.found, read |-> x.read]
    BY <1>2, <2>1 DEF StorageCallOK
  <2>6. y = [pc |-> "act", op |-> x.op, id |-> x.id, status |-> x.status, data |-> x.data,
             found |-> i, read |-> x.read]
    BY <2>2, <2>5
  <2>7. StorageCallOK(c, y) /\ y.pc = "act"
    BY <1>2, <1>5, <2>4, <2>6 DEF StorageCallOK
  <2>8. transaction.call # c /\ UNCHANGED <<table, transaction, turns>>
    BY <1>2, <1>5, RowsOf DEF Storage!NoWrite
  <2>. QED BY <1>2, <1>5, <2>3, <2>7, <2>8, MovesStep
<1>. QED BY <1>1, <1>3, <1>4, <1>5 DEF Storage!Read

\* An update that is read again before it answers: with mysql it may have written nothing.
LEMMA AgainStep ==
  ASSUME StorageInv, NEW c \in StorageCall, NEW x, x = storageCalls[c], x.pc = "act",
         x.op = "update", backend \in {"mysql", "prisma"},
         Storage!Conditional(c, x.found),
         NEW list, list = [Storage!Rows(c) EXCEPT ![x.found] =
                             Storage!Patched(Storage!Rows(c)[x.found], x.data)],
         Storage!Write(c, list), UNCHANGED <<backend, dropped, takers>>,
         storageCalls' = [storageCalls EXCEPT ![c] = [x EXCEPT !.pc = "again"]]
  PROVE  StorageInv'
<1>1. StorageCallOK(c, x) /\ x.found \in StorageId /\ transaction.call # c
      /\ Storage!Rows(c) = table /\ RowsAreOK(table)
  BY RowsOf DEF StorageInv, StorageCallOK
<1>2. RowsAreOK(list) /\ list[x.found] = Storage!Patched(Storage!Rows(c)[x.found], x.data)
  <2>1. PICK new : new = Storage!Patched(Storage!Rows(c)[x.found], x.data)
    OBVIOUS
  <2>2. new = StorageNull \/ DOMAIN new = Storage!Columns
    BY <2>1, PatchedIs
  <2>3. list = [table EXCEPT ![x.found] = new]
    BY <1>1, <2>1
  <2>4. RowsAreOK(list)
    <3>1. RowsAreOK([table EXCEPT ![x.found] = new])
      BY <1>1, <2>2, OneRow
    <3>. QED BY <2>3, <3>1
  <2>5. list[x.found] = new
    BY <1>1, <2>3 DEF RowsAreOK
  <2>. QED BY <2>1, <2>4, <2>5
<1>3. /\ turns' \in [StorageId -> 0..StorageMaxTurns]
      /\ RowsAreOK(table)'
      /\ UNCHANGED transaction
      /\ \A i \in StorageId :
           /\ Left(i)' >= Left(i)
           /\ IsFree(table[i]) /\ ~ IsFree(list[i]) => Left(i)' >= Left(i) + 1
  BY <1>1, <1>2, WriteIs
<1>4. IsTaking(x) => IsFree(table[x.found]) /\ ~ IsFree(list[x.found])
  BY <1>1, <1>2, ConditionalIs, PatchedIs
<1>5. PICK y : y = [x EXCEPT !.pc = "again"]
  OBVIOUS
<1>6. y = [pc |-> "again", op |-> x.op, id |-> x.id, status |-> x.status, data |-> x.data,
           found |-> x.found, read |-> x.read]
  BY <1>1, <1>5 DEF StorageCallOK
<1>7. StorageCallOK(c, y)'
  BY <1>1, <1>6 DEF StorageCallOK
<1>8. storageCalls' = [storageCalls EXCEPT ![c] = y]
  BY <1>5
<1>9. TransactionOK'
  BY <1>1, <1>3, <1>8, OtherTransaction
<1>10. \A i \in StorageId \ dropped' : backend # "mysql" => Ledger(i)'
  <2>. SUFFICES ASSUME NEW i \in StorageId, i \notin dropped, backend # "mysql"
                PROVE  Ledger(i)'
    OBVIOUS
  <2>1. takers'[i] \subseteq takers[i] /\ Left(i)' >= Left(i)
    BY <1>3
  <2>2. CASE IsPending(y, i)
    <3>1. i = x.found /\ IsTaking(x)
      BY <1>6, <2>2 DEF IsPending, IsTaking
    <3>2. Left(i)' >= Left(i) + 1
      BY <1>3, <1>4, <3>1
    <3>3. takers'[i] \subseteq takers[i] \cup {c}
      BY <2>1
    <3>. QED BY <1>3, <1>8, <3>2, <3>3, LedgerStep
  <2>3. CASE ~ IsPending(y, i)
    BY <1>3, <1>8, <2>1, <2>3, LedgerStep
  <2>. QED BY <2>2, <2>3
<1>11. dropped' \subseteq StorageId /\ takers' \in [StorageId -> SUBSET StorageCall]
       /\ \A q \in StorageCall : q # c /\ transaction.call = q => transaction'.call = q
  BY <1>3 DEF StorageInv
<1>. QED BY <1>3, <1>7, <1>8, <1>9, <1>10, <1>11, OneCallStep

LEMMA StorageAct ==
  ASSUME StorageInv, NEW c \in StorageCall, Storage!Act(c)
  PROVE  StorageInv'
<1>1. PICK x : x = storageCalls[c]
  OBVIOUS
<1>2. StorageCallOK(c, x) /\ x.pc = "act" /\ x.op \in {"update", "delete"} /\ x.found \in StorageId
      /\ UNCHANGED <<backend, dropped>>
  BY <1>1 DEF StorageInv, StorageCallOK, Storage!Act, Storage!Constant
<1>3. PICK row : row = Storage!Rows(c)[x.found]
  OBVIOUS
<1>4. PICK new : new = IF x.op = "delete" THEN StorageNull ELSE Storage!Patched(row, x.data)
  OBVIOUS
<1>5. PICK list : list = [Storage!Rows(c) EXCEPT ![x.found] = new]
  OBVIOUS
<1>6. RowsAreOK(list) /\ list[x.found] = new
  <2>1. new = StorageNull \/ DOMAIN new = Storage!Columns
    BY <1>4, PatchedIs
  <2>2. RowsAreOK(Storage!Rows(c))
    BY RowsOf
  <2>3. RowsAreOK(list)
    BY <1>2, <1>5, <2>1, <2>2, OneRow
  <2>4. list[x.found] = new
    BY <1>2, <1>5, <2>2 DEF RowsAreOK
  <2>. QED BY <2>3, <2>4
<1> DEFINE again == Storage!To(c, [x EXCEPT !.pc = "again"]) /\ UNCHANGED takers
<1>7. CASE ~ Storage!Conditional(c, x.found) /\ ~ (x.op = "update" /\ backend = "mysql")
  <2>1. Storage!Answer(c, StorageNull, StorageNull) /\ Storage!NoWrite
    BY <1>1, <1>7 DEF Storage!Act, Storage!Nothing
  <2>. QED BY <1>1, <1>2, <2>1, OnlyAnswers
<1>8. CASE ~ Storage!Conditional(c, x.found) /\ x.op = "update" /\ backend = "mysql"
  <2>1. again /\ Storage!NoWrite
    BY <1>1, <1>8 DEF Storage!Act
  <2>2. PICK y : y = [x EXCEPT !.pc = "again"]
    OBVIOUS
  <2>3. y = [pc |-> "again", op |-> x.op, id |-> x.id, status |-> x.status, data |-> x.data,
             found |-> x.found, read |-> x.read]
    BY <1>2, <2>2 DEF StorageCallOK
  <2>4. StorageCallOK(c, y)
    BY <1>2, <1>8, <2>3 DEF StorageCallOK
  <2>5. storageCalls' = [storageCalls EXCEPT ![c] = y]
        /\ UNCHANGED <<table, transaction, turns, takers>>
    BY <2>1, <2>2 DEF Storage!To, Storage!NoWrite
  <2>6. transaction.call # c
    BY <1>1, <1>2, RowsOf
  <2>. QED BY <1>2, <1>8, <2>4, <2>5, <2>6, MovesStep
<1>9. CASE Storage!Conditional(c, x.found) /\ x.op = "update" /\ backend \in {"mysql", "prisma"}
  <2>1. Storage!Write(c, list) /\ again
    BY <1>1, <1>3, <1>4, <1>5, <1>9 DEF Storage!Act
  <2>2. storageCalls' = [storageCalls EXCEPT ![c] = [x EXCEPT !.pc = "again"]] /\ UNCHANGED takers
    BY <2>1 DEF Storage!To
  <2>3. list = [Storage!Rows(c) EXCEPT ![x.found] =
                  Storage!Patched(Storage!Rows(c)[x.found], x.data)]
    BY <1>3, <1>4, <1>5, <1>9
  <2>4. Storage!Write(c, list) /\ UNCHANGED <<backend, dropped, takers>>
    BY <1>2, <2>1
  <2>. QED BY <1>1, <1>2, <1>9, <2>2, <2>3, <2>4, AgainStep
<1>10. CASE Storage!Conditional(c, x.found) /\ ~ (x.op = "update" /\ backend \in {"mysql", "prisma"})
  <2>1. PICK told : told = IF x.op = "update" THEN new ELSE StorageNull
    OBVIOUS
  <2>2. Storage!Write(c, list) /\ Storage!Answer(c, x.found, told)
    BY <1>1, <1>3, <1>4, <1>5, <1>10, <2>1 DEF Storage!Act
  <2>3. IsTaking(x) /\ told # StorageNull =>
          IsFree(Storage!Rows(c)[x.found]) /\ ~ IsFree(list[x.found])
    BY <1>1, <1>2, <1>4, <1>6, <1>10, <2>1, ConditionalIs, PatchedIs
  <2>. QED BY <1>1, <1>2, <1>6, <2>2, <2>3, WritesAndAnswers
<1>. QED BY <1>7, <1>8, <1>9, <1>10

LEMMA StorageReadAgain ==
  ASSUME StorageInv, NEW c \in StorageCall, Storage!ReadAgain(c)
  PROVE  StorageInv'
<1>1. PICK x : x = storageCalls[c]
  OBVIOUS
<1>2. x.pc = "again" /\ x.found \in StorageId
  BY <1>1 DEF StorageInv, StorageCallOK, Storage!ReadAgain
<1>3. Storage!Answer(c, x.found, Storage!Rows(c)[x.found]) /\ Storage!NoWrite
      /\ UNCHANGED <<backend, dropped>>
  BY <1>1 DEF Storage!ReadAgain, Storage!Constant
<1>4. ~ IsTaking(x) \/ IsPending(x, x.found)
  BY <1>2 DEF IsPending
<1>. QED BY <1>1, <1>2, <1>3, <1>4, OnlyAnswers

LEMMA StorageAtOnce ==
  ASSUME StorageInv, NEW c \in StorageCall, Storage!AtOnce(c)
  PROVE  StorageInv'
<1>1. PICK x : x = storageCalls[c]
  OBVIOUS
<1>2. StorageCallOK(c, x) /\ x.pc = "statement"
      /\ x.op \in {"update", "updateMany", "delete", "deleteMany"}
      /\ UNCHANGED <<backend, dropped>>
  BY <1>1 DEF StorageInv, Storage!AtOnce, Storage!Constant, Storage!Many
<1> DEFINE change(s) == [j \in StorageId |->
                           IF j \notin s THEN Storage!Rows(c)[j]
                           ELSE IF x.op \in {"delete", "deleteMany"} THEN StorageNull
                           ELSE Storage!Patched(Storage!Rows(c)[j], x.data)]
<1>3. \A s : RowsAreOK(change(s))
  <2>. TAKE s
  <2>1. RowsAreOK(Storage!Rows(c))
    BY RowsOf
  <2>2. change(s) = [j \in StorageId |-> change(s)[j]]
    OBVIOUS
  <2>3. ASSUME NEW j \in StorageId
        PROVE  change(s)[j] = StorageNull \/ DOMAIN change(s)[j] = Storage!Columns
    BY <2>1, PatchedIs DEF RowsAreOK
  <2>. HIDE DEF change
  <2>. QED BY <2>2, <2>3 DEF RowsAreOK
<1>4. ASSUME Storage!Write(c, change(Storage!Found(c))), Storage!Answer(c, StorageNull, StorageNull)
      PROVE  StorageInv'
  <2>1. PICK list : list = change(Storage!Found(c))
    OBVIOUS
  <2>2. RowsAreOK(list) /\ Storage!Write(c, list)
    BY <1>3, <1>4, <2>1
  <2>. HIDE DEF change
  <2>. QED BY <1>1, <1>2, <1>4, <2>2, WritesAndAnswers
<1>5. ASSUME Storage!Nothing(c)
      PROVE  StorageInv'
  BY <1>1, <1>2, <1>5, OnlyAnswers DEF Storage!Nothing
<1>6. ASSUME NEW i \in Storage!Found(c), Storage!Write(c, change({i})),
             Storage!Answer(c, i, IF x.op = "delete" THEN StorageNull ELSE change({i})[i])
      PROVE  StorageInv'
  <2>1. PICK list : list = change({i})
    OBVIOUS
  <2>2. PICK row : row = IF x.op = "delete" THEN StorageNull ELSE change({i})[i]
    OBVIOUS
  <2>3. i \in StorageId /\ (IsTaking(x) => IsFree(Storage!Rows(c)[i]))
    BY <1>1, FoundIs
  <2>4. IsTaking(x) /\ row # StorageNull => x.op = "update"
    BY <1>2, <2>2 DEF IsTaking
  <2>5. x.op = "update" => list[i] = Storage!Patched(Storage!Rows(c)[i], x.data)
    BY <2>1, <2>3
  <2>6. IsTaking(x) /\ row # StorageNull =>
          i \in StorageId /\ IsFree(Storage!Rows(c)[i]) /\ ~ IsFree(list[i])
    BY <2>3, <2>4, <2>5, PatchedIs
  <2>7. RowsAreOK(list) /\ Storage!Write(c, list) /\ Storage!Answer(c, i, row)
    BY <1>3, <1>6, <2>1, <2>2
  <2>. HIDE DEF change
  <2>. QED BY <1>1, <1>2, <2>3, <2>6, <2>7, WritesAndAnswers
<1>. QED BY <1>1, <1>4, <1>5, <1>6 DEF Storage!AtOnce

LEMMA StorageConsume ==
  ASSUME StorageInv, NEW c \in StorageCall, Storage!Consume(c)
  PROVE  StorageInv'
<1>1. PICK x : x = storageCalls[c]
  OBVIOUS
<1>2. StorageCallOK(c, x) /\ x.pc = "statement" /\ x.op = "consume" /\ UNCHANGED <<backend, dropped>>
  BY <1>1 DEF StorageInv, Storage!Consume, Storage!Constant
<1>3. ASSUME Storage!Nothing(c)
      PROVE  StorageInv'
  BY <1>1, <1>2, <1>3, OnlyAnswers DEF Storage!Nothing
<1>4. ASSUME NEW i \in Storage!Found(c),
             Storage!Write(c, [Storage!Rows(c) EXCEPT ![i] = StorageNull]),
             Storage!Answer(c, i, Storage!Rows(c)[i])
      PROVE  StorageInv'
  <2>1. PICK list : list = [Storage!Rows(c) EXCEPT ![i] = StorageNull]
    OBVIOUS
  <2>2. i \in StorageId /\ (IsTaking(x) => IsFree(Storage!Rows(c)[i]))
    BY <1>1, FoundIs
  <2>3. RowsAreOK(list) /\ list[i] = StorageNull
    <3>1. RowsAreOK(Storage!Rows(c))
      BY RowsOf
    <3>2. RowsAreOK(list)
      BY <2>1, <2>2, <3>1, OneRow
    <3>3. list[i] = StorageNull
      BY <2>1, <2>2, <3>1 DEF RowsAreOK
    <3>. QED BY <3>2, <3>3
  <2>4. ~ IsFree(list[i])
    BY <2>3 DEF IsFree
  <2>5. Storage!Write(c, list)
    BY <1>4, <2>1
  <2>. QED BY <1>1, <1>2, <1>4, <2>2, <2>3, <2>4, <2>5, WritesAndAnswers
<1>5. ASSUME NEW i \in Storage!Found(c), backend \notin {"memory", "mongodb", "sqlite"},
             Storage!To(c, [x EXCEPT !.pc = "remove", !.found = i, !.read = Storage!Rows(c)[i]]),
             Storage!NoWrite, UNCHANGED takers
      PROVE  StorageInv'
  <2>1. PICK row : row = Storage!Rows(c)[i]
    OBVIOUS
  <2>2. PICK x1 : x1 = [x EXCEPT !.pc = "remove"]
    OBVIOUS
  <2>3. PICK x2 : x2 = [x1 EXCEPT !.found = i]
    OBVIOUS
  <2>4. PICK y : y = [x2 EXCEPT !.read = row]
    OBVIOUS
  <2>5. storageCalls' = [storageCalls EXCEPT ![c] = y]
    BY <1>5, <2>1, <2>2, <2>3, <2>4 DEF Storage!To
  <2>6. x1 = [pc |-> "remove", op |-> x.op, id |-> x.id, status |-> x.status, data |-> x.data,
              found |-> x.found, read |-> x.read]
    BY <1>2, <2>2 DEF StorageCallOK
  <2>7. x2 = [pc |-> "remove", op |-> x.op, id |-> x.id, status |-> x.status, data |-> x.data,
              found |-> i, read |-> x.read]
    BY <2>3, <2>6
  <2>8. y = [pc |-> "remove", op |-> x.op, id |-> x.id, status |-> x.status, data |-> x.data,
             found |-> i, read |-> row]
    BY <2>4, <2>7
  <2>9. i \in StorageId
    BY <1>1, FoundIs
  <2>10. StorageCallOK(c, y) /\ y.pc = "remove"
    BY <1>2, <1>5, <2>8, <2>9 DEF StorageCallOK
  <2>11. transaction.call # c /\ UNCHANGED <<table, transaction, turns>>
    BY <1>5, RowsOf DEF Storage!NoWrite
  <2>. QED BY <1>2, <1>5, <2>5, <2>10, <2>11, MovesStep
<1>. QED BY <1>1, <1>3, <1>4, <1>5 DEF Storage!Consume

LEMMA StorageRemove ==
  ASSUME StorageInv, NEW c \in StorageCall, Storage!Remove(c)
  PROVE  StorageInv'
<1>1. PICK x : x = storageCalls[c]
  OBVIOUS
<1>2. StorageCallOK(c, x) /\ x.pc = "remove" /\ x.found \in StorageId
      /\ UNCHANGED <<backend, dropped>>
  BY <1>1 DEF StorageInv, StorageCallOK, Storage!Remove, Storage!Constant
<1>3. CASE ~ Storage!Conditional(c, x.found)
  <2>1. Storage!Nothing(c)
    BY <1>1, <1>3 DEF Storage!Remove
  <2>. QED BY <1>1, <1>2, <2>1, OnlyAnswers DEF Storage!Nothing
<1>4. CASE Storage!Conditional(c, x.found)
  <2>1. PICK list : list = [Storage!Rows(c) EXCEPT ![x.found] = StorageNull]
    OBVIOUS
  <2>2. Storage!Write(c, list) /\ Storage!Answer(c, x.found, x.read)
    BY <1>1, <1>4, <2>1 DEF Storage!Remove
  <2>3. RowsAreOK(list) /\ list[x.found] = StorageNull
    <3>1. RowsAreOK(Storage!Rows(c))
      BY RowsOf
    <3>2. RowsAreOK(list)
      BY <1>2, <2>1, <3>1, OneRow
    <3>3. list[x.found] = StorageNull
      BY <1>2, <2>1, <3>1 DEF RowsAreOK
    <3>. QED BY <3>2, <3>3
  <2>4. IsTaking(x) => IsFree(Storage!Rows(c)[x.found]) /\ ~ IsFree(list[x.found])
    BY <1>1, <1>2, <1>4, <2>3, ConditionalIs DEF IsFree
  <2>. QED BY <1>1, <1>2, <2>2, <2>3, <2>4, WritesAndAnswers
<1>. QED BY <1>3, <1>4

\* A transaction begins on a copy of the rows.
LEMMA StorageBeginTransaction ==
  ASSUME StorageInv, NEW c \in StorageCall, NEW input \in StorageInputs,
         Storage!BeginTransaction(c, input)
  PROVE  StorageInv'
<1>1. PICK y : y = Storage!Called(input, "statement")
  OBVIOUS
<1>2. /\ storageCalls' = [storageCalls EXCEPT ![c] = y]
      /\ backend = "memory" /\ transaction = Storage!Nobody /\ storageCalls[c].pc = "ready"
      /\ input.op \in {"create", "update"}
      /\ transaction' = [call |-> c, base |-> table, copy |-> table]
      /\ UNCHANGED <<backend, dropped, table, turns, takers>>
  BY <1>1 DEF Storage!BeginTransaction, Storage!To, Storage!Constant
<1>3. y = [pc |-> "statement", op |-> input.op, id |-> input.id, status |-> input.status,
           data |-> input.data, found |-> StorageNull, read |-> StorageNull]
  BY <1>1 DEF Storage!Called
<1>4. StorageCallOK(c, y)'
  BY <1>3, StorageNames DEF StorageCallOK
<1>5. RowsAreOK(table)' /\ RowsAreOK(table)
  BY <1>2 DEF StorageInv, RowsAreOK
<1>6. storageCalls'[c] = y
  BY <1>2 DEF StorageInv
<1>7. /\ transaction'.call = c /\ transaction'.base = table /\ transaction'.copy = table
      /\ transaction.call = StorageNull
  BY <1>2 DEF Storage!Nobody
<1>8. TransactionOK'
  BY <1>2, <1>3, <1>5, <1>6, <1>7 DEF TransactionOK, RowsAreOK
<1>9. \A i \in StorageId \ dropped' : backend # "mysql" => Ledger(i)'
  <2>. SUFFICES ASSUME NEW i \in StorageId, i \notin dropped, backend # "mysql"
                PROVE  Ledger(i)'
    BY <1>2
  <2>1. ~ IsPending(y, i)
    BY <1>3 DEF IsPending
  <2>2. Given(i) = 0 /\ Given(i)' = 0
    BY <1>7 DEF Given, AsNumber
  <2>3. AsNumber(IsFree(table[i])) \in {0, 1} /\ AsNumber(IsFree(table[i]))' = AsNumber(IsFree(table[i]))
    BY <1>2 DEF AsNumber, IsFree
  <2>4. turns[i] \in Nat /\ turns'[i] = turns[i] /\ takers'[i] = takers[i]
        /\ turns' \in [StorageId -> 0..StorageMaxTurns]
    BY <1>2, StorageNames DEF StorageInv
  <2>5. Left(i)' >= Left(i)
    BY <2>2, <2>3, <2>4 DEF Left
  <2>6. takers'[i] \subseteq takers[i]
    BY <2>4
  <2>. QED BY <1>2, <2>1, <2>4, <2>5, <2>6, LedgerStep
<1>10. turns' \in [StorageId -> 0..StorageMaxTurns] /\ takers' \in [StorageId -> SUBSET StorageCall]
       /\ dropped' \subseteq StorageId
  BY <1>2 DEF StorageInv
<1>11. \A q \in StorageCall : q # c /\ transaction.call = q => transaction'.call = q
  BY <1>7, StorageNames
<1>. QED BY <1>2, <1>4, <1>5, <1>8, <1>9, <1>10, <1>11, OneCallStep

\* The rows become those of the copy: a turn that the transaction gave is now the table's, and who took
\* a row in it found it free, as nobody else has written it meanwhile.
LEMMA StorageCommit ==
  ASSUME StorageInv, NEW c \in StorageCall, Storage!Commit(c)
  PROVE  StorageInv'
<1>1. PICK x : x = storageCalls[c]
  OBVIOUS
<1>2. /\ StorageCallOK(c, x) /\ x.pc = "commit" /\ transaction.call = c
      /\ table' = transaction.copy /\ transaction' = Storage!Nobody
      /\ dropped' = dropped \cup {i \in StorageId : table[i] # transaction.base[i]}
      /\ UNCHANGED <<backend, turns>>
  BY <1>1 DEF StorageInv, Storage!Commit
<1>3. /\ RowsAreOK(transaction.copy) /\ RowsAreOK(transaction.base) /\ backend = "memory"
      /\ x.read # StorageNull /\ IsTaking(x) /\ x.found \in StorageId =>
           IsFree(transaction.base[x.found]) /\ ~ IsFree(transaction.copy[x.found])
  BY <1>1, <1>2, StorageNames DEF StorageInv, TransactionOK, Storage!Nobody
<1>4. PICK y : y = [x EXCEPT !.pc = "done"]
  OBVIOUS
<1>5. storageCalls' = [storageCalls EXCEPT ![c] = y]
  BY <1>1, <1>4 DEF Storage!Commit, Storage!To
<1>6. y = [pc |-> "done", op |-> x.op, id |-> x.id, status |-> x.status, data |-> x.data,
           found |-> x.found, read |-> x.read]
  BY <1>2, <1>4 DEF StorageCallOK
<1>7. StorageCallOK(c, y)'
  BY <1>2, <1>6 DEF StorageCallOK
<1>8. RowsAreOK(table)' /\ TransactionOK'
  BY <1>2, <1>3 DEF RowsAreOK, TransactionOK, Storage!Nobody
<1>9. \/ UNCHANGED takers
      \/ x.read # StorageNull /\ IsTaking(x) /\ takers' = [takers EXCEPT ![x.found] = @ \cup {c}]
  BY <1>1 DEF Storage!Commit, Storage!Took, Storage!Takes, IsTaking
<1>10. turns' \in [StorageId -> 0..StorageMaxTurns] /\ takers' \in [StorageId -> SUBSET StorageCall]
       /\ dropped' \subseteq StorageId
  BY <1>2, <1>9 DEF StorageInv
<1>11. \A i \in StorageId \ dropped' : backend # "mysql" => Ledger(i)'
  <2>. SUFFICES ASSUME NEW i \in StorageId, i \notin dropped', backend # "mysql"
                PROVE  Ledger(i)'
    BY <1>2
  <2>1. i \notin dropped /\ table[i] = transaction.base[i]
    BY <1>2
  <2>2. ~ IsPending(y, i)
    BY <1>6 DEF IsPending
  <2>3. /\ Given(i) = IF IsFree(transaction.copy[i]) /\ ~ IsFree(table[i]) THEN 1 ELSE 0
        /\ Given(i)' = 0
    BY <1>2, <2>1, StorageNames DEF Given, AsNumber, Storage!Nobody
  <2>4. /\ AsNumber(IsFree(table[i])) = IF IsFree(table[i]) THEN 1 ELSE 0
        /\ AsNumber(IsFree(table[i]))' = IF IsFree(transaction.copy[i]) THEN 1 ELSE 0
    BY <1>2 DEF AsNumber, IsFree
  <2>5. turns[i] \in Nat /\ turns'[i] = turns[i]
    BY <1>2, StorageNames DEF StorageInv
  <2>6. /\ Left(i)' >= Left(i)
        /\ IsFree(table[i]) /\ ~ IsFree(transaction.copy[i]) => Left(i)' >= Left(i) + 1
    BY <2>3, <2>4, <2>5 DEF Left
  <2>7. \/ takers'[i] \subseteq takers[i]
        \/ /\ takers'[i] \subseteq takers[i] \cup {c}
           /\ IsFree(table[i]) /\ ~ IsFree(transaction.copy[i])
    BY <1>3, <1>9, <2>1 DEF StorageInv
  <2>8. CASE takers'[i] \subseteq takers[i]
    BY <1>5, <1>10, <2>1, <2>2, <2>6, <2>8, LedgerStep
  <2>9. CASE ~ (takers'[i] \subseteq takers[i])
    <3>1. takers'[i] \subseteq takers[i] \cup {c} /\ Left(i)' >= Left(i) + 1
      BY <2>6, <2>7, <2>9
    <3>. QED BY <1>5, <1>10, <2>1, <3>1, LedgerStep
  <2>. QED BY <2>8, <2>9
<1>12. \A q \in StorageCall : q # c /\ transaction.call = q => transaction'.call = q
  BY <1>2
<1>. QED BY <1>2, <1>5, <1>7, <1>8, <1>10, <1>11, <1>12, OneCallStep

LEMMA StorageRollback ==
  ASSUME StorageInv, NEW c \in StorageCall, Storage!Rollback(c)
  PROVE  StorageInv'
<1>1. PICK y : y = storageCalls[c]
  OBVIOUS
<1>2. /\ StorageCallOK(c, y) /\ y.pc = "threw" /\ transaction.call = c
      /\ transaction' = Storage!Nobody /\ UNCHANGED <<backend, dropped, table, storageCalls, turns, takers>>
  BY <1>1 DEF StorageInv, Storage!Rollback, Storage!Constant
<1>3. storageCalls' = [storageCalls EXCEPT ![c] = y]
  BY <1>1, <1>2 DEF StorageInv
<1>4. StorageCallOK(c, y)'
  BY <1>2 DEF StorageCallOK
<1>5. RowsAreOK(table)' /\ TransactionOK'
  BY <1>2 DEF StorageInv, RowsAreOK, TransactionOK, Storage!Nobody
<1>6. \A i \in StorageId \ dropped' : backend # "mysql" => Ledger(i)'
  <2>. SUFFICES ASSUME NEW i \in StorageId, i \notin dropped, backend # "mysql"
                PROVE  Ledger(i)'
    BY <1>2
  <2>1. ~ IsPending(y, i)
    BY <1>2 DEF IsPending
  <2>2. Given(i) \in {0, 1} /\ Given(i)' = 0
    BY <1>2 DEF Given, AsNumber, Storage!Nobody
  <2>3. AsNumber(IsFree(table[i])) \in {0, 1} /\ AsNumber(IsFree(table[i]))' = AsNumber(IsFree(table[i]))
    BY <1>2 DEF AsNumber, IsFree
  <2>4. turns[i] \in Nat /\ turns'[i] = turns[i] /\ takers'[i] = takers[i]
        /\ turns' \in [StorageId -> 0..StorageMaxTurns]
    BY <1>2, StorageNames DEF StorageInv
  <2>5. Left(i)' >= Left(i)
    BY <2>2, <2>3, <2>4 DEF Left
  <2>6. takers'[i] \subseteq takers[i]
    BY <2>4
  <2>. QED BY <1>3, <2>1, <2>4, <2>5, <2>6, LedgerStep
<1>7. turns' \in [StorageId -> 0..StorageMaxTurns] /\ takers' \in [StorageId -> SUBSET StorageCall]
      /\ dropped' \subseteq StorageId
  BY <1>2 DEF StorageInv
<1>8. \A q \in StorageCall : q # c /\ transaction.call = q => transaction'.call = q
  BY <1>2
<1>. QED BY <1>2, <1>3, <1>4, <1>5, <1>6, <1>7, <1>8, OneCallStep

LEMMA StorageInit ==
  ASSUME Storage!Init
  PROVE  StorageInv
<1>1. /\ backend \in StorageBackends /\ table \in [StorageId -> StorageStored \cup {StorageNull}]
      /\ storageCalls = [c \in StorageCall |-> Storage!Ready] /\ transaction = Storage!Nobody
      /\ turns = [i \in StorageId |-> IF IsFree(table[i]) THEN 1 ELSE 0]
      /\ takers = [i \in StorageId |-> {}] /\ dropped = {}
  BY DEF Storage!Init, IsFree
<1>2. RowsAreOK(table)
  BY <1>1, StorageNames DEF RowsAreOK
<1>3. ASSUME NEW c \in StorageCall
      PROVE  StorageCallOK(c, storageCalls[c]) /\ storageCalls[c].pc = "ready"
  BY <1>1, StorageNames DEF StorageCallOK, Storage!Ready, Storage!Operations
<1>4. turns \in [StorageId -> 0..StorageMaxTurns] /\ takers \in [StorageId -> SUBSET StorageCall]
  BY <1>1, StorageNames
<1>5. ASSUME NEW i \in StorageId
      PROVE  Ledger(i)
  <2>1. Holders(i) = {}
    BY <1>1, <1>3 DEF Holders
  <2>2. Given(i) = 0
    BY <1>1 DEF Given, AsNumber, Storage!Nobody
  <2>3. turns[i] = AsNumber(IsFree(table[i])) /\ turns[i] \in Nat
    BY <1>1 DEF AsNumber
  <2>. QED BY <2>1, <2>2, <2>3, FS_EmptySet DEF Ledger
<1>. QED BY <1>1, <1>2, <1>3, <1>4, <1>5 DEF StorageInv, TransactionOK

LEMMA StorageStep ==
  ASSUME StorageInv, [Storage!Next]_StorageVars
  PROVE  StorageInv'
<1>1. ASSUME NEW c \in StorageCall,
             \/ \E input \in StorageInputs : Storage!Begin(c, input) \/ Storage!BeginTransaction(c, input)
             \/ Storage!Create(c) \/ Storage!Read(c) \/ Storage!Act(c) \/ Storage!ReadAgain(c)
             \/ Storage!AtOnce(c) \/ Storage!Consume(c) \/ Storage!Remove(c)
             \/ Storage!Commit(c) \/ Storage!Rollback(c)
      PROVE  StorageInv'
  BY <1>1, StorageBegin, StorageBeginTransaction, StorageCreate, StorageRead, StorageAct,
     StorageReadAgain, StorageAtOnce, StorageConsume, StorageRemove, StorageCommit, StorageRollback
<1>2. CASE UNCHANGED StorageVars
  <2>1. UNCHANGED <<backend, table, storageCalls, transaction, turns, takers, dropped>>
    BY <1>2, SMTT(30) DEF StorageVars
  <2>2. RowsAreOK(table)' /\ TransactionOK'
    BY <2>1 DEF StorageInv, RowsAreOK, TransactionOK
  <2>3. ASSUME NEW c \in StorageCall
        PROVE  StorageCallOK(c, storageCalls[c])'
    BY <2>1 DEF StorageInv, StorageCallOK
  <2>4. ASSUME NEW i \in StorageId
        PROVE  Ledger(i)' <=> Ledger(i)
    <3>1. Holders(i)' = Holders(i) /\ Given(i)' = Given(i)
      BY <2>1 DEF Holders, Given, AsNumber, IsFree
    <3>. QED BY <2>1, <3>1 DEF Ledger, AsNumber, IsFree
  <2>. QED BY <2>1, <2>2, <2>3, <2>4 DEF StorageInv
<1>. QED BY <1>1, <1>2 DEF Storage!Next

\* Whoever is told by an update or by consumeOne that it took a row that was free had it to itself: no
\* more calls are told so than the row has been free, with any number of calls at once, through every
\* adapter but mysql's, and a transaction whose commit drops no write (update, consumeOne).
THEOREM RowsAreTakenOnce == Spec => []OneTaker
<1> DEFINE Inv == part = "storage" => StorageInv
<1>1. Init => Inv
  BY StorageInit DEF Init
<1>2. Inv /\ [Next]_vars => Inv'
  <2>. SUFFICES ASSUME part = "storage", StorageInv, [Next]_vars PROVE StorageInv'
    BY DEF Next, vars
  <2>1. [Storage!Next]_StorageVars
    BY DEF Next, vars
  <2>. QED BY <2>1, StorageStep
<1>3. Inv => OneTaker
  <2>. SUFFICES ASSUME part = "storage", StorageInv
                PROVE  Storage!TypeOK /\ Storage!OneTaker
    BY DEF OneTaker
  <2>1. Storage!TypeOK
    BY DEF StorageInv, RowsAreOK, StorageCallOK, Storage!TypeOK
  <2>2. ASSUME NEW i \in StorageId \ dropped, backend # "mysql"
        PROVE  Storage!Cardinality(takers[i]) <= turns[i]
    <3>1. Ledger(i) /\ turns[i] \in Nat
      BY <2>2, StorageNames DEF StorageInv
    <3>2. takers[i] \subseteq Holders(i)
      BY DEF Holders
    <3>3. AsNumber(IsFree(table[i])) \in {0, 1} /\ Given(i) \in {0, 1}
      BY DEF Given, AsNumber
    <3>4. \A U : IsFiniteSet(U) /\ takers[i] \subseteq U =>
                   /\ Cardinality(U) \in Nat /\ Cardinality(takers[i]) \in Nat
                   /\ Cardinality(takers[i]) <= Cardinality(U)
      BY FS_Subset, FS_CardinalityType
    <3>5. Cardinality(takers[i]) <= turns[i]
      BY <3>1, <3>2, <3>3, <3>4 DEF Ledger
    <3>6. Storage!Cardinality(takers[i]) = Cardinality(takers[i])
      BY DEF Storage!Cardinality, Cardinality
    <3>. QED BY <3>5, <3>6
  <2>. QED BY <2>1, <2>2 DEF Storage!OneTaker
<1>. QED BY <1>1, <1>2, <1>3, PTL DEF Spec
================================================================================
