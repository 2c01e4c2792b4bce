-------------------------------- MODULE ApiAccess --------------------------------
(***************************************************************************)
(* The policy enforcement point around the product api (authz-pep.ts), the *)
(* entity graph it decides over (authz/api.ts), and the handlers that      *)
(* change the rows and grants the next decision reads (api.ts, claws.ts,   *)
(* grant.ts).                                                              *)
(*                                                                         *)
(* A governed call reads the row its method is anchored on, the grants on  *)
(* it, and the scopes its caller holds, each in a statement of its own;    *)
(* then it decides and runs the handler.  Other calls share, unshare and   *)
(* create, and scopes come and go, between any two of these steps.         *)
(***************************************************************************)
EXTENDS FiniteSets, Naturals

CONSTANTS
  Call,         \* calls under way
  Principal,
  Anonymous,    \* system:anonymous
  Team,         \* the labels of scopes that principals hold, <scope>:<scopeId>
  Claw, Thread, Run,
  Stray,        \* (kind, id) pairs that no loader resolves
  None,
  Setup         \* the deployments, each with its traffic

Target == Claw \cup Thread \cup Run \cup Stray
Level == {"read", "use", "manage"}
\* A personal scope is named by its principal; no resolver returns one.
Label == Team \cup Principal
Ref == Principal \cup Team \cup {"public"}
Owner == Principal \cup {None}

Grant == [on : Target, ref : Ref, level : Level]
Scope == [label : Team, level : Level]

\* CORE_API_LEVELS.  A method that it does not list needs manage.
ReadMethods == {"getClaw", "getThread", "listThreads", "getMessage", "listMessages", "getRun",
                "listRunEvents"}
UseMethods == {"createThread", "appendMessage", "sendMessage", "generate"}
ManageMethods == {"createClaw", "updateClaw", "archiveClaw", "archiveThread", "shareResource",
                  "unshareResource", "forgetSubject", "plugin"}
Method == ReadMethods \cup UseMethods \cup ManageMethods

LevelOf(method) ==
  CASE method \in ReadMethods -> "read" [] method \in UseMethods -> "use" [] OTHER -> "manage"

CreateMethods == {"createClaw"}

\* clawApiRoutes: the resources that a method may be anchored on.
Anchors(method) ==
  CASE method \in {"getThread", "archiveThread", "listMessages"} -> Thread
    [] method \in {"getClaw", "updateClaw", "archiveClaw", "createThread", "listThreads",
                   "appendMessage", "sendMessage"} -> Claw
    [] method \in {"getRun", "listRunEvents"} -> Run
    [] method \in {"shareResource", "unshareResource"} -> Target
    [] OTHER -> {}

NoShape == [owner |-> None, label |-> None, grants |-> {}]
Shape == [owner : Owner, label : Label \cup {None}, grants : SUBSET Grant]

\* target: what the method is anchored on; child: the thread of createThread or appendMessage;
\* keys: the resources whose grants are not read yet.
NewCall(method, by, target, child, ref, level) ==
  [method |-> method, by |-> by, target |-> target, child |-> child, ref |-> ref,
   level |-> level, shape |-> NoShape, keys |-> {}, scopes |-> {}]
NoCall == NewCall("getMessage", None, None, None, "public", "read")

\* The calls that callers make: a create names the id of its row, an append any thread.
Request ==
  {NewCall("createClaw", by, None, c, "public", "read") : by \in Owner, c \in Claw}
  \cup {NewCall(m, by, c, t, "public", "read") :
          m \in {"createThread", "appendMessage", "sendMessage"}, by \in Owner, c \in Claw,
          t \in Thread}
  \cup {NewCall(m, by, x, None, ref, level) :
          m \in {"shareResource", "unshareResource"}, by \in Owner, x \in Target, ref \in Ref,
          level \in Level}
  \cup {NewCall(m, by, c, None, "public", "read") :
          m \in {"getClaw", "updateClaw", "archiveClaw", "listThreads"}, by \in Owner, c \in Claw}
  \cup {NewCall(m, by, t, None, "public", "read") :
          m \in {"getThread", "archiveThread", "listMessages"}, by \in Owner, t \in Thread}
  \cup {NewCall(m, by, r, None, "public", "read") :
          m \in {"getRun", "listRunEvents"}, by \in Owner, r \in Run}
  \cup {NewCall(m, by, None, None, "public", "read") :
          m \in {"getMessage", "generate", "forgetSubject", "plugin"}, by \in Owner}

\* posture: enforce, shadow, or open for unsafeOpen.  permits and forbids: the methods that
\* plugin slices permit and forbid to everyone.  rows: the claws and threads at the start,
\* with owner and label.  traffic: the calls that are made.  memberships: the scopes that a
\* principal may hold.  Bounds: maxCalls, maxChanges of scopes.
Settings == [posture : {"enforce", "shadow", "open"}, permits : SUBSET Method,
             forbids : SUBSET Method, label : [Claw -> Label], owner : [Claw -> Owner],
             home : [Thread -> Claw \cup {None}], runner : [Run -> Owner],
             traffic : SUBSET Request, memberships : SUBSET (SUBSET Scope), maxCalls : Nat,
             maxChanges : Nat]

ClawStatus == {"active", "paused", "archived"}
ClawRow == [owner : Principal, label : Label, status : ClawStatus]
ThreadRow == [claw : Claw, status : {"active", "archived"}, messages : Nat]

AccessAssumption ==
  /\ Anonymous \in Principal
  /\ None \notin Target \cup Label \cup ClawRow \cup ThreadRow
  /\ Principal \cap Team = {} /\ "public" \notin Principal \cup Team
  /\ Claw \cap Thread = {} /\ Claw \cap Run = {} /\ Thread \cap Run = {}
  /\ Stray \cap (Claw \cup Thread \cup Run) = {}
  /\ \A s \in Setup : s \in Settings

VARIABLES
  config,       \* the setup of this behaviour
  claw,         \* the claw rows, or None
  thread,       \* the thread rows, or None
  grants,       \* the access_grant rows
  held,         \* what the scope resolver answers for each principal
  pc, call,     \* of each call: its next step, and what it has read
  calls, changes,
  seen, steady  \* history, of each call until it is decided: what held at some moment of it,
                \* and what held throughout

rows == <<claw, thread>>
bounds == <<config, calls, changes>>
vars == <<bounds, rows, grants, held, pc, call, seen, steady>>

Nothing == [rows |-> {}, grants |-> {}, scopes |-> {}]

\* The rows of this moment.
Rows == {c \in Claw : claw[c] # None} \cup {t \in Thread : thread[t] # None}
        \cup {r \in Run : config.runner[r] # None}

Init ==
  /\ config \in Setup
  /\ claw = [c \in Claw |-> IF config.owner[c] = None THEN None
                            ELSE [owner |-> config.owner[c], label |-> config.label[c],
                                  status |-> "active"]]
  /\ thread = [t \in Thread |-> IF config.home[t] = None THEN None
                                ELSE [claw |-> config.home[t], status |-> "active",
                                      messages |-> 0]]
  /\ grants = {}
  /\ held = [p \in Principal |-> {}]
  /\ pc = [k \in Call |-> "idle"]
  /\ call = [k \in Call |-> NoCall]
  /\ calls = 0 /\ changes = 0
  /\ seen = [k \in Call |-> Nothing]
  /\ steady = [k \in Call |-> Nothing]

HeldBy(p) == IF p = None THEN {} ELSE held[p]

Deciding == {"thread", "row", "grants", "scopes", "decide"}

Adds(window) == [rows |-> window.rows \cup Rows', grants |-> window.grants \cup grants',
                 scopes |-> window.scopes]
Keeps(window) == [rows |-> window.rows \cap Rows', grants |-> window.grants \cap grants',
                  scopes |-> window.scopes]

\* The rows or grants change, by call k: the calls that are not decided yet may see it.
Watch(k) ==
  /\ seen' = [j \in Call |-> IF j = k THEN Nothing
                             ELSE IF pc[j] \in Deciding THEN Adds(seen[j]) ELSE seen[j]]
  /\ steady' = [j \in Call |-> IF j = k THEN Nothing
                               ELSE IF pc[j] \in Deciding THEN Keeps(steady[j]) ELSE steady[j]]

----------------------------------------------------------------------------
(* wrapMethod: from the call to the decision.                              *)

PersonalScope(by) ==
  IF by = None THEN NoShape ELSE [owner |-> by, label |-> by, grants |-> {}]

\* The first statement of a call, by what its method is anchored on.
FirstStep(c) ==
  CASE config.posture = "open" -> "permitted"
    [] config.posture # "open" /\ c.target \in Thread -> "thread"
    [] config.posture # "open" /\ c.target \in Claw \cup Run -> "row"
    [] OTHER -> "scopes"

\* Mutant: what is not resolved is the caller's own.
FirstShape_Own(c) == PersonalScope(c.by)
\* A method without a binding acts in the caller's personal scope; a create and a resource
\* that no loader resolves have no shape.
FirstShape(c) ==
  IF Anchors(c.method) = {} /\ c.method \notin CreateMethods THEN PersonalScope(c.by) ELSE NoShape

Arrive(k, c) ==
  /\ pc[k] = "idle"
  /\ calls < config.maxCalls
  /\ calls' = calls + 1
  /\ call' = [call EXCEPT ![k] = [c EXCEPT !.shape = FirstShape(c),
                                          !.keys = {c.target} \cap (Claw \cup Run)]]
  /\ pc' = [pc EXCEPT ![k] = FirstStep(c)]
  /\ LET now == IF config.posture = "open" THEN Nothing
                ELSE [rows |-> Rows, grants |-> grants, scopes |-> HeldBy(c.by)] IN
       /\ seen' = [seen EXCEPT ![k] = now]
       /\ steady' = [steady EXCEPT ![k] = now]
  /\ UNCHANGED <<config, changes, rows, grants, held>>

\* The thread loader reads the thread's row, then its claw's, whose grants it inherits.
LoadThread(k) ==
  /\ pc[k] = "thread"
  /\ LET t == call[k].target IN
       \/ thread[t] = None /\ pc' = [pc EXCEPT ![k] = "scopes"] /\ UNCHANGED call
       \/ /\ thread[t] # None
          /\ call' = [call EXCEPT ![k].keys = {t, thread[t].claw}]
          /\ pc' = [pc EXCEPT ![k] = "row"]
  /\ UNCHANGED <<bounds, rows, grants, held, seen, steady>>

\* The owner and label of a claw or a run; a run is personal to its principal.
Base(x) ==
  IF x \in Run
  THEN IF config.runner[x] = None THEN NoShape ELSE PersonalScope(config.runner[x])
  ELSE IF claw[x] = None THEN NoShape
  ELSE [owner |-> claw[x].owner, label |-> claw[x].label, grants |-> {}]

LoadRow(k) ==
  /\ pc[k] = "row"
  /\ \E x \in call[k].keys \cap (Claw \cup Run) :
       /\ call' = [call EXCEPT ![k].shape = Base(x)]
       /\ pc' = [pc EXCEPT ![k] = IF Base(x) = NoShape THEN "scopes" ELSE "grants"]
  /\ UNCHANGED <<bounds, rows, grants, held, seen, steady>>

\* listForResource, for the resource's own key and its parent's, in any order.
LoadGrants(k) ==
  /\ pc[k] = "grants"
  /\ \E x \in call[k].keys :
       /\ call' = [call EXCEPT ![k].keys = @ \ {x},
                               ![k].shape.grants = @ \cup {g \in grants : g.on = x}]
       /\ pc' = [pc EXCEPT ![k] = IF call[k].keys = {x} THEN "scopes" ELSE "grants"]
  /\ UNCHANGED <<bounds, rows, grants, held, seen, steady>>

ResolveScopes(k) ==
  /\ pc[k] = "scopes"
  /\ call' = [call EXCEPT ![k].scopes = HeldBy(call[k].by)]
  /\ pc' = [pc EXCEPT ![k] = "decide"]
  /\ UNCHANGED <<bounds, rows, grants, held, seen, steady>>

----------------------------------------------------------------------------
(* decideApiCall: the entity graph of one call, and the engine's answer.   *)

\* The access node of a scope or of the method's grants, at one level.
ScopeNode(label, level) == [base |-> "scope", label |-> label, level |-> level]
GrantNode(level) == [base |-> "grant", label |-> None, level |-> level]

GrantReaches(g, c) ==
  \/ g.ref = "public"
  \/ g.ref = c.by
  \/ \E s \in c.scopes : s.label = g.ref

\* The caller's parents in the graph.
HeldNodes(c) == {ScopeNode(s.label, s.level) : s \in c.scopes}
                \cup {GrantNode(g.level) : g \in {h \in c.shape.grants : GrantReaches(h, c)}}

\* A level's node is in the node of the level below it.
Parents(node) ==
  CASE node.level = "manage" -> {[node EXCEPT !.level = "use"]}
    [] node.level = "use" -> {[node EXCEPT !.level = "read"]}
    [] OTHER -> {}

Climb(nodes) == nodes \cup UNION {Parents(n) : n \in nodes}
\* The caller is in a node: the chains have three levels.
In(c, node) == node \in Climb(Climb(HeldNodes(c)))

OwnerPermits(c) == c.shape.owner # None /\ c.shape.owner = c.by
ScopePermits(c) == c.shape.label # None /\ In(c, ScopeNode(c.shape.label, LevelOf(c.method)))
GrantPermits(c) == In(c, GrantNode(LevelOf(c.method)))
CreatePermits(c) == c.method \in CreateMethods

\* The actor floor, then Cedar: some policy permits and none forbids.
Permits(c) ==
  /\ c.by # None
  /\ \/ OwnerPermits(c) \/ ScopePermits(c) \/ GrantPermits(c) \/ CreatePermits(c)
     \/ c.method \in config.permits
  /\ c.method \notin config.forbids

Decide(k) ==
  /\ pc[k] = "decide"
  /\ pc' = [pc EXCEPT ![k] = IF Permits(call[k]) \/ config.posture = "shadow"
                             THEN "permitted" ELSE "denied"]
  /\ UNCHANGED <<bounds, rows, grants, held, call, seen, steady>>

----------------------------------------------------------------------------
(* The handlers.                                                           *)

Stamp(by) == IF by = None THEN Anonymous ELSE by

CreateClaw(c) ==
  /\ claw[c.child] = None
  /\ claw' = [claw EXCEPT ![c.child] =
               [owner |-> Stamp(c.by), label |-> Stamp(c.by), status |-> "active"]]
  /\ UNCHANGED <<thread, grants>>

\* The patch may set the status, never the owner or the scope.
UpdateClaw(c, status) ==
  /\ claw' = [x \in Claw |-> IF x = c.target /\ claw[x] # None
                             THEN [claw[x] EXCEPT !.status = status] ELSE claw[x]]
  /\ UNCHANGED <<thread, grants>>

\* The store does not read the claw.
CreateThread(c) ==
  /\ thread[c.child] = None
  /\ thread' = [thread EXCEPT ![c.child] =
                 [claw |-> c.target, status |-> "active", messages |-> 0]]
  /\ UNCHANGED <<claw, grants>>

ArchiveThread(c) ==
  /\ thread' = [t \in Thread |-> IF t = c.target /\ thread[t] # None
                                 THEN [thread[t] EXCEPT !.status = "archived"] ELSE thread[t]]
  /\ UNCHANGED <<claw, grants>>

\* The append transaction refuses a thread of another claw.
AppendMessage(c) ==
  /\ thread' = [t \in Thread |->
                 IF t = c.child /\ thread[t] # None /\ thread[t].claw = c.target
                 THEN [thread[t] EXCEPT !.messages = @ + 1] ELSE thread[t]]
  /\ UNCHANGED <<claw, grants>>

ShareResource(c) ==
  /\ grants' = grants \cup {[on |-> c.target, ref |-> c.ref, level |-> c.level]}
  /\ UNCHANGED rows

\* Every level that the grantee holds.
UnshareResource(c) ==
  /\ grants' = {g \in grants : g.on # c.target \/ g.ref # c.ref}
  /\ UNCHANGED rows

Handler(c) ==
  CASE c.method = "createClaw" -> CreateClaw(c)
    [] c.method = "updateClaw" -> \E status \in ClawStatus : UpdateClaw(c, status)
    [] c.method = "archiveClaw" -> UpdateClaw(c, "archived")
    [] c.method = "createThread" -> CreateThread(c)
    [] c.method = "archiveThread" -> ArchiveThread(c)
    [] c.method \in {"appendMessage", "sendMessage"} -> AppendMessage(c)
    [] c.method = "shareResource" -> ShareResource(c)
    [] c.method = "unshareResource" -> UnshareResource(c)
    [] OTHER -> UNCHANGED <<rows, grants>>

Ends(k) ==
  /\ pc' = [pc EXCEPT ![k] = "idle"]
  /\ call' = [call EXCEPT ![k] = NoCall]

Execute(k) ==
  /\ pc[k] = "permitted"
  /\ Handler(call[k])
  /\ Ends(k)
  /\ UNCHANGED <<bounds, held>>
  /\ Watch(k)

\* A denial, or a call that fails after it was permitted.
Refuse(k) ==
  /\ pc[k] \in {"denied", "permitted"}
  /\ Ends(k)
  /\ seen' = [seen EXCEPT ![k] = Nothing]
  /\ steady' = [steady EXCEPT ![k] = Nothing]
  /\ UNCHANGED <<bounds, rows, grants, held>>

----------------------------------------------------------------------------
\* The memberships of a principal change, outside.
ScopesChange(p, scopes) ==
  /\ changes < config.maxChanges
  /\ changes' = changes + 1
  /\ held' = [held EXCEPT ![p] = scopes]
  /\ seen' = [k \in Call |-> IF pc[k] \in Deciding /\ call[k].by = p
                             THEN [seen[k] EXCEPT !.scopes = @ \cup scopes] ELSE seen[k]]
  /\ steady' = [k \in Call |-> IF pc[k] \in Deciding /\ call[k].by = p
                               THEN [steady[k] EXCEPT !.scopes = @ \cap scopes] ELSE steady[k]]
  /\ UNCHANGED <<config, calls, rows, grants, pc, call>>

Next ==
  \/ \E k \in Call :
       \/ \E c \in config.traffic : Arrive(k, c)
       \/ LoadThread(k) \/ LoadRow(k) \/ LoadGrants(k) \/ ResolveScopes(k) \/ Decide(k)
       \/ Execute(k) \/ Refuse(k)
  \/ \E p \in Principal, scopes \in config.memberships : ScopesChange(p, scopes)

Spec == Init /\ [][Next]_vars

----------------------------------------------------------------------------
(* What the enforcement point promises.                                    *)

CallRec == [method : Method, by : Owner, target : Target \cup {None},
            child : Claw \cup Thread \cup {None}, ref : Ref, level : Level, shape : Shape,
            keys : SUBSET (Claw \cup Thread \cup Run), scopes : SUBSET Scope]
Window == [rows : SUBSET Target, grants : SUBSET Grant, scopes : SUBSET Scope]

\* Every variable holds what its statements can leave in it.
TypeOK ==
  /\ config \in Setup
  /\ claw \in [Claw -> ClawRow \cup {None}]
  /\ thread \in [Thread -> ThreadRow \cup {None}]
  /\ grants \subseteq Grant
  /\ held \in [Principal -> SUBSET Scope]
  /\ pc \in [Call -> Deciding \cup {"idle", "permitted", "denied"}]
  /\ call \in [Call -> CallRec]
  /\ calls \in Nat /\ changes \in Nat
  /\ seen \in [Call -> Window]
  /\ steady \in [Call -> Window]

Rank == [read |-> 1, use |-> 2, manage |-> 3]
AtLeast(level, required) == Rank[level] >= Rank[required]

\* The keys whose grants count for a resource, and the row that has its owner and label.
KeysOf(x) == IF x \in Thread /\ thread[x] # None THEN {x, thread[x].claw} ELSE {x}
BaseOf(x) == IF x \in Thread THEN Base(thread[x].claw) ELSE Base(x)

\* Whether the caller may make the call, with the rows, grants and scopes of a window: it
\* owns the resource, or holds its scope or a grant on it at the level or above.
Entitled(c, window) ==
  /\ c.by # None
  /\ \/ c.method \in CreateMethods
     \/ Anchors(c.method) = {}
     \/ /\ c.target \in window.rows
        /\ KeysOf(c.target) \subseteq window.rows
        /\ \/ BaseOf(c.target).owner = c.by
           \/ \E s \in window.scopes :
                s.label = BaseOf(c.target).label /\ AtLeast(s.level, LevelOf(c.method))
           \/ \E g \in window.grants :
                /\ g.on \in KeysOf(c.target)
                /\ AtLeast(g.level, LevelOf(c.method))
                /\ GrantReaches(g, [c EXCEPT !.scopes = window.scopes])

\* A call that is let through was entitled to by something that held while it was being
\* decided: whatever is shared and revoked between its reads, it is never let through on a
\* grant or a scope that was gone when it arrived.
PermittedHadAccess ==
  config.posture = "enforce" =>
    \A k \in Call : (pc[k] = "permitted" /\ call[k].method \notin config.permits)
                      => Entitled(call[k], seen[k])

\* A caller whose access held all the time that its call was being decided is not denied,
\* unless a plugin forbids the method: an owner is never locked out by what others share.
SteadyAccessIsHonoured ==
  \A k \in Call : pc[k] = "denied" =>
    (call[k].method \in config.forbids \/ ~Entitled(call[k], steady[k]))
================================================================================
