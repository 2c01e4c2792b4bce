------------------------------- MODULE Policies -------------------------------
(***************************************************************************)
(* How a call of a host tool is decided by policy (foundation/authz, and   *)
(* euroclaw authz-floor.ts): the stamps of the host's static tools make    *)
(* the action model, the sealed floor and the slices of the plugins make   *)
(* the policy set, and the engine answers permit, deny or needs-approval,  *)
(* which a confirmation would turn into a permit.  A tool that declares no *)
(* access is left out of the model: the floor skips its calls.  What an    *)
(* organization registers or overlays is not asked here (SpecRegistry).    *)
(*                                                                         *)
(* A Cedar policy is its effect, the action or group of actions it is on,  *)
(* and the contexts its condition holds in; Cedar's own semantics (deny by *)
(* default, forbid before permit) is that of the library.  Principals,     *)
(* resources, arguments, annotations and hashes are left out.              *)
(***************************************************************************)
EXTENDS Naturals, FiniteSets, SequencesExt, Functions

CONSTANT Absent   \* a fact that is not given

Broken == [refused |-> TRUE]   \* what is left of a configuration that is refused

Context(confirmed, mode) == [confirmed |-> confirmed, mode |-> mode]
Modes == {"interactive", "autonomous"}
Contexts == {Context(confirmed, mode) : confirmed \in BOOLEAN, mode \in Modes}

Policy(effect, on, contexts) == [effect |-> effect, on |-> on, contexts |-> contexts]
Confirmed == {c \in Contexts : c.confirmed}
Interactive == {c \in Contexts : c.mode = "interactive"}

SystemPosture ==
  [id \in {<<"floor:reads-run", 0>>, <<"floor:writes-need-confirmation", 0>>,
           <<"floor:unconfirmed-autonomous-write-forbidden", 0>>} |->
     CASE id[1] = "floor:reads-run" -> Policy("permit", "reads", Contexts)
       [] id[1] = "floor:writes-need-confirmation" -> Policy("permit", "writes", Confirmed)
       [] OTHER -> Policy("forbid", "writes", Contexts \ (Confirmed \cup Interactive))]

-----------------------------------------------------------------------------
(* The action model.                                                       *)

\* A stamp is [access, groups]; a tool may have none (Absent) or a malformed one (Broken).
\* toolActionInput: only a stamp that declares an access class is governed.
Governed(tools) ==
  {name \in DOMAIN tools : tools[name] \notin {Absent, Broken} /\ tools[name].access # Absent}

GroupsOf(stamp) == stamp.groups \cup {IF stamp.access = "read" THEN "reads" ELSE "writes"}

\* A malformed stamp fails the assembly; the model is the groups of each governed tool.
FloorModel(tools) ==
  IF \E name \in DOMAIN tools : tools[name] = Broken THEN Broken
  ELSE [groups |-> [name \in Governed(tools) |-> GroupsOf(tools[name])]]

-----------------------------------------------------------------------------
(* The policy set.                                                         *)

\* namedPolicySet: a policy goes by its slice's name, or by name and place if there are several.
Named(slice) ==
  IF Len(slice.cedar) = 1 THEN [id \in {<<slice.name, 0>>} |-> slice.cedar[1]]
  ELSE [id \in {<<slice.name, i>> : i \in DOMAIN slice.cedar} |-> slice.cedar[id[2]]]

\* What f says, and what g says where f says nothing.
Over(f, g) == [x \in DOMAIN f \cup DOMAIN g |-> IF x \in DOMAIN f THEN f[x] ELSE g[x]]

\* Mutant: slices may have the names of the floor.
Taken_Never(bundle, slice) == FALSE

Taken(bundle, slice) == slice.name \in bundle.names

\* loadPolicyBundle: a name is used once, the floor's names included.
Joined(bundle, slice) ==
  CASE bundle = Broken \/ slice.mode = "off" -> bundle
    [] bundle # Broken /\ slice.mode # "off" /\ Taken(bundle, slice) -> Broken
    [] OTHER -> [names |-> bundle.names \cup {slice.name},
                 live |-> IF slice.mode = "enforce" THEN Over(Named(slice), bundle.live) ELSE bundle.live,
                 shadow |-> bundle.shadow \/ slice.mode = "shadow",
                 candidate |-> Over(Named(slice), bundle.candidate)]

Floor == [names |-> {id[1] : id \in DOMAIN SystemPosture}, live |-> SystemPosture, shadow |-> FALSE,
          candidate |-> SystemPosture]

\* Slice by slice, on top of the floor.
Bundle(slices) ==
  LET joined[i \in 0..Len(slices)] == IF i = 0 THEN Floor ELSE Joined(joined[i - 1], slices[i])
  IN  joined[Len(slices)]

-----------------------------------------------------------------------------
(* The decision.                                                           *)

\* isAuthorized, of the library: what permits and forbids the action in the context.
Applies(policy, action, groups, context) ==
  policy.on \in {"any", action} \cup groups /\ context \in policy.contexts

Evaluate(policies, action, groups, context) ==
  LET hit(effect) == {n \in DOMAIN policies : policies[n].effect = effect
                                               /\ Applies(policies[n], action, groups, context)}
  IN  IF hit("forbid") # {} THEN [allow |-> FALSE, policies |-> hit("forbid")]
      ELSE [allow |-> hit("permit") # {}, policies |-> hit("permit")]

\* cedarEngine's authorize: as it is, then as if confirmed.
Authorize(policies, action, groups, mode) ==
  LET first == Evaluate(policies, action, groups, Context(FALSE, mode))
      probed == Evaluate(policies, action, groups, Context(TRUE, mode))
  IN  CASE first.allow -> [decision |-> "permit", policies |-> first.policies]
        [] ~first.allow /\ probed.allow ->
             [decision |-> "needs-approval", policies |-> probed.policies]
        [] OTHER -> [decision |-> "deny", policies |-> first.policies]

\* createShadowPolicyEngine: the candidate is evaluated, compared and forgotten.
Shadowed(live, candidate) == [result |-> live, diverged |-> candidate.decision # live.decision]

\* cedarMapCall: no identity, no request; a run mode that is not stamped is autonomous.
ModeOf(call) == IF call.mode = Absent THEN "autonomous" ELSE call.mode

\* The sealed gate of buildFloorPolicyPlugin: its matcher skips what is not in the model.
Gate(model, bundle, call) ==
  CASE call.name \notin DOMAIN model.groups -> [decision |-> "skip", policies |-> {}]
    [] call.name \in DOMAIN model.groups /\ call.principal = Absent ->
         [decision |-> "throw", policies |-> {}]
    [] OTHER ->
         LET decide(policies) ==
               Authorize(policies, call.name, model.groups[call.name], ModeOf(call))
         IN  IF bundle.shadow
               THEN Shadowed(decide(bundle.live), decide(bundle.candidate)).result
               ELSE decide(bundle.live)

-----------------------------------------------------------------------------
(* What is given: the tools of the host, slices, and a call.               *)

Enforced(slices) ==
  LET kept[i \in 0..Len(slices)] ==
        IF i = 0 THEN <<>>
        ELSE IF slices[i].mode = "enforce" THEN Append(kept[i - 1], slices[i]) ELSE kept[i - 1]
  IN  kept[Len(slices)]

IsList(s) == s \in Seq({s[i] : i \in DOMAIN s})

IsGiven(given) ==
  /\ IsList(given.slices)
  /\ \A name \in DOMAIN given.tools :
       given.tools[name] \notin {Absent, Broken} =>
         given.tools[name].access \in {"read", "write", Absent}
  /\ \A i \in DOMAIN given.slices : /\ IsList(given.slices[i].cedar)
                                    /\ given.slices[i].mode \in {"enforce", "shadow", "off"}
  /\ given.call.mode \in Modes \cup {Absent}

\* The floor cannot be passed, and it leaves alone only what declared no access.  Whatever slices
\* the plugins bring, a tool that declares to write is not run without a confirmation for a run
\* that nobody watches; the calls that are skipped are those of tools that opted out; a slice that
\* forbids a governed tool forbids it; and slices that are shadow or off change no decision.  A
\* configuration that could do otherwise is refused.
FloorHolds(given) ==
  LET model == FloorModel(given.tools)
      bundle == Bundle(given.slices)
      found == Gate(model, bundle, given.call)
      governed == given.call.name \in Governed(given.tools)
  IN  (model # Broken /\ bundle # Broken) =>
        /\ (governed /\ given.tools[given.call.name].access = "write"
              /\ given.call.mode # "interactive")
             => found.decision \in {"needs-approval", "deny", "throw"}
        /\ found.decision = "skip" <=> ~ governed
        /\ \A i \in DOMAIN given.slices : \A k \in DOMAIN given.slices[i].cedar :
             LET policy == given.slices[i].cedar[k] IN
             (/\ given.slices[i].mode = "enforce" /\ policy.effect = "forbid"
              /\ policy.on \in {"any", given.call.name} /\ policy.contexts = Contexts /\ governed)
               => found.decision \in {"deny", "throw"}
        /\ found = Gate(model, Bundle(Enforced(given.slices)), given.call)
================================================================================
