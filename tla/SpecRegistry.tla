------------------------------ MODULE SpecRegistry ------------------------------
(***************************************************************************)
(* The tool registry of an organization (runtime tools/registry.ts,        *)
(* storage/durable registry.ts, euroclaw registry.ts): a document that is  *)
(* registered for a source becomes the source's tools, by the difference   *)
(* to the rows of the last one; an overlay overrides facts of single       *)
(* actions; and both are assembled into the actions that policies are      *)
(* about.                                                                  *)
(*                                                                         *)
(* A registration is one call of the store per tool and has no             *)
(* transaction: another one or an override may come between any two of     *)
(* its steps, and any step may be its last.                                *)
(***************************************************************************)
EXTENDS Naturals

CONSTANTS
  Actor,       \* calls of registerOpenApiSpec and of the overlay
  Tool,        \* names of tools; one source, whose slug precedes each
  Base,        \* the actions that there are without a registration
  Documents,   \* what is uploaded: the facts of its tools by their names, or Malformed
  Overrides,   \* pairs of an action and what is said of its access, None for nothing
  MaxBegun,    \* bound on the calls
  Malformed, None, Threw

VARIABLES
  tools,      \* the registered_tool rows
  specs,      \* the spec_registration rows
  overlay,    \* the facts_overlay rows
  changes,    \* the length of the log of authorization changes
  actor,      \* each call's own state
  begun,
  last,       \* (history) the document of the last registration, if it was alone and came to its end
  wanted,     \* (history) action -> what was said of it last, or None
  contested,  \* (history) whether two registrations ever overlapped
  unsure      \* (history) actions with overrides that overlapped or did not come to their end

vars == <<tools, specs, overlay, changes, actor, begun, last, wanted, contested, unsure>>

Idle == [op |-> "idle"]
Registering(p) == actor[p].op \in {"list", "write", "find", "save", "change"}
Actions == Tool \cup Base

\* The hash of what a tool is.
ContentVersion(tool) == tool

Version(document) == {ContentVersion(document[n]) : n \in DOMAIN document}

\* The rows.  An id is the store's own and never used twice: here, the call that creates the row and
\* what it creates it for.  The organization and the source are always the same.
Id(p, what) == <<actor[p].number, what>>
Accesses == {"read", "write", None}
Accepted == Documents \ {Malformed}
Extracted == UNION {{document[n] : n \in DOMAIN document} : document \in Accepted}
RegisteredTool ==
  [id : Nat \X Tool, name : Tool, access : Accesses, description : {tool.description : tool \in Extracted},
   version : {ContentVersion(tool) : tool \in Extracted}]
SpecRegistration == [id : Nat, version : {Version(document) : document \in Accepted}]
FactsOverlay == [id : Nat \X Actions, action : Actions, access : Accesses]

RegistryAssumption ==
  /\ MaxBegun \in Nat /\ None \notin Nat
  /\ \A access \in Accesses : [access |-> access] # None
  /\ \A document \in Accepted :
       DOMAIN document \subseteq Tool /\ \A n \in DOMAIN document : document[n].access \in Accesses
  /\ \A o \in Overrides : o[1] \in Actions /\ o[2] \in Accesses
  /\ \A A \in SUBSET Actions : Threw \notin [A -> {"read", "write"}]

TypeOK ==
  /\ tools \subseteq RegisteredTool
  /\ specs \subseteq SpecRegistration
  /\ overlay \subseteq FactsOverlay
  /\ begun \in 0..MaxBegun /\ changes \in 0..begun
  /\ last \in Documents \cup {None}
  /\ \A p \in Actor : actor[p].op \in
       {"idle", "list", "write", "find", "save", "change", "drop", "put", "tell", "unset", "erase"}

Init ==
  /\ tools = {} /\ specs = {} /\ overlay = {} /\ changes = 0
  /\ actor = [p \in Actor |-> Idle]
  /\ begun = 0
  /\ last = None
  /\ wanted = [a \in Actions |-> None]
  /\ contested = FALSE /\ unsure = {}

Goes(p, state) == actor' = [actor EXCEPT ![p] = state]
Rows == <<tools, specs, overlay>>
History == <<last, wanted, contested, unsure>>

-----------------------------------------------------------------------------
(* The registration of a document.                                         *)

\* A slug, a size or a document that is refused is refused before anything is read.
Register(p, document) ==
  LET others == {q \in Actor \ {p} : Registering(q)} IN
  /\ actor[p] = Idle /\ begun < MaxBegun /\ begun' = begun + 1
  /\ IF document = Malformed
     THEN UNCHANGED <<actor, last, contested>>
     ELSE /\ actor' = [q \in Actor |->
                         CASE q = p -> [op |-> "list", number |-> begun', document |-> document,
                                        alone |-> others = {}]
                           [] q \in others -> [actor[q] EXCEPT !.alone = FALSE]
                           [] OTHER -> actor[q]]
          /\ last' = None
          /\ contested' = (contested \/ others # {})
  /\ UNCHANGED <<tools, specs, overlay, changes, wanted, unsure>>

\* The rows of the source by their addresses: of two with the same, the one that is listed last.
Prior(existing) ==
  {f \in [{row.name : row \in existing} -> existing] : \A n \in DOMAIN f : f[n].name = n}

\* Mutant: only rows that another one hides are deleted.
Difference_Keeps(document, existing, prior) ==
  [create |-> DOMAIN document \ DOMAIN prior,
   update |-> {prior[n] : n \in {n \in DOMAIN document \cap DOMAIN prior :
                                   prior[n].version # ContentVersion(document[n])}},
   delete |-> {row.id : row \in {row \in existing : row \notin {prior[n] : n \in DOMAIN prior}}}]

\* What has to be written: tools that are new or changed, and rows whose tool is gone.
Difference(document, existing, prior) ==
  [create |-> DOMAIN document \ DOMAIN prior,
   update |-> {prior[n] : n \in {n \in DOMAIN document \cap DOMAIN prior :
                                   prior[n].version # ContentVersion(document[n])}},
   delete |-> {row.id : row \in {row \in existing : row.name \notin DOMAIN document}}]

ListBySource(p) ==
  /\ actor[p].op = "list"
  /\ \E prior \in Prior(tools) :
       Goes(p, [op |-> "write", number |-> actor[p].number, document |-> actor[p].document,
                alone |-> actor[p].alone, todo |-> Difference(actor[p].document, tools, prior)])
  /\ UNCHANGED <<Rows, changes, begun, History>>

Does(p, todo) == Goes(p, [actor[p] EXCEPT !.todo = todo])

CreateTool(p) ==
  LET call == actor[p] IN
  /\ call.op = "write"
  /\ \E n \in call.todo.create :
       LET tool == call.document[n] IN
       /\ tools' = tools \cup
            {[id |-> Id(p, n), name |-> n, access |-> tool.access,
              description |-> tool.description, version |-> ContentVersion(tool)]}
       /\ Does(p, [call.todo EXCEPT !.create = @ \ {n}])
  /\ UNCHANGED <<specs, overlay, changes, begun, History>>

\* A patch without a description leaves the one there was.  A row that is gone is not missed.
Patched(row, tool) ==
  [row EXCEPT !.access = tool.access, !.version = ContentVersion(tool),
              !.description = IF tool.description = None THEN @ ELSE tool.description]

UpdateTool(p) ==
  LET call == actor[p] IN
  /\ call.op = "write" /\ call.todo.create = {}
  /\ \E prior \in call.todo.update :
       /\ tools' = {IF row.id = prior.id THEN Patched(row, call.document[prior.name]) ELSE row : row \in tools}
       /\ Does(p, [call.todo EXCEPT !.update = @ \ {prior}])
  /\ UNCHANGED <<specs, overlay, changes, begun, History>>

\* Every row whose operation is gone from the document, after the others are written.
DeleteTool(p) ==
  LET call == actor[p] IN
  /\ call.op = "write" /\ call.todo.create = {} /\ call.todo.update = {}
  /\ \E id \in call.todo.delete :
       /\ tools' = {row \in tools : row.id # id}
       /\ Does(p, [call.todo EXCEPT !.delete = @ \ {id}])
  /\ UNCHANGED <<specs, overlay, changes, begun, History>>

\* The upsert of the registration: a row is found, and then changed or created.
FindSpec(p) ==
  LET call == actor[p] IN
  /\ call.op = "write" /\ call.todo = [create |-> {}, update |-> {}, delete |-> {}]
  /\ \E row \in {found.id : found \in specs} \cup {None} :
       /\ row = None => specs = {}
       /\ Goes(p, [op |-> "save", number |-> call.number, document |-> call.document,
                   alone |-> call.alone, row |-> row])
  /\ UNCHANGED <<Rows, changes, begun, History>>

SaveSpec(p) ==
  LET call == actor[p] IN
  /\ call.op = "save"
  /\ specs' = IF call.row = None
              THEN specs \cup {[id |-> call.number, version |-> Version(call.document)]}
              ELSE {IF row.id = call.row THEN [row EXCEPT !.version = Version(call.document)] ELSE row : row \in specs}
  /\ Goes(p, [op |-> "change", number |-> call.number, document |-> call.document, alone |-> call.alone])
  /\ UNCHANGED <<tools, overlay, changes, begun, History>>

AppendRegistered(p) ==
  /\ actor[p].op = "change"
  /\ changes' = changes + 1
  /\ last' = IF actor[p].alone THEN actor[p].document ELSE None
  /\ Goes(p, Idle)
  /\ UNCHANGED <<Rows, begun, wanted, contested, unsure>>

-----------------------------------------------------------------------------
(* The overlay: an override replaces the one there is as a whole.          *)

Overriding(a) == {q \in Actor : actor[q].op \in {"drop", "put", "unset", "erase"} /\ actor[q].action = a}

\* Says of an action, or takes back what was said (deleteById).
Override(p, action, access, op) ==
  /\ actor[p] = Idle /\ begun < MaxBegun /\ begun' = begun + 1
  /\ Goes(p, [op |-> op, number |-> begun', action |-> action, access |-> access, id |-> None])
  /\ wanted' = [wanted EXCEPT ![action] = IF op = "drop" THEN [access |-> access] ELSE None]
  /\ unsure' = IF Overriding(action) = {} THEN unsure ELSE unsure \cup {action}
  /\ UNCHANGED <<Rows, changes, last, contested>>

\* A store deletes one of the rows that match.
DropOverride(p) ==
  LET matching == {row \in overlay : row.action = actor[p].action} IN
  /\ actor[p].op = "drop"
  /\ \/ matching = {} /\ UNCHANGED overlay
     \/ \E row \in matching : overlay' = overlay \ {row}
  /\ Goes(p, [actor[p] EXCEPT !.op = "put"])
  /\ UNCHANGED <<tools, specs, changes, begun, History>>

PutOverride(p) ==
  /\ actor[p].op = "put"
  /\ overlay' = overlay \cup
       {[id |-> Id(p, actor[p].action), action |-> actor[p].action, access |-> actor[p].access]}
  /\ Goes(p, [actor[p] EXCEPT !.op = "tell"])
  /\ UNCHANGED <<tools, specs, changes, begun, History>>

\* A row that is not there is not worth a change.
FindOverride(p) ==
  LET matching == {row \in overlay : row.action = actor[p].action} IN
  /\ actor[p].op = "unset"
  /\ \/ matching = {} /\ Goes(p, Idle)
     \/ \E row \in matching : Goes(p, [actor[p] EXCEPT !.op = "erase", !.id = row.id])
  /\ UNCHANGED <<Rows, changes, begun, History>>

EraseOverride(p) ==
  /\ actor[p].op = "erase"
  /\ overlay' = {row \in overlay : row.id # actor[p].id}
  /\ Goes(p, [actor[p] EXCEPT !.op = "tell"])
  /\ UNCHANGED <<tools, specs, changes, begun, History>>

AppendOverride(p) ==
  /\ actor[p].op = "tell"
  /\ changes' = changes + 1
  /\ Goes(p, Idle)
  /\ UNCHANGED <<Rows, begun, History>>

\* A call of the store fails or the process ends: what was written before stays written.
Fail(p) ==
  /\ actor[p] # Idle
  /\ Goes(p, Idle)
  /\ unsure' = IF actor[p].op \in {"drop", "put", "unset", "erase"} THEN unsure \cup {actor[p].action} ELSE unsure
  /\ UNCHANGED <<Rows, changes, begun, last, wanted, contested>>

Next ==
  \E p \in Actor :
    \/ \E document \in Documents : Register(p, document)
    \/ ListBySource(p) \/ CreateTool(p) \/ UpdateTool(p) \/ DeleteTool(p)
    \/ FindSpec(p) \/ SaveSpec(p) \/ AppendRegistered(p)
    \/ \E o \in Overrides : Override(p, o[1], o[2], "drop")
    \/ \E o \in Overrides : Override(p, o[1], None, "unset")
    \/ DropOverride(p) \/ PutOverride(p) \/ FindOverride(p) \/ EraseOverride(p)
    \/ AppendOverride(p)
    \/ Fail(p)

Spec == Init /\ [][Next]_vars

-----------------------------------------------------------------------------
(* The actions of the organization (assembleOrgActions).                   *)

Twice(rows, column) == \E r, s \in rows : r # s /\ r[column] = s[column]

\* An action of which no access is known writes.
Stamped(a) ==
  IF a \in Base THEN "write"
  ELSE LET row == CHOOSE row \in tools : row.name = a
       IN  IF row.access = None THEN "write" ELSE row.access

MergeFactsOverlay(a) ==
  LET rows == {row \in overlay : row.action = a /\ row.access # None}
  IN  IF rows = {} THEN Stamped(a) ELSE (CHOOSE row \in rows : TRUE).access

\* Two rows of one action, in either table, are an error for the whole organization.
AssembleOrgActions ==
  IF Twice(overlay, "action") \/ Twice(tools, "name") THEN Threw
  ELSE [a \in Base \cup {row.name : row \in tools} |-> MergeFactsOverlay(a)]

-----------------------------------------------------------------------------
(* Properties.                                                             *)

Single(rows) == \E row \in rows : rows = {row}
RowsOf(n) == {row \in tools : row.name = n}
CurrentRows(n, tool) ==
  {row \in RowsOf(n) : /\ row.version = ContentVersion(tool) /\ row.access = tool.access
                       /\ tool.description # None => row.description = tool.description}

\* A registration that no other one overlaps leaves the tools of its document, as its document has
\* them, and no other, whatever the calls before it left behind when they failed; only of rows that
\* registrations created side by side may an address keep a second one, and a description that the
\* document no longer gives stays.  The registration says the same of itself as its rows
\* (createSpecRegistry).
RegistrationIsTheSurface ==
  (last # None) =>
    /\ {row.name : row \in tools} = DOMAIN last
    /\ \A n \in DOMAIN last :
         /\ CurrentRows(n, last[n]) # {}
         /\ ~contested => CurrentRows(n, last[n]) = RowsOf(n) /\ Single(RowsOf(n))
    /\ \E row \in specs : row.version = Version(last)
    /\ ~contested => Single(specs)

\* The actions that policies see are the document's and those that are always there, each with the
\* access that was said of it last or else the document's, where nothing counts as a write; unless
\* registrations or the overrides of an action overlapped, or an override failed halfway
\* (assembleOrgActions).
ActionsAreTheSurface ==
  LET settled == \A a \in Actions : Overriding(a) = {} /\ a \notin unsure
      known(a) == IF a \in Base THEN "write" ELSE IF last[a].access = None THEN "write" ELSE last[a].access
      said(a) == IF wanted[a] = None THEN None ELSE wanted[a].access
  IN  (last # None /\ ~contested /\ settled) =>
        /\ AssembleOrgActions # Threw
        /\ AssembleOrgActions = [a \in Base \cup DOMAIN last |-> IF said(a) = None THEN known(a) ELSE said(a)]
================================================================================
