------------------------------ MODULE OpenApiTools ------------------------------
(***************************************************************************)
(* An OpenAPI document becomes tools, and a call of a tool becomes a       *)
(* request (runtime/tools): the extractor, which refuses what it cannot    *)
(* carry and says so; the plan of a request, its inverse; the credentials  *)
(* that the operation asks for; and the floor under every request.         *)
(*                                                                         *)
(* Of a document: one path with its own parameters, and operations.  A     *)
(* value is known by the name of its argument: it is written so that it    *)
(* stays in its place.  A list keeps the places of what is left out of it. *)
(***************************************************************************)
EXTENDS Integers, Sequences, FiniteSets, FiniteSetsExt, Functions

CONSTANTS Absent, Malformed

Elements(s) == {s[i] : i \in DOMAIN s}

-----------------------------------------------------------------------------
(* The parameters and the body of an operation.  A body is flat, with the  *)
(* properties of an object, or anything else, under one name.              *)

Key(p) == <<p.in, p.name>>

\* Of a place and a name there is one parameter, the last: it stands where the first stood.  The
\* parameters of the path come before those of the operation; a malformed one is dropped.
Merged(item, op) ==
  LET all == item.parameters \o op.parameters
      wellFormed == {i \in DOMAIN all : all[i] # Malformed}
      of(i) == {j \in wellFormed : Key(all[j]) = Key(all[i])}
  IN  [i \in {i \in wellFormed : i = Min(of(i))} |-> all[Max(of(i))]]

IsRequired(p) == p.in = "path" \/ p.required
Carried(p) == p.in # "cookie" /\ p.schema
Parameters(item, op) == RestrictValues(Merged(item, op), Carried)
LostParameter(item, op) == \E p \in Elements(Merged(item, op)) : IsRequired(p) /\ ~Carried(p)

HasBody(op) == op.body # Absent /\ op.body.json
LostBody(op) == op.body # Absent /\ op.body.required /\ ~op.body.json
Wrapped(op) == HasBody(op) /\ op.body.properties = Absent
BodyNames(op) == IF ~HasBody(op) THEN {} ELSE IF Wrapped(op) THEN {"body"} ELSE op.body.properties
BodyRequired(op) ==
  IF ~HasBody(op) \/ ~op.body.required THEN {}
  ELSE IF Wrapped(op) THEN {"body"} ELSE op.body.requires \cap op.body.properties

Names(params) == {p.name : p \in Elements(params)}

\* A remote, a circular or a dangling reference, and a schema that expands without end, refuse
\* their operation.
Skipped(item, op) ==
  \/ op.references = "refused" \/ LostParameter(item, op) \/ LostBody(op)
  \/ Names(Parameters(item, op)) \cap BodyNames(op) # {}

\* What an operation requires, or else the document, but for what is malformed.
Security(document, op) ==
  LET declared == IF op.security # Absent THEN op.security ELSE document.security
  IN  IF declared = Absent THEN <<>> ELSE RestrictValues(declared, LAMBDA r : r # Malformed)

\* The definitions that can be placed, of the schemes that are required.
AuthSchemes(document, security) ==
  {s \in UNION {Elements(a) : a \in Elements(security)} : document.schemes[s] \in
     {"apiKey header", "apiKey query", "bearer", "basic", "oauth2"}}

Access(method) == IF method \in {"get", "head"} THEN "read" ELSE "write"
Idempotency(method) == IF method \in {"post", "patch"} THEN "none" ELSE "optional"

Tool(document, item, op) ==
  LET params == Parameters(item, op)  security == Security(document, op)
  IN  [name |-> op.name, method |-> op.method, parameters |-> params,
       properties |-> Names(params) \cup BodyNames(op),
       required |-> {p.name : p \in {q \in Elements(params) : IsRequired(q)}} \cup BodyRequired(op),
       wrapped |-> Wrapped(op), security |-> security,
       schemes |-> AuthSchemes(document, security),
       access |-> Access(op.method), idempotency |-> Idempotency(op.method)]

\* The first operation of a name has it.
Taken(document, i) ==
  \E j \in 1..(i - 1) : /\ document.operations[j].name = document.operations[i].name
                        /\ ~Skipped(document.item, document.operations[j])

Tools(document) ==
  {Tool(document, document.item, document.operations[i]) :
     i \in {j \in DOMAIN document.operations :
              ~Skipped(document.item, document.operations[j]) /\ ~Taken(document, j)}}

-----------------------------------------------------------------------------
(* The request of a call.                                                  *)

Threw(why) == [threw |-> why]

\* By name, the last parameter of a name; what is no parameter belongs to the body.
Place(tool, name) ==
  LET at == {i \in DOMAIN tool.parameters : tool.parameters[i].name = name}
  IN  IF at = {} THEN "body" ELSE tool.parameters[CHOOSE i \in at : \A j \in at : j <= i].in

Plan(tool, args) ==
  [method |-> tool.method,
   places |-> [place \in {"path", "query", "header", "body"} |->
                 {n \in args : Place(tool, n) = place /\ (tool.wrapped /\ place = "body" => n = "body")}],
   credentials |-> {}]

\* Mutant: an alternative is taken when one of its schemes has its credential.
Satisfiable_Some(tool, alternative, material) ==
  \E s \in Elements(alternative) : s \in tool.schemes /\ material # Absent

\* All the schemes of an alternative have a definition, and there is a credential: one for all.
Satisfiable(tool, alternative, material) ==
  \A s \in Elements(alternative) : s \in tool.schemes /\ material # Absent

\* A scheme that takes another kind of material than there is throws.
Placeable(document, alternative, material) ==
  \A s \in Elements(alternative) : (document.schemes[s] = "basic") = (material = "basic")

\* The first alternative that can be satisfied, or that needs nothing, unless the reader fails when
\* it is asked before; it is an error that there is none.
Credentialed(document, tool, plan, material) ==
  LET fails(a) == material = "throws" /\ a # <<>> /\ a[1] \in tool.schemes
      ends == {i \in DOMAIN tool.security :
                 fails(tool.security[i]) \/ Satisfiable(tool, tool.security[i], material)}
      alternative == tool.security[CHOOSE i \in ends : \A j \in ends : i <= j]
  IN  CASE tool.security = <<>> -> plan
        [] tool.security # <<>> /\ ends = {} -> Threw("not configured")
        [] ends # {} /\ fails(alternative) -> Threw("reader")
        [] ends # {} /\ ~fails(alternative) ->
             IF Placeable(document, alternative, material)
             THEN [plan EXCEPT !.credentials = Elements(alternative) \cap tool.schemes] ELSE Threw("wrong kind")

-----------------------------------------------------------------------------
(* The floor: addresses, of which the first two numbers decide.            *)

BlockedIPv4(a, b) ==
  \/ a = 0 \/ a = 10 \/ a = 127 \/ (a = 169 /\ b = 254) \/ (a = 172 /\ b >= 16 /\ b <= 31)
  \/ (a = 192 /\ b = 168) \/ (a = 100 /\ b >= 64 /\ b <= 127) \/ (a = 255 /\ b = 255)

\* The groups are 16 bits wide: a mask that keeps the upper bits divides.
BlockedIPv6(groups) ==
  LET zero(n) == \A i \in 1..n : groups[i] = 0
      embedded == BlockedIPv4(groups[7] \div 256, groups[7] % 256)
  IN  CASE zero(5) /\ groups[6] = 65535 -> embedded
        [] zero(6) /\ (groups[7] # 0 \/ groups[8] > 1) -> embedded
        [] OTHER -> zero(8) \/ (zero(7) /\ groups[8] = 1)
                    \/ groups[1] \div 64 = 1018 \/ groups[1] \div 512 = 126

\* An address that does not parse is blocked.
Blocked(address) ==
  CASE address.family = 4 -> BlockedIPv4(address.groups[1], address.groups[2])
    [] address.family = 6 -> BlockedIPv6(address.groups)
    [] OTHER -> TRUE

\* https, or http where that is allowed, to a host all of whose addresses are allowed.
Allowed(target) ==
  /\ target.protocol = "https" \/ (target.insecure /\ target.protocol = "http")
  /\ target.addresses # <<>> /\ \A a \in Elements(target.addresses) : ~Blocked(a)

\* The floor's pinned address is not used: fetch resolves a named host again, and may find another
\* address or none.  Nothing is followed, whatever its status is; a late or a long answer throws.
Fetch(plan, target, response) ==
  LET to == IF target.literal THEN target.addresses[1] ELSE target.later
  IN  CASE to = Absent -> Threw("unresolved")
        [] to # Absent /\ response \in {"late", "long"} -> Threw(response)
        [] OTHER -> [sent |-> plan, to |-> to, response |-> response]

Execute(document, tool, args, material, target, response) ==
  LET plan == Plan(tool, args)
      request == Credentialed(document, tool, plan, material)
  IN  IF target.protocol = Absent THEN Threw("no server")
      ELSE IF "threw" \in DOMAIN request THEN request
      ELSE IF ~Allowed(target) THEN Threw("blocked")
      ELSE Fetch(request, target, response)

-----------------------------------------------------------------------------
(* Properties.                                                             *)

IsList(s) == s \in Seq(Elements(s))

\* The places a document can give a parameter, and the numbers an address has.
IsGiven(given) ==
  LET document == given.document
      parametersOf(s) == /\ IsList(s.parameters)
                         /\ \A p \in Elements(s.parameters) : p # Malformed =>
                              p.in \in {"path", "query", "header", "cookie"}
      securityOf(s) == s.security = Absent \/ IsList(s.security)
  IN  /\ parametersOf(document.item) /\ securityOf(document) /\ IsList(document.operations)
      /\ \A op \in Elements(document.operations) : parametersOf(op) /\ securityOf(op)
      /\ IsList(given.target.addresses)
      /\ \A a \in Elements(given.target.addresses) :
           /\ a.family = 4 => \A i \in 1..2 : a.groups[i] \in Nat /\ a.groups[i] < 256
           /\ a.family = 6 => \A i \in 1..8 : a.groups[i] \in Nat /\ a.groups[i] < 65536

\* The networks that are nobody's to call, by their numbers of sixteen bits.
Private4 == (0..255) \cup (2560..2815) \cup (32512..32767) \cup {43518} \cup (44048..44063)
            \cup {49320} \cup (25664..25727) \cup {65535}
Private6 == (65152..65215) \cup (64512..65023)
Reachable(address) ==
  CASE address.family = 4 -> address.groups[1] * 256 + address.groups[2] \notin Private4
    [] OTHER -> address.groups[1] \notin Private6
                /\ ((\A i \in 1..5 : address.groups[i] = 0) /\ address.groups[6] \in {0, 65535}
                      => address.groups[7] \notin Private4)

\* Two parameters of one name in two places: only the last gets the value, and the other place none.
Ambiguous(tool) ==
  \E i, j \in DOMAIN tool.parameters : i # j /\ tool.parameters[i].name = tool.parameters[j].name

\* What an operation declares: of a place and a name, the last word of the path's list and its own.
Declared(item, op) ==
  LET all == item.parameters \o op.parameters
      said(i) == all[i] # Malformed
      last(i) == said(i) /\ \A j \in DOMAIN all : (j > i /\ said(j)) => Key(all[j]) # Key(all[i])
  IN  {all[i] : i \in {i \in DOMAIN all : last(i)}}

Sent(document, tool, args, request) ==
  LET op == CHOOSE o \in Elements(document.operations) :
              o.name = tool.name /\ ~Skipped(document.item, o)
                /\ Tool(document, document.item, o) = tool
      all == Declared(document.item, op)
      places == request.places
  IN  /\ \A p \in all : IsRequired(p) => p.in \in DOMAIN places /\ p.name \in places[p.in]
      /\ \A place \in {"path", "query", "header"} :
           places[place] \subseteq {p.name : p \in {q \in all : q.in = place}}
      /\ (op.body # Absent /\ op.body.required) =>
           (IF op.body.properties = Absent THEN places["body"] = {"body"}
            ELSE op.body.requires \cap op.body.properties \subseteq places["body"])
      /\ op.body = Absent => places["body"] = {}
      /\ tool.security = <<>> \/ \E a \in Elements(tool.security) : request.credentials = Elements(a)

\* What a call sends is the operation that was registered: everything that it requires is where it
\* declares it, nothing is where it declares nothing, and one alternative of its security is met in
\* full; what cannot be sent so is skipped or throws.  The exception are two parameters of one name.
\* The request goes to none of the private networks, unless a named host resolved to another
\* address between the check and the connection.  What may be repeated after a lost answer, and what
\* counts as reading, is so of the method (toolsFromOpenApi, planHttpRequest, applyCredentials,
\* assertEgressAllowed, performFetch).
CallsAreTheOperations(given) ==
  \A tool \in Tools(given.document) :
    /\ tool.access = "read" => tool.idempotency # "none"
    /\ \A other \in Tools(given.document) : other.name = tool.name => other = tool
    /\ \A args \in SUBSET tool.properties : tool.required \subseteq args =>
         LET result == Execute(given.document, tool, args, given.material, given.target, "answered")
         IN  "sent" \in DOMAIN result =>
               /\ Ambiguous(tool) \/ Sent(given.document, tool, args, result.sent)
               /\ \/ Reachable(result.to)
                  \/ ~ given.target.literal /\ result.to \notin Elements(given.target.addresses)
================================================================================
