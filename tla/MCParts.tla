-------------------------------- MODULE MCParts --------------------------------
(***************************************************************************)
(* Components for TLC, side by side: each behaviour is one of one          *)
(* component, which part names, and the variables of the others are off. A *)
(* component without steps of its own is a function: it is checked for     *)
(* everything it may be given. The engine is here with leases that a claim *)
(* may outlive. The configuration alone bounds the audit chain (three      *)
(* entries, and two changes behind the sink's back), the policy router     *)
(* (two decisions and two writes, of one organization or of two), the      *)
(* channel endpoints (a bot of the app, and users who register one under   *)
(* its name and another) and the recording sink (a conversation, its       *)
(* continuation by an engine, and two final texts).                        *)
(***************************************************************************)
EXTENDS Components, TLC

CONSTANTS anon, p1, p2, t1, c1, c2, th1, th2, r1, x1, absent, broken, d1, d2, u1, u2, o1, o2, k1, k2, b1, b2

Symmetry ==
  UNION {Permutations(s) : s \in {{d1, d2}, {u1, u2}, {o1, o2}, {k1, k2}, {b1, b2}}}

(* Gates: some of a plugin's registrations, sealed or not, in orders in which they meet.       *)

Registration(list, id, isSealed, version) ==
  [list |-> list, gate |-> [id |-> id, sealed |-> isSealed, version |-> version]]
Registrations ==
  LET x(list, isSealed, version) == Registration(list, "x", isSealed, version)
      y(isSealed, version) == Registration("tool", "y", isSealed, version)
      z(id, isSealed) == Registration("after", id, isSealed, 1)
  IN  {<<x("boundary", FALSE, 1), y(FALSE, 1)>>,
       <<x("tool", FALSE, 1), y(TRUE, 1), x("tool", FALSE, 2)>>,
       <<x("tool", TRUE, 1), y(TRUE, 1), x("tool", FALSE, 2)>>,
       <<x("boundary", TRUE, 1), x("tool", FALSE, 2), y(FALSE, 1)>>,
       <<z("z", FALSE), z("audit", FALSE), z("z", TRUE)>>}

(* ApiAccess: a claw of the team's with a thread, and deployments that differ in their         *)
(* posture and in the methods that are called.                                                 *)

Scopes(level) == {[label |-> t1, level |-> level]}

Deployment(traffic, memberships, maxCalls, maxChanges) ==
  [posture |-> "enforce", permits |-> {}, forbids |-> {},
   label |-> [c \in {c1, c2} |-> t1], owner |-> [c \in {c1, c2} |-> IF c = c1 THEN p1 ELSE None],
   home |-> [t \in {th1, th2} |-> IF t = th1 THEN c1 ELSE None], runner |-> [r \in {r1} |-> p1],
   traffic |-> traffic, memberships |-> memberships, maxCalls |-> maxCalls,
   maxChanges |-> maxChanges]

ApiCall(method, by, target, child, ref, level) ==
  [method |-> method, by |-> by, target |-> target, child |-> child, ref |-> ref, level |-> level,
   shape |-> [owner |-> None, label |-> None, grants |-> {}], keys |-> {}, scopes |-> {}]
Plain(method, by, target) == ApiCall(method, by, target, None, "public", "read")

\* The owner shares its claw and takes the grant back; the other principal tries to use it.
Sharing ==
  {ApiCall("shareResource", p1, c1, None, ref, "use") : ref \in {p2, t1}}
  \cup {ApiCall("shareResource", p1, c1, None, p2, "manage"),
        ApiCall("unshareResource", p1, c1, None, p2, "read")}
  \cup {ApiCall("appendMessage", p2, c1, th1, "public", "read"), Plain("archiveThread", p2, th1),
         ApiCall("shareResource", p2, th1, None, "public", "read")}

\* A claw and a thread are created while others ask for them.
Creating ==
  {ApiCall("createClaw", by, None, c2, "public", "read") : by \in {p2, None}}
  \cup {ApiCall("createThread", by, c, th2, "public", "read") : by \in {p1, p2}, c \in {c1, c2}}
  \cup {ApiCall("appendMessage", p2, c2, th, "public", "read") : th \in {th1, th2}}
  \cup {Plain(m, by, c2) : m \in {"getClaw", "updateClaw"}, by \in {p1, p2}}
  \cup {Plain("listMessages", p2, th2)}

\* The rest: runs, calls without a resource, and a resource of a kind that has no loader.
Others ==
  {Plain("getRun", by, r1) : by \in {p1, p2, None}}
  \cup {Plain(m, by, None) : m \in {"generate", "plugin"}, by \in {p1, None}}
  \cup {ApiCall("shareResource", p1, x1, None, "public", "manage"), Plain("archiveClaw", p2, c1)}

Deployments ==
  {Deployment(Sharing, {}, 3, 0),
   Deployment(Sharing \ {c \in Sharing : c.level = "use"}, {Scopes("use"), Scopes("manage")}, 2, 2),
   Deployment(Creating, {}, 3, 0),
   Deployment(Others, {}, 2, 0)}
  \cup {[Deployment(Creating \cup Others, {}, 2, 0) EXCEPT !.posture = posture] :
         posture \in {"shadow", "open"}}
  \cup {[Deployment(Creating \cup Others, {}, 2, 0) EXCEPT !.permits = {"createThread", "getRun"},
                                                       !.forbids = {"getClaw", "plugin"}]}

(* StorageAdapters: one row, which is created, taken, released, consumed and deleted.          *)

Input(op, status, data) == [op |-> op, id |-> o1, status |-> status, data |-> data]
MCStorageInputs ==
  {Input("create", None, [status |-> "free", origin |-> "x"]), Input("create", None, [status |-> "free"]),
   Input("update", "free", [status |-> "taken"]),
   Input("update", "taken", [status |-> "free", holder |-> None]),
   Input("update", None, [status |-> None]), Input("update", None, [status |-> "free", origin |-> "y"]),
   Input("updateMany", "taken", [status |-> "free"]), Input("delete", "taken", None),
   Input("consume", "free", None), Input("find", None, None)}
StoredRows == {[status |-> "free", holder |-> absent, origin |-> "x", note |-> absent]}

(* StoredSecrets: two principals of an organization, whose deployment has a value for the same *)
(* name, and exchanges its master key, loses it or fails.                                      *)

Environment(value, master) ==
  [env |-> [sales |-> value, MASTER |-> master], vault |-> [sales |-> absent, MASTER |-> absent]]
Environments == {Environment("e", "m1"), Environment(absent, "m2"), Environment(broken, "short")}
Callers == {[principal |-> p1, organization |-> o1], [principal |-> p2, organization |-> absent]}
Providers == <<"vault", "env", "store">>

(* SpecRegistry: documents of none, one and two tools, and overrides of a tool and of an action *)
(* that needs no registration.                                                                 *)

Facts(access, description) == [access |-> access, description |-> description]
Uploads ==
  {[n \in {c1} |-> Facts("read", b1)],
   [n \in {c1, c2} |-> IF n = c1 THEN Facts("write", None) ELSE Facts(None, None)], broken}
Overridden == {<<c1, "write">>, <<c1, None>>, <<r1, "read">>}

(* StorageWhere: every clause by itself, and wheres of up to three nodes, on rows of two       *)
(* columns.                                                                                    *)

Letters == [n : {0, 1}, upper : BOOLEAN]
Numbers == [n : {0, 1}, upper : {FALSE}]
Clause(field, op, value, mode) == [field |-> field, op |-> op, value |-> value, mode |-> mode]
Clauses(field, values) ==
  {Clause(field, op, v, mode) : op \in {"eq", "ne", "contains"}, v \in values \cup {None},
                                mode \in {"sensitive", "insensitive"}}
  \cup {Clause(field, op, v, "sensitive") : op \in {"lt", "lte", "gt", "gte"}, v \in values}
  \cup {Clause(field, op, list, "sensitive") : op \in {"in", "not_in"}, list \in SUBSET values}

Node(connector, joins, clauses) == [connector |-> connector, joins |-> joins, clauses |-> clauses]
Asked == {Clause("text", "eq", [n |-> 0, upper |-> FALSE], "sensitive"),
          Clause("count", "gt", [n |-> 0, upper |-> FALSE], "sensitive")}
Single(connectors) == {Node(c, "none", <<x>>) : c \in connectors, x \in Asked}
Grouped(connectors) ==
  {Node(c, joins, clauses) : c \in connectors, joins \in {"and", "or"},
                             clauses \in {<<>>} \cup Asked \X Asked}
Connectors == {"AND", "OR"}
Nodes == Single(Connectors) \cup Grouped(Connectors)

Rows(letters, numbers) == [text : letters, count : numbers]
MCWhereInputs ==
  [row : Rows(Letters \cup {None, absent}, Numbers \cup {None, absent}),
   where : {<<>>} \cup {<<Node("AND", "none", <<x>>)>> :
                          x \in Clauses("text", Letters) \cup Clauses("count", Numbers)}]
  \cup [row : Rows({[n |-> n, upper |-> FALSE] : n \in {0, 1}}, Numbers),
        where : (Nodes \X Nodes)
                \cup (Single({"AND"}) \X Single(Connectors) \X Single(Connectors))]

(* Policies: a tool, what a slice of a plugin may say of it, and a call.                       *)

Text(effect, on, interactive) ==
  [effect |-> effect, on |-> on,
   contexts |-> [confirmed : BOOLEAN,
                 mode : IF interactive THEN {"interactive"} ELSE {"interactive", "autonomous"}]]
Texts == {<<Text(e, on, i)>> : e \in {"permit", "forbid"}, on \in {"t", "writes", "any"}, i \in BOOLEAN}
         \cup {<<Text("permit", "any", FALSE), Text("forbid", "t", FALSE)>>}
Slices == [name : {"s1", "floor:unconfirmed-autonomous-write-forbidden"},
           mode : {"enforce", "shadow", "off"}, cedar : Texts]
ToolCalls == [name : {"t", "unknown"}, principal : {"p", absent},
              mode : {"autonomous", "interactive", absent}]
MCPolicyInputs ==
  [tools : [{"t"} -> {absent, [refused |-> TRUE]}
                       \cup [access : {"read", "write", absent}, groups : {{}, {"reads"}}]],
   slices : {<<>>} \cup {<<s>> : s \in Slices},
   call : ToolCalls]

(* OpenApiTools: operations that differ in their parameters and bodies, in their security, and *)
(* in the addresses of their server, around the bounds of each range.                          *)

Parameter(name, in, required, schema) == [name |-> name, in |-> in, required |-> required, schema |-> schema]
Sequences(set, n) == UNION {[1..k -> set] : k \in 0..n}
Body(required, json, properties, requires) ==
  [required |-> required, json |-> json, properties |-> properties, requires |-> requires]
Bodies == {absent} \cup {Body(r, j, absent, {}) : r \in BOOLEAN, j \in BOOLEAN}
          \cup {Body(r, TRUE, {"a", "c"}, {"c"}) : r \in BOOLEAN}
Operation(name, method, parameters, body, references, security) ==
  [name |-> name, method |-> method, parameters |-> parameters, body |-> body,
   references |-> references, security |-> security]
Document(parameters, operations, security) ==
  [item |-> [parameters |-> parameters], operations |-> operations, security |-> security,
   schemes |-> [key |-> "apiKey header", basic |-> "basic", digest |-> "digest"]]
Target(protocol, insecure, literal, addresses, later) ==
  [protocol |-> protocol, insecure |-> insecure, literal |-> literal, addresses |-> addresses,
   later |-> later]
OpenApiInput(document, material, target) ==
  [document |-> document, material |-> material, target |-> target]

Public == [family |-> 4, groups |-> <<9, 9>>]
Server == Target("https", FALSE, FALSE, <<Public>>, Public)
Parameters == {Parameter("id", "path", FALSE, TRUE), Parameter("id", "query", FALSE, TRUE),
               Parameter("a", "query", TRUE, TRUE), Parameter("a", "query", FALSE, FALSE),
               Parameter("body", "header", FALSE, TRUE), Parameter("sid", "cookie", TRUE, TRUE),
               broken}
Shapes == {OpenApiInput(Document(ps, <<Operation("x", "post", qs, b, "ok", absent),
                                       Operation("x", "get", <<>>, absent, refs, absent)>>, absent),
                        absent, Server) :
             ps \in Sequences(Parameters, 1), qs \in Sequences(Parameters, 2), b \in Bodies,
             refs \in {"ok", "refused"}}
Alternatives == {<<>>, <<"key">>, <<"basic">>, <<"key", "digest">>, <<"digest", "key">>, broken}
Secured == {OpenApiInput(Document(<<>>, <<Operation("x", "put", <<>>, absent, "ok", s)>>, t), m, Server) :
              s \in {absent} \cup Sequences(Alternatives, 2), t \in {absent, <<<<"basic">>>>},
              m \in {absent, "token", "basic", "throws"}}
Firsts == {0, 1, 9, 10, 11, 100, 126, 127, 128, 169, 172, 192, 255}
Seconds == {0, 15, 16, 31, 32, 63, 64, 127, 128, 168, 254, 255}
Addresses ==
  [family : {4}, groups : Firsts \X Seconds]
  \cup {[family |-> 6, groups |-> <<g, 0, 0, 0, 0, f, h, l>>] :
          g \in {0, 64511, 64512, 65023, 65151, 65152, 65215, 65216}, f \in {0, 1, 65535},
          h \in {0, 1, 2304, 2560, 32512, 43518, 49320}, l \in {0, 1, 2}}
  \cup {[family |-> 0, groups |-> <<>>]}
Located == {OpenApiInput(Document(<<>>, <<Operation("x", "get", <<>>, absent, "ok", absent)>>, absent),
                         absent, t) :
              t \in {Target("https", FALSE, TRUE, <<x>>, absent) : x \in Addresses}
                    \cup {Target("https", FALSE, FALSE, <<Public, x>>, y) :
                            x \in Addresses, y \in {absent, [family |-> 4, groups |-> <<10, 1>>]}}
                    \cup {Target("https", FALSE, FALSE, <<Public, x>>, x) : x \in Addresses}
                    \cup {Target("https", FALSE, FALSE, <<>>, Public)}
                    \cup {Target(p, i, FALSE, <<Public>>, Public) : p \in {absent, "http", "ftp"}, i \in BOOLEAN}}
MCOpenApiInputs == Shapes \cup Secured \cup Located
================================================================================
