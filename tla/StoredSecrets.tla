----------------------------- MODULE StoredSecrets -----------------------------
(***************************************************************************)
(* The one door to credentials and the store behind it (foundation/secrets *)
(* and plugins/secrets): a chain of providers is asked for a name, those   *)
(* that keep rows before those of the deployment.  The store seals values  *)
(* under a master key, which it asks the same door for, and answers with   *)
(* the row of the caller or else of its organization.                      *)
(*                                                                         *)
(* A row is found and then written: calls interleave between the two, and  *)
(* between the lookups of a resolution.  The deployment may exchange its   *)
(* values, the master key among them, when it restarts, and may fail.      *)
(***************************************************************************)
EXTENDS Naturals, Sequences

CONSTANTS
  Call,          \* calls of the management methods and of the store, and resolutions
  Caller,        \* who asks: [principal, organization], either may be Absent
  Name, Master,  \* names of secrets; Master is the key of the store
  Value,         \* what is saved
  Listed,        \* the providers in the order in which they were given, "store" among them
  Environments,  \* what the others may hold: provider -> name -> a value, Absent, or Down
  MasterKeys,    \* the values that are keys; the store refuses any other
  MaxRows, MaxRestarts, MaxCalls,
  Absent, Down

VARIABLES
  rows,        \* stored_secret, in the order of their ids: a row, or Absent once it is deleted
  environment, \* what the other providers hold
  key,         \* the master key, once it was needed; of this process
  calls,       \* call -> its state
  restarts, began,
  register,    \* (history) boundary and name -> what was saved last and not deleted
  contested    \* (history) boundaries and names that two saved at the same time

vars == <<rows, environment, key, calls, restarts, began, register, contested>>

Personal(by) == IF by.principal = Absent THEN {} ELSE {<<"personal", by.principal>>}
Shared(by) == IF by.organization = Absent THEN {} ELSE {<<"organization", by.organization>>}
Boundary == UNION {Personal(by) \cup Shared(by) : by \in Caller}
SecretKey == Boundary \X Name
Idle == [op |-> "idle"]

\* A row is a boundary's, has a name, and its value sealed under the master key there was.
StoredSecret == [of : SecretKey, value : Value, under : MasterKeys]

\* The store is one of the providers listed; what is written differently here is different.
SecretsAssumption ==
  /\ Listed \in Seq({Listed[i] : i \in DOMAIN Listed})
  /\ \E i \in DOMAIN Listed : \A j \in DOMAIN Listed : Listed[j] = "store" <=> j = i
  /\ \A e \in Environments : DOMAIN e \cap (Boundary \cup {"store"}) = {}
  /\ "nowhere" \notin Boundary /\ Absent \notin Nat \cup StoredSecret

TypeOK ==
  /\ \A id \in DOMAIN rows : rows[id] \in StoredSecret \cup {Absent}
  /\ environment \in Environments
  /\ key \in MasterKeys \cup {Absent}
  /\ \A c \in Call : calls[c].op \in {"idle", "set", "resolve", "threw", "saved", "resolved"}
  /\ register \in [SecretKey -> Value \cup {Absent}] /\ contested \subseteq SecretKey

Init ==
  /\ rows = <<>>
  /\ environment \in Environments
  /\ key = Absent
  /\ calls = [c \in Call |-> Idle]
  /\ restarts = 0 /\ began = 0
  /\ register = [k \in SecretKey |-> Absent]
  /\ contested = {}

-----------------------------------------------------------------------------
(* The door.                                                               *)

\* The providers that keep rows come first, each kind in the order in which they were given: the
\* store is moved to the front.
Chain ==
  LET place == CHOOSE i \in DOMAIN Listed : Listed[i] = "store"
  IN  <<"store">> \o SubSeq(Listed, 1, place - 1) \o SubSeq(Listed, place + 1, Len(Listed))

\* The store says that it has no master key: a key cannot come from the rows that it seals.
MasterNow ==
  LET holders == {i \in DOMAIN Chain : Chain[i] # "store" /\ environment[Chain[i]][Master] # Absent}
  IN  CASE key # Absent -> key
        [] key = Absent /\ holders = {} -> Absent
        [] OTHER -> environment[Chain[CHOOSE i \in holders : \A j \in holders : i <= j]][Master]

-----------------------------------------------------------------------------
(* The steps of a call.                                                    *)

\* A resolution may be answered with what a key held at any time since it began.
Witnessed(states, new) ==
  [c \in Call |->
     IF states[c].op # "resolve" THEN states[c]
     ELSE [states[c] EXCEPT !.held = [k \in SecretKey |-> @[k] \cup {new[k]}]]]

Goes(c, state, new) ==
  /\ calls' = Witnessed([calls EXCEPT ![c] = state], new)
  /\ register' = new

Begins(c) ==
  /\ calls[c].op \notin {"set", "resolve"} /\ began < MaxCalls
  /\ began' = began + 1

Threw == [op |-> "threw"]

\* A value is sealed before anything is read; that asks for the master key, and throws without it.
Set(c, k, value) ==
  /\ Begins(c)
  /\ IF MasterNow \in MasterKeys
       THEN /\ key' = MasterNow
            /\ Goes(c, [op |-> "set", pc |-> "find", key |-> k, value |-> value], register)
            /\ contested' = contested \cup
                 {x \in {k} : \E d \in Call : calls[d].op = "set" /\ calls[d].key = x}
       ELSE Goes(c, Threw, register) /\ UNCHANGED <<key, contested>>
  /\ UNCHANGED <<rows, environment, restarts>>

\* Mutant: whoever saved it.
Found_AnyOwner(k) == {id \in DOMAIN rows : rows[id] # Absent /\ rows[id].of[2] = k[2]}

Found(k) == {id \in DOMAIN rows : rows[id] # Absent /\ rows[id].of = k}

\* Which row is found is up to the database, when there are several.
Find(c) ==
  /\ calls[c].op = "set" /\ calls[c].pc = "find"
  /\ \E id \in IF Found(calls[c].key) = {} THEN {Absent} ELSE Found(calls[c].key) :
       Goes(c, [op |-> "set", pc |-> "write", key |-> calls[c].key, value |-> calls[c].value,
                id |-> id], register)
  /\ UNCHANGED <<rows, environment, key, restarts, began, contested>>

\* The row that was found gets the value, unless it was deleted meanwhile.
Rotate(c) ==
  LET call == calls[c] IN
  /\ call.op = "set" /\ call.pc = "write" /\ call.id # Absent
  /\ IF rows[call.id] = Absent
       THEN Goes(c, Threw, register) /\ UNCHANGED rows
       ELSE /\ rows' = [rows EXCEPT ![call.id].value = call.value, ![call.id].under = key]
            /\ Goes(c, [op |-> "saved"], [register EXCEPT ![call.key] = call.value])
  /\ UNCHANGED <<environment, key, restarts, began, contested>>

Create(c) ==
  LET call == calls[c] IN
  /\ call.op = "set" /\ call.pc = "write" /\ call.id = Absent /\ Len(rows) < MaxRows
  /\ rows' = Append(rows, [of |-> call.key, value |-> call.value, under |-> key])
  /\ Goes(c, [op |-> "saved"], [register EXCEPT ![call.key] = call.value])
  /\ UNCHANGED <<environment, key, restarts, began, contested>>

\* It is no error that there is nothing.  Of several rows one goes.
Delete(c, k) ==
  /\ Begins(c)
  /\ IF Found(k) = {} THEN UNCHANGED rows ELSE \E id \in Found(k) : rows' = [rows EXCEPT ![id] = Absent]
  /\ Goes(c, [op |-> "saved"], [register EXCEPT ![k] = Absent])
  /\ UNCHANGED <<environment, key, restarts, contested>>

Resolve(c, by, name) ==
  /\ Begins(c)
  /\ Goes(c, [op |-> "resolve", by |-> by, name |-> name, at |-> 1,
              rungs |-> <<Personal(by), Shared(by)>>, held |-> [k \in SecretKey |-> {}]], register)
  /\ UNCHANGED <<rows, environment, key, restarts, contested>>

Answered(call, value, from) ==
  [op |-> "resolved", by |-> call.by, name |-> call.name, held |-> call.held,
   value |-> value, from |-> from]

Asks(c, provider) ==
  calls[c].op = "resolve" /\ calls[c].at <= Len(Chain) /\ Chain[calls[c].at] = provider

\* One lookup for each boundary of the caller, the nearest first.
LookUp(c) ==
  LET call == calls[c]
      sealed(b) == Found(<<b, call.name>>)
  IN
  /\ Asks(c, "store") /\ call.rungs # <<>> /\ call.name # Master
  /\ IF \A b \in Head(call.rungs) : sealed(b) = {}
       THEN Goes(c, [call EXCEPT !.rungs = Tail(@)], register) /\ UNCHANGED key
       ELSE \E b \in Head(call.rungs) : \E id \in sealed(b) :
              IF MasterNow \in MasterKeys
              THEN /\ key' = MasterNow
                   /\ Goes(c, IF rows[id].under = MasterNow
                              THEN Answered(call, rows[id].value, b) ELSE Threw, register)
              ELSE Goes(c, Threw, register) /\ UNCHANGED key
  /\ UNCHANGED <<rows, environment, restarts, began, contested>>

\* The next provider: the store has no row, or has nothing to say of its own key.
Miss(c) ==
  LET call == calls[c] IN
  /\ \/ Asks(c, "store") /\ (call.rungs = <<>> \/ call.name = Master)
     \/ \E p \in DOMAIN environment : Asks(c, p) /\ environment[p][call.name] = Absent
  /\ Goes(c, [call EXCEPT !.at = @ + 1], register)
  /\ UNCHANGED <<rows, environment, key, restarts, began, contested>>

\* A provider that fails is not one that has nothing.
Deployment(c) ==
  LET call == calls[c] IN
  /\ \E p \in DOMAIN environment :
       /\ Asks(c, p) /\ environment[p][call.name] # Absent
       /\ Goes(c, IF environment[p][call.name] = Down THEN Threw
                  ELSE Answered(call, environment[p][call.name], p), register)
  /\ UNCHANGED <<rows, environment, key, restarts, began, contested>>

Nowhere(c) ==
  /\ calls[c].op = "resolve" /\ calls[c].at > Len(Chain)
  /\ Goes(c, Answered(calls[c], Absent, "nowhere"), register)
  /\ UNCHANGED <<rows, environment, key, restarts, began, contested>>

Restart ==
  /\ restarts < MaxRestarts /\ restarts' = restarts + 1
  /\ environment' \in Environments
  /\ key' = Absent /\ calls' = [c \in Call |-> Idle]
  /\ UNCHANGED <<rows, began, register, contested>>

Next ==
  \/ \E c \in Call :
       \/ \E k \in SecretKey : Delete(c, k) \/ \E v \in Value : Set(c, k, v)
       \/ Find(c) \/ Rotate(c) \/ Create(c)
       \/ \E by \in Caller, n \in Name \cup {Master} : Resolve(c, by, n)
       \/ LookUp(c) \/ Miss(c) \/ Deployment(c) \/ Nowhere(c)
  \/ Restart

Spec == Init /\ [][Next]_vars

-----------------------------------------------------------------------------
(* Properties.                                                             *)

\* A credential is the caller's own: what is resolved is what its key held at some time since it was
\* asked for, so neither a value that was rotated or deleted before nor one of another's; and a
\* wider boundary, the deployment or nothing answers only if the nearer ones held nothing then, not
\* even a value that cannot be read.  The exception are keys that two saved at once, which may have
\* two rows (buildSecrets, the store's provider).
ResolvesToTheNearest ==
  \A c \in Call :
    LET call == calls[c]
        uncontested(b) == <<b, call.name>> \notin contested
        empty(boundaries) == \A b \in boundaries : uncontested(b) => Absent \in call.held[<<b, call.name>>]
    IN  (call.op = "resolved" /\ call.name # Master) =>
          IF call.from \in Boundary
          THEN /\ call.from \in Personal(call.by) \cup Shared(call.by)
               /\ uncontested(call.from) => call.value \in call.held[<<call.from, call.name>>]
               /\ call.from \in Shared(call.by) => empty(Personal(call.by))
          ELSE empty(Personal(call.by)) /\ empty(Shared(call.by))
================================================================================
