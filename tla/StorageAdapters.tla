----------------------------- MODULE StorageAdapters -----------------------------
(***************************************************************************)
(* The rows of a model under concurrent calls of the storage port: the     *)
(* validation and the schema that every adapter is wrapped in              *)
(* (entity-adapter.ts, schema-adapter.ts), and below them one of the six   *)
(* ways in which a call reaches the rows: one statement, or several with   *)
(* other calls between them.                                               *)
(*                                                                         *)
(* A row is free until somebody takes it; the stores build their claims,   *)
(* leases and approvals from that.  What a where says is StorageWhere's;   *)
(* here it names the row or not, and a status or not.                      *)
(***************************************************************************)
EXTENDS Naturals, FiniteSets

CONSTANTS
  Id, Call,
  Backends,      \* memory, sqlite (drizzle), returning (postgres, kysely), mysql, prisma, mongodb
  Inputs,        \* what may be called: records of an operation, a where and data
  Stored,        \* the rows that a table may have had before
  Null, Absent,
  MaxTurns       \* bound: how often a row becomes free

\* What the port offers, besides transactions: find stands for findOne, findMany and count.
Operations == {"create", "find", "update", "updateMany", "delete", "deleteMany", "consume"}
Columns == {"status", "holder", "origin", "note"}

StorageAssumption ==
  /\ MaxTurns \in Nat \ {0} /\ Null \notin Call \cup Id \cup Operations \cup {"free"}
  /\ \A row \in Stored : DOMAIN row = Columns
  /\ \A input \in Inputs : /\ input.op \in Operations /\ input.id \in Id \cup {Null}
                           /\ input.op = "create" => input.id \in Id

VARIABLES
  backend,       \* which adapter this is
  table,         \* the rows, or Null
  calls,         \* the calls: where each is, and what it has read
  transaction,   \* memory: the call whose transaction runs, and its copy of the rows
  turns,         \* history: per row, how often it became free
  takers,        \* history: per row, the calls that were told that they took it
  dropped        \* history: the rows of which a write was dropped

vars == <<backend, table, calls, transaction, turns, takers, dropped>>

Nobody == [call |-> Null, base |-> Null, copy |-> Null]
Ready == [pc |-> "ready", op |-> Null, id |-> Null, status |-> Null, data |-> Null,
          found |-> Null, read |-> Null]

TypeOK ==
  /\ backend \in Backends
  /\ \A i \in Id : table[i] = Null \/ DOMAIN table[i] = Columns
  /\ \A c \in Call : calls[c].op \in Operations \cup {Null} /\ calls[c].found \in Id \cup {Null}
  /\ turns \in [Id -> 0..MaxTurns] /\ takers \in [Id -> SUBSET Call] /\ dropped \subseteq Id

Init ==
  /\ backend \in Backends
  /\ table \in [Id -> Stored \cup {Null}] /\ calls = [c \in Call |-> Ready] /\ transaction = Nobody
  /\ turns = [i \in Id |-> IF table[i] # Null /\ table[i].status = "free" THEN 1 ELSE 0]
  /\ takers = [i \in Id |-> {}] /\ dropped = {}

-----------------------------------------------------------------------------
(* The wrappers.  A status is required, a holder is not, the origin is     *)
(* immutable and required, a note is never returned.                       *)

Required == {"status", "origin"}
Immutable == {"origin"}
Returned == Columns \ {"note"}

Valid(record, columns) ==
  \A f \in columns : IF f \in Required THEN record[f] \notin {Null, Absent} ELSE record[f] # Null

CreateData(data) == [f \in Columns |-> IF f \in DOMAIN data THEN data[f] ELSE Absent]

Updatable(patch) == DOMAIN patch \subseteq Columns \ Immutable
Patched(row, patch) == [f \in Columns |-> IF f \in DOMAIN patch THEN patch[f] ELSE row[f]]

\* What comes back of a row: without the columns that are not returned, and without nulls in those
\* that are not required.
Decoded(row) ==
  [f \in Returned |-> IF row[f] = Null /\ f \notin Required THEN Absent ELSE row[f]]

-----------------------------------------------------------------------------
(* Statements.                                                             *)

Rows(c) == IF transaction.call = c THEN transaction.copy ELSE table
Matches(row, c) == row # Null /\ calls[c].status \in {Null, row.status}
Found(c) == {i \in Id : Matches(Rows(c)[i], c) /\ calls[c].id \in {Null, i}}

Count(old, new) ==
  turns' = [i \in Id |-> IF new[i] # Null /\ new[i].status = "free"
                            /\ (old[i] = Null \/ old[i].status # "free")
                           THEN turns[i] + 1 ELSE turns[i]]
Bounded(old, new) ==
  \A i \in Id : (new[i] # Null /\ new[i].status = "free"
                 /\ (old[i] = Null \/ old[i].status # "free")) => turns[i] < MaxTurns

\* The rows become these, in the copy of a transaction or in the table.
Write(c, rows) ==
  /\ Bounded(Rows(c), rows) /\ Count(Rows(c), rows)
  /\ IF transaction.call = c
       THEN transaction' = [transaction EXCEPT !.copy = rows] /\ UNCHANGED table
       ELSE table' = rows /\ UNCHANGED transaction

NoWrite == UNCHANGED <<table, transaction, turns>>

To(c, record) == calls' = [calls EXCEPT ![c] = record]

\* The call ends with a row, which must be a record, or with none.
Takes(c) ==
  /\ calls[c].status = "free"
  /\ \/ calls[c].op = "consume"
     \/ /\ calls[c].op = "update" /\ "status" \in DOMAIN calls[c].data
        /\ calls[c].data["status"] = "taken"

Took(c, i) ==
  takers' = IF Takes(c) THEN [takers EXCEPT ![i] = @ \cup {c}] ELSE takers

Answer(c, i, row) ==
  LET valid == row = Null \/ Valid(Decoded(row), Returned)
      ended == IF transaction.call = c THEN "commit" ELSE "done"
  IN  /\ To(c, [calls[c] EXCEPT !.pc = IF valid THEN ended ELSE "threw", !.found = i,
                               !.read = IF valid /\ row # Null THEN Decoded(row) ELSE Null])
      /\ IF row # Null /\ valid /\ transaction.call # c THEN Took(c, i) ELSE UNCHANGED takers

Nothing(c) == Answer(c, Null, Null) /\ NoWrite

-----------------------------------------------------------------------------
(* Calls.                                                                  *)

Constant == <<backend, dropped>>

Called(input, to) ==
  [pc |-> to, op |-> input.op, id |-> input.id, status |-> input.status, data |-> input.data,
   found |-> Null, read |-> Null]

\* The wrappers refuse a create that is no record, and an update of an immutable column.
Begin(c, input) ==
  LET refused == (input.op = "create" /\ ~Valid(CreateData(input.data), Columns))
                 \/ (input.op \in {"update", "updateMany"} /\ ~Updatable(input.data))
  IN  /\ calls[c].pc = "ready"
      /\ To(c, Called(input, IF refused THEN "threw" ELSE "statement"))
      /\ NoWrite /\ UNCHANGED <<Constant, takers>>

\* The database keeps ids unique; with memory, and mongodb without an index, the caller has to.
Create(c) ==
  /\ calls[c].pc = "statement" /\ calls[c].op = "create"
  /\ LET i == calls[c].id  row == CreateData(calls[c].data) IN
     IF Rows(c)[i] # Null
       THEN /\ backend \notin {"memory", "mongodb"}
            /\ To(c, [calls[c] EXCEPT !.pc = "threw"]) /\ NoWrite /\ UNCHANGED takers
       ELSE Write(c, [Rows(c) EXCEPT ![i] = row]) /\ Answer(c, i, row)
  /\ UNCHANGED Constant

\* All the adapters find one row that the where selects, and most then act upon it by its id.
Read(c) ==
  /\ calls[c].pc = "statement" /\ calls[c].op \in {"find", "update", "delete"}
  /\ calls[c].op = "find" \/ backend \notin {"memory", "mongodb"}
  /\ \/ Found(c) = {} /\ Nothing(c)
     \/ \E i \in Found(c) :
          IF calls[c].op = "find"
            THEN Answer(c, i, Rows(c)[i]) /\ NoWrite
            ELSE To(c, [calls[c] EXCEPT !.pc = "act", !.found = i]) /\ NoWrite /\ UNCHANGED takers
  /\ UNCHANGED Constant

\* Mutant: the update is for the row that was found, whatever has become of it.
Conditional_ById(c, i) == Rows(c)[i] # Null

\* The second statement has the where again, beside the id.
Conditional(c, i) == Matches(Rows(c)[i], c)

\* What an adapter answers: the row as it was written, or, with mysql and prisma, as it is when it
\* is read again; mysql does so though nothing was written.
Act(c) ==
  /\ calls[c].pc = "act"
  /\ LET i == calls[c].found
         row == Rows(c)[i]
         new == IF calls[c].op = "delete" THEN Null ELSE Patched(row, calls[c].data)
         again == To(c, [calls[c] EXCEPT !.pc = "again"]) /\ UNCHANGED takers
     IN  IF ~Conditional(c, i)
           THEN IF calls[c].op = "update" /\ backend = "mysql" THEN again /\ NoWrite ELSE Nothing(c)
           ELSE /\ Write(c, [Rows(c) EXCEPT ![i] = new])
                /\ IF calls[c].op = "update" /\ backend \in {"mysql", "prisma"} THEN again
                   ELSE Answer(c, i, IF calls[c].op = "update" THEN new ELSE Null)
  /\ UNCHANGED Constant

ReadAgain(c) ==
  /\ calls[c].pc = "again"
  /\ Answer(c, calls[c].found, Rows(c)[calls[c].found])
  /\ NoWrite /\ UNCHANGED Constant

Many == {"updateMany", "deleteMany"}

\* One statement: all of memory's and mongodb's calls, and the calls for many rows.
AtOnce(c) ==
  /\ calls[c].pc = "statement"
  /\ calls[c].op \in Many \/ (calls[c].op \in {"update", "delete"}
                                    /\ backend \in {"memory", "mongodb"})
  /\ LET change(s) == [j \in Id |-> IF j \notin s THEN Rows(c)[j]
                                    ELSE IF calls[c].op \in {"delete", "deleteMany"} THEN Null
                                    ELSE Patched(Rows(c)[j], calls[c].data)]
     IN  \/ /\ calls[c].op \in Many
            /\ Write(c, change(Found(c))) /\ Answer(c, Null, Null)
         \/ /\ calls[c].op \notin Many /\ Found(c) = {} /\ Nothing(c)
         \/ /\ calls[c].op \notin Many
            /\ \E i \in Found(c) :
                 /\ Write(c, change({i}))
                 /\ Answer(c, i, IF calls[c].op = "delete" THEN Null ELSE change({i})[i])
  /\ UNCHANGED Constant

\* A row is consumed at once, or found and then deleted if it is still there and still matches: the
\* caller gets the row that was found.
Consume(c) ==
  /\ calls[c].pc = "statement" /\ calls[c].op = "consume"
  /\ \/ Found(c) = {} /\ Nothing(c)
     \/ \E i \in Found(c) :
          IF backend \in {"memory", "mongodb", "sqlite"}
            THEN Write(c, [Rows(c) EXCEPT ![i] = Null]) /\ Answer(c, i, Rows(c)[i])
            ELSE /\ To(c, [calls[c] EXCEPT !.pc = "remove", !.found = i, !.read = Rows(c)[i]])
                 /\ NoWrite /\ UNCHANGED takers
  /\ UNCHANGED Constant

Remove(c) ==
  /\ calls[c].pc = "remove"
  /\ LET i == calls[c].found IN
     IF ~Conditional(c, i)
       THEN Nothing(c)
       ELSE Write(c, [Rows(c) EXCEPT ![i] = Null]) /\ Answer(c, i, calls[c].read)
  /\ UNCHANGED Constant

-----------------------------------------------------------------------------
(* Transactions of the memory adapter: one at a time, each on a copy of    *)
(* the rows, which replaces them when it commits; calls outside of it go   *)
(* on meanwhile.                                                           *)

BeginTransaction(c, input) ==
  /\ backend = "memory" /\ transaction = Nobody /\ calls[c].pc = "ready"
  /\ input.op \in {"create", "update"}
  /\ input.op = "create" => Valid(CreateData(input.data), Columns)
  /\ input.op = "update" => Updatable(input.data)
  /\ To(c, Called(input, "statement"))
  /\ transaction' = [call |-> c, base |-> table, copy |-> table]
  /\ UNCHANGED <<Constant, table, turns, takers>>

\* What was written outside of the transaction since it began is dropped.
Commit(c) ==
  /\ transaction.call = c /\ calls[c].pc = "commit"
  /\ table' = transaction.copy /\ transaction' = Nobody
  /\ dropped' = dropped \cup {i \in Id : table[i] # transaction.base[i]}
  /\ To(c, [calls[c] EXCEPT !.pc = "done"])
  /\ IF calls[c].read # Null THEN Took(c, calls[c].found) ELSE UNCHANGED takers
  /\ UNCHANGED <<backend, turns>>

Rollback(c) ==
  /\ transaction.call = c /\ calls[c].pc = "threw"
  /\ transaction' = Nobody
  /\ UNCHANGED <<Constant, table, calls, turns, takers>>

Next ==
  \E c \in Call :
    \/ \E input \in Inputs : Begin(c, input) \/ BeginTransaction(c, input)
    \/ Create(c) \/ Read(c) \/ Act(c) \/ ReadAgain(c) \/ AtOnce(c) \/ Consume(c) \/ Remove(c)
    \/ Commit(c) \/ Rollback(c)

Spec == Init /\ [][Next]_vars

-----------------------------------------------------------------------------
(* Properties.                                                             *)

\* A row that is free is taken by one caller, however many try: what is answered a row, by an
\* update that takes free rows or by consumeOne, has it to itself (update, consumeOne).  Not so
\* with mysql, where an update that came too late is answered the row as well, nor when a commit of
\* the memory adapter has dropped the write that took it.
OneTaker ==
  \A i \in Id \ dropped : backend # "mysql" => Cardinality(takers[i]) <= turns[i]
================================================================================
