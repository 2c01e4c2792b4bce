------------------------------ MODULE StorageWhere ------------------------------
(***************************************************************************)
(* What a where means (storage.ts): a list of clauses and of groups of     *)
(* clauses, joined from left to right, and what the five adapters make of  *)
(* it: memory evaluates it, drizzle and kysely write SQL, prisma and       *)
(* mongodb a filter of theirs.  The stores are written once and run on any *)
(* of them, over any database that the adapter takes.                      *)
(*                                                                         *)
(* A text is one letter, lower case or upper; a number has no case.  A     *)
(* column that a row does not have is Absent; SQL keeps Null for it.  The  *)
(* databases compare text as they do by default.  Groups are not nested    *)
(* here: every adapter translates a nested one by the same function.       *)
(***************************************************************************)
EXTENDS Naturals, Sequences, FiniteSets

CONSTANTS
  Null, Absent,
  Numeric       \* the columns that hold numbers

-----------------------------------------------------------------------------
(* What a value is compared by.                                            *)

Values == [n : Nat, upper : BOOLEAN]
Plain(v) == v \notin {Null, Absent}

WhereAssumption == Null # Absent /\ Null \notin Values /\ Absent \notin Values

Orders == {"lt", "lte", "gt", "gte"}

\* By code unit, every upper case letter is before the lower case ones; a locale has the letters in
\* their order, lower case first; and a collation may ignore the case.
Before(v, w, collation) ==
  CASE collation = "code" -> (v.upper /\ ~w.upper) \/ (v.upper = w.upper /\ v.n < w.n)
    [] collation = "locale" -> v.n < w.n \/ (v.n = w.n /\ ~v.upper /\ w.upper)
    [] collation = "no case" -> v.n < w.n

Compare(op, v, w, collation) ==
  CASE op = "lt" -> Before(v, w, collation)
    [] op = "lte" -> ~Before(w, v, collation)
    [] op = "gt" -> Before(w, v, collation)
    [] op = "gte" -> ~Before(v, w, collation)

Same(v, w, mode) == v.n = w.n /\ (mode = "insensitive" \/ v.upper = w.upper)

\* How a database compares text: its order, whether = ignores the case, and whether LIKE does.
Collation(database) ==
  CASE database = "sqlite" -> "code" [] database = "postgres" -> "locale" [] database = "mysql" -> "no case"
Equal(v, w, mode, database) == Same(v, w, IF database = "mysql" THEN "insensitive" ELSE mode)
FoldsLike(database) == database \in {"sqlite", "mysql"}

\* A pattern is a letter that the column holds, and nothing else.
Like(v, clause, folds) == Same(v, clause.value, IF folds THEN "insensitive" ELSE clause.mode)

-----------------------------------------------------------------------------
(* One clause of a where and a column, by adapter: it holds, it does not,  *)
(* or the call throws.                                                     *)

Zero == [n |-> 0, upper |-> FALSE]

\* JavaScript compares: null counts as zero beside a number and as nothing beside a string.
MemoryHolds(v, clause) ==
  LET op == clause.op  w == clause.value
  IN  CASE op = "eq" -> IF Plain(v) /\ Plain(w) THEN Same(v, w, clause.mode) ELSE v = w
        [] op = "ne" -> IF Plain(v) /\ Plain(w) THEN ~Same(v, w, clause.mode) ELSE v # w
        [] op = "in" -> v \in w
        [] op = "not_in" -> v \notin w
        [] op = "contains" -> Plain(v) /\ w # Null /\ Like(v, clause, FALSE)
        [] op \in Orders ->
             LET number(x) == IF x = Null THEN Zero ELSE x
             IN  v # Absent /\ (clause.field \in Numeric \/ (Plain(v) /\ Plain(w)))
                 /\ Compare(op, number(v), number(w), "code")

\* A comparison with null is unknown, which is not true; lists that are empty are constants.
SqlHolds(column, clause, database) ==
  LET op == clause.op  w == clause.value
      listed == \E x \in w : Equal(column, x, "sensitive", database)
  IN  IF w = Null THEN IF op = "eq" THEN column = Null ELSE op = "ne" /\ column # Null
      ELSE IF op = "not_in" THEN w = {} \/ (column # Null /\ ~listed)
      ELSE column # Null /\
      CASE op = "eq" -> Equal(column, w, clause.mode, database)
        [] op = "ne" -> ~Equal(column, w, clause.mode, database)
        [] op = "in" -> listed
        [] op = "contains" -> Like(column, clause, FoldsLike(database))
        [] op \in Orders -> Compare(op, column, w, Collation(database))

\* A filter for null finds what has no value; one that denies a value finds it too.
MongoHolds(v, clause) ==
  LET op == clause.op  w == clause.value
  IN  IF w = Null THEN IF op = "eq" THEN ~Plain(v)
                       ELSE IF op = "ne" THEN Plain(v) ELSE op \in {"lte", "gte"} /\ ~Plain(v)
      ELSE IF op = "ne" THEN ~Plain(v) \/ ~Same(v, w, clause.mode)
      ELSE IF op = "not_in" THEN v \notin w
      ELSE Plain(v) /\
      CASE op = "eq" -> Same(v, w, clause.mode)
        [] op = "in" -> v \in w
        [] op = "contains" -> Like(v, clause, FALSE)
        [] op \in Orders -> Compare(op, v, w, "code")

\* drizzle and kysely write the same SQL; prisma writes it itself.
DrizzleHolds(column, clause, database) == SqlHolds(column, clause, database)
KyselyHolds(column, clause, database) == SqlHolds(column, clause, database)
PrismaHolds(column, clause, database) == SqlHolds(column, clause, database)

\* kysely refuses mysql.
Adapters ==
  {<<"memory", "memory">>, <<"mongodb", "mongodb">>}
  \cup ({"drizzle", "kysely", "prisma"} \X {"sqlite", "postgres"})
  \cup ({"drizzle", "prisma"} \X {"mysql"})

Holds(adapter, row, clause) ==
  LET v == row[clause.field]
      column == IF v = Absent THEN Null ELSE v
  IN  CASE adapter[1] = "memory" -> MemoryHolds(v, clause)
        [] adapter[1] = "drizzle" -> DrizzleHolds(column, clause, adapter[2])
        [] adapter[1] = "kysely" -> KyselyHolds(column, clause, adapter[2])
        [] adapter[1] = "prisma" -> PrismaHolds(column, clause, adapter[2])
        [] adapter[1] = "mongodb" -> MongoHolds(v, clause)

\* SQL cannot compare null, and prisma knows the mode on postgres only.
Throws(adapter, clause) ==
  \/ clause.value = Null /\ adapter[1] \in {"drizzle", "kysely"} /\ clause.op \notin {"eq", "ne"}
  \/ /\ adapter[1] = "prisma" /\ adapter[2] # "postgres"
     /\ clause.mode = "insensitive" /\ clause.field \notin Numeric /\ clause.value # Null

-----------------------------------------------------------------------------
(* A where.                                                                *)

Group(node) == node.joins # "none"

Member(adapter, row, node) ==
  CASE node.joins = "and" -> \A i \in DOMAIN node.clauses : Holds(adapter, row, node.clauses[i])
    [] node.joins = "or" -> \E i \in DOMAIN node.clauses : Holds(adapter, row, node.clauses[i])
    [] OTHER -> Holds(adapter, row, node.clauses[1])

\* An empty group is the caller's mistake.
Fails(adapter, where) ==
  \E i \in DOMAIN where : (Group(where[i]) /\ where[i].clauses = <<>>)
                          \/ \E j \in DOMAIN where[i].clauses : Throws(adapter, where[i].clauses[j])

\* Mutant: alternatives bind weaker than what is joined by and.
Selects_Precedence(adapter, row, where) ==
  LET starts == {1} \cup {i \in DOMAIN where : where[i].connector = "OR"}
  IN  \/ where = <<>>
      \/ \E i \in starts : \A j \in i..Len(where) :
           (\A k \in (i + 1)..j : k \notin starts) => Member(adapter, row, where[j])

\* Node by node, each joined to all that came before it.
Selects(adapter, row, where) ==
  LET fold[i \in 0..Len(where)] ==
        IF i = 0 THEN TRUE
        ELSE IF i = 1 THEN Member(adapter, row, where[1])
        ELSE IF where[i].connector = "OR"
          THEN fold[i - 1] \/ Member(adapter, row, where[i])
          ELSE fold[i - 1] /\ Member(adapter, row, where[i])
  IN  fold[Len(where)]

\* A list is asked for with in and not_in, and one value, or null, with the others; the mode is of
\* equality and of patterns.
IsClause(clause) ==
  /\ clause.op \in {"eq", "ne", "in", "not_in", "contains"} \cup Orders
  /\ clause.value \in IF clause.op \in {"in", "not_in"} THEN (SUBSET Values) \ {Null} ELSE Values \cup {Null}
  /\ clause.mode \in {"sensitive", "insensitive"}
  /\ clause.mode = "insensitive" => clause.op \in {"eq", "ne", "contains"}

IsNode(node) ==
  /\ node.joins \in {"none", "and", "or"}
  /\ node.joins = "none" => DOMAIN node.clauses = {1}
  /\ \A i \in DOMAIN node.clauses : IsClause(node.clauses[i])

\* A where, and a row that has, or has not, the columns it names.
IsGiven(given) ==
  LET where == given.where IN
  /\ where \in Seq({where[i] : i \in DOMAIN where})
  /\ \A i \in DOMAIN where :
       /\ IsNode(where[i])
       /\ \A j \in DOMAIN where[i].clauses :
            given.row[where[i].clauses[j].field] \in Values \cup {Null, Absent}

-----------------------------------------------------------------------------
(* What a where is meant to select, whatever the adapter.                  *)

\* What is asked of a column that has a value is asked of the value; only eq finds null, and only
\* ne does not.
Meant(row, clause) ==
  LET op == clause.op  v == row[clause.field]  w == clause.value
  IN  CASE op = "eq" -> IF w = Null THEN ~Plain(v) ELSE Plain(v) /\ Same(v, w, clause.mode)
        [] op = "ne" -> IF w = Null THEN Plain(v) ELSE Plain(v) /\ ~Same(v, w, clause.mode)
        [] op = "in" -> \E x \in w : v = x
        [] op = "not_in" -> w = {} \/ (Plain(v) /\ \A x \in w : v # x)
        [] op = "contains" -> Plain(v) /\ Like(v, clause, FALSE)
        [] op \in Orders -> Plain(v) /\ Compare(op, v, w, "code")

MeantNode(row, node) ==
  IF node.joins = "or" THEN \E i \in DOMAIN node.clauses : Meant(row, node.clauses[i])
                       ELSE \A i \in DOMAIN node.clauses : Meant(row, node.clauses[i])

\* Joined from left to right: a node that begins, or is an alternative to what came before it, and
\* holds, and after it everything that is joined by and.
MeantWhere(row, where) ==
  \/ where = <<>>
  \/ \E i \in DOMAIN where :
       /\ i = 1 \/ where[i].connector = "OR"
       /\ MeantNode(row, where[i])
       /\ \A j \in (i + 1)..Len(where) : where[j].connector = "OR" \/ MeantNode(row, where[j])

\* What a database makes of text that differs in its case, by its default collation.
Folded(database) ==
  CASE database = "sqlite" -> {"contains"}
    [] database = "postgres" -> Orders
    [] database = "mysql" -> {"eq", "ne", "in", "not_in", "contains"} \cup Orders
    [] OTHER -> {}

Asked(clause) == IF clause.op \in {"in", "not_in"} THEN clause.value ELSE {clause.value}

CaseDecides(v, clause) ==
  Plain(v) /\ clause.mode = "sensitive" /\ \E w \in Asked(clause) : Plain(w) /\ v.upper # w.upper

\* A clause that the adapters do not agree about: to find null where a column is absent, to deny a
\* value of a column without one, to order numbers beside null, and to tell two letters apart by
\* their case, or to order them, where the database does it by its collation.
Unclear(adapter, row, clause) ==
  LET v == row[clause.field]
  IN  \/ adapter[1] = "memory" /\ v = Absent /\ clause.op \in {"eq", "ne"} /\ clause.value = Null
      \/ adapter[1] \in {"memory", "mongodb"} /\ ~Plain(v) /\ clause.op \in {"ne", "not_in"}
      \/ adapter[1] = "memory" /\ v = Null /\ clause.op \in Orders /\ clause.field \in Numeric
      \/ clause.op \in Folded(adapter[2]) /\ CaseDecides(v, clause)
      \/ clause.value = Null /\ clause.op \notin {"eq", "ne"}

\* A where selects the same rows on every adapter and database, the ones it is meant to: but for
\* those clauses a store decides the same whatever it runs on (matchWhere, whereClause, whereExpr,
\* toWhere, toFilter).
StoresSelectAlike(given) ==
  \A adapter \in Adapters :
    LET unclear == \E i \in DOMAIN given.where : \E j \in DOMAIN given.where[i].clauses :
                     Unclear(adapter, given.row, given.where[i].clauses[j])
    IN  (~unclear /\ ~Fails(adapter, given.where)) =>
          (Selects(adapter, given.row, given.where) = MeantWhere(given.row, given.where))
================================================================================
