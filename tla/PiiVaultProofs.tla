----------------------------- MODULE PiiVaultProofs -----------------------------
(***************************************************************************)
(* Theorems about PiiVault, for every number of walks, erasures, values,   *)
(* placeholders, containers and subjects.                                  *)
(***************************************************************************)
EXTENDS PiiVault, TLAPS

(* Types, and that every token in use was drawn.                           *)

SpanRecord == [value : Value \cup {None}, cont : Container \cup {None},
               place : Place \cup {None}, subjects : SUBSET Subject,
               left : SUBSET Subject, subject : Subject \cup {None}]
EraseRecord == [token : Token \cup {None}, todo : SUBSET Token, due : SUBSET Token]

Shapes ==
  /\ config \in Setup
  /\ mapping \subseteq Mapping /\ junction \subseteq Link
  /\ pc \in [Walk -> {"idle", "lookup", "mint"} \cup Holding]
  /\ span \in [Walk -> SpanRecord]
  /\ epc \in [Erasure -> {"idle", "mapping", "links"}]
  /\ erase \in [Erasure -> EraseRecord]
  /\ spans \in 0..config.maxSpans /\ erasures \in 0..config.maxErasures
  /\ drawn \subseteq Token /\ issued \subseteq Text
  /\ contested \subseteq drawn /\ erased \subseteq drawn

SpanOK(w) ==
  /\ pc[w] # "idle" => span[w].value \in Value /\ span[w].cont \in Container
  /\ pc[w] \in Holding => TokenOf(w) \in drawn
  /\ pc[w] \in {"lookup", "mint", "save", "update", "create"} =>
       span[w].left = span[w].subjects
  /\ pc[w] \in {"find", "link"} => span[w].left # {}
  /\ pc[w] = "link" => span[w].subject \in span[w].left
  /\ span[w].left \subseteq span[w].subjects

EraseOK(e) ==
  /\ erase[e].todo \subseteq drawn /\ erase[e].due \subseteq drawn
  /\ epc[e] = "links" => erase[e].token \in erase[e].todo

RowsDrawn ==
  /\ \A m \in mapping : m.token \in drawn
  /\ \A l \in junction : l.token \in drawn
  /\ \A t \in issued : t.token \in drawn

Typed ==
  Shapes /\ RowsDrawn /\ (\A w \in Walk : SpanOK(w)) /\ \A e \in Erasure : EraseOK(e)

LEMMA TypedIsTypeOK == Typed => TypeOK
BY DEF Typed, Shapes, SpanOK, EraseOK, SpanRecord, EraseRecord, TypeOK

LEMMA TypedInit == Init => Typed
<1>. SUFFICES ASSUME Init PROVE Typed
  OBVIOUS
<1>1. config.maxSpans \in Nat /\ config.maxErasures \in Nat
  BY VaultAssumption DEF Init, Settings
<1>. QED BY <1>1 DEF Init, Typed, Shapes, RowsDrawn, SpanOK, EraseOK, NoSpan, NewSpan, NoErase,
                     NewErase, SpanRecord, EraseRecord, Holding

\* What a step of walk w does, but for the rows: it returns its text, ends without it, or
\* goes on with a span of its own.
Mine(w) ==
  /\ \A v \in Walk \ {w} : pc'[v] = pc[v] /\ span'[v] = span[v]
  /\ UNCHANGED <<config, epc, erase, erasures, contested, erased>>

Returns(w, token) ==
  /\ pc'[w] = "idle" /\ span'[w] = NoSpan
  /\ issued' = issued \cup
       {[token |-> token, value |-> span[w].value, subjects |-> span[w].subjects]}

LinksOn(w, left) ==
  \/ left = {} /\ Returns(w, TokenOf(w))
  \/ /\ left # {} /\ pc'[w] = "find" /\ issued' = issued
     /\ span'[w] = [span[w] EXCEPT !.left = left]

LEMMA ReturnIs ==
  ASSUME Typed, NEW w \in Walk, NEW token, Return(w, token)
  PROVE  /\ Returns(w, token)
         /\ pc' \in [Walk -> {"idle", "lookup", "mint"} \cup Holding]
         /\ span' \in [Walk -> SpanRecord]
         /\ \A v \in Walk \ {w} : pc'[v] = pc[v] /\ span'[v] = span[v]
BY DEF Return, Returns, Goto, Typed, Shapes, NoSpan, NewSpan, SpanRecord

LEMMA NextLinkIs ==
  ASSUME Typed, NEW w \in Walk, NEW left \in SUBSET Subject, NextLink(w, left)
  PROVE  /\ LinksOn(w, left)
         /\ pc' \in [Walk -> {"idle", "lookup", "mint"} \cup Holding]
         /\ span' \in [Walk -> SpanRecord]
         /\ \A v \in Walk \ {w} : pc'[v] = pc[v] /\ span'[v] = span[v]
<1>1. CASE left = {}
  BY <1>1, ReturnIs DEF NextLink, Ends, LinksOn
<1>2. CASE left # {}
  BY <1>2, SMTT(30) DEF NextLink, Ends, LinksOn, Goto, Typed, Shapes, SpanRecord, Holding
<1>. QED BY <1>1, <1>2

\* The span of w stays, with another next statement.
Goes(w, labels) ==
  pc[w] # "idle" /\ pc'[w] \in labels /\ span'[w] = span[w] /\ issued' = issued

\* The steps of a walk.
Detects(w) ==
  /\ UNCHANGED <<tables, drawn, issued>>
  /\ \E value \in Value, cont \in Container, subjects \in SUBSET Subject :
       /\ pc'[w] \in {"lookup", "mint"}
       /\ span'[w] = NewSpan(value, cont, subjects)
Misses(w) == UNCHANGED <<tables, drawn>> /\ pc[w] = "lookup" /\ Goes(w, {"mint"})
Finds(w) ==
  /\ UNCHANGED <<tables, drawn>> /\ pc[w] = "lookup"
  /\ \E m \in mapping :
       /\ m.value = span[w].value /\ m.token.cont = span[w].cont
       /\ \/ span[w].subjects = {} /\ Returns(w, m.token)
          \/ /\ pc'[w] = "save" /\ issued' = issued
             /\ span'[w] = [span[w] EXCEPT !.place = m.token.place]
Mints(w) ==
  /\ UNCHANGED <<tables, issued>> /\ pc[w] = "mint"
  /\ \E token \in Token :
       /\ token \notin drawn /\ drawn' = drawn \cup {token}
       /\ token.cont = span[w].cont /\ pc'[w] = "save"
       /\ span'[w] = [span[w] EXCEPT !.place = token.place]
Saves(w) ==
  /\ UNCHANGED <<tables, drawn>> /\ pc[w] = "save"
  /\ \/ Resolves(TokenOf(w)) /\ Goes(w, {"update"})
     \/ ~ Resolves(TokenOf(w)) /\ Goes(w, {"create"})
RowOf(w) == [token |-> TokenOf(w), value |-> span[w].value]
Writes(w) ==
  /\ UNCHANGED <<junction, drawn>>
  /\ \/ /\ pc[w] = "update"
        /\ mapping' = {IF m.token = TokenOf(w) THEN RowOf(w) ELSE m : m \in mapping}
     \/ pc[w] = "create" /\ mapping' = mapping \cup {RowOf(w)}
  /\ LinksOn(w, span[w].left)
Reads(w) ==
  /\ UNCHANGED <<tables, drawn>> /\ pc[w] = "find"
  /\ \E s \in span[w].left :
       \/ /\ [token |-> TokenOf(w), subject |-> s] \in junction
          /\ LinksOn(w, span[w].left \ {s})
       \/ /\ pc'[w] = "link" /\ issued' = issued
          /\ span'[w] = [span[w] EXCEPT !.subject = s]
Links(w) ==
  /\ UNCHANGED <<mapping, drawn>> /\ pc[w] = "link"
  /\ junction' = junction \cup {[token |-> TokenOf(w), subject |-> span[w].subject]}
  /\ LinksOn(w, span[w].left \ {span[w].subject})
Fails(w) ==
  UNCHANGED <<tables, drawn, issued>> /\ pc'[w] = "idle" /\ span'[w] = NoSpan

WalkMoves(w) ==
  /\ Mine(w)
  /\ \/ Detects(w) \/ Misses(w) \/ Finds(w) \/ Mints(w) \/ Saves(w) \/ Writes(w)
     \/ Reads(w) \/ Links(w) \/ Fails(w)

WalkShapes ==
  /\ pc' \in [Walk -> {"idle", "lookup", "mint"} \cup Holding]
  /\ span' \in [Walk -> SpanRecord]
  /\ spans' \in 0..config.maxSpans

LEMMA WalkStep ==
  ASSUME Typed, NEW w \in Walk, Redact(w)
  PROVE  WalkMoves(w) /\ WalkShapes
<1>0. /\ span[w] \in SpanRecord /\ span[w].left \in SUBSET Subject /\ spans \in 0..config.maxSpans
      /\ config \in Setup /\ config.maxSpans \in Nat /\ SpanOK(w)
      /\ config.values \subseteq Value /\ config.conts \subseteq Container
  BY VaultAssumption DEF Typed, Shapes, SpanRecord, Settings
<1>1. ASSUME NEW value \in config.values, NEW cont \in config.conts,
             NEW subjects \in SUBSET Subject, Detect(w, value, cont, subjects)
      PROVE  WalkMoves(w) /\ WalkShapes
  <2>1. NewSpan(value, cont, subjects) \in SpanRecord /\ value \in Value /\ cont \in Container
    BY <1>0 DEF NewSpan, SpanRecord
  <2>2. /\ pc' = [pc EXCEPT ![w] = IF config.keyed THEN "lookup" ELSE "mint"]
        /\ span' = [span EXCEPT ![w] = NewSpan(value, cont, subjects)]
        /\ spans' \in 0..config.maxSpans
    BY <1>0, <1>1 DEF Detect, Goto
  <2>3. Detects(w) /\ Mine(w)
    BY <1>1, <2>1, <2>2 DEF Detect, Detects, Mine, Typed, Shapes, tables, eraseVars, history
  <2>. QED BY <2>1, <2>2, <2>3 DEF WalkMoves, WalkShapes, Typed, Shapes
<1>2. CASE Lookup(w)
  <2>. DEFINE known == {m \in mapping : m.value = span[w].value /\ m.token.cont = span[w].cont}
  <2>1. CASE known = {} /\ Goto(w, "mint") /\ UNCHANGED <<span, issued>>
    BY <1>0, <1>2, <2>1 DEF Lookup, Goto, Misses, Goes, Mine, WalkMoves, WalkShapes, Typed, Shapes,
                     tables, eraseVars
  <2>2. ASSUME NEW m \in known, ToLink(w) = {}, Return(w, m.token)
        PROVE  WalkMoves(w) /\ WalkShapes
    BY <1>0, <1>2, <2>2, ReturnIs DEF Lookup, ToLink, Finds, Mine, WalkMoves, WalkShapes, Typed,
                     Shapes, tables, eraseVars
  <2>3. ASSUME NEW m \in known, span' = [span EXCEPT ![w].place = m.token.place],
               Goto(w, "save"), issued' = issued
        PROVE  WalkMoves(w) /\ WalkShapes
    <3>1. m.token.place \in Place
      BY <2>3 DEF Typed, Shapes, Mapping, Token
    <3>2. Finds(w)
      BY <1>0, <1>2, <2>3 DEF Lookup, Goto, Finds, Typed, Shapes, SpanRecord, tables
    <3>3. Mine(w)
      BY <1>2, <2>3 DEF Lookup, Goto, Mine, Typed, Shapes, tables, eraseVars
    <3>4. WalkShapes
      BY <1>0, <1>2, <2>3, <3>1 DEF Lookup, Goto, WalkShapes, Typed, Shapes, SpanRecord, Holding
    <3>. QED BY <3>2, <3>3, <3>4 DEF WalkMoves
  <2>. QED BY <1>2, <2>1, <2>2, <2>3 DEF Lookup
<1>3. ASSUME NEW place \in Place, Mint(w, place) PROVE WalkMoves(w) /\ WalkShapes
  <2>. DEFINE token == [place |-> place, cont |-> span[w].cont]
  <2>1. token \in Token /\ token \notin drawn /\ token.cont = span[w].cont /\ token.place = place
    BY <1>0, <1>3 DEF Mint, Drawable, Unused, Token, SpanOK
  <2>2. Mints(w)
    BY <1>0, <1>3, <2>1 DEF Mint, Goto, Mints, Typed, Shapes, SpanRecord, tables
  <2>3. Mine(w)
    BY <1>3 DEF Mint, Goto, Mine, Typed, Shapes, tables, eraseVars
  <2>4. WalkShapes
    BY <1>0, <1>3 DEF Mint, Goto, WalkShapes, Typed, Shapes, SpanRecord, Holding
  <2>. QED BY <2>2, <2>3, <2>4 DEF WalkMoves
<1>4. CASE SaveRead(w)
  BY <1>0, <1>4 DEF SaveRead, SameRow, Resolves, Goto, Saves, Goes, Mine, WalkMoves, WalkShapes,
              Typed, Shapes, Holding, tables, eraseVars, history
<1>5. CASE SaveWrite(w)
  <2>1. NextLink(w, span[w].left)
    BY <1>5 DEF SaveWrite
  <2>2. LinksOn(w, span[w].left)
    BY <1>0, <2>1, NextLinkIs
  <2>3. Writes(w)
    BY <1>5, <2>2 DEF SaveWrite, Writes, SameRow, RowOf
  <2>. QED BY <1>0, <1>5, <2>1, <2>3, NextLinkIs DEF SaveWrite, Mine, WalkMoves, WalkShapes, eraseVars
<1>6. ASSUME NEW s \in Subject, LinkRead(w, s) PROVE WalkMoves(w) /\ WalkShapes
  <2>1. CASE NextLink(w, span[w].left \ {s}) /\
             \E l \in junction : SameRow(l, TokenOf(w)) /\ l.subject = s
    <3>1. LinksOn(w, span[w].left \ {s})
      BY <1>0, <2>1, NextLinkIs
    <3>2. [token |-> TokenOf(w), subject |-> s] \in junction
      BY <2>1 DEF SameRow, Typed, Shapes, Link
    <3>3. Reads(w)
      BY <1>6, <3>1, <3>2 DEF LinkRead, Reads, tables
    <3>. QED BY <1>0, <1>6, <2>1, <3>3, NextLinkIs
             DEF LinkRead, Mine, WalkMoves, WalkShapes, eraseVars
  <2>2. CASE span' = [span EXCEPT ![w].subject = s] /\ Goto(w, "link") /\ issued' = issued
    <3>1. Reads(w)
      BY <1>0, <1>6, <2>2 DEF LinkRead, Goto, Reads, Typed, Shapes, SpanRecord, tables
    <3>2. Mine(w)
      BY <1>6, <2>2 DEF LinkRead, Goto, Mine, Typed, Shapes, eraseVars
    <3>3. WalkShapes
      BY <1>0, <1>6, <2>2 DEF LinkRead, Goto, WalkShapes, Typed, Shapes, SpanRecord, Holding
    <3>. QED BY <3>1, <3>2, <3>3 DEF WalkMoves
  <2>. QED BY <1>6, <2>1, <2>2 DEF LinkRead
<1>7. CASE LinkCreate(w)
  <2>1. NextLink(w, span[w].left \ {span[w].subject})
    BY <1>7 DEF LinkCreate
  <2>2. LinksOn(w, span[w].left \ {span[w].subject})
    BY <1>0, <2>1, NextLinkIs
  <2>3. Links(w)
    BY <1>7, <2>2 DEF LinkCreate, Links
  <2>. QED BY <1>0, <1>7, <2>1, <2>3, NextLinkIs
           DEF LinkCreate, Mine, WalkMoves, WalkShapes, eraseVars
<1>8. CASE WalkFails(w)
  BY <1>0, <1>8 DEF WalkFails, Goto, Fails, Mine, WalkMoves, WalkShapes, Typed, Shapes, NoSpan,
              NewSpan, SpanRecord, tables, eraseVars, history
<1>. QED BY <1>1, <1>2, <1>3, <1>4, <1>5, <1>6, <1>7, <1>8 DEF Redact

\* What a step of erasure e does, but for the rows.
Calm(e) ==
  /\ UNCHANGED <<config, pc, span, spans, drawn, issued>>
  /\ \A f \in Erasure \ {e} : epc'[f] = epc[f] /\ erase'[f] = erase[f]

Found(subject) == {l.token : l \in {k \in junction : k.subject = subject}}

\* The steps of an erasure.
FindsNone(e) ==
  /\ UNCHANGED <<tables, contested>> /\ epc'[e] = epc[e] /\ erase'[e] = erase[e]
  /\ \E s \in Subject : Found(s) = {} /\ erased' = erased \cup Due(s)
Begins(e) ==
  /\ UNCHANGED <<tables, contested, erased>> /\ epc[e] = "idle" /\ epc'[e] = "mapping"
  /\ \E s \in Subject : erase'[e] = NewErase(Found(s), Due(s))
Unmaps(e) ==
  /\ UNCHANGED <<junction, erased>> /\ epc[e] = "mapping" /\ epc'[e] = "links"
  /\ \E token \in erase[e].todo :
       /\ mapping' = {m \in mapping : m.token # token}
       /\ contested' =
            IF \E w \in Walk : Reuses(w, token) THEN contested \cup {token} ELSE contested
       /\ erase'[e] = [erase[e] EXCEPT !.token = token]
Unlinks(e) ==
  /\ UNCHANGED <<mapping, contested>> /\ epc[e] = "links"
  /\ junction' = {l \in junction : l.token # erase[e].token}
  /\ \/ /\ erase[e].todo \ {erase[e].token} = {}
        /\ erased' = erased \cup erase[e].due
        /\ epc'[e] = "idle" /\ erase'[e] = NoErase
     \/ /\ epc'[e] = "mapping" /\ erased' = erased
        /\ erase'[e] = NewErase(erase[e].todo \ {erase[e].token}, erase[e].due)
Abandons(e) ==
  UNCHANGED <<tables, contested, erased>> /\ epc'[e] = "idle" /\ erase'[e] = NoErase

EraseMoves(e) ==
  Calm(e) /\ (FindsNone(e) \/ Begins(e) \/ Unmaps(e) \/ Unlinks(e) \/ Abandons(e))

EraseShapes ==
  /\ epc' \in [Erasure -> {"idle", "mapping", "links"}]
  /\ erase' \in [Erasure -> EraseRecord]
  /\ erasures' \in 0..config.maxErasures

LEMMA FoundDrawn ==
  ASSUME Typed, NEW s \in Subject
  PROVE  /\ Found(s) \subseteq drawn /\ Due(s) \subseteq drawn
         /\ NewErase(Found(s), Due(s)) \in EraseRecord
BY DEF Typed, Shapes, RowsDrawn, Found, Due, NewErase, EraseRecord

LEMMA EraseStep ==
  ASSUME Typed, NEW e \in Erasure, Forget(e)
  PROVE  EraseMoves(e) /\ EraseShapes
<1>0. /\ erase[e] \in EraseRecord /\ erasures \in 0..config.maxErasures /\ EraseOK(e)
      /\ config \in Setup /\ config.maxErasures \in Nat
  BY VaultAssumption DEF Typed, Shapes, Settings
<1>1. ASSUME NEW s \in Subject, EraseRead(e, s) PROVE EraseMoves(e) /\ EraseShapes
  <2>1. erasures' \in 0..config.maxErasures
    BY <1>0, <1>1 DEF EraseRead
  <2>2. CASE Found(s) = {} /\ erased' = erased \cup Due(s) /\ UNCHANGED <<epc, erase>>
    BY <1>1, <2>1, <2>2 DEF EraseRead, FindsNone, Calm, EraseMoves, EraseShapes, Typed, Shapes,
                    walkVars, tables
  <2>3. CASE erase' = [erase EXCEPT ![e] = NewErase(Found(s), Due(s))] /\ EGoto(e, "mapping")
             /\ erased' = erased
    BY <1>1, <2>1, <2>3, FoundDrawn DEF EraseRead, EGoto, Begins, Calm, EraseMoves, EraseShapes,
                    Typed, Shapes, walkVars, tables
  <2>. QED BY <1>1, <2>2, <2>3 DEF EraseRead, Found
<1>2. ASSUME NEW token \in Token, EraseMapping(e, token) PROVE EraseMoves(e) /\ EraseShapes
  <2>1. Unmaps(e)
    BY <1>0, <1>2 DEF EraseMapping, EGoto, Shredded, SameRow, Unmaps, Typed, Shapes, EraseRecord
  <2>2. Calm(e)
    BY <1>2 DEF EraseMapping, EGoto, Calm, Typed, Shapes, walkVars
  <2>3. EraseShapes
    BY <1>0, <1>2 DEF EraseMapping, EGoto, EraseShapes, Typed, Shapes, EraseRecord
  <2>. QED BY <2>1, <2>2, <2>3 DEF EraseMoves
<1>3. CASE EraseLinks(e)
  <2>. DEFINE todo == erase[e].todo \ {erase[e].token}
  <2>1. NoErase \in EraseRecord /\ NewErase(todo, erase[e].due) \in EraseRecord
    BY <1>0 DEF NoErase, NewErase, EraseRecord
  <2>. HIDE DEF todo
  <2>2. Unlinks(e)
    BY <1>3 DEF EraseLinks, EGoto, SameRow, Unlinks, Typed, Shapes, todo
  <2>3. Calm(e)
    BY <1>3 DEF EraseLinks, EGoto, Calm, Typed, Shapes, walkVars
  <2>4. EraseShapes
    BY <1>0, <1>3, <2>1 DEF EraseLinks, EGoto, EraseShapes, Typed, Shapes, todo
  <2>. QED BY <2>2, <2>3, <2>4 DEF EraseMoves
<1>4. CASE EraseFails(e)
  BY <1>0, <1>4 DEF EraseFails, EGoto, Abandons, Calm, EraseMoves, EraseShapes, Typed, Shapes,
              NoErase, NewErase, EraseRecord, walkVars, tables, history
<1>. QED BY <1>1, <1>2, <1>3, <1>4 DEF Forget

LEMMA TypedStep ==
  ASSUME Typed, [Next]_vars
  PROVE  Typed'
<1>1. ASSUME NEW w \in Walk, Redact(w) PROVE Typed'
  <2>1. WalkMoves(w) /\ WalkShapes
    BY <1>1, WalkStep
  <2>2. span[w] \in SpanRecord /\ SpanOK(w) /\ TokenOf(w) = [place |-> span[w].place, cont |-> span[w].cont]
    BY DEF Typed, Shapes, TokenOf
  <2>3. config' = config /\ drawn \subseteq drawn' /\ drawn' \subseteq Token
    BY <2>1 DEF WalkMoves, Mine, Detects, Misses, Finds, Mints, Saves, Writes, Reads, Links, Fails,
                Typed, Shapes
  <2>4. /\ mapping' \subseteq Mapping /\ junction' \subseteq Link /\ issued' \subseteq Text
        /\ \A m \in mapping' : m.token \in drawn'
        /\ \A l \in junction' : l.token \in drawn'
        /\ \A t \in issued' : t.token \in drawn'
        /\ SpanOK(w)'
    <3>1. CASE Detects(w)
      BY <2>1, <2>2, <2>3, <3>1 DEF Detects, tables, Typed, Shapes, RowsDrawn, SpanOK, NewSpan, Holding
    <3>2. CASE Misses(w)
      BY <2>1, <2>2, <2>3, <3>2 DEF Misses, Goes, tables, Typed, Shapes, RowsDrawn, SpanOK, Holding
    <3>3. CASE Finds(w)
      BY <2>1, <2>2, <2>3, <3>3 DEF Finds, tables, Typed, Shapes, RowsDrawn, SpanOK, Holding, Returns,
            NoSpan, NewSpan, TokenOf, Mapping, Token, Text, SpanRecord
    <3>4. CASE Mints(w)
      BY <2>1, <2>2, <2>3, <3>4 DEF Mints, tables, Typed, Shapes, RowsDrawn, SpanOK, Holding, TokenOf,
            Token, SpanRecord
    <3>5. CASE Saves(w)
      BY <2>1, <2>2, <2>3, <3>5 DEF Saves, Goes, tables, Typed, Shapes, RowsDrawn, SpanOK, Holding, TokenOf
    <3>6. CASE Writes(w)
      BY <2>1, <2>2, <2>3, <3>6 DEF Writes, RowOf, LinksOn, Returns, NoSpan, NewSpan, tables, Typed, Shapes, RowsDrawn,
            SpanOK, Holding, TokenOf, Mapping, Text, SpanRecord
    <3>7. CASE Reads(w)
      BY <2>1, <2>2, <2>3, <3>7 DEF Reads, LinksOn, Returns, NoSpan, NewSpan, tables, Typed, Shapes, RowsDrawn,
            SpanOK, Holding, TokenOf, Text, SpanRecord
    <3>8. CASE Links(w)
      BY <2>1, <2>2, <2>3, <3>8 DEF Links, LinksOn, Returns, NoSpan, NewSpan, tables, Typed, Shapes, RowsDrawn,
            SpanOK, Holding, TokenOf, Link, Text, SpanRecord
    <3>9. CASE Fails(w)
      BY <2>1, <2>2, <2>3, <3>9 DEF Fails, NoSpan, NewSpan, tables, Typed, Shapes, RowsDrawn, SpanOK, Holding
    <3>. QED BY <2>1, <3>1, <3>2, <3>3, <3>4, <3>5, <3>6, <3>7, <3>8, <3>9 DEF WalkMoves
  <2>5. \A v \in Walk : SpanOK(v)'
    <3>. SUFFICES ASSUME NEW v \in Walk \ {w} PROVE SpanOK(v)'
      BY <2>4
    <3>. QED BY <2>1, <2>3 DEF WalkMoves, Mine, Typed, SpanOK, TokenOf
  <2>6. \A e \in Erasure : EraseOK(e)'
    BY <2>1, <2>3 DEF WalkMoves, Mine, Typed, EraseOK
  <2>7. Shapes'
    BY <2>1, <2>3, <2>4 DEF WalkMoves, WalkShapes, Mine, Typed, Shapes
  <2>. QED BY <2>4, <2>5, <2>6, <2>7 DEF Typed, RowsDrawn
<1>2. ASSUME NEW e \in Erasure, Forget(e) PROVE Typed'
  <2>1. EraseMoves(e) /\ EraseShapes
    BY <1>2, EraseStep
  <2>2. /\ erase[e] \in EraseRecord /\ EraseOK(e) /\ config' = config /\ drawn' = drawn
        /\ issued' = issued
    BY <2>1 DEF Typed, Shapes, EraseMoves, Calm
  <2>3. /\ mapping' \subseteq mapping /\ junction' \subseteq junction
        /\ contested' \subseteq drawn /\ erased' \subseteq drawn /\ EraseOK(e)'
    <3>1. CASE FindsNone(e)
      BY <2>2, <3>1, FoundDrawn DEF FindsNone, tables, Typed, Shapes, EraseOK
    <3>2. CASE Begins(e)
      BY <2>2, <3>2, FoundDrawn DEF Begins, NewErase, tables, Typed, Shapes, EraseOK
    <3>3. CASE Unmaps(e)
      BY <2>2, <3>3 DEF Unmaps, Typed, Shapes, EraseOK, EraseRecord
    <3>4. CASE Unlinks(e)
      BY <2>2, <3>4 DEF Unlinks, NewErase, NoErase, Typed, Shapes, EraseOK
    <3>5. CASE Abandons(e)
      BY <2>2, <3>5 DEF Abandons, NewErase, NoErase, tables, Typed, Shapes, EraseOK
    <3>. QED BY <2>1, <3>1, <3>2, <3>3, <3>4, <3>5 DEF EraseMoves
  <2>4. \A f \in Erasure : EraseOK(f)'
    BY <2>1, <2>2, <2>3 DEF EraseMoves, Calm, Typed, EraseOK
  <2>5. \A w \in Walk : SpanOK(w)'
    BY <2>1, <2>2 DEF EraseMoves, Calm, Typed, SpanOK, TokenOf
  <2>6. Shapes' /\ RowsDrawn'
    BY <2>1, <2>2, <2>3 DEF EraseMoves, EraseShapes, Calm, Typed, Shapes, RowsDrawn
  <2>. QED BY <2>4, <2>5, <2>6 DEF Typed
<1>3. CASE UNCHANGED vars
  BY <1>3 DEF vars, tables, walkVars, eraseVars, history, Typed, Shapes, RowsDrawn, SpanOK, EraseOK, TokenOf
<1>. QED BY <1>1, <1>2, <1>3 DEF Next

LEMMA AlwaysTyped == Spec => []Typed
BY TypedInit, TypedStep, PTL DEF Spec

\* Every reachable state has the shapes of TypeOK: the statement a walk or an erasure is at
\* has what it reads.
THEOREM VaultTyping == Spec => []TypeOK
BY AlwaysTyped, TypedIsTypeOK, PTL

----------------------------------------------------------------------------
(* A token means one value, wherever it occurs: every step but Mint keeps  *)
(* to the pairs of token and value that are there, and Mint's token is     *)
(* new.                                                                    *)

Stated == {[token |-> t.token, value |-> t.value] : t \in issued}
Held == {RowOf(w) : w \in {v \in Walk : pc[v] \in Holding}}
Meanings == mapping \cup Stated \cup Held

OneValue == \A a, b \in Meanings : a.token = b.token => a.value = b.value

LEMMA MeaningsDrawn == Typed => \A a \in Meanings : a.token \in drawn
BY DEF Typed, RowsDrawn, SpanOK, Meanings, Stated, Held, RowOf

LEMMA HeldByOthers ==
  ASSUME Typed, NEW w \in Walk, Mine(w)
  PROVE  Held' \subseteq Held \cup IF pc'[w] \in Holding THEN {RowOf(w)'} ELSE {}
BY DEF Typed, Mine, Held, RowOf, TokenOf

LEMMA ReturnsStates ==
  ASSUME NEW w \in Walk, NEW token, Returns(w, token)
  PROVE  Stated' \subseteq Stated \cup {[token |-> token, value |-> span[w].value]}
BY DEF Returns, Stated

LEMMA LinksOnStates ==
  ASSUME Typed, NEW w \in Walk, NEW left, LinksOn(w, left)
  PROVE  /\ Stated' \subseteq Stated \cup {RowOf(w)}
         /\ pc'[w] \in Holding => RowOf(w)' = RowOf(w)
<1>1. CASE Returns(w, TokenOf(w))
  BY <1>1, ReturnsStates DEF Returns, RowOf, Holding
<1>2. CASE issued' = issued /\ span'[w] = [span[w] EXCEPT !.left = left]
  <2>1. span[w] \in SpanRecord
    BY DEF Typed, Shapes
  <2>. QED BY <1>2, <2>1 DEF Stated, RowOf, TokenOf, SpanRecord
<1>. QED BY <1>1, <1>2 DEF LinksOn

LEMMA MeaningsKept ==
  ASSUME Typed, [Next]_vars
  PROVE  \/ Meanings' \subseteq Meanings
         \/ \E x : Meanings' \subseteq Meanings \cup {x} /\ x.token \notin drawn
<1>1. ASSUME NEW w \in Walk, Redact(w)
      PROVE  \/ Meanings' \subseteq Meanings
             \/ \E x : Meanings' \subseteq Meanings \cup {x} /\ x.token \notin drawn
  <2>1. /\ WalkMoves(w) /\ span[w] \in SpanRecord
        /\ Held' \subseteq Held \cup IF pc'[w] \in Holding THEN {RowOf(w)'} ELSE {}
        /\ pc[w] \in Holding => RowOf(w) \in Held
    BY <1>1, WalkStep, HeldByOthers DEF WalkMoves, Typed, Shapes, Held
  <2>2. CASE Detects(w) \/ Misses(w) \/ Fails(w)
    BY <2>1, <2>2 DEF Detects, Misses, Fails, Goes, Holding, tables, Meanings, Stated
  <2>3. CASE Finds(w)
    <3>1. PICK m \in mapping :
             /\ m.value = span[w].value /\ m.token.cont = span[w].cont
             /\ \/ span[w].subjects = {} /\ Returns(w, m.token)
                \/ /\ pc'[w] = "save" /\ issued' = issued
                   /\ span'[w] = [span[w] EXCEPT !.place = m.token.place]
      BY <2>3 DEF Finds
    <3>2. /\ m = [token |-> m.token, value |-> span[w].value]
          /\ m.token = [place |-> m.token.place, cont |-> span[w].cont]
      BY <3>1 DEF Typed, Shapes, Mapping, Token
    <3>3. CASE Returns(w, m.token)
      BY <2>1, <2>3, <3>2, <3>3, ReturnsStates DEF Finds, Returns, Holding, tables, Meanings
    <3>4. CASE issued' = issued /\ span'[w] = [span[w] EXCEPT !.place = m.token.place]
      <4>1. RowOf(w)' = m
        BY <2>1, <3>2, <3>4 DEF RowOf, TokenOf, SpanRecord
      <4>. QED BY <2>1, <2>3, <3>4, <4>1 DEF Finds, tables, Meanings, Stated
    <3>. QED BY <3>1, <3>3, <3>4
  <2>4. CASE Mints(w)
    <3>1. PICK token \in Token :
             /\ token \notin drawn /\ token.cont = span[w].cont
             /\ span'[w] = [span[w] EXCEPT !.place = token.place]
      BY <2>4 DEF Mints
    <3>2. TokenOf(w)' = token
      BY <2>1, <3>1 DEF TokenOf, SpanRecord, Token
    <3>. QED BY <2>1, <2>4, <3>1, <3>2 DEF Mints, RowOf, tables, Meanings, Stated
  <2>5. CASE Saves(w)
    <3>1. RowOf(w)' = RowOf(w)
      BY <2>5 DEF Saves, Goes, RowOf, TokenOf
    <3>. QED BY <2>1, <2>5, <3>1 DEF Saves, Goes, Holding, tables, Meanings, Stated
  <2>6. CASE Writes(w)
    <3>1. mapping' \subseteq mapping \cup {RowOf(w)} /\ pc[w] \in Holding
      BY <2>6 DEF Writes, Holding
    <3>2. LinksOn(w, span[w].left)
      BY <2>6 DEF Writes
    <3>. QED BY <2>1, <3>1, <3>2, LinksOnStates DEF Meanings
  <2>7. CASE Reads(w)
    <3>1. PICK s \in span[w].left :
            \/ LinksOn(w, span[w].left \ {s})
            \/ issued' = issued /\ span'[w] = [span[w] EXCEPT !.subject = s]
      BY <2>7 DEF Reads
    <3>2. mapping' = mapping /\ pc[w] \in Holding
      BY <2>7 DEF Reads, tables, Holding
    <3>3. CASE LinksOn(w, span[w].left \ {s})
      BY <2>1, <3>2, <3>3, LinksOnStates DEF Meanings
    <3>4. CASE issued' = issued /\ span'[w] = [span[w] EXCEPT !.subject = s]
      <4>1. RowOf(w)' = RowOf(w)
        BY <2>1, <3>4 DEF RowOf, TokenOf, SpanRecord
      <4>. QED BY <2>1, <3>2, <3>4, <4>1 DEF Meanings, Stated
    <3>. QED BY <3>1, <3>3, <3>4
  <2>8. CASE Links(w)
    <3>1. mapping' = mapping /\ pc[w] \in Holding /\ LinksOn(w, span[w].left \ {span[w].subject})
      BY <2>8 DEF Links, Holding
    <3>. QED BY <2>1, <3>1, LinksOnStates DEF Meanings
  <2>. QED BY <2>1, <2>2, <2>3, <2>4, <2>5, <2>6, <2>7, <2>8 DEF WalkMoves
<1>2. ASSUME NEW e \in Erasure, Forget(e) PROVE Meanings' \subseteq Meanings
  <2>1. EraseMoves(e)
    BY <1>2, EraseStep
  <2>2. mapping' \subseteq mapping
    BY <2>1 DEF EraseMoves, FindsNone, Begins, Unmaps, Unlinks, Abandons, tables
  <2>. QED BY <2>1, <2>2 DEF EraseMoves, Calm, Meanings, Stated, Held, RowOf, TokenOf
<1>3. CASE UNCHANGED vars
  BY <1>3 DEF vars, tables, walkVars, history, Meanings, Stated, Held, RowOf, TokenOf
<1>. QED BY <1>1, <1>2, <1>3 DEF Next

LEMMA OneValueStep ==
  ASSUME Typed, OneValue, [Next]_vars
  PROVE  OneValue'
<1>1. CASE Meanings' \subseteq Meanings
  BY <1>1 DEF OneValue
<1>2. ASSUME NEW x, Meanings' \subseteq Meanings \cup {x}, x.token \notin drawn
      PROVE  OneValue'
  <2>1. \A a \in Meanings : a.token # x.token
    BY <1>2, MeaningsDrawn
  <2>. QED BY <1>2, <2>1 DEF OneValue
<1>. QED BY <1>1, <1>2, MeaningsKept

LEMMA OneValueInit == Init => OneValue
BY DEF Init, OneValue, Meanings, Stated, Held, Holding

LEMMA AlwaysOneValue == Spec => []OneValue
BY OneValueInit, OneValueStep, AlwaysTyped, PTL DEF Spec

LEMMA OneValueIsTokenMeans == OneValue => TokenMeansItsValue
<1>. SUFFICES ASSUME OneValue, NEW t \in issued, NEW m \in mapping, m.token = t.token
              PROVE  m.value = t.value
  BY DEF TokenMeansItsValue
<1>1. [token |-> t.token, value |-> t.value] \in Meanings /\ m \in Meanings
  BY DEF Meanings, Stated
<1>. QED BY <1>1 DEF OneValue

\* A token that was issued for a value is never mapped back to another one, through any
\* overlap of walks and erasures and any failure between two statements.
THEOREM TokensMeanTheirValue == Spec => []TokenMeansItsValue
BY AlwaysOneValue, OneValueIsTokenMeans, PTL

----------------------------------------------------------------------------
(* Erasure.  A token is dead if nothing maps it back and no walk is about  *)
(* to: it stays dead, since a minted token is new and a token that is used *)
(* again is one that resolves.                                             *)

Dead(t) == t \in drawn /\ ~ Resolves(t) /\ \A w \in Walk : ~ Reuses(w, t)

\* What a walk finds out about the tokens that resolve, and about those it may save.
LEMMA WalkReuses ==
  ASSUME Typed, NEW w \in Walk, WalkMoves(w), NEW t, Reuses(w, t)'
  PROVE  \/ Mints(w) /\ t \notin drawn /\ t \in drawn' /\ issued' = issued
         \/ Finds(w) /\ Resolves(t) /\ pc'[w] = "save" /\ issued' = issued
         \/ Saves(w) /\ TokenOf(w) = t /\ pc[w] = "save"
<1>0. span[w] \in SpanRecord
  BY DEF Typed, Shapes
<1>1. pc'[w] \in {"save", "create"} /\ TokenOf(w)' = t
  BY DEF Reuses
<1>2. CASE Mints(w)
  <2>1. PICK token \in Token :
           /\ token \notin drawn /\ drawn' = drawn \cup {token}
           /\ token.cont = span[w].cont
           /\ span'[w] = [span[w] EXCEPT !.place = token.place]
    BY <1>2 DEF Mints
  <2>2. TokenOf(w)' = token
    BY <1>0, <2>1 DEF TokenOf, SpanRecord, Token
  <2>. QED BY <1>1, <1>2, <2>1, <2>2 DEF Mints
<1>3. CASE Finds(w)
  <2>1. PICK m \in mapping :
           /\ m.token.cont = span[w].cont
           /\ \/ Returns(w, m.token)
              \/ /\ pc'[w] = "save" /\ issued' = issued
                 /\ span'[w] = [span[w] EXCEPT !.place = m.token.place]
    BY <1>3 DEF Finds
  <2>2. m.token \in Token
    BY DEF Typed, Shapes, Mapping
  <2>3. span'[w] = [span[w] EXCEPT !.place = m.token.place] /\ issued' = issued /\ pc'[w] = "save"
    BY <1>1, <2>1 DEF Returns
  <2>4. TokenOf(w)' = m.token
    BY <1>0, <2>1, <2>2, <2>3 DEF TokenOf, SpanRecord, Token
  <2>. QED BY <1>1, <1>3, <2>3, <2>4 DEF Resolves
<1>4. CASE Saves(w)
  BY <1>1, <1>4 DEF Saves, Goes, TokenOf
<1>5. CASE Detects(w) \/ Misses(w) \/ Writes(w) \/ Reads(w) \/ Links(w) \/ Fails(w)
  BY <1>1, <1>5 DEF Detects, Misses, Goes, Writes, Reads, Links, Fails, LinksOn, Returns
<1>. QED BY <1>2, <1>3, <1>4, <1>5 DEF WalkMoves

LEMMA WalkResolves ==
  ASSUME Typed, NEW w \in Walk, WalkMoves(w), NEW t
  PROVE  /\ Resolves(t) => Resolves(t)'
         /\ Resolves(t)' => Resolves(t) \/ (Writes(w) /\ pc[w] = "create" /\ TokenOf(w) = t)
<1>1. CASE mapping' = mapping
  BY <1>1 DEF Resolves
<1>2. CASE Writes(w)
  <2>1. RowOf(w).token = TokenOf(w)
    BY DEF RowOf
  <2>2. CASE pc[w] = "update" /\ mapping' = {IF m.token = TokenOf(w) THEN RowOf(w) ELSE m : m \in mapping}
    <3>1. ASSUME NEW m \in mapping, m.token = t PROVE Resolves(t)'
      <4>1. (IF m.token = TokenOf(w) THEN RowOf(w) ELSE m) \in mapping'
        BY <2>2
      <4>. QED BY <2>1, <3>1, <4>1 DEF Resolves
    <3>2. ASSUME NEW n \in mapping', n.token = t PROVE Resolves(t)
      <4>1. PICK m \in mapping : n = IF m.token = TokenOf(w) THEN RowOf(w) ELSE m
        BY <2>2
      <4>. QED BY <2>1, <3>2, <4>1 DEF Resolves
    <3>. QED BY <3>1, <3>2 DEF Resolves
  <2>3. CASE pc[w] = "create" /\ mapping' = mapping \cup {RowOf(w)}
    BY <1>2, <2>1, <2>3 DEF Resolves
  <2>. QED BY <1>2, <2>2, <2>3 DEF Writes
<1>. QED BY <1>1, <1>2 DEF WalkMoves, Detects, Misses, Finds, Mints, Saves, Reads, Links, Fails, tables

LEMMA WalkKeepsOthers ==
  ASSUME NEW w \in Walk, WalkMoves(w), NEW v \in Walk \ {w}
  PROVE  /\ pc'[v] = pc[v] /\ span'[v] = span[v] /\ TokenOf(v)' = TokenOf(v)
         /\ \A t : Reuses(v, t)' <=> Reuses(v, t)
BY DEF WalkMoves, Mine, TokenOf, Reuses

LEMMA EraseKeeps ==
  ASSUME Typed, NEW e \in Erasure, EraseMoves(e)
  PROVE  /\ pc' = pc /\ span' = span /\ drawn' = drawn /\ issued' = issued
         /\ mapping' \subseteq mapping /\ junction' \subseteq junction /\ contested \subseteq contested'
         /\ \A w \in Walk : TokenOf(w)' = TokenOf(w) /\ \A t : Reuses(w, t)' <=> Reuses(w, t)
         /\ \A t : Resolves(t)' => Resolves(t)
<1>1. /\ pc' = pc /\ span' = span /\ drawn' = drawn /\ issued' = issued
  BY DEF EraseMoves, Calm
<1>2. mapping' \subseteq mapping /\ junction' \subseteq junction /\ contested \subseteq contested'
  BY DEF EraseMoves, FindsNone, Begins, Unmaps, Unlinks, Abandons, tables
<1>. QED BY <1>1, <1>2 DEF TokenOf, Reuses, Resolves

LEMMA DeadStays ==
  ASSUME Typed, [Next]_vars, NEW t, Dead(t)
  PROVE  Dead(t)'
<1>1. ASSUME NEW w \in Walk, Redact(w) PROVE Dead(t)'
  <2>1. WalkMoves(w)
    BY <1>1, WalkStep
  <2>2. ~ Resolves(t)'
    BY <2>1, WalkResolves DEF Dead, Reuses
  <2>3. ~ Reuses(w, t)'
    BY <2>1, WalkReuses DEF Dead, Reuses
  <2>4. t \in drawn'
    BY <2>1 DEF Dead, WalkMoves, Detects, Misses, Finds, Mints, Saves, Writes, Reads, Links, Fails
  <2>. QED BY <2>1, <2>2, <2>3, <2>4, WalkKeepsOthers DEF Dead
<1>2. ASSUME NEW e \in Erasure, Forget(e) PROVE Dead(t)'
  BY <1>2, EraseStep, EraseKeeps DEF Dead
<1>3. CASE UNCHANGED vars
  BY <1>3 DEF vars, tables, walkVars, history, Dead, Resolves, Reuses, TokenOf
<1>. QED BY <1>1, <1>2, <1>3 DEF Next

Linked(t, subjects) == \A s \in subjects : [token |-> t, subject |-> s] \in junction

\* Nobody but w knows the token it is about to save.
Fresh(w) ==
  /\ ~ Resolves(TokenOf(w))
  /\ \A u \in issued : u.token # TokenOf(w)
  /\ \A v \in Walk \ {w} : pc[v] \in Holding => TokenOf(v) # TokenOf(w)

SaveOK(w) ==
  pc[w] \in {"save", "create"} /\ TokenOf(w) \notin contested =>
    Fresh(w) \/ (pc[w] = "save" /\ Resolves(TokenOf(w)))
LinkOK(w) ==
  pc[w] \in Holding /\ TokenOf(w) \notin contested /\ Resolves(TokenOf(w)) =>
    Linked(TokenOf(w), span[w].subjects \ span[w].left)
TextOK(u) == u.token \notin contested /\ Resolves(u.token) => Linked(u.token, u.subjects)
EraseSafe(e) ==
  /\ epc[e] = "links" => erase[e].token \in contested \/ Dead(erase[e].token)
  /\ epc[e] # "idle" => \A t \in erase[e].due \ contested : Dead(t) \/ t \in erase[e].todo

SavesOK == \A w \in Walk : SaveOK(w)
LinksOK == (\A w \in Walk : LinkOK(w)) /\ \A u \in issued : TextOK(u)
ErasesOK == (\A e \in Erasure : EraseSafe(e)) /\ \A t \in erased \ contested : Dead(t)

\* A walk comes by a token as the one it had, as one that resolves, or as a new one.
LEMMA WalkHolds ==
  ASSUME Typed, NEW w \in Walk, WalkMoves(w), pc'[w] \in Holding
  PROVE  \/ pc[w] \in Holding /\ TokenOf(w)' = TokenOf(w)
         \/ Resolves(TokenOf(w)')
         \/ TokenOf(w)' \notin drawn
<1>0. span[w] \in SpanRecord
  BY DEF Typed, Shapes
<1>1. CASE Mints(w) \/ Finds(w)
  <2>1. pc'[w] = "save"
    BY <1>1 DEF Mints, Finds, Returns, Holding
  <2>. QED BY <1>1, <2>1, WalkReuses DEF Reuses, Mints, Finds, Saves
<1>2. CASE Saves(w)
  BY <1>2 DEF Saves, Goes, TokenOf, Holding
<1>3. CASE Writes(w) \/ Links(w)
  <2>1. PICK left : LinksOn(w, left)
    BY <1>3 DEF Writes, Links
  <2>2. span'[w] = [span[w] EXCEPT !.left = left]
    BY <2>1 DEF LinksOn, Returns, Holding
  <2>. QED BY <1>0, <1>3, <2>2 DEF Writes, Links, TokenOf, SpanRecord, Holding
<1>4. CASE Reads(w)
  <2>1. PICK s \in span[w].left :
          LinksOn(w, span[w].left \ {s}) \/ span'[w] = [span[w] EXCEPT !.subject = s]
    BY <1>4 DEF Reads
  <2>2. \/ span'[w] = [span[w] EXCEPT !.left = span[w].left \ {s}]
        \/ span'[w] = [span[w] EXCEPT !.subject = s]
    BY <2>1 DEF LinksOn, Returns, Holding
  <2>. QED BY <1>0, <1>4, <2>2 DEF Reads, TokenOf, SpanRecord, Holding
<1>5. CASE Detects(w) \/ Misses(w) \/ Fails(w)
  BY <1>5 DEF Detects, Misses, Goes, Fails, Holding
<1>. QED BY <1>1, <1>2, <1>3, <1>4, <1>5 DEF WalkMoves

\* A new text is about nobody, or about the subjects its walk has linked.
LEMMA WalkIssues ==
  ASSUME Typed, NEW w \in Walk, WalkMoves(w), NEW u \in issued' \ issued
  PROVE  \/ Finds(w) /\ u.subjects = {} /\ Resolves(u.token)
         \/ /\ pc[w] \in Holding /\ u.token = TokenOf(w) /\ u.subjects = span[w].subjects
            /\ \/ Writes(w) /\ u.subjects = {}
               \/ (Reads(w) \/ Links(w)) /\
                  \E s \in span[w].left : /\ span[w].left \ {s} = {}
                                          /\ [token |-> TokenOf(w), subject |-> s] \in junction'
<1>0. SpanOK(w)
  BY DEF Typed
<1>1. CASE Detects(w) \/ Misses(w) \/ Mints(w) \/ Saves(w) \/ Fails(w)
  BY <1>1 DEF Detects, Misses, Mints, Saves, Fails, Goes
<1>2. CASE Finds(w)
  <2>1. PICK m \in mapping : span[w].subjects = {} /\ Returns(w, m.token)
    BY <1>2 DEF Finds
  <2>. QED BY <1>2, <2>1 DEF Returns, Resolves
<1>3. CASE Writes(w)
  <2>1. span[w].left = {} /\ Returns(w, TokenOf(w))
    BY <1>3 DEF Writes, LinksOn
  <2>. QED BY <1>0, <1>3, <2>1 DEF Writes, Returns, SpanOK, Holding
<1>4. CASE Reads(w)
  <2>1. PICK s \in span[w].left : /\ [token |-> TokenOf(w), subject |-> s] \in junction
                                  /\ LinksOn(w, span[w].left \ {s})
    BY <1>4 DEF Reads
  <2>. QED BY <1>4, <2>1 DEF Reads, LinksOn, Returns, Holding, tables
<1>5. CASE Links(w)
  <2>1. span[w].subject \in span[w].left
    BY <1>0, <1>5 DEF Links, SpanOK
  <2>. QED BY <1>5, <2>1 DEF Links, LinksOn, Returns, Holding
<1>. QED BY <1>1, <1>2, <1>3, <1>4, <1>5 DEF WalkMoves

LEMMA WalkTables ==
  ASSUME NEW w \in Walk, WalkMoves(w)
  PROVE  /\ junction \subseteq junction' /\ contested' = contested /\ erased' = erased
         /\ epc' = epc /\ erase' = erase
         /\ Writes(w) \/ mapping' = mapping
BY DEF WalkMoves, Mine, Detects, Misses, Finds, Mints, Saves, Writes, Reads, Links, Fails, tables

LEMMA FreshStays ==
  ASSUME Typed, NEW w \in Walk, WalkMoves(w), NEW v \in Walk \ {w}, Fresh(v), pc[v] \in Holding
  PROVE  Fresh(v)'
<1>1. TokenOf(v)' = TokenOf(v) /\ TokenOf(v) \in drawn
  BY WalkKeepsOthers DEF Typed, SpanOK
<1>2. ~ Resolves(TokenOf(v))'
  BY <1>1, WalkResolves DEF Fresh, Holding
<1>3. \A u \in issued' : u.token # TokenOf(v)
  BY WalkIssues DEF Fresh
<1>4. pc'[w] \in Holding => TokenOf(w)' # TokenOf(v)
  BY <1>1, WalkHolds DEF Fresh
<1>5. \A x \in Walk \ {v} : pc'[x] \in Holding => TokenOf(x)' # TokenOf(v)
  BY <1>4, WalkKeepsOthers DEF Fresh
<1>. QED BY <1>1, <1>2, <1>3, <1>5 DEF Fresh

LEMMA SavesStep ==
  ASSUME Typed, SavesOK, [Next]_vars
  PROVE  SavesOK'
<1>1. ASSUME NEW w \in Walk, Redact(w), NEW v \in Walk PROVE SaveOK(v)'
  <2>1. WalkMoves(w) /\ contested' = contested
    BY <1>1, WalkStep, WalkTables
  <2>. SUFFICES ASSUME pc'[v] \in {"save", "create"}, TokenOf(v)' \notin contested
                PROVE  Fresh(v)' \/ (pc'[v] = "save" /\ Resolves(TokenOf(v))')
    BY <2>1 DEF SaveOK
  <2>2. CASE v # w
    <3>1. pc[v] = pc'[v] /\ TokenOf(v)' = TokenOf(v) /\ pc[v] \in Holding /\ SaveOK(v)
      BY <2>1, <2>2, WalkKeepsOthers DEF SavesOK, Holding
    <3>2. CASE Fresh(v)
      BY <2>1, <2>2, <3>1, <3>2, FreshStays
    <3>3. CASE pc[v] = "save" /\ Resolves(TokenOf(v))
      BY <2>1, <3>1, <3>3, WalkResolves DEF Resolves
    <3>. QED BY <3>1, <3>2, <3>3 DEF SaveOK
  <2>3. CASE v = w
    <3>0. PICK t : t = TokenOf(w)'
      OBVIOUS
    <3>1. Reuses(w, t)'
      BY <2>3, <3>0 DEF Reuses
    <3>2. CASE Mints(w) /\ t \notin drawn /\ issued' = issued
      <4>1. mapping' = mapping
        BY <3>2 DEF Mints, tables
      <4>2. \A x \in Walk \ {w} : pc'[x] \in Holding => TokenOf(x)' # t
        BY <2>1, <3>2, WalkKeepsOthers DEF Typed, SpanOK
      <4>. QED BY <2>3, <3>0, <3>2, <4>1, <4>2 DEF Fresh, Resolves, Typed, RowsDrawn
    <3>3. CASE Finds(w) /\ Resolves(t) /\ pc'[w] = "save"
      BY <2>3, <3>0, <3>3 DEF Finds, tables, Resolves
    <3>4. CASE Saves(w) /\ TokenOf(w) = t
      <4>1. ~ Resolves(TokenOf(w)) /\ mapping' = mapping /\ issued' = issued /\ pc[w] = "save"
        BY <2>3, <3>0, <3>4 DEF Saves, Goes, tables
      <4>2. Fresh(w)
        BY <2>1, <2>3, <3>0, <3>4, <4>1 DEF SavesOK, SaveOK
      <4>3. \A x \in Walk \ {w} : pc'[x] \in Holding => TokenOf(x)' # t
        BY <2>1, <3>4, <4>2, WalkKeepsOthers DEF Fresh
      <4>. QED BY <2>3, <3>0, <3>4, <4>1, <4>2, <4>3 DEF Fresh, Resolves
    <3>. QED BY <2>1, <3>1, <3>2, <3>3, <3>4, WalkReuses
  <2>. QED BY <2>2, <2>3
<1>2. ASSUME NEW e \in Erasure, Forget(e), NEW v \in Walk PROVE SaveOK(v)'
  <2>1. EraseMoves(e)
    BY <1>2, EraseStep
  <2>2. /\ pc' = pc /\ issued' = issued /\ contested \subseteq contested'
        /\ \A w \in Walk : TokenOf(w)' = TokenOf(w)
        /\ ~ Resolves(TokenOf(v)) => ~ Resolves(TokenOf(v))'
    BY <2>1, EraseKeeps DEF Resolves
  <2>. SUFFICES ASSUME pc[v] \in {"save", "create"}, TokenOf(v) \notin contested'
                PROVE  Fresh(v)' \/ (pc[v] = "save" /\ Resolves(TokenOf(v))')
    BY <2>2 DEF SaveOK
  <2>3. CASE Fresh(v)
    BY <2>2, <2>3 DEF Fresh
  <2>4. CASE pc[v] = "save" /\ Resolves(TokenOf(v))
    <3>1. CASE mapping' = mapping
      BY <2>2, <2>4, <3>1 DEF Resolves
    <3>2. CASE Unmaps(e)
      <4>1. PICK token \in erase[e].todo :
              /\ mapping' = {m \in mapping : m.token # token}
              /\ contested' =
                   IF \E w \in Walk : Reuses(w, token) THEN contested \cup {token} ELSE contested
        BY <3>2 DEF Unmaps
      <4>2. token # TokenOf(v)
        BY <4>1 DEF Reuses
      <4>. QED BY <2>2, <2>4, <4>1, <4>2 DEF Resolves
    <3>. QED BY <2>1, <3>1, <3>2 DEF EraseMoves, FindsNone, Begins, Unlinks, Abandons, tables
  <2>. QED BY <2>2, <2>3, <2>4 DEF SavesOK, SaveOK
<1>3. CASE UNCHANGED vars
  BY <1>3 DEF vars, tables, walkVars, history, SavesOK, SaveOK, Fresh, Resolves, TokenOf
<1>. QED BY <1>1, <1>2, <1>3 DEF Next, SavesOK

\* The walk that creates a row is the only one to know its token, unless that is contested.
LEMMA CreatorAlone ==
  ASSUME SavesOK, NEW w \in Walk, pc[w] = "create", TokenOf(w) \notin contested
  PROVE  Fresh(w)
BY DEF SavesOK, SaveOK

LEMMA WalkLinks ==
  ASSUME Typed, NEW w \in Walk, WalkMoves(w), LinkOK(w), Typed'
  PROVE  LinkOK(w)'
<1>. SUFFICES ASSUME pc'[w] \in Holding, TokenOf(w)' \notin contested', Resolves(TokenOf(w))'
              PROVE  Linked(TokenOf(w), span[w].subjects \ span[w].left)'
  BY DEF LinkOK
<1>0. span[w] \in SpanRecord /\ SpanOK(w) /\ SpanOK(w)'
  BY DEF Typed, Shapes
<1>1. CASE pc'[w] \in {"save", "update", "create"}
  BY <1>0, <1>1 DEF SpanOK, Linked
<1>2. CASE Writes(w)
  <2>1. span[w].left = span[w].subjects /\ span'[w] = [span[w] EXCEPT !.left = span[w].left]
    BY <1>0, <1>2 DEF Writes, LinksOn, Returns, SpanOK, Holding
  <2>. QED BY <1>0, <2>1 DEF SpanRecord, Linked
<1>3. CASE Reads(w) \/ Links(w)
  <2>1. mapping' = mapping /\ junction \subseteq junction' /\ contested' = contested
    BY <1>3, WalkTables DEF Reads, Links, tables
  <2>2. PICK s \in span[w].left :
          \/ /\ [token |-> TokenOf(w), subject |-> s] \in junction'
             /\ span'[w] = [span[w] EXCEPT !.left = span[w].left \ {s}]
          \/ span'[w] = [span[w] EXCEPT !.subject = s]
    <3>1. CASE Reads(w)
      <4>1. PICK s \in span[w].left :
              \/ /\ [token |-> TokenOf(w), subject |-> s] \in junction
                 /\ LinksOn(w, span[w].left \ {s})
              \/ span'[w] = [span[w] EXCEPT !.subject = s]
        BY <3>1 DEF Reads
      <4>. QED BY <2>1, <4>1 DEF LinksOn, Returns, Holding
    <3>2. CASE Links(w)
      <4>1. span[w].subject \in span[w].left
        BY <1>0, <3>2 DEF Links, SpanOK
      <4>. QED BY <3>2, <4>1 DEF Links, LinksOn, Returns, Holding
    <3>. QED BY <1>3, <3>1, <3>2
  <2>3. TokenOf(w)' = TokenOf(w) /\ span'[w].subjects = span[w].subjects
    BY <1>0, <2>2 DEF TokenOf, SpanRecord
  <2>4. pc[w] \in Holding /\ Resolves(TokenOf(w))
    BY <1>3, <2>1, <2>3 DEF Reads, Links, Holding, Resolves
  <2>5. Linked(TokenOf(w), span[w].subjects \ span[w].left)
    BY <2>1, <2>3, <2>4 DEF LinkOK
  <2>6. CASE [token |-> TokenOf(w), subject |-> s] \in junction' /\
             span'[w] = [span[w] EXCEPT !.left = span[w].left \ {s}]
    <3>1. span'[w].left = span[w].left \ {s}
      BY <1>0, <2>6 DEF SpanRecord
    <3>. QED BY <2>1, <2>3, <2>5, <2>6, <3>1 DEF Linked
  <2>7. CASE span'[w] = [span[w] EXCEPT !.subject = s]
    <3>1. span'[w].left = span[w].left
      BY <1>0, <2>7 DEF SpanRecord
    <3>. QED BY <2>1, <2>3, <2>5, <3>1 DEF Linked
  <2>. QED BY <2>2, <2>6, <2>7
<1>4. CASE Detects(w) \/ Misses(w) \/ Finds(w) \/ Mints(w) \/ Saves(w) \/ Fails(w)
  BY <1>1, <1>4 DEF Detects, Misses, Finds, Mints, Saves, Fails, Goes, Returns, Holding
<1>. QED BY <1>2, <1>3, <1>4 DEF WalkMoves

LEMMA LinksStep ==
  ASSUME Typed, SavesOK, LinksOK, ErasesOK, [Next]_vars
  PROVE  LinksOK'
<1>0. Typed'
  BY TypedStep
<1>1. ASSUME NEW w \in Walk, Redact(w) PROVE LinksOK'
  <2>1. WalkMoves(w) /\ junction \subseteq junction' /\ contested' = contested
    BY <1>1, WalkStep, WalkTables
  <2>2. LinkOK(w)'
    BY <1>0, <2>1, WalkLinks DEF LinksOK
  <2>3. ASSUME NEW v \in Walk \ {w} PROVE LinkOK(v)'
    <3>1. pc'[v] = pc[v] /\ span'[v] = span[v] /\ TokenOf(v)' = TokenOf(v) /\ LinkOK(v)
      BY <2>1, WalkKeepsOthers DEF LinksOK
    <3>. SUFFICES ASSUME pc[v] \in Holding, TokenOf(v) \notin contested, Resolves(TokenOf(v))'
                  PROVE  Linked(TokenOf(v), span[v].subjects \ span[v].left)'
      BY <2>1, <3>1 DEF LinkOK, Resolves
    <3>2. Resolves(TokenOf(v))
      <4>1. \A t : Resolves(t)' => Resolves(t) \/ (pc[w] = "create" /\ TokenOf(w) = t)
        BY <2>1, WalkResolves
      <4>2. Resolves(TokenOf(v)) \/ (pc[w] = "create" /\ TokenOf(w) = TokenOf(v))
        BY <3>1, <4>1 DEF Resolves
      <4>. QED BY <4>2, CreatorAlone DEF Fresh
    <3>. QED BY <2>1, <3>1, <3>2 DEF LinkOK, Linked
  <2>4. ASSUME NEW u \in issued' PROVE TextOK(u)'
    <3>. SUFFICES ASSUME u.token \notin contested, Resolves(u.token)'
                  PROVE  Linked(u.token, u.subjects)'
      BY <2>1 DEF TextOK
    <3>1. CASE u \in issued
      <4>1. Resolves(u.token)
        BY <2>1, <3>1, WalkResolves, CreatorAlone DEF Fresh
      <4>. QED BY <2>1, <3>1, <4>1 DEF LinksOK, TextOK, Linked
    <3>2. CASE u.subjects = {}
      BY <3>2 DEF Linked
    <3>3. ASSUME pc[w] \in Holding, u.token = TokenOf(w), u.subjects = span[w].subjects,
                 Reads(w) \/ Links(w), NEW s \in span[w].left, span[w].left \ {s} = {},
                 [token |-> TokenOf(w), subject |-> s] \in junction'
          PROVE  Linked(u.token, u.subjects)'
      <4>1. Resolves(TokenOf(w))
        BY <3>3 DEF Reads, Links, Resolves, tables
      <4>2. Linked(TokenOf(w), span[w].subjects \ span[w].left)
        BY <3>3, <4>1 DEF LinksOK, LinkOK
      <4>. QED BY <2>1, <3>3, <4>2 DEF Linked
    <3>. QED BY <2>1, <3>1, <3>2, <3>3, WalkIssues
  <2>. QED BY <2>2, <2>3, <2>4 DEF LinksOK
<1>2. ASSUME NEW e \in Erasure, Forget(e) PROVE LinksOK'
  <2>1. EraseMoves(e)
    BY <1>2, EraseStep
  <2>2. /\ pc' = pc /\ span' = span /\ issued' = issued /\ contested \subseteq contested'
        /\ \A w \in Walk : TokenOf(w)' = TokenOf(w)
        /\ \A t : Resolves(t)' => Resolves(t)
    BY <2>1, EraseKeeps
  <2>3. ASSUME NEW t, NEW subjects, t \notin contested', Resolves(t)', Linked(t, subjects)
        PROVE  Linked(t, subjects)'
    <3>1. CASE junction' = junction
      BY <2>3, <3>1 DEF Linked
    <3>2. CASE Unlinks(e)
      <4>1. /\ mapping' = mapping /\ contested' = contested
            /\ junction' = {l \in junction : l.token # erase[e].token}
            /\ erase[e].token \in contested \/ Dead(erase[e].token)
        BY <3>2 DEF Unlinks, ErasesOK, EraseSafe
      <4>2. erase[e].token # t
        BY <2>3, <4>1 DEF Dead, Resolves
      <4>. QED BY <2>3, <4>1, <4>2 DEF Linked
    <3>. QED BY <2>1, <3>1, <3>2 DEF EraseMoves, FindsNone, Begins, Unmaps, Abandons, tables
  <2>4. ASSUME NEW u \in issued PROVE TextOK(u)'
    BY <2>2, <2>3 DEF LinksOK, TextOK
  <2>5. ASSUME NEW w \in Walk PROVE LinkOK(w)'
    <3>1. PICK t : t = TokenOf(w)
      OBVIOUS
    <3>. SUFFICES ASSUME pc[w] \in Holding, t \notin contested', Resolves(t)'
                  PROVE  Linked(t, span[w].subjects \ span[w].left)'
      BY <2>2, <3>1 DEF LinkOK, Resolves, Linked
    <3>2. Linked(t, span[w].subjects \ span[w].left)
      BY <2>2, <3>1 DEF LinksOK, LinkOK
    <3>. QED BY <2>2, <2>3, <3>2 DEF Linked
  <2>. QED BY <2>2, <2>4, <2>5 DEF LinksOK
<1>3. CASE UNCHANGED vars
  BY <1>3 DEF vars, tables, walkVars, history, LinksOK, LinkOK, TextOK, Linked, Resolves, TokenOf
<1>. QED BY <1>1, <1>2, <1>3 DEF Next

\* An erasure is answerable for tokens that it finds, unless they are dead already.
LEMMA DueFound ==
  ASSUME Typed, SavesOK, LinksOK, NEW s \in Subject, NEW t \in Due(s) \ contested
  PROVE  Dead(t) \/ t \in Found(s)
<1>1. PICK u \in issued : u.token = t /\ s \in u.subjects
  BY DEF Due
<1>2. CASE Resolves(t)
  <2>1. [token |-> t, subject |-> s] \in junction
    BY <1>1, <1>2 DEF LinksOK, TextOK, Linked
  <2>. DEFINE l == [token |-> t, subject |-> s]
  <2>2. l \in junction /\ l.subject = s /\ l.token = t
    BY <2>1
  <2>. QED BY <2>2 DEF Found
<1>3. CASE ~ Resolves(t)
  <2>1. \A w \in Walk : ~ Reuses(w, t)
    BY <1>1, <1>3 DEF Reuses, SavesOK, SaveOK, Fresh
  <2>. QED BY <1>1, <1>3, <2>1 DEF Dead, Typed, RowsDrawn
<1>. QED BY <1>2, <1>3

LEMMA ErasesStep ==
  ASSUME Typed, SavesOK, LinksOK, ErasesOK, [Next]_vars
  PROVE  ErasesOK'
<1>0. \A t : Dead(t) => Dead(t)'
  BY DeadStays
<1>1. ASSUME NEW w \in Walk, Redact(w) PROVE ErasesOK'
  <2>1. UNCHANGED <<epc, erase, erased, contested>>
    BY <1>1, WalkStep, WalkTables
  <2>. QED BY <1>0, <2>1 DEF ErasesOK, EraseSafe
<1>2. ASSUME NEW e \in Erasure, Forget(e) PROVE ErasesOK'
  <2>1. EraseMoves(e) /\ erase[e] \in EraseRecord /\ EraseOK(e)
    BY <1>2, EraseStep DEF Typed, Shapes
  <2>2. contested \subseteq contested'
    BY <2>1, EraseKeeps
  <2>3. \A f \in Erasure \ {e} : EraseSafe(f)'
    BY <1>0, <2>1, <2>2 DEF EraseMoves, Calm, ErasesOK, EraseSafe
  <2>4. EraseSafe(e)' /\ \A t \in erased' \ contested' : Dead(t)'
    <3>1. CASE FindsNone(e)
      <4>1. PICK s \in Subject : Found(s) = {} /\ erased' = erased \cup Due(s)
        BY <3>1 DEF FindsNone
      <4>2. \A t \in Due(s) \ contested : Dead(t)
        BY <4>1, DueFound
      <4>. QED BY <1>0, <3>1, <4>1, <4>2 DEF FindsNone, ErasesOK, EraseSafe
    <3>2. CASE Begins(e)
      <4>1. PICK s \in Subject : erase'[e] = NewErase(Found(s), Due(s))
        BY <3>2 DEF Begins
      <4>2. erase'[e].due = Due(s) /\ erase'[e].todo = Found(s)
        BY <4>1 DEF NewErase
      <4>3. \A t \in Due(s) \ contested : Dead(t) \/ t \in Found(s)
        BY DueFound
      <4>. QED BY <1>0, <3>2, <4>2, <4>3 DEF Begins, ErasesOK, EraseSafe
    <3>3. CASE Unmaps(e)
      <4>1. PICK token \in erase[e].todo :
              /\ mapping' = {m \in mapping : m.token # token}
              /\ contested' =
                   IF \E w \in Walk : Reuses(w, token) THEN contested \cup {token} ELSE contested
              /\ erase'[e] = [erase[e] EXCEPT !.token = token]
        BY <3>3 DEF Unmaps
      <4>2. /\ erase'[e].token = token /\ erase'[e].todo = erase[e].todo
            /\ erase'[e].due = erase[e].due
        BY <2>1, <4>1 DEF EraseRecord
      <4>3. token \in contested' \/ Dead(token)'
        BY <2>1, <4>1, EraseKeeps DEF EraseOK, Dead, Resolves
      <4>. QED BY <1>0, <2>2, <3>3, <4>2, <4>3 DEF Unmaps, ErasesOK, EraseSafe
    <3>4. CASE Unlinks(e)
      <4>1. \A t \in erase[e].due \ contested : Dead(t)' \/ t \in erase[e].todo \ {erase[e].token}
        BY <1>0, <3>4 DEF Unlinks, ErasesOK, EraseSafe
      <4>2. CASE /\ erase[e].todo \ {erase[e].token} = {} /\ erased' = erased \cup erase[e].due
                 /\ epc'[e] = "idle"
        BY <1>0, <3>4, <4>1, <4>2 DEF Unlinks, ErasesOK, EraseSafe
      <4>3. CASE /\ epc'[e] = "mapping" /\ erased' = erased
                 /\ erase'[e] = NewErase(erase[e].todo \ {erase[e].token}, erase[e].due)
        BY <1>0, <3>4, <4>1, <4>3 DEF Unlinks, NewErase, ErasesOK, EraseSafe
      <4>. QED BY <3>4, <4>2, <4>3 DEF Unlinks
    <3>5. CASE Abandons(e)
      BY <1>0, <3>5 DEF Abandons, ErasesOK, EraseSafe
    <3>. QED BY <2>1, <3>1, <3>2, <3>3, <3>4, <3>5 DEF EraseMoves
  <2>. QED BY <2>3, <2>4 DEF ErasesOK
<1>3. CASE UNCHANGED vars
  BY <1>0, <1>3 DEF vars, eraseVars, history, ErasesOK, EraseSafe
<1>. QED BY <1>1, <1>2, <1>3 DEF Next

Erasing == SavesOK /\ LinksOK /\ ErasesOK

LEMMA AlwaysErasing == Spec => []Erasing
<1>1. Init => Erasing
  BY DEF Init, Erasing, SavesOK, SaveOK, LinksOK, LinkOK, ErasesOK, EraseSafe, Holding
<1>2. Typed /\ Erasing /\ [Next]_vars => Erasing'
  BY SavesStep, LinksStep, ErasesStep DEF Erasing
<1>. QED BY <1>1, <1>2, AlwaysTyped, PTL DEF Spec

\* While the vault can map a token of a text back, each subject of the text is linked to it:
\* a link is written only once, and lost only when the mapping is gone.
THEOREM ErasuresReach == Spec => []ErasureReaches
<1>1. Erasing => ErasureReaches
  BY DEF Erasing, LinksOK, TextOK, Linked, ErasureReaches
<1>. QED BY <1>1, AlwaysErasing, PTL

\* The tokens that a successful erasure was answerable for are never mapped back again.
THEOREM ErasedStaysGone == Spec => []ErasedIsGone
<1>1. Erasing => ErasedIsGone
  BY DEF Erasing, ErasesOK, Dead, ErasedIsGone
<1>. QED BY <1>1, AlwaysErasing, PTL

LEMMA OnlyErasuresRemove ==
  ASSUME Typed, OneValue, [Next]_vars,
         NEW row \in (mapping \ mapping') \cup (junction \ junction')
  PROVE  \E e \in Erasure : epc[e] # "idle" /\ row.token \in erase[e].todo
<1>1. ASSUME NEW w \in Walk, Redact(w) PROVE FALSE
  <2>1. WalkMoves(w) /\ row \in mapping \ mapping' /\ Writes(w)
    BY <1>1, WalkStep, WalkTables
  <2>2. pc[w] = "update" /\ mapping' = {IF m.token = TokenOf(w) THEN RowOf(w) ELSE m : m \in mapping}
    BY <2>1 DEF Writes
  <2>3. row.token = TokenOf(w)
    BY <2>1, <2>2
  <2>4. RowOf(w) \in Meanings /\ row \in Meanings /\ row \in Mapping
    BY <2>1, <2>2 DEF Meanings, Held, Holding, Typed, Shapes
  <2>5. row = RowOf(w)
    BY <2>3, <2>4 DEF OneValue, RowOf, Mapping
  <2>. QED BY <2>1, <2>2, <2>3, <2>5
<1>2. ASSUME NEW e \in Erasure, Forget(e)
      PROVE  epc[e] # "idle" /\ row.token \in erase[e].todo
  <2>1. EraseMoves(e) /\ EraseOK(e)
    BY <1>2, EraseStep DEF Typed
  <2>. QED BY <2>1 DEF EraseMoves, FindsNone, Begins, Unmaps, Unlinks, Abandons, EraseOK, tables
<1>3. CASE UNCHANGED vars
  BY <1>3 DEF vars, tables
<1>. QED BY <1>1, <1>2, <1>3 DEF Next

\* Whatever runs, a row is removed only by an erasure that found its token linked to its
\* subject: never one of the same placeholder in another container, and never by a walk.
THEOREM ErasuresSpareNamesakes == Spec => SparesNamesakes
<1>1. Typed /\ OneValue /\ [Next]_vars =>
        [\A row \in (mapping \ mapping') \cup (junction \ junction') :
           \E e \in Erasure : epc[e] # "idle" /\ row.token \in erase[e].todo]_vars
  BY OnlyErasuresRemove
<1>. QED BY <1>1, AlwaysTyped, AlwaysOneValue, PTL DEF Spec, SparesNamesakes
================================================================================
