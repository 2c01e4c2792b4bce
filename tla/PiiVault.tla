-------------------------------- MODULE PiiVault --------------------------------
(***************************************************************************)
(* The placeholders of personal values (redact.ts) and the durable store   *)
(* that maps them back (pii.ts).  A walk redacts one detected span: it      *)
(* looks the value up or mints a placeholder, saves the mapping and links   *)
(* it to the data subjects of its context.  An erasure deletes every        *)
(* mapping its subject is linked to.  Walks and erasures overlap, since     *)
(* nothing but single statements is atomic, and may fail between any two.   *)
(*                                                                         *)
(* A text with several spans is several walks, one after the other or, for *)
(* the elements of an array, concurrently.  A value stands for the value   *)
(* and its kind, which are hashed together.                                *)
(***************************************************************************)
EXTENDS FiniteSets, Naturals

CONSTANTS
  Walk,         \* redactions under way, of one process or of several
  Erasure,      \* calls of deleteForSubject under way
  Value,        \* personal values
  Place,        \* placeholders
  Container,    \* the (scope, scopeId) pairs; every context names one here
  Subject,      \* data subjects
  None,
  Setup         \* the deployments, each with its traffic

\* keyed: there is an indexKey.  The values and containers that turn up.  Bounds: how many
\* spans are redacted, and how many erasures are asked for.
Settings == [keyed : BOOLEAN, values : SUBSET Value, conts : SUBSET Container,
             maxSpans : Nat, maxErasures : Nat]

ASSUME VaultAssumption ==
  /\ None \notin Place \cup Container \cup Subject \cup Value
  /\ Setup \subseteq Settings

VARIABLES
  config,       \* the setup of this behaviour
  mapping,      \* the pii_mapping rows
  junction,     \* the pii_subject rows
  pc, span,     \* of each walk: its next statement, and what it redacts
  epc, erase,   \* of each erasure: its next statement, and its tokens
  spans, erasures,
  drawn,        \* history: the tokens minted so far, ...
  issued,       \* ... the texts with a token that redactText returned, ...
  contested,    \* ... the tokens erased between a walk's lookup and its save, ...
  erased        \* ... and those that an erasure was answerable for when it succeeded

walkVars == <<pc, span, spans>>
eraseVars == <<epc, erase, erasures>>
tables == <<mapping, junction>>
history == <<drawn, issued, contested, erased>>
vars == <<config, tables, walkVars, eraseVars, history>>

\* A placeholder names a value only within a container.
Token == [place : Place, cont : Container]
Mapping == [token : Token, value : Value]
Link == [token : Token, subject : Subject]
Text == [token : Token, value : Value, subjects : SUBSET Subject]

\* left: the subjects that are not linked yet; the next one is subject.
NewSpan(value, cont, subjects) ==
  [value |-> value, cont |-> cont, place |-> None, subjects |-> subjects, left |-> subjects,
   subject |-> None]
NoSpan == NewSpan(None, None, {})

\* todo: the tokens that are left; the links of token are deleted next.
NewErase(todo, due) == [token |-> None, todo |-> todo, due |-> due]
NoErase == NewErase({}, {})

Init ==
  /\ config \in Setup
  /\ mapping = {} /\ junction = {}
  /\ pc = [w \in Walk |-> "idle"]
  /\ span = [w \in Walk |-> NoSpan]
  /\ epc = [e \in Erasure |-> "idle"]
  /\ erase = [e \in Erasure |-> NoErase]
  /\ spans = 0 /\ erasures = 0
  /\ drawn = {} /\ issued = {} /\ contested = {} /\ erased = {}

Goto(w, label) == pc' = [pc EXCEPT ![w] = label]

TokenOf(w) == [place |-> span[w].place, cont |-> span[w].cont]

\* Mutant: a row is found by its placeholder alone.
SameRow_Anywhere(row, token) == row.token.place = token.place
\* sameContainer, mappingWhere and subjectContainerWhere: the placeholder in its container.
SameRow(row, token) == row.token = token

Resolves(token) == \E m \in mapping : m.token = token

----------------------------------------------------------------------------
(* redactText, for one span.                                               *)

Detect(w, value, cont, subjects) ==
  /\ pc[w] = "idle"
  /\ spans < config.maxSpans
  /\ spans' = spans + 1
  /\ span' = [span EXCEPT ![w] = NewSpan(value, cont, subjects)]
  /\ Goto(w, IF config.keyed THEN "lookup" ELSE "mint")
  /\ UNCHANGED <<config, tables, eraseVars, history>>

\* The text is returned, with the token in the place of the value.
Return(w, token) ==
  /\ issued' = issued \cup
       {[token |-> token, value |-> span[w].value, subjects |-> span[w].subjects]}
  /\ Goto(w, "idle")
  /\ span' = [span EXCEPT ![w] = NoSpan]

\* Mutant: a placeholder that is used again is not linked to the new subjects.
ToLink_None(w) == {}
ToLink(w) == span[w].subjects

\* findByHash.  A value that is known in the container keeps its placeholder, and is
\* saved again only for its subjects.
Lookup(w) ==
  /\ pc[w] = "lookup"
  /\ LET known == {m \in mapping : m.value = span[w].value /\ m.token.cont = span[w].cont} IN
       \/ known = {} /\ Goto(w, "mint") /\ UNCHANGED <<span, issued>>
       \/ \E m \in known :
            \/ ToLink(w) = {} /\ Return(w, m.token)
            \/ /\ ToLink(w) # {}
               /\ span' = [span EXCEPT ![w].place = m.token.place]
               /\ Goto(w, "save")
               /\ UNCHANGED issued
  /\ UNCHANGED <<config, tables, spans, eraseVars, drawn, contested, erased>>

\* A random code: of 33 bits or more, so it is never one that another walk has drawn and
\* not saved yet, or one that was erased.
Drawable(token) == token \notin drawn \/ Resolves(token)

\* Mutant: a code is not looked up before it is used.
Unused_Any(token) == TRUE
\* mintPlaceholder: a code is unused if it resolves to nothing in the container.
Unused(token) == ~ Resolves(token)

Mint(w, place) ==
  LET token == [place |-> place, cont |-> span[w].cont] IN
  /\ pc[w] = "mint"
  /\ Drawable(token) /\ Unused(token)
  /\ drawn' = drawn \cup {token}
  /\ span' = [span EXCEPT ![w].place = place]
  /\ Goto(w, "save")
  /\ UNCHANGED <<config, tables, spans, eraseVars, issued, contested, erased>>

\* save: is there a row?
SaveRead(w) ==
  /\ pc[w] = "save"
  /\ Goto(w, IF \E m \in mapping : SameRow(m, TokenOf(w)) THEN "update" ELSE "create")
  /\ UNCHANGED <<config, tables, span, spans, eraseVars, history>>

Ends(left) == left = {}

\* The next subject, or the end of save.
NextLink(w, left) ==
  \/ Ends(left) /\ Return(w, TokenOf(w))
  \/ /\ ~ Ends(left)
     /\ span' = [span EXCEPT ![w].left = left]
     /\ Goto(w, "find")
     /\ UNCHANGED issued

\* The update of a row that was deleted in the meantime changes nothing.
SaveWrite(w) ==
  LET row == [token |-> TokenOf(w), value |-> span[w].value] IN
  /\ \/ /\ pc[w] = "update"
        /\ mapping' = {IF SameRow(m, TokenOf(w)) THEN row ELSE m : m \in mapping}
     \/ pc[w] = "create" /\ mapping' = mapping \cup {row}
  /\ NextLink(w, span[w].left)
  /\ UNCHANGED <<config, junction, spans, eraseVars, drawn, contested, erased>>

\* The junction is a set: a subject that is linked already is passed over.
LinkRead(w, subject) ==
  /\ pc[w] = "find"
  /\ subject \in span[w].left
  /\ \/ /\ \E l \in junction : SameRow(l, TokenOf(w)) /\ l.subject = subject
        /\ NextLink(w, span[w].left \ {subject})
     \/ /\ ~ \E l \in junction : SameRow(l, TokenOf(w)) /\ l.subject = subject
        /\ span' = [span EXCEPT ![w].subject = subject]
        /\ Goto(w, "link")
        /\ UNCHANGED issued
  /\ UNCHANGED <<config, tables, spans, eraseVars, drawn, contested, erased>>

LinkCreate(w) ==
  /\ pc[w] = "link"
  /\ junction' = junction \cup {[token |-> TokenOf(w), subject |-> span[w].subject]}
  /\ NextLink(w, span[w].left \ {span[w].subject})
  /\ UNCHANGED <<config, mapping, spans, eraseVars, drawn, contested, erased>>

\* A statement fails or the process dies: the text is not returned.
WalkFails(w) ==
  /\ pc[w] # "idle"
  /\ Goto(w, "idle")
  /\ span' = [span EXCEPT ![w] = NoSpan]
  /\ UNCHANGED <<config, tables, spans, eraseVars, history>>

----------------------------------------------------------------------------
(* deleteForSubject.                                                       *)

EGoto(e, label) == epc' = [epc EXCEPT ![e] = label]

\* The tokens of the texts about subject that were returned so far.
Due(subject) == {t.token : t \in {u \in issued : subject \in u.subjects}}

EraseRead(e, subject) ==
  /\ epc[e] = "idle"
  /\ erasures < config.maxErasures
  /\ erasures' = erasures + 1
  /\ LET todo == {l.token : l \in {k \in junction : k.subject = subject}} IN
       \/ /\ todo = {}
          /\ erased' = erased \cup Due(subject)
          /\ UNCHANGED <<epc, erase>>
       \/ /\ todo # {}
          /\ erase' = [erase EXCEPT ![e] = NewErase(todo, Due(subject))]
          /\ EGoto(e, "mapping")
          /\ UNCHANGED erased
  /\ UNCHANGED <<config, tables, walkVars, drawn, issued, contested>>

\* Mutant: a value that is about two subjects is kept.
Shredded_Unshared(m, token) ==
  SameRow(m, token) /\ \A k, l \in junction : k.token = token /\ l.token = token => k = l
Shredded(m, token) == SameRow(m, token)

\* A walk that found the token by its hash, and is about to save it.
Reuses(w, token) == pc[w] \in {"save", "create"} /\ TokenOf(w) = token

\* The mapping of the next token is deleted, ...
EraseMapping(e, token) ==
  /\ epc[e] = "mapping"
  /\ token \in erase[e].todo
  /\ mapping' = {m \in mapping : ~ Shredded(m, token)}
  /\ contested' = IF \E w \in Walk : Reuses(w, token) THEN contested \cup {token} ELSE contested
  /\ erase' = [erase EXCEPT ![e].token = token]
  /\ EGoto(e, "links")
  /\ UNCHANGED <<config, junction, walkVars, erasures, drawn, issued, erased>>
\* ... and then all its links.
EraseLinks(e) ==
  /\ epc[e] = "links"
  /\ junction' = {l \in junction : ~ SameRow(l, erase[e].token)}
  /\ LET todo == erase[e].todo \ {erase[e].token} IN
       \/ /\ todo = {}
          /\ erased' = erased \cup erase[e].due
          /\ erase' = [erase EXCEPT ![e] = NoErase]
          /\ EGoto(e, "idle")
       \/ /\ todo # {}
          /\ erase' = [erase EXCEPT ![e] = NewErase(todo, erase[e].due)]
          /\ EGoto(e, "mapping")
          /\ UNCHANGED erased
  /\ UNCHANGED <<config, mapping, walkVars, erasures, drawn, issued, contested>>

\* The erasure did not succeed; it may be asked for again.
EraseFails(e) ==
  /\ epc[e] # "idle"
  /\ EGoto(e, "idle")
  /\ erase' = [erase EXCEPT ![e] = NoErase]
  /\ UNCHANGED <<config, tables, walkVars, erasures, history>>

----------------------------------------------------------------------------
Redact(w) ==
  \/ \E value \in config.values, cont \in config.conts, subjects \in SUBSET Subject :
       Detect(w, value, cont, subjects)
  \/ Lookup(w)
  \/ \E place \in Place : Mint(w, place)
  \/ SaveRead(w) \/ SaveWrite(w)
  \/ \E subject \in Subject : LinkRead(w, subject)
  \/ LinkCreate(w)
  \/ WalkFails(w)

Forget(e) ==
  \/ \E subject \in Subject : EraseRead(e, subject)
  \/ \E token \in Token : EraseMapping(e, token)
  \/ EraseLinks(e)
  \/ EraseFails(e)

Next == (\E w \in Walk : Redact(w)) \/ (\E e \in Erasure : Forget(e))

Spec == Init /\ [][Next]_vars

----------------------------------------------------------------------------
(* Properties.                                                             *)

Holding == {"save", "update", "create", "find", "link"}

TypeOK ==
  /\ config \in Setup
  /\ mapping \subseteq Mapping /\ junction \subseteq Link
  /\ pc \in [Walk -> {"idle", "lookup", "mint"} \cup Holding]
  /\ span \in [Walk -> [value : Value \cup {None}, cont : Container \cup {None},
                       place : Place \cup {None}, subjects : SUBSET Subject,
                       left : SUBSET Subject, subject : Subject \cup {None}]]
  /\ \A w \in Walk :
       /\ pc[w] # "idle" => span[w].value \in Value /\ span[w].cont \in Container
       /\ pc[w] \in Holding => TokenOf(w) \in drawn
       /\ pc[w] \in {"find", "link"} => span[w].left # {}
       /\ pc[w] = "link" => span[w].subject \in span[w].left
       /\ span[w].left \subseteq span[w].subjects
  /\ epc \in [Erasure -> {"idle", "mapping", "links"}]
  /\ erase \in [Erasure -> [token : Token \cup {None}, todo : SUBSET Token, due : SUBSET Token]]
  /\ \A e \in Erasure : epc[e] = "links" => erase[e].token \in erase[e].todo
  /\ spans \in 0..config.maxSpans /\ erasures \in 0..config.maxErasures
  /\ drawn \subseteq Token /\ issued \subseteq Text
  /\ contested \subseteq drawn /\ erased \subseteq drawn

\* A token always means the value it was issued for, also when the vault has forgotten it
\* in the meantime, and whichever other container uses the same placeholder.
TokenMeansItsValue ==
  \A t \in issued : \A m \in mapping : m.token = t.token => m.value = t.value

\* As long as the vault can map the token of a text back, each subject of the text is
\* linked to it, so that an erasure of any of them reaches it, however walks and erasures
\* of other subjects overlap or fail.  Excepted are tokens that were erased between a
\* walk's lookup and its save.
ErasureReaches ==
  \A t \in issued : t.token \notin contested /\ Resolves(t.token) =>
    \A s \in t.subjects : [token |-> t.token, subject |-> s] \in junction

\* After an erasure of a subject has succeeded, no token of an earlier text about it is
\* mapped back ever again, with the same exception.
ErasedIsGone == \A t \in erased \ contested : ~ Resolves(t)

\* An erasure removes only mappings and links of the tokens that it found linked to its
\* subject, and none of the same placeholder in another container.
SparesNamesakes ==
  [][\A row \in (mapping \ mapping') \cup (junction \ junction') :
       \E e \in Erasure : epc[e] # "idle" /\ row.token \in erase[e].todo]_vars

\* What redact-coherence.test.ts asks for without the exception: erased mappings never
\* resurrect, since a value that comes back gets a new token.
ErasedForGood == \A t \in erased : ~ Resolves(t)

================================================================================
