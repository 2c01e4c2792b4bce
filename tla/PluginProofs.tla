------------------------------ MODULE PluginProofs ------------------------------
(***************************************************************************)
(* Proofs about the channels and the secrets plugins and the tool          *)
(* registry, for any number of bots, keys, hooks, registrations and        *)
(* requests; of owners, names, values, calls and rungs of the chain; of    *)
(* registrations, tools, documents and overrides; and about the requests   *)
(* that a document's tools send, for any document.                         *)
(***************************************************************************)
EXTENDS Components, FiniteSetTheorems, SequenceTheorems, WellFoundedInduction, TLAPS

----------------------------------------------------------------------------
(* Which bot a webhook is for.                                             *)

Token == ChannelBotToken \cup ChannelUserToken \cup {None}

\* The statements of a registration behind the check of its hook.
Checked == {"key", "patch", "create"}
Answering == {"verify", "handle"}

CallRecord ==
  [pc : {"idle", "secret", "key", "patch", "create", "done"},
   key : ChannelKey \cup {None}, hook : ChannelHook \cup {None},
   token : ChannelUserToken \cup {None}]

\* A registration under way has a key and a hook, and patches only a row that is there.
RegistrarOK ==
  /\ registrar \in [ChannelRegistrar -> CallRecord]
  /\ \A c \in ChannelRegistrar :
       /\ registrar[c].pc \in {"secret"} \cup Checked =>
            registrar[c].key \in ChannelKey /\ registrar[c].hook \in ChannelHook
       /\ registrar[c].pc = "patch" => registration[registrar[c].key] # None

BindingKeys == {Channels!BindingKey(k) : k \in ChannelKey}

RequestRecord ==
  [pc : {"idle", "unknown", "lookup", "verify", "threw", "unauthorized", "handle", "done"},
   path : {"bot", "user", None},
   echo : ChannelHook \cup {None} \cup {Channels!Derived(t) : t \in ChannelBotToken \cup ChannelUserToken},
   found : ChannelBot \cup ChannelKey \cup {None},
   key : {<<b>> : b \in ChannelBot \cup ChannelKey} \cup BindingKeys \cup {None},
   hook : ChannelHook \cup {None}, token : ChannelUserToken \cup {None},
   answeredWith : Token]

\* A request for a user's bot is bound under the key of its registration, which is no bot's key,
\* and goes by a token that was given to that registration; one for a bot goes by its name.
Bound(self) ==
  /\ self.path = "user" => self.key \in BindingKeys \cup {None}
  /\ self.pc = "lookup" => self.path = "user" /\ self.answeredWith = None
  /\ self.pc \in Answering =>
       \/ self.path = "bot" /\ self.found \in ChannelBot /\ self.key = <<self.found>>
       \/ /\ self.path = "user" /\ self.found \in ChannelKey
          /\ self.key = Channels!BindingKey(self.found)
          /\ <<"user", self.found, self.token>> \in tokensGiven
  /\ self.answeredWith # None => <<self.path, self.found, self.answeredWith>> \in tokensGiven

RequestOK ==
  /\ request \in [ChannelRequest -> RequestRecord]
  /\ \A r \in ChannelRequest : Bound(request[r])

\* What a bot or a registration goes by was given to it.
GivenOK ==
  /\ \A b \in ChannelBot : <<"bot", b, secret[b]>> \in tokensGiven
  /\ \A b \in ChannelBot : memo[b] # "unresolved" => <<"bot", b, memo[b]>> \in tokensGiven
  /\ \A k \in ChannelKey : registration[k] # None => <<"user", k, registration[k].token>> \in tokensGiven

\* Of two registrations behind the check with the same hook, the later one saw the other; and a
\* row of the same hook was written after the check.
HookOK ==
  \A c \in ChannelRegistrar : registrar[c].pc \in Checked =>
    /\ \A d \in ChannelRegistrar :
         (/\ registrar[d].pc \in Checked /\ registrar[d].hook = registrar[c].hook
          /\ registrar[d].key # registrar[c].key) => registrar[c].hook \in contestedHooks
    /\ \A l \in ChannelKey :
         (/\ l # registrar[c].key /\ registration[l] # None
          /\ registration[l].hook = registrar[c].hook) => registrar[c].hook \in contestedHooks

ChannelInv ==
  /\ Channels!TypeOK /\ RegistrarOK /\ RequestOK /\ GivenOK
  /\ HookOK /\ Channels!OneOwnerPerHook

LEMMA ChannelsInit == Channels!Init => ChannelInv
<1>. SUFFICES ASSUME Channels!Init PROVE ChannelInv
  OBVIOUS
<1>1. Channels!TypeOK
  BY DEF Channels!Init, Channels!TypeOK, Channels!Idle, Channels!Unsent, Channels!Resolved
<1>2. RegistrarOK
  BY DEF Channels!Init, RegistrarOK, CallRecord, Channels!Idle, Checked
<1>3. RequestOK
  BY DEF Channels!Init, RequestOK, RequestRecord, Bound, Channels!Unsent, Answering, Token
<1>4. GivenOK
  BY DEF Channels!Init, GivenOK
<1>5. HookOK /\ Channels!OneOwnerPerHook
  BY DEF Channels!Init, HookOK, Channels!OneOwnerPerHook, Channels!Idle, Checked
<1>. QED BY <1>1, <1>2, <1>3, <1>4, <1>5 DEF ChannelInv

\* A row that is written is a row, of the registration's hook.
LEMMA WritesRow ==
  ASSUME ChannelInv, NEW c \in ChannelRegistrar, registrar[c].pc \in {"patch", "create"},
         NEW token \in ChannelUserToken \cup {None},
         registration' = [registration EXCEPT ![registrar[c].key] = Channels!Row(c, token)],
         tokensGiven' = tokensGiven \cup {<<"user", registrar[c].key, token>>},
         Channels!Finish(c), UNCHANGED <<secret, memo, request, contestedHooks>>
  PROVE  ChannelInv'
<1> DEFINE key == registrar[c].key
           row == [status |-> "active", hook |-> registrar[c].hook, token |-> token]
<1>1. key \in ChannelKey /\ registrar[c].hook \in ChannelHook /\ registrar[c].pc \in Checked
  BY DEF ChannelInv, RegistrarOK, Checked
<1>2. row \in Channels!Registration /\ row # None
  BY <1>1, ChannelsChannelAssumption DEF Channels!ChannelAssumption, Channels!Registration
<1>3. /\ registration' \in [ChannelKey -> Channels!Registration \cup {None}]
      /\ registration'[key] = row
      /\ \A l \in ChannelKey \ {key} : registration'[l] = registration[l]
  BY <1>1, <1>2 DEF ChannelInv, Channels!TypeOK, Channels!Row
<1>4. /\ registrar' \in [ChannelRegistrar -> CallRecord]
      /\ registrar'[c].pc = "done"
      /\ \A d \in ChannelRegistrar \ {c} : registrar'[d] = registrar[d]
  BY DEF ChannelInv, RegistrarOK, CallRecord, Channels!Finish, Channels!Idle
<1>5. Channels!TypeOK'
  <2>1. \A d \in ChannelRegistrar :
          registrar'[d].pc \in {"idle", "secret", "key", "patch", "create", "done"}
    BY <1>4 DEF CallRecord
  <2>. QED BY <1>3, <2>1 DEF ChannelInv, Channels!TypeOK
<1>6. RegistrarOK'
  BY <1>2, <1>3, <1>4 DEF ChannelInv, RegistrarOK, Checked
<1>7. RequestOK'
  BY DEF ChannelInv, RequestOK, Bound
<1>8. GivenOK'
  BY <1>1, <1>3 DEF ChannelInv, GivenOK
<1>9. HookOK'
  BY <1>1, <1>3, <1>4 DEF ChannelInv, HookOK, Checked
<1>10. Channels!OneOwnerPerHook'
  BY <1>1, <1>3 DEF ChannelInv, HookOK, Channels!OneOwnerPerHook
<1>. QED BY <1>5, <1>6, <1>7, <1>8, <1>9, <1>10 DEF ChannelInv

\* A registration that goes on without writing anything.
LEMMA RegistrarGoes ==
  ASSUME ChannelInv, NEW c \in ChannelRegistrar, NEW record \in CallRecord,
         registrar' = [registrar EXCEPT ![c] = record],
         record.pc \in {"secret"} \cup Checked =>
           record.key \in ChannelKey /\ record.hook \in ChannelHook,
         record.pc = "patch" => registration[record.key] # None,
         contestedHooks \subseteq contestedHooks', contestedHooks' \subseteq ChannelHook,
         record.pc \in Checked =>
           /\ \A d \in ChannelRegistrar \ {c} :
                (/\ registrar[d].pc \in Checked /\ registrar[d].hook = record.hook
                 /\ registrar[d].key # record.key) => record.hook \in contestedHooks'
           /\ \A l \in ChannelKey :
                (/\ l # record.key /\ registration[l] # None
                 /\ registration[l].hook = record.hook) => record.hook \in contestedHooks',
         UNCHANGED <<registration, secret, memo, request, tokensGiven>>
  PROVE  ChannelInv'
<1>1. /\ registrar' \in [ChannelRegistrar -> CallRecord]
      /\ registrar'[c] = record
      /\ \A d \in ChannelRegistrar \ {c} : registrar'[d] = registrar[d]
  BY DEF ChannelInv, RegistrarOK
<1>2. Channels!TypeOK'
  <2>1. \A d \in ChannelRegistrar :
          registrar'[d].pc \in {"idle", "secret", "key", "patch", "create", "done"}
    BY <1>1 DEF CallRecord
  <2>. QED BY <2>1 DEF ChannelInv, Channels!TypeOK
<1>3. RegistrarOK'
  BY <1>1 DEF ChannelInv, RegistrarOK
<1>4. RequestOK' /\ GivenOK'
  BY DEF ChannelInv, RequestOK, Bound, GivenOK
<1>5. HookOK'
  <2>. SUFFICES ASSUME NEW d \in ChannelRegistrar, registrar'[d].pc \in Checked
                PROVE  /\ \A e \in ChannelRegistrar :
                            (/\ registrar'[e].pc \in Checked /\ registrar'[e].hook = registrar'[d].hook
                             /\ registrar'[e].key # registrar'[d].key)
                              => registrar'[d].hook \in contestedHooks'
                       /\ \A l \in ChannelKey :
                            (/\ l # registrar'[d].key /\ registration[l] # None
                             /\ registration[l].hook = registrar'[d].hook)
                              => registrar'[d].hook \in contestedHooks'
    BY DEF HookOK
  <2>1. CASE d = c
    BY <1>1, <2>1
  <2>2. CASE d # c
    BY <1>1, <2>2 DEF ChannelInv, HookOK
  <2>. QED BY <2>1, <2>2
<1>6. Channels!OneOwnerPerHook'
  BY DEF ChannelInv, Channels!OneOwnerPerHook
<1>. QED BY <1>2, <1>3, <1>4, <1>5, <1>6 DEF ChannelInv

LEMMA RegistrarStep ==
  ASSUME ChannelInv, NEW c \in ChannelRegistrar,
         \/ \E key \in ChannelKey \cup ChannelMalformed, hook \in ChannelHook,
               token \in ChannelUserToken \cup {None} : Channels!Register(c, key, hook, token)
         \/ Channels!CheckSecret(c) \/ Channels!CheckKey(c)
         \/ Channels!Patch(c) \/ Channels!Create(c)
  PROVE  ChannelInv'
<1> DEFINE self == registrar[c]
<1>0. self \in CallRecord
  BY DEF ChannelInv, RegistrarOK
<1>1. ASSUME NEW place \in {"key", "patch", "create"}
      PROVE  /\ [self EXCEPT !.pc = place] \in CallRecord
             /\ [self EXCEPT !.pc = place].pc = place
             /\ [self EXCEPT !.pc = place].key = self.key
             /\ [self EXCEPT !.pc = place].hook = self.hook
  BY <1>0 DEF CallRecord
<1>2. ASSUME NEW place, Channels!Go(c, place)
      PROVE  registrar' = [registrar EXCEPT ![c] = [self EXCEPT !.pc = place]]
  BY <1>2 DEF Channels!Go
<1>3. /\ [Channels!Idle EXCEPT !.pc = "done"] \in CallRecord
      /\ [Channels!Idle EXCEPT !.pc = "done"].pc = "done"
  BY DEF Channels!Idle, CallRecord
<1>4. ASSUME NEW key \in ChannelKey \cup ChannelMalformed, NEW hook \in ChannelHook,
             NEW token \in ChannelUserToken \cup {None}, Channels!Register(c, key, hook, token)
      PROVE  ChannelInv'
  <2>1. CASE key \in ChannelMalformed
    <3>1. registrar' = [registrar EXCEPT ![c] = [Channels!Idle EXCEPT !.pc = "done"]]
      BY <1>4, <2>1 DEF Channels!Register, Channels!Finish
    <3>. QED
      BY <1>3, <1>4, <3>1, RegistrarGoes DEF Channels!Register, Checked, ChannelInv, Channels!TypeOK
  <2>2. CASE key \notin ChannelMalformed
    <3> DEFINE record == [pc |-> "secret", key |-> key, hook |-> hook, token |-> token]
    <3>1. registrar' = [registrar EXCEPT ![c] = record]
      BY <1>4, <2>2 DEF Channels!Register
    <3>2. record \in CallRecord /\ record.key \in ChannelKey /\ record.hook \in ChannelHook
      BY <2>2 DEF CallRecord
    <3>. QED
      BY <1>4, <3>1, <3>2, RegistrarGoes DEF Channels!Register, Checked, ChannelInv, Channels!TypeOK
  <2>. QED BY <2>1, <2>2
<1>5. CASE Channels!CheckSecret(c)
  <2>1. self.pc = "secret" /\ self.key \in ChannelKey /\ self.hook \in ChannelHook
    BY <1>5 DEF Channels!CheckSecret, ChannelInv, RegistrarOK
  <2>2. CASE /\ Channels!Owners(self.hook) = {} \/ self.key \in Channels!Owners(self.hook)
             /\ Channels!Go(c, "key")
             /\ contestedHooks' = contestedHooks \cup
                  {h \in {self.hook} : \E d \in ChannelRegistrar : Channels!Claims(c, d)}
    <3> DEFINE record == [self EXCEPT !.pc = "key"]
    <3>1. registrar' = [registrar EXCEPT ![c] = record]
      BY <1>2, <2>2
    <3>2. record \in CallRecord /\ record.pc = "key" /\ record.key = self.key /\ record.hook = self.hook
      BY <1>1
    <3>3. contestedHooks \subseteq contestedHooks' /\ contestedHooks' \subseteq ChannelHook
      BY <2>1, <2>2 DEF ChannelInv, Channels!TypeOK
    <3>4. \A d \in ChannelRegistrar \ {c} :
            (/\ registrar[d].pc \in Checked /\ registrar[d].hook = self.hook
             /\ registrar[d].key # self.key) => self.hook \in contestedHooks'
      BY <2>2 DEF Channels!Claims, Checked
    <3>5. \A l \in ChannelKey :
            (/\ l # self.key /\ registration[l] # None
             /\ registration[l].hook = self.hook) => self.hook \in contestedHooks'
      BY <2>1, <2>2, <3>3 DEF Channels!Owners, ChannelInv, Channels!OneOwnerPerHook
    <3>. HIDE DEF record
    <3>. QED
      BY <1>5, <2>1, <3>1, <3>2, <3>3, <3>4, <3>5, RegistrarGoes DEF Channels!CheckSecret, Checked
  <2>3. CASE Channels!Finish(c) /\ UNCHANGED contestedHooks
    BY <1>3, <1>5, <2>3, RegistrarGoes
    DEF Channels!CheckSecret, Channels!Finish, Checked, ChannelInv, Channels!TypeOK
  <2>. QED BY <1>5, <2>2, <2>3 DEF Channels!CheckSecret
<1>6. CASE Channels!CheckKey(c)
  <2> DEFINE place == IF registration[self.key] = None THEN "create" ELSE "patch"
             record == [self EXCEPT !.pc = place]
  <2>1. registrar' = [registrar EXCEPT ![c] = record]
    BY <1>2, <1>6 DEF Channels!CheckKey
  <2>2. record \in CallRecord /\ record.pc = place /\ record.key = self.key /\ record.hook = self.hook
    BY <1>1
  <2>3. self.pc = "key" /\ self.key \in ChannelKey /\ self.hook \in ChannelHook
    BY <1>6 DEF Channels!CheckKey, ChannelInv, RegistrarOK, Checked
  <2>4. contestedHooks' = contestedHooks /\ contestedHooks \subseteq ChannelHook
    BY <1>6 DEF Channels!CheckKey, ChannelInv, Channels!TypeOK
  <2>5. /\ \A d \in ChannelRegistrar \ {c} :
             (/\ registrar[d].pc \in Checked /\ registrar[d].hook = self.hook
              /\ registrar[d].key # self.key) => self.hook \in contestedHooks
        /\ \A l \in ChannelKey :
             (/\ l # self.key /\ registration[l] # None
              /\ registration[l].hook = self.hook) => self.hook \in contestedHooks
    BY <2>3 DEF ChannelInv, HookOK, Checked
  <2>. HIDE DEF record
  <2>. QED
    BY <1>6, <2>1, <2>2, <2>3, <2>4, <2>5, RegistrarGoes DEF Channels!CheckKey, Checked
<1>7. CASE Channels!Patch(c)
  <2> DEFINE token == IF self.token = None THEN registration[self.key].token ELSE self.token
  <2>1. self.key \in ChannelKey /\ registration[self.key] # None
    BY <1>7 DEF Channels!Patch, ChannelInv, RegistrarOK, Checked
  <2>2. token \in ChannelUserToken \cup {None}
    BY <1>0, <2>1 DEF ChannelInv, Channels!TypeOK, Channels!Registration, CallRecord
  <2>. QED BY <1>7, <2>2, WritesRow DEF Channels!Patch
<1>8. CASE Channels!Create(c)
  <2>1. self.token \in ChannelUserToken \cup {None}
    BY <1>0 DEF CallRecord
  <2>2. CASE registration[self.key] = None
    BY <1>8, <2>1, <2>2, WritesRow DEF Channels!Create
  <2>3. CASE registration[self.key] # None
    <3> DEFINE record == [self EXCEPT !.pc = "patch"]
    <3>1. registrar' = [registrar EXCEPT ![c] = record]
      BY <1>2, <1>8, <2>3 DEF Channels!Create
    <3>2. record \in CallRecord /\ record.pc = "patch" /\ record.key = self.key /\ record.hook = self.hook
      BY <1>1
    <3>3. self.pc = "create" /\ self.key \in ChannelKey /\ self.hook \in ChannelHook
      BY <1>8 DEF Channels!Create, ChannelInv, RegistrarOK, Checked
    <3>4. contestedHooks' = contestedHooks /\ contestedHooks \subseteq ChannelHook
      BY <1>8 DEF Channels!Create, ChannelInv, Channels!TypeOK
    <3>5. /\ \A d \in ChannelRegistrar \ {c} :
               (/\ registrar[d].pc \in Checked /\ registrar[d].hook = self.hook
                /\ registrar[d].key # self.key) => self.hook \in contestedHooks
          /\ \A l \in ChannelKey :
               (/\ l # self.key /\ registration[l] # None
                /\ registration[l].hook = self.hook) => self.hook \in contestedHooks
      BY <3>3 DEF ChannelInv, HookOK, Checked
    <3>. HIDE DEF record
    <3>. QED
      BY <1>8, <2>3, <3>1, <3>2, <3>3, <3>4, <3>5, RegistrarGoes DEF Channels!Create, Checked
  <2>. QED BY <2>2, <2>3
<1>. QED BY <1>4, <1>5, <1>6, <1>7, <1>8

\* A row that is disabled keeps its hook and its token.
LEMMA RevokeStep ==
  ASSUME ChannelInv, NEW key \in ChannelKey, Channels!Revoke(key)
  PROVE  ChannelInv'
<1>1. registration[key] # None /\ registration[key] \in Channels!Registration
  BY DEF Channels!Revoke, ChannelInv, Channels!TypeOK
<1> DEFINE row == [registration[key] EXCEPT !.status = "disabled"]
<1>2. /\ row \in Channels!Registration /\ row # None
      /\ row.hook = registration[key].hook /\ row.token = registration[key].token
  BY <1>1, ChannelsChannelAssumption DEF Channels!ChannelAssumption, Channels!Registration
<1>3. registration' = [registration EXCEPT ![key] = row]
  BY DEF Channels!Revoke
<1>. HIDE DEF row
<1>4. /\ registration' \in [ChannelKey -> Channels!Registration \cup {None}]
      /\ registration'[key] = row
      /\ \A l \in ChannelKey \ {key} : registration'[l] = registration[l]
  BY <1>2, <1>3 DEF ChannelInv, Channels!TypeOK
<1>5. UNCHANGED <<registrar, secret, memo, request, tokensGiven, contestedHooks>>
  BY DEF Channels!Revoke
<1>6. Channels!TypeOK'
  BY <1>4, <1>5 DEF ChannelInv, Channels!TypeOK
<1>7. RegistrarOK'
  BY <1>2, <1>4, <1>5 DEF ChannelInv, RegistrarOK, Checked
<1>8. RequestOK' /\ GivenOK'
  BY <1>1, <1>2, <1>4, <1>5 DEF ChannelInv, RequestOK, Bound, GivenOK
<1>9. HookOK'
  BY <1>1, <1>2, <1>4, <1>5 DEF ChannelInv, HookOK
<1>10. Channels!OneOwnerPerHook'
  BY <1>1, <1>2, <1>4, <1>5 DEF ChannelInv, Channels!OneOwnerPerHook
<1>. QED BY <1>6, <1>7, <1>8, <1>9, <1>10 DEF ChannelInv

\* A request that goes on; it leaves in a memo what it found in the secret.
LEMMA RequestGoes ==
  ASSUME ChannelInv, NEW r \in ChannelRequest, NEW record \in RequestRecord, Bound(record),
         request' = [request EXCEPT ![r] = record],
         memo' \in [ChannelBot -> Channels!Resolved],
         \A b \in ChannelBot : memo'[b] # "unresolved" => <<"bot", b, memo'[b]>> \in tokensGiven,
         UNCHANGED <<registration, registrar, tokensGiven, contestedHooks, secret>>
  PROVE  ChannelInv'
<1>1. request' \in [ChannelRequest -> RequestRecord] /\ request'[r] = record
  BY DEF ChannelInv, RequestOK
<1>2. \A s \in ChannelRequest \ {r} : request'[s] = request[s]
  BY DEF ChannelInv, RequestOK
<1>3. Channels!TypeOK'
  <2>1. \A s \in ChannelRequest : request'[s].pc \in
          {"idle", "unknown", "lookup", "verify", "threw", "unauthorized", "handle", "done"}
    BY <1>1 DEF RequestRecord
  <2>. QED BY <2>1 DEF ChannelInv, Channels!TypeOK
<1>4. RegistrarOK'
  BY DEF ChannelInv, RegistrarOK
<1>5. RequestOK'
  BY <1>1, <1>2 DEF ChannelInv, RequestOK, Bound
<1>6. GivenOK'
  BY DEF ChannelInv, GivenOK
<1>7. HookOK' /\ Channels!OneOwnerPerHook'
  BY DEF ChannelInv, HookOK, Channels!OneOwnerPerHook
<1>. QED BY <1>3, <1>4, <1>5, <1>6, <1>7 DEF ChannelInv

LEMMA MemoKept ==
  ASSUME ChannelInv, UNCHANGED <<memo, tokensGiven>>
  PROVE  /\ memo' \in [ChannelBot -> Channels!Resolved]
         /\ \A b \in ChannelBot : memo'[b] # "unresolved" => <<"bot", b, memo'[b]>> \in tokensGiven
BY DEF ChannelInv, Channels!TypeOK, GivenOK

\* A user's bot is never taken for one of the app's, and a token that an endpoint goes by was
\* given to whom it is for.
LEMMA TokenIsGiven ==
  ASSUME ChannelInv, NEW r \in ChannelRequest, request[r].pc \in Answering,
         NEW token \in Channels!Tokens, Channels!TokenFor(r, token), UNCHANGED tokensGiven
  PROVE  /\ <<request[r].path, request[r].found, token>> \in tokensGiven
         /\ memo' \in [ChannelBot -> Channels!Resolved]
         /\ \A b \in ChannelBot : memo'[b] # "unresolved" => <<"bot", b, memo'[b]>> \in tokensGiven
<1> DEFINE self == request[r]
<1>1. Bound(self)
  BY DEF ChannelInv, RequestOK
<1>2. CASE self.path = "bot" /\ self.found \in ChannelBot /\ self.key = <<self.found>>
  <2>1. Channels!BotOf(r) = self.found /\ self.found # None
    BY <1>2, ChannelsChannelAssumption DEF Channels!BotOf, Channels!ChannelAssumption
  <2> DEFINE b == self.found
  <2>2. /\ token = (IF memo[b] = "unresolved" THEN secret[b] ELSE memo[b])
        /\ memo' = [memo EXCEPT ![b] = token]
    BY <2>1 DEF Channels!TokenFor
  <2>3. token \in Channels!BotSecret /\ <<"bot", b, token>> \in tokensGiven
    BY <1>2, <2>2 DEF ChannelInv, Channels!TypeOK, GivenOK, Channels!Resolved
  <2>. QED
    BY <1>2, <2>2, <2>3 DEF ChannelInv, Channels!TypeOK, GivenOK, Channels!Resolved
<1>3. CASE /\ self.path = "user" /\ self.found \in ChannelKey
           /\ self.key = Channels!BindingKey(self.found)
           /\ <<"user", self.found, self.token>> \in tokensGiven
  <2>1. Channels!BotOf(r) = None
    BY <1>3 DEF Channels!BotOf, Channels!BindingKey
  <2>2. token = self.token /\ UNCHANGED memo
    BY <2>1 DEF Channels!TokenFor
  <2>. QED BY <1>3, <2>2, MemoKept
<1>. QED BY <1>1, <1>2, <1>3 DEF Bound

LEMMA RequestStep ==
  ASSUME ChannelInv, NEW r \in ChannelRequest,
         \/ \E bot \in ChannelBot \cup ChannelKey,
               echo \in {None} \cup {Channels!Derived(t) : t \in ChannelBotToken \cup ChannelUserToken} :
              Channels!ReceiveForBot(r, bot, echo)
         \/ \E echo \in ChannelHook \cup {None} : Channels!ReceiveForUser(r, echo)
         \/ Channels!Lookup(r) \/ Channels!ReaderFails(r)
         \/ \E token \in Channels!Tokens : Channels!Verify(r, token) \/ Channels!Handle(r, token)
         \/ \E place \in {"threw", "done"} : Channels!HandleNothing(r, place)
  PROVE  ChannelInv'
<1> DEFINE self == request[r]
<1>0. self \in RequestRecord /\ Bound(self)
  BY DEF ChannelInv, RequestOK
<1>1. ASSUME NEW place \in {"unknown", "threw", "unauthorized", "handle", "done"},
             place = "handle" => self.pc \in Answering, Channels!End(r, place),
             UNCHANGED <<registration, registrar, tokensGiven, contestedHooks, secret>>,
             memo' \in [ChannelBot -> Channels!Resolved],
             \A b \in ChannelBot : memo'[b] # "unresolved" => <<"bot", b, memo'[b]>> \in tokensGiven
      PROVE  ChannelInv'
  <2> DEFINE record == [self EXCEPT !.pc = place]
  <2>1. record \in RequestRecord
    BY <1>0 DEF RequestRecord
  <2>2. Bound(record)
    BY <1>0, <1>1 DEF RequestRecord, Bound, Answering
  <2>3. request' = [request EXCEPT ![r] = record]
    BY <1>1 DEF Channels!End, Channels!Set
  <2>. HIDE DEF record
  <2>. QED BY <1>1, <2>1, <2>2, <2>3, RequestGoes
<1>2. ASSUME NEW bot \in ChannelBot \cup ChannelKey,
             NEW echo \in {None} \cup {Channels!Derived(t) : t \in ChannelBotToken \cup ChannelUserToken},
             Channels!ReceiveForBot(r, bot, echo)
      PROVE  ChannelInv'
  <2> DEFINE record == [Channels!Unsent EXCEPT
               !.pc = IF bot \in ChannelBot THEN "verify" ELSE "unknown", !.path = "bot",
               !.echo = echo, !.found = bot, !.key = <<bot>>]
  <2>1. record \in RequestRecord
    BY DEF RequestRecord, Channels!Unsent, Token
  <2>2. Bound(record)
    BY DEF Bound, Channels!Unsent, Answering
  <2>3. request' = [request EXCEPT ![r] = record]
    BY <1>2 DEF Channels!ReceiveForBot, Channels!Set
  <2>4. UNCHANGED <<registration, registrar, tokensGiven, contestedHooks, secret, memo>>
    BY <1>2 DEF Channels!ReceiveForBot, Channels!Elsewhere
  <2>. HIDE DEF record
  <2>. QED BY <2>1, <2>2, <2>3, <2>4, MemoKept, RequestGoes
<1>3. ASSUME NEW echo \in ChannelHook \cup {None}, Channels!ReceiveForUser(r, echo)
      PROVE  ChannelInv'
  <2> DEFINE record == [Channels!Unsent EXCEPT
               !.pc = IF echo = None THEN "unknown" ELSE "lookup", !.path = "user", !.echo = echo]
  <2>1. record \in RequestRecord
    BY DEF RequestRecord, Channels!Unsent, Token
  <2>2. Bound(record)
    BY DEF Bound, Channels!Unsent, Answering
  <2>3. request' = [request EXCEPT ![r] = record]
    BY <1>3 DEF Channels!ReceiveForUser, Channels!Set
  <2>4. UNCHANGED <<registration, registrar, tokensGiven, contestedHooks, secret, memo>>
    BY <1>3 DEF Channels!ReceiveForUser, Channels!Elsewhere
  <2>. HIDE DEF record
  <2>. QED BY <2>1, <2>2, <2>3, <2>4, MemoKept, RequestGoes
<1>4. CASE Channels!Lookup(r)
  <2>1. UNCHANGED <<registration, registrar, tokensGiven, contestedHooks, secret, memo>>
    BY <1>4 DEF Channels!Lookup, Channels!Elsewhere
  <2>2. CASE Channels!End(r, "unknown")
    BY <1>1, <2>1, <2>2, MemoKept
  <2>3. ASSUME NEW k \in Channels!Owners(self.echo),
               Channels!Set(r, [self EXCEPT !.pc = "verify", !.found = k,
                                  !.key = Channels!BindingKey(k),
                                  !.hook = registration[k].hook, !.token = registration[k].token])
        PROVE  ChannelInv'
    <3> DEFINE record == [self EXCEPT !.pc = "verify", !.found = k, !.key = Channels!BindingKey(k),
                            !.hook = registration[k].hook, !.token = registration[k].token]
    <3>1. /\ k \in ChannelKey /\ registration[k] \in Channels!Registration
          /\ <<"user", k, registration[k].token>> \in tokensGiven
      BY DEF Channels!Owners, ChannelInv, Channels!TypeOK, GivenOK
    <3>2. record \in RequestRecord
      BY <1>0, <3>1 DEF RequestRecord, BindingKeys, Channels!Registration
    <3>3. self.path = "user" /\ self.answeredWith = None
      BY <1>0, <1>4 DEF Channels!Lookup, Bound
    <3>4. Bound(record)
      BY <1>0, <3>1, <3>3 DEF RequestRecord, Bound, Answering, BindingKeys
    <3>5. request' = [request EXCEPT ![r] = record]
      BY <2>3 DEF Channels!Set
    <3>. HIDE DEF record
    <3>. QED BY <2>1, <3>2, <3>4, <3>5, MemoKept, RequestGoes
  <2>. QED BY <1>4, <2>2, <2>3 DEF Channels!Lookup
<1>5. CASE Channels!ReaderFails(r)
  <2>1. UNCHANGED <<registration, registrar, tokensGiven, contestedHooks, secret, memo>>
    BY <1>5 DEF Channels!ReaderFails, Channels!Elsewhere
  <2>. QED BY <1>1, <1>5, <2>1, MemoKept DEF Channels!ReaderFails
<1>6. ASSUME NEW token \in Channels!Tokens, Channels!Verify(r, token)
      PROVE  ChannelInv'
  <2>1. UNCHANGED <<registration, registrar, tokensGiven, contestedHooks, secret>>
    BY <1>6 DEF Channels!Verify, Channels!Elsewhere
  <2>2. self.pc \in Answering /\ Channels!TokenFor(r, token)
    BY <1>6 DEF Channels!Verify, Answering
  <2>3. \E place \in {"threw", "handle", "unauthorized"} : Channels!End(r, place)
    BY <1>6 DEF Channels!Verify
  <2>. QED BY <1>1, <2>1, <2>2, <2>3, TokenIsGiven
<1>7. ASSUME NEW token \in Channels!Tokens, Channels!Handle(r, token)
      PROVE  ChannelInv'
  <2>1. UNCHANGED <<registration, registrar, tokensGiven, contestedHooks, secret>>
    BY <1>7 DEF Channels!Handle, Channels!Elsewhere
  <2>2. self.pc \in Answering /\ Channels!TokenFor(r, token)
    BY <1>7 DEF Channels!Handle, Answering
  <2> DEFINE place == IF token = None THEN "threw" ELSE "done"
             record == [self EXCEPT !.pc = place, !.answeredWith = token]
  <2>3. record \in RequestRecord
    <3>1. place \in {"threw", "done"} /\ token \in Token
      BY DEF Token, Channels!Tokens
    <3>. HIDE DEF place
    <3>. QED BY <1>0, <3>1 DEF RequestRecord
  <2>4. Bound(record)
    BY <1>0, <2>1, <2>2, TokenIsGiven DEF RequestRecord, Bound, Answering
  <2>5. request' = [request EXCEPT ![r] = record]
    BY <1>7 DEF Channels!Handle, Channels!Set
  <2>. HIDE DEF record
  <2>. QED BY <2>1, <2>2, <2>3, <2>4, <2>5, TokenIsGiven, RequestGoes
<1>8. ASSUME NEW place \in {"threw", "done"}, Channels!HandleNothing(r, place)
      PROVE  ChannelInv'
  <2>1. UNCHANGED <<registration, registrar, tokensGiven, contestedHooks, secret, memo>>
    BY <1>8 DEF Channels!HandleNothing, Channels!Elsewhere
  <2>. QED BY <1>1, <1>8, <2>1, MemoKept DEF Channels!HandleNothing
<1>. QED BY <1>2, <1>3, <1>4, <1>5, <1>6, <1>7, <1>8

LEMMA SetSecretStep ==
  ASSUME ChannelInv, NEW b \in ChannelBot, NEW token \in Channels!BotSecret,
         Channels!SetSecret(b, token)
  PROVE  ChannelInv'
<1>1. Channels!TypeOK'
  BY DEF Channels!SetSecret, ChannelInv, Channels!TypeOK
<1>2. RegistrarOK' /\ HookOK' /\ Channels!OneOwnerPerHook'
  BY DEF Channels!SetSecret, ChannelInv, RegistrarOK, HookOK, Channels!OneOwnerPerHook
<1>3. RequestOK'
  BY DEF Channels!SetSecret, ChannelInv, RequestOK, Bound
<1>4. GivenOK'
  BY DEF Channels!SetSecret, ChannelInv, GivenOK, Channels!TypeOK
<1>. QED BY <1>1, <1>2, <1>3, <1>4 DEF ChannelInv

LEMMA ChannelsStep ==
  ASSUME ChannelInv, [Channels!Next]_ChannelsVars
  PROVE  ChannelInv'
<1>1. CASE Channels!Next
  BY <1>1, RegistrarStep, RevokeStep, RequestStep, SetSecretStep DEF Channels!Next
<1>2. CASE UNCHANGED ChannelsVars
  BY <1>2 DEF ChannelsVars, ChannelInv, Channels!TypeOK, RegistrarOK, RequestOK, Bound, GivenOK,
              HookOK, Channels!OneOwnerPerHook
<1>. QED BY <1>1, <1>2

\* A hook names one bot, unless two registered it at a time, and a bot answers as itself: no user's
\* bot is bound under a name of the app's, and what answers was given to it (register, bindingKey
\* and tokenFor of the channels plugin).
THEOREM BotsStayApart == Spec => []BotsAreKeptApart
<1> DEFINE Inv == part = "channels" => ChannelInv
<1>1. Init => Inv
  BY ChannelsInit DEF Init
<1>2. Inv /\ [Next]_vars => Inv'
  <2>. SUFFICES ASSUME part = "channels", ChannelInv, [Next]_vars PROVE ChannelInv'
    BY DEF Next, vars
  <2>1. [Channels!Next]_ChannelsVars
    BY DEF Next, vars
  <2>. QED BY <2>1, ChannelsStep
<1>3. Inv => BotsAreKeptApart
  <2>. SUFFICES ASSUME ChannelInv PROVE Channels!AnswersAsItself
    BY DEF BotsAreKeptApart, ChannelInv
  <2>1. \A b \in ChannelBot : <<b>> \notin BindingKeys \cup {None}
    BY ChannelsChannelAssumption DEF Channels!ChannelAssumption, BindingKeys, Channels!BindingKey
  <2>. QED BY <2>1 DEF ChannelInv, RequestOK, Bound, Channels!AnswersAsItself
<1>. QED BY <1>1, <1>2, <1>3, PTL DEF Spec

-----------------------------------------------------------------------------
(* Credentials.                                                            *)

\* How a value is found for a caller: whether it is the caller's, and whether the nearer boundaries
\* held nothing at some time since it was asked for.
HeldNothing(state, boundaries) ==
  \A b \in boundaries : <<b, state.name>> \notin contestedKeys =>
    SecretAbsent \in state.held[<<b, state.name>>]

SecretNames == SecretName \cup {SecretMaster}
HeldValues == [Secrets!SecretKey -> SUBSET (SecretValue \cup {SecretAbsent})]
RungsOf(by) ==
  {<<Secrets!Personal(by), Secrets!Shared(by)>>, <<Secrets!Shared(by)>>, <<>>}
Resolving ==
  [op : {"resolve"}, by : SecretCaller, name : SecretNames, at : Nat \ {0},
   rungs : UNION {RungsOf(by) : by \in SecretCaller}, held : HeldValues]

\* A resolution asks the store at every boundary before it asks anyone else.
GoesOutward(state) ==
  /\ state \in Resolving /\ state.rungs \in RungsOf(state.by)
  /\ state.name # SecretMaster =>
       /\ Len(state.rungs) < 2 => HeldNothing(state, Secrets!Personal(state.by))
       /\ Len(state.rungs) < 1 => HeldNothing(state, Secrets!Shared(state.by))
       /\ state.at > 1 => state.rungs = <<>>

IsNearest(state) ==
  IF state.from \in Secrets!Boundary
  THEN /\ state.from \in Secrets!Personal(state.by) \cup Secrets!Shared(state.by)
       /\ <<state.from, state.name>> \notin contestedKeys
            => state.value \in state.held[<<state.from, state.name>>]
       /\ state.from \in Secrets!Shared(state.by) => HeldNothing(state, Secrets!Personal(state.by))
  ELSE HeldNothing(state, Secrets!Personal(state.by)) /\ HeldNothing(state, Secrets!Shared(state.by))

\* One that saves has found the row, or that there is none, which holds while nobody else saves there.
SavesInPlace(state) ==
  /\ state.key \in Secrets!SecretKey /\ state.value \in SecretValue
  /\ masterKey \in SecretMasterKeys
  /\ state.pc = "find" \/ state.pc = "write"
  /\ state.pc = "write" =>
       \/ /\ state.id = SecretAbsent
          /\ state.key \notin contestedKeys => Secrets!Found(state.key) = {}
       \/ /\ state.id \in DOMAIN secretRows
          /\ secretRows[state.id] # SecretAbsent => secretRows[state.id].of = state.key

StateIsOK(state) ==
  /\ state.op \in {"idle", "set", "resolve", "threw", "saved", "resolved"}
  /\ state.op = "set" => SavesInPlace(state)
  /\ state.op = "resolve" =>
       GoesOutward(state) /\ \A k \in Secrets!SecretKey : register[k] \in state.held[k]
  /\ state.op = "resolved" /\ state.name # SecretMaster => IsNearest(state)

\* A key that no two saved at once has one row, of what was saved last, or none.
RowsAreRegistered ==
  \A k \in Secrets!SecretKey \ contestedKeys :
    /\ \A i, j \in Secrets!Found(k) : i = j
    /\ \A i \in Secrets!Found(k) : secretRows[i].value = register[k]
    /\ Secrets!Found(k) = {} => register[k] = SecretAbsent

OneSaves ==
  \A c, d \in SecretCall :
    (/\ secretCalls[c].op = "set" /\ secretCalls[d].op = "set"
     /\ secretCalls[c].key = secretCalls[d].key
     /\ secretCalls[c].key \notin contestedKeys) => c = d

SecretsTyped ==
  /\ secretRows \in Seq(Secrets!StoredSecret \cup {SecretAbsent})
  /\ environment \in SecretEnvironments
  /\ masterKey \in SecretMasterKeys \cup {SecretAbsent}
  /\ secretCalls = [c \in SecretCall |-> secretCalls[c]]
  /\ register \in [Secrets!SecretKey -> SecretValue \cup {SecretAbsent}]
  /\ contestedKeys \subseteq Secrets!SecretKey

SecretsInv ==
  /\ SecretsTyped /\ RowsAreRegistered /\ OneSaves
  /\ \A c \in SecretCall : StateIsOK(secretCalls[c])

LEMMA SecretsConstants ==
  /\ SecretListed \in Seq({SecretListed[i] : i \in DOMAIN SecretListed})
  /\ \E i \in DOMAIN SecretListed : \A j \in DOMAIN SecretListed : SecretListed[j] = "store" <=> j = i
  /\ \A e \in SecretEnvironments : DOMAIN e \cap (Secrets!Boundary \cup {"store"}) = {}
  /\ "nowhere" \notin Secrets!Boundary
  /\ SecretAbsent \notin Nat /\ SecretAbsent \notin Secrets!StoredSecret
BY SecretsSecretsAssumption DEF Secrets!SecretsAssumption

\* The store is asked first.
LEMMA StoreComesFirst ==
  /\ Secrets!Chain[1] = "store"
  /\ Len(Secrets!Chain) \in Nat \ {0}
<1>1. PICK S : SecretListed \in Seq(S)
  BY SecretsConstants
<1>2. PICK place : place = CHOOSE i \in DOMAIN SecretListed : SecretListed[i] = "store"
  OBVIOUS
<1>3. place \in DOMAIN SecretListed
  BY <1>2, SecretsConstants
<1>4. place \in 1..Len(SecretListed) /\ Len(SecretListed) \in Nat
  BY <1>1, <1>3
<1> DEFINE s == SubSeq(SecretListed, 1, place - 1)
           t == SubSeq(SecretListed, place + 1, Len(SecretListed))
<1>5. Secrets!Chain = <<"store">> \o s \o t
  BY <1>2 DEF Secrets!Chain
<1>6. s \in Seq(S \cup {"store"}) /\ t \in Seq(S \cup {"store"})
  BY <1>1, <1>4
<1>7. <<"store">> \in Seq(S \cup {"store"}) /\ Len(<<"store">>) = 1 /\ <<"store">>[1] = "store"
  OBVIOUS
<1>. HIDE DEF s, t
<1>8. /\ <<"store">> \o s \in Seq(S \cup {"store"})
      /\ Len(<<"store">> \o s) = 1 + Len(s)
      /\ (<<"store">> \o s)[1] = "store"
  BY <1>6, <1>7
<1>. QED BY <1>5, <1>6, <1>8

LEMMA BoundariesAre ==
  ASSUME NEW by \in SecretCaller
  PROVE  /\ Secrets!Personal(by) \subseteq Secrets!Boundary
         /\ Secrets!Shared(by) \subseteq Secrets!Boundary
BY DEF Secrets!Boundary

LEMMA KeysAre ==
  ASSUME NEW b \in Secrets!Boundary, NEW n \in SecretName
  PROVE  <<b, n>> \in Secrets!SecretKey
BY DEF Secrets!SecretKey

LEMMA SecretsInit ==
  ASSUME Secrets!Init
  PROVE  SecretsInv
<1>1. SecretsTyped
  BY DEF Secrets!Init, SecretsTyped
<1>2. \A k \in Secrets!SecretKey : Secrets!Found(k) = {}
  BY DEF Secrets!Init, Secrets!Found
<1>3. RowsAreRegistered
  BY <1>2 DEF Secrets!Init, RowsAreRegistered
<1>4. \A c \in SecretCall : secretCalls[c] = [op |-> "idle"]
  BY DEF Secrets!Init, Secrets!Idle
<1>5. OneSaves
  BY <1>4 DEF OneSaves
<1>6. \A c \in SecretCall : StateIsOK(secretCalls[c])
  BY <1>4 DEF StateIsOK
<1>. QED BY <1>1, <1>3, <1>5, <1>6 DEF SecretsInv

-----------------------------------------------------------------------------
\* What a resolution has come to witness.
Witnesses(state, new) ==
  IF state.op # "resolve" THEN state
  ELSE [state EXCEPT !.held = [k \in Secrets!SecretKey |-> @[k] \cup {new[k]}]]

LEMMA GoesIs ==
  ASSUME SecretsTyped, NEW c \in SecretCall, NEW state, NEW new, Secrets!Goes(c, state, new)
  PROVE  /\ register' = new
         /\ secretCalls' = [d \in SecretCall |-> secretCalls'[d]]
         /\ secretCalls'[c] = Witnesses(state, new)
         /\ \A d \in SecretCall \ {c} : secretCalls'[d] = Witnesses(secretCalls[d], new)
<1>. PICK f : f = [secretCalls EXCEPT ![c] = state]
  OBVIOUS
<1>1. f[c] = state /\ \A d \in SecretCall \ {c} : f[d] = secretCalls[d]
  BY DEF SecretsTyped
<1>2. secretCalls' = [d \in SecretCall |-> Witnesses(f[d], new)]
  <2>1. secretCalls' = Secrets!Witnessed(f, new)
    BY Zenon DEF Secrets!Goes
  <2>2. Secrets!Witnessed(f, new) = [d \in SecretCall |-> Witnesses(f[d], new)]
    BY Zenon DEF Secrets!Witnessed, Witnesses
  <2>. QED BY <2>1, <2>2, Zenon
<1>3. \A d \in SecretCall : secretCalls'[d] = Witnesses(f[d], new)
  BY <1>2, Zenon
<1>4. secretCalls' = [d \in SecretCall |-> secretCalls'[d]]
  BY <1>2
<1>5. secretCalls'[c] = Witnesses(state, new)
  BY <1>1, <1>3
<1>6. \A d \in SecretCall \ {c} : secretCalls'[d] = Witnesses(secretCalls[d], new)
  BY <1>1, <1>3
<1>. QED BY <1>4, <1>5, <1>6 DEF Secrets!Goes

LEMMA WitnessIs ==
  ASSUME NEW state \in Resolving, NEW new \in [Secrets!SecretKey -> SecretValue \cup {SecretAbsent}]
  PROVE  LET w == Witnesses(state, new) IN
         /\ w \in Resolving
         /\ w.by = state.by /\ w.name = state.name /\ w.at = state.at /\ w.rungs = state.rungs
         /\ \A k \in Secrets!SecretKey : w.held[k] = state.held[k] \cup {new[k]}
<1>1. PICK h : h = [k \in Secrets!SecretKey |-> state.held[k] \cup {new[k]}]
  OBVIOUS
<1>2. state.held \in HeldValues
  BY DEF Resolving
<1>3. h \in HeldValues
  BY <1>1, <1>2 DEF HeldValues
<1>4. state.op = "resolve"
  BY DEF Resolving
<1>5. Witnesses(state, new) = [state EXCEPT !.held = h]
  BY <1>1, <1>4, Zenon DEF Witnesses
<1>6. PICK w : w = [state EXCEPT !.held = h]
  OBVIOUS
<1>7. /\ w \in Resolving /\ w.held = h
      /\ w.by = state.by /\ w.name = state.name /\ w.at = state.at /\ w.rungs = state.rungs
  BY <1>3, <1>6 DEF Resolving
<1>. QED BY <1>1, <1>5, <1>6, <1>7

LEMMA ContestedOnlyGrows ==
  ASSUME NEW state, NEW boundaries, contestedKeys \subseteq contestedKeys',
         HeldNothing(state, boundaries)
  PROVE  HeldNothing(state, boundaries)'
BY DEF HeldNothing

\* A resolution that goes on is in order after the step, having witnessed what is registered now.
LEMMA GoesOn ==
  ASSUME NEW state, GoesOutward(state),
         NEW new \in [Secrets!SecretKey -> SecretValue \cup {SecretAbsent}], register' = new,
         NEW w, w = Witnesses(state, new),
         contestedKeys \subseteq contestedKeys'
  PROVE  StateIsOK(w)'
<1>1. state \in Resolving /\ state.rungs \in RungsOf(state.by)
  BY DEF GoesOutward
<1>2. /\ w \in Resolving
      /\ w.by = state.by /\ w.name = state.name /\ w.at = state.at /\ w.rungs = state.rungs
      /\ \A k \in Secrets!SecretKey : w.held[k] = state.held[k] \cup {new[k]}
  BY <1>1, WitnessIs
<1>3. w.op = "resolve"
  BY <1>2 DEF Resolving
<1>4. ASSUME state.name # SecretMaster, NEW boundaries \in SUBSET Secrets!Boundary,
             HeldNothing(state, boundaries)
      PROVE  HeldNothing(w, boundaries)'
  <2>1. state.name \in SecretName
    BY <1>1, <1>4 DEF Resolving, SecretNames
  <2>2. \A b \in boundaries : <<b, state.name>> \in Secrets!SecretKey
    BY <2>1, KeysAre
  <2>. QED BY <1>2, <1>4, <2>2 DEF HeldNothing
<1>5. /\ Secrets!Personal(state.by) \in SUBSET Secrets!Boundary
      /\ Secrets!Shared(state.by) \in SUBSET Secrets!Boundary
  <2>1. state.by \in SecretCaller
    BY <1>1 DEF Resolving
  <2>. QED BY <2>1, BoundariesAre
<1>6. GoesOutward(w)'
  <2>1. w.name # SecretMaster =>
       /\ Len(w.rungs) < 2 => HeldNothing(w, Secrets!Personal(w.by))'
       /\ Len(w.rungs) < 1 => HeldNothing(w, Secrets!Shared(w.by))'
       /\ w.at > 1 => w.rungs = <<>>
    BY <1>2, <1>4, <1>5 DEF GoesOutward
  <2>. QED BY <1>1, <1>2, <2>1 DEF GoesOutward
<1>7. \A k \in Secrets!SecretKey : register'[k] \in w.held[k]
  BY <1>2
<1>. QED BY <1>3, <1>6, <1>7 DEF StateIsOK

-----------------------------------------------------------------------------
\* What any step of a call keeps of the rows and of the master key.
RowsGoOn ==
  /\ DOMAIN secretRows \subseteq DOMAIN secretRows'
  /\ \A i \in DOMAIN secretRows : secretRows'[i] # SecretAbsent =>
       secretRows[i] # SecretAbsent /\ secretRows'[i].of = secretRows[i].of
  /\ masterKey \in SecretMasterKeys => masterKey' \in SecretMasterKeys
  /\ contestedKeys \subseteq contestedKeys'

LEMMA StateGoesOn ==
  ASSUME NEW state, StateIsOK(state), RowsGoOn,
         NEW new \in [Secrets!SecretKey -> SecretValue \cup {SecretAbsent}], register' = new,
         NEW w, w = Witnesses(state, new),
         state.op = "set" /\ state.key \notin contestedKeys' /\ Secrets!Found(state.key) = {}
           => Secrets!Found(state.key)' = {}
  PROVE  StateIsOK(w)'
<1>1. contestedKeys \subseteq contestedKeys'
  BY DEF RowsGoOn
<1>2. CASE state.op = "resolve"
  BY <1>1, <1>2, GoesOn DEF StateIsOK
<1>3. CASE state.op # "resolve"
  <2>1. w = state
    BY <1>3 DEF Witnesses
  <2>2. state.op = "set" => SavesInPlace(state)'
    <3>. SUFFICES ASSUME state.op = "set" PROVE SavesInPlace(state)'
      OBVIOUS
    <3>1. SavesInPlace(state)
      BY DEF StateIsOK
    <3>. QED BY <1>1, <3>1 DEF SavesInPlace, RowsGoOn
  <2>3. state.op = "resolved" /\ state.name # SecretMaster => IsNearest(state)'
    <3>. SUFFICES ASSUME state.op = "resolved", state.name # SecretMaster PROVE IsNearest(state)'
      OBVIOUS
    <3>1. IsNearest(state)
      BY DEF StateIsOK
    <3>. QED BY <1>1, <3>1, ContestedOnlyGrows DEF IsNearest
  <2>. QED BY <1>3, <2>1, <2>2, <2>3 DEF StateIsOK
<1>. QED BY <1>2, <1>3

\* A step of one call, which the others witness.
LEMMA CallGoesOn ==
  ASSUME SecretsInv, NEW c \in SecretCall, NEW state,
         NEW new \in [Secrets!SecretKey -> SecretValue \cup {SecretAbsent}],
         Secrets!Goes(c, state, new), RowsGoOn,
         secretRows' \in Seq(Secrets!StoredSecret \cup {SecretAbsent}),
         environment' = environment, masterKey' \in SecretMasterKeys \cup {SecretAbsent},
         contestedKeys' \subseteq Secrets!SecretKey, RowsAreRegistered',
         NEW w, w = Witnesses(state, new), StateIsOK(w)',
         state.op = "set" =>
           \A d \in SecretCall \ {c} :
             secretCalls[d].op = "set" /\ secretCalls[d].key = state.key => state.key \in contestedKeys',
         \A k \in Secrets!SecretKey :
           (/\ \E d \in SecretCall \ {c} : secretCalls[d].op = "set" /\ secretCalls[d].key = k
            /\ k \notin contestedKeys' /\ Secrets!Found(k) = {}) => Secrets!Found(k)' = {}
  PROVE  SecretsInv'
<1>1. /\ register' = new
      /\ secretCalls' = [d \in SecretCall |-> secretCalls'[d]]
      /\ secretCalls'[c] = w
      /\ \A d \in SecretCall \ {c} : secretCalls'[d] = Witnesses(secretCalls[d], new)
  BY GoesIs DEF SecretsInv
<1>2. SecretsTyped'
  BY <1>1 DEF SecretsInv, SecretsTyped
<1>3. \A d \in SecretCall \ {c} : StateIsOK(secretCalls[d])'
  <2>. SUFFICES ASSUME NEW d \in SecretCall \ {c} PROVE StateIsOK(secretCalls[d])'
    OBVIOUS
  <2>. PICK s, v : s = secretCalls[d] /\ v = Witnesses(s, new)
    OBVIOUS
  <2>1. StateIsOK(s)
    BY DEF SecretsInv
  <2>2. s.op = "set" /\ s.key \notin contestedKeys' /\ Secrets!Found(s.key) = {}
          => Secrets!Found(s.key)' = {}
    BY <2>1 DEF StateIsOK, SavesInPlace
  <2>3. StateIsOK(v)'
    BY <1>1, <2>1, <2>2, StateGoesOn
  <2>4. v = secretCalls'[d]
    BY <1>1
  <2>. QED BY <2>3, <2>4, Zenon
<1>4. \A d \in SecretCall : StateIsOK(secretCalls[d])'
  <2>1. StateIsOK(secretCalls[c])'
    BY <1>1, Zenon
  <2>. QED BY <1>3, <2>1
<1>5. OneSaves'
  <2>1. \A d \in SecretCall \ {c} : secretCalls'[d].op = "set" => secretCalls'[d] = secretCalls[d]
    <3>. SUFFICES ASSUME NEW d \in SecretCall \ {c}, secretCalls'[d].op = "set"
                  PROVE  secretCalls'[d] = secretCalls[d]
      OBVIOUS
    <3>1. CASE secretCalls[d].op = "resolve"
      <4>. PICK s, v : s = secretCalls[d] /\ v = Witnesses(s, new)
        OBVIOUS
      <4>1. s \in Resolving
        BY <3>1 DEF SecretsInv, StateIsOK, GoesOutward
      <4>2. v \in Resolving
        BY <4>1, WitnessIs
      <4>. QED BY <1>1, <4>2 DEF Resolving
    <3>2. CASE secretCalls[d].op # "resolve"
      BY <1>1, <3>2 DEF Witnesses
    <3>. QED BY <3>1, <3>2
  <2>2. w.op = "set" => w = state
    <3>1. CASE state.op = "resolve"
      <4>1. CASE w.op = "set"
        <5>1. w.held = state.held \/ w.held # state.held
          OBVIOUS
        <5>2. w = [state EXCEPT !.held = [k \in Secrets!SecretKey |-> @[k] \cup {new[k]}]]
          BY <3>1, Zenon DEF Witnesses
        <5>3. w.op = state.op
          BY <3>1, <5>2
        <5>. QED BY <3>1, <4>1, <5>3
      <4>. QED BY <4>1
    <3>2. CASE state.op # "resolve"
      BY <3>2 DEF Witnesses
    <3>. QED BY <3>1, <3>2
  <2>3. \A d \in SecretCall \ {c} :
          secretCalls'[c].op = "set" /\ secretCalls'[d].op = "set"
            /\ secretCalls'[c].key = secretCalls'[d].key => secretCalls'[c].key \in contestedKeys'
    BY <1>1, <2>1, <2>2
  <2>4. \A d, e \in SecretCall \ {c} :
          (/\ secretCalls'[d].op = "set" /\ secretCalls'[e].op = "set"
           /\ secretCalls'[d].key = secretCalls'[e].key /\ secretCalls'[d].key \notin contestedKeys')
             => d = e
    BY <2>1 DEF SecretsInv, OneSaves, RowsGoOn
  <2>5. \A d, e \in SecretCall :
          (/\ secretCalls'[d].op = "set" /\ secretCalls'[e].op = "set"
           /\ secretCalls'[d].key = secretCalls'[e].key /\ secretCalls'[d].key \notin contestedKeys')
             => d = e
    BY <2>3, <2>4
  <2>. QED BY <2>5 DEF OneSaves
<1>. QED BY <1>2, <1>4, <1>5 DEF SecretsInv

\* A step that changes no row and registers nothing.
LEMMA RowsRemain ==
  ASSUME SecretsInv, UNCHANGED <<secretRows, register>>, contestedKeys \subseteq contestedKeys'
  PROVE  RowsAreRegistered' /\ \A k : Secrets!Found(k)' = Secrets!Found(k)
<1>1. \A k : Secrets!Found(k)' = Secrets!Found(k)
  BY DEF Secrets!Found
<1>. QED BY <1>1 DEF SecretsInv, RowsAreRegistered

\* A step that looks, or that gives up.
LEMMA CallLooks ==
  ASSUME SecretsInv, NEW c \in SecretCall, NEW state, Secrets!Goes(c, state, register),
         UNCHANGED <<secretRows, environment, contestedKeys>>,
         masterKey' = masterKey \/ masterKey' \in SecretMasterKeys,
         state.op # "resolve" => StateIsOK(state)',
         state.op = "resolve" => GoesOutward(state),
         state.op = "set" => secretCalls[c].op = "set" /\ state.key = secretCalls[c].key
  PROVE  SecretsInv'
<1>. PICK new : new = register
  OBVIOUS
<1>. PICK w : w = Witnesses(state, new)
  OBVIOUS
<1>1. new \in [Secrets!SecretKey -> SecretValue \cup {SecretAbsent}]
  BY DEF SecretsInv, SecretsTyped
<1>2. Secrets!Goes(c, state, new) /\ register' = new
  BY DEF Secrets!Goes
<1>3. RowsGoOn
  BY DEF RowsGoOn
<1>4. RowsAreRegistered' /\ \A k : Secrets!Found(k)' = Secrets!Found(k)
  BY <1>2, RowsRemain
<1>5. StateIsOK(w)'
  <2>1. CASE state.op = "resolve"
    BY <1>1, <1>2, <2>1, GoesOn
  <2>2. CASE state.op # "resolve"
    BY <2>2 DEF Witnesses
  <2>. QED BY <2>1, <2>2
<1>6. state.op = "set" =>
        \A d \in SecretCall \ {c} :
          secretCalls[d].op = "set" /\ secretCalls[d].key = state.key => state.key \in contestedKeys'
  BY DEF SecretsInv, OneSaves
<1>7. /\ secretRows' \in Seq(Secrets!StoredSecret \cup {SecretAbsent})
      /\ masterKey' \in SecretMasterKeys \cup {SecretAbsent}
      /\ contestedKeys' \subseteq Secrets!SecretKey
  BY DEF SecretsInv, SecretsTyped
<1>. QED BY <1>1, <1>2, <1>3, <1>4, <1>5, <1>6, <1>7, CallGoesOn

-----------------------------------------------------------------------------
LEMMA ThrewIsOK == StateIsOK([op |-> "threw"])' /\ StateIsOK([op |-> "saved"])'
BY DEF StateIsOK

LEMMA SetStep ==
  ASSUME SecretsInv, NEW c \in SecretCall, NEW k \in Secrets!SecretKey, NEW value \in SecretValue,
         Secrets!Set(c, k, value)
  PROVE  SecretsInv'
<1>. PICK state : state = [op |-> "set", pc |-> "find", key |-> k, value |-> value]
  OBVIOUS
<1>. PICK new : new = register
  OBVIOUS
<1>1. UNCHANGED <<secretRows, environment, restarts>>
  BY DEF Secrets!Set
<1>2. CASE Secrets!MasterNow \in SecretMasterKeys
  <2>1. /\ masterKey' \in SecretMasterKeys
        /\ Secrets!Goes(c, state, new)
        /\ contestedKeys' = contestedKeys \cup
             {x \in {k} : \E d \in SecretCall : secretCalls[d].op = "set" /\ secretCalls[d].key = x}
    BY <1>2, Zenon DEF Secrets!Set
  <2>2. register' = new
    BY <2>1 DEF Secrets!Goes
  <2>3. RowsGoOn
    BY <1>1, <2>1 DEF RowsGoOn
  <2>4. RowsAreRegistered' /\ \A x : Secrets!Found(x)' = Secrets!Found(x)
    BY <1>1, <2>1, <2>2, RowsRemain
  <2>5. StateIsOK(state)'
    BY <2>1 DEF StateIsOK, SavesInPlace
  <2>6. Witnesses(state, new) = state
    BY DEF Witnesses
  <2>7. /\ new \in [Secrets!SecretKey -> SecretValue \cup {SecretAbsent}]
        /\ secretRows' \in Seq(Secrets!StoredSecret \cup {SecretAbsent})
        /\ contestedKeys' \subseteq Secrets!SecretKey
    BY <1>1, <2>1 DEF SecretsInv, SecretsTyped
  <2>8. \A d \in SecretCall \ {c} :
          secretCalls[d].op = "set" /\ secretCalls[d].key = state.key => state.key \in contestedKeys'
    BY <2>1
  <2>9. \A x \in Secrets!SecretKey :
          (/\ \E d \in SecretCall \ {c} : secretCalls[d].op = "set" /\ secretCalls[d].key = x
           /\ x \notin contestedKeys' /\ Secrets!Found(x) = {}) => Secrets!Found(x)' = {}
    BY <2>4
  <2>10. environment' = environment /\ masterKey' \in SecretMasterKeys \cup {SecretAbsent}
    BY <1>1, <2>1
  <2>. QED BY <2>1, <2>3, <2>4, <2>5, <2>6, <2>7, <2>8, <2>9, <2>10, CallGoesOn, SMTT(60)
<1>3. CASE Secrets!MasterNow \notin SecretMasterKeys
  <2>1. Secrets!Goes(c, [op |-> "threw"], register) /\ UNCHANGED <<masterKey, contestedKeys>>
    BY <1>3 DEF Secrets!Set, Secrets!Threw
  <2>. QED BY <1>1, <2>1, ThrewIsOK, CallLooks
<1>. QED BY <1>2, <1>3

LEMMA SecretFindStep ==
  ASSUME SecretsInv, NEW c \in SecretCall, Secrets!Find(c)
  PROVE  SecretsInv'
<1>. PICK asked : asked = secretCalls[c]
  OBVIOUS
<1>1. /\ asked.op = "set" /\ asked.pc = "find"
      /\ UNCHANGED <<secretRows, environment, masterKey, restarts, began, contestedKeys>>
  BY DEF Secrets!Find
<1>2. SavesInPlace(asked)
  BY <1>1 DEF SecretsInv, StateIsOK
<1>3. PICK id : /\ id \in IF Secrets!Found(asked.key) = {} THEN {SecretAbsent} ELSE Secrets!Found(asked.key)
                /\ Secrets!Goes(c, [op |-> "set", pc |-> "write", key |-> asked.key, value |-> asked.value,
                                    id |-> id], register)
  BY Zenon DEF Secrets!Find
<1>. PICK state : state = [op |-> "set", pc |-> "write", key |-> asked.key, value |-> asked.value, id |-> id]
  OBVIOUS
<1>4. StateIsOK(state)'
  <2>1. \/ id = SecretAbsent /\ Secrets!Found(asked.key) = {}
        \/ id \in DOMAIN secretRows /\ secretRows[id].of = asked.key
    BY <1>3 DEF Secrets!Found
  <2>2. Secrets!Found(asked.key)' = Secrets!Found(asked.key)
    BY <1>1 DEF Secrets!Found
  <2>3. SavesInPlace(state)'
    BY <1>1, <1>2, <2>1, <2>2 DEF SavesInPlace
  <2>. QED BY <2>3 DEF StateIsOK
<1>5. Secrets!Goes(c, state, register)
  BY <1>3
<1>. QED BY <1>1, <1>4, <1>5, CallLooks

LEMMA RotateStep ==
  ASSUME SecretsInv, NEW c \in SecretCall, Secrets!Rotate(c)
  PROVE  SecretsInv'
<1>. USE SecretsConstants
<1>. PICK asked : asked = secretCalls[c]
  OBVIOUS
<1>1. /\ asked.op = "set" /\ asked.pc = "write" /\ asked.id # SecretAbsent
      /\ UNCHANGED <<environment, masterKey, restarts, began, contestedKeys>>
  BY DEF Secrets!Rotate
<1>2. SavesInPlace(asked)
  BY <1>1 DEF SecretsInv, StateIsOK
<1>. PICK id, key : id = asked.id /\ key = asked.key
  OBVIOUS
<1>3. /\ id \in DOMAIN secretRows /\ key \in Secrets!SecretKey
      /\ secretRows[id] # SecretAbsent => secretRows[id].of = key
  BY <1>1, <1>2 DEF SavesInPlace
<1>4. CASE secretRows[id] = SecretAbsent
  <2>1. Secrets!Goes(c, [op |-> "threw"], register) /\ UNCHANGED secretRows
    BY <1>4 DEF Secrets!Rotate, Secrets!Threw
  <2>. QED BY <1>1, <2>1, ThrewIsOK, CallLooks
<1>5. CASE secretRows[id] # SecretAbsent
  <2>a. PICK row : row = [secretRows[id] EXCEPT !.value = asked.value, !.under = masterKey]
    OBVIOUS
  <2>b. PICK new : new = [register EXCEPT ![key] = asked.value]
    OBVIOUS
  <2>c. PICK saved : saved = [op |-> "saved"]
    OBVIOUS
  <2>1. /\ secretRows' = [secretRows EXCEPT ![id].value = asked.value, ![id].under = masterKey]
        /\ Secrets!Goes(c, saved, new)
    BY <1>5, <2>b, <2>c, Zenon DEF Secrets!Rotate
  <2>2. secretRows \in Seq(Secrets!StoredSecret \cup {SecretAbsent})
        /\ register \in [Secrets!SecretKey -> SecretValue \cup {SecretAbsent}]
        /\ contestedKeys \subseteq Secrets!SecretKey
        /\ masterKey \in SecretMasterKeys \cup {SecretAbsent}
    BY DEF SecretsInv, SecretsTyped
  <2>3. secretRows[id] \in Secrets!StoredSecret
    BY <1>3, <1>5, <2>2
  <2>4. row \in Secrets!StoredSecret /\ row.of = key /\ row.value = asked.value
    <3>1. row = [of |-> key, value |-> asked.value, under |-> masterKey]
      BY <1>3, <1>5, <2>3, <2>a DEF Secrets!StoredSecret
    <3>2. asked.value \in SecretValue /\ masterKey \in SecretMasterKeys
      BY <1>2 DEF SavesInPlace
    <3>. QED BY <1>3, <3>1, <3>2 DEF Secrets!StoredSecret
  <2>5. secretRows' = [secretRows EXCEPT ![id] = row]
    <3>1. PICK f : f = [secretRows EXCEPT ![id].value = asked.value]
      OBVIOUS
    <3>2. PICK r1 : r1 = [secretRows[id] EXCEPT !.value = asked.value]
      OBVIOUS
    <3>3. PICK n \in Nat : DOMAIN secretRows = 1..n /\ secretRows = [i \in 1..n |-> secretRows[i]]
      BY <2>2
    <3>4. DOMAIN f = 1..n /\ f = [i \in 1..n |-> f[i]] /\ f[id] = r1
          /\ \A i \in (1..n) \ {id} : f[i] = secretRows[i]
      BY <1>3, <3>1, <3>2, <3>3
    <3>5. secretRows' = [f EXCEPT ![id].under = masterKey]
      BY <2>1, <3>1, Zenon
    <3>6. secretRows' = [f EXCEPT ![id] = [r1 EXCEPT !.under = masterKey]]
      BY <3>4, <3>5, Zenon
    <3>7. row = [r1 EXCEPT !.under = masterKey]
      BY <2>a, <3>2, Zenon
    <3>. QED BY <3>3, <3>4, <3>6, <3>7
  <2>6. /\ secretRows' \in Seq(Secrets!StoredSecret \cup {SecretAbsent})
        /\ DOMAIN secretRows' = DOMAIN secretRows /\ secretRows'[id] = row
        /\ \A i \in DOMAIN secretRows : i # id => secretRows'[i] = secretRows[i]
    BY <1>3, <2>2, <2>4, <2>5
  <2>7. \A x : Secrets!Found(x)' = Secrets!Found(x)
    <3>1. \A i \in DOMAIN secretRows :
            /\ secretRows'[i] # SecretAbsent <=> secretRows[i] # SecretAbsent
            /\ secretRows[i] # SecretAbsent => secretRows'[i].of = secretRows[i].of
      BY <1>3, <1>5, <2>4, <2>6
    <3>. QED BY <2>6, <3>1 DEF Secrets!Found
  <2>8. RowsGoOn
    BY <1>1, <1>3, <1>5, <2>4, <2>6 DEF RowsGoOn
  <2>9. /\ new \in [Secrets!SecretKey -> SecretValue \cup {SecretAbsent}]
        /\ new[key] = asked.value /\ \A x \in Secrets!SecretKey : x # key => new[x] = register[x]
    BY <1>2, <1>3, <2>2, <2>b DEF SavesInPlace
  <2>10. register' = new
    BY <2>1 DEF Secrets!Goes
  <2>11. RowsAreRegistered'
    <3>. SUFFICES ASSUME NEW x \in Secrets!SecretKey \ contestedKeys
                  PROVE  /\ \A i, j \in Secrets!Found(x) : i = j
                         /\ \A i \in Secrets!Found(x) : secretRows'[i].value = new[x]
                         /\ Secrets!Found(x) = {} => new[x] = SecretAbsent
      BY <1>1, <2>7, <2>10 DEF RowsAreRegistered
    <3>1. /\ \A i, j \in Secrets!Found(x) : i = j
          /\ \A i \in Secrets!Found(x) : secretRows[i].value = register[x]
          /\ Secrets!Found(x) = {} => register[x] = SecretAbsent
      BY DEF SecretsInv, RowsAreRegistered
    <3>2. id \in Secrets!Found(key)
      BY <1>3, <1>5 DEF Secrets!Found
    <3>3. CASE x = key
      BY <2>4, <2>6, <2>9, <3>1, <3>2, <3>3
    <3>4. CASE x # key
      <4>1. \A i \in Secrets!Found(x) : i # id /\ i \in DOMAIN secretRows
        BY <1>3, <1>5, <3>4 DEF Secrets!Found
      <4>. QED BY <2>6, <2>9, <3>1, <3>4, <4>1
    <3>. QED BY <3>3, <3>4
  <2>12. Witnesses(saved, new) = saved
    BY <2>c DEF Witnesses
  <2>13. saved.op # "set" /\ StateIsOK(saved)'
    BY <2>c, ThrewIsOK
  <2>14. contestedKeys' \subseteq Secrets!SecretKey /\ environment' = environment
         /\ masterKey' \in SecretMasterKeys \cup {SecretAbsent}
    BY <1>1, <2>2
  <2>15. saved.op = "set" =>
           \A d \in SecretCall \ {c} :
             secretCalls[d].op = "set" /\ secretCalls[d].key = saved.key => saved.key \in contestedKeys'
    BY <2>13
  <2>16. \A k \in Secrets!SecretKey :
           (/\ \E d \in SecretCall \ {c} : secretCalls[d].op = "set" /\ secretCalls[d].key = k
            /\ k \notin contestedKeys' /\ Secrets!Found(k) = {}) => Secrets!Found(k)' = {}
    BY <2>7
  <2>17. SecretsInv /\ secretRows' \in Seq(Secrets!StoredSecret \cup {SecretAbsent})
         /\ new \in [Secrets!SecretKey -> SecretValue \cup {SecretAbsent}]
         /\ saved = Witnesses(saved, new) /\ StateIsOK(saved)'
    BY <2>6, <2>9, <2>12, <2>13
  <2>18. Secrets!Goes(c, saved, new)
    BY <2>1
  <2>. QED BY <2>8, <2>11, <2>14, <2>15, <2>16, <2>17, <2>18, CallGoesOn
<1>. QED BY <1>4, <1>5

LEMMA SecretCreateStep ==
  ASSUME SecretsInv, NEW c \in SecretCall, Secrets!Create(c)
  PROVE  SecretsInv'
<1>1. PICK asked : asked = secretCalls[c]
  OBVIOUS
<1>2. /\ asked.op = "set" /\ asked.pc = "write" /\ asked.id = SecretAbsent
      /\ UNCHANGED <<environment, masterKey, restarts, began, contestedKeys>>
  BY <1>1 DEF Secrets!Create
<1>3. PICK key, value : key = asked.key /\ value = asked.value
  OBVIOUS
<1>4. PICK row : row = [of |-> key, value |-> value, under |-> masterKey]
  OBVIOUS
<1>5. PICK new : new = [register EXCEPT ![key] = value]
  OBVIOUS
<1>6. PICK saved : saved = [op |-> "saved"]
  OBVIOUS
<1>7. secretRows' = Append(secretRows, row) /\ Secrets!Goes(c, saved, new)
  BY <1>1, <1>3, <1>4, <1>5, <1>6, Zenon DEF Secrets!Create
<1>8. /\ secretRows \in Seq(Secrets!StoredSecret \cup {SecretAbsent})
      /\ register \in [Secrets!SecretKey -> SecretValue \cup {SecretAbsent}]
      /\ contestedKeys \subseteq Secrets!SecretKey
      /\ masterKey \in SecretMasterKeys \cup {SecretAbsent}
  BY DEF SecretsInv, SecretsTyped
<1>9. /\ SavesInPlace(asked)
      /\ key \in Secrets!SecretKey /\ value \in SecretValue /\ masterKey \in SecretMasterKeys
  BY <1>1, <1>2, <1>3 DEF SecretsInv, StateIsOK, SavesInPlace
<1>10. key \notin contestedKeys => Secrets!Found(key) = {}
  <2>1. DOMAIN secretRows \subseteq Nat
    BY <1>8
  <2>. QED BY <1>2, <1>3, <1>9, <2>1, SecretsConstants DEF SavesInPlace
<1>11. row \in Secrets!StoredSecret /\ row # SecretAbsent /\ row.of = key /\ row.value = value
  <2>1. row \in Secrets!StoredSecret
    BY <1>4, <1>9 DEF Secrets!StoredSecret
  <2>. QED BY <1>4, <2>1, SecretsConstants
<1>12. PICK n \in Nat : n = Len(secretRows) + 1 /\ DOMAIN secretRows = 1..(n - 1)
  BY <1>8
<1>13. /\ secretRows' \in Seq(Secrets!StoredSecret \cup {SecretAbsent})
       /\ DOMAIN secretRows' = DOMAIN secretRows \cup {n} /\ n \notin DOMAIN secretRows
       /\ secretRows'[n] = row
       /\ \A i \in DOMAIN secretRows : secretRows'[i] = secretRows[i]
  BY <1>7, <1>8, <1>11, <1>12
<1>14. /\ Secrets!Found(key)' = Secrets!Found(key) \cup {n}
       /\ \A x : x # key => Secrets!Found(x)' = Secrets!Found(x)
  BY <1>11, <1>13 DEF Secrets!Found
<1>15. RowsGoOn
  BY <1>2, <1>13 DEF RowsGoOn
<1>16. /\ new \in [Secrets!SecretKey -> SecretValue \cup {SecretAbsent}]
       /\ new[key] = value /\ \A x \in Secrets!SecretKey : x # key => new[x] = register[x]
  BY <1>5, <1>8, <1>9
<1>17. register' = new
  BY <1>7 DEF Secrets!Goes
<1>18. RowsAreRegistered'
  <2>. SUFFICES ASSUME NEW x \in Secrets!SecretKey \ contestedKeys, NEW found, found = Secrets!Found(x)'
                PROVE  /\ \A i, j \in found : i = j
                       /\ \A i \in found : secretRows'[i].value = new[x]
                       /\ found = {} => new[x] = SecretAbsent
    BY <1>2, <1>17 DEF RowsAreRegistered
  <2>1. /\ \A i, j \in Secrets!Found(x) : i = j
        /\ \A i \in Secrets!Found(x) : secretRows[i].value = register[x] /\ i \in DOMAIN secretRows
        /\ Secrets!Found(x) = {} => register[x] = SecretAbsent
    BY DEF SecretsInv, RowsAreRegistered, Secrets!Found
  <2>2. CASE x = key
    <3>1. found = {n}
      BY <1>10, <1>14, <2>2
    <3>. QED BY <1>11, <1>13, <1>16, <2>2, <3>1
  <2>3. CASE x # key
    <3>1. found = Secrets!Found(x)
      BY <1>14, <2>3
    <3>. QED BY <1>13, <1>16, <2>1, <2>3, <3>1
  <2>. QED BY <2>2, <2>3
<1>19. saved = Witnesses(saved, new) /\ saved.op # "set" /\ StateIsOK(saved)'
  BY <1>6, ThrewIsOK DEF Witnesses
<1>20. saved.op = "set" =>
         \A d \in SecretCall \ {c} :
           secretCalls[d].op = "set" /\ secretCalls[d].key = saved.key => saved.key \in contestedKeys'
  BY <1>19
<1>21. \A x \in Secrets!SecretKey :
         (/\ \E d \in SecretCall \ {c} : secretCalls[d].op = "set" /\ secretCalls[d].key = x
          /\ x \notin contestedKeys' /\ Secrets!Found(x) = {}) => Secrets!Found(x)' = {}
  <2>. SUFFICES ASSUME NEW x \in Secrets!SecretKey, NEW d \in SecretCall \ {c},
                       secretCalls[d].op = "set", secretCalls[d].key = x, x \notin contestedKeys
                PROVE  x # key
    BY <1>2, <1>14
  <2>. QED BY <1>1, <1>2, <1>3 DEF SecretsInv, OneSaves
<1>22. environment' = environment /\ masterKey' \in SecretMasterKeys \cup {SecretAbsent}
       /\ contestedKeys' \subseteq Secrets!SecretKey
  BY <1>2, <1>8
<1>23. /\ Secrets!Goes(c, saved, new) /\ secretRows' \in Seq(Secrets!StoredSecret \cup {SecretAbsent})
       /\ new \in [Secrets!SecretKey -> SecretValue \cup {SecretAbsent}]
  BY <1>7, <1>13, <1>16
<1>24. PICK w : w = Witnesses(saved, new)
  OBVIOUS
<1>25. StateIsOK(w)'
  BY <1>19, <1>24
<1>. QED BY <1>15, <1>18, <1>20, <1>21, <1>22, <1>23, <1>24, <1>25, CallGoesOn

LEMMA SecretDeleteStep ==
  ASSUME SecretsInv, NEW c \in SecretCall, NEW key \in Secrets!SecretKey, Secrets!Delete(c, key)
  PROVE  SecretsInv'
<1>1. PICK new : new = [register EXCEPT ![key] = SecretAbsent]
  OBVIOUS
<1>2. PICK saved : saved = [op |-> "saved"]
  OBVIOUS
<1>3. /\ Secrets!Goes(c, saved, new)
      /\ UNCHANGED <<environment, masterKey, restarts, contestedKeys>>
  BY <1>1, <1>2, Zenon DEF Secrets!Delete
<1>4. /\ secretRows \in Seq(Secrets!StoredSecret \cup {SecretAbsent})
      /\ register \in [Secrets!SecretKey -> SecretValue \cup {SecretAbsent}]
      /\ contestedKeys \subseteq Secrets!SecretKey
      /\ masterKey \in SecretMasterKeys \cup {SecretAbsent}
  BY DEF SecretsInv, SecretsTyped
<1>5. PICK gone : /\ gone \subseteq Secrets!Found(key)
                  /\ gone = {} => Secrets!Found(key) = {}
                  /\ secretRows' \in Seq(Secrets!StoredSecret \cup {SecretAbsent})
                  /\ DOMAIN secretRows' = DOMAIN secretRows
                  /\ \A i \in DOMAIN secretRows :
                       secretRows'[i] = IF i \in gone THEN SecretAbsent ELSE secretRows[i]
  <2>1. CASE Secrets!Found(key) = {} /\ UNCHANGED secretRows
    <3>1. \A i \in DOMAIN secretRows : i \notin {}
      OBVIOUS
    <3>. QED BY <1>4, <2>1, <3>1
  <2>2. ASSUME NEW id \in Secrets!Found(key), secretRows' = [secretRows EXCEPT ![id] = SecretAbsent]
        PROVE  /\ {id} \subseteq Secrets!Found(key) /\ {id} # {}
               /\ secretRows' \in Seq(Secrets!StoredSecret \cup {SecretAbsent})
               /\ DOMAIN secretRows' = DOMAIN secretRows
               /\ \A i \in DOMAIN secretRows :
                    secretRows'[i] = IF i \in {id} THEN SecretAbsent ELSE secretRows[i]
    <3>1. id \in DOMAIN secretRows
      BY DEF Secrets!Found
    <3>. QED BY <1>4, <2>2, <3>1
  <2>3. \/ Secrets!Found(key) = {} /\ UNCHANGED secretRows
        \/ \E id \in Secrets!Found(key) : secretRows' = [secretRows EXCEPT ![id] = SecretAbsent]
    BY Zenon DEF Secrets!Delete
  <2>. QED BY <2>1, <2>2, <2>3
<1>6. /\ Secrets!Found(key)' = Secrets!Found(key) \ gone
      /\ \A x : x # key => Secrets!Found(x)' = Secrets!Found(x)
  BY <1>5 DEF Secrets!Found
<1>7. RowsGoOn
  BY <1>3, <1>5 DEF RowsGoOn
<1>8. /\ new \in [Secrets!SecretKey -> SecretValue \cup {SecretAbsent}]
      /\ new[key] = SecretAbsent /\ \A x \in Secrets!SecretKey : x # key => new[x] = register[x]
  BY <1>1, <1>4
<1>9. register' = new
  BY <1>3 DEF Secrets!Goes
<1>10. RowsAreRegistered'
  <2>. SUFFICES ASSUME NEW x \in Secrets!SecretKey \ contestedKeys, NEW found, found = Secrets!Found(x)'
                PROVE  /\ \A i, j \in found : i = j
                       /\ \A i \in found : secretRows'[i].value = new[x]
                       /\ found = {} => new[x] = SecretAbsent
    BY <1>3, <1>9 DEF RowsAreRegistered
  <2>1. /\ \A i, j \in Secrets!Found(x) : i = j
        /\ \A i \in Secrets!Found(x) : secretRows[i].value = register[x] /\ i \in DOMAIN secretRows
        /\ Secrets!Found(x) = {} => register[x] = SecretAbsent
    BY DEF SecretsInv, RowsAreRegistered, Secrets!Found
  <2>2. CASE x = key
    <3>1. found = {}
      BY <1>5, <1>6, <2>1, <2>2
    <3>. QED BY <1>8, <2>2, <3>1
  <2>3. CASE x # key
    <3>1. found = Secrets!Found(x)
      BY <1>6, <2>3
    <3>2. \A i \in found : i \in DOMAIN secretRows /\ secretRows[i].of = x
      BY <3>1 DEF Secrets!Found
    <3>3. \A i \in gone : secretRows[i].of = key
      BY <1>5 DEF Secrets!Found
    <3>4. \A i \in found : secretRows'[i] = secretRows[i]
      BY <1>5, <2>3, <3>2, <3>3
    <3>. QED BY <1>8, <2>1, <2>3, <3>1, <3>4
  <2>. QED BY <2>2, <2>3
<1>11. saved = Witnesses(saved, new) /\ saved.op # "set" /\ StateIsOK(saved)'
  BY <1>2, ThrewIsOK DEF Witnesses
<1>12. saved.op = "set" =>
         \A d \in SecretCall \ {c} :
           secretCalls[d].op = "set" /\ secretCalls[d].key = saved.key => saved.key \in contestedKeys'
  BY <1>11
<1>13. \A x \in Secrets!SecretKey :
         (/\ \E d \in SecretCall \ {c} : secretCalls[d].op = "set" /\ secretCalls[d].key = x
          /\ x \notin contestedKeys' /\ Secrets!Found(x) = {}) => Secrets!Found(x)' = {}
  BY <1>6
<1>14. environment' = environment /\ masterKey' \in SecretMasterKeys \cup {SecretAbsent}
       /\ contestedKeys' \subseteq Secrets!SecretKey
       /\ secretRows' \in Seq(Secrets!StoredSecret \cup {SecretAbsent})
  BY <1>3, <1>4, <1>5
<1>. QED BY <1>3, <1>7, <1>8, <1>10, <1>11, <1>12, <1>13, <1>14, CallGoesOn

-----------------------------------------------------------------------------
LEMMA ResolveStep ==
  ASSUME SecretsInv, NEW c \in SecretCall, NEW by \in SecretCaller, NEW name \in SecretNames,
         Secrets!Resolve(c, by, name)
  PROVE  SecretsInv'
<1>1. PICK values : values = [k \in Secrets!SecretKey |-> {}]
  OBVIOUS
<1>2. PICK rungs : rungs = <<Secrets!Personal(by), Secrets!Shared(by)>>
  OBVIOUS
<1>3. PICK state : state = [op |-> "resolve", by |-> by, name |-> name, at |-> 1,
                            rungs |-> rungs, held |-> values]
  OBVIOUS
<1>4. /\ Secrets!Goes(c, state, register)
      /\ UNCHANGED <<secretRows, environment, masterKey, restarts, contestedKeys>>
  BY <1>1, <1>2, <1>3, Zenon DEF Secrets!Resolve
<1>5. values \in HeldValues
  BY <1>1 DEF HeldValues
<1>6. rungs \in RungsOf(by) /\ Len(rungs) = 2
  BY <1>2 DEF RungsOf
<1>7. state \in Resolving
  BY <1>3, <1>5, <1>6 DEF Resolving
<1>8. GoesOutward(state)
  <2>1. state.by = by /\ state.rungs = rungs /\ state.at = 1
    BY <1>3
  <2>2. Len(state.rungs) = 2 /\ state.rungs \in RungsOf(state.by)
    BY <1>6, <2>1, Zenon
  <2>. HIDE DEF RungsOf
  <2>3. /\ ~ (Len(state.rungs) < 2) /\ ~ (Len(state.rungs) < 1) /\ ~ (state.at > 1)
        /\ state.rungs \in RungsOf(state.by)
    BY <2>1, <2>2
  <2>. QED BY <1>7, <2>3 DEF GoesOutward
<1>. QED BY <1>3, <1>4, <1>8, CallLooks

\* A resolution that is asking.
LEMMA ResolvingIs ==
  ASSUME SecretsInv, NEW c \in SecretCall, secretCalls[c].op = "resolve"
  PROVE  /\ secretCalls[c] \in Resolving /\ secretCalls[c].by \in SecretCaller
         /\ secretCalls[c].at \in Nat \ {0} /\ secretCalls[c].held \in HeldValues
         /\ secretCalls[c].rungs \in RungsOf(secretCalls[c].by)
         /\ secretCalls[c].name \in SecretNames
         /\ GoesOutward(secretCalls[c])
         /\ \A k \in Secrets!SecretKey : register[k] \in secretCalls[c].held[k]
BY DEF SecretsInv, StateIsOK, GoesOutward, Resolving

\* What is answered from outside the store, once the store has nothing.
LEMMA OutsideIsOK ==
  ASSUME NEW asked, GoesOutward(asked), asked.at > 1, NEW value, NEW from, from \notin Secrets!Boundary,
         contestedKeys' = contestedKeys
  PROVE  StateIsOK(Secrets!Answered(asked, value, from))'
<1>1. PICK state : state = Secrets!Answered(asked, value, from)
  OBVIOUS
<1>2. /\ state.op = "resolved" /\ state.by = asked.by /\ state.name = asked.name
      /\ state.held = asked.held /\ state.from = from
  BY <1>1 DEF Secrets!Answered
<1>3. asked.name # SecretMaster =>
        HeldNothing(asked, Secrets!Personal(asked.by)) /\ HeldNothing(asked, Secrets!Shared(asked.by))
  <2>1. Len(<<>>) = 0
    OBVIOUS
  <2>. QED BY <2>1 DEF GoesOutward
<1>4. state.name # SecretMaster =>
        HeldNothing(state, Secrets!Personal(state.by)) /\ HeldNothing(state, Secrets!Shared(state.by))
  BY <1>2, <1>3 DEF HeldNothing
<1>5. state.name # SecretMaster => IsNearest(state)'
  BY <1>2, <1>4, ContestedOnlyGrows DEF IsNearest
<1>6. StateIsOK(state)'
  BY <1>2, <1>5 DEF StateIsOK
<1>. QED BY <1>1, <1>6

LEMMA NowhereStep ==
  ASSUME SecretsInv, NEW c \in SecretCall, Secrets!Nowhere(c)
  PROVE  SecretsInv'
<1>1. PICK asked : asked = secretCalls[c]
  OBVIOUS
<1>2. PICK state : state = Secrets!Answered(asked, SecretAbsent, "nowhere")
  OBVIOUS
<1>3. /\ asked.op = "resolve" /\ asked.at > Len(Secrets!Chain)
      /\ Secrets!Goes(c, state, register)
      /\ UNCHANGED <<secretRows, environment, masterKey, restarts, began, contestedKeys>>
  BY <1>1, <1>2 DEF Secrets!Nowhere
<1>4. GoesOutward(asked) /\ asked.at \in Nat
  BY <1>1, <1>3, ResolvingIs
<1>5. asked.at > 1
  BY <1>3, <1>4, StoreComesFirst
<1>6. StateIsOK(state)'
  BY <1>2, <1>3, <1>4, <1>5, OutsideIsOK, SecretsConstants
<1>7. state.op = "resolved"
  BY <1>2 DEF Secrets!Answered
<1>. QED BY <1>3, <1>6, <1>7, CallLooks

LEMMA NotTheStore ==
  ASSUME SecretsInv, NEW c \in SecretCall, NEW p \in DOMAIN environment, Secrets!Asks(c, p)
  PROVE  p # "store" /\ p \notin Secrets!Boundary /\ secretCalls[c].op = "resolve" /\ secretCalls[c].at > 1
<1>1. p # "store" /\ p \notin Secrets!Boundary
  BY SecretsConstants DEF SecretsInv, SecretsTyped
<1>2. secretCalls[c].op = "resolve" /\ Secrets!Chain[secretCalls[c].at] = p
  BY DEF Secrets!Asks
<1>3. secretCalls[c].at \in Nat \ {0}
  BY <1>2, ResolvingIs
<1>4. secretCalls[c].at # 1
  BY <1>1, <1>2, StoreComesFirst
<1>. QED BY <1>1, <1>2, <1>3, <1>4

LEMMA DeploymentStep ==
  ASSUME SecretsInv, NEW c \in SecretCall, Secrets!Deployment(c)
  PROVE  SecretsInv'
<1>1. PICK asked : asked = secretCalls[c]
  OBVIOUS
<1>2. PICK p \in DOMAIN environment : Secrets!Asks(c, p)
               /\ Secrets!Goes(c, IF environment[p][asked.name] = SecretDown THEN [op |-> "threw"]
                                  ELSE Secrets!Answered(asked, environment[p][asked.name], p), register)
  BY <1>1, Zenon DEF Secrets!Deployment, Secrets!Threw
<1>3. UNCHANGED <<secretRows, environment, masterKey, restarts, began, contestedKeys>>
  BY DEF Secrets!Deployment
<1>4. p \notin Secrets!Boundary /\ asked.op = "resolve" /\ asked.at > 1
  BY <1>1, <1>2, NotTheStore
<1>5. GoesOutward(asked)
  BY <1>1, <1>4, ResolvingIs
<1>6. PICK value : value = environment[p][asked.name]
  OBVIOUS
<1>7. CASE value = SecretDown
  <2>1. Secrets!Goes(c, [op |-> "threw"], register)
    BY <1>2, <1>6, <1>7
  <2>. QED BY <1>3, <2>1, ThrewIsOK, CallLooks
<1>8. CASE value # SecretDown
  <2>1. PICK state : state = Secrets!Answered(asked, value, p)
    OBVIOUS
  <2>2. Secrets!Goes(c, state, register)
    BY <1>2, <1>6, <1>8, <2>1
  <2>3. StateIsOK(state)'
    BY <1>3, <1>4, <1>5, <2>1, OutsideIsOK
  <2>4. state.op = "resolved"
    BY <2>1 DEF Secrets!Answered
  <2>. QED BY <1>3, <2>2, <2>3, <2>4, CallLooks
<1>. QED BY <1>7, <1>8

LEMMA MissStep ==
  ASSUME SecretsInv, NEW c \in SecretCall, Secrets!Miss(c)
  PROVE  SecretsInv'
<1>1. PICK asked : asked = secretCalls[c]
  OBVIOUS
<1>2. PICK state : state = [asked EXCEPT !.at = @ + 1]
  OBVIOUS
<1>3. Secrets!Goes(c, state, register)
      /\ UNCHANGED <<secretRows, environment, masterKey, restarts, began, contestedKeys>>
  BY <1>1, <1>2, Zenon DEF Secrets!Miss
<1>4. asked.op = "resolve" /\ (asked.name # SecretMaster => asked.rungs = <<>> \/ asked.at > 1)
  <2>1. CASE Secrets!Asks(c, "store") /\ (asked.rungs = <<>> \/ asked.name = SecretMaster)
    BY <1>1, <2>1 DEF Secrets!Asks
  <2>2. ASSUME NEW p \in DOMAIN environment, Secrets!Asks(c, p)
        PROVE  asked.op = "resolve" /\ asked.at > 1
    BY <1>1, <2>2, NotTheStore
  <2>3. \/ Secrets!Asks(c, "store") /\ (asked.rungs = <<>> \/ asked.name = SecretMaster)
        \/ \E p \in DOMAIN environment : Secrets!Asks(c, p)
    BY <1>1 DEF Secrets!Miss
  <2>. QED BY <2>1, <2>2, <2>3
<1>5. GoesOutward(asked) /\ asked \in Resolving /\ asked.at \in Nat \ {0}
  BY <1>1, <1>4, ResolvingIs
<1>6. /\ state.by = asked.by /\ state.name = asked.name /\ state.rungs = asked.rungs
      /\ state.held = asked.held /\ state.op = "resolve" /\ state \in Resolving
  BY <1>2, <1>4, <1>5 DEF Resolving
<1>7. GoesOutward(state)
  <2>1. asked.name # SecretMaster => asked.rungs = <<>>
    BY <1>4, <1>5 DEF GoesOutward
  <2>2. \A boundaries : HeldNothing(state, boundaries) <=> HeldNothing(asked, boundaries)
    BY <1>6 DEF HeldNothing
  <2>. QED BY <1>5, <1>6, <2>1, <2>2 DEF GoesOutward
<1>. QED BY <1>3, <1>6, <1>7, CallLooks

LEMMA LookUpStep ==
  ASSUME SecretsInv, NEW c \in SecretCall, Secrets!LookUp(c)
  PROVE  SecretsInv'
<1>1. PICK asked : asked = secretCalls[c]
  OBVIOUS
<1>2. /\ asked.op = "resolve" /\ asked.rungs # <<>> /\ asked.name # SecretMaster
      /\ UNCHANGED <<secretRows, environment, restarts, began, contestedKeys>>
  BY <1>1 DEF Secrets!LookUp, Secrets!Asks
<1>3. /\ GoesOutward(asked) /\ asked \in Resolving /\ asked.at \in Nat \ {0}
      /\ asked.by \in SecretCaller /\ asked.name \in SecretName
      /\ asked.rungs \in RungsOf(asked.by)
      /\ \A k \in Secrets!SecretKey : register[k] \in asked.held[k]
  <2>1. asked.name \in SecretNames
    BY <1>1, <1>2, ResolvingIs
  <2>. QED BY <1>1, <1>2, <2>1, ResolvingIs DEF SecretNames
<1>4. PICK own, all : own = Secrets!Personal(asked.by) /\ all = Secrets!Shared(asked.by)
  OBVIOUS
<1>5. own \subseteq Secrets!Boundary /\ all \subseteq Secrets!Boundary /\ own \cap all = {}
  <2>1. own \cap all = {}
    <3>1. \A x, y : <<"personal", x>> # <<"organization", y>>
      OBVIOUS
    <3>. QED BY <1>4, <3>1 DEF Secrets!Personal, Secrets!Shared
  <2>. QED BY <1>3, <1>4, <2>1, BoundariesAre
<1>6. PICK rungs, head, tail : rungs = asked.rungs /\ head = Head(rungs) /\ tail = Tail(rungs)
  OBVIOUS
<1>7. \/ rungs = <<own, all>> /\ head = own /\ tail = <<all>>
      \/ rungs = <<all>> /\ head = all /\ tail = <<>>
  <2>1. rungs \in {<<own, all>>, <<all>>, <<>>} /\ rungs # <<>>
    BY <1>2, <1>3, <1>4, <1>6 DEF RungsOf
  <2>2. /\ Head(<<own, all>>) = own /\ Tail(<<own, all>>) = <<all>>
        /\ Head(<<all>>) = all /\ Tail(<<all>>) = <<>>
    OBVIOUS
  <2>. QED BY <1>6, <2>1, <2>2
<1>8. /\ Len(rungs) < 2 => HeldNothing(asked, own)
      /\ asked.at = 1
  BY <1>2, <1>3, <1>4, <1>6 DEF GoesOutward
<1>9. head \subseteq Secrets!Boundary
  BY <1>5, <1>7
<1>10. ASSUME NEW b \in Secrets!Boundary
       PROVE  /\ <<b, asked.name>> \in Secrets!SecretKey
              /\ <<b, asked.name>> \notin contestedKeys =>
                   /\ Secrets!Found(<<b, asked.name>>) = {} => SecretAbsent \in asked.held[<<b, asked.name>>]
                   /\ \A id \in Secrets!Found(<<b, asked.name>>) :
                        secretRows[id].value \in asked.held[<<b, asked.name>>]
  <2>1. <<b, asked.name>> \in Secrets!SecretKey
    BY <1>3, KeysAre
  <2>. PICK k \in Secrets!SecretKey : k = <<b, asked.name>>
    BY <2>1
  <2>2. k \notin contestedKeys =>
          /\ \A i \in Secrets!Found(k) : secretRows[i].value = register[k]
          /\ Secrets!Found(k) = {} => register[k] = SecretAbsent
    BY DEF SecretsInv, RowsAreRegistered
  <2>3. register[k] \in asked.held[k]
    BY <1>3
  <2>4. k \notin contestedKeys =>
          /\ Secrets!Found(k) = {} => SecretAbsent \in asked.held[k]
          /\ \A id \in Secrets!Found(k) : secretRows[id].value \in asked.held[k]
    BY <2>2, <2>3
  <2>. QED BY <2>1, <2>4
<1>11. CASE \A b \in head : Secrets!Found(<<b, asked.name>>) = {}
  <2>1. PICK state : state = [asked EXCEPT !.rungs = Tail(@)]
    OBVIOUS
  <2>2. Secrets!Goes(c, state, register) /\ UNCHANGED masterKey
    <3>1. IF \A b \in Head(asked.rungs) : Secrets!Found(<<b, asked.name>>) = {}
            THEN Secrets!Goes(c, [asked EXCEPT !.rungs = Tail(@)], register) /\ UNCHANGED masterKey
            ELSE TRUE
      BY <1>1, Zenon DEF Secrets!LookUp
    <3>. QED BY <1>6, <1>11, <2>1, <3>1, Zenon
  <2>3. HeldNothing(asked, head)
    BY <1>9, <1>10, <1>11 DEF HeldNothing
  <2>4. PICK r : r = Tail(asked.rungs) /\ r = tail
    BY <1>6
  <2>5. state = [asked EXCEPT !.rungs = r]
    BY <2>1, <2>4, Zenon
  <2>6. tail \in RungsOf(asked.by)
    BY <1>4, <1>7 DEF RungsOf
  <2>7. /\ state.by = asked.by /\ state.name = asked.name /\ state.rungs = tail
        /\ state.held = asked.held /\ state.op = "resolve" /\ state.at = asked.at /\ state \in Resolving
    <3>1. r \in UNION {RungsOf(by) : by \in SecretCaller}
      BY <1>3, <2>4, <2>6
    <3>. QED BY <1>3, <2>4, <2>5, <3>1 DEF Resolving
  <2>8. \A boundaries : HeldNothing(state, boundaries) <=> HeldNothing(asked, boundaries)
    BY <2>7 DEF HeldNothing
  <2>9. HeldNothing(asked, own) /\ (tail = <<>> => HeldNothing(asked, all))
    <3>1. CASE rungs = <<own, all>> /\ head = own /\ tail = <<all>>
      <4>1. <<all>> # <<>>
        OBVIOUS
      <4>. QED BY <2>3, <3>1, <4>1
    <3>2. CASE rungs = <<all>> /\ head = all /\ tail = <<>>
      <4>1. Len(rungs) < 2
        BY <3>2
      <4>. QED BY <1>8, <2>3, <3>2, <4>1
    <3>. QED BY <1>7, <3>1, <3>2
  <2>10. Len(tail) < 1 => tail = <<>>
    BY <1>7
  <2>11. GoesOutward(state)
    BY <1>4, <1>8, <2>6, <2>7, <2>8, <2>9, <2>10 DEF GoesOutward
  <2>. QED BY <1>2, <2>2, <2>7, <2>11, CallLooks
<1>12. CASE ~ \A b \in head : Secrets!Found(<<b, asked.name>>) = {}
  <2>1. PICK b \in head : \E id \in Secrets!Found(<<b, asked.name>>) :
          IF Secrets!MasterNow \in SecretMasterKeys
            THEN /\ masterKey' = Secrets!MasterNow
                 /\ Secrets!Goes(c, IF secretRows[id].under = Secrets!MasterNow
                          THEN Secrets!Answered(asked, secretRows[id].value, b)
                          ELSE [op |-> "threw"], register)
            ELSE Secrets!Goes(c, [op |-> "threw"], register) /\ UNCHANGED masterKey
    <3>1. IF \A b \in Head(asked.rungs) : Secrets!Found(<<b, asked.name>>) = {}
            THEN TRUE
            ELSE \E b \in Head(asked.rungs) : \E id \in Secrets!Found(<<b, asked.name>>) :
                   IF Secrets!MasterNow \in SecretMasterKeys
                   THEN /\ masterKey' = Secrets!MasterNow
                        /\ Secrets!Goes(c, IF secretRows[id].under = Secrets!MasterNow
                                 THEN Secrets!Answered(asked, secretRows[id].value, b)
                                 ELSE [op |-> "threw"], register)
                   ELSE Secrets!Goes(c, [op |-> "threw"], register) /\ UNCHANGED masterKey
      BY <1>1, Zenon DEF Secrets!LookUp, Secrets!Threw
    <3>. QED BY <1>6, <1>12, <3>1, Zenon
  <2>2. PICK id \in Secrets!Found(<<b, asked.name>>) :
          IF Secrets!MasterNow \in SecretMasterKeys
            THEN /\ masterKey' = Secrets!MasterNow
                 /\ Secrets!Goes(c, IF secretRows[id].under = Secrets!MasterNow
                          THEN Secrets!Answered(asked, secretRows[id].value, b)
                          ELSE [op |-> "threw"], register)
            ELSE Secrets!Goes(c, [op |-> "threw"], register) /\ UNCHANGED masterKey
    BY <2>1, Zenon
  <2>3. masterKey' = masterKey \/ masterKey' \in SecretMasterKeys
    BY <2>2
  <2>4. PICK state : state = Secrets!Answered(asked, secretRows[id].value, b)
    OBVIOUS
  <2>5. Secrets!Goes(c, [op |-> "threw"], register) \/ Secrets!Goes(c, state, register)
    BY <2>2, <2>4, Zenon
  <2>6. CASE Secrets!Goes(c, [op |-> "threw"], register)
    BY <1>2, <2>3, <2>6, ThrewIsOK, CallLooks
  <2>7. CASE Secrets!Goes(c, state, register)
    <3>1. /\ state.op = "resolved" /\ state.by = asked.by /\ state.name = asked.name
          /\ state.held = asked.held /\ state.from = b /\ state.value = secretRows[id].value
      BY <2>4 DEF Secrets!Answered
    <3>2. b \in Secrets!Boundary /\ b \in own \cup all
      BY <1>7, <1>9
    <3>3. b \in all => HeldNothing(state, own)
      <4>1. ASSUME b \in all PROVE Len(rungs) < 2
        <5>1. rungs = <<all>>
          BY <1>5, <1>7, <4>1
        <5>. QED BY <5>1
      <4>. QED BY <1>8, <3>1, <4>1 DEF HeldNothing
    <3>4. <<b, asked.name>> \notin contestedKeys => state.value \in asked.held[<<b, asked.name>>]
      BY <1>10, <3>1, <3>2
    <3>5. IsNearest(state)
      BY <1>4, <3>1, <3>2, <3>3, <3>4 DEF IsNearest
    <3>6. IsNearest(state)'
      BY <1>2, <3>5 DEF IsNearest, HeldNothing
    <3>7. StateIsOK(state)'
      BY <3>1, <3>6 DEF StateIsOK
    <3>. QED BY <1>2, <2>3, <2>7, <3>1, <3>7, CallLooks
  <2>. QED BY <2>5, <2>6, <2>7
<1>. QED BY <1>11, <1>12

LEMMA RestartStep ==
  ASSUME SecretsInv, Secrets!Restart
  PROVE  SecretsInv'
<1>1. /\ secretCalls' = [c \in SecretCall |-> [op |-> "idle"]]
      /\ environment' \in SecretEnvironments /\ masterKey' = SecretAbsent
      /\ UNCHANGED <<secretRows, register, contestedKeys>>
  BY DEF Secrets!Restart, Secrets!Idle
<1>2. SecretsTyped'
  BY <1>1 DEF SecretsInv, SecretsTyped
<1>3. RowsAreRegistered'
  BY <1>1, RowsRemain
<1>4. OneSaves' /\ \A c \in SecretCall : StateIsOK(secretCalls[c])'
  BY <1>1 DEF OneSaves, StateIsOK
<1>. QED BY <1>2, <1>3, <1>4 DEF SecretsInv

LEMMA SecretsStep ==
  ASSUME SecretsInv, Secrets!Next
  PROVE  SecretsInv'
<1>1. ASSUME NEW c \in SecretCall,
             \/ \E k \in Secrets!SecretKey :
                  Secrets!Delete(c, k) \/ \E v \in SecretValue : Secrets!Set(c, k, v)
             \/ Secrets!Find(c) \/ Secrets!Rotate(c) \/ Secrets!Create(c)
             \/ \E by \in SecretCaller, n \in SecretName \cup {SecretMaster} : Secrets!Resolve(c, by, n)
             \/ Secrets!LookUp(c) \/ Secrets!Miss(c) \/ Secrets!Deployment(c) \/ Secrets!Nowhere(c)
      PROVE  SecretsInv'
  BY <1>1, SetStep, SecretFindStep, RotateStep, SecretCreateStep, SecretDeleteStep, ResolveStep,
     LookUpStep, MissStep, DeploymentStep, NowhereStep DEF SecretNames
<1>. QED BY <1>1, RestartStep DEF Secrets!Next

\* A credential is the caller's own, as its key held at some time since it was asked for, and a wider
\* boundary or the deployment answers only if the nearer ones held nothing then, however saves,
\* deletions and restarts interleave, unless two saved the key at once (the door of buildSecrets and
\* the store's find and write).
THEOREM SecretsAreTheNearest == Spec => []ResolvesToTheNearest
<1> DEFINE Inv == part = "secrets" => SecretsInv
<1>1. Init => Inv
  BY SecretsInit DEF Init
<1>2. Inv /\ [Next]_vars => Inv'
  <2>. SUFFICES ASSUME part = "secrets", SecretsInv, [Next]_vars PROVE SecretsInv'
    BY DEF Next, vars
  <2>1. CASE UNCHANGED SecretsVars
    BY <2>1 DEF SecretsVars, SecretsInv, SecretsTyped, RowsAreRegistered, OneSaves, StateIsOK,
       SavesInPlace, GoesOutward, IsNearest, HeldNothing, Secrets!Found
  <2>2. CASE Secrets!Next
    BY <2>2, SecretsStep
  <2>. QED BY <2>1, <2>2 DEF Next, vars
<1>3. Inv => ResolvesToTheNearest
  <2>. SUFFICES ASSUME part = "secrets", SecretsInv
                PROVE  Secrets!TypeOK /\ Secrets!ResolvesToTheNearest
    BY DEF ResolvesToTheNearest
  <2>1. Secrets!TypeOK
    BY DEF SecretsInv, SecretsTyped, StateIsOK, Secrets!TypeOK
  <2>2. Secrets!ResolvesToTheNearest
    <3>. SUFFICES ASSUME NEW c \in SecretCall,
                         secretCalls[c].op = "resolved", secretCalls[c].name # SecretMaster
                  PROVE  IsNearest(secretCalls[c])
      BY Zenon DEF Secrets!ResolvesToTheNearest, IsNearest, HeldNothing
    <3>. QED BY DEF SecretsInv, StateIsOK
  <2>. QED BY <2>1, <2>2
<1>. QED BY <1>1, <1>2, <1>3, PTL DEF Spec

----------------------------------------------------------------------------
(* The registry.                                                           *)

RegistryOps == {"list", "write", "save", "change"}
OverrideOps == {"drop", "put", "tell", "unset", "erase"}

Listing == [op : {"list", "change"}, number : Nat, document : Registry!Accepted, alone : BOOLEAN]
Todo ==
  [create : SUBSET RegistryTool, update : SUBSET Registry!RegisteredTool,
   delete : SUBSET (Nat \X RegistryTool)]
Writing ==
  [op : {"write"}, number : Nat, document : Registry!Accepted, alone : BOOLEAN, todo : Todo]
Saving ==
  [op : {"save"}, number : Nat, document : Registry!Accepted, alone : BOOLEAN, row : Nat \cup {None}]
Saying ==
  [op : OverrideOps, number : Nat, action : Registry!Actions, access : Registry!Accesses,
   id : (Nat \X Registry!Actions) \cup {None}]

RegistryCalls == {Registry!Idle} \cup Listing \cup Writing \cup Saving \cup Saying

RegistryTyped ==
  /\ tools \subseteq Registry!RegisteredTool /\ specs \subseteq Registry!SpecRegistration
  /\ overlay \subseteq Registry!FactsOverlay
  /\ begun \in 0..RegistryMaxBegun /\ registryChanges \in Nat
  /\ last \in Registry!Accepted \cup {None}
  /\ actor \in [RegistryActor -> RegistryCalls]
  /\ wanted \in [Registry!Actions -> {[access |-> a] : a \in Registry!Accesses} \cup {None}]
  /\ overlapped \in BOOLEAN

\* Every call is counted when it begins, and tells at most once when it ends.
Busy == {p \in RegistryActor : actor[p] # Registry!Idle}
CallsAreCounted == IsFiniteSet(Busy) /\ registryChanges + Cardinality(Busy) <= begun

\* A row is of the tool that its id is of, and says what the version it has says.
RowIsOK(row) ==
  /\ row.id[2] = row.name /\ row.access = row.version.access
  /\ row.version.description # None => row.description = row.version.description

\* Who registers alone has nobody beside it, and a registration is remembered until the next begins.
AloneIsAlone ==
  /\ \A p, q \in RegistryActor :
       (Registry!Registering(p) /\ Registry!Registering(q) /\ actor[p].alone) => p = q
  /\ \A p \in RegistryActor : Registry!Registering(p) => last = None /\ (~overlapped => actor[p].alone)

\* Without overlaps an address has one row, and the source one registration.
RowsAreSingle ==
  ~overlapped => /\ \A r, s \in tools : r.name = s.name => r = s
                 /\ \A r, s \in specs : r = s

IsCurrent(row, tool) ==
  /\ row.version = tool /\ row.access = tool.access
  /\ tool.description # None => row.description = tool.description

Surface(document) ==
  /\ \A row \in tools : row.name \in DOMAIN document
  /\ \A n \in DOMAIN document : \E row \in tools : row.name = n /\ IsCurrent(row, document[n])

\* What is to be written is of the document.
TodoIsInside(document, todo) ==
  /\ todo.create \subseteq DOMAIN document
  /\ \A r \in todo.update : r.name \in DOMAIN document /\ r.id[2] = r.name

\* What is still to be written, of a registration that is alone, is what is missing.
TodoIsTheRest(document, todo) ==
  /\ \A row \in tools : row.name \notin todo.create
  /\ \A r \in todo.update : \E row \in tools : row.id = r.id /\ row.name = r.name
  /\ \A row \in tools : row.name \notin DOMAIN document => row.id \in todo.delete
  /\ \A id \in todo.delete : id[2] \notin DOMAIN document
  /\ \A n \in DOMAIN document \ todo.create :
       \/ \E r \in todo.update : r.name = n
       \/ \E row \in tools : row.name = n /\ IsCurrent(row, document[n])

\* How far a registration has come.
Registers(p) ==
  LET self == actor[p] IN
  /\ self.op = "write" => TodoIsInside(self.document, self.todo)
  /\ (self.op = "write" /\ self.alone) => TodoIsTheRest(self.document, self.todo)
  /\ (self.op \in {"save", "change"} /\ self.alone) => Surface(self.document)
  /\ (self.op = "save" /\ self.alone) =>
       IF self.row = None THEN specs = {} ELSE \E row \in specs : row.id = self.row
  /\ (self.op = "change" /\ self.alone) =>
       \E row \in specs : row.version = Registry!Version(self.document)

LastIsTheSurface ==
  last # None => Surface(last) /\ \E row \in specs : row.version = Registry!Version(last)

Said(a) == {row \in overlay : row.action = a}
AtMostOne(found) == \A r, s \in found : r = s

\* What the overlay has of an action, unless the action is unsure: what was said of it last, or, while
\* somebody says something of it, what that call has left of it.
SaysLast(a) ==
  /\ \A p, q \in Registry!Overriding(a) : p = q
  /\ \A p \in Registry!Overriding(a) :
       LET self == actor[p] IN
       /\ self.op \in {"drop", "unset"} => AtMostOne(Said(a))
       /\ self.op = "put" => Said(a) = {}
       /\ self.op = "erase" => \A row \in Said(a) : row.id = self.id
       /\ IF self.op \in {"drop", "put"} THEN wanted[a] = [access |-> self.access] ELSE wanted[a] = None
  /\ Registry!Overriding(a) = {} =>
       IF wanted[a] = None THEN Said(a) = {}
       ELSE \E row \in overlay : Said(a) = {row} /\ wanted[a] = [access |-> row.access]

\* A row of the overlay is of the action that its id is of.
OverlayIsOK ==
  /\ \A row \in overlay : row.id[2] = row.action
  /\ \A p \in RegistryActor : actor[p].op = "erase" => actor[p].id[2] = actor[p].action

RegistryInv ==
  /\ RegistryTyped /\ CallsAreCounted
  /\ \A row \in tools : RowIsOK(row)
  /\ AloneIsAlone /\ RowsAreSingle /\ LastIsTheSurface
  /\ \A p \in RegistryActor : Registers(p)
  /\ OverlayIsOK /\ \A a \in Registry!Actions \ unsure : SaysLast(a)

-----------------------------------------------------------------------------
\* What a call's place says of its record.
LEMMA RegistryCallIs ==
  ASSUME RegistryTyped, NEW p \in RegistryActor
  PROVE  /\ actor[p] \in RegistryCalls
         /\ actor[p].op = "idle" <=> actor[p] = Registry!Idle
         /\ actor[p].op \in {"list", "change"} => actor[p] \in Listing
         /\ actor[p].op = "write" => actor[p] \in Writing
         /\ actor[p].op = "save" => actor[p] \in Saving
         /\ actor[p].op \in OverrideOps => actor[p] \in Saying
         /\ Registry!Registering(p) <=> actor[p].op \in RegistryOps
         /\ actor[p].op \in RegistryOps =>
              /\ actor[p].document \in Registry!Accepted /\ actor[p].alone \in BOOLEAN
              /\ actor[p].number \in Nat
         /\ actor[p].op \notin RegistryOps \cap OverrideOps
BY DEF RegistryTyped, RegistryCalls, Registry!Idle, Listing, Writing, Saving, Saying,
   Registry!Registering, RegistryOps, OverrideOps

LEMMA RegistryGoes ==
  ASSUME RegistryTyped, NEW p \in RegistryActor, NEW state \in RegistryCalls, Registry!Goes(p, state)
  PROVE  /\ actor'[p] = state /\ actor' \in [RegistryActor -> RegistryCalls]
         /\ \A q \in RegistryActor : q # p => actor'[q] = actor[q]
BY DEF RegistryTyped, Registry!Goes

\* The count of the calls: one goes on, begins, or ends.
LEMMA BusyGoesOn ==
  ASSUME RegistryInv, NEW p \in RegistryActor, actor[p] # Registry!Idle, actor'[p] # Registry!Idle,
         \A q \in RegistryActor : q # p => actor'[q] = actor[q],
         UNCHANGED <<registryChanges, begun>>
  PROVE  CallsAreCounted'
<1>1. Busy' = Busy
  BY DEF Busy
<1>. QED BY <1>1 DEF RegistryInv, CallsAreCounted

LEMMA BusyEnds ==
  ASSUME RegistryInv, NEW p \in RegistryActor, actor[p] # Registry!Idle, actor'[p] = Registry!Idle,
         \A q \in RegistryActor : q # p => actor'[q] = actor[q], begun' = begun,
         registryChanges' = registryChanges \/ registryChanges' = registryChanges + 1
  PROVE  CallsAreCounted'
<1>1. Busy' = Busy \ {p} /\ p \in Busy
  BY DEF Busy
<1>2. IsFiniteSet(Busy) /\ registryChanges + Cardinality(Busy) <= begun
  BY DEF RegistryInv, CallsAreCounted
<1>3. IsFiniteSet(Busy \ {p}) /\ Cardinality(Busy \ {p}) = Cardinality(Busy) - 1
  BY <1>1, <1>2, FS_RemoveElement
<1>4. Cardinality(Busy) \in Nat
  BY <1>2, FS_CardinalityType
<1>. HIDE DEF Busy
<1>5. registryChanges \in Nat /\ begun \in Nat
  BY RegistryRegistryAssumption DEF RegistryInv, RegistryTyped, Registry!RegistryAssumption
<1>6. IsFiniteSet(Busy') /\ Cardinality(Busy') = Cardinality(Busy) - 1
  BY <1>1, <1>3
<1>7. registryChanges' + Cardinality(Busy') <= begun'
  BY <1>2, <1>4, <1>5, <1>6
<1>. QED BY <1>6, <1>7 DEF CallsAreCounted

LEMMA BusyBegins ==
  ASSUME RegistryInv, NEW p \in RegistryActor, actor[p] = Registry!Idle, actor'[p] # Registry!Idle,
         \A q \in RegistryActor : q # p => (actor'[q] = Registry!Idle <=> actor[q] = Registry!Idle),
         begun' = begun + 1, registryChanges' = registryChanges
  PROVE  CallsAreCounted'
<1>1. Busy' = Busy \cup {p} /\ p \notin Busy
  BY DEF Busy
<1>2. IsFiniteSet(Busy) /\ registryChanges + Cardinality(Busy) <= begun
  BY DEF RegistryInv, CallsAreCounted
<1>3. IsFiniteSet(Busy \cup {p}) /\ Cardinality(Busy \cup {p}) = Cardinality(Busy) + 1
  BY <1>1, <1>2, FS_AddElement
<1>4. Cardinality(Busy) \in Nat
  BY <1>2, FS_CardinalityType
<1>. HIDE DEF Busy
<1>5. registryChanges \in Nat /\ begun \in Nat
  BY RegistryRegistryAssumption DEF RegistryInv, RegistryTyped, Registry!RegistryAssumption
<1>6. IsFiniteSet(Busy') /\ Cardinality(Busy') = Cardinality(Busy) + 1
  BY <1>1, <1>3
<1>7. registryChanges' + Cardinality(Busy') <= begun'
  BY <1>2, <1>4, <1>5, <1>6
<1>. QED BY <1>6, <1>7 DEF CallsAreCounted

\* The invariant is three things: the types and the count, what is registered, what is overridden.
Registered ==
  /\ \A row \in tools : RowIsOK(row)
  /\ AloneIsAlone /\ RowsAreSingle /\ LastIsTheSurface
  /\ \A p \in RegistryActor : Registers(p)
Overridden == OverlayIsOK /\ \A a \in Registry!Actions \ unsure : SaysLast(a)

\* What is registered does not change when nobody registers, or somebody who does stops.
LEMMA RegisteredStays ==
  ASSUME RegistryInv, RegistryTyped', NEW p \in RegistryActor, UNCHANGED <<tools, specs, last, overlapped>>,
         actor'[p].op \notin RegistryOps, \A q \in RegistryActor : q # p => actor'[q] = actor[q]
  PROVE  Registered'
<1>1. \A q \in RegistryActor : Registry!Registering(q)' => q # p /\ Registry!Registering(q) /\ actor'[q] = actor[q]
  BY DEF Registry!Registering, RegistryTyped, RegistryCalls, Registry!Idle, Listing, Writing, Saving, Saying,
     RegistryOps, OverrideOps
<1>2. AloneIsAlone'
  BY <1>1 DEF RegistryInv, AloneIsAlone
<1>3. ASSUME NEW q \in RegistryActor
      PROVE  Registers(q)'
  <2>1. CASE q # p
    <3>1. actor'[q] = actor[q]
      BY <2>1
    <3>. QED BY <3>1 DEF RegistryInv, Registers, TodoIsTheRest, TodoIsInside, Surface
  <2>2. CASE q = p
    BY <2>2 DEF Registers, RegistryOps
  <2>. QED BY <2>1, <2>2
<1>4. LastIsTheSurface' /\ RowsAreSingle' /\ (\A row \in tools : RowIsOK(row))'
  BY DEF RegistryInv, LastIsTheSurface, RowsAreSingle, Surface
<1>. QED BY <1>2, <1>3, <1>4 DEF Registered

\* What is overridden does not change when nobody overrides.
LEMMA OverriddenStays ==
  ASSUME RegistryInv, UNCHANGED <<overlay, wanted, unsure>>,
         \A q \in RegistryActor : actor'[q] = actor[q] \/ (/\ actor[q].op \notin OverrideOps \ {"tell"}
                                                           /\ actor'[q].op \notin OverrideOps \ {"tell"})
  PROVE  Overridden'
<1>5. OverlayIsOK'
  BY DEF RegistryInv, OverlayIsOK, OverrideOps
<1>. SUFFICES ASSUME NEW a \in Registry!Actions \ unsure
              PROVE  SaysLast(a)'
  BY <1>5 DEF Overridden
<1>1. Registry!Overriding(a)' = Registry!Overriding(a)
  BY DEF Registry!Overriding, OverrideOps
<1>2. \A p \in Registry!Overriding(a) : actor'[p] = actor[p]
  BY DEF Registry!Overriding, OverrideOps
<1>3. Said(a)' = Said(a)
  BY DEF Said
<1>4. SaysLast(a)
  BY DEF RegistryInv
<1>. QED BY <1>1, <1>2, <1>3, <1>4 DEF SaysLast, AtMostOne

\* What a step of a registration has to keep.
LEMMA OneRegisters ==
  ASSUME RegistryInv, RegistryTyped', NEW p \in RegistryActor, UNCHANGED <<last, overlapped>>,
         actor[p].op \in RegistryOps, actor'[p].op \in RegistryOps, actor'[p].alone = actor[p].alone,
         \A q \in RegistryActor : q # p => actor'[q] = actor[q],
         (\A row \in tools : RowIsOK(row))', RowsAreSingle', Registers(p)'
  PROVE  Registered'
<1>1. \A q \in RegistryActor :
        /\ Registry!Registering(q)' <=> actor'[q].op \in RegistryOps
        /\ Registry!Registering(q) <=> actor[q].op \in RegistryOps
  BY DEF RegistryInv, RegistryTyped, RegistryCalls, Registry!Idle, Listing, Writing, Saving, Saying,
     Registry!Registering, RegistryOps, OverrideOps
<1>2. \A q \in RegistryActor : (Registry!Registering(q)' <=> Registry!Registering(q))
                               /\ (Registry!Registering(q) => actor'[q].alone = actor[q].alone)
  BY <1>1
<1>3. AloneIsAlone'
  BY <1>2 DEF RegistryInv, AloneIsAlone
<1>4. last' = None
  BY <1>1 DEF RegistryInv, AloneIsAlone
<1>5. ASSUME NEW q \in RegistryActor
      PROVE  Registers(q)'
  <2>1. CASE q # p
    <3>1. actor'[q] = actor[q] /\ Registers(q)
      BY <2>1 DEF RegistryInv
    <3>2. actor[q].op \in RegistryOps => ~actor[q].alone
      BY <1>1, <2>1 DEF RegistryInv, AloneIsAlone
    <3>. QED BY <3>1, <3>2 DEF Registers, RegistryOps, TodoIsInside
  <2>. QED BY <2>1
<1>. QED BY <1>3, <1>4, <1>5 DEF Registered, LastIsTheSurface

LEMMA RegistryInit ==
  ASSUME Registry!Init
  PROVE  RegistryInv
<1>1. /\ tools = {} /\ specs = {} /\ overlay = {} /\ registryChanges = 0 /\ begun = 0 /\ last = None
      /\ actor = [p \in RegistryActor |-> Registry!Idle]
      /\ wanted = [a \in Registry!Actions |-> None] /\ overlapped = FALSE /\ unsure = {}
  BY DEF Registry!Init
<1>2. RegistryTyped
  <2>1. begun \in 0..RegistryMaxBegun /\ registryChanges \in Nat
    BY <1>1, RegistryRegistryAssumption DEF Registry!RegistryAssumption
  <2>2. actor \in [RegistryActor -> RegistryCalls]
    BY <1>1 DEF RegistryCalls
  <2>3. wanted \in [Registry!Actions -> {[access |-> a] : a \in Registry!Accesses} \cup {None}]
    BY <1>1
  <2>. QED BY <1>1, <2>1, <2>2, <2>3 DEF RegistryTyped
<1>3. CallsAreCounted
  <2>1. Busy = {}
    BY <1>1 DEF Busy
  <2>. QED BY <1>1, <2>1, FS_EmptySet DEF CallsAreCounted
<1>4. \A p \in RegistryActor : actor[p].op = "idle"
  BY <1>1 DEF Registry!Idle
<1>5. Registered
  BY <1>1, <1>4 DEF Registered, AloneIsAlone, RowsAreSingle, LastIsTheSurface, Registers, Registry!Registering
<1>6. ASSUME NEW a \in Registry!Actions
      PROVE  SaysLast(a)
  <2>1. Registry!Overriding(a) = {} /\ Said(a) = {} /\ wanted[a] = None
    BY <1>1, <1>4 DEF Registry!Overriding, Said
  <2>. QED BY <2>1 DEF SaysLast
<1>7. OverlayIsOK
  BY <1>1, <1>4 DEF OverlayIsOK
<1>. QED BY <1>2, <1>3, <1>5, <1>6, <1>7 DEF RegistryInv, Registered

-----------------------------------------------------------------------------
\* Registrations.
LEMMA RegisterStep ==
  ASSUME RegistryInv, NEW p \in RegistryActor, NEW document \in RegistryDocuments,
         Registry!Register(p, document)
  PROVE  RegistryInv'
<1>1. /\ actor[p] = Registry!Idle /\ begun < RegistryMaxBegun /\ begun' = begun + 1
      /\ UNCHANGED <<tools, specs, overlay, registryChanges, wanted, unsure>>
  BY DEF Registry!Register
<1>2. begun' \in 0..RegistryMaxBegun /\ begun' \in Nat
  BY <1>1, RegistryRegistryAssumption DEF RegistryInv, RegistryTyped, Registry!RegistryAssumption
<1>3. CASE document = RegistryMalformed
  <2>1. UNCHANGED <<actor, last, overlapped>>
    BY <1>3 DEF Registry!Register
  <2>2. RegistryTyped'
    BY <1>1, <1>2, <2>1 DEF RegistryInv, RegistryTyped
  <2>3. CallsAreCounted'
    <3>1. Busy' = Busy
      BY <2>1 DEF Busy
    <3>2. Cardinality(Busy) \in Nat /\ registryChanges \in Nat /\ begun \in Nat
      BY FS_CardinalityType, RegistryRegistryAssumption
         DEF RegistryInv, RegistryTyped, CallsAreCounted, Registry!RegistryAssumption
    <3>. HIDE DEF Busy
    <3>3. IsFiniteSet(Busy) /\ registryChanges + Cardinality(Busy) <= begun
      BY DEF RegistryInv, CallsAreCounted
    <3>. QED BY <1>1, <3>1, <3>2, <3>3 DEF CallsAreCounted
  <2>4. Overridden'
    BY <1>1, <2>1, OverriddenStays
  <2>5. Registered'
    BY <1>1, <2>1 DEF RegistryInv, Registered, AloneIsAlone, RowsAreSingle, LastIsTheSurface, Registers,
       TodoIsTheRest, TodoIsInside, Surface, Registry!Registering
  <2>. QED BY <2>2, <2>3, <2>4, <2>5 DEF RegistryInv, Registered, Overridden
<1>4. CASE document # RegistryMalformed
  <2> DEFINE others == {q \in RegistryActor \ {p} : Registry!Registering(q)}
  <2>1. /\ actor' = [q \in RegistryActor |->
                       CASE q = p -> [op |-> "list", number |-> begun', document |-> document,
                                      alone |-> others = {}]
                         [] q \in others -> [actor[q] EXCEPT !.alone = FALSE]
                         [] OTHER -> actor[q]]
        /\ last' = None /\ overlapped' = (overlapped \/ others # {})
    BY <1>4 DEF Registry!Register
  <2>2. PICK state : state = [op |-> "list", number |-> begun', document |-> document,
                              alone |-> others = {}]
    OBVIOUS
  <2>3. actor'[p] = state
    BY <2>1, <2>2
  <2>4. ASSUME NEW q \in RegistryActor, q # p
        PROVE  /\ q \in others => actor'[q] = [actor[q] EXCEPT !.alone = FALSE]
               /\ q \notin others => actor'[q] = actor[q]
    BY <2>1, <2>4
  <2>5. state \in Listing /\ state.op = "list" /\ state.document = document /\ state.alone = (others = {})
    <3>1. document \in Registry!Accepted
      BY <1>4 DEF Registry!Accepted
    <3>. QED BY <1>2, <2>2, <3>1 DEF Listing
  <2>6. RegistryTyped
    BY DEF RegistryInv
  <2>7. ASSUME NEW q \in others, NEW moved, moved = [actor[q] EXCEPT !.alone = FALSE]
        PROVE  /\ actor[q].op \in RegistryOps /\ moved \in RegistryCalls
               /\ moved.op = actor[q].op /\ moved.document = actor[q].document /\ moved.alone = FALSE
               /\ actor[q].op = "write" => moved.todo = actor[q].todo
    <3>1. actor[q] \in Listing \cup Writing \cup Saving /\ actor[q].op \in RegistryOps
      BY <2>6, RegistryCallIs DEF RegistryOps
    <3>2. CASE actor[q] \in Listing
      BY <2>7, <3>1, <3>2 DEF Listing, RegistryCalls
    <3>3. CASE actor[q] \in Writing
      BY <2>7, <3>1, <3>3 DEF Writing, RegistryCalls
    <3>4. CASE actor[q] \in Saving
      BY <2>7, <3>1, <3>4 DEF Saving, RegistryCalls
    <3>. QED BY <3>1, <3>2, <3>3, <3>4
  <2>. HIDE DEF others
  <2>8. \A q \in RegistryActor : q # p =>
          \/ q \notin others /\ actor'[q] = actor[q]
          \/ /\ q \in others /\ actor[q].op \in RegistryOps /\ actor'[q] \in RegistryCalls
             /\ actor'[q].op = actor[q].op /\ actor'[q].document = actor[q].document
             /\ actor'[q].alone = FALSE
             /\ actor[q].op = "write" => actor'[q].todo = actor[q].todo
    <3>. SUFFICES ASSUME NEW q \in RegistryActor, q # p, q \in others
                  PROVE  /\ actor[q].op \in RegistryOps /\ actor'[q] \in RegistryCalls
                         /\ actor'[q].op = actor[q].op /\ actor'[q].document = actor[q].document
                         /\ actor'[q].alone = FALSE
                         /\ actor[q].op = "write" => actor'[q].todo = actor[q].todo
      BY <2>4, Zenon
    <3>1. PICK moved : moved = [actor[q] EXCEPT !.alone = FALSE]
      OBVIOUS
    <3>2. actor'[q] = moved
      BY <2>4, <3>1, Zenon
    <3>3. /\ actor[q].op \in RegistryOps /\ moved \in RegistryCalls
          /\ moved.op = actor[q].op /\ moved.document = actor[q].document /\ moved.alone = FALSE
          /\ actor[q].op = "write" => moved.todo = actor[q].todo
      BY <2>7, <3>1
    <3>. QED BY <3>2, <3>3, Zenon
  <2>9. \A q \in RegistryActor : q \in others <=> q # p /\ Registry!Registering(q)
    BY DEF others
  <2>11. \A q \in RegistryActor : actor'[q] \in RegistryCalls
    <3>1. state \in RegistryCalls
      BY <2>5 DEF RegistryCalls
    <3>2. \A q \in RegistryActor : actor[q] \in RegistryCalls
      BY <2>6, RegistryCallIs
    <3>. QED BY <2>3, <2>8, <3>1, <3>2, Zenon
  <2>12. RegistryTyped'
    <3>1. actor' \in [RegistryActor -> RegistryCalls]
      BY <2>1, <2>11
    <3>2. overlapped' \in BOOLEAN
      BY <2>1
    <3>. QED BY <1>1, <1>2, <2>1, <3>1, <3>2 DEF RegistryInv, RegistryTyped
  <2>13. CallsAreCounted'
    <3>1. \A q \in RegistryActor : q # p => (actor'[q] = Registry!Idle <=> actor[q] = Registry!Idle)
      BY <2>8 DEF Registry!Idle, RegistryOps
    <3>2. actor'[p] # Registry!Idle
      BY <2>3, <2>5 DEF Registry!Idle
    <3>. QED BY <1>1, <3>1, <3>2, BusyBegins
  <2>14. Overridden'
    <3>1. \A q \in RegistryActor : actor'[q] = actor[q] \/ (/\ actor[q].op \notin OverrideOps \ {"tell"}
                                                           /\ actor'[q].op \notin OverrideOps \ {"tell"})
      BY <1>1, <2>3, <2>5, <2>8 DEF RegistryOps, OverrideOps, Registry!Idle
    <3>. QED BY <1>1, <3>1, OverriddenStays
  <2>15. \A q \in RegistryActor : q # p => (Registry!Registering(q)' <=> Registry!Registering(q))
    BY <2>8 DEF Registry!Registering
  <2>16. AloneIsAlone'
    <3>1. \A q \in RegistryActor : q # p /\ Registry!Registering(q) => actor'[q].alone = FALSE
      BY <2>8, <2>9
    <3>2. actor'[p].alone => \A q \in RegistryActor : q # p => ~Registry!Registering(q)
      BY <2>3, <2>5, <2>9
    <3>3. ~overlapped' => \A q \in RegistryActor : q # p => ~Registry!Registering(q)
      BY <2>1, <2>9
    <3>4. ~overlapped' => actor'[p].alone
      BY <2>1, <2>3, <2>5
    <3>. QED BY <2>1, <2>15, <3>1, <3>2, <3>3, <3>4 DEF AloneIsAlone
  <2>17. ASSUME NEW q \in RegistryActor
         PROVE  Registers(q)'
    <3>1. CASE q = p
      BY <2>3, <2>5, <3>1 DEF Registers
    <3>2. CASE q # p /\ actor'[q] = actor[q]
      <4>1. Registers(q)
        BY DEF RegistryInv
      <4>. QED BY <1>1, <3>2, <4>1 DEF Registers, TodoIsTheRest, TodoIsInside, Surface
    <3>3. CASE q # p /\ actor'[q] # actor[q]
      <4>1. Registers(q)
        BY DEF RegistryInv
      <4>2. /\ actor'[q].op = actor[q].op /\ actor'[q].document = actor[q].document
            /\ actor'[q].alone = FALSE /\ (actor[q].op = "write" => actor'[q].todo = actor[q].todo)
        BY <2>8, <3>3
      <4>. QED BY <4>1, <4>2 DEF Registers, TodoIsInside
    <3>. QED BY <3>1, <3>2, <3>3
  <2>18. (\A row \in tools : RowIsOK(row))' /\ LastIsTheSurface' /\ RowsAreSingle'
    BY <1>1, <2>1 DEF RegistryInv, LastIsTheSurface, RowsAreSingle
  <2>. QED BY <2>12, <2>13, <2>14, <2>16, <2>17, <2>18 DEF RegistryInv, Overridden
<1>. QED BY <1>3, <1>4

LEMMA ListStep ==
  ASSUME RegistryInv, NEW p \in RegistryActor, Registry!ListBySource(p)
  PROVE  RegistryInv'
<1>1. /\ actor[p].op = "list"
      /\ UNCHANGED <<tools, specs, overlay, registryChanges, begun, last, wanted, overlapped, unsure>>
  BY DEF Registry!ListBySource, Registry!Rows, Registry!History
<1>2. /\ RegistryTyped /\ actor[p].document \in Registry!Accepted /\ actor[p].alone \in BOOLEAN
      /\ actor[p].number \in Nat
  BY <1>1, RegistryCallIs DEF RegistryInv, RegistryOps
<1>3. PICK document : document = actor[p].document
  OBVIOUS
<1>4. DOMAIN document \subseteq RegistryTool
  BY <1>2, <1>3, RegistryRegistryAssumption DEF Registry!RegistryAssumption
<1>5. PICK prior \in Registry!Prior(tools) :
        Registry!Goes(p, [op |-> "write", number |-> actor[p].number, document |-> document,
                          alone |-> actor[p].alone, todo |-> Registry!Difference(document, tools, prior)])
  BY <1>3, Zenon DEF Registry!ListBySource
<1>6. PICK todo : todo = Registry!Difference(document, tools, prior)
  OBVIOUS
<1>7. /\ todo.create = DOMAIN document \ DOMAIN prior
      /\ todo.update = {prior[n] : n \in {n \in DOMAIN document \cap DOMAIN prior :
                                            prior[n].version # document[n]}}
      /\ todo.delete = {row.id : row \in {row \in tools : row.name \notin DOMAIN document}}
      /\ todo = [create |-> todo.create, update |-> todo.update, delete |-> todo.delete]
  BY <1>6 DEF Registry!Difference, Registry!ContentVersion
<1>8. /\ DOMAIN prior = {row.name : row \in tools}
      /\ \A n \in DOMAIN prior : prior[n] \in tools /\ prior[n].name = n
  BY <1>5 DEF Registry!Prior
<1>9. \A row \in tools : row \in Registry!RegisteredTool /\ row.id \in Nat \X RegistryTool
                         /\ row.id[2] = row.name /\ RowIsOK(row)
  BY DEF RegistryInv, RegistryTyped, RowIsOK, Registry!RegisteredTool
<1>10. todo \in Todo
  <2>1. todo.create \in SUBSET RegistryTool
    BY <1>4, <1>7
  <2>2. todo.update \in SUBSET Registry!RegisteredTool
    BY <1>7, <1>8, <1>9
  <2>3. todo.delete \in SUBSET (Nat \X RegistryTool)
    BY <1>7, <1>9
  <2>. QED BY <1>7, <2>1, <2>2, <2>3 DEF Todo
<1>11. PICK state : state = [op |-> "write", number |-> actor[p].number, document |-> document,
                             alone |-> actor[p].alone, todo |-> todo]
  OBVIOUS
<1>12. state \in Writing /\ Registry!Goes(p, state)
  <2>1. state \in Writing
    BY <1>2, <1>3, <1>10, <1>11 DEF Writing
  <2>. QED BY <1>5, <1>6, <1>11, <2>1
<1>13. TodoIsInside(document, todo)
  BY <1>7, <1>8, <1>9 DEF TodoIsInside
<1>14. TodoIsTheRest(document, todo)
  <2>1. \A row \in tools : row.name \notin todo.create
    BY <1>7, <1>8
  <2>2. \A r \in todo.update : \E row \in tools : row.id = r.id /\ row.name = r.name
    BY <1>7, <1>8
  <2>3. \A row \in tools : row.name \notin DOMAIN document => row.id \in todo.delete
    BY <1>7
  <2>4. \A id \in todo.delete : id[2] \notin DOMAIN document
    BY <1>7, <1>9
  <2>5. ASSUME NEW n \in DOMAIN document \ todo.create
        PROVE  \/ \E r \in todo.update : r.name = n
               \/ \E row \in tools : row.name = n /\ IsCurrent(row, document[n])
    <3>1. n \in DOMAIN prior /\ prior[n] \in tools /\ prior[n].name = n /\ RowIsOK(prior[n])
      BY <1>7, <1>8, <1>9, <2>5
    <3>2. CASE prior[n].version = document[n]
      BY <3>1, <3>2 DEF IsCurrent, RowIsOK
    <3>3. CASE prior[n].version # document[n]
      BY <1>7, <2>5, <3>1, <3>3
    <3>. QED BY <3>2, <3>3
  <2>. QED BY <2>1, <2>2, <2>3, <2>4, <2>5 DEF TodoIsTheRest
<1>15. /\ actor'[p] = state /\ actor' \in [RegistryActor -> RegistryCalls]
       /\ \A q \in RegistryActor : q # p => actor'[q] = actor[q]
  BY <1>2, <1>12, RegistryGoes DEF RegistryCalls
<1>16. RegistryTyped'
  BY <1>1, <1>15 DEF RegistryInv, RegistryTyped
<1>17. state.op = "write" /\ state.document = document /\ state.todo = todo /\ state.alone = actor[p].alone
  BY <1>11
<1>18. Registers(p)'
  BY <1>1, <1>13, <1>14, <1>15, <1>17 DEF Registers, TodoIsTheRest, TodoIsInside
<1>19. Registered'
  <2>1. (\A row \in tools : RowIsOK(row))' /\ RowsAreSingle'
    BY <1>1 DEF RegistryInv, RowsAreSingle
  <2>. QED BY <1>1, <1>15, <1>16, <1>17, <1>18, <2>1, OneRegisters DEF RegistryOps
<1>20. CallsAreCounted'
  BY <1>1, <1>15, <1>17, BusyGoesOn DEF Registry!Idle
<1>21. Overridden'
  BY <1>1, <1>15, <1>17, OverriddenStays DEF OverrideOps
<1>. QED BY <1>16, <1>19, <1>20, <1>21 DEF RegistryInv, Registered, Overridden

\* What one that writes is, and that what it does to its list is one step of its record.
LEMMA WritingIs ==
  ASSUME RegistryInv, NEW p \in RegistryActor, actor[p].op = "write"
  PROVE  /\ actor[p].document \in Registry!Accepted /\ actor[p].alone \in BOOLEAN
         /\ actor[p].number \in Nat /\ actor[p].todo \in Todo
         /\ DOMAIN actor[p].document \subseteq RegistryTool
         /\ TodoIsInside(actor[p].document, actor[p].todo)
         /\ actor[p].alone => TodoIsTheRest(actor[p].document, actor[p].todo)
         /\ last = None
<1>1. actor[p] \in Writing /\ Registry!Registering(p)
  BY RegistryCallIs DEF RegistryInv, RegistryOps
<1>2. last = None
  BY <1>1 DEF RegistryInv, AloneIsAlone
<1>3. actor[p].document \in Registry!Accepted
  BY <1>1 DEF Writing
<1>. QED BY <1>1, <1>2, <1>3, RegistryRegistryAssumption
         DEF Writing, RegistryInv, Registers, Registry!RegistryAssumption

LEMMA DoesStep ==
  ASSUME RegistryInv, NEW p \in RegistryActor, actor[p].op = "write",
         NEW document, document = actor[p].document, NEW todo \in Todo,
         Registry!Does(p, todo), tools' \subseteq Registry!RegisteredTool,
         UNCHANGED <<specs, overlay, registryChanges, begun, last, wanted, overlapped, unsure>>,
         (\A row \in tools : RowIsOK(row))',
         ~overlapped => (actor[p].alone => \A r, s \in tools' : r.name = s.name => r = s),
         TodoIsInside(document, todo), actor[p].alone => TodoIsTheRest(document, todo)'
  PROVE  RegistryInv'
<1>1. /\ actor[p] \in Writing /\ RegistryTyped
  BY RegistryCallIs DEF RegistryInv
<1>2. PICK state : state = [actor[p] EXCEPT !.todo = todo]
  OBVIOUS
<1>3. /\ state \in Writing /\ state.op = "write" /\ state.todo = todo /\ state.document = document
      /\ state.alone = actor[p].alone
  BY <1>1, <1>2 DEF Writing
<1>4. Registry!Goes(p, state)
  BY <1>2 DEF Registry!Does
<1>5. /\ actor'[p] = state /\ actor' \in [RegistryActor -> RegistryCalls]
      /\ \A q \in RegistryActor : q # p => actor'[q] = actor[q]
  BY <1>1, <1>3, <1>4, RegistryGoes DEF RegistryCalls
<1>6. RegistryTyped'
  BY <1>1, <1>5 DEF RegistryTyped
<1>7. Registers(p)'
  BY <1>3, <1>5 DEF Registers, TodoIsTheRest, TodoIsInside
<1>8. RowsAreSingle'
  <2>1. Registry!Registering(p)
    BY <1>1, RegistryCallIs DEF RegistryOps
  <2>2. ~overlapped => actor[p].alone
    BY <2>1 DEF RegistryInv, AloneIsAlone
  <2>. QED BY <2>2 DEF RegistryInv, RowsAreSingle
<1>9. Registered'
  BY <1>3, <1>5, <1>6, <1>7, <1>8, OneRegisters DEF RegistryOps
<1>10. CallsAreCounted'
  BY <1>3, <1>5, BusyGoesOn DEF Registry!Idle
<1>11. Overridden'
  BY <1>3, <1>5, OverriddenStays DEF OverrideOps
<1>. QED BY <1>6, <1>9, <1>10, <1>11 DEF RegistryInv, Registered, Overridden

LEMMA ExtractedIs ==
  ASSUME NEW document \in Registry!Accepted, NEW n \in DOMAIN document
  PROVE  /\ document[n] \in Registry!Extracted /\ document[n].access \in Registry!Accesses
         /\ n \in RegistryTool
BY RegistryRegistryAssumption DEF Registry!RegistryAssumption, Registry!Extracted

LEMMA CreateToolStep ==
  ASSUME RegistryInv, NEW p \in RegistryActor, Registry!CreateTool(p)
  PROVE  RegistryInv'
<1>. PICK document, todo : document = actor[p].document /\ todo = actor[p].todo
  OBVIOUS
<1>1. /\ actor[p].op = "write"
      /\ UNCHANGED <<specs, overlay, registryChanges, begun, last, wanted, overlapped, unsure>>
  BY DEF Registry!CreateTool, Registry!History
<1>2. /\ document \in Registry!Accepted /\ actor[p].number \in Nat /\ todo \in Todo
      /\ TodoIsInside(document, todo)
      /\ actor[p].alone => TodoIsTheRest(document, todo)
  BY <1>1, WritingIs
<1>3. PICK n \in todo.create :
        /\ tools' = tools \cup
             {[id |-> Registry!Id(p, n), name |-> n, access |-> document[n].access,
               description |-> document[n].description,
               version |-> Registry!ContentVersion(document[n])]}
        /\ Registry!Does(p, [todo EXCEPT !.create = @ \ {n}])
  BY DEF Registry!CreateTool
<1>4. n \in DOMAIN document
  BY <1>2, <1>3 DEF TodoIsInside
<1>5. /\ document[n] \in Registry!Extracted /\ document[n].access \in Registry!Accesses
      /\ n \in RegistryTool
  BY <1>2, <1>4, ExtractedIs
<1>6. PICK new : new = [id |-> <<actor[p].number, n>>, name |-> n, access |-> document[n].access,
                        description |-> document[n].description, version |-> document[n]]
  OBVIOUS
<1>7. tools' = tools \cup {new}
  BY <1>3, <1>6 DEF Registry!Id, Registry!ContentVersion
<1>8. new \in Registry!RegisteredTool
  <2>1. <<actor[p].number, n>> \in Nat \X RegistryTool
    BY <1>2, <1>5
  <2>2. document[n].description \in {tool.description : tool \in Registry!Extracted}
    BY <1>5
  <2>3. document[n] \in {Registry!ContentVersion(tool) : tool \in Registry!Extracted}
    BY <1>5 DEF Registry!ContentVersion
  <2>. QED BY <1>5, <1>6, <2>1, <2>2, <2>3 DEF Registry!RegisteredTool
<1>9. RowIsOK(new) /\ new.name = n /\ IsCurrent(new, document[n]) /\ new.id = <<actor[p].number, n>>
  BY <1>6 DEF RowIsOK, IsCurrent
<1>10. PICK rest : rest = [todo EXCEPT !.create = @ \ {n}]
  OBVIOUS
<1>11. /\ rest \in Todo /\ rest.create = todo.create \ {n} /\ rest.update = todo.update
       /\ rest.delete = todo.delete
  BY <1>2, <1>10 DEF Todo
<1>12. Registry!Does(p, rest)
  BY <1>3, <1>10, Zenon
<1>13. TodoIsInside(document, rest)
  BY <1>2, <1>11 DEF TodoIsInside
<1>14. ASSUME actor[p].alone
       PROVE  TodoIsTheRest(document, rest)'
  <2>1. TodoIsTheRest(document, todo)
    BY <1>2, <1>14
  <2>2. \A row \in tools' : row.name \notin rest.create
    BY <1>7, <1>9, <1>11, <2>1 DEF TodoIsTheRest
  <2>3. \A r \in rest.update : \E row \in tools' : row.id = r.id /\ row.name = r.name
    BY <1>7, <1>11, <2>1 DEF TodoIsTheRest
  <2>4. \A row \in tools' : row.name \notin DOMAIN document => row.id \in rest.delete
    BY <1>4, <1>7, <1>9, <1>11, <2>1 DEF TodoIsTheRest
  <2>5. \A id \in rest.delete : id[2] \notin DOMAIN document
    BY <1>11, <2>1 DEF TodoIsTheRest
  <2>6. \A m \in DOMAIN document \ rest.create :
          \/ \E r \in rest.update : r.name = m
          \/ \E row \in tools' : row.name = m /\ IsCurrent(row, document[m])
    BY <1>7, <1>9, <1>11, <2>1 DEF TodoIsTheRest
  <2>. QED BY <2>2, <2>3, <2>4, <2>5, <2>6 DEF TodoIsTheRest
<1>15. ~overlapped => (actor[p].alone => \A r, s \in tools' : r.name = s.name => r = s)
  BY <1>2, <1>3, <1>7, <1>9 DEF RegistryInv, RowsAreSingle, TodoIsTheRest
<1>16. tools' \subseteq Registry!RegisteredTool /\ (\A row \in tools : RowIsOK(row))'
  BY <1>7, <1>8, <1>9 DEF RegistryInv, RegistryTyped, RowIsOK
<1>. QED BY <1>1, <1>11, <1>12, <1>13, <1>14, <1>15, <1>16, DoesStep

LEMMA UpdateToolStep ==
  ASSUME RegistryInv, NEW p \in RegistryActor, Registry!UpdateTool(p)
  PROVE  RegistryInv'
<1>. PICK document, todo : document = actor[p].document /\ todo = actor[p].todo
  OBVIOUS
<1>1. /\ actor[p].op = "write" /\ todo.create = {}
      /\ UNCHANGED <<specs, overlay, registryChanges, begun, last, wanted, overlapped, unsure>>
  BY DEF Registry!UpdateTool, Registry!History
<1>2. /\ document \in Registry!Accepted /\ todo \in Todo /\ TodoIsInside(document, todo)
      /\ actor[p].alone => TodoIsTheRest(document, todo)
  BY <1>1, WritingIs
<1>3. PICK prior \in actor[p].todo.update :
        /\ tools' = {IF row.id = prior.id THEN Registry!Patched(row, actor[p].document[prior.name]) ELSE row :
                      row \in tools}
        /\ Registry!Does(p, [actor[p].todo EXCEPT !.update = @ \ {prior}])
  BY Zenon DEF Registry!UpdateTool
<1>4. prior.name \in DOMAIN document /\ prior.id[2] = prior.name
  BY <1>2, <1>3 DEF TodoIsInside
<1>5. PICK tool : tool = document[prior.name]
  OBVIOUS
<1>6. tool \in Registry!Extracted /\ tool.access \in Registry!Accesses
  BY <1>2, <1>4, <1>5, ExtractedIs
<1>7. ASSUME NEW row \in tools, NEW new, new = Registry!Patched(row, tool)
      PROVE  /\ new \in Registry!RegisteredTool /\ new.id = row.id /\ new.name = row.name
             /\ RowIsOK(new) /\ IsCurrent(new, tool)
  <2>1. row \in Registry!RegisteredTool /\ row.id[2] = row.name
    BY DEF RegistryInv, RegistryTyped, RowIsOK
  <2>2. PICK described : described = [row EXCEPT !.access = tool.access, !.version = tool,
                                       !.description = IF tool.description = None THEN @ ELSE tool.description]
    OBVIOUS
  <2>3. /\ described.id = row.id /\ described.name = row.name /\ described.access = tool.access
        /\ described.version = tool
        /\ described.description = IF tool.description = None THEN row.description ELSE tool.description
        /\ described = [id |-> row.id, name |-> row.name, access |-> tool.access,
                        description |-> described.description, version |-> tool]
    BY <2>1, <2>2 DEF Registry!RegisteredTool
  <2>4. new = described
    BY <1>7, <2>2, Zenon DEF Registry!Patched, Registry!ContentVersion
  <2>5. described.description \in {t.description : t \in Registry!Extracted}
    BY <1>6, <2>1, <2>3 DEF Registry!RegisteredTool
  <2>6. tool \in {Registry!ContentVersion(t) : t \in Registry!Extracted}
    BY <1>6 DEF Registry!ContentVersion
  <2>7. described \in Registry!RegisteredTool
    BY <1>6, <2>1, <2>3, <2>5, <2>6 DEF Registry!RegisteredTool
  <2>8. RowIsOK(described) /\ IsCurrent(described, tool)
    BY <2>1, <2>3 DEF RowIsOK, IsCurrent
  <2>. QED BY <2>3, <2>4, <2>7, <2>8
<1>8. tools' = {IF row.id = prior.id THEN Registry!Patched(row, tool) ELSE row : row \in tools}
  BY <1>3, <1>5
<1>9. ASSUME NEW row \in tools
      PROVE  \E new \in tools' : /\ new.id = row.id /\ new.name = row.name
                                 /\ IF row.id = prior.id THEN IsCurrent(new, tool) ELSE new = row
  <2>1. CASE row.id = prior.id
    <3>1. PICK new : new = Registry!Patched(row, tool)
      OBVIOUS
    <3>2. new \in tools'
      BY <1>8, <2>1, <3>1
    <3>. QED BY <1>7, <2>1, <3>1, <3>2
  <2>2. CASE row.id # prior.id
    BY <1>8, <2>2
  <2>. QED BY <2>1, <2>2
<1>10. ASSUME NEW new \in tools'
       PROVE  \E row \in tools : /\ new.id = row.id /\ new.name = row.name
                                 /\ IF row.id = prior.id THEN new = Registry!Patched(row, tool) ELSE new = row
                                 /\ new \in Registry!RegisteredTool /\ RowIsOK(new)
  <2>1. PICK row \in tools : new = IF row.id = prior.id THEN Registry!Patched(row, tool) ELSE row
    BY <1>8, <1>10
  <2>2. row \in Registry!RegisteredTool /\ RowIsOK(row)
    BY DEF RegistryInv, RegistryTyped
  <2>. QED BY <1>7, <2>1, <2>2
<1>. HIDE DEF Registry!Patched
<1>11. PICK rest : rest = [actor[p].todo EXCEPT !.update = @ \ {prior}]
  OBVIOUS
<1>12. /\ rest \in Todo /\ rest.create = todo.create /\ rest.update = todo.update \ {prior}
       /\ rest.delete = todo.delete
  BY <1>2, <1>11 DEF Todo
<1>13. Registry!Does(p, rest)
  BY <1>3, <1>11, Zenon
<1>14. TodoIsInside(document, rest)
  BY <1>2, <1>12 DEF TodoIsInside
<1>15. ASSUME actor[p].alone
       PROVE  TodoIsTheRest(document, rest)'
  <2>1. TodoIsTheRest(document, todo)
    BY <1>2, <1>15
  <2>2. \A row \in tools' : row.name \notin rest.create
    BY <1>10, <1>12, <2>1 DEF TodoIsTheRest
  <2>3. ASSUME NEW r \in rest.update
        PROVE  \E row \in tools' : row.id = r.id /\ row.name = r.name
    <3>1. PICK row \in tools : row.id = r.id /\ row.name = r.name
      BY <1>12, <2>1 DEF TodoIsTheRest
    <3>. QED BY <1>9, <3>1
  <2>4. \A row \in tools' : row.name \notin DOMAIN document => row.id \in rest.delete
    BY <1>10, <1>12, <2>1 DEF TodoIsTheRest
  <2>5. \A id \in rest.delete : id[2] \notin DOMAIN document
    BY <1>12, <2>1 DEF TodoIsTheRest
  <2>6. ASSUME NEW m \in DOMAIN document \ rest.create
        PROVE  \/ \E r \in rest.update : r.name = m
               \/ \E row \in tools' : row.name = m /\ IsCurrent(row, document[m])
    <3>1. CASE m = prior.name
      <4>1. PICK row \in tools : row.id = prior.id /\ row.name = prior.name
        BY <1>3, <2>1 DEF TodoIsTheRest
      <4>. QED BY <1>5, <1>9, <3>1, <4>1
    <3>2. CASE m # prior.name
      <4>1. CASE \E r \in todo.update : r.name = m
        BY <1>12, <3>2, <4>1
      <4>2. CASE \E row \in tools : row.name = m /\ IsCurrent(row, document[m])
        <5>1. PICK row \in tools : row.name = m /\ IsCurrent(row, document[m])
          BY <4>2
        <5>2. row.id # prior.id
          BY <1>4, <3>2, <5>1 DEF RegistryInv, RowIsOK
        <5>. QED BY <1>9, <5>1, <5>2
      <4>. QED BY <1>12, <2>1, <2>6, <4>1, <4>2 DEF TodoIsTheRest
    <3>. QED BY <3>1, <3>2
  <2>. QED BY <2>2, <2>3, <2>4, <2>5, <2>6 DEF TodoIsTheRest
<1>16. ~overlapped => (actor[p].alone => \A r, s \in tools' : r.name = s.name => r = s)
  <2>. SUFFICES ASSUME ~overlapped, NEW r \in tools', NEW s \in tools', r.name = s.name
                PROVE  r = s
    OBVIOUS
  <2>1. PICK x \in tools : r.name = x.name /\ IF x.id = prior.id THEN r = Registry!Patched(x, tool) ELSE r = x
    BY <1>10
  <2>2. PICK y \in tools : s.name = y.name /\ IF y.id = prior.id THEN s = Registry!Patched(y, tool) ELSE s = y
    BY <1>10
  <2>3. x = y
    BY <2>1, <2>2 DEF RegistryInv, RowsAreSingle
  <2>. QED BY <2>1, <2>2, <2>3
<1>17. tools' \subseteq Registry!RegisteredTool /\ (\A row \in tools : RowIsOK(row))'
  BY <1>10
<1>. QED BY <1>1, <1>12, <1>13, <1>14, <1>15, <1>16, <1>17, DoesStep

LEMMA DeleteToolStep ==
  ASSUME RegistryInv, NEW p \in RegistryActor, Registry!DeleteTool(p)
  PROVE  RegistryInv'
<1>. PICK document, todo : document = actor[p].document /\ todo = actor[p].todo
  OBVIOUS
<1>1. /\ actor[p].op = "write" /\ todo.create = {} /\ todo.update = {}
      /\ UNCHANGED <<specs, overlay, registryChanges, begun, last, wanted, overlapped, unsure>>
  BY DEF Registry!DeleteTool, Registry!History
<1>2. /\ document \in Registry!Accepted /\ todo \in Todo /\ TodoIsInside(document, todo)
      /\ actor[p].alone => TodoIsTheRest(document, todo)
  BY <1>1, WritingIs
<1>3. PICK id \in todo.delete :
        /\ tools' = {row \in tools : row.id # id}
        /\ Registry!Does(p, [todo EXCEPT !.delete = @ \ {id}])
  BY DEF Registry!DeleteTool
<1>4. PICK rest : rest = [todo EXCEPT !.delete = @ \ {id}]
  OBVIOUS
<1>5. /\ rest \in Todo /\ rest.create = todo.create /\ rest.update = todo.update
      /\ rest.delete = todo.delete \ {id}
  BY <1>2, <1>4 DEF Todo
<1>6. Registry!Does(p, rest)
  BY <1>3, <1>4, Zenon
<1>7. TodoIsInside(document, rest)
  BY <1>2, <1>5 DEF TodoIsInside
<1>8. ASSUME actor[p].alone
      PROVE  TodoIsTheRest(document, rest)'
  <2>1. TodoIsTheRest(document, todo)
    BY <1>2, <1>8
  <2>2. id[2] \notin DOMAIN document
    BY <1>3, <2>1 DEF TodoIsTheRest
  <2>3. \A row \in tools' : row.name \notin DOMAIN document => row.id \in rest.delete
    BY <1>3, <1>5, <2>1 DEF TodoIsTheRest
  <2>4. \A m \in DOMAIN document : \E row \in tools' : row.name = m /\ IsCurrent(row, document[m])
    <3>. SUFFICES ASSUME NEW m \in DOMAIN document
                  PROVE  \E row \in tools' : row.name = m /\ IsCurrent(row, document[m])
      OBVIOUS
    <3>1. PICK row \in tools : row.name = m /\ IsCurrent(row, document[m])
      BY <1>1, <2>1 DEF TodoIsTheRest
    <3>2. row.id[2] = m
      BY <3>1 DEF RegistryInv, RowIsOK
    <3>. QED BY <1>3, <2>2, <3>1, <3>2
  <2>. QED BY <1>1, <1>3, <1>5, <2>1, <2>3, <2>4 DEF TodoIsTheRest
<1>9. ~overlapped => (actor[p].alone => \A r, s \in tools' : r.name = s.name => r = s)
  BY <1>3 DEF RegistryInv, RowsAreSingle
<1>10. tools' \subseteq Registry!RegisteredTool /\ (\A row \in tools : RowIsOK(row))'
  BY <1>3 DEF RegistryInv, RegistryTyped
<1>. QED BY <1>1, <1>5, <1>6, <1>7, <1>8, <1>9, <1>10, DoesStep

LEMMA FindSpecStep ==
  ASSUME RegistryInv, NEW p \in RegistryActor, Registry!FindSpec(p)
  PROVE  RegistryInv'
<1>1. /\ actor[p].op = "write"
      /\ UNCHANGED <<tools, specs, overlay, registryChanges, begun, last, wanted, overlapped, unsure>>
      /\ actor[p].todo.create = {} /\ actor[p].todo.update = {} /\ actor[p].todo.delete = {}
  BY DEF Registry!FindSpec, Registry!Rows, Registry!History
<1>2. PICK document : document = actor[p].document
  OBVIOUS
<1>3. /\ document \in Registry!Accepted /\ actor[p].number \in Nat /\ actor[p].alone \in BOOLEAN
      /\ actor[p].alone => TodoIsTheRest(document, actor[p].todo)
  BY <1>1, <1>2, WritingIs
<1>4. PICK row \in {found.id : found \in specs} \cup {None} :
        /\ row = None => specs = {}
        /\ Registry!Goes(p, [op |-> "save", number |-> actor[p].number, document |-> document,
                            alone |-> actor[p].alone, row |-> row])
  BY <1>2, Zenon DEF Registry!FindSpec
<1>5. PICK state : state = [op |-> "save", number |-> actor[p].number, document |-> document,
                            alone |-> actor[p].alone, row |-> row]
  OBVIOUS
<1>6. /\ state.op = "save" /\ state.document = document /\ state.alone = actor[p].alone /\ state.row = row
      /\ state \in Saving
  <2>1. row \in Nat \cup {None}
    BY DEF RegistryInv, RegistryTyped, Registry!SpecRegistration
  <2>. QED BY <1>3, <1>5, <2>1 DEF Saving
<1>7. RegistryTyped /\ state \in RegistryCalls /\ Registry!Goes(p, state)
  BY <1>4, <1>5, <1>6 DEF RegistryInv, RegistryCalls
<1>8. /\ actor'[p] = state /\ actor' \in [RegistryActor -> RegistryCalls]
      /\ \A q \in RegistryActor : q # p => actor'[q] = actor[q]
  BY <1>7, RegistryGoes
<1>9. RegistryTyped'
  BY <1>1, <1>8 DEF RegistryInv, RegistryTyped
<1>10. actor[p].alone => Surface(document)
  BY <1>1, <1>3 DEF TodoIsTheRest, Surface
<1>11. Registers(p)'
  <2>1. actor[p].alone => IF row = None THEN specs = {} ELSE \E found \in specs : found.id = row
    BY <1>4
  <2>. QED BY <1>1, <1>6, <1>8, <1>10, <2>1 DEF Registers, Surface
<1>12. Registered'
  <2>1. (\A found \in tools : RowIsOK(found))' /\ RowsAreSingle'
    BY <1>1 DEF RegistryInv, RowsAreSingle
  <2>. QED BY <1>1, <1>6, <1>8, <1>9, <1>11, <2>1, OneRegisters DEF RegistryOps
<1>13. CallsAreCounted'
  BY <1>1, <1>6, <1>8, BusyGoesOn DEF Registry!Idle
<1>14. Overridden'
  BY <1>1, <1>6, <1>8, OverriddenStays DEF OverrideOps
<1>. QED BY <1>9, <1>12, <1>13, <1>14 DEF RegistryInv, Registered, Overridden

LEMMA SaveSpecStep ==
  ASSUME RegistryInv, NEW p \in RegistryActor, Registry!SaveSpec(p)
  PROVE  RegistryInv'
<1>1. /\ actor[p].op = "save"
      /\ UNCHANGED <<tools, overlay, registryChanges, begun, last, wanted, overlapped, unsure>>
  BY DEF Registry!SaveSpec, Registry!History
<1>2. PICK document, row : document = actor[p].document /\ row = actor[p].row
  OBVIOUS
<1>3. /\ document \in Registry!Accepted /\ actor[p].number \in Nat /\ actor[p].alone \in BOOLEAN
      /\ RegistryTyped /\ Registry!Registering(p)
  BY <1>1, <1>2, RegistryCallIs DEF RegistryInv, RegistryOps
<1>4. PICK version : version = Registry!Version(document)
  OBVIOUS
<1>5. PICK new : new = [id |-> actor[p].number, version |-> version]
  OBVIOUS
<1>6. specs' = IF row = None THEN specs \cup {new}
               ELSE {IF found.id = row THEN [found EXCEPT !.version = version] ELSE found : found \in specs}
  BY <1>2, <1>4, <1>5 DEF Registry!SaveSpec
<1>7. version \in {Registry!Version(d) : d \in Registry!Accepted}
  BY <1>3, <1>4
<1>8. new \in Registry!SpecRegistration /\ new.version = version
  BY <1>3, <1>5, <1>7 DEF Registry!SpecRegistration
<1>9. \A found \in specs :
        /\ [found EXCEPT !.version = version] \in Registry!SpecRegistration
        /\ [found EXCEPT !.version = version].version = version
  BY <1>7 DEF RegistryInv, RegistryTyped, Registry!SpecRegistration
<1>10. specs' \subseteq Registry!SpecRegistration
  BY <1>3, <1>6, <1>8, <1>9 DEF RegistryTyped
<1>11. /\ actor[p].alone => Surface(document)
       /\ actor[p].alone => IF row = None THEN specs = {} ELSE \E found \in specs : found.id = row
  BY <1>1, <1>2 DEF RegistryInv, Registers
<1>12. actor[p].alone => \E found \in specs' : found.version = version
  <2>1. CASE row = None
    BY <1>6, <1>8, <2>1
  <2>2. CASE row # None
    <3>. SUFFICES ASSUME actor[p].alone PROVE \E found \in specs' : found.version = version
      OBVIOUS
    <3>1. PICK found \in specs : found.id = row
      BY <1>11, <2>2
    <3>2. [found EXCEPT !.version = version] \in specs'
      BY <1>6, <2>2, <3>1
    <3>. QED BY <1>9, <3>2
  <2>. QED BY <2>1, <2>2
<1>13. RowsAreSingle'
  <2>. SUFFICES ASSUME ~overlapped
                PROVE  (\A r, s \in tools' : r.name = s.name => r = s) /\ (\A r, s \in specs' : r = s)
    BY <1>1 DEF RowsAreSingle
  <2>1. (\A r, s \in tools : r.name = s.name => r = s) /\ (\A r, s \in specs : r = s)
    BY DEF RegistryInv, RowsAreSingle
  <2>2. actor[p].alone
    BY <1>3 DEF RegistryInv, AloneIsAlone
  <2>3. CASE row = None
    BY <1>1, <1>6, <1>11, <2>1, <2>2, <2>3
  <2>4. CASE row # None
    BY <1>1, <1>6, <2>1, <2>4
  <2>. QED BY <2>3, <2>4
<1>14. PICK state : state = [op |-> "change", number |-> actor[p].number, document |-> document,
                             alone |-> actor[p].alone]
  OBVIOUS
<1>15. /\ state.op = "change" /\ state.document = document /\ state.alone = actor[p].alone
       /\ state \in RegistryCalls
  BY <1>3, <1>14 DEF RegistryCalls, Listing
<1>16. Registry!Goes(p, state)
  BY <1>2, <1>14, Zenon DEF Registry!SaveSpec
<1>17. /\ actor'[p] = state /\ actor' \in [RegistryActor -> RegistryCalls]
       /\ \A q \in RegistryActor : q # p => actor'[q] = actor[q]
  BY <1>3, <1>15, <1>16, RegistryGoes
<1>18. RegistryTyped'
  BY <1>1, <1>3, <1>10, <1>17 DEF RegistryTyped
<1>19. Registers(p)'
  BY <1>1, <1>4, <1>11, <1>12, <1>15, <1>17 DEF Registers, Surface
<1>20. Registered'
  <2>1. (\A found \in tools : RowIsOK(found))'
    BY <1>1 DEF RegistryInv
  <2>. QED BY <1>1, <1>13, <1>15, <1>17, <1>18, <1>19, <2>1, OneRegisters DEF RegistryOps
<1>21. CallsAreCounted'
  BY <1>1, <1>15, <1>17, BusyGoesOn DEF Registry!Idle
<1>22. Overridden'
  BY <1>1, <1>15, <1>17, OverriddenStays DEF OverrideOps
<1>. QED BY <1>18, <1>20, <1>21, <1>22 DEF RegistryInv, Registered, Overridden

LEMMA AppendRegisteredStep ==
  ASSUME RegistryInv, NEW p \in RegistryActor, Registry!AppendRegistered(p)
  PROVE  RegistryInv'
<1>1. /\ actor[p].op = "change" /\ registryChanges' = registryChanges + 1
      /\ last' = IF actor[p].alone THEN actor[p].document ELSE None
      /\ Registry!Goes(p, Registry!Idle)
      /\ UNCHANGED <<tools, specs, overlay, begun, wanted, overlapped, unsure>>
  BY DEF Registry!AppendRegistered, Registry!Rows
<1>2. RegistryTyped /\ Registry!Registering(p) /\ actor[p].document \in Registry!Accepted
  BY <1>1, RegistryCallIs DEF RegistryInv, RegistryOps
<1>3. Registry!Idle \in RegistryCalls /\ Registry!Idle.op = "idle"
  BY DEF RegistryCalls, Registry!Idle
<1>4. /\ actor'[p] = Registry!Idle /\ actor' \in [RegistryActor -> RegistryCalls]
      /\ \A q \in RegistryActor : q # p => actor'[q] = actor[q]
  BY <1>1, <1>2, <1>3, RegistryGoes
<1>5. RegistryTyped'
  BY <1>1, <1>2, <1>4 DEF RegistryTyped
<1>6. CallsAreCounted'
  BY <1>1, <1>4, BusyEnds DEF Registry!Idle
<1>7. Overridden'
  BY <1>1, <1>3, <1>4, OverriddenStays DEF OverrideOps
<1>8. \A q \in RegistryActor : Registry!Registering(q)' => q # p /\ Registry!Registering(q) /\ actor'[q] = actor[q]
  BY <1>3, <1>4 DEF Registry!Registering
<1>9. AloneIsAlone'
  <2>1. actor[p].alone => \A q \in RegistryActor : ~Registry!Registering(q)'
    BY <1>2, <1>8 DEF RegistryInv, AloneIsAlone
  <2>. QED BY <1>1, <1>8, <2>1 DEF RegistryInv, AloneIsAlone
<1>10. ASSUME NEW q \in RegistryActor
       PROVE  Registers(q)'
  <2>1. CASE q = p
    BY <1>3, <1>4, <2>1 DEF Registers
  <2>2. CASE q # p
    <3>1. actor'[q] = actor[q] /\ Registers(q)
      BY <1>4, <2>2 DEF RegistryInv
    <3>. QED BY <1>1, <3>1 DEF Registers, TodoIsTheRest, TodoIsInside, Surface
  <2>. QED BY <2>1, <2>2
<1>11. LastIsTheSurface'
  <2>1. actor[p].alone => /\ Surface(actor[p].document)
                          /\ \E row \in specs : row.version = Registry!Version(actor[p].document)
    BY <1>1 DEF RegistryInv, Registers
  <2>. PICK document : document = actor[p].document
    OBVIOUS
  <2>2. CASE actor[p].alone
    <3>1. last' = document /\ Surface(document)
           /\ \E row \in specs' : row.version = Registry!Version(document)
      BY <1>1, <2>1, <2>2
    <3>2. Surface(document)'
      BY <1>1, <3>1 DEF Surface
    <3>3. Surface(last)' /\ (\E row \in specs : row.version = Registry!Version(last))'
      BY <3>1, <3>2 DEF Surface, Registry!Version
    <3>. QED BY <3>3 DEF LastIsTheSurface
  <2>3. CASE ~actor[p].alone
    BY <1>1, <2>3 DEF LastIsTheSurface
  <2>. QED BY <2>2, <2>3
<1>12. RowsAreSingle' /\ (\A row \in tools : RowIsOK(row))'
  BY <1>1 DEF RegistryInv, RowsAreSingle
<1>. QED BY <1>5, <1>6, <1>7, <1>9, <1>10, <1>11, <1>12 DEF RegistryInv, Overridden

-----------------------------------------------------------------------------
\* The overlay.
Underway == {"drop", "put", "unset", "erase"}

LEMMA OverridingIs ==
  ASSUME RegistryInv, NEW p \in RegistryActor, actor[p].op \in OverrideOps
  PROVE  /\ actor[p] \in Saying /\ actor[p].action \in Registry!Actions
         /\ actor[p].access \in Registry!Accesses /\ actor[p].number \in Nat
         /\ actor[p].op \in Underway /\ actor[p].action \notin unsure =>
              Registry!Overriding(actor[p].action) = {p} /\ SaysLast(actor[p].action)
<1>1. actor[p] \in Saying
  BY RegistryCallIs DEF RegistryInv
<1>2. actor[p].action \in Registry!Actions
  BY <1>1 DEF Saying
<1>3. ASSUME actor[p].op \in Underway, actor[p].action \notin unsure
      PROVE  Registry!Overriding(actor[p].action) = {p} /\ SaysLast(actor[p].action)
  <2>1. SaysLast(actor[p].action)
    BY <1>2, <1>3 DEF RegistryInv
  <2>2. p \in Registry!Overriding(actor[p].action)
    BY <1>3 DEF Registry!Overriding, Underway
  <2>. QED BY <2>1, <2>2 DEF SaysLast
<1>. QED BY <1>1, <1>2, <1>3 DEF Saying

\* What is said of one action leaves the others as they are.
LEMMA OthersSayTheSame ==
  ASSUME RegistryInv, NEW p \in RegistryActor, NEW a,
         \A q \in RegistryActor : q # p => actor'[q] = actor[q],
         actor[p].op \in Underway => actor[p].action = a,
         actor'[p].op \in Underway => actor'[p].action = a,
         \A b \in Registry!Actions : b # a => wanted'[b] = wanted[b],
         \A row \in overlay \cup overlay' : row.action # a => (row \in overlay <=> row \in overlay'),
         NEW b \in Registry!Actions, b # a, b \notin unsure
  PROVE  SaysLast(b)'
<1>1. Registry!Overriding(b)' = Registry!Overriding(b)
  BY DEF Registry!Overriding, Underway
<1>2. Said(b)' = Said(b)
  BY DEF Said
<1>3. \A q \in Registry!Overriding(b) : actor'[q] = actor[q]
  BY DEF Registry!Overriding, Underway
<1>4. SaysLast(b) /\ wanted'[b] = wanted[b]
  BY DEF RegistryInv
<1>5. ASSUME Registry!Overriding(b) = {}, wanted[b] # None
      PROVE  \E row \in overlay' : Said(b) = {row} /\ wanted[b] = [access |-> row.access]
  <2>1. PICK row \in overlay : Said(b) = {row} /\ wanted[b] = [access |-> row.access]
    BY <1>4, <1>5 DEF SaysLast
  <2>2. row \in overlay'
    BY <1>2, <2>1 DEF Said
  <2>. QED BY <2>1, <2>2
<1>. QED BY <1>1, <1>2, <1>3, <1>4, <1>5 DEF SaysLast, AtMostOne

LEMMA OverrideStep ==
  ASSUME RegistryInv, NEW p \in RegistryActor, NEW action \in Registry!Actions,
         NEW access \in Registry!Accesses, NEW op \in {"drop", "unset"},
         Registry!Override(p, action, access, op)
  PROVE  RegistryInv'
<1>1. /\ actor[p] = Registry!Idle /\ begun < RegistryMaxBegun /\ begun' = begun + 1
      /\ UNCHANGED <<tools, specs, overlay, registryChanges, last, overlapped>>
  BY DEF Registry!Override, Registry!Rows
<1>2. begun' \in 0..RegistryMaxBegun /\ begun' \in Nat
  BY <1>1, RegistryRegistryAssumption DEF RegistryInv, RegistryTyped, Registry!RegistryAssumption
<1>3. PICK state : state = [op |-> op, number |-> begun', action |-> action, access |-> access, id |-> None]
  OBVIOUS
<1>4. /\ state.op = op /\ state.action = action /\ state.access = access /\ state \in RegistryCalls
      /\ Registry!Goes(p, state)
  <2>1. state \in Saying
    BY <1>2, <1>3 DEF Saying, OverrideOps
  <2>2. Registry!Goes(p, state)
    BY <1>3, Zenon DEF Registry!Override
  <2>. QED BY <1>3, <2>1, <2>2 DEF RegistryCalls
<1>5. /\ actor'[p] = state /\ actor' \in [RegistryActor -> RegistryCalls]
      /\ \A q \in RegistryActor : q # p => actor'[q] = actor[q]
  BY <1>4, RegistryGoes DEF RegistryInv
<1>6. PICK said : said = IF op = "drop" THEN [access |-> access] ELSE None
  OBVIOUS
<1>7. /\ wanted' = [wanted EXCEPT ![action] = said]
      /\ unsure' = IF Registry!Overriding(action) = {} THEN unsure ELSE unsure \cup {action}
  BY <1>6, Zenon DEF Registry!Override
<1>8. /\ wanted' \in [Registry!Actions -> {[access |-> a] : a \in Registry!Accesses} \cup {None}]
      /\ wanted'[action] = said /\ \A b \in Registry!Actions : b # action => wanted'[b] = wanted[b]
  <2>1. said \in {[access |-> a] : a \in Registry!Accesses} \cup {None}
    BY <1>6
  <2>. QED BY <1>7, <2>1 DEF RegistryInv, RegistryTyped
<1>9. RegistryTyped'
  BY <1>1, <1>2, <1>5, <1>8 DEF RegistryInv, RegistryTyped
<1>10. actor[p].op = "idle" /\ state.op \in Underway /\ state.op \notin RegistryOps /\ state.op # "erase"
  BY <1>1, <1>4 DEF Registry!Idle, Underway, RegistryOps
<1>11. Registered'
  BY <1>1, <1>5, <1>9, <1>10, RegisteredStays
<1>12. CallsAreCounted'
  BY <1>1, <1>5, <1>10, BusyBegins DEF Registry!Idle, Underway
<1>13. OverlayIsOK'
  BY <1>1, <1>5, <1>10 DEF RegistryInv, OverlayIsOK
<1>14. ASSUME NEW b \in Registry!Actions, b \notin unsure'
       PROVE  SaysLast(b)'
  <2>1. b \notin unsure
    BY <1>7, <1>14
  <2>2. CASE b # action
    BY <1>1, <1>4, <1>5, <1>8, <1>10, <2>1, <2>2, OthersSayTheSame DEF Underway
  <2>3. CASE b = action
    <3>1. Registry!Overriding(action) = {} /\ SaysLast(action)
      BY <1>7, <1>14, <2>1, <2>3 DEF RegistryInv
    <3>2. Registry!Overriding(action)' = {p}
      <4>1. \A q \in RegistryActor : q \in Registry!Overriding(action)' <=> q = p
        BY <1>4, <1>5, <1>10, <3>1 DEF Registry!Overriding, Underway
      <4>2. Registry!Overriding(action)' \subseteq RegistryActor
        BY DEF Registry!Overriding
      <4>. QED BY <4>1, <4>2
    <3>3. Said(action)' = Said(action) /\ AtMostOne(Said(action))
      <4>1. Said(action)' = Said(action)
        BY <1>1 DEF Said
      <4>2. AtMostOne(Said(action))
        BY <3>1 DEF SaysLast, AtMostOne
      <4>. QED BY <4>1, <4>2
    <3>4. AtMostOne(Said(action))'
      BY <3>3 DEF AtMostOne
    <3>. QED BY <1>4, <1>5, <1>6, <1>8, <2>3, <3>2, <3>4 DEF SaysLast
  <2>. QED BY <2>2, <2>3
<1>. QED BY <1>9, <1>11, <1>12, <1>13, <1>14 DEF RegistryInv, Registered

\* A step of one that has begun: what is left to show is what it says of its own action.
LEMMA OverrideGoesOn ==
  ASSUME RegistryInv, NEW p \in RegistryActor, NEW a, actor[p].op \in Underway, a = actor[p].action,
         NEW state \in Saying \cup {Registry!Idle}, Registry!Goes(p, state),
         state.op # "idle" => state.action = a,
         state.op = "erase" => state.id[2] = a,
         overlay' \subseteq Registry!FactsOverlay, (\A row \in overlay : row.id[2] = row.action)',
         UNCHANGED <<tools, specs, registryChanges, begun, last, wanted, overlapped>>,
         unsure' \in {unsure, unsure \cup {a}},
         \A row \in overlay \cup overlay' : row.action # a => (row \in overlay <=> row \in overlay'),
         a \notin unsure' => SaysLast(a)'
  PROVE  RegistryInv'
<1>1. state \in RegistryCalls /\ state.op \notin RegistryOps /\ state.op \in {"idle"} \cup OverrideOps
  BY DEF RegistryCalls, Saying, Registry!Idle, RegistryOps, OverrideOps
<1>2. /\ actor'[p] = state /\ actor' \in [RegistryActor -> RegistryCalls]
      /\ \A q \in RegistryActor : q # p => actor'[q] = actor[q]
  BY <1>1, RegistryGoes DEF RegistryInv
<1>3. RegistryTyped'
  BY <1>2 DEF RegistryInv, RegistryTyped
<1>4. Registered'
  BY <1>1, <1>2, <1>3, RegisteredStays
<1>5. actor[p] # Registry!Idle
  BY DEF Registry!Idle, Underway
<1>6. CallsAreCounted'
  <2>1. CASE state = Registry!Idle
    BY <1>2, <1>5, <2>1, BusyEnds
  <2>2. CASE state # Registry!Idle
    BY <1>2, <1>5, <2>2, BusyGoesOn
  <2>. QED BY <2>1, <2>2
<1>7. OverlayIsOK'
  BY <1>1, <1>2 DEF RegistryInv, OverlayIsOK, Registry!Idle, OverrideOps
<1>8. ASSUME NEW b \in Registry!Actions, b \notin unsure'
      PROVE  SaysLast(b)'
  <2>1. b \notin unsure
    BY <1>8
  <2>2. state.op \in Underway => state.action = a
    BY DEF Underway
  <2>. QED BY <1>2, <1>8, <2>1, <2>2, OthersSayTheSame
<1>. QED BY <1>3, <1>4, <1>6, <1>7, <1>8 DEF RegistryInv, Registered

\* Nobody overrides an action any more when its one call has come to its end.
LEMMA OverridingEnds ==
  ASSUME RegistryInv, NEW p \in RegistryActor, NEW a, Registry!Overriding(a) = {p},
         \A q \in RegistryActor : q # p => actor'[q] = actor[q], actor'[p].op \notin Underway
  PROVE  Registry!Overriding(a)' = {}
BY DEF Registry!Overriding, Underway

LEMMA OverridingStays ==
  ASSUME RegistryInv, NEW p \in RegistryActor, NEW a, Registry!Overriding(a) = {p},
         \A q \in RegistryActor : q # p => actor'[q] = actor[q], actor'[p].op \in Underway,
         actor'[p].action = a
  PROVE  Registry!Overriding(a)' = {p}
<1>1. \A q \in RegistryActor : q \in Registry!Overriding(a)' <=> q = p
  BY DEF Registry!Overriding, Underway
<1>. QED BY <1>1 DEF Registry!Overriding

LEMMA DropOverrideStep ==
  ASSUME RegistryInv, NEW p \in RegistryActor, Registry!DropOverride(p)
  PROVE  RegistryInv'
<1>. PICK a : a = actor[p].action
  OBVIOUS
<1>1. /\ actor[p].op = "drop"
      /\ UNCHANGED <<tools, specs, registryChanges, begun, last, wanted, overlapped, unsure>>
      /\ \/ Said(a) = {} /\ overlay' = overlay
         \/ \E row \in Said(a) : overlay' = overlay \ {row}
  BY DEF Registry!DropOverride, Registry!History, Said
<1>2. /\ actor[p] \in Saying /\ a \in Registry!Actions
      /\ a \notin unsure => Registry!Overriding(a) = {p} /\ SaysLast(a)
  BY <1>1, OverridingIs DEF OverrideOps, Underway
<1>3. PICK state : state = [actor[p] EXCEPT !.op = "put"]
  OBVIOUS
<1>4. /\ state \in Saying /\ state.op = "put" /\ state.action = a /\ state.access = actor[p].access
  BY <1>2, <1>3 DEF Saying, OverrideOps
<1>5. Registry!Goes(p, state)
  BY <1>3, Zenon DEF Registry!DropOverride
<1>6. /\ actor'[p] = state /\ \A q \in RegistryActor : q # p => actor'[q] = actor[q]
  BY <1>4, <1>5, RegistryGoes DEF RegistryInv, RegistryCalls
<1>7. ASSUME a \notin unsure
      PROVE  SaysLast(a)'
  <2>1. Registry!Overriding(a)' = {p}
    BY <1>2, <1>4, <1>6, <1>7, OverridingStays DEF Underway
  <2>2. AtMostOne(Said(a)) /\ wanted[a] = [access |-> actor[p].access]
    BY <1>1, <1>2, <1>7 DEF SaysLast
  <2>3. Said(a)' = {}
    BY <1>1, <2>2 DEF Said, AtMostOne
  <2>. QED BY <1>1, <1>4, <1>6, <2>1, <2>2, <2>3 DEF SaysLast
<1>8. /\ overlay' \subseteq Registry!FactsOverlay /\ (\A row \in overlay : row.id[2] = row.action)'
      /\ \A row \in overlay \cup overlay' : row.action # a => (row \in overlay <=> row \in overlay')
  BY <1>1 DEF RegistryInv, RegistryTyped, OverlayIsOK, Said
<1>. QED BY <1>1, <1>4, <1>5, <1>7, <1>8, OverrideGoesOn DEF Underway

LEMMA PutOverrideStep ==
  ASSUME RegistryInv, NEW p \in RegistryActor, Registry!PutOverride(p)
  PROVE  RegistryInv'
<1>. PICK a : a = actor[p].action
  OBVIOUS
<1>1. /\ actor[p].op = "put"
      /\ UNCHANGED <<tools, specs, registryChanges, begun, last, wanted, overlapped, unsure>>
  BY DEF Registry!PutOverride, Registry!History
<1>2. /\ actor[p] \in Saying /\ a \in Registry!Actions /\ actor[p].access \in Registry!Accesses
      /\ actor[p].number \in Nat
      /\ a \notin unsure => Registry!Overriding(a) = {p} /\ SaysLast(a)
  BY <1>1, OverridingIs DEF OverrideOps, Underway
<1>3. PICK new : new = [id |-> <<actor[p].number, a>>, action |-> a, access |-> actor[p].access]
  OBVIOUS
<1>4. overlay' = overlay \cup {new}
  BY <1>3 DEF Registry!PutOverride, Registry!Id
<1>5. /\ new \in Registry!FactsOverlay /\ new.id[2] = a /\ new.action = a /\ new.access = actor[p].access
  BY <1>2, <1>3 DEF Registry!FactsOverlay
<1>6. PICK state : state = [actor[p] EXCEPT !.op = "tell"]
  OBVIOUS
<1>7. /\ state \in Saying /\ state.op = "tell" /\ state.action = a
  BY <1>2, <1>6 DEF Saying, OverrideOps
<1>8. Registry!Goes(p, state)
  BY <1>6, Zenon DEF Registry!PutOverride
<1>9. /\ actor'[p] = state /\ \A q \in RegistryActor : q # p => actor'[q] = actor[q]
  BY <1>7, <1>8, RegistryGoes DEF RegistryInv, RegistryCalls
<1>10. ASSUME a \notin unsure
       PROVE  SaysLast(a)'
  <2>1. Registry!Overriding(a)' = {}
    BY <1>2, <1>7, <1>9, <1>10, OverridingEnds DEF Underway
  <2>2. Said(a) = {} /\ wanted[a] = [access |-> actor[p].access]
    BY <1>1, <1>2, <1>10 DEF SaysLast
  <2>3. Said(a)' = {new} /\ new \in overlay'
    BY <1>4, <1>5, <2>2 DEF Said
  <2>4. wanted'[a] = [access |-> new.access]
    BY <1>1, <1>5, <2>2
  <2>5. wanted'[a] # None
    BY <1>2, <1>5, <2>4, RegistryRegistryAssumption DEF Registry!RegistryAssumption
  <2>. QED BY <2>1, <2>3, <2>4, <2>5 DEF SaysLast
<1>11. /\ overlay' \subseteq Registry!FactsOverlay /\ (\A row \in overlay : row.id[2] = row.action)'
       /\ \A row \in overlay \cup overlay' : row.action # a => (row \in overlay <=> row \in overlay')
  BY <1>4, <1>5 DEF RegistryInv, RegistryTyped, OverlayIsOK
<1>. QED BY <1>1, <1>7, <1>8, <1>10, <1>11, OverrideGoesOn DEF Underway

LEMMA FindOverrideStep ==
  ASSUME RegistryInv, NEW p \in RegistryActor, Registry!FindOverride(p)
  PROVE  RegistryInv'
<1>. PICK a : a = actor[p].action
  OBVIOUS
<1>1. /\ actor[p].op = "unset"
      /\ UNCHANGED <<tools, specs, overlay, registryChanges, begun, last, wanted, overlapped, unsure>>
      /\ \/ Said(a) = {} /\ Registry!Goes(p, Registry!Idle)
         \/ \E row \in Said(a) : Registry!Goes(p, [actor[p] EXCEPT !.op = "erase", !.id = row.id])
  BY DEF Registry!FindOverride, Registry!History, Registry!Rows, Said
<1>2. /\ actor[p] \in Saying /\ a \in Registry!Actions
      /\ a \notin unsure => Registry!Overriding(a) = {p} /\ SaysLast(a)
  BY <1>1, OverridingIs DEF OverrideOps, Underway
<1>3. a \notin unsure => AtMostOne(Said(a)) /\ wanted[a] = None
  BY <1>1, <1>2 DEF SaysLast
<1>4. /\ overlay' \subseteq Registry!FactsOverlay /\ (\A row \in overlay : row.id[2] = row.action)'
      /\ \A row \in overlay \cup overlay' : row.action # a => (row \in overlay <=> row \in overlay')
  BY <1>1 DEF RegistryInv, RegistryTyped, OverlayIsOK
<1>5. Said(a)' = Said(a)
  BY <1>1 DEF Said
<1>6. CASE Said(a) = {} /\ Registry!Goes(p, Registry!Idle)
  <2>1. Registry!Idle.op = "idle" /\ Registry!Idle \in RegistryCalls
    BY DEF Registry!Idle, RegistryCalls
  <2>2. /\ actor'[p] = Registry!Idle /\ \A q \in RegistryActor : q # p => actor'[q] = actor[q]
    BY <1>6, <2>1, RegistryGoes DEF RegistryInv
  <2>3. ASSUME a \notin unsure
        PROVE  SaysLast(a)'
    <3>1. Registry!Overriding(a)' = {}
      BY <1>2, <2>1, <2>2, <2>3, OverridingEnds DEF Underway
    <3>. QED BY <1>1, <1>3, <1>5, <1>6, <2>3, <3>1 DEF SaysLast
  <2>. QED BY <1>1, <1>4, <1>6, <2>1, <2>3, OverrideGoesOn DEF Underway
<1>7. ASSUME NEW row \in Said(a), Registry!Goes(p, [actor[p] EXCEPT !.op = "erase", !.id = row.id])
      PROVE  RegistryInv'
  <2>1. PICK marked : marked = [actor[p] EXCEPT !.op = "erase"]
    OBVIOUS
  <2>2. PICK state : state = [marked EXCEPT !.id = row.id]
    OBVIOUS
  <2>3. marked = [op |-> "erase", number |-> actor[p].number, action |-> a, access |-> actor[p].access,
                  id |-> actor[p].id]
    BY <1>2, <2>1 DEF Saying
  <2>4. state = [op |-> "erase", number |-> actor[p].number, action |-> a, access |-> actor[p].access,
                 id |-> row.id]
    BY <2>2, <2>3
  <2>5. row \in Registry!FactsOverlay /\ row.id[2] = a
    BY <1>7 DEF RegistryInv, RegistryTyped, OverlayIsOK, Said
  <2>6. state \in Saying /\ state.op = "erase" /\ state.action = a /\ state.id = row.id
    BY <1>2, <2>4, <2>5 DEF Saying, OverrideOps, Registry!FactsOverlay
  <2>7. Registry!Goes(p, state)
    BY <1>7, <2>1, <2>2, Zenon
  <2>8. /\ actor'[p] = state /\ \A q \in RegistryActor : q # p => actor'[q] = actor[q]
    BY <2>6, <2>7, RegistryGoes DEF RegistryInv, RegistryCalls
  <2>9. ASSUME a \notin unsure
        PROVE  SaysLast(a)'
    <3>1. Registry!Overriding(a)' = {p}
      BY <1>2, <2>6, <2>8, <2>9, OverridingStays DEF Underway
    <3>2. \A found \in Said(a) : found.id = row.id
      BY <1>3, <1>7, <2>9 DEF AtMostOne
    <3>3. \A found \in Said(a)' : found.id = actor'[p].id
      BY <1>5, <2>6, <2>8, <3>2
    <3>4. wanted'[a] = None /\ actor'[p].op = "erase"
      BY <1>1, <1>3, <2>6, <2>8, <2>9
    <3>5. /\ \A q, r \in Registry!Overriding(a)' : q = r
          /\ Registry!Overriding(a)' # {} /\ \A q \in Registry!Overriding(a)' : q = p
      BY <3>1
    <3>6. ~(actor'[p].op \in {"drop", "unset"}) /\ ~(actor'[p].op \in {"drop", "put"})
          /\ actor'[p].op # "put"
      BY <3>4
    <3>7. /\ actor'[p].op \in {"drop", "unset"} => AtMostOne(Said(a)')
          /\ actor'[p].op = "put" => Said(a)' = {}
          /\ actor'[p].op = "erase" => \A found \in Said(a)' : found.id = actor'[p].id
          /\ IF actor'[p].op \in {"drop", "put"} THEN wanted'[a] = [access |-> actor'[p].access]
             ELSE wanted'[a] = None
      BY <3>3, <3>4, <3>6
    <3>. QED BY <3>1, <3>5, <3>7 DEF SaysLast, AtMostOne
  <2>10. /\ UNCHANGED <<tools, specs, registryChanges, begun, last, wanted, overlapped>> /\ unsure' = unsure
         /\ actor[p].op \in Underway
    BY <1>1 DEF Underway
  <2>11. a \notin unsure' => SaysLast(a)'
    BY <2>9, <2>10
  <2>12. state \in Saying \cup {Registry!Idle} /\ (state.op # "idle" => state.action = a)
         /\ (state.op = "erase" => state.id[2] = a)
    BY <2>5, <2>6
  <2>. QED BY <1>4, <2>7, <2>10, <2>11, <2>12, OverrideGoesOn
<1>. QED BY <1>1, <1>6, <1>7

LEMMA EraseOverrideStep ==
  ASSUME RegistryInv, NEW p \in RegistryActor, Registry!EraseOverride(p)
  PROVE  RegistryInv'
<1>. PICK a : a = actor[p].action
  OBVIOUS
<1>1. /\ actor[p].op = "erase" /\ overlay' = {row \in overlay : row.id # actor[p].id}
      /\ UNCHANGED <<tools, specs, registryChanges, begun, last, wanted, overlapped, unsure>>
  BY DEF Registry!EraseOverride, Registry!History
<1>2. /\ actor[p] \in Saying /\ a \in Registry!Actions
      /\ a \notin unsure => Registry!Overriding(a) = {p} /\ SaysLast(a)
  BY <1>1, OverridingIs DEF OverrideOps, Underway
<1>3. PICK state : state = [actor[p] EXCEPT !.op = "tell"]
  OBVIOUS
<1>4. /\ state \in Saying /\ state.op = "tell" /\ state.action = a
  BY <1>2, <1>3 DEF Saying, OverrideOps
<1>5. Registry!Goes(p, state)
  BY <1>3, Zenon DEF Registry!EraseOverride
<1>6. /\ actor'[p] = state /\ \A q \in RegistryActor : q # p => actor'[q] = actor[q]
  BY <1>4, <1>5, RegistryGoes DEF RegistryInv, RegistryCalls
<1>7. ASSUME a \notin unsure
      PROVE  SaysLast(a)'
  <2>1. Registry!Overriding(a)' = {}
    BY <1>2, <1>4, <1>6, <1>7, OverridingEnds DEF Underway
  <2>2. (\A row \in Said(a) : row.id = actor[p].id) /\ wanted[a] = None
    BY <1>1, <1>2, <1>7 DEF SaysLast
  <2>3. Said(a)' = {}
    BY <1>1, <2>2 DEF Said
  <2>. QED BY <1>1, <2>1, <2>2, <2>3 DEF SaysLast
<1>8. actor[p].id[2] = a /\ \A row \in overlay : row.id[2] = row.action
  BY <1>1 DEF RegistryInv, OverlayIsOK
<1>9. /\ overlay' \subseteq Registry!FactsOverlay /\ (\A row \in overlay : row.id[2] = row.action)'
      /\ \A row \in overlay \cup overlay' : row.action # a => (row \in overlay <=> row \in overlay')
  BY <1>1, <1>8 DEF RegistryInv, RegistryTyped
<1>. QED BY <1>1, <1>4, <1>5, <1>7, <1>9, OverrideGoesOn DEF Underway

LEMMA AppendOverrideStep ==
  ASSUME RegistryInv, NEW p \in RegistryActor, Registry!AppendOverride(p)
  PROVE  RegistryInv'
<1>1. /\ actor[p].op = "tell" /\ registryChanges' = registryChanges + 1
      /\ Registry!Goes(p, Registry!Idle)
      /\ UNCHANGED <<tools, specs, overlay, begun, last, wanted, overlapped, unsure>>
  BY DEF Registry!AppendOverride, Registry!Rows, Registry!History
<1>2. Registry!Idle \in RegistryCalls /\ Registry!Idle.op = "idle"
  BY DEF RegistryCalls, Registry!Idle
<1>3. /\ actor'[p] = Registry!Idle /\ actor' \in [RegistryActor -> RegistryCalls]
      /\ \A q \in RegistryActor : q # p => actor'[q] = actor[q]
  BY <1>1, <1>2, RegistryGoes DEF RegistryInv
<1>4. RegistryTyped'
  BY <1>1, <1>3 DEF RegistryInv, RegistryTyped
<1>5. CallsAreCounted'
  BY <1>1, <1>3, BusyEnds DEF Registry!Idle
<1>6. Overridden'
  BY <1>1, <1>2, <1>3, OverriddenStays DEF OverrideOps
<1>7. Registered'
  BY <1>1, <1>2, <1>3, <1>4, RegisteredStays DEF RegistryOps
<1>. QED BY <1>4, <1>5, <1>6, <1>7 DEF RegistryInv, Registered, Overridden

LEMMA RegistryFailStep ==
  ASSUME RegistryInv, NEW p \in RegistryActor, Registry!Fail(p)
  PROVE  RegistryInv'
<1>1. /\ actor[p] # Registry!Idle /\ Registry!Goes(p, Registry!Idle)
      /\ unsure' = IF actor[p].op \in Underway THEN unsure \cup {actor[p].action} ELSE unsure
      /\ UNCHANGED <<tools, specs, overlay, registryChanges, begun, last, wanted, overlapped>>
  BY DEF Registry!Fail, Registry!Rows, Underway
<1>2. Registry!Idle \in RegistryCalls /\ Registry!Idle.op = "idle"
  BY DEF RegistryCalls, Registry!Idle
<1>3. /\ actor'[p] = Registry!Idle /\ actor' \in [RegistryActor -> RegistryCalls]
      /\ \A q \in RegistryActor : q # p => actor'[q] = actor[q]
  BY <1>1, <1>2, RegistryGoes DEF RegistryInv
<1>4. CASE actor[p].op \in Underway
  <2>. PICK a : a = actor[p].action
    OBVIOUS
  <2>1. unsure' = unsure \cup {a} /\ a \in unsure'
    BY <1>1, <1>4
  <2>2. /\ overlay' \subseteq Registry!FactsOverlay /\ (\A row \in overlay : row.id[2] = row.action)'
        /\ \A row \in overlay \cup overlay' : row.action # a => (row \in overlay <=> row \in overlay')
    BY <1>1 DEF RegistryInv, RegistryTyped, OverlayIsOK
  <2>. QED BY <1>1, <1>2, <1>4, <2>1, <2>2, OverrideGoesOn
<1>5. CASE actor[p].op \notin Underway
  <2>1. RegistryTyped'
    BY <1>1, <1>3 DEF RegistryInv, RegistryTyped
  <2>2. CallsAreCounted'
    BY <1>1, <1>3, BusyEnds
  <2>3. Overridden'
    BY <1>1, <1>2, <1>3, <1>5, OverriddenStays DEF OverrideOps, Underway
  <2>4. Registered'
    BY <1>1, <1>2, <1>3, <2>1, RegisteredStays DEF RegistryOps
  <2>. QED BY <2>1, <2>2, <2>3, <2>4 DEF RegistryInv, Registered, Overridden
<1>. QED BY <1>4, <1>5

LEMMA RegistryStep ==
  ASSUME RegistryInv, Registry!Next
  PROVE  RegistryInv'
<1>. PICK p \in RegistryActor :
       \/ \E document \in RegistryDocuments : Registry!Register(p, document)
       \/ Registry!ListBySource(p) \/ Registry!CreateTool(p) \/ Registry!UpdateTool(p) \/ Registry!DeleteTool(p)
       \/ Registry!FindSpec(p) \/ Registry!SaveSpec(p) \/ Registry!AppendRegistered(p)
       \/ \E o \in RegistryOverrides : Registry!Override(p, o[1], o[2], "drop")
       \/ \E o \in RegistryOverrides : Registry!Override(p, o[1], None, "unset")
       \/ Registry!DropOverride(p) \/ Registry!PutOverride(p) \/ Registry!FindOverride(p)
       \/ Registry!EraseOverride(p) \/ Registry!AppendOverride(p) \/ Registry!Fail(p)
  BY Zenon DEF Registry!Next
<1>1. CASE \/ \E document \in RegistryDocuments : Registry!Register(p, document)
           \/ Registry!ListBySource(p) \/ Registry!CreateTool(p) \/ Registry!UpdateTool(p)
           \/ Registry!DeleteTool(p) \/ Registry!FindSpec(p) \/ Registry!SaveSpec(p)
           \/ Registry!AppendRegistered(p)
  BY <1>1, RegisterStep, ListStep, CreateToolStep, UpdateToolStep, DeleteToolStep, FindSpecStep, SaveSpecStep,
     AppendRegisteredStep
<1>2. CASE \/ Registry!DropOverride(p) \/ Registry!PutOverride(p) \/ Registry!FindOverride(p)
           \/ Registry!EraseOverride(p) \/ Registry!AppendOverride(p) \/ Registry!Fail(p)
  BY <1>2, DropOverrideStep, PutOverrideStep, FindOverrideStep, EraseOverrideStep, AppendOverrideStep,
     RegistryFailStep
<1>3. ASSUME NEW o \in RegistryOverrides, NEW op \in {"drop", "unset"}, NEW access \in {o[2], None},
             Registry!Override(p, o[1], access, op)
      PROVE  RegistryInv'
  <2>1. o[1] \in Registry!Actions /\ access \in Registry!Accesses
    BY RegistryRegistryAssumption DEF Registry!RegistryAssumption, Registry!Accesses
  <2>. QED BY <1>3, <2>1, OverrideStep
<1>. QED BY <1>1, <1>2, <1>3

\* What the invariant says of the actions that policies see.
LEMMA SettledIsTheSurface ==
  ASSUME RegistryInv, last # None, ~overlapped,
         \A a \in Registry!Actions : Registry!Overriding(a) = {} /\ a \notin unsure
  PROVE  /\ Registry!AssembleOrgActions # RegistryThrew
         /\ Registry!AssembleOrgActions =
              [a \in RegistryBase \cup DOMAIN last |->
                 IF wanted[a] = None \/ wanted[a] = [access |-> None]
                 THEN IF a \in RegistryBase \/ last[a].access = None THEN "write" ELSE last[a].access
                 ELSE wanted[a].access]
<1>1. /\ RegistryTyped /\ Surface(last) /\ last \in Registry!Accepted
      /\ \A r, s \in tools : r.name = s.name => r = s
  BY DEF RegistryInv, RegistryTyped, LastIsTheSurface, RowsAreSingle
<1>2. /\ DOMAIN last \subseteq RegistryTool
      /\ \A n \in DOMAIN last : last[n].access \in Registry!Accesses
  BY <1>1, RegistryRegistryAssumption DEF Registry!RegistryAssumption
<1>3. {row.name : row \in tools} = DOMAIN last
  BY <1>1 DEF Surface
<1>4. \A a \in Registry!Actions :
        IF wanted[a] = None THEN Said(a) = {}
        ELSE \E row \in overlay : Said(a) = {row} /\ wanted[a] = [access |-> row.access]
  BY DEF RegistryInv, SaysLast
<1>5. ~Registry!Twice(tools, "name")
  BY <1>1 DEF Registry!Twice
<1>6. ~Registry!Twice(overlay, "action")
  <2>. SUFFICES ASSUME NEW r \in overlay, NEW s \in overlay, r.action = s.action
                PROVE  r = s
    BY DEF Registry!Twice
  <2>1. r.action \in Registry!Actions
    BY <1>1 DEF RegistryTyped, Registry!FactsOverlay
  <2>2. PICK a : a = r.action
    OBVIOUS
  <2>3. r \in Said(a) /\ s \in Said(a)
    BY <2>2 DEF Said
  <2>4. \E row : Said(a) = {row}
    BY <1>4, <2>1, <2>2, <2>3
  <2>. QED BY <2>3, <2>4
<1>7. Registry!AssembleOrgActions =
        [a \in RegistryBase \cup DOMAIN last |-> Registry!MergeFactsOverlay(a)]
  BY <1>3, <1>5, <1>6 DEF Registry!AssembleOrgActions
<1>8. ASSUME NEW a \in RegistryBase \cup DOMAIN last
      PROVE  Registry!Stamped(a) =
               IF a \in RegistryBase \/ last[a].access = None THEN "write" ELSE last[a].access
  <2>1. CASE a \in RegistryBase
    BY <2>1 DEF Registry!Stamped
  <2>2. CASE a \notin RegistryBase
    <3>1. PICK row \in tools : row.name = a /\ row.access = last[a].access
      BY <1>1, <1>8, <2>2 DEF Surface, IsCurrent
    <3>2. row = CHOOSE r \in tools : r.name = a
      BY <1>1, <3>1
    <3>. QED BY <2>2, <3>1, <3>2 DEF Registry!Stamped
  <2>. QED BY <2>1, <2>2
<1>9. ASSUME NEW a \in RegistryBase \cup DOMAIN last
      PROVE  /\ Registry!MergeFactsOverlay(a) \in {"read", "write"}
             /\ Registry!MergeFactsOverlay(a) =
                  IF wanted[a] = None \/ wanted[a] = [access |-> None]
                  THEN IF a \in RegistryBase \/ last[a].access = None THEN "write" ELSE last[a].access
                  ELSE wanted[a].access
  <2>1. a \in Registry!Actions
    BY <1>2 DEF Registry!Actions
  <2>2. PICK found : found = {row \in overlay : row.action = a /\ row.access # None}
    OBVIOUS
  <2>3. Registry!MergeFactsOverlay(a) =
          IF found = {} THEN Registry!Stamped(a) ELSE (CHOOSE row \in found : TRUE).access
    BY <2>2 DEF Registry!MergeFactsOverlay
  <2>4. Registry!Stamped(a) \in {"read", "write"}
    BY <1>2, <1>8 DEF Registry!Accesses
  <2>5. CASE wanted[a] = None
    <3>1. found = {}
      BY <1>4, <2>1, <2>2, <2>5 DEF Said
    <3>. QED BY <1>8, <2>3, <2>4, <2>5, <3>1
  <2>6. CASE wanted[a] # None
    <3>1. PICK row \in overlay : Said(a) = {row} /\ wanted[a] = [access |-> row.access]
      BY <1>4, <2>1, <2>6
    <3>2. row.access \in Registry!Accesses /\ row.action = a
      BY <1>1, <3>1 DEF RegistryTyped, Registry!FactsOverlay, Said
    <3>3. wanted[a] = [access |-> None] <=> row.access = None
      BY <3>1
    <3>4. CASE row.access = None
      <4>1. found = {}
        BY <2>2, <3>1, <3>4 DEF Said
      <4>. QED BY <1>8, <2>3, <2>4, <3>3, <3>4, <4>1
    <3>5. CASE row.access # None
      <4>1. found = {row}
        BY <2>2, <3>1, <3>5 DEF Said
      <4>2. (CHOOSE r \in found : TRUE) = row
        BY <4>1
      <4>3. wanted[a].access = row.access
        BY <3>1
      <4>. QED BY <2>3, <2>6, <3>2, <3>3, <3>5, <4>1, <4>2, <4>3 DEF Registry!Accesses
    <3>. QED BY <3>4, <3>5
  <2>. QED BY <2>5, <2>6
<1>10. RegistryBase \cup DOMAIN last \in SUBSET Registry!Actions
  BY <1>2 DEF Registry!Actions
<1>11. Registry!AssembleOrgActions \in [RegistryBase \cup DOMAIN last -> {"read", "write"}]
  BY <1>7, <1>9
<1>. QED BY <1>7, <1>9, <1>10, <1>11, RegistryRegistryAssumption DEF Registry!RegistryAssumption

\* A registration that no other overlaps leaves the tools of its document, whatever calls before it
\* left behind when they failed, and the actions that policies see are the document's and those that
\* are always there, with the access said of each last, for any number of organizations' calls, tools
\* and overrides (createSpecRegistry, assembleOrgActions).
THEOREM TheSurfaceIsRegistered == Spec => []SurfaceIsAsRegistered
<1> DEFINE Inv == part = "registry" => RegistryInv
<1>1. Init => Inv
  BY RegistryInit DEF Init
<1>2. Inv /\ [Next]_vars => Inv'
  <2>. SUFFICES ASSUME part = "registry", RegistryInv, [Next]_vars PROVE RegistryInv'
    BY DEF Next, vars
  <2>1. CASE UNCHANGED RegistryVars
    <3>1. /\ UNCHANGED <<tools, specs, overlay, registryChanges, actor, begun, last, wanted>>
          /\ UNCHANGED <<overlapped, unsure>>
      BY <2>1 DEF RegistryVars
    <3>2. RegistryTyped' /\ CallsAreCounted'
      BY <3>1 DEF RegistryInv, RegistryTyped, CallsAreCounted, Busy
    <3>3. Overridden'
      BY <3>1, OverriddenStays
    <3>4. Registered'
      BY <3>1 DEF RegistryInv, Registered, AloneIsAlone, RowsAreSingle, LastIsTheSurface, Registers,
         TodoIsTheRest, TodoIsInside, Surface, Registry!Registering
    <3>. QED BY <3>2, <3>3, <3>4 DEF RegistryInv, Registered, Overridden
  <2>2. CASE Registry!Next
    BY <2>2, RegistryStep
  <2>. QED BY <2>1, <2>2 DEF Next, vars
<1>3. Inv => SurfaceIsAsRegistered
  <2>. SUFFICES ASSUME part = "registry", RegistryInv
                PROVE  Registry!TypeOK /\ Registry!RegistrationIsTheSurface /\ Registry!ActionsAreTheSurface
    BY DEF SurfaceIsAsRegistered
  <2>1. Registry!TypeOK
    <3>1. registryChanges \in 0..begun
      <4>1. /\ registryChanges \in Nat /\ begun \in Nat /\ Cardinality(Busy) \in Nat
            /\ registryChanges + Cardinality(Busy) <= begun
        BY FS_CardinalityType, RegistryRegistryAssumption
           DEF RegistryInv, RegistryTyped, CallsAreCounted, Registry!RegistryAssumption
      <4>. HIDE DEF Busy
      <4>. QED BY <4>1
    <3>2. \A p \in RegistryActor : actor[p].op \in
            {"idle", "list", "write", "find", "save", "change", "drop", "put", "tell", "unset", "erase"}
      BY RegistryCallIs DEF RegistryInv, RegistryCalls, Registry!Idle, Listing, Writing, Saving, Saying, OverrideOps
    <3>. QED BY <3>1, <3>2 DEF RegistryInv, RegistryTyped, Registry!TypeOK, Registry!Accepted
  <2>2. Registry!RegistrationIsTheSurface
    <3>. SUFFICES ASSUME last # None
                  PROVE  Registry!RegistrationIsTheSurface
      BY DEF Registry!RegistrationIsTheSurface
    <3>1. /\ Surface(last) /\ \E row \in specs : row.version = Registry!Version(last)
          /\ ~overlapped => \A r, s \in tools : r.name = s.name => r = s
          /\ ~overlapped => \A r, s \in specs : r = s
      BY DEF RegistryInv, LastIsTheSurface, RowsAreSingle
    <3>2. {row.name : row \in tools} = DOMAIN last
      BY <3>1 DEF Surface
    <3>3. ASSUME NEW n \in DOMAIN last
          PROVE  /\ Registry!CurrentRows(n, last[n]) # {}
                 /\ ~overlapped => /\ Registry!CurrentRows(n, last[n]) = Registry!RowsOf(n)
                                   /\ Registry!Single(Registry!RowsOf(n))
      <4>1. PICK row \in tools : row.name = n /\ IsCurrent(row, last[n])
        BY <3>1 DEF Surface
      <4>2. row \in Registry!CurrentRows(n, last[n]) /\ row \in Registry!RowsOf(n)
        BY <4>1 DEF IsCurrent, Registry!ContentVersion, Registry!CurrentRows, Registry!RowsOf
      <4>3. ~overlapped => Registry!RowsOf(n) = {row} /\ Registry!CurrentRows(n, last[n]) = {row}
        BY <3>1, <4>1, <4>2 DEF Registry!CurrentRows, Registry!RowsOf
      <4>. QED BY <4>2, <4>3, Zenon DEF Registry!Single
    <3>4. ~overlapped => Registry!Single(specs)
      <4>1. PICK row : row \in specs
        BY <3>1
      <4>2. ~overlapped => specs = {row}
        BY <3>1, <4>1
      <4>. QED BY <4>2, Zenon DEF Registry!Single
    <3>5. \A n \in DOMAIN last :
            /\ Registry!CurrentRows(n, last[n]) # {}
            /\ ~overlapped => /\ Registry!CurrentRows(n, last[n]) = Registry!RowsOf(n)
                              /\ Registry!Single(Registry!RowsOf(n))
      BY <3>3, Zenon
    <3>. QED BY <3>1, <3>2, <3>4, <3>5, Zenon DEF Registry!RegistrationIsTheSurface
  <2>3. Registry!ActionsAreTheSurface
    <3>. SUFFICES ASSUME last # None, ~overlapped,
                         \A a \in Registry!Actions : Registry!Overriding(a) = {} /\ a \notin unsure
                  PROVE  /\ Registry!AssembleOrgActions # RegistryThrew
                         /\ Registry!AssembleOrgActions =
                              [a \in RegistryBase \cup DOMAIN last |->
                                 IF (IF wanted[a] = None THEN None ELSE wanted[a].access) = None
                                 THEN IF a \in RegistryBase THEN "write"
                                      ELSE IF last[a].access = None THEN "write" ELSE last[a].access
                                 ELSE IF wanted[a] = None THEN None ELSE wanted[a].access]
      BY DEF Registry!ActionsAreTheSurface
    <3>1. ASSUME NEW a \in RegistryBase \cup DOMAIN last
          PROVE  (IF wanted[a] = None \/ wanted[a] = [access |-> None]
                  THEN IF a \in RegistryBase \/ last[a].access = None THEN "write" ELSE last[a].access
                  ELSE wanted[a].access) =
                 (IF (IF wanted[a] = None THEN None ELSE wanted[a].access) = None
                  THEN IF a \in RegistryBase THEN "write"
                       ELSE IF last[a].access = None THEN "write" ELSE last[a].access
                  ELSE IF wanted[a] = None THEN None ELSE wanted[a].access)
      <4>1. a \in Registry!Actions
        BY RegistryRegistryAssumption DEF RegistryInv, RegistryTyped, Registry!Actions, Registry!RegistryAssumption
      <4>2. wanted[a] \in {[access |-> x] : x \in Registry!Accesses} \cup {None}
        BY <4>1 DEF RegistryInv, RegistryTyped
      <4>3. wanted[a] # None => (wanted[a] = [access |-> None] <=> wanted[a].access = None)
        BY <4>2
      <4>. QED BY <4>3
    <3>. QED BY <3>1, SettledIsTheSurface
  <2>. QED BY <2>1, <2>2, <2>3
<1>. QED BY <1>1, <1>2, <1>3, PTL DEF Spec

----------------------------------------------------------------------------
(* Tools of documents: the parameters and the places of arguments.         *)

LEMMA LeastOf ==
  ASSUME NEW S \in SUBSET Nat, S # {}
  PROVE  \E u \in S : \A v \in S : u <= v
<1>1. PICK u \in S : \A v \in S : <<v, u>> \notin OpToRel(<, Nat)
  BY NatLessThanWellFounded, WFMin
<1>2. \A v \in S : ~ (v < u)
  <2>1. \A m, n \in Nat : m < n => <<m, n>> \in OpToRel(<, Nat)
    BY Zenon DEF OpToRel
  <2>. QED BY <1>1, <2>1, Zenon
<1>. QED BY <1>2, SMTT(30)

Places == {"path", "query", "header", "cookie"}

HasParameters(s) ==
  OpenApi!IsList(s.parameters)
    /\ \A p \in OpenApi!Elements(s.parameters) : p # OpenApiMalformed => p.in \in Places

LEMMA GreatestOf ==
  ASSUME NEW n \in Nat, NEW S \in SUBSET (1..n), S # {}
  PROVE  \E u \in S : \A v \in S : v <= u
<1> DEFINE T == {m \in Nat : \E v \in S : m = n - v}
<1>1. T # {}
  <2>1. PICK v \in S : TRUE
    OBVIOUS
  <2>2. n - v \in Nat
    OBVIOUS
  <2>. QED BY <2>2
<1>2. PICK m \in T : \A k \in T : m <= k
  <2>1. T \in SUBSET Nat
    OBVIOUS
  <2>. HIDE DEF T
  <2>. QED BY <1>1, <2>1, LeastOf
<1>3. PICK u \in S : m = n - u
  OBVIOUS
<1>4. ASSUME NEW v \in S PROVE v <= u
  <2>1. n - v \in T
    OBVIOUS
  <2>. QED BY <1>2, <1>3, <2>1
<1>. QED BY <1>4

\* Of a place and a name there is one parameter, the last one that is said.
LEMMA MergedIs ==
  ASSUME NEW item, NEW op, HasParameters(item), HasParameters(op)
  PROVE  /\ DOMAIN OpenApi!Merged(item, op) \subseteq Nat
         /\ OpenApi!Elements(OpenApi!Merged(item, op)) = OpenApi!Declared(item, op)
         /\ \A p \in OpenApi!Declared(item, op) : p.in \in Places
<1> DEFINE S == OpenApi!Elements(item.parameters) \cup OpenApi!Elements(op.parameters)
           all == item.parameters \o op.parameters
           said == {i \in DOMAIN all : all[i] # OpenApiMalformed}
           of(i) == {j \in said : OpenApi!Key(all[j]) = OpenApi!Key(all[i])}
           merged == OpenApi!Merged(item, op)
<1>1. all \in Seq(S)
  <2>1. /\ item.parameters \in Seq(OpenApi!Elements(item.parameters))
        /\ op.parameters \in Seq(OpenApi!Elements(op.parameters))
    BY DEF HasParameters, OpenApi!IsList
  <2>2. item.parameters \in Seq(S) /\ op.parameters \in Seq(S)
    BY <2>1
  <2>. HIDE DEF S
  <2>. QED BY <2>2
<1>2. DOMAIN all = 1..Len(all) /\ Len(all) \in Nat /\ \A i \in DOMAIN all : all[i] \in S
  <2>. HIDE DEF S, all
  <2>. QED BY <1>1
<1>3. \A k \in 1..Len(all) : k \in Nat
  OBVIOUS
<1>4. \A p \in S : p # OpenApiMalformed => p.in \in Places
  BY DEF HasParameters
<1>5. /\ merged = [i \in {i \in said : i = OpenApi!Min(of(i))} |-> all[OpenApi!Max(of(i))]]
      /\ OpenApi!Declared(item, op) =
           {all[i] : i \in {i \in DOMAIN all :
              all[i] # OpenApiMalformed
                /\ \A j \in DOMAIN all : (j > i /\ all[j] # OpenApiMalformed) =>
                                           OpenApi!Key(all[j]) # OpenApi!Key(all[i])}}
  BY DEF OpenApi!Merged, OpenApi!Declared
<1>. HIDE DEF all, S, merged
<1>6. said \in SUBSET (1..Len(all)) /\ \A i \in said : i \in of(i) /\ of(i) \in SUBSET said
  BY <1>2
<1>7. ASSUME NEW i \in said
      PROVE  /\ OpenApi!Min(of(i)) \in of(i) /\ \A j \in of(i) : OpenApi!Min(of(i)) <= j
             /\ OpenApi!Max(of(i)) \in of(i) /\ \A j \in of(i) : j <= OpenApi!Max(of(i))
  <2>1. of(i) \in SUBSET (1..Len(all)) /\ of(i) # {} /\ of(i) \in SUBSET Nat
    BY <1>6
  <2>. HIDE DEF of
  <2>2. PICK u \in of(i) : \A j \in of(i) : u <= j
    BY <2>1, LeastOf
  <2>3. PICK v \in of(i) : \A j \in of(i) : j <= v
    BY <1>2, <2>1, GreatestOf
  <2>4. OpenApi!Min(of(i)) \in of(i) /\ \A j \in of(i) : OpenApi!Min(of(i)) <= j
    BY <2>2, Zenon DEF OpenApi!Min
  <2>5. OpenApi!Max(of(i)) \in of(i) /\ \A j \in of(i) : OpenApi!Max(of(i)) >= j
    <3>1. \A j \in of(i) : v >= j
      BY <2>1, <2>3
    <3>. QED BY <3>1, Zenon DEF OpenApi!Max
  <2>6. \A j \in of(i) : j <= OpenApi!Max(of(i))
    BY <2>1, <2>5
  <2>. QED BY <2>4, <2>5, <2>6
<1>8. \A i \in said : \A j \in of(i) : of(j) = of(i)
  OBVIOUS
<1>9. OpenApi!Elements(merged) \subseteq OpenApi!Declared(item, op)
  <2>. SUFFICES ASSUME NEW i \in said, i = OpenApi!Min(of(i))
                PROVE  all[OpenApi!Max(of(i))] \in OpenApi!Declared(item, op)
    BY <1>5 DEF OpenApi!Elements
  <2> DEFINE m == OpenApi!Max(of(i))
  <2>1. m \in of(i) /\ \A j \in of(i) : j <= m
    BY <1>7
  <2>. HIDE DEF m
  <2>2. ASSUME NEW j \in DOMAIN all, j > m, all[j] # OpenApiMalformed
        PROVE  OpenApi!Key(all[j]) # OpenApi!Key(all[m])
    <3>1. ASSUME OpenApi!Key(all[j]) = OpenApi!Key(all[m]) PROVE j \in of(i)
      BY <2>1, <2>2, <3>1
    <3>2. m \in 1..Len(all) /\ j \in 1..Len(all)
      BY <1>2, <1>6, <2>1
    <3>3. m \in Nat /\ j \in Nat /\ j > m
      BY <2>2, <3>2, <1>3, Zenon
    <3>4. ~ (j <= m)
      BY ONLY <3>3
    <3>. QED BY <2>1, <3>1, <3>4, Zenon
  <2>. QED BY <1>5, <2>1, <2>2 DEF m
<1>10. OpenApi!Declared(item, op) \subseteq OpenApi!Elements(merged)
  <2>. SUFFICES ASSUME NEW m \in said,
                       \A j \in DOMAIN all : (j > m /\ all[j] # OpenApiMalformed) =>
                                               OpenApi!Key(all[j]) # OpenApi!Key(all[m])
                PROVE  all[m] \in OpenApi!Elements(merged)
    BY <1>5
  <2> DEFINE i == OpenApi!Min(of(m))
  <2>1. i \in of(m) /\ of(i) = of(m)
    BY <1>7, <1>8
  <2>2. OpenApi!Max(of(m)) = m
    <3> DEFINE u == OpenApi!Max(of(m))
    <3>1. u \in of(m) /\ m \in of(m) /\ \A j \in of(m) : j <= u
      BY <1>6, <1>7
    <3>. HIDE DEF u
    <3>2. u \in DOMAIN all /\ all[u] # OpenApiMalformed /\ OpenApi!Key(all[u]) = OpenApi!Key(all[m])
      BY <3>1
    <3>3. m <= u /\ ~ (u > m) /\ m \in 1..Len(all) /\ u \in 1..Len(all)
      BY <1>2, <3>1, <3>2
    <3>. QED BY <1>2, <3>3 DEF u
  <2>. HIDE DEF i
  <2>3. i \in said /\ i = OpenApi!Min(of(i)) /\ OpenApi!Max(of(i)) = m
    <3>. HIDE DEF of
    <3>1. i = OpenApi!Min(of(m))
      BY DEF i
    <3>2. i = OpenApi!Min(of(i)) /\ OpenApi!Max(of(i)) = m
      BY <2>1, <2>2, <3>1
    <3>. QED BY <1>6, <2>1, <3>2
  <2>4. i \in DOMAIN merged /\ merged[i] = all[m]
    BY <1>5, <2>3
  <2>. QED BY <2>4 DEF OpenApi!Elements
<1>11. \A p \in OpenApi!Declared(item, op) : p.in \in Places
  BY <1>2, <1>4, <1>5
<1>12. DOMAIN merged \subseteq Nat
  BY <1>2, <1>5
<1>. QED BY <1>9, <1>10, <1>11, <1>12 DEF merged

\* The parameters of a tool are those of its operation that are carried.
LEMMA ParametersAre ==
  ASSUME NEW item, NEW op, HasParameters(item), HasParameters(op)
  PROVE  LET all == OpenApi!Declared(item, op)
             mine == OpenApi!Parameters(item, op)
         IN  /\ DOMAIN mine \subseteq Nat
             /\ OpenApi!Elements(mine) = {p \in all : OpenApi!Carried(p)}
             /\ \A p \in OpenApi!Elements(mine) : p.in \in {"path", "query", "header"}
<1> DEFINE merged == OpenApi!Merged(item, op)
           kept == {i \in DOMAIN merged : OpenApi!Carried(merged[i])}
<1>1. OpenApi!Parameters(item, op) = [i \in kept |-> merged[i]]
  BY DEF OpenApi!Parameters, OpenApi!RestrictValues, OpenApi!Restrict
<1>2. /\ DOMAIN merged \subseteq Nat /\ \A p \in OpenApi!Elements(merged) : p.in \in Places
      /\ OpenApi!Elements(merged) = OpenApi!Declared(item, op)
  BY MergedIs
<1>. HIDE DEF merged
<1>3. OpenApi!Elements(OpenApi!Parameters(item, op))
        = {p \in OpenApi!Elements(merged) : OpenApi!Carried(p)}
  BY <1>1 DEF OpenApi!Elements
<1>4. \A p \in OpenApi!Elements(merged) : OpenApi!Carried(p) => p.in \in {"path", "query", "header"}
  BY <1>2 DEF Places, OpenApi!Carried
<1>. QED BY <1>1, <1>2, <1>3, <1>4 DEF merged

\* An argument goes where its parameter is, and to the body if there is none.
LEMMA PlacesAre ==
  ASSUME NEW tool, DOMAIN tool.parameters \subseteq Nat, ~ OpenApi!Ambiguous(tool)
  PROVE  /\ \A p \in OpenApi!Elements(tool.parameters) : OpenApi!Place(tool, p.name) = p.in
         /\ \A name : name \notin OpenApi!Names(tool.parameters) => OpenApi!Place(tool, name) = "body"
<1>1. ASSUME NEW p \in OpenApi!Elements(tool.parameters) PROVE OpenApi!Place(tool, p.name) = p.in
  <2>1. PICK k \in DOMAIN tool.parameters : tool.parameters[k] = p
    BY DEF OpenApi!Elements
  <2> DEFINE at == {i \in DOMAIN tool.parameters : tool.parameters[i].name = p.name}
  <2>2. at = {k}
    BY <2>1 DEF OpenApi!Ambiguous
  <2>3. OpenApi!Place(tool, p.name)
          = IF at = {} THEN "body" ELSE tool.parameters[CHOOSE i \in at : \A j \in at : j <= i].in
    BY DEF OpenApi!Place
  <2>4. (CHOOSE i \in {k} : \A j \in {k} : j <= i) = k
    <3>1. k <= k
      OBVIOUS
    <3>. QED BY <3>1
  <2>. HIDE DEF at
  <2>. QED BY <2>1, <2>2, <2>3, <2>4
<1>2. ASSUME NEW name, name \notin OpenApi!Names(tool.parameters)
      PROVE  OpenApi!Place(tool, name) = "body"
  <2> DEFINE at == {i \in DOMAIN tool.parameters : tool.parameters[i].name = name}
  <2>1. at = {}
    BY <1>2 DEF OpenApi!Names, OpenApi!Elements
  <2>. QED BY <2>1 DEF OpenApi!Place
<1>. QED BY <1>1, <1>2

\* What the request of a call has to be, of the operation of its tool.
IsSentAs(op, all, tool, places, credentials) ==
  /\ \A p \in all : OpenApi!IsRequired(p) => p.in \in DOMAIN places /\ p.name \in places[p.in]
  /\ \A place \in {"path", "query", "header"} :
       places[place] \subseteq {p.name : p \in {q \in all : q.in = place}}
  /\ (op.body # OpenApiAbsent /\ op.body.required) =>
       (IF op.body.properties = OpenApiAbsent THEN places["body"] = {"body"}
        ELSE op.body.requires \cap op.body.properties \subseteq places["body"])
  /\ op.body = OpenApiAbsent => places["body"] = {}
  /\ tool.security = <<>> \/ \E a \in OpenApi!Elements(tool.security) : credentials = OpenApi!Elements(a)

LEMMA PlannedIsSent ==
  ASSUME NEW document, NEW op, HasParameters(document.item), HasParameters(op),
         NEW tool, tool = OpenApi!Tool(document, document.item, op),
         ~ OpenApi!Skipped(document.item, op), ~ OpenApi!Ambiguous(tool),
         NEW args, args \subseteq tool.properties, tool.required \subseteq args,
         NEW credentials,
         tool.security = <<>> \/ \E a \in OpenApi!Elements(tool.security) : credentials = OpenApi!Elements(a)
  PROVE  IsSentAs(op, OpenApi!Declared(document.item, op), tool,
                  OpenApi!Plan(tool, args).places, credentials)
<1> DEFINE all == OpenApi!Declared(document.item, op)
           params == OpenApi!Parameters(document.item, op)
           places == OpenApi!Plan(tool, args).places
           required == {p.name : p \in {q \in OpenApi!Elements(params) : OpenApi!IsRequired(q)}}
<1>1. /\ DOMAIN params \subseteq Nat
      /\ OpenApi!Elements(params) = {p \in all : OpenApi!Carried(p)}
      /\ \A p \in OpenApi!Elements(params) : p.in \in {"path", "query", "header"}
  BY ParametersAre
<1>2. /\ tool.parameters = params
      /\ tool.properties = OpenApi!Names(params) \cup OpenApi!BodyNames(op)
      /\ tool.required = required \cup OpenApi!BodyRequired(op)
      /\ tool.wrapped = OpenApi!Wrapped(op)
  BY DEF OpenApi!Tool
<1>. HIDE DEF params
<1>3. /\ \A p \in OpenApi!Elements(params) : OpenApi!Place(tool, p.name) = p.in
      /\ \A name : name \notin OpenApi!Names(params) => OpenApi!Place(tool, name) = "body"
  BY <1>1, <1>2, PlacesAre
<1>4. /\ DOMAIN places = {"path", "query", "header", "body"}
      /\ \A place \in {"path", "query", "header", "body"} :
           places[place] = {n \in args : OpenApi!Place(tool, n) = place
                                         /\ (tool.wrapped /\ place = "body" => n = "body")}
  BY DEF OpenApi!Plan
<1>. HIDE DEF places
<1>5. /\ ~ OpenApi!LostParameter(document.item, op) /\ ~ OpenApi!LostBody(op)
      /\ OpenApi!Names(params) \cap OpenApi!BodyNames(op) = {}
  BY DEF OpenApi!Skipped, params
<1>. HIDE DEF all
<1>6. ASSUME NEW p \in all, OpenApi!IsRequired(p)
      PROVE  p.in \in DOMAIN places /\ p.name \in places[p.in]
  <2>1. p \in OpenApi!Elements(params)
    <3>1. all = OpenApi!Elements(OpenApi!Merged(document.item, op))
      BY MergedIs DEF all
    <3>. QED BY <1>1, <1>5, <1>6, <3>1 DEF OpenApi!LostParameter
  <2>2. p.name \in args
    BY <1>2, <1>6, <2>1
  <2>3. p.in \in {"path", "query", "header"} /\ OpenApi!Place(tool, p.name) = p.in
    BY <1>1, <1>3, <2>1
  <2>. QED BY <1>4, <2>2, <2>3
<1>7. ASSUME NEW place \in {"path", "query", "header"}, NEW n \in places[place]
      PROVE  n \in {p.name : p \in {q \in all : q.in = place}}
  <2>1. OpenApi!Place(tool, n) = place /\ place # "body"
    BY <1>4
  <2>2. PICK p \in OpenApi!Elements(params) : p.name = n
    BY <1>3, <2>1 DEF OpenApi!Names
  <2>. QED BY <1>1, <1>3, <2>1, <2>2
<1>8. ASSUME op.body # OpenApiAbsent, op.body.required, op.body.properties = OpenApiAbsent
      PROVE  places["body"] = {"body"}
  <2>1. OpenApi!Wrapped(op) /\ OpenApi!HasBody(op)
    BY <1>5, <1>8 DEF OpenApi!LostBody, OpenApi!HasBody, OpenApi!Wrapped
  <2>2. OpenApi!BodyNames(op) = {"body"} /\ OpenApi!BodyRequired(op) = {"body"}
    BY <1>8, <2>1 DEF OpenApi!BodyNames, OpenApi!BodyRequired
  <2>3. "body" \in args /\ OpenApi!Place(tool, "body") = "body"
    BY <1>2, <1>3, <1>5, <2>2
  <2>. QED BY <1>2, <1>4, <2>1, <2>3
<1>9. ASSUME op.body # OpenApiAbsent, op.body.required, op.body.properties # OpenApiAbsent,
             NEW n \in op.body.requires \cap op.body.properties
      PROVE  n \in places["body"]
  <2>1. ~ OpenApi!Wrapped(op) /\ OpenApi!HasBody(op)
    BY <1>5, <1>9 DEF OpenApi!LostBody, OpenApi!HasBody, OpenApi!Wrapped
  <2>2. OpenApi!BodyNames(op) = op.body.properties
        /\ OpenApi!BodyRequired(op) = op.body.requires \cap op.body.properties
    BY <1>9, <2>1 DEF OpenApi!BodyNames, OpenApi!BodyRequired
  <2>3. n \in args /\ OpenApi!Place(tool, n) = "body"
    BY <1>2, <1>3, <1>5, <2>2
  <2>. QED BY <1>2, <1>4, <2>1, <2>3
<1>10. ASSUME op.body = OpenApiAbsent PROVE places["body"] = {}
  <2>1. OpenApi!BodyNames(op) = {}
    BY <1>10 DEF OpenApi!BodyNames, OpenApi!HasBody
  <2>2. \A n \in args : OpenApi!Place(tool, n) \in {"path", "query", "header"}
    BY <1>1, <1>2, <1>3, <2>1 DEF OpenApi!Names
  <2>. QED BY <1>4, <2>2
<1>. QED BY <1>6, <1>7, <1>8, <1>9, <1>10 DEF IsSentAs, all, places

----------------------------------------------------------------------------
(* Tools of documents: credentials, addresses, and the request of a call.  *)

\* What is not refused has the credentials of one alternative, all of them.
LEMMA CredentialsAreOfOne ==
  ASSUME NEW document, NEW tool, DOMAIN tool.security \subseteq Nat, NEW args, NEW material,
         "threw" \notin DOMAIN OpenApi!Credentialed(document, tool, OpenApi!Plan(tool, args), material)
  PROVE  LET r == OpenApi!Credentialed(document, tool, OpenApi!Plan(tool, args), material)
         IN  /\ r.places = OpenApi!Plan(tool, args).places
             /\ \/ tool.security = <<>>
                \/ \E a \in OpenApi!Elements(tool.security) : r.credentials = OpenApi!Elements(a)
<1> DEFINE plan == OpenApi!Plan(tool, args)
           r == OpenApi!Credentialed(document, tool, plan, material)
           fails(a) == material = "throws" /\ a # <<>> /\ a[1] \in tool.schemes
           ends == {i \in DOMAIN tool.security :
                      fails(tool.security[i]) \/ OpenApi!Satisfiable(tool, tool.security[i], material)}
           first == CHOOSE i \in ends : \A j \in ends : i <= j
           alternative == tool.security[first]
<1>1. ASSUME NEW why PROVE "threw" \in DOMAIN OpenApi!Threw(why)
  BY DEF OpenApi!Threw
<1>2. CASE tool.security = <<>>
  BY <1>2 DEF OpenApi!Credentialed
<1>3. CASE tool.security # <<>>
  <2>1. ends # {}
    <3>1. ASSUME ends = {} PROVE r = OpenApi!Threw("not configured")
      BY <1>3, <3>1, Zenon DEF OpenApi!Credentialed
    <3>. HIDE DEF ends
    <3>. QED BY <1>1, <3>1, Zenon
  <2>2. first \in ends
    <3>1. ends \in SUBSET Nat
      OBVIOUS
    <3>. HIDE DEF ends
    <3>2. PICK i \in ends : \A j \in ends : i <= j
      BY <2>1, <3>1, LeastOf
    <3>. QED BY <3>2
  <2>3. alternative \in OpenApi!Elements(tool.security)
    BY <2>2 DEF OpenApi!Elements
  <2>4. ~ fails(alternative)
    <3>1. ASSUME fails(alternative) PROVE r = OpenApi!Threw("reader")
      BY <1>3, <2>1, <3>1, Zenon DEF OpenApi!Credentialed
    <3>. HIDE DEF r, fails, alternative
    <3>. QED BY <1>1, <3>1 DEF r
  <2>5. OpenApi!Satisfiable(tool, alternative, material)
    BY <2>2, <2>4, Zenon
  <2>6. r = IF OpenApi!Placeable(document, alternative, material)
            THEN [plan EXCEPT !.credentials = OpenApi!Elements(alternative) \cap tool.schemes]
            ELSE OpenApi!Threw("wrong kind")
    BY <1>3, <2>1, <2>4, Zenon DEF OpenApi!Credentialed
  <2>7. OpenApi!Elements(alternative) \cap tool.schemes = OpenApi!Elements(alternative)
    BY <2>5 DEF OpenApi!Satisfiable
  <2>. HIDE DEF r, alternative, plan
  <2>8. r = [plan EXCEPT !.credentials = OpenApi!Elements(alternative)]
    BY <1>1, <2>6, <2>7 DEF r, plan
  <2>9. plan = [method |-> plan.method, places |-> plan.places, credentials |-> plan.credentials]
    BY DEF plan, OpenApi!Plan
  <2>10. r.places = plan.places /\ r.credentials = OpenApi!Elements(alternative)
    BY <2>8, <2>9
  <2>. QED BY <2>3, <2>10 DEF r, plan
<1>. QED BY <1>2, <1>3

\* The private networks by their intervals, and an address by its halves.
LEMMA Private4Is ==
  ASSUME NEW n \in Nat, n \in OpenApi!Private4
  PROVE  \/ n \in 0..255 \/ n \in 2560..2815 \/ n \in 32512..32767 \/ n = 43518 \/ n \in 44048..44063
         \/ n = 49320 \/ n \in 25664..25727 \/ n = 65535
BY DEF OpenApi!Private4

LEMMA Private6Is ==
  ASSUME NEW n \in Nat, n \in OpenApi!Private6
  PROVE  n \in 65152..65215 \/ n \in 64512..65023
BY DEF OpenApi!Private6

AreHalves(n, a, b) == n \in Nat /\ a \in 0..255 /\ b \in 0..255 /\ n = 256 * a + b
Upper(n) == n \div 256
Lower(n) == n % 256

\* What is in a private network is blocked, network by network.
LEMMA OpenIsNotPrivate ==
  ASSUME NEW n, NEW a, NEW b, AreHalves(n, a, b), n \in OpenApi!Private4
  PROVE  OpenApi!BlockedIPv4(a, b)
<1>0. n \in Nat /\ a \in 0..255 /\ b \in 0..255 /\ n = 256 * a + b
  BY DEF AreHalves
<1>1. CASE n \in 0..255
  <2>1. a = 0
    BY <1>0, <1>1
  <2>. QED BY <2>1 DEF OpenApi!BlockedIPv4
<1>2. CASE n \in 2560..2815
  <2>1. a = 10
    BY <1>0, <1>2
  <2>. QED BY <2>1 DEF OpenApi!BlockedIPv4
<1>3. CASE n \in 32512..32767
  <2>1. a = 127
    BY <1>0, <1>3
  <2>. QED BY <2>1 DEF OpenApi!BlockedIPv4
<1>4. CASE n = 43518
  <2>1. a = 169 /\ b = 254
    BY <1>0, <1>4
  <2>. QED BY <2>1 DEF OpenApi!BlockedIPv4
<1>5. CASE n \in 44048..44063
  <2>1. a = 172 /\ b >= 16 /\ b <= 31
    BY <1>0, <1>5
  <2>. QED BY <2>1 DEF OpenApi!BlockedIPv4
<1>6. CASE n = 49320
  <2>1. a = 192 /\ b = 168
    BY <1>0, <1>6
  <2>. QED BY <2>1 DEF OpenApi!BlockedIPv4
<1>7. CASE n \in 25664..25727
  <2>1. a = 100 /\ b >= 64 /\ b <= 127
    BY <1>0, <1>7
  <2>. QED BY <2>1 DEF OpenApi!BlockedIPv4
<1>8. CASE n = 65535
  <2>1. a = 255 /\ b = 255
    BY <1>0, <1>8
  <2>. QED BY <2>1 DEF OpenApi!BlockedIPv4
<1>. QED BY <1>0, <1>1, <1>2, <1>3, <1>4, <1>5, <1>6, <1>7, <1>8, Private4Is

LEMMA UpperIs ==
  ASSUME NEW n \in Nat
  PROVE  Upper(n) \in Nat
BY DEF Upper

LEMMA LowerIs ==
  ASSUME NEW n \in Nat
  PROVE  Lower(n) \in 0..255
BY DEF Lower

LEMMA HalvesAre ==
  ASSUME NEW n \in Nat, NEW q \in Nat, q = Upper(n), NEW r \in Nat, r = Lower(n)
  PROVE  n = 256 * q + r
BY SMTT(100) DEF Upper, Lower

\* So is what embeds such an address.
LEMMA EmbeddedIsReachable ==
  ASSUME NEW n \in Nat, n < 65536, ~ OpenApi!BlockedIPv4(Upper(n), Lower(n))
  PROVE  n \notin OpenApi!Private4
<1>1. AreHalves(n, Upper(n), Lower(n))
  <2>1. Upper(n) \in Nat /\ Lower(n) \in 0..255 /\ Lower(n) \in Nat
    BY UpperIs, LowerIs
  <2>2. n = 256 * Upper(n) + Lower(n)
    BY <2>1, HalvesAre
  <2>3. Upper(n) \in 0..255
    BY <2>1, <2>2
  <2>. QED BY <2>1, <2>2, <2>3 DEF AreHalves
<1>. QED BY <1>1, OpenIsNotPrivate

\* What the masks of link-local and of unique local addresses keep.
LinkPart(n) == n \div 64
LocalPart(n) == n \div 512

LEMMA LinkLocalIs ==
  ASSUME NEW n \in Nat, n >= 65152, n <= 65215
  PROVE  LinkPart(n) = 1018
BY DEF LinkPart

LEMMA UniqueLocalIs ==
  ASSUME NEW n \in Nat, n >= 64512, n <= 65023
  PROVE  LocalPart(n) = 126
BY DEF LocalPart

LEMMA MaskedIsNotPrivate ==
  ASSUME NEW n \in Nat, LinkPart(n) # 1018, LocalPart(n) # 126
  PROVE  n \notin OpenApi!Private6
BY LinkLocalIs, UniqueLocalIs, Private6Is
\* An address that the floor lets through is in none of the private networks.
LEMMA AllowedIsReachable ==
  ASSUME NEW a, a.family = 4 => \A i \in 1..2 : a.groups[i] \in Nat /\ a.groups[i] < 256,
         a.family = 6 => \A i \in 1..8 : a.groups[i] \in Nat /\ a.groups[i] < 65536,
         ~ OpenApi!Blocked(a)
  PROVE  OpenApi!Reachable(a)
<1>1. CASE a.family = 4
  <2> DEFINE b == a.groups[1]
             c == a.groups[2]
  <2>1. b \in Nat /\ c \in Nat /\ b < 256 /\ c < 256
    BY <1>1
  <2>2. ~ OpenApi!BlockedIPv4(b, c)
    BY <1>1 DEF OpenApi!Blocked
  <2>. HIDE DEF b, c
  <2>3. AreHalves(b * 256 + c, b, c)
    BY <2>1 DEF AreHalves
  <2>4. b * 256 + c \notin OpenApi!Private4
    BY <2>2, <2>3, OpenIsNotPrivate
  <2>. QED BY <1>1, <2>4 DEF OpenApi!Reachable, b, c
<1>2. CASE a.family = 6
  <2> DEFINE g == a.groups
             zero(n) == \A i \in 1..n : g[i] = 0
             embedded == OpenApi!BlockedIPv4(Upper(g[7]), Lower(g[7]))
  <2>1. \A i \in 1..8 : g[i] \in Nat /\ g[i] < 65536
    BY <1>2
  <2>6. g[7] \in Nat /\ g[7] < 65536 /\ g[1] \in Nat
    BY <2>1
  <2>2. ~ OpenApi!BlockedIPv6(g)
    BY <1>2 DEF OpenApi!Blocked
  <2>3. CASE zero(5) /\ g[6] = 65535
    <3>1. ~ embedded
      BY <2>2, <2>3 DEF OpenApi!BlockedIPv6, Upper, Lower
    <3>2. g[7] \notin OpenApi!Private4
      BY <2>6, <3>1, EmbeddedIsReachable
    <3>3. g[1] = 0
      BY <2>3
    <3>4. g[1] \notin OpenApi!Private6
      BY <3>3 DEF OpenApi!Private6
    <3>. QED BY <1>2, <3>2, <3>4 DEF OpenApi!Reachable
  <2>4. CASE zero(6) /\ (g[7] # 0 \/ g[8] > 1)
    <3>0. g[1] = 0 /\ g[6] = 0
      BY <2>4
    <3>1. ~ embedded
      BY <2>2, <2>4, <3>0 DEF OpenApi!BlockedIPv6, Upper, Lower
    <3>2. g[7] \notin OpenApi!Private4
      BY <2>6, <3>1, EmbeddedIsReachable
    <3>4. g[1] \notin OpenApi!Private6
      BY <3>0 DEF OpenApi!Private6
    <3>. QED BY <1>2, <3>2, <3>4 DEF OpenApi!Reachable
  <2>5. CASE ~ (zero(5) /\ g[6] = 65535) /\ ~ (zero(6) /\ (g[7] # 0 \/ g[8] > 1))
    <3>1. /\ ~ zero(8) /\ ~ (zero(7) /\ g[8] = 1)
          /\ LinkPart(g[1]) # 1018 /\ LocalPart(g[1]) # 126
      BY <2>2, <2>5 DEF OpenApi!BlockedIPv6, LinkPart, LocalPart
    <3>2. ~ zero(6)
      <4>1. ASSUME zero(6) PROVE FALSE
        <5>1. g[7] = 0 /\ g[8] \in {0, 1}
          BY <2>1, <2>5, <4>1
        <5>2. \A i \in 1..7 : i \in 1..6 \/ i = 7
          OBVIOUS
        <5>3. zero(7)
          BY <4>1, <5>1, <5>2
        <5>4. \A i \in 1..8 : i \in 1..7 \/ i = 8
          OBVIOUS
        <5>5. g[8] = 0 => zero(8)
          BY <5>3, <5>4
        <5>. QED BY <3>1, <5>1, <5>3, <5>5
      <4>. QED BY <4>1
    <3>3. ~ (zero(5) /\ g[6] \in {0, 65535})
      <4>1. \A i \in 1..6 : i \in 1..5 \/ i = 6
        OBVIOUS
      <4>2. zero(5) /\ g[6] = 0 => zero(6)
        BY <4>1
      <4>. QED BY <2>5, <3>2, <4>2
    <3>4. g[1] \notin OpenApi!Private6
      BY <2>6, <3>1, MaskedIsNotPrivate
    <3>. QED BY <1>2, <3>3, <3>4 DEF OpenApi!Reachable
  <2>. QED BY <2>3, <2>4, <2>5
<1>3. CASE a.family # 4 /\ a.family # 6
  BY <1>3 DEF OpenApi!Blocked
<1>. QED BY <1>1, <1>2, <1>3

----------------------------------------------------------------------------
(* Tools of documents: every call of every tool.                           *)

LEMMA SecurityIsAList ==
  ASSUME NEW document, NEW op,
         document.security = OpenApiAbsent \/ OpenApi!IsList(document.security),
         op.security = OpenApiAbsent \/ OpenApi!IsList(op.security)
  PROVE  DOMAIN OpenApi!Security(document, op) \subseteq Nat
<1> DEFINE declared == IF op.security # OpenApiAbsent THEN op.security ELSE document.security
<1>1. declared = OpenApiAbsent \/ OpenApi!IsList(declared)
  OBVIOUS
<1>2. OpenApi!Security(document, op)
        = IF declared = OpenApiAbsent THEN <<>>
          ELSE OpenApi!RestrictValues(declared, LAMBDA r : r # OpenApiMalformed)
  BY DEF OpenApi!Security
<1>. HIDE DEF declared
<1>3. CASE declared = OpenApiAbsent
  BY <1>2, <1>3
<1>4. CASE declared # OpenApiAbsent
  <2>1. DOMAIN declared \subseteq Nat
    BY <1>1, <1>4 DEF OpenApi!IsList
  <2>2. OpenApi!Security(document, op)
          = [i \in {j \in DOMAIN declared : declared[j] # OpenApiMalformed} |-> declared[i]]
    BY <1>2, <1>4 DEF OpenApi!RestrictValues, OpenApi!Restrict
  <2>. QED BY <2>1, <2>2
<1>. QED BY <1>3, <1>4

\* An operation has one tool, and the first of a name has it.
LEMMA ToolsAreOfOne ==
  ASSUME NEW document, OpenApi!IsList(document.operations),
         NEW s \in OpenApi!Tools(document), NEW t \in OpenApi!Tools(document), s.name = t.name
  PROVE  s = t
<1> DEFINE ops == document.operations
           of(i) == OpenApi!Tool(document, document.item, ops[i])
           open == {i \in DOMAIN ops : ~ OpenApi!Skipped(document.item, ops[i]) /\ ~ OpenApi!Taken(document, i)}
<1>1. PICK i \in open : s = of(i)
  BY DEF OpenApi!Tools
<1>2. PICK j \in open : t = of(j)
  BY DEF OpenApi!Tools
<1>3. ops[i].name = ops[j].name
  BY <1>1, <1>2 DEF OpenApi!Tool
<1>4. DOMAIN ops = 1..Len(ops) /\ Len(ops) \in Nat
  BY DEF OpenApi!IsList
<1>5. ASSUME NEW k \in open, NEW m \in open, k < m, ops[k].name = ops[m].name PROVE FALSE
  <2>1. k \in 1..(m - 1)
    BY <1>4, <1>5
  <2>2. ~ OpenApi!Skipped(document.item, ops[k]) /\ ~ OpenApi!Taken(document, m)
    OBVIOUS
  <2>. QED BY <1>5, <2>1, <2>2 DEF OpenApi!Taken
<1>6. i = j
  <2>1. i \in Nat /\ j \in Nat
    BY <1>4
  <2>2. ~ (i < j) /\ ~ (j < i)
    BY <1>3, <1>5
  <2>. QED BY <2>1, <2>2
<1>. QED BY <1>1, <1>2, <1>6

\* A call that is sent has the request of an operation, with credentials, to what is allowed.
LEMMA ExecutedIs ==
  ASSUME NEW document, NEW tool, NEW args, NEW material, NEW target,
         "sent" \in DOMAIN OpenApi!Execute(document, tool, args, material, target, "answered")
  PROVE  LET r == OpenApi!Credentialed(document, tool, OpenApi!Plan(tool, args), material)
         IN  /\ OpenApi!Execute(document, tool, args, material, target, "answered").sent = r
             /\ "threw" \notin DOMAIN r
             /\ OpenApi!Allowed(target)
             /\ OpenApi!Execute(document, tool, args, material, target, "answered").to
                  = IF target.literal THEN target.addresses[1] ELSE target.later
<1> DEFINE r == OpenApi!Credentialed(document, tool, OpenApi!Plan(tool, args), material)
           to == IF target.literal THEN target.addresses[1] ELSE target.later
           result == OpenApi!Execute(document, tool, args, material, target, "answered")
<1>1. result = IF target.protocol = OpenApiAbsent THEN OpenApi!Threw("no server")
               ELSE IF "threw" \in DOMAIN r THEN r
               ELSE IF ~ OpenApi!Allowed(target) THEN OpenApi!Threw("blocked")
               ELSE IF to = OpenApiAbsent THEN OpenApi!Threw("unresolved")
               ELSE [sent |-> r, to |-> to, response |-> "answered"]
  <2>1. OpenApi!Fetch(r, target, "answered")
          = IF to = OpenApiAbsent THEN OpenApi!Threw("unresolved")
            ELSE [sent |-> r, to |-> to, response |-> "answered"]
    BY DEF OpenApi!Fetch
  <2>. QED BY <2>1 DEF OpenApi!Execute
<1>2. ASSUME NEW why PROVE "sent" \notin DOMAIN OpenApi!Threw(why)
  BY DEF OpenApi!Threw
<1>3. "threw" \in DOMAIN r => "sent" \notin DOMAIN r
  <2>1. ASSUME NEW why PROVE DOMAIN OpenApi!Threw(why) = {"threw"}
    BY DEF OpenApi!Threw
  <2>2. DOMAIN r = {"threw"} \/ DOMAIN r = {"method", "places", "credentials"}
    <3> DEFINE plan == OpenApi!Plan(tool, args)
               fails(a) == material = "throws" /\ a # <<>> /\ a[1] \in tool.schemes
               ends == {i \in DOMAIN tool.security :
                          fails(tool.security[i]) \/ OpenApi!Satisfiable(tool, tool.security[i], material)}
               alternative == tool.security[CHOOSE i \in ends : \A j \in ends : i <= j]
    <3>1. DOMAIN plan = {"method", "places", "credentials"}
      BY DEF OpenApi!Plan
    <3>2. CASE tool.security = <<>>
      <4>1. r = plan
        BY <3>2 DEF OpenApi!Credentialed
      <4>. QED BY <3>1, <4>1
    <3>3. CASE tool.security # <<>> /\ ends = {}
      <4>1. r = OpenApi!Threw("not configured")
        BY <3>3, Zenon DEF OpenApi!Credentialed
      <4>. QED BY <2>1, <4>1, Zenon
    <3>4. CASE tool.security # <<>> /\ ends # {} /\ fails(alternative)
      <4>1. r = OpenApi!Threw("reader")
        BY <3>4, Zenon DEF OpenApi!Credentialed
      <4>. QED BY <2>1, <4>1, Zenon
    <3>5. CASE tool.security # <<>> /\ ends # {} /\ ~ fails(alternative)
      <4>1. r = IF OpenApi!Placeable(document, alternative, material)
                THEN [plan EXCEPT !.credentials = OpenApi!Elements(alternative) \cap tool.schemes]
                ELSE OpenApi!Threw("wrong kind")
        BY <3>5, Zenon DEF OpenApi!Credentialed
      <4>. HIDE DEF plan, alternative, r
      <4>. QED BY <2>1, <3>1, <4>1, Zenon
    <3>. HIDE DEF fails, ends, alternative
    <3>. QED BY <3>2, <3>3, <3>4, <3>5
  <2>. QED BY <2>2
<1>. HIDE DEF r, to, result
<1>4. /\ target.protocol # OpenApiAbsent /\ "threw" \notin DOMAIN r /\ OpenApi!Allowed(target)
      /\ to # OpenApiAbsent
  BY <1>1, <1>2, <1>3 DEF result
<1>. QED BY <1>1, <1>4 DEF r, to, result

LEMMA SentIs ==
  ASSUME NEW document, NEW tool, NEW args, NEW r,
         \E o \in OpenApi!Elements(document.operations) :
           o.name = tool.name /\ ~ OpenApi!Skipped(document.item, o)
             /\ OpenApi!Tool(document, document.item, o) = tool,
         \A o \in OpenApi!Elements(document.operations) :
           (o.name = tool.name /\ ~ OpenApi!Skipped(document.item, o)
             /\ OpenApi!Tool(document, document.item, o) = tool) =>
           IsSentAs(o, OpenApi!Declared(document.item, o), tool, r.places, r.credentials)
  PROVE  OpenApi!Sent(document, tool, args, r)
<1> DEFINE Of(o) == o.name = tool.name /\ ~ OpenApi!Skipped(document.item, o)
                      /\ OpenApi!Tool(document, document.item, o) = tool
           op == CHOOSE o \in OpenApi!Elements(document.operations) : Of(o)
<1>1. op \in OpenApi!Elements(document.operations) /\ Of(op)
  <2>1. \E o \in OpenApi!Elements(document.operations) : Of(o)
    OBVIOUS
  <2>. HIDE DEF Of
  <2>. QED BY <2>1
<1>2. IsSentAs(op, OpenApi!Declared(document.item, op), tool, r.places, r.credentials)
  <2>1. \A o \in OpenApi!Elements(document.operations) : Of(o) =>
          IsSentAs(o, OpenApi!Declared(document.item, o), tool, r.places, r.credentials)
    OBVIOUS
  <2>. HIDE DEF op, Of
  <2>. QED BY <1>1, <2>1
<1>. QED BY <1>2 DEF OpenApi!Sent, IsSentAs

LEMMA CallsAreTheOperationsOf ==
  ASSUME NEW x, OpenApi!IsGiven(x)
  PROVE  OpenApi!CallsAreTheOperations(x)
<1> DEFINE document == x.document
           ops == document.operations
<1>1. /\ OpenApi!IsList(ops)
      /\ HasParameters(document.item)
      /\ document.security = OpenApiAbsent \/ OpenApi!IsList(document.security)
      /\ \A o \in OpenApi!Elements(ops) :
           HasParameters(o) /\ (o.security = OpenApiAbsent \/ OpenApi!IsList(o.security))
  BY DEF OpenApi!IsGiven, HasParameters, Places
<1>2. OpenApi!IsList(x.target.addresses) /\ \A a \in OpenApi!Elements(x.target.addresses) :
        /\ a.family = 4 => \A i \in 1..2 : a.groups[i] \in Nat /\ a.groups[i] < 256
        /\ a.family = 6 => \A i \in 1..8 : a.groups[i] \in Nat /\ a.groups[i] < 65536
  BY DEF OpenApi!IsGiven
<1>. HIDE DEF document, ops
<1>3. ASSUME NEW tool \in OpenApi!Tools(document)
      PROVE  \E o \in OpenApi!Elements(ops) :
               o.name = tool.name /\ ~ OpenApi!Skipped(document.item, o)
                 /\ OpenApi!Tool(document, document.item, o) = tool
  <2>1. PICK i \in DOMAIN ops : /\ ~ OpenApi!Skipped(document.item, ops[i])
                                /\ tool = OpenApi!Tool(document, document.item, ops[i])
    BY DEF OpenApi!Tools, ops
  <2>2. ops[i] \in OpenApi!Elements(ops)
    BY DEF OpenApi!Elements
  <2>3. tool.name = ops[i].name
    BY <2>1 DEF OpenApi!Tool
  <2>. QED BY <2>1, <2>2, <2>3
<1>4. ASSUME NEW tool \in OpenApi!Tools(document), tool.access = "read"
      PROVE  tool.idempotency # "none"
  <2>1. PICK o \in OpenApi!Elements(ops) : OpenApi!Tool(document, document.item, o) = tool
    BY <1>3
  <2>2. tool.access = OpenApi!Access(o.method) /\ tool.idempotency = OpenApi!Idempotency(o.method)
    BY <2>1 DEF OpenApi!Tool
  <2>. QED BY <1>4, <2>2 DEF OpenApi!Access, OpenApi!Idempotency
<1>5. ASSUME NEW tool \in OpenApi!Tools(document), NEW other \in OpenApi!Tools(document),
             other.name = tool.name
      PROVE  other = tool
  BY <1>1, <1>5, ToolsAreOfOne DEF ops
<1>6. ASSUME NEW tool \in OpenApi!Tools(document), NEW args \in SUBSET tool.properties,
             tool.required \subseteq args,
             "sent" \in DOMAIN OpenApi!Execute(document, tool, args, x.material, x.target, "answered")
      PROVE  LET result == OpenApi!Execute(document, tool, args, x.material, x.target, "answered")
             IN  /\ OpenApi!Ambiguous(tool) \/ OpenApi!Sent(document, tool, args, result.sent)
                 /\ \/ OpenApi!Reachable(result.to)
                    \/ ~ x.target.literal /\ result.to \notin OpenApi!Elements(x.target.addresses)
  <2> DEFINE plan == OpenApi!Plan(tool, args)
             r == OpenApi!Credentialed(document, tool, plan, x.material)
             to == IF x.target.literal THEN x.target.addresses[1] ELSE x.target.later
  <2>1. /\ OpenApi!Execute(document, tool, args, x.material, x.target, "answered").sent = r
        /\ "threw" \notin DOMAIN r
        /\ OpenApi!Allowed(x.target)
        /\ OpenApi!Execute(document, tool, args, x.material, x.target, "answered").to = to
    BY <1>6, ExecutedIs
  <2>2. PICK op \in OpenApi!Elements(ops) :
          op.name = tool.name /\ ~ OpenApi!Skipped(document.item, op)
            /\ OpenApi!Tool(document, document.item, op) = tool
    BY <1>3
  <2>3. DOMAIN tool.security \subseteq Nat
    <3>1. tool.security = OpenApi!Security(document, op)
      BY <2>2 DEF OpenApi!Tool
    <3>. QED BY <1>1, <3>1, SecurityIsAList
  <2>4. /\ r.places = plan.places
        /\ tool.security = <<>> \/ \E a \in OpenApi!Elements(tool.security) :
                                     r.credentials = OpenApi!Elements(a)
    BY <2>1, <2>3, CredentialsAreOfOne
  <2>. HIDE DEF r
  <2>5. ASSUME NEW o \in OpenApi!Elements(ops), o.name = tool.name,
               ~ OpenApi!Skipped(document.item, o), OpenApi!Tool(document, document.item, o) = tool,
               ~ OpenApi!Ambiguous(tool)
        PROVE  IsSentAs(o, OpenApi!Declared(document.item, o), tool,
                        r.places, r.credentials)
    <3>1. IsSentAs(o, OpenApi!Declared(document.item, o), tool,
                   plan.places, r.credentials)
      BY <1>1, <1>6, <2>4, <2>5, PlannedIsSent
    <3>. QED BY <2>4, <3>1
  <2>6. OpenApi!Ambiguous(tool) \/ OpenApi!Sent(document, tool, args, r)
    BY <2>2, <2>5, SentIs DEF ops
  <2>7. ASSUME NEW a \in OpenApi!Elements(x.target.addresses) PROVE OpenApi!Reachable(a)
    <3>1. ~ OpenApi!Blocked(a)
      BY <2>1 DEF OpenApi!Allowed
    <3>2. /\ a.family = 4 => \A i \in 1..2 : a.groups[i] \in Nat /\ a.groups[i] < 256
          /\ a.family = 6 => \A i \in 1..8 : a.groups[i] \in Nat /\ a.groups[i] < 65536
      BY <1>2
    <3>. QED BY <3>1, <3>2, AllowedIsReachable
  <2>8. x.target.literal => to \in OpenApi!Elements(x.target.addresses)
    <3>1. x.target.addresses # <<>>
      BY <2>1 DEF OpenApi!Allowed
    <3>2. 1 \in DOMAIN x.target.addresses
      BY <1>2, <3>1 DEF OpenApi!IsList
    <3>. QED BY <3>2 DEF OpenApi!Elements
  <2>. HIDE DEF to
  <2>. QED BY <2>1, <2>6, <2>7, <2>8
<1>. QED BY <1>4, <1>5, <1>6 DEF OpenApi!CallsAreTheOperations, document

\* What a call of a tool sends is the operation that was registered, for every document: everything
\* that it requires is where it declares it and nothing is where it declares nothing, one alternative
\* of its security is met in full.  It goes to none of the private networks, unless the host has a
\* name and resolved to another address between the check and the connection.  A name has one
\* tool, and what only reads may be repeated (toolsFromOpenApi, planHttpRequest,
\* applyCredentials, assertEgressAllowed, performFetch).
THEOREM CallsSendTheOperations == Spec => []CallsAreTheOperations
<1> DEFINE Inv == part = "openapi" => given \in OpenApiInputs
<1>1. Init => Inv
  BY DEF Init
<1>2. Inv /\ [Next]_vars => Inv'
  BY DEF Next, vars
<1>3. Inv => CallsAreTheOperations
  BY OpenApiInputsAssumption, CallsAreTheOperationsOf DEF CallsAreTheOperations
<1>. QED BY <1>1, <1>2, <1>3, PTL DEF Spec
=================================================================================
