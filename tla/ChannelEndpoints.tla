---------------------------- MODULE ChannelEndpoints ----------------------------
(***************************************************************************)
(* Which bot a webhook is for, and with whose token it is answered         *)
(* (plugins/channels): the app's own bots, named in code, each with a      *)
(* route of its own and a secret that holds its token; and the bots that   *)
(* users register, one row each, which share one route and are found by    *)
(* the hook, the webhook secret that the provider echoes.                  *)
(*                                                                         *)
(* Register calls and requests run statement by statement.  What a request *)
(* does once its endpoint is known, to bind, run and reply, is that of     *)
(* Conversation.  There is one provider, telegram, which answers for both. *)
(***************************************************************************)
EXTENDS FiniteSets

CONSTANTS
  Bot,         \* the app's bots
  Own,         \* the bot that the transport of the registrations takes itself for
  Key,         \* the keys users register under; a bot may have the same name
  Malformed,   \* keys that are no path segment
  Hook,        \* the hooks that users choose
  BotToken,    \* what the secrets of bots may be set to
  UserToken,   \* what users give
  Registrar, Request, None

VARIABLES
  registration,  \* the channel_registration rows, or None
  registrar,     \* register calls, each at one of its statements
  secret,        \* what the tokenRef of a bot names: a token, or None
  memo,          \* per bot: what its channel keeps of the secret once it is resolved
  request,       \* per request: where it is, and what it was found to be for
  given,         \* history: the tokens that bots and registrations were ever given
  contested      \* history: hooks that two registrations of different keys checked at a time

vars == <<registration, registrar, secret, memo, request, given, contested>>

\* Conversations are bound under the bare name of a bot, or under this key of a registration.
BindingKey(key) == <<"registrations", key>>

Idle == [pc |-> "idle", key |-> None, hook |-> None, token |-> None]
Unsent == [pc |-> "idle", path |-> None, echo |-> None, found |-> None,
           key |-> None, hook |-> None, token |-> None, answeredWith |-> None]

\* The rows, what a tokenRef may name, and what a channel keeps of it.
Registration == [status : {"active", "disabled"}, hook : Hook, token : UserToken \cup {None}]
BotSecret == BotToken \cup {None}
Resolved == BotSecret \cup {"unresolved"}

\* A missing row is no row, and a missing bot or conversation is none.
ChannelAssumption ==
  /\ None \notin Registration /\ None \notin Bot
  /\ None \notin {<<b>> : b \in Bot}

TypeOK ==
  /\ registration \in [Key -> Registration \cup {None}]
  /\ secret \in [Bot -> BotSecret]
  /\ memo \in [Bot -> Resolved]
  /\ \A r \in Request : request[r].pc \in
       {"idle", "unknown", "lookup", "verify", "threw", "unauthorized", "handle", "done"}
  /\ \A c \in Registrar : registrar[c].pc \in {"idle", "secret", "key", "patch", "create", "done"}
  /\ contested \subseteq Hook

Init ==
  /\ registration = [k \in Key |-> None] /\ registrar = [c \in Registrar |-> Idle]
  /\ secret \in [Bot -> BotSecret]
  /\ memo = [b \in Bot |-> "unresolved"]
  /\ request = [r \in Request |-> Unsent]
  /\ given = {<<"bot", b, secret[b]>> : b \in Bot} /\ contested = {}

-----------------------------------------------------------------------------
(* Registrations.                                                          *)

Go(c, pc) == registrar' = [registrar EXCEPT ![c].pc = pc]
Finish(c) == registrar' = [registrar EXCEPT ![c] = [Idle EXCEPT !.pc = "done"]]

\* What the plugin or the input schema refuses never reaches the store.
Register(c, key, hook, token) ==
  /\ registrar[c].pc = "idle"
  /\ IF key \in Malformed
       THEN Finish(c)
       ELSE registrar' = [registrar EXCEPT ![c] =
              [pc |-> "secret", key |-> key, hook |-> hook, token |-> token]]
  /\ UNCHANGED <<registration, secret, memo, request, given, contested>>

\* Mutant: a row that is disabled does not own its hook.
Owners_Active(hook) ==
  {k \in Key : registration[k] # None /\ registration[k].hook = hook
               /\ registration[k].status = "active"}

\* The rows of a hook, active or not.
Owners(hook) == {k \in Key : registration[k] # None /\ registration[k].hook = hook}

Claims(c, d) ==
  /\ registrar[d].pc \in {"key", "patch", "create"}
  /\ registrar[d].hook = registrar[c].hook /\ registrar[d].key # registrar[c].key

\* getBySecret finds any of the owners: the call ends if it finds another one.
CheckSecret(c) ==
  LET hook == registrar[c].hook
      key == registrar[c].key
  IN  /\ registrar[c].pc = "secret"
      /\ \/ /\ Owners(hook) = {} \/ key \in Owners(hook)
            /\ Go(c, "key")
            /\ contested' = contested \cup {h \in {hook} : \E d \in Registrar : Claims(c, d)}
         \/ /\ Owners(hook) \ {key} # {}
            /\ Finish(c) /\ UNCHANGED contested
      /\ UNCHANGED <<registration, secret, memo, request, given>>

CheckKey(c) ==
  /\ registrar[c].pc = "key"
  /\ Go(c, IF registration[registrar[c].key] = None THEN "create" ELSE "patch")
  /\ UNCHANGED <<registration, secret, memo, request, given, contested>>

Row(c, token) == [status |-> "active", hook |-> registrar[c].hook, token |-> token]

\* A row keeps the token that a registration does not give.
Patch(c) ==
  LET key == registrar[c].key
      token == IF registrar[c].token = None THEN registration[key].token ELSE registrar[c].token
  IN  /\ registrar[c].pc = "patch"
      /\ registration' = [registration EXCEPT ![key] = Row(c, token)]
      /\ given' = given \cup {<<"user", key, token>>}
      /\ Finish(c)
      /\ UNCHANGED <<secret, memo, request, contested>>

\* The id is the hash of the key: a second create fails, and patches the row of the first.
Create(c) ==
  LET key == registrar[c].key IN
  /\ registrar[c].pc = "create"
  /\ IF registration[key] # None
       THEN Go(c, "patch") /\ UNCHANGED <<registration, given>>
       ELSE /\ registration' = [registration EXCEPT ![key] = Row(c, registrar[c].token)]
            /\ given' = given \cup {<<"user", key, registrar[c].token>>}
            /\ Finish(c)
  /\ UNCHANGED <<secret, memo, request, contested>>

Revoke(key) ==
  /\ registration[key] # None
  /\ registration' = [registration EXCEPT ![key].status = "disabled"]
  /\ UNCHANGED <<registrar, secret, memo, request, given, contested>>

-----------------------------------------------------------------------------
(* Requests.                                                               *)

Set(r, record) == request' = [request EXCEPT ![r] = record]
End(r, pc) == Set(r, [request[r] EXCEPT !.pc = pc])
Elsewhere == <<registration, registrar, given, contested>>

\* A request for a bot of the app, on its path.
ReceiveForBot(r, bot, echo) ==
  /\ request[r].pc = "idle"
  /\ Set(r, [Unsent EXCEPT !.pc = IF bot \in Bot THEN "verify" ELSE "unknown", !.path = "bot",
                           !.echo = echo, !.found = bot, !.key = <<bot>>])
  /\ UNCHANGED <<Elsewhere, secret, memo>>

\* A request for a bot that a user registered: identify, then getBySecret.
ReceiveForUser(r, echo) ==
  /\ request[r].pc = "idle"
  /\ Set(r, [Unsent EXCEPT !.pc = IF echo = None THEN "unknown" ELSE "lookup", !.path = "user",
                           !.echo = echo])
  /\ UNCHANGED <<Elsewhere, secret, memo>>

Lookup(r) ==
  LET owners == Owners(request[r].echo) IN
  /\ request[r].pc = "lookup"
  /\ \/ owners = {} /\ End(r, "unknown")
     \/ \E k \in owners :
          IF registration[k].status # "active"
            THEN End(r, "unknown")
            ELSE Set(r, [request[r] EXCEPT !.pc = "verify", !.found = k, !.key = BindingKey(k),
                          !.hook = registration[k].hook, !.token = registration[k].token])
  /\ UNCHANGED <<Elsewhere, secret, memo>>

\* The bot a channel takes an endpoint for: its own, or none.
BotOf(r) ==
  LET own == IF request[r].path = "bot" THEN request[r].found ELSE Own
  IN  IF request[r].key = <<own>> THEN own ELSE None

\* The token of an endpoint, by tokenFor: what the secret says is kept, also that there is none;
\* a reader that fails is asked again by the next request.
TokenFor(r, token) ==
  IF BotOf(r) = None
    THEN token = request[r].token /\ UNCHANGED memo
    ELSE /\ token = (IF memo[BotOf(r)] = "unresolved" THEN secret[BotOf(r)] ELSE memo[BotOf(r)])
         /\ memo' = [memo EXCEPT ![BotOf(r)] = token]

Derived(token) == <<"derived", token>>

\* A token that is missing, or a reader that fails, throws; a wrong echo is unauthorized.
Verify(r, token) ==
  /\ request[r].pc = "verify"
  /\ TokenFor(r, token)
  /\ LET expected == IF request[r].hook # None THEN request[r].hook ELSE Derived(token)
     IN  End(r, IF token = None /\ (BotOf(r) # None \/ request[r].hook = None) THEN "threw"
                  ELSE IF request[r].echo = expected THEN "handle" ELSE "unauthorized")
  /\ UNCHANGED <<Elsewhere, secret>>

ReaderFails(r) ==
  /\ request[r].pc = "verify" /\ BotOf(r) # None /\ memo[BotOf(r)] = "unresolved"
  /\ End(r, "threw")
  /\ UNCHANGED <<Elsewhere, secret, memo>>

\* The messages are bound under the endpoint's key and relayed; a reply is sent by the same token.
Handle(r, token) ==
  /\ request[r].pc = "handle"
  /\ TokenFor(r, token)
  /\ Set(r, [request[r] EXCEPT !.pc = IF token = None THEN "threw" ELSE "done",
                               !.answeredWith = token])
  /\ UNCHANGED <<Elsewhere, secret>>

\* The body does not parse, or there is nothing to relay or to answer.
HandleNothing(r, pc) ==
  /\ request[r].pc = "handle"
  /\ End(r, pc)
  /\ UNCHANGED <<Elsewhere, secret, memo>>

SetSecret(b, token) ==
  /\ secret' = [secret EXCEPT ![b] = token]
  /\ given' = given \cup {<<"bot", b, token>>}
  /\ UNCHANGED <<registration, registrar, memo, request, contested>>

Tokens == BotToken \cup UserToken \cup {None}

Next ==
  \/ \E c \in Registrar :
       \/ \E key \in Key \cup Malformed, hook \in Hook, token \in UserToken \cup {None} :
            Register(c, key, hook, token)
       \/ CheckSecret(c) \/ CheckKey(c) \/ Patch(c) \/ Create(c)
  \/ \E key \in Key : Revoke(key)
  \/ \E r \in Request :
       \/ \E bot \in Bot \cup Key, echo \in {None} \cup {Derived(t) : t \in BotToken \cup UserToken} :
            ReceiveForBot(r, bot, echo)
       \/ \E echo \in Hook \cup {None} : ReceiveForUser(r, echo)
       \/ Lookup(r) \/ ReaderFails(r)
       \/ \E token \in Tokens : Verify(r, token) \/ Handle(r, token)
       \/ \E pc \in {"threw", "done"} : HandleNothing(r, pc)
  \/ \E b \in Bot, token \in BotSecret : SetSecret(b, token)

Spec == Init /\ [][Next]_vars

-----------------------------------------------------------------------------
(* Properties.                                                             *)

\* A hook names one bot: two rows have the same only if their registrations ran at the same time,
\* each past the check before the other wrote (register of store.ts).
OneOwnerPerHook ==
  \A k, l \in Key :
    (k # l /\ registration[k] # None /\ registration[l] # None
     /\ registration[k].hook = registration[l].hook) => registration[k].hook \in contested

\* A bot answers as itself: a conversation with a user's bot is never bound under the key of a bot
\* of the app, whatever name it was registered under, and it is answered with a token that was
\* given to it and to no other (bindingKey, tokenFor).
AnswersAsItself ==
  \A r \in Request :
    /\ request[r].path = "user" => request[r].key \notin {<<b>> : b \in Bot}
    /\ (request[r].answeredWith # None) =>
         <<request[r].path, request[r].found, request[r].answeredWith>> \in given
================================================================================
