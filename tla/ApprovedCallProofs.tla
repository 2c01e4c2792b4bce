-------------------------- MODULE ApprovedCallProofs --------------------------
(***************************************************************************)
(* Proofs about the approved call, for any number of callers and           *)
(* executions, any lease time, any policy, any number of crashes.          *)
(***************************************************************************)
EXTENDS ApprovedCall, TLAPS

----------------------------------------------------------------------------
(* The values the actions write.                                           *)

LEMMA TimeRange ==
  /\ Now \in 0..Now /\ 0 \in 0..Now
  /\ 0..Now \subseteq Time
  /\ \A at \in Time : Older(at) \in Time
  /\ \A at \in 0..Now : Older(at) \in 0..Now /\ at + LeaseTtl \in Time
BY CallAssumption DEF Time, Now, Older

LEMMA Rows ==
  /\ NoEffect \in EffectRow /\ NoEffect.status = "absent"
  /\ NoEffect.token = None /\ NoEffect.expiresAt = 0
  /\ \A status \in {"completed", "failed"}, output \in Token \cup {None} :
       /\ Ended(status, output) \in EffectRow
       /\ Ended(status, output).status = status /\ Ended(status, output).token = None
       /\ Ended(status, output).expiresAt = 0 /\ Ended(status, output).output = output
  /\ NoBeat \in [token : Token \cup {None}, ts : 0..Now] /\ NoBeat.token = None
BY TimeRange DEF NoEffect, EffectRow, EffectStatus, Ended, NoBeat

\* The row of a new lease.
LEMMA StartedRow ==
  ASSUME NEW c \in Caller, NEW k \in Token, ts[c] \in 0..Now
  PROVE  /\ Started(c, k) \in EffectRow
         /\ Started(c, k).status = "started" /\ Started(c, k).token = k
         /\ Started(c, k).expiresAt = ts[c] + LeaseTtl
BY TimeRange DEF Started, EffectRow, EffectStatus

\* A row whose expiry alone changes, and one that has none to change.
LEMMA AgedRow ==
  ASSUME effect \in EffectRow, NEW at \in Time
  PROVE  LET new == [effect EXCEPT !.expiresAt = at] IN
         /\ new \in EffectRow /\ new.status = effect.status /\ new.token = effect.token
         /\ new.expiresAt = at /\ new.output = effect.output
         /\ at = effect.expiresAt => new = effect
BY DEF EffectRow

----------------------------------------------------------------------------
(* Type correctness.                                                       *)

\* Only a started row has a lease to expire, and a row that is not there has nothing.
RowOK ==
  /\ effect.status # "started" => effect.expiresAt = 0
  /\ effect.status = "absent" => effect = NoEffect

\* The labels at which a caller has the lease its claim was given.
Leasing == {"claimed", "exec", "complete", "fail"}

\* A caller has a token from its claim until its call is over.
TokenOK ==
  \A c \in Caller :
    /\ pc[c] \in Leasing => token[c] \in Token
    /\ token[c] # None => pc[c] \in Leasing \cup {"resume"}

Typed == TypeOK /\ RowOK /\ TokenOK

LEMMA TypedInit == Init => Typed
<1>. SUFFICES ASSUME Init PROVE Typed
  OBVIOUS
<1>1. /\ policy \in Policy /\ approval \in ApprovalStatus /\ lapsed \in BOOLEAN
      /\ effect \in EffectRow /\ (effect.status = "started" <=> effect.token # None)
  BY Rows DEF Init, ApprovalStatus
<1>2. /\ pc \in [Caller -> Label] /\ ts \in [Caller -> 0..Now]
      /\ token \in [Caller -> Token \cup {None}] /\ lost \in [Caller -> BOOLEAN]
      /\ out \in [Caller -> Token \cup {None}]
      /\ beat \in [Caller -> [token : Token \cup {None}, ts : 0..Now]]
  BY Rows, TimeRange DEF Init, Label
<1>3. /\ ran \subseteq Token /\ answers \subseteq Token
      /\ resumes \in 0..Many /\ crashes \in 0..MaxCrashes
  BY CallAssumption DEF Init, Many
<1>4. TypeOK
  BY <1>1, <1>2, <1>3 DEF TypeOK
<1>5. RowOK /\ TokenOK
  BY Rows DEF Init, RowOK, TokenOK, Leasing
<1>. QED BY <1>4, <1>5 DEF Typed

\* What the locals of a caller are after its call is over.
LEMMA ReturnTyped ==
  ASSUME Typed, NEW c \in Caller, Return(c)
  PROVE  /\ pc' \in [Caller -> Label] /\ ts' \in [Caller -> 0..Now]
         /\ token' \in [Caller -> Token \cup {None}] /\ lost' \in [Caller -> BOOLEAN]
         /\ out' \in [Caller -> Token \cup {None}]
         /\ TokenOK'
<1>1. /\ pc' \in [Caller -> Label] /\ ts' \in [Caller -> 0..Now]
      /\ token' \in [Caller -> Token \cup {None}] /\ lost' \in [Caller -> BOOLEAN]
      /\ out' \in [Caller -> Token \cup {None}]
  BY TimeRange DEF Return, Goto, Typed, TypeOK, Label
<1>2. TokenOK'
  BY DEF Return, Goto, Typed, TypeOK, TokenOK, Leasing
<1>. QED BY <1>1, <1>2

\* A call that ends and leaves the rows and the history alone.
LEMMA ReturnQuiet ==
  ASSUME Typed, NEW c \in Caller, Return(c), crashes' \in 0..MaxCrashes,
         UNCHANGED <<policy, rowVars, beat, history>>
  PROVE  Typed'
BY ReturnTyped DEF Typed, TypeOK, RowOK, rowVars, history

LEMMA ReplayTyped ==
  ASSUME Typed, NEW c \in Caller, pc[c] \in {"claim", "latest"}, Replay(c),
         UNCHANGED <<policy, rowVars, beat, history, crashes>>
  PROVE  Typed'
<1>1. CASE Return(c)
  BY <1>1, ReturnQuiet DEF Typed, TypeOK
<1>2. CASE /\ effect.output # None
           /\ out' = [out EXCEPT ![c] = effect.output]
           /\ ts' = [ts EXCEPT ![c] = 0]
           /\ Goto(c, "resume")
           /\ UNCHANGED <<token, lost>>
  <2>1. TypeOK'
    BY <1>2, TimeRange DEF Goto, Typed, TypeOK, EffectRow, Label, rowVars, history
  <2>2. RowOK' /\ TokenOK'
    BY <1>2 DEF Goto, Typed, TypeOK, RowOK, TokenOK, Leasing, rowVars
  <2>. QED BY <2>1, <2>2 DEF Typed
<1>. QED BY <1>1, <1>2 DEF Replay

LEMMA LeaseTyped ==
  ASSUME Typed, NEW c \in Caller, pc[c] \in {"create", "reclaim"}, Lease(c),
         UNCHANGED <<policy, approval, lapsed, ts, lost, out, beat, history, crashes>>
  PROVE  Typed'
<1>1. PICK k \in Token : /\ effect' = Started(c, k)
                         /\ token' = [token EXCEPT ![c] = k]
                         /\ Goto(c, "claimed")
  BY DEF Lease
<1>2. /\ effect' \in EffectRow /\ effect'.status = "started" /\ effect'.token # None
  BY <1>1, StartedRow, CallAssumption DEF Typed, TypeOK
<1>3. TypeOK'
  BY <1>1, <1>2 DEF Goto, Typed, TypeOK, Label, history
<1>4. RowOK' /\ TokenOK'
  BY <1>1, <1>2 DEF Goto, Typed, TypeOK, RowOK, TokenOK, Leasing
<1>. QED BY <1>3, <1>4 DEF Typed

LEMMA CompletedRow ==
  ASSUME Typed, NEW k \in Token
  PROVE  /\ Completed(k) \in EffectRow
         /\ Completed(k).status = "completed" /\ Completed(k).token = None
         /\ Completed(k).expiresAt = 0 /\ Completed(k).output \in {k, None}
BY Rows DEF Completed

LEMMA ContinueTyped ==
  ASSUME Typed, NEW c \in Caller, Continue(c)
  PROVE  Typed'
<1>1. CASE Get(c) \/ ConsumeRead(c)
  <2>1. TypeOK'
    BY <1>1 DEF Get, ConsumeRead, Goto, Typed, TypeOK, Label, rowVars, history
  <2>2. RowOK' /\ TokenOK'
    BY <1>1 DEF Get, ConsumeRead, Goto, Typed, TypeOK, RowOK, TokenOK, Leasing, rowVars
  <2>. QED BY <2>1, <2>2 DEF Typed
<1>2. CASE ConsumeTake(c)
  <2>1. TypeOK'
    BY <1>2 DEF ConsumeTake, Goto, Typed, TypeOK, Label, ApprovalStatus, history
  <2>2. RowOK' /\ TokenOK'
    BY <1>2 DEF ConsumeTake, Goto, Typed, TypeOK, RowOK, TokenOK, Leasing
  <2>. QED BY <2>1, <2>2 DEF Typed
<1>3. ASSUME NEW verdict \in Verdict, Gates(c, verdict) PROVE Typed'
  <2>1. CASE Return(c)
    BY <1>3, <2>1, ReturnQuiet DEF Gates, Typed, TypeOK
  <2>2. CASE /\ Goto(c, "claim") \/ Goto(c, "resume")
             /\ ts' \in {ts, [ts EXCEPT ![c] = Now]}
             /\ UNCHANGED <<token, lost, out>>
    <3>1. TypeOK'
      BY <1>3, <2>2, TimeRange DEF Gates, Goto, Typed, TypeOK, Label, rowVars, history
    <3>2. RowOK' /\ TokenOK'
      BY <1>3, <2>2 DEF Gates, Goto, Typed, TypeOK, RowOK, TokenOK, Leasing, rowVars
    <3>. QED BY <3>1, <3>2 DEF Typed
  <2>. QED BY <1>3, <2>1, <2>2 DEF Gates
<1>4. CASE ClaimRead(c)
  <2>1. CASE Return(c)
    BY <1>4, <2>1, ReturnQuiet DEF ClaimRead, Typed, TypeOK
  <2>2. CASE Replay(c)
    BY <1>4, <2>2, ReplayTyped DEF ClaimRead
  <2>3. CASE (Goto(c, "create") \/ Goto(c, "reclaim")) /\ UNCHANGED <<ts, token, lost, out>>
    <3>1. TypeOK'
      BY <1>4, <2>3 DEF ClaimRead, Goto, Typed, TypeOK, Label, rowVars, history
    <3>2. RowOK' /\ TokenOK'
      BY <1>4, <2>3 DEF ClaimRead, Goto, Typed, TypeOK, RowOK, TokenOK, Leasing, rowVars
    <3>. QED BY <3>1, <3>2 DEF Typed
  <2>. QED BY <1>4, <2>1, <2>2, <2>3 DEF ClaimRead
<1>5. CASE ClaimCreate(c)
  <2>1. CASE Lease(c)
    BY <1>5, <2>1, LeaseTyped DEF ClaimCreate
  <2>2. CASE Goto(c, "claim") /\ UNCHANGED <<effect, token>>
    <3>1. TypeOK'
      BY <1>5, <2>2 DEF ClaimCreate, Goto, Typed, TypeOK, Label, history
    <3>2. RowOK' /\ TokenOK'
      BY <1>5, <2>2 DEF ClaimCreate, Goto, Typed, TypeOK, RowOK, TokenOK, Leasing
    <3>. QED BY <3>1, <3>2 DEF Typed
  <2>. QED BY <1>5, <2>1, <2>2 DEF ClaimCreate
<1>6. CASE ClaimReclaim(c)
  <2>1. CASE Lease(c) /\ UNCHANGED <<ts, lost, out>>
    BY <1>6, <2>1, LeaseTyped DEF ClaimReclaim
  <2>2. CASE Return(c) /\ UNCHANGED effect
    BY <1>6, <2>2, ReturnQuiet DEF ClaimReclaim, Typed, TypeOK, rowVars
  <2>3. CASE Goto(c, "latest") /\ UNCHANGED <<effect, ts, token, lost, out>>
    <3>1. TypeOK'
      BY <1>6, <2>3 DEF ClaimReclaim, Goto, Typed, TypeOK, Label, history
    <3>2. RowOK' /\ TokenOK'
      BY <1>6, <2>3 DEF ClaimReclaim, Goto, Typed, TypeOK, RowOK, TokenOK, Leasing
    <3>. QED BY <3>1, <3>2 DEF Typed
  <2>. QED BY <1>6, <2>1, <2>2, <2>3 DEF ClaimReclaim
<1>7. CASE ClaimLatest(c)
  BY <1>7, ReturnQuiet, ReplayTyped DEF ClaimLatest, Typed, TypeOK
<1>8. CASE Execute(c)
  <2>1. TypeOK'
    BY <1>8, TimeRange DEF Execute, Goto, Typed, TypeOK, TokenOK, Leasing, Label, rowVars
  <2>2. RowOK' /\ TokenOK'
    BY <1>8 DEF Execute, Goto, Typed, TypeOK, RowOK, TokenOK, Leasing, rowVars
  <2>. QED BY <2>1, <2>2 DEF Typed
<1>9. ASSUME NEW ok \in BOOLEAN, Finish(c, ok) PROVE Typed'
  <2>1. TypeOK'
    BY <1>9, TimeRange DEF Finish, Goto, Typed, TypeOK, Label, rowVars, history
  <2>2. RowOK' /\ TokenOK'
    BY <1>9 DEF Finish, Goto, Typed, TypeOK, RowOK, TokenOK, Leasing, rowVars
  <2>. QED BY <2>1, <2>2 DEF Typed
<1>10. CASE Complete(c)
  <2>1. token[c] \in Token
    BY <1>10 DEF Complete, Typed, TokenOK, Leasing
  <2>2. \/ effect' = effect
        \/ /\ effect' \in EffectRow /\ effect'.status = "completed"
           /\ effect'.token = None /\ effect'.expiresAt = 0
    BY <1>10, <2>1, CompletedRow DEF Complete
  <2>3. effect' \in EffectRow /\ (effect'.status = "started" <=> effect'.token # None)
    BY <2>2 DEF Typed, TypeOK
  <2>4. TypeOK'
    <3>1. UNCHANGED <<policy, approval, lapsed, token, lost, beat, ran, answers, resumes,
                      crashes>>
      BY <1>10 DEF Complete, history
    <3>2. pc' \in [Caller -> Label] /\ out' \in [Caller -> Token \cup {None}]
      BY <1>10, <2>1 DEF Complete, Goto, Typed, TypeOK, Label
    <3>3. ts' \in [Caller -> 0..Now]
      BY <1>10, TimeRange DEF Complete, Typed, TypeOK
    <3>. QED BY <2>3, <3>1, <3>2, <3>3 DEF Typed, TypeOK
  <2>5. RowOK' /\ TokenOK'
    BY <1>10, <2>2 DEF Complete, Goto, Typed, TypeOK, RowOK, TokenOK, Leasing
  <2>. QED BY <2>4, <2>5 DEF Typed
<1>11. CASE Fail(c)
  <2>1. \/ effect' = effect
        \/ /\ effect' \in EffectRow /\ effect'.status = "failed"
           /\ effect'.token = None /\ effect'.expiresAt = 0
    BY <1>11, Rows DEF Fail
  <2>2. /\ effect' \in EffectRow /\ (effect'.status = "started" <=> effect'.token # None)
        /\ RowOK'
    BY <2>1 DEF Typed, TypeOK, RowOK
  <2>. QED BY <1>11, <2>2, ReturnTyped DEF Fail, Typed, TypeOK, history
<1>12. CASE Resume(c)
  <2>1. answers' \subseteq Token /\ resumes' \in 0..Many
    BY <1>12 DEF Resume, Typed, TypeOK, Many
  <2>. QED BY <1>12, <2>1, ReturnTyped DEF Resume, Typed, TypeOK, RowOK, rowVars
<1>. QED
  BY <1>1, <1>2, <1>3, <1>4, <1>5, <1>6, <1>7, <1>8, <1>9, <1>10, <1>11, <1>12
  DEF Continue

LEMMA BeatTyped ==
  ASSUME Typed, NEW c \in Caller, BeatSend(c) \/ BeatLand(c)
  PROVE  Typed'
<1>1. CASE BeatSend(c)
  <2>1. TypeOK'
    BY <1>1, TimeRange DEF BeatSend, Typed, TypeOK, rowVars, localVars, history
  <2>. QED
    BY <1>1, <2>1 DEF BeatSend, Typed, RowOK, TokenOK, rowVars, localVars
<1>2. CASE BeatLand(c)
  <2>1. beat[c].ts + LeaseTtl \in Time
    BY TimeRange DEF Typed, TypeOK
  <2>2. \/ effect' = effect
        \/ /\ effect' \in EffectRow /\ effect.status = "started"
           /\ effect'.status = effect.status /\ effect'.token = effect.token
    BY <1>2, <2>1, AgedRow DEF BeatLand, ActiveLease, Typed, TypeOK
  <2>3. effect' \in EffectRow /\ (effect'.status = "started" <=> effect'.token # None)
        /\ RowOK'
    BY <2>2 DEF Typed, TypeOK, RowOK
  <2>4. TypeOK'
    BY <1>2, <2>3, Rows DEF BeatLand, Typed, TypeOK, history
  <2>5. TokenOK'
    BY <1>2 DEF BeatLand, Typed, TokenOK
  <2>. QED BY <2>3, <2>4, <2>5 DEF Typed
<1>. QED BY <1>1, <1>2

\* When time passes, a row that is not started stays as it is.
LEMMA TickEffect ==
  ASSUME Typed, Tick
  PROVE  /\ effect' \in EffectRow /\ effect'.status = effect.status
         /\ effect'.token = effect.token /\ effect'.output = effect.output
         /\ effect'.expiresAt = Older(effect.expiresAt)
         /\ effect.status # "started" => effect' = effect
<1>1. Older(effect.expiresAt) \in Time /\ effect \in EffectRow
  BY TimeRange DEF Typed, TypeOK, EffectRow
<1>2. effect' = [effect EXCEPT !.expiresAt = Older(effect.expiresAt)]
  BY DEF Tick
<1>. QED BY <1>1, <1>2, AgedRow DEF Typed, RowOK, Older

LEMMA TickTyped ==
  ASSUME Typed, Tick
  PROVE  Typed'
<1>1. beat' \in [Caller -> [token : Token \cup {None}, ts : 0..Now]]
  BY TimeRange DEF Tick, Typed, TypeOK
<1>2. ts' \in [Caller -> 0..Now]
  BY TimeRange DEF Tick, Typed, TypeOK
<1>3. TypeOK'
  BY <1>1, <1>2, TickEffect DEF Tick, Typed, TypeOK, history
<1>4. RowOK'
  BY TickEffect DEF Typed, RowOK
<1>5. TokenOK'
  BY DEF Tick, Typed, TokenOK
<1>. QED BY <1>3, <1>4, <1>5 DEF Typed

LEMMA TypedNext == Typed /\ [Next]_vars => Typed'
<1>. SUFFICES ASSUME Typed, [Next]_vars PROVE Typed'
  OBVIOUS
<1>1. CASE Human
  BY <1>1 DEF Human, Park, Grant, Deny, Lapse, Typed, TypeOK, RowOK, TokenOK,
              ApprovalStatus, localVars, history
<1>2. ASSUME NEW c \in Caller, Crash(c) PROVE Typed'
  <2>1. crashes' \in 0..MaxCrashes
    BY <1>2, CallAssumption DEF Crash, Typed, TypeOK
  <2>. QED BY <1>2, <2>1, ReturnQuiet DEF Crash
<1>3. CASE UNCHANGED vars
  BY <1>3 DEF vars, Typed, TypeOK, RowOK, TokenOK
<1>. QED
  BY <1>1, <1>2, <1>3, ContinueTyped, BeatTyped, TickTyped DEF Next

\* Every statement writes rows of the schema: a started effect has a lease and no other
\* effect has one.
THEOREM CallTyping == Spec => []TypeOK
<1>1. Typed => TypeOK
  BY DEF Typed
<1>. QED
  BY <1>1, TypedInit, TypedNext, PTL DEF Spec

----------------------------------------------------------------------------
(* What a step may do to the ledger.                                       *)

\* The steps that change the effect row, and the others.
LEMMA EffectStep ==
  ASSUME Typed, [Next]_vars
  PROVE  \/ effect' = effect
         \/ Tick
         \/ \E c \in Caller : ClaimCreate(c) /\ effect.status = "absent" /\ Lease(c)
         \/ \E c \in Caller : ClaimReclaim(c) /\ StillExpired(c) /\ Lease(c)
         \/ \E c \in Caller :
              /\ BeatLand(c) /\ ActiveLease(beat[c].token, beat[c].ts)
              /\ effect' = [effect EXCEPT !.expiresAt = beat[c].ts + LeaseTtl]
         \/ \E c \in Caller :
              /\ Complete(c) /\ ActiveLease(token[c], ts[c])
              /\ effect' = Completed(token[c])
         \/ \E c \in Caller :
              /\ Fail(c) /\ ActiveLease(token[c], ts[c])
              /\ effect' = Ended("failed", None)
<1>1. ASSUME NEW c \in Caller, Continue(c)
      PROVE  \/ effect' = effect
             \/ ClaimCreate(c) /\ effect.status = "absent" /\ Lease(c)
             \/ ClaimReclaim(c) /\ StillExpired(c) /\ Lease(c)
             \/ /\ Complete(c) /\ ActiveLease(token[c], ts[c])
                /\ effect' = Completed(token[c])
             \/ /\ Fail(c) /\ ActiveLease(token[c], ts[c])
                /\ effect' = Ended("failed", None)
  <2>1. CASE ClaimCreate(c)
    BY <2>1 DEF ClaimCreate
  <2>2. CASE ClaimReclaim(c)
    BY <2>2 DEF ClaimReclaim
  <2>3. CASE Complete(c)
    BY <2>3 DEF Complete
  <2>4. CASE Fail(c)
    BY <2>4 DEF Fail
  <2>. QED
    BY <1>1, <2>1, <2>2, <2>3, <2>4
    DEF Continue, Get, ConsumeRead, ConsumeTake, Gates, ClaimRead, ClaimLatest, Execute,
        Finish, Resume, rowVars
<1>2. ASSUME NEW c \in Caller, BeatSend(c) \/ BeatLand(c) \/ Crash(c)
      PROVE  \/ effect' = effect
             \/ /\ BeatLand(c) /\ ActiveLease(beat[c].token, beat[c].ts)
                /\ effect' = [effect EXCEPT !.expiresAt = beat[c].ts + LeaseTtl]
  BY <1>2 DEF BeatSend, BeatLand, Crash, rowVars
<1>3. ASSUME Human \/ UNCHANGED vars PROVE effect' = effect
  BY <1>3 DEF Human, Park, Grant, Deny, Lapse, vars
<1>. QED
  BY <1>1, <1>2, <1>3 DEF Next

\* A completed or failed effect is left as it is.
EndedStep == effect.status \in {"completed", "failed"} => effect' = effect

\* The effect is ended under the lease of the caller that ends it.
HolderStep ==
  effect.status = "started" /\ effect'.status # "started"
    => \E c \in Caller : pc[c] \in {"complete", "fail"} /\ token[c] = effect.token

LEMMA LedgerStep ==
  ASSUME Typed, [Next]_vars
  PROVE  EndedStep /\ HolderStep
<1>1. CASE effect' = effect
  BY <1>1 DEF EndedStep, HolderStep
<1>2. CASE Tick
  BY <1>2, TickEffect DEF EndedStep, HolderStep
<1>3. ASSUME NEW c \in Caller, Lease(c), effect.status = "absent" \/ StillExpired(c)
      PROVE  EndedStep /\ HolderStep
  <2>1. effect'.status = "started"
    BY <1>3, StartedRow DEF Lease, Typed, TypeOK
  <2>. QED BY <1>3, <2>1 DEF StillExpired, EndedStep, HolderStep
<1>4. ASSUME NEW c \in Caller, ActiveLease(beat[c].token, beat[c].ts),
             effect' = [effect EXCEPT !.expiresAt = beat[c].ts + LeaseTtl]
      PROVE  EndedStep /\ HolderStep
  <2>1. effect'.status = effect.status /\ effect.status = "started"
    BY <1>4 DEF ActiveLease, Typed, TypeOK, EffectRow
  <2>. QED BY <2>1 DEF EndedStep, HolderStep
<1>5. ASSUME NEW c \in Caller, Complete(c) \/ Fail(c), ActiveLease(token[c], ts[c])
      PROVE  EndedStep /\ HolderStep
  BY <1>5 DEF Complete, Fail, ActiveLease, EndedStep, HolderStep
<1>. QED
  BY <1>1, <1>2, <1>3, <1>4, <1>5, EffectStep

\* Once the ledger says completed or failed, no zombie, late heartbeat, reclaim or retry
\* changes the row again.
THEOREM EffectsAreFinal == Spec => EndedIsFinal
<1>1. Typed /\ [Next]_vars => [EndedStep]_vars
  BY LedgerStep
<1>2. Spec => [][EndedStep]_vars
  BY <1>1, TypedInit, TypedNext, PTL DEF Spec
<1>. QED
  BY <1>2 DEF EndedIsFinal, EndedStep

\* The caller whose lease was reclaimed ends nothing: complete and fail present its
\* token, and the row has another one.
THEOREM HolderEndsTheEffect == Spec => OnlyHolderEnds
<1>1. Typed /\ [Next]_vars => [HolderStep]_vars
  BY LedgerStep
<1>2. Spec => [][HolderStep]_vars
  BY <1>1, TypedInit, TypedNext, PTL DEF Spec
<1>. QED
  BY <1>2 DEF OnlyHolderEnds, HolderStep

----------------------------------------------------------------------------
(* Consent.                                                                *)

\* No caller has passed the consume of an approval that is not consumed.
NotYet ==
  /\ ran = {} /\ effect = NoEffect /\ resumes = 0
  /\ \A c \in Caller : pc[c] \in {"idle", "consume", "take"}

ConsentInv == Typed /\ (approval = "consumed" \/ NotYet)

LEMMA ConsentNext == ConsentInv /\ [Next]_vars => ConsentInv'
<1>. SUFFICES ASSUME ConsentInv, [Next]_vars PROVE ConsentInv'
  OBVIOUS
<1>0. Typed /\ Typed'
  BY TypedNext DEF ConsentInv
<1>1. CASE approval = "consumed"
  <2>1. approval' = approval
    BY <1>1 DEF Next, Human, Park, Grant, Deny, Lapse, WherePending, Continue, Get,
      ConsumeRead, ConsumeTake, WhereApproved, Gates, ClaimRead, ClaimCreate, ClaimReclaim,
      ClaimLatest, Execute, Finish, Complete, Fail, Resume, BeatSend, BeatLand, Crash, Tick,
      vars, rowVars
  <2>. QED BY <1>0, <1>1, <2>1 DEF ConsentInv
<1>2. CASE NotYet
  <2>1. ASSUME NEW c \in Caller, Continue(c) PROVE approval' = "consumed" \/ NotYet'
    <3>1. Get(c) \/ ConsumeRead(c) \/ ConsumeTake(c)
      BY <1>2, <2>1 DEF NotYet, Continue, Gates, ClaimRead, ClaimCreate, ClaimReclaim,
        ClaimLatest, Execute, Finish, Complete, Fail, Resume
    <3>. QED
      BY <1>0, <1>2, <3>1
      DEF Get, Resumable, ConsumeRead, ConsumeTake, Goto, NotYet, Typed, TypeOK, rowVars,
          history
  <2>2. ASSUME NEW c \in Caller, BeatSend(c) \/ BeatLand(c) PROVE NotYet'
    BY <1>2, <2>2, Rows
    DEF BeatSend, BeatLand, ActiveLease, NotYet, rowVars, localVars, history
  <2>3. ASSUME NEW c \in Caller, Crash(c) PROVE NotYet'
    BY <1>0, <1>2, <2>3
    DEF Crash, Return, Goto, NotYet, Typed, TypeOK, rowVars, history
  <2>4. CASE Tick
    <3>1. effect' = effect
      BY <1>0, <1>2, <2>4, TickEffect, Rows DEF NotYet
    <3>2. UNCHANGED <<pc, ran, resumes>>
      BY <2>4 DEF Tick, history
    <3>. QED BY <1>0, <1>2, <3>1, <3>2 DEF NotYet, ConsentInv
  <2>5. CASE Human \/ UNCHANGED vars
    <3>1. UNCHANGED <<effect, pc, ran, resumes>>
      BY <2>5 DEF Human, Park, Grant, Deny, Lapse, vars, localVars, history
    <3>. QED BY <1>0, <1>2, <3>1 DEF NotYet, ConsentInv
  <2>. QED
    BY <1>0, <2>1, <2>2, <2>3, <2>4, <2>5 DEF Next, ConsentInv
<1>. QED BY <1>1, <1>2 DEF ConsentInv

\* Neither the tool nor the loop runs before a human granted the approval and a caller
\* consumed it, and no later decision takes the consent away.
THEOREM CallsAreConsented == Spec => []OnlyConsented
<1>1. Init => ConsentInv
  BY TypedInit DEF Init, ConsentInv, NotYet
<1>2. ConsentInv => OnlyConsented
  BY DEF ConsentInv, NotYet, OnlyConsented
<1>. QED
  BY <1>1, <1>2, ConsentNext, PTL DEF Spec

----------------------------------------------------------------------------
(* How often the tool is executed.                                         *)

\* The tokens that were given to an execution or to a caller about to begin one.
Used == {k \in Token : k \in ran \/ \E c \in Caller : token[c] = k}

\* A claim gives a fresh token to one caller; every other step uses the tokens there are.
LeaseStep(c, k) ==
  /\ Fresh(k)
  /\ \/ pc[c] = "create" /\ effect.status = "absent"
     \/ pc[c] = "reclaim" /\ StillExpired(c)
  /\ effect' = Started(c, k)
  /\ token' = [token EXCEPT ![c] = k]
  /\ Goto(c, "claimed")
  /\ UNCHANGED <<policy, ts, out, beat, ran, answers>>

LEMMA ClaimStep ==
  ASSUME Typed, NEW c \in Caller,
         \/ ClaimCreate(c) /\ effect.status = "absent"
         \/ ClaimReclaim(c) /\ StillExpired(c)
  PROVE  \/ \E k \in Token : LeaseStep(c, k)
         \/ Return(c) /\ UNCHANGED <<policy, rowVars, beat, history, crashes>>
<1>1. CASE Lease(c)
  <2>1. PICK k \in Token : /\ Fresh(k) /\ effect' = Started(c, k)
                           /\ token' = [token EXCEPT ![c] = k] /\ Goto(c, "claimed")
    BY <1>1 DEF Lease
  <2>2. UNCHANGED <<policy, ts, out, beat, ran, answers>>
    BY <1>1, <2>1 DEF ClaimCreate, ClaimReclaim, Return, Goto, history, Typed, TypeOK
  <2>. QED
    BY <2>1, <2>2 DEF LeaseStep, ClaimCreate, ClaimReclaim
<1>2. CASE ~ Lease(c)
  BY <1>2 DEF ClaimCreate, ClaimReclaim, rowVars
<1>. QED BY <1>1, <1>2

LEMMA UsedStep ==
  ASSUME Typed, [Next]_vars
  PROVE  \/ \E c \in Caller, k \in Token : LeaseStep(c, k)
         \/ /\ policy' = policy
            /\ Used' \subseteq Used
            /\ effect'.status = "absent" => effect.status = "absent"
            /\ \A c \in Caller : pc'[c] = "reclaim" => pc[c] = "reclaim" \/ policy.reclaim
<1>0. policy' = policy
  BY DEF Next, Human, Park, Grant, Deny, Lapse, Continue, Get, ConsumeRead, ConsumeTake,
    Gates, ClaimRead, ClaimCreate, ClaimReclaim, ClaimLatest, Execute, Finish, Complete,
    Fail, Resume, BeatSend, BeatLand, Crash, Tick, vars
<1>1. CASE \E c \in Caller : \/ ClaimCreate(c) /\ effect.status = "absent"
                             \/ ClaimReclaim(c) /\ StillExpired(c)
  <2>1. PICK c \in Caller : \/ ClaimCreate(c) /\ effect.status = "absent"
                            \/ ClaimReclaim(c) /\ StillExpired(c)
    BY <1>1
  <2>2. CASE Return(c) /\ UNCHANGED <<policy, rowVars, beat, history, crashes>>
    <3>1. Used' \subseteq Used
      BY <2>2, CallAssumption DEF Return, Used, history, Typed, TypeOK
    <3>2. \A d \in Caller : pc'[d] = "reclaim" => pc[d] = "reclaim"
      BY <2>2 DEF Return, Goto, Typed, TypeOK
    <3>. QED BY <1>0, <2>2, <3>1, <3>2 DEF rowVars
  <2>. QED BY <2>1, <2>2, ClaimStep
<1>2. CASE ~ \E c \in Caller : \/ ClaimCreate(c) /\ effect.status = "absent"
                               \/ ClaimReclaim(c) /\ StillExpired(c)
  <2>1. effect'.status = "absent" => effect.status = "absent"
    <3>1. CASE Tick
      BY <3>1, TickEffect
    <3>2. CASE \E c \in Caller : Complete(c) /\ effect' = Completed(token[c])
      BY <3>2, CompletedRow DEF Complete, Typed, TokenOK, Leasing
    <3>3. CASE effect' = Ended("failed", None)
      BY <3>3, Rows
    <3>4. ASSUME NEW c \in Caller,
                 effect' = [effect EXCEPT !.expiresAt = beat[c].ts + LeaseTtl]
          PROVE  effect'.status = effect.status
      BY <3>4 DEF Typed, TypeOK, EffectRow
    <3>. QED BY <1>2, <3>1, <3>2, <3>3, <3>4, EffectStep
  <2>2. Used' \subseteq Used
    <3>1. ASSUME NEW c \in Caller, Return(c), ran' = ran PROVE Used' \subseteq Used
      BY <3>1, CallAssumption DEF Return, Used, Typed, TypeOK
    <3>2. ASSUME token' = token, ran' = ran PROVE Used' \subseteq Used
      BY <3>2 DEF Used
    <3>3. ASSUME NEW c \in Caller, Execute(c) PROVE Used' \subseteq Used
      BY <3>3 DEF Execute, Used
    <3>4. ASSUME NEW c \in Caller, Continue(c) PROVE Used' \subseteq Used
      BY <1>2, <3>1, <3>2, <3>3, <3>4
      DEF Continue, Get, ConsumeRead, ConsumeTake, Gates, ClaimRead, Replay, ClaimCreate,
          ClaimReclaim, ClaimLatest, Finish, Complete, Fail, Resume, history
    <3>. QED
      BY <3>1, <3>2, <3>4
      DEF Next, Human, Park, Grant, Deny, Lapse, BeatSend, BeatLand, Crash, Tick, vars,
          localVars, history
  <2>3. \A c \in Caller : pc'[c] = "reclaim" => pc[c] = "reclaim" \/ policy.reclaim
    <3>1. ASSUME NEW c \in Caller, Return(c), NEW d \in Caller, pc'[d] = "reclaim"
          PROVE  pc[d] = "reclaim"
      BY <3>1 DEF Return, Goto, Typed, TypeOK
    <3>2. ASSUME NEW c \in Caller, Continue(c), NEW d \in Caller, pc'[d] = "reclaim"
          PROVE  pc[d] = "reclaim" \/ policy.reclaim
      BY <1>2, <3>1, <3>2
      DEF Continue, Get, ConsumeRead, ConsumeTake, Gates, ClaimRead, MayReclaim, Replay,
          ClaimCreate, ClaimReclaim, ClaimLatest, Execute, Finish, Complete, Fail, Resume,
          Goto, Typed, TypeOK
    <3>3. ASSUME NEW c \in Caller, Crash(c), NEW d \in Caller, pc'[d] = "reclaim"
          PROVE  pc[d] = "reclaim"
      BY <3>1, <3>3 DEF Crash
    <3>4. ASSUME Human \/ Tick \/ UNCHANGED vars PROVE pc' = pc
      BY <3>4 DEF Human, Park, Grant, Deny, Lapse, Tick, vars, localVars
    <3>5. ASSUME NEW c \in Caller, BeatSend(c) \/ BeatLand(c) PROVE pc' = pc
      BY <3>5 DEF BeatSend, BeatLand, localVars
    <3>. QED BY <3>2, <3>3, <3>4, <3>5 DEF Next
  <2>. QED BY <1>0, <2>1, <2>2, <2>3
<1>. QED BY <1>1, <1>2

\* No token is used before the effect row is there, and only the policy that reclaims
\* expired leases gives a second one.
OnceInv ==
  /\ Typed
  /\ effect.status = "absent" => Used = {}
  /\ ~ policy.reclaim => /\ \A j, k \in Used : j = k
                         /\ \A c \in Caller : pc[c] # "reclaim"

LEMMA OnceNext == OnceInv /\ [Next]_vars => OnceInv'
<1>. SUFFICES ASSUME OnceInv, [Next]_vars PROVE OnceInv'
  OBVIOUS
<1>0. Typed /\ Typed'
  BY TypedNext DEF OnceInv
<1>1. ASSUME NEW c \in Caller, NEW k \in Token, LeaseStep(c, k) PROVE OnceInv'
  <2>1. effect'.status = "started"
    BY <1>0, <1>1, StartedRow DEF LeaseStep, Typed, TypeOK
  <2>2. policy' = policy
    BY <1>1 DEF LeaseStep
  <2>3. CASE policy.reclaim
    BY <1>0, <2>1, <2>2, <2>3 DEF OnceInv
  <2>4. CASE ~ policy.reclaim
    <3>1. pc[c] = "create" /\ effect.status = "absent"
      BY <1>1, <2>4 DEF LeaseStep, OnceInv
    <3>2. Used = {}
      BY <3>1 DEF OnceInv
    <3>3. Used' \subseteq {k}
      BY <1>0, <1>1, <3>2 DEF LeaseStep, Used, Typed, TypeOK
    <3>4. \A d \in Caller : pc'[d] # "reclaim"
      BY <1>0, <1>1, <2>4 DEF LeaseStep, Goto, OnceInv, Typed, TypeOK
    <3>. QED BY <1>0, <2>1, <3>3, <3>4 DEF OnceInv
  <2>. QED BY <2>3, <2>4
<1>2. CASE /\ policy' = policy /\ Used' \subseteq Used
           /\ effect'.status = "absent" => effect.status = "absent"
           /\ \A c \in Caller : pc'[c] = "reclaim" => pc[c] = "reclaim" \/ policy.reclaim
  BY <1>0, <1>2 DEF OnceInv
<1>. QED BY <1>0, <1>1, <1>2, UsedStep

\* A tool that is not idempotent runs once at most, whatever retries, crashes, lost
\* heartbeats and expired leases there are.
THEOREM ExecutedOnce == Spec => []AtMostOnce
<1>1. Init => OnceInv
  BY TypedInit, CallAssumption DEF Init, OnceInv, Used
<1>2. OnceInv => AtMostOnce
  BY DEF OnceInv, Typed, TypeOK, Used, AtMostOnce
<1>. QED
  BY <1>1, <1>2, OnceNext, PTL DEF Spec

----------------------------------------------------------------------------
(* The answers.                                                            *)

\* The outputs that a loop was, or is about to be, resumed with.
Given == answers \cup ({out[c] : c \in Caller} \ {None})

\* They are all the output of the execution that the ledger recorded.
AnswerInv ==
  /\ Typed
  /\ \A j, k \in Given : j = k
  /\ \A j \in Given : effect.status = "completed" /\ effect.output \in {j, None}

LEMMA GivenStep ==
  ASSUME Typed, [Next]_vars
  PROVE  \/ Given' \subseteq Given
         \/ /\ effect.status = "completed" /\ effect.output # None
            /\ Given' \subseteq Given \cup {effect.output}
         \/ \E c \in Caller :
              /\ pc[c] = "complete" /\ effect.status = "started"
              /\ effect' = Completed(token[c])
              /\ Given' \subseteq Given \cup {token[c]}
<1>1. ASSUME NEW c \in Caller, Return(c), answers' \subseteq Given
      PROVE  Given' \subseteq Given
  BY <1>1 DEF Return, Given, Typed, TypeOK
<1>2. ASSUME out' = out, answers' = answers PROVE Given' \subseteq Given
  BY <1>2 DEF Given
<1>3. ASSUME NEW c \in Caller, NEW k \in Token, out' = [out EXCEPT ![c] = k],
             answers' = answers
      PROVE  Given' \subseteq Given \cup {k}
  BY <1>3 DEF Given, Typed, TypeOK
<1>4. ASSUME NEW c \in Caller, Replay(c), effect.status = "completed", answers' = answers
      PROVE  \/ Given' \subseteq Given
             \/ effect.output # None /\ Given' \subseteq Given \cup {effect.output}
  <2>1. effect.output \in Token \cup {None}
    BY DEF Typed, TypeOK, EffectRow
  <2>. QED
    BY <1>1, <1>3, <1>4, <2>1 DEF Replay, Given
<1>5. ASSUME NEW c \in Caller, Continue(c)
      PROVE  \/ Given' \subseteq Given
             \/ /\ effect.status = "completed" /\ effect.output # None
                /\ Given' \subseteq Given \cup {effect.output}
             \/ /\ pc[c] = "complete" /\ effect.status = "started"
                /\ effect' = Completed(token[c])
                /\ Given' \subseteq Given \cup {token[c]}
  <2>1. CASE ClaimRead(c)
    BY <1>1, <1>2, <1>4, <2>1 DEF ClaimRead, history, Given
  <2>2. CASE ClaimLatest(c)
    BY <1>1, <1>4, <2>2 DEF ClaimLatest, history, Given
  <2>3. CASE Complete(c)
    <3>1. token[c] \in Token
      BY <2>3 DEF Complete, Typed, TokenOK, Leasing
    <3>. QED
      BY <1>2, <1>3, <2>3, <3>1 DEF Complete, ActiveLease, history
  <2>4. CASE Resume(c)
    <3>1. answers' \subseteq Given
      BY <2>4 DEF Resume, Given
    <3>. QED BY <1>1, <2>4, <3>1 DEF Resume
  <2>5. CASE Gates(c, "stop") \/ Fail(c)
    BY <1>1, <2>5 DEF Gates, Fail, history, Given
  <2>6. CASE ClaimReclaim(c)
    BY <1>1, <1>2, <2>6 DEF ClaimReclaim, Lease, history, Given
  <2>7. ASSUME NEW verdict \in Verdict, Gates(c, verdict)
        PROVE  Given' \subseteq Given
    BY <1>1, <1>2, <2>7 DEF Gates, history, Given
  <2>. QED
    BY <1>2, <1>5, <2>1, <2>2, <2>3, <2>4, <2>5, <2>6, <2>7
    DEF Continue, Get, ConsumeRead, ConsumeTake, ClaimCreate, Execute, Finish, history
<1>6. ASSUME NEW c \in Caller, BeatSend(c) \/ BeatLand(c) \/ Crash(c)
      PROVE  Given' \subseteq Given
  BY <1>1, <1>2, <1>6 DEF BeatSend, BeatLand, Crash, localVars, history, Given
<1>7. ASSUME Human \/ Tick \/ UNCHANGED vars PROVE Given' \subseteq Given
  BY <1>2, <1>7 DEF Human, Park, Grant, Deny, Lapse, Tick, vars, localVars, history
<1>. QED
  BY <1>5, <1>6, <1>7 DEF Next

LEMMA AnswerNext == AnswerInv /\ [Next]_vars => AnswerInv'
<1>. SUFFICES ASSUME AnswerInv, [Next]_vars PROVE AnswerInv'
  OBVIOUS
<1>0. Typed /\ Typed' /\ EndedStep
  BY TypedNext, LedgerStep DEF AnswerInv
<1>1. ASSUME effect.status = "completed", NEW k \in {j \in Token : j = effect.output},
             Given' \subseteq Given \cup {k}
      PROVE  AnswerInv'
  BY <1>0, <1>1, CallAssumption DEF AnswerInv, EndedStep
<1>2. CASE Given' \subseteq Given
  <2>1. CASE Given = {}
    BY <1>0, <1>2, <2>1 DEF AnswerInv
  <2>2. CASE Given # {}
    BY <1>0, <1>2, <2>2 DEF AnswerInv, EndedStep
  <2>. QED BY <2>1, <2>2
<1>3. CASE /\ effect.status = "completed" /\ effect.output # None
           /\ Given' \subseteq Given \cup {effect.output}
  BY <1>0, <1>1, <1>3 DEF Typed, TypeOK, EffectRow
<1>4. ASSUME NEW c \in Caller, pc[c] = "complete", effect.status = "started",
             effect' = Completed(token[c]), Given' \subseteq Given \cup {token[c]}
      PROVE  AnswerInv'
  <2>1. token[c] \in Token
    BY <1>0, <1>4 DEF Typed, TokenOK, Leasing
  <2>2. Given = {}
    BY <1>4 DEF AnswerInv
  <2>3. effect'.status = "completed" /\ effect'.output \in {token[c], None}
    BY <1>0, <1>4, <2>1, CompletedRow
  <2>. QED BY <1>0, <1>4, <2>2, <2>3 DEF AnswerInv
<1>. QED BY <1>0, <1>2, <1>3, <1>4, GivenStep

\* However often a call is executed, retried and replayed, the loops that are resumed
\* with an output are given one and the same, that of the recorded execution.
THEOREM LoopsGetOneAnswer == Spec => []OneAnswer
<1>1. Init => AnswerInv
  BY TypedInit DEF Init, AnswerInv, Given
<1>2. AnswerInv => OneAnswer
  BY DEF AnswerInv, Given, OneAnswer
<1>. QED
  BY <1>1, <1>2, AnswerNext, PTL DEF Spec

----------------------------------------------------------------------------
(* Where an execution begins.                                              *)

\* Two callers never have one token.
DistinctOK ==
  \A c, d \in Caller : c # d /\ token[c] # None => token[c] # token[d]

\* A caller that is about to execute has sent no heartbeat under its new token.
UnbeatenOK ==
  \A c, d \in Caller : pc[c] = "claimed" => beat[d].token # token[c]

\* It has the lease it was given, in full.
StartOK ==
  \A c \in Caller : pc[c] = "claimed" =>
    /\ effect.status = "started" /\ effect.token = token[c]
    /\ effect.expiresAt >= ts[c] + LeaseTtl

StartInv == Typed /\ DistinctOK /\ UnbeatenOK /\ StartOK

\* A caller that was about to execute and still is.
Waits(c) == pc[c] = "claimed" /\ token'[c] = token[c] /\ ts'[c] = ts[c]

\* Every step that gives no lease leaves the others' tokens and labels alone.
LEMMA WaitStep ==
  ASSUME Typed, [Next]_vars
  PROVE  \/ \E c \in Caller, k \in Token : LeaseStep(c, k)
         \/ Tick
         \/ /\ \A c \in Caller : token'[c] \in {token[c], None}
            /\ \A c \in Caller : pc'[c] = "claimed" => Waits(c)
            /\ \A c \in Caller : \/ beat'[c].token \in {beat[c].token, None}
                                 \/ /\ Beating(c) /\ beat'[c].token = token[c]
                                    /\ token' = token /\ pc' = pc
<1>. DEFINE Quiet == /\ \A c \in Caller : token'[c] \in {token[c], None}
                     /\ \A c \in Caller : pc'[c] = "claimed" => Waits(c)
<1>1. ASSUME NEW c \in Caller, Return(c) PROVE Quiet
  BY <1>1 DEF Return, Goto, Waits, Typed, TypeOK
<1>2. ASSUME NEW c \in Caller, Replay(c) PROVE Quiet
  BY <1>1, <1>2 DEF Replay, Goto, Waits, Typed, TypeOK
<1>3. ASSUME NEW c \in Caller, NEW label \in Label \ {"claimed"}, Goto(c, label),
             token' = token, \A d \in Caller : d # c => ts'[d] = ts[d]
      PROVE  Quiet
  BY <1>3 DEF Goto, Waits, Typed, TypeOK
<1>4. ASSUME pc' = pc, token' = token, ts' = ts PROVE Quiet
  BY <1>4 DEF Waits
<1>5. ASSUME NEW c \in Caller, Continue(c)
      PROVE  (\E k \in Token : LeaseStep(c, k)) \/ (Quiet /\ beat' = beat)
  <2>0. beat' = beat
    BY <1>5 DEF Continue, Get, ConsumeRead, ConsumeTake, Gates, ClaimRead, ClaimCreate,
      ClaimReclaim, ClaimLatest, Execute, Finish, Complete, Fail, Resume
  <2>1. CASE Get(c) \/ ConsumeRead(c) \/ ConsumeTake(c)
    <3>1. PICK label \in Label \ {"claimed"} : Goto(c, label)
      BY <2>1 DEF Get, ConsumeRead, ConsumeTake, Label
    <3>. QED BY <1>3, <2>0, <2>1, <3>1 DEF Get, ConsumeRead, ConsumeTake
  <2>2. ASSUME NEW verdict \in Verdict, Gates(c, verdict) PROVE Quiet
    <3>1. CASE Return(c)
      BY <1>1, <3>1
    <3>2. CASE ~ Return(c)
      <4>1. PICK label \in Label \ {"claimed"} : Goto(c, label)
        BY <2>2, <3>2 DEF Gates, Label
      <4>. QED BY <1>3, <2>2, <3>2, <4>1 DEF Gates, Typed, TypeOK
    <3>. QED BY <3>1, <3>2
  <2>3. CASE ClaimRead(c)
    BY <1>1, <1>2, <1>3, <2>0, <2>3 DEF ClaimRead, Label
  <2>4. CASE ClaimCreate(c)
    <3>1. CASE effect.status = "absent"
      <4>1. CASE Return(c)
        BY <1>1, <2>0, <4>1
      <4>. QED BY <2>4, <3>1, <4>1, ClaimStep
    <3>2. CASE effect.status # "absent"
      BY <1>3, <2>0, <2>4, <3>2 DEF ClaimCreate, Label
    <3>. QED BY <3>1, <3>2
  <2>5. CASE ClaimReclaim(c)
    <3>1. CASE StillExpired(c)
      <4>1. CASE Return(c)
        BY <1>1, <2>0, <4>1
      <4>. QED BY <2>5, <3>1, <4>1, ClaimStep
    <3>2. CASE ~ StillExpired(c)
      BY <1>3, <2>0, <2>5, <3>2 DEF ClaimReclaim, Label
    <3>. QED BY <3>1, <3>2
  <2>6. CASE ClaimLatest(c)
    BY <1>1, <1>2, <2>0, <2>6 DEF ClaimLatest
  <2>7. CASE Execute(c)
    BY <1>3, <2>0, <2>7 DEF Execute, Label, Typed, TypeOK
  <2>8. ASSUME NEW ok \in BOOLEAN, Finish(c, ok) PROVE Quiet
    <3>1. PICK label \in Label \ {"claimed"} : Goto(c, label)
      BY <2>8 DEF Finish, Label
    <3>. QED BY <1>3, <2>8, <3>1 DEF Finish, Typed, TypeOK
  <2>9. CASE Complete(c)
    <3>1. PICK label \in Label \ {"claimed"} : Goto(c, label)
      BY <2>9 DEF Complete, Label
    <3>. QED BY <1>3, <2>0, <2>9, <3>1 DEF Complete, Typed, TypeOK
  <2>10. CASE Fail(c) \/ Resume(c)
    BY <1>1, <2>0, <2>10 DEF Fail, Resume
  <2>. QED
    BY <1>5, <2>0, <2>1, <2>2, <2>3, <2>4, <2>5, <2>6, <2>7, <2>8, <2>9, <2>10
    DEF Continue
<1>6. ASSUME NEW c \in Caller, BeatSend(c)
      PROVE  /\ Quiet /\ token' = token /\ pc' = pc /\ Beating(c)
             /\ beat' = [beat EXCEPT ![c] = [token |-> token[c], ts |-> Now]]
  BY <1>4, <1>6 DEF BeatSend, localVars
<1>7. ASSUME NEW c \in Caller, BeatLand(c)
      PROVE  Quiet /\ beat' = [beat EXCEPT ![c] = NoBeat]
  BY <1>4, <1>7 DEF BeatLand
<1>8. ASSUME NEW c \in Caller, Crash(c) PROVE Quiet /\ beat' = beat
  BY <1>1, <1>8 DEF Crash
<1>9. ASSUME Human \/ UNCHANGED vars PROVE Quiet /\ beat' = beat
  BY <1>4, <1>9 DEF Human, Park, Grant, Deny, Lapse, vars, localVars
<1>10. ASSUME NEW c \in Caller, BeatSend(c) \/ BeatLand(c)
       PROVE  \A d \in Caller : \/ beat'[d].token \in {beat[d].token, None}
                                \/ /\ Beating(d) /\ beat'[d].token = token[d]
                                   /\ token' = token /\ pc' = pc
  BY <1>6, <1>7, <1>10, Rows DEF Typed, TypeOK
<1>. QED
  BY <1>5, <1>6, <1>7, <1>8, <1>9, <1>10 DEF Next

LEMMA LeaseStart ==
  ASSUME StartInv, MaxStall < LeaseTtl, NEW c \in Caller, NEW k \in Token, LeaseStep(c, k)
  PROVE  DistinctOK' /\ UnbeatenOK' /\ StartOK'
<1>1. /\ Typed /\ effect \in EffectRow
      /\ \A d \in Caller : ts[d] \in 0..Now
  BY DEF StartInv, Typed, TypeOK
<1>2. \A d \in Caller : pc[d] # "claimed"
  <2>1. SUFFICES ASSUME NEW d \in Caller, pc[d] = "claimed" PROVE FALSE
    OBVIOUS
  <2>2. effect.status = "started" /\ effect.expiresAt >= ts[d] + LeaseTtl
    BY <2>1 DEF StartInv, StartOK
  <2>3. effect.expiresAt <= ts[c]
    BY <2>2 DEF LeaseStep, StillExpired
  <2>. QED
    BY <1>1, <2>2, <2>3, CallAssumption DEF Now, EffectRow, Time
<1>3. /\ token' = [token EXCEPT ![c] = k] /\ token'[c] = k /\ token[c] = None
      /\ \A d \in Caller : d # c => token'[d] = token[d]
  BY <1>1 DEF LeaseStep, Typed, TypeOK, TokenOK, Leasing
<1>4. DistinctOK'
  BY <1>3 DEF StartInv, DistinctOK, LeaseStep, Fresh
<1>5. \A d \in Caller : pc'[d] = "claimed" => d = c
  BY <1>1, <1>2 DEF LeaseStep, Goto, Typed, TypeOK
<1>6. UnbeatenOK'
  BY <1>3, <1>5 DEF UnbeatenOK, LeaseStep, Fresh
<1>7. StartOK'
  BY <1>1, <1>3, <1>5, StartedRow, CallAssumption DEF StartOK, LeaseStep, Now, Time
<1>. QED BY <1>4, <1>6, <1>7

LEMMA StartNext == MaxStall < LeaseTtl /\ StartInv /\ [Next]_vars => StartInv'
<1>. SUFFICES ASSUME MaxStall < LeaseTtl, StartInv, [Next]_vars PROVE StartInv'
  OBVIOUS
<1>0. Typed /\ Typed' /\ effect \in EffectRow
  BY TypedNext DEF StartInv, Typed, TypeOK
<1>1. CASE \E c \in Caller, k \in Token : LeaseStep(c, k)
  BY <1>0, <1>1, LeaseStart DEF StartInv
<1>2. CASE Tick
  <2>1. /\ pc' = pc /\ token' = token
        /\ \A c \in Caller : beat'[c].token = beat[c].token
    BY <1>0, <1>2 DEF Tick, Typed, TypeOK
  <2>2. DistinctOK' /\ UnbeatenOK'
    BY <2>1 DEF StartInv, DistinctOK, UnbeatenOK
  <2>3. ASSUME NEW c \in Caller, pc[c] = "claimed"
        PROVE  /\ effect'.status = "started" /\ effect'.token = token'[c]
               /\ effect'.expiresAt >= ts'[c] + LeaseTtl
    <3>1. /\ effect.status = "started" /\ effect.token = token[c]
          /\ effect.expiresAt >= ts[c] + LeaseTtl
      BY <2>3 DEF StartInv, StartOK
    <3>2. ts[c] > 0 /\ ts'[c] = ts[c] - 1
      BY <1>0, <1>2, <2>3 DEF Tick, UsesTs, Older, Typed, TypeOK
    <3>3. effect'.expiresAt = effect.expiresAt - 1
      BY <1>0, <1>2, <3>1, <3>2, TickEffect, CallAssumption
      DEF Older, EffectRow, Time, Now, Typed, TypeOK
    <3>4. effect.expiresAt \in Int /\ ts[c] \in Int /\ LeaseTtl \in Int
      BY <1>0, CallAssumption DEF EffectRow, Time, Now, Typed, TypeOK
    <3>. QED
      BY <1>0, <1>2, <2>1, <3>1, <3>2, <3>3, <3>4, TickEffect
  <2>4. StartOK'
    BY <2>1, <2>3 DEF StartOK
  <2>. QED BY <1>0, <2>2, <2>4 DEF StartInv
<1>3. CASE /\ \A c \in Caller : token'[c] \in {token[c], None}
           /\ \A c \in Caller : pc'[c] = "claimed" => Waits(c)
           /\ \A c \in Caller : \/ beat'[c].token \in {beat[c].token, None}
                                \/ /\ Beating(c) /\ beat'[c].token = token[c]
                                   /\ token' = token /\ pc' = pc
  <2>1. DistinctOK'
    BY <1>3 DEF StartInv, DistinctOK
  <2>2. ASSUME NEW c \in Caller, NEW d \in Caller, pc'[c] = "claimed"
        PROVE  beat'[d].token # token'[c]
    <3>1. pc[c] = "claimed" /\ token'[c] = token[c] /\ token[c] \in Token /\ token[c] # None
      BY <1>0, <1>3, <2>2, CallAssumption DEF Waits, Typed, TokenOK, Leasing
    <3>2. CASE beat'[d].token \in {beat[d].token, None}
      BY <3>1, <3>2 DEF StartInv, UnbeatenOK
    <3>3. CASE Beating(d) /\ beat'[d].token = token[d]
      BY <3>1, <3>3 DEF Beating, StartInv, DistinctOK
    <3>. QED BY <1>3, <3>2, <3>3
  <2>3. ASSUME NEW c \in Caller, pc'[c] = "claimed"
        PROVE  /\ effect'.status = "started" /\ effect'.token = token'[c]
               /\ effect'.expiresAt >= ts'[c] + LeaseTtl
    <3>1. pc[c] = "claimed" /\ token'[c] = token[c] /\ ts'[c] = ts[c] /\ token[c] # None
      BY <1>0, <1>3, <2>3, CallAssumption DEF Waits, Typed, TokenOK, Leasing
    <3>2. /\ effect.status = "started" /\ effect.token = token[c]
          /\ effect.expiresAt >= ts[c] + LeaseTtl
      BY <3>1 DEF StartInv, StartOK
    <3>3. CASE effect' = effect
      BY <3>1, <3>2, <3>3
    <3>4. CASE Tick
      <4>1. ts[c] > 0 /\ ts'[c] = ts[c] - 1
        BY <1>0, <3>1, <3>4 DEF Tick, UsesTs, Older, Typed, TypeOK
      <4>. QED BY <1>0, <3>1, <4>1 DEF Typed, TypeOK
    <3>5. ASSUME NEW d \in Caller, ClaimCreate(d) /\ effect.status = "absent" PROVE FALSE
      BY <3>2, <3>5
    <3>6. ASSUME NEW d \in Caller, ClaimReclaim(d), StillExpired(d) PROVE FALSE
      <4>1. effect.expiresAt <= ts[d]
        BY <3>6 DEF StillExpired
      <4>. QED
        BY <1>0, <3>2, <4>1, CallAssumption DEF Now, EffectRow, Time, Typed, TypeOK
    <3>7. ASSUME NEW d \in Caller, ActiveLease(beat[d].token, beat[d].ts) PROVE FALSE
      BY <3>1, <3>2, <3>7 DEF ActiveLease, StartInv, UnbeatenOK
    <3>8. ASSUME NEW d \in Caller, Complete(d) \/ Fail(d), ActiveLease(token[d], ts[d])
          PROVE  FALSE
      <4>1. d # c /\ token[d] = token[c]
        BY <3>1, <3>2, <3>8 DEF Complete, Fail, ActiveLease
      <4>. QED BY <3>1, <4>1 DEF StartInv, DistinctOK
    <3>. QED BY <1>0, <3>3, <3>4, <3>5, <3>6, <3>7, <3>8, EffectStep
  <2>4. UnbeatenOK' /\ StartOK'
    BY <2>2, <2>3 DEF UnbeatenOK, StartOK
  <2>. QED BY <1>0, <2>1, <2>4 DEF StartInv
<1>. QED BY <1>0, <1>1, <1>2, <1>3, WaitStep

\* If a claim takes less than a lease lasts, no execution begins once another caller has
\* reclaimed or ended the effect.
THEOREM ExecutionsStartUnderLease == Spec => []StartsUnderLease
<1>1. Init => StartInv
  <2>. SUFFICES ASSUME Init PROVE StartInv
    OBVIOUS
  <2>1. DistinctOK /\ UnbeatenOK /\ StartOK
    BY DEF Init, DistinctOK, UnbeatenOK, StartOK
  <2>. QED BY <2>1, TypedInit DEF StartInv
<1>2. StartInv => StartsUnderLease
  <2>. SUFFICES ASSUME StartInv, MaxStall < LeaseTtl, NEW c \in Caller, pc[c] = "claimed"
                PROVE  /\ effect.status = "started" /\ effect.token = token[c]
                       /\ effect.expiresAt > Now
    BY DEF StartsUnderLease
  <2>1. /\ effect.status = "started" /\ effect.token = token[c]
        /\ effect.expiresAt >= ts[c] + LeaseTtl
    BY DEF StartInv, StartOK
  <2>2. effect.expiresAt \in Nat /\ ts[c] \in Nat
    BY CallAssumption DEF StartInv, Typed, TypeOK, EffectRow, Time, Now
  <2>. QED
    BY <2>1, <2>2, CallAssumption DEF Now
<1>3. CASE MaxStall < LeaseTtl
  <2>1. StartInv /\ [Next]_vars => StartInv'
    BY <1>3, StartNext
  <2>. QED BY <1>1, <1>2, <2>1, PTL DEF Spec
<1>4. CASE ~ (MaxStall < LeaseTtl)
  <2>1. StartsUnderLease
    BY <1>4 DEF StartsUnderLease
  <2>. QED BY <2>1, PTL
<1>. QED BY <1>3, <1>4

==============================================================================
