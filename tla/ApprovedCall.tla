----------------------------- MODULE ApprovedCall -----------------------------
(***************************************************************************)
(* One governed tool call that needed a human's approval: the approval row *)
(* (storage/durable approval.ts), the effect ledger row that makes its     *)
(* execution idempotent (storage/durable effect.ts) and the callers of     *)
(* runtime.continueRun that resume it: the API, an engine worker, a cron,  *)
(* each possibly in a process of its own, each retrying as it likes.       *)
(*                                                                         *)
(* Every store call is a chain of statements, and every statement is an    *)
(* action: a human, another caller, a heartbeat, the clock or a crash may  *)
(* come between any two.  The store's in-process lock only orders claims   *)
(* of one process, so callers of different processes give every behaviour. *)
(*                                                                         *)
(* The lease token of a claim is random.  It also names the execution made *)
(* under it, and the output of that execution.                             *)
(***************************************************************************)
EXTENDS Integers

CONSTANTS
  Caller,       \* callers of continueRun
  Token,        \* lease tokens; bound: how many executions a behaviour may have
  None,         \* the null of a column or of an empty local
  Verdict,      \* what the gates other than the approved one may decide
  LeaseTtl,     \* effectLeaseTtlMs
  MaxStall,     \* bound: how old a now() may get that a statement still works with
  MaxCrashes    \* bound: how many caller crashes a behaviour has

ASSUME CallAssumption ==
  /\ None \notin Token
  /\ Verdict \subseteq {"allow", "deny", "stop"}
  /\ LeaseTtl \in Nat \ {0}
  /\ MaxStall \in Nat
  /\ MaxCrashes \in Nat

VARIABLES
  policy,    \* the effect policy stamped on the tool
  approval,  \* status column of the approval row, "absent" before the call parked
  lapsed,    \* the approval's expiresAt has passed
  effect,    \* the effect row of this approval's call, status "absent" before a claim
  pc,        \* pc[c]: the next statement of caller c
  ts,        \* ts[c]: the now() that statement works with
  token,     \* token[c]: the lease token c was given by its claim
  lost,      \* lost[c]: the abort flag the heartbeat of c sets
  out,       \* out[c]: the tool output c is about to resume the loop with
  beat,      \* beat[c]: a heartbeat statement of c on its way to the store
  ran,       \* history: the executions of the tool that were begun
  answers,   \* history: the outputs that resumed model loops were given
  resumes,   \* history: how many model loops were resumed, up to Many
  crashes    \* number of crashes so far

rowVars == <<approval, lapsed, effect>>
localVars == <<pc, ts, token, lost, out>>
history == <<ran, answers, resumes>>
vars == <<policy, approval, lapsed, effect, pc, ts, token, lost, out, beat,
          ran, answers, resumes, crashes>>

\* Timestamps are relative to the present: see SqlEngine.
Now == MaxStall
Time == 0..(Now + LeaseTtl)
Older(at) == IF at > 0 THEN at - 1 ELSE 0

Many == 2

\* idempotency # "none" lets an expired lease be reclaimed; output # "none" keeps it.
Policy == [reclaim : BOOLEAN, keeps : BOOLEAN]
ApprovalStatus == {"absent", "pending", "approved", "denied", "consumed"}
EffectStatus == {"absent", "started", "completed", "failed"}
EffectRow == [status : EffectStatus, token : Token \cup {None},
              expiresAt : Time, output : Token \cup {None}]

NoEffect == [status |-> "absent", token |-> None, expiresAt |-> 0, output |-> None]
NoBeat == [token |-> None, ts |-> 0]

\* Tokens are random: a new one is known to no row, no caller and no history.
Fresh(k) ==
  /\ effect.token # k
  /\ k \notin ran
  /\ \A c \in Caller : token[c] # k /\ beat[c].token # k

Goto(c, label) == pc' = [pc EXCEPT ![c] = label]

\* What a continueRun call that has returned or thrown leaves behind in its caller.
Return(c) ==
  /\ Goto(c, "idle")
  /\ ts' = [ts EXCEPT ![c] = 0]
  /\ token' = [token EXCEPT ![c] = None]
  /\ lost' = [lost EXCEPT ![c] = FALSE]
  /\ out' = [out EXCEPT ![c] = None]

----------------------------------------------------------------------------
Init ==
  /\ policy \in Policy
  /\ approval = "absent"
  /\ lapsed = FALSE
  /\ effect = NoEffect
  /\ pc = [c \in Caller |-> "idle"]
  /\ ts = [c \in Caller |-> 0]
  /\ token = [c \in Caller |-> None]
  /\ lost = [c \in Caller |-> FALSE]
  /\ out = [c \in Caller |-> None]
  /\ beat = [c \in Caller |-> NoBeat]
  /\ ran = {}
  /\ answers = {}
  /\ resumes = 0
  /\ crashes = 0

(* The approval row.                                                       *)

\* The gated run parks: the approval after-gate stores the redacted call.
Park ==
  /\ approval = "absent"
  /\ approval' = "pending"
  /\ UNCHANGED <<policy, lapsed, effect, localVars, beat, history, crashes>>

\* Mutant: a human may decide again.
WherePending_Any == approval # "absent"
\* The guard of both decisions.
WherePending == approval = "pending"
WhereApproved == approval = "approved"

Grant ==
  /\ WherePending
  /\ approval' = "approved"
  /\ UNCHANGED <<policy, lapsed, effect, localVars, beat, history, crashes>>

Deny ==
  /\ WherePending
  /\ approval' = "denied"
  /\ UNCHANGED <<policy, lapsed, effect, localVars, beat, history, crashes>>

\* An approval may have been created with an expiresAt, and then it passes.
Lapse ==
  /\ ~ lapsed
  /\ lapsed' = TRUE
  /\ UNCHANGED <<policy, approval, effect, localVars, beat, history, crashes>>

----------------------------------------------------------------------------
(* runtime.continueRun, up to the tool.                                    *)

\* Mutant: a consumed approval is not taken up again.
Resumable_Approved == approval = "approved"
\* The statuses continueRun goes on with.  A denied approval answers with the denial
\* and every other status with null: nothing changes.
Resumable == approval \in {"approved", "consumed"}

\* get: a consumed approval is replayed, and its consume returns the record as read.
Get(c) ==
  /\ pc[c] = "idle"
  /\ Resumable
  /\ Goto(c, IF approval = "approved" THEN "consume" ELSE "gates")
  /\ UNCHANGED <<policy, rowVars, ts, token, lost, out, beat, history, crashes>>

\* consume reads the approved row and compares its expiry ...
ConsumeRead(c) ==
  /\ pc[c] = "consume"
  /\ \/ WhereApproved /\ ~ lapsed /\ Goto(c, "take")
     \/ (~ WhereApproved \/ lapsed) /\ Goto(c, "idle")
  /\ UNCHANGED <<policy, rowVars, ts, token, lost, out, beat, history, crashes>>

\* ... and takes it with a guarded update; the loser's continueRun returns null.
ConsumeTake(c) ==
  /\ pc[c] = "take"
  /\ \/ WhereApproved /\ approval' = "consumed" /\ Goto(c, "gates")
     \/ ~ WhereApproved /\ Goto(c, "idle") /\ UNCHANGED approval
  /\ UNCHANGED <<policy, lapsed, effect, ts, token, lost, out, beat, history, crashes>>

\* runGoverned skips the approved gate only.  Another gate may deny, and the loop goes
\* on with the denial; or it may demand an approval of its own, or the call may throw
\* before it claims its effect, and continueRun throws.
Gates(c, verdict) ==
  /\ pc[c] = "gates"
  /\ \/ /\ verdict = "allow"
        /\ Goto(c, "claim")
        /\ ts' = [ts EXCEPT ![c] = Now]
        /\ UNCHANGED <<token, lost, out>>
     \/ verdict = "deny" /\ Goto(c, "resume") /\ UNCHANGED <<ts, token, lost, out>>
     \/ verdict = "stop" /\ Return(c)
  /\ UNCHANGED <<policy, rowVars, beat, history, crashes>>

----------------------------------------------------------------------------
(* runTool: the claim of the effect.                                       *)

\* A completed effect: its stored output is the answer, and without one the call throws.
Replay(c) ==
  \/ /\ effect.output # None
     /\ out' = [out EXCEPT ![c] = effect.output]
     /\ ts' = [ts EXCEPT ![c] = 0]
     /\ Goto(c, "resume")
     /\ UNCHANGED <<token, lost>>
  \/ effect.output = None /\ Return(c)

\* Mutant: an expired lease is reclaimed whatever the tool's policy.
MayReclaim_Always == TRUE
MayReclaim == policy.reclaim

\* The row decides: none yet; completed; failed, or in progress, or uncertain, and the
\* call throws; or started with an expired lease that may be reclaimed.
ClaimRead(c) ==
  /\ pc[c] = "claim"
  /\ \/ /\ effect.status = "absent"
        /\ Goto(c, "create")
        /\ UNCHANGED <<ts, token, lost, out>>
     \/ effect.status = "completed" /\ Replay(c)
     \/ effect.status = "failed" /\ Return(c)
     \/ effect.status = "started" /\ effect.expiresAt > ts[c] /\ Return(c)
     \/ /\ effect.status = "started" /\ effect.expiresAt <= ts[c]
        /\ ~ MayReclaim
        /\ Return(c)
     \/ /\ effect.status = "started" /\ effect.expiresAt <= ts[c]
        /\ MayReclaim
        /\ Goto(c, "reclaim")
        /\ UNCHANGED <<ts, token, lost, out>>
  /\ UNCHANGED <<policy, rowVars, beat, history, crashes>>

Started(c, k) ==
  [status |-> "started", token |-> k, expiresAt |-> ts[c] + LeaseTtl, output |-> None]

\* The lease is c's, under a new token.
Lease(c) ==
  \E k \in Token : /\ Fresh(k)
                   /\ effect' = Started(c, k)
                   /\ token' = [token EXCEPT ![c] = k]
                   /\ Goto(c, "claimed")

\* The id is unique: whoever creates second fails, and reads what the first created.
ClaimCreate(c) ==
  /\ pc[c] = "create"
  /\ \/ effect.status = "absent" /\ Lease(c)
     \/ effect.status # "absent" /\ Goto(c, "claim") /\ UNCHANGED <<effect, token>>
  /\ UNCHANGED <<policy, approval, lapsed, ts, lost, out, beat, history, crashes>>

\* Mutant: the update does not look at the expiry again.
StillExpired_Unchecked(c) == effect.status = "started"
\* The guard of the update that reclaims an expired lease.
StillExpired(c) == effect.status = "started" /\ effect.expiresAt <= ts[c]

\* Bound: when the executions are used up, the statement fails and the call throws.
ClaimReclaim(c) ==
  /\ pc[c] = "reclaim"
  /\ \/ StillExpired(c) /\ Lease(c) /\ UNCHANGED <<ts, lost, out>>
     \/ /\ StillExpired(c)
        /\ \A k \in Token : ~ Fresh(k)
        /\ Return(c)
        /\ UNCHANGED effect
     \/ /\ ~ StillExpired(c)
        /\ Goto(c, "latest")
        /\ UNCHANGED <<effect, ts, token, lost, out>>
  /\ UNCHANGED <<policy, approval, lapsed, beat, history, crashes>>

\* The reclaim lost a race: the row is read again and answers for itself.
ClaimLatest(c) ==
  /\ pc[c] = "latest"
  /\ \/ effect.status = "completed" /\ Replay(c)
     \/ effect.status # "completed" /\ Return(c)
  /\ UNCHANGED <<policy, rowVars, beat, history, crashes>>

----------------------------------------------------------------------------
(* runTool: the execution under the lease.                                 *)

Execute(c) ==
  /\ pc[c] = "claimed"
  /\ ran' = ran \cup {token[c]}
  /\ ts' = [ts EXCEPT ![c] = 0]
  /\ Goto(c, "exec")
  /\ UNCHANGED <<policy, rowVars, token, lost, out, beat, answers, resumes, crashes>>

\* Mutant: the update matches the id alone.
ActiveLease_ById(k, at) == effect.status # "absent"
\* activeLeaseWhere: the guard of heartbeat, complete and fail.
ActiveLease(k, at) ==
  effect.status = "started" /\ effect.token = k /\ effect.expiresAt > at

\* The heartbeat runs until the effect is marked completed or failed.
Beating(c) == pc[c] \in {"exec", "complete", "fail"}

\* The interval sends a heartbeat with its now() ...
BeatSend(c) ==
  /\ Beating(c)
  /\ beat[c] = NoBeat
  /\ beat' = [beat EXCEPT ![c] = [token |-> token[c], ts |-> Now]]
  /\ UNCHANGED <<policy, rowVars, localVars, history, crashes>>

\* ... that extends an active lease whenever it arrives, or sets the abort flag when it
\* does not find one or fails, unless the heartbeat was stopped meanwhile.
BeatLand(c) ==
  LET k == beat[c].token IN
  /\ beat[c] # NoBeat
  /\ beat' = [beat EXCEPT ![c] = NoBeat]
  /\ \/ /\ ActiveLease(k, beat[c].ts)
        /\ effect' = [effect EXCEPT !.expiresAt = beat[c].ts + LeaseTtl]
        /\ UNCHANGED lost
     \/ /\ lost' = [lost EXCEPT ![c] = @ \/ (Beating(c) /\ token[c] = k)]
        /\ UNCHANGED effect
  /\ UNCHANGED <<policy, approval, lapsed, pc, ts, token, out, history, crashes>>

\* The tool returns.  With the abort flag set, or when it or the redaction of its output
\* throws, the catch block will try to mark the effect failed.
Finish(c, ok) ==
  /\ pc[c] = "exec"
  /\ Goto(c, IF ok /\ ~ lost[c] THEN "complete" ELSE "fail")
  /\ ts' = [ts EXCEPT ![c] = Now]
  /\ UNCHANGED <<policy, rowVars, token, lost, out, beat, history, crashes>>

\* A completed or failed row: its lease columns are cleared.
Ended(status, output) ==
  [status |-> status, token |-> None, expiresAt |-> 0, output |-> output]

\* The row of the completed execution k.
Completed(k) == Ended("completed", IF policy.keeps THEN k ELSE None)

\* complete: the guarded update.  It throws when the lease is lost, and when the
\* statement fails, whether the store applied it or not.
Complete(c) ==
  /\ pc[c] = "complete"
  /\ \/ /\ ActiveLease(token[c], ts[c])
        /\ effect' = Completed(token[c])
        /\ out' = [out EXCEPT ![c] = token[c]]
        /\ ts' = [ts EXCEPT ![c] = 0]
        /\ Goto(c, "resume")
     \/ /\ \/ ActiveLease(token[c], ts[c]) /\ effect' = Completed(token[c])
           \/ UNCHANGED effect
        /\ Goto(c, "fail")
        /\ ts' = [ts EXCEPT ![c] = Now]
        /\ UNCHANGED out
  /\ UNCHANGED <<policy, approval, lapsed, token, lost, beat, history, crashes>>

\* fail: the guarded update; whatever becomes of it, continueRun throws.
Fail(c) ==
  /\ pc[c] = "fail"
  /\ \/ ActiveLease(token[c], ts[c]) /\ effect' = Ended("failed", None)
     \/ UNCHANGED effect
  /\ Return(c)
  /\ UNCHANGED <<policy, approval, lapsed, beat, history, crashes>>

\* The tool's output, or the denial, goes to a new turn of the model loop.
Resume(c) ==
  /\ pc[c] = "resume"
  /\ answers' = answers \cup ({out[c]} \ {None})
  /\ resumes' = IF resumes < Many THEN resumes + 1 ELSE Many
  /\ Return(c)
  /\ UNCHANGED <<policy, rowVars, beat, ran, crashes>>

----------------------------------------------------------------------------
\* The caller's process dies, or a statement of it fails and the call throws; a
\* heartbeat may be on its way all the same.
Crash(c) ==
  /\ crashes < MaxCrashes
  /\ pc[c] # "idle"
  /\ crashes' = crashes + 1
  /\ Return(c)
  /\ UNCHANGED <<policy, rowVars, beat, history>>

\* The labels at which c has still to use ts[c].
UsesTs(c) == pc[c] \in {"claim", "create", "reclaim", "latest", "claimed", "complete", "fail"}

Tick ==
  /\ \A c \in Caller : /\ UsesTs(c) => ts[c] > 0
                       /\ beat[c] # NoBeat => beat[c].ts > 0
  /\ effect' = [effect EXCEPT !.expiresAt = Older(@)]
  /\ ts' = [c \in Caller |-> Older(ts[c])]
  /\ beat' = [c \in Caller |-> [beat[c] EXCEPT !.ts = Older(@)]]
  /\ UNCHANGED <<policy, approval, lapsed, pc, token, lost, out, history, crashes>>

Human == Park \/ Grant \/ Deny \/ Lapse

Continue(c) ==
  \/ Get(c)
  \/ ConsumeRead(c)
  \/ ConsumeTake(c)
  \/ \E verdict \in Verdict : Gates(c, verdict)
  \/ ClaimRead(c)
  \/ ClaimCreate(c)
  \/ ClaimReclaim(c)
  \/ ClaimLatest(c)
  \/ Execute(c)
  \/ \E ok \in BOOLEAN : Finish(c, ok)
  \/ Complete(c)
  \/ Fail(c)
  \/ Resume(c)

Next ==
  \/ Human
  \/ \E c \in Caller : Continue(c) \/ BeatSend(c) \/ BeatLand(c) \/ Crash(c)
  \/ Tick

Spec == Init /\ [][Next]_vars

\* Callers retry for ever, statements and tool calls end, and time passes.  Nobody has
\* to grant, to crash or to beat.
Fairness ==
  /\ \A c \in Caller : WF_vars(Continue(c))
  /\ WF_vars(Tick)

FairSpec == Spec /\ Fairness

----------------------------------------------------------------------------
(* Properties.                                                             *)

Label == {"idle", "consume", "take", "gates", "claim", "create", "reclaim", "latest",
          "claimed", "exec", "complete", "fail", "resume"}

TypeOK ==
  /\ policy \in Policy
  /\ approval \in ApprovalStatus
  /\ lapsed \in BOOLEAN
  /\ effect \in EffectRow
  /\ effect.status = "started" <=> effect.token # None
  /\ pc \in [Caller -> Label]
  /\ ts \in [Caller -> 0..Now]
  /\ token \in [Caller -> Token \cup {None}]
  /\ lost \in [Caller -> BOOLEAN]
  /\ out \in [Caller -> Token \cup {None}]
  /\ beat \in [Caller -> [token : Token \cup {None}, ts : 0..Now]]
  /\ ran \subseteq Token
  /\ answers \subseteq Token
  /\ resumes \in 0..Many
  /\ crashes \in 0..MaxCrashes

\* The tool runs, and a resumed loop gets an answer, only when a human has granted the
\* approval and it was consumed; a decision is not taken back under a running call.
OnlyConsented ==
  \/ approval = "consumed"
  \/ ran = {} /\ effect = NoEffect /\ resumes = 0

\* A tool with idempotency "none" is executed at most once, whoever resumes the approval,
\* crashes or comes too late.
AtMostOnce == ~ policy.reclaim => \A j, k \in ran : j = k

\* If a claim takes less than a lease lasts, an execution begins under the lease it was
\* claimed with: nobody else has reclaimed or ended the effect.
StartsUnderLease ==
  MaxStall < LeaseTtl =>
    \A c \in Caller : pc[c] = "claimed" =>
      effect.status = "started" /\ effect.token = token[c] /\ effect.expiresAt > Now

\* Every loop that is resumed with an output is given the same one, that of the execution
\* the ledger recorded, however many executions there were.
OneAnswer ==
  LET given == answers \cup ({out[c] : c \in Caller} \ {None}) IN
  /\ \A j, k \in given : j = k
  /\ given # {} => /\ effect.status = "completed"
                   /\ effect.output \in given \cup {None}

\* A completed or failed effect stays so: no zombie, late heartbeat or retry reopens it.
EndedIsFinal ==
  [][effect.status \in {"completed", "failed"} => effect' = effect]_vars

\* The effect is ended only by the caller whose lease it is under.
OnlyHolderEnds ==
  [][effect.status = "started" /\ effect'.status # "started"
       => \E c \in Caller : pc[c] \in {"complete", "fail"} /\ token[c] = effect.token]_vars

\* Whenever a caller crashed, an approval that was consumed is executed by a retry; a
\* tool with idempotency "none" may have been claimed by a caller that crashed.
ConsumedIsExecuted ==
  approval = "consumed" ~>
    ran # {} \/ (~ policy.reclaim /\ effect.status = "started")

\* A call that completed, and whose output is kept, is answered to the model, also when
\* the caller that executed it crashed before it did so.
CompletedIsResumed ==
  policy.keeps /\ effect.status = "completed" ~> resumes > 0

==============================================================================
