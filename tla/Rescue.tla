------------------------------- MODULE Rescue --------------------------------
(***************************************************************************)
(* RootRuntime with what watches it: the health monitor, whose tick acts   *)
(* on a state of the core that it read before its checks, the callbacks it *)
(* fires, and the rescue operation, which may be overtaken by the user     *)
(* between any two of these.                                               *)
(***************************************************************************)
EXTENDS RootRuntime

CONSTANTS
  Threshold,       \* HealthMonitor.threshold: failed checks before "degraded"
  MaxAttempts,     \* the largest RescueManager.maxAttempts
  RescueEnabled,   \* config.Rescue.Enabled
  SlowChecks       \* checks may outlast the wait of HealthMonitor.Stop

ASSUME RescueAssumption ==
  /\ Threshold \in Nat \ {0}
  /\ MaxAttempts \in Nat \ {0}
  /\ {RescueEnabled, SlowChecks} \subseteq BOOLEAN

VARIABLES
  tick,       \* the monitor's running tick: its step and what it holds
  callback,   \* onDegraded: its step and the epoch it captured
  restored,   \* an onRestored callback is under way
  failures,   \* HealthMonitor.failures, counted up to Threshold
  attempts,   \* RescueManager.attempts
  cooling     \* time.Since(lastAttempt) < cooldown

watchVars == <<tick, callback, restored, failures, attempts, cooling>>
vars == <<rootVars, watchVars>>

NoTick == [pc |-> "idle", seen |-> "none", ok |-> FALSE]
NoCallback == [pc |-> "none", epoch |-> 0]

RescueSteps == {"admit", "attempt", "try-swap", "try-reapply", "try-full",
                "full-gate", "failed", "confirm", "verdict", "rollback",
                "rollback-script"}

\* The steps that hold RescueManager.mu.
Locked == act.pc \in RescueSteps \ {"admit", "verdict"}

\* Mutant: the epoch of the callback is not compared.
CanRunWithoutEpoch(e) ==
  wanted /\ ~SkipReconcile /\ core.state \in {"running", "degraded", "rescue"}

\* canRunRuntimeRecovery
CanRun(e) ==
  /\ wanted
  /\ epoch = e
  /\ ~SkipReconcile
  /\ core.state \in {"running", "degraded", "rescue"}

SetState(s) == core' = [core EXCEPT !.state = s]

-----------------------------------------------------------------------------
(* The health monitor's tick                                               *)

TickRead ==
  /\ up /\ monitor /\ tick = NoTick /\ CoreUp
  /\ tick' = [pc |-> "checking", seen |-> core.state, ok |-> FALSE]
  /\ UNCHANGED <<rootVars, callback, restored, failures, attempts, cooling>>

TickCheck ==
  /\ tick.pc = "checking"
  /\ \E ok \in {FALSE, core.proc = "alive" /\ rules} :
       tick' = [tick EXCEPT !.pc = "checked", !.ok = ok]
  /\ UNCHANGED <<rootVars, callback, restored, failures, attempts, cooling>>

TickPasses ==
  /\ tick.pc = "checked" /\ tick.ok
  /\ tick' = NoTick
  /\ failures' = 0
  /\ IF tick.seen = "degraded" THEN SetState("running") ELSE UNCHANGED core
  /\ restored' = TRUE
  /\ UNCHANGED <<up, rules, stray, files, epoch, wanted, monitor, act, reload,
                 autostart, callback, attempts, cooling>>

CrossesThreshold == failures' >= Threshold /\ tick.seen # "degraded"

\* One callback waits at a time: a second one would find the first operation
\* busy, or what it left.
TickFails ==
  /\ tick.pc = "checked" /\ ~tick.ok
  /\ tick' = NoTick
  /\ failures' = IF failures < Threshold THEN failures + 1 ELSE Threshold
  /\ IF CrossesThreshold THEN SetState("degraded") ELSE UNCHANGED core
  /\ callback' = IF CrossesThreshold /\ callback = NoCallback
                   THEN [pc |-> "fired", epoch |-> 0] ELSE callback
  /\ UNCHANGED <<up, rules, stray, files, epoch, wanted, monitor, act, reload,
                 autostart, restored, attempts, cooling>>

-----------------------------------------------------------------------------
(* The callbacks                                                           *)

CallbackGate ==
  /\ callback.pc = "fired"
  /\ callback' = IF CanRun(epoch) THEN [pc |-> "gated", epoch |-> epoch]
                                  ELSE NoCallback
  /\ UNCHANGED <<rootVars, tick, restored, failures, attempts, cooling>>

CallbackSubmit ==
  /\ callback.pc = "gated" /\ act = NoAct
  /\ act' = [NoAct EXCEPT !.kind = "rescue", !.pc = "admit", !.epoch = callback.epoch]
  /\ callback' = NoCallback
  /\ UNCHANGED <<up, core, rules, stray, files, epoch, wanted, monitor, reload,
                 autostart, tick, restored, failures, attempts, cooling>>

\* The actor is busy: this rescue never happens.
CallbackBusy ==
  /\ callback.pc = "gated" /\ act # NoAct
  /\ callback' = NoCallback
  /\ UNCHANGED <<rootVars, tick, restored, failures, attempts, cooling>>

Restored ==
  /\ restored /\ ~Locked
  /\ restored' = FALSE
  /\ attempts' = 0
  /\ cooling' = FALSE
  /\ UNCHANGED <<rootVars, tick, callback, failures>>

CooldownEnds ==
  /\ cooling
  /\ cooling' = FALSE
  /\ UNCHANGED <<rootVars, tick, callback, restored, failures, attempts>>

-----------------------------------------------------------------------------
(* The rescue operation                                                    *)

RescueStep(pc) ==
  /\ At(pc)
  /\ UNCHANGED <<epoch, wanted, monitor, daemonVars, tick, callback, restored, failures>>

Admit ==
  /\ RescueStep("admit")
  /\ Goto(IF CanRun(act.epoch) /\ RescueEnabled THEN "attempt" ELSE "done")
  /\ UNCHANGED <<device, attempts, cooling>>

Strategy == CASE attempts = 0 -> "try-swap"
              [] attempts = 1 -> "try-reapply"
              [] OTHER        -> "try-full"

\* A configuration that is committed sets another limit (RescueManager.SetConfig),
\* also between two reads of it in one rescue.
Limits == 1..MaxAttempts

Attempt ==
  /\ RescueStep("attempt")
  /\ \E limit \in Limits :
       IF CanRun(act.epoch) /\ ~cooling /\ attempts < limit
         THEN /\ attempts' = attempts + 1
              /\ cooling' = TRUE
              /\ SetState("rescue")
              /\ Goto(Strategy)
         ELSE Goto("verdict") /\ UNCHANGED <<core, attempts, cooling>>
  /\ UNCHANGED <<rules, stray, files>>

Cancelled == Goto("failed") /\ UNCHANGED device

TrySwap ==
  /\ RescueStep("try-swap")
  /\ IF CanRun(act.epoch)
       THEN \/ SwapCore /\ Goto("confirm")
            \/ (SwapRestored \/ SwapFails) /\ Goto("failed")
       ELSE Cancelled
  /\ UNCHANGED <<attempts, cooling>>

TryReapply ==
  /\ RescueStep("try-reapply")
  /\ IF CanRun(act.epoch)
       THEN /\ \/ rules' = TRUE /\ Goto("confirm")
               \/ rules' \in BOOLEAN /\ Goto("failed")
            /\ UNCHANGED <<core, stray, files>>
       ELSE Cancelled
  /\ UNCHANGED <<attempts, cooling>>

\* Its error is logged: "we want a clean start".
TryFull ==
  /\ RescueStep("try-full")
  /\ IF CanRun(act.epoch)
       THEN (\E ok \in BOOLEAN : StopCore(ok)) /\ Goto("full-gate")
       ELSE Cancelled
  /\ UNCHANGED <<attempts, cooling>>

FullGate ==
  /\ RescueStep("full-gate")
  /\ IF CanRun(act.epoch)
       THEN \/ StartCore /\ Goto("confirm")
            \/ StartCoreFails /\ Goto("failed")
       ELSE Cancelled
  /\ UNCHANGED <<attempts, cooling>>

\* The end of Attempt, after a strategy that failed and after one that did not.
Failed ==
  /\ RescueStep("failed")
  /\ IF CanRun(act.epoch) THEN SetState("degraded") ELSE UNCHANGED core
  /\ Goto("verdict")
  /\ UNCHANGED <<rules, stray, files, attempts, cooling>>

Confirm ==
  /\ RescueStep("confirm")
  /\ IF CanRun(act.epoch) THEN SetState("running") /\ Goto("done")
                          ELSE UNCHANGED core /\ Goto("verdict")
  /\ UNCHANGED <<rules, stray, files, attempts, cooling>>

Verdict ==
  /\ RescueStep("verdict")
  /\ \E limit \in Limits :
       Goto(IF attempts >= limit /\ CanRun(act.epoch) THEN "rollback" ELSE "done")
  /\ UNCHANGED <<device, attempts, cooling>>

Rollback ==
  /\ RescueStep("rollback")
  /\ \/ StopCore(TRUE) /\ Goto("rollback-script")
     \/ StopCore(FALSE) /\ Goto("done")
  /\ UNCHANGED <<attempts, cooling>>

\* The error of the script and that of the removal of the lock are ignored.
RollbackScript ==
  /\ RescueStep("rollback-script")
  /\ \E f \in {files, ScriptFiles} : files' \in {f, [f EXCEPT !.lock = "none"]}
  /\ stray' \in {stray, FALSE}
  /\ SetState("stopped")
  /\ Goto("done")
  /\ UNCHANGED <<rules, attempts, cooling>>

Rescuing == \/ Admit \/ Attempt \/ TrySwap \/ TryReapply \/ TryFull \/ FullGate
            \/ Failed \/ Confirm \/ Verdict \/ Rollback \/ RollbackScript

-----------------------------------------------------------------------------
(* Composition: the steps of RootRuntime that the monitor takes part in    *)

\* HealthMonitor.Stop waits for the running tick, five seconds at most.
TickJoined == tick = NoTick \/ SlowChecks

StopMonitor == (Halt \/ QuietReset) /\ TickJoined /\ UNCHANGED watchVars

\* RescueManager.Reset, then HealthMonitor.Start, which does nothing while
\* the monitor runs.
StartMonitor ==
  /\ Watch
  /\ attempts' = 0 /\ cooling' = FALSE
  /\ failures' = IF monitor THEN failures ELSE 0
  /\ UNCHANGED <<tick, callback, restored>>

ClearMonitor ==
  /\ ClearReset
  /\ attempts' = 0 /\ cooling' = FALSE /\ failures' = 0
  /\ UNCHANGED <<tick, callback, restored>>

\* The step of RootRuntime whose half a crash in a step of the rescue leaves.
Counterpart == CASE act.pc = "try-swap"                  -> "swap"
                 [] act.pc = "try-reapply"               -> "reapply"
                 [] act.pc \in {"try-full", "rollback"}  -> "kill"
                 [] act.pc = "full-gate"                 -> "spawn"
                 [] act.pc = "rollback-script"           -> "script"
                 [] OTHER                                -> act.pc

RescueCrash ==
  /\ CrashDuring(Counterpart)
  /\ tick' = NoTick /\ callback' = NoCallback /\ restored' = FALSE
  /\ failures' = 0 /\ attempts' = 0 /\ cooling' = FALSE

RescueInit ==
  /\ Init
  /\ tick = NoTick /\ callback = NoCallback /\ restored = FALSE
  /\ failures = 0 /\ attempts = 0 /\ cooling = FALSE

Monitoring == TickRead \/ TickCheck \/ TickPasses \/ TickFails
Callbacks == CallbackGate \/ CallbackSubmit \/ CallbackBusy \/ Restored

Operating == \/ PlainSteps /\ UNCHANGED watchVars
             \/ StopMonitor \/ StartMonitor \/ ClearMonitor
             \/ Rescuing

RescueNext ==
  \/ (Requests \/ Environment) /\ UNCHANGED watchVars
  \/ Operating \/ Monitoring \/ Callbacks \/ CooldownEnds \/ RescueCrash

RescueSpec == RescueInit /\ [][RescueNext]_vars

-----------------------------------------------------------------------------
(* Properties                                                              *)

RescueTypeOK ==
  /\ RootTypeOK(Kinds \cup {"rescue"}, Steps \cup RescueSteps)
  /\ tick \in [pc : {"idle", "checking", "checked"},
               seen : {"none", "running", "degraded"}, ok : BOOLEAN]
  /\ callback \in [pc : {"none", "fired", "gated"}, epoch : 0..MaxEpoch + 1]
  /\ restored \in BOOLEAN
  /\ failures \in 0..Threshold
  /\ attempts \in 0..MaxAttempts
  /\ cooling \in BOOLEAN

\* A rescue acts only for the user's latest wish: whatever it does to the
\* processes, the rules or the files, the runtime is still wanted and no
\* start, stop, restart or reset has begun since its callback fired
\* ("rescue skipped: runtime changed before recovery").
RescueRespectsIntent ==
  [][act.kind = "rescue" /\ act'.kind = "rescue" /\ act'.pc # act.pc
       /\ device' # device => wanted /\ epoch = act.epoch]_vars

\* CoreManager.Start overwrites the process it tracks: a call that finds one
\* would leave it running with nobody to stop it.
StartNeverOrphans ==
  [][act.pc = "spawn" /\ act'.pc = "watch" => core.proc = "none"]_vars

\* No sing-box comes up that the user does not want: not after a stop or a
\* reset that a callback, a rescue or a failing restart has lived through.
\* (A reload may: it was planned before the stop; see ConfigApply.)
OnlyWantedStarts == [][Spawned /\ act.kind # "reload" => wanted]_vars

=============================================================================
