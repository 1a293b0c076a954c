----------------------------- MODULE RootRuntime -----------------------------
(***************************************************************************)
(* What an operation of the runtime actor does to the device: the sing-box *)
(* process, the traffic rules, and the files that outlive the daemon       *)
(* (reset.lock, the active marker, the manual flag).  It covers the root   *)
(* backend, the reset controller, the reload of a changed configuration,   *)
(* a crash of the daemon at any step, and both ways it comes back.         *)
(*                                                                         *)
(* Orchestrator.tla shows that at most one operation runs, so act holds    *)
(* the step of that one.  A call of the core manager holds its mutex for   *)
(* its whole length and is one step here, but Crash may cut it short.      *)
(***************************************************************************)
EXTENDS Integers

CONSTANTS
  MayAutostart,  \* config.Autostart
  ReloadPlans,   \* the reload plans that changes of the configuration lead to
  MaxEpoch       \* bound: starts, restarts, stops and resets of one daemon run

VARIABLES
  up,         \* the daemon process runs
  core,       \* CoreManager: its state, and the sing-box it tracks
  rules,      \* some firewall, DNS or routing rule of ours is installed
  stray,      \* a sing-box runs that no CoreManager tracks
  files,      \* reset.lock, the active marker and the manual flag
  epoch,      \* daemon.runtimeOpEpoch
  wanted,     \* daemon.runtimeDesiredRunning
  monitor,    \* the subsystems (health monitor, network watcher) run
  act,        \* the running operation and its next step
  reload,     \* a configuration change that has seen a running runtime
  autostart   \* how far maybeAutostart is

rootVars == <<up, core, rules, stray, files, epoch, wanted, monitor, act,
              reload, autostart>>

CoreStates == {"stopped", "running", "degraded", "rescue"}
Kinds == {"start", "restart", "stop", "reset", "network-change", "reload"}
Plans == {"full", "swap", "swap+rules"}
Steps == {"recover", "begin", "check", "lock", "halt", "kill", "swap", "spawn",
          "reconcile", "reapply", "watch", "gate", "mark", "enter", "quiet",
          "scour", "script", "clear", "sweep", "leave", "done"}

Core == [state : CoreStates, proc : {"none", "alive", "dead"}]
Files == [lock : {"none", "fresh", "stale"}, marker : BOOLEAN, manual : BOOLEAN]

\* broken: the report of the current RESET has an error.  recovering: that
\* RESET is the clean-up of a stale lock and the operation goes on after it.
Act(kinds, steps) ==
  [kind : kinds \cup {"none"}, pc : steps \cup {"none"}, epoch : 0..MaxEpoch + 1,
   plan : Plans \cup {"none"}, err : BOOLEAN, broken : BOOLEAN,
   recovering : BOOLEAN]

NoAct == [kind |-> "none", pc |-> "none", epoch |-> 0, plan |-> "none",
          err |-> FALSE, broken |-> FALSE, recovering |-> FALSE]

Stopped == [state |-> "stopped", proc |-> "none"]

ASSUME RootRuntimeAssumption ==
  /\ MayAutostart \in BOOLEAN
  /\ ReloadPlans \subseteq Plans
  /\ MaxEpoch \in Nat \ {0}

-----------------------------------------------------------------------------
(* Conditions and moves shared by the steps                                *)

Goto(pc) == act' = [act EXCEPT !.pc = pc]
Fail(pc) == act' = [act EXCEPT !.pc = pc, !.err = TRUE]

At(pc) == up /\ act.pc = pc

CoreUp == core.state \in {"running", "degraded"}

\* A started operation that fails ends by clearing the desired flag; a reload
\* or a network change just ends.
AfterFailure == IF act.kind \in {"start", "restart"} THEN "mark" ELSE "done"

SkipReconcile == files.lock # "none" \/ files.manual \/ ~files.marker

-----------------------------------------------------------------------------
(* The core manager: what its calls leave behind                           *)

\* Mutant: a failed clean-up of the rules is reported as success.
StopCoreHidingErrors(ok) ==
  /\ core' = Stopped
  /\ files' = [files EXCEPT !.marker = FALSE]
  /\ rules' \in {rules, FALSE}
  /\ stray' = stray

\* Stop and RescueReset: the clean-up of the rules may fail, sing-box is
\* signalled all the same and forgotten; with none tracked, the PID file may
\* lead to a stray one.
StopCore(ok) ==
  /\ core' = Stopped
  /\ files' = [files EXCEPT !.marker = FALSE]
  /\ rules' \in {FALSE, ~ok /\ rules}
  /\ stray' \in CASE core.proc = "none"         -> {stray, FALSE}
                  [] core.proc = "alive" /\ ~ok -> {stray, TRUE}
                  [] OTHER                      -> {stray}

MarkActive == files' = [files EXCEPT !.marker = TRUE, !.manual = FALSE]

\* The port wait accepts any listener, a stray sing-box too, and a child that dies
\* after it passes: the call ends well all the same.
NewCore == [state : {"running"}, proc : {"alive", "dead"}]

StartCore ==
  /\ core.state # "running"
  /\ core' \in NewCore
  /\ rules' = TRUE
  /\ MarkActive
  /\ UNCHANGED stray

\* Refused, failed before sing-box was spawned, or rolled back: then neither the
\* clean-up of the rules nor the kill is checked.
StartCoreFails ==
  /\ IF core.state = "running" THEN UNCHANGED <<core, rules, stray>>
     ELSE \/ /\ core' = [core EXCEPT !.state = "stopped"]
             /\ UNCHANGED <<rules, stray>>
          \/ /\ core' = Stopped
             /\ rules' \in BOOLEAN
             /\ stray' \in {stray, TRUE}
  /\ UNCHANGED files

SwapCore ==
  /\ core' \in NewCore
  /\ MarkActive
  /\ UNCHANGED <<rules, stray>>

\* The configuration that the manager remembers runs again; a late selector switch
\* leaves one of a stopped core too.  Whether the new sing-box has left its ports is
\* not checked.
SwapRestored ==
  /\ core' \in NewCore
  /\ stray' \in {stray, TRUE}
  /\ files' = [files EXCEPT !.marker = TRUE]
  /\ UNCHANGED rules

\* Rejected before the old process is gone, or lost with it.
SwapFails ==
  \/ UNCHANGED <<core, rules, stray, files>>
  \/ /\ core' = [state |-> "degraded", proc |-> "none"]
     /\ files' = [files EXCEPT !.marker = FALSE]
     /\ rules' \in {rules, FALSE}
     /\ stray' \in {stray, TRUE}

-----------------------------------------------------------------------------
(* Requests: the actor is free and takes one operation                     *)

Submit(kind, pc) ==
  /\ up /\ act = NoAct
  /\ kind \in {"start", "restart", "stop", "reset"} => epoch < MaxEpoch
  /\ act' = [NoAct EXCEPT !.kind = kind, !.pc = pc, !.plan = reload,
                          !.epoch = epoch]
  /\ UNCHANGED <<up, core, rules, stray, files, epoch, wanted, monitor>>

Request ==
  /\ \/ \E kind \in {"start", "restart", "network-change"} : Submit(kind, "recover")
     \/ \E kind \in {"stop", "reset"} : Submit(kind, "begin")
  /\ UNCHANGED <<reload, autostart>>

\* A configuration change finds the actor idle and the runtime up, saves and
\* commits the new configuration; the operation that applies it comes later.
SampleReload ==
  /\ up /\ act = NoAct /\ reload = "none" /\ CoreUp
  /\ reload' \in ReloadPlans
  /\ UNCHANGED <<up, core, rules, stray, files, epoch, wanted, monitor, act, autostart>>

SubmitReload ==
  /\ reload # "none"
  /\ Submit("reload", "lock")
  /\ reload' = "none"
  /\ UNCHANGED autostart

ReloadBusy ==
  /\ up /\ reload # "none" /\ act # NoAct
  /\ reload' = "none"
  /\ UNCHANGED <<up, core, rules, stray, files, epoch, wanted, monitor, act, autostart>>

AutostartCheck ==
  /\ up /\ autostart = "pending"
  /\ autostart' = IF files.manual THEN "off" ELSE "checked"
  /\ UNCHANGED <<up, core, rules, stray, files, epoch, wanted, monitor, act, reload>>

AutostartSubmit ==
  /\ autostart = "checked"
  /\ Submit("start", "recover")
  /\ autostart' = "off"
  /\ UNCHANGED reload

AutostartBusy ==
  /\ up /\ autostart = "checked" /\ act # NoAct
  /\ autostart' = "off"
  /\ UNCHANGED <<up, core, rules, stray, files, epoch, wanted, monitor, act, reload>>

-----------------------------------------------------------------------------
(* Steps of the backend's operations.  None touches up, reload, autostart. *)

daemonVars == <<up, reload, autostart>>
device == <<core, rules, stray, files>>

AfterRecover == IF act.kind = "network-change" THEN "reconcile" ELSE "begin"

\* Mutant: a lock that is present does not stop the operation.
RecoverIgnoringLock ==
  /\ At("recover")
  /\ Goto(AfterRecover)
  /\ UNCHANGED <<device, epoch, wanted, monitor, daemonVars>>

\* recoverStaleResetLock: a fresh lock refuses, a stale one is cleaned up.
Recover ==
  /\ At("recover")
  /\ CASE files.lock = "none"  -> Goto(AfterRecover)
       [] files.lock = "fresh" -> Fail("done")
       [] OTHER -> act' = [act EXCEPT !.pc = "enter", !.recovering = TRUE]
  /\ UNCHANGED <<device, epoch, wanted, monitor, daemonVars>>

\* Mutant: a restart begins like a stop.
BeginRestartAsStop ==
  /\ At("begin")
  /\ epoch' = epoch + 1
  /\ wanted' = (act.kind = "start")
  /\ act' = [act EXCEPT !.epoch = epoch',
                        !.pc = CASE act.kind = "start" -> "check"
                                 [] act.kind = "reset" -> "enter"
                                 [] OTHER              -> "halt"]
  /\ UNCHANGED <<device, monitor, daemonVars>>

\* Begin-start and begin-stop: the epoch says that the desire has changed.
Begin ==
  /\ At("begin")
  /\ epoch' = epoch + 1
  /\ wanted' = (act.kind \in {"start", "restart"})
  /\ act' = [act EXCEPT !.epoch = epoch',
                        !.pc = CASE act.kind = "start" -> "check"
                                 [] act.kind = "reset" -> "enter"
                                 [] OTHER              -> "halt"]
  /\ UNCHANGED <<device, monitor, daemonVars>>

\* Mutant: Start does not look at the state of the core.
CheckCoreAlwaysSpawns ==
  /\ At("check")
  /\ Goto("spawn")
  /\ UNCHANGED <<device, epoch, wanted, monitor, daemonVars>>

CheckCore ==
  /\ At("check")
  /\ Goto(IF CoreUp THEN "done" ELSE "spawn")
  /\ UNCHANGED <<device, epoch, wanted, monitor, daemonVars>>

\* A reload does not clean up: any lock refuses it.
CheckLock ==
  /\ At("lock")
  /\ IF files.lock = "none" THEN Goto("halt") ELSE Fail("done")
  /\ UNCHANGED <<device, epoch, wanted, monitor, daemonVars>>

AfterHalt == IF act.kind = "stop" THEN "kill"
             ELSE IF act.kind = "reload" /\ act.plan # "full" THEN "swap"
             ELSE IF core.state = "stopped" THEN "spawn" ELSE "kill"

\* stopSubsystems
Halt ==
  /\ At("halt")
  /\ monitor' = FALSE
  /\ Goto(AfterHalt)
  /\ UNCHANGED <<device, epoch, wanted, daemonVars>>

Kill ==
  /\ At("kill")
  /\ StopCore(TRUE)
  /\ Goto(IF act.kind = "stop" THEN "done" ELSE "spawn")
  /\ UNCHANGED <<epoch, wanted, monitor, daemonVars>>

\* A restart RESETs after a failed stop; a stop does so through the actor,
\* unless the actor held the runtime for stopped already.
KillFails ==
  /\ At("kill")
  /\ StopCore(FALSE)
  /\ \/ /\ act.kind # "stop"
        /\ Fail("enter")
        /\ UNCHANGED <<epoch, wanted>>
     \/ /\ act.kind = "stop"
        /\ Fail("done")
        /\ UNCHANGED <<epoch, wanted>>
     \/ /\ act.kind = "stop"
        /\ Fail("enter")
        /\ epoch' = epoch + 1
        /\ wanted' = FALSE
  /\ UNCHANGED <<monitor, daemonVars>>

Spawn ==
  /\ At("spawn")
  /\ StartCore
  /\ Goto("watch")
  /\ UNCHANGED <<epoch, wanted, monitor, daemonVars>>

\* No node is configured: the core is not asked.
SpawnWithoutNode ==
  /\ At("spawn")
  /\ Fail(AfterFailure)
  /\ UNCHANGED <<device, epoch, wanted, monitor, daemonVars>>

\* Only Start leaves it at the core's own roll-back.
SpawnFails ==
  /\ At("spawn")
  /\ StartCoreFails
  /\ Fail(IF act.kind = "start" THEN "mark" ELSE "enter")
  /\ UNCHANGED <<epoch, wanted, monitor, daemonVars>>

Swap ==
  /\ At("swap")
  /\ \/ SwapCore /\ Goto(IF act.plan = "swap+rules" THEN "reapply" ELSE "watch")
     \/ SwapRestored /\ Fail("done")
     \/ SwapFails /\ Fail("enter")
  /\ UNCHANGED <<epoch, wanted, monitor, daemonVars>>

Reconcile ==
  /\ At("reconcile")
  /\ Goto(IF CoreUp /\ ~SkipReconcile THEN "reapply" ELSE "done")
  /\ UNCHANGED <<device, epoch, wanted, monitor, daemonVars>>

Reapply ==
  /\ At("reapply")
  /\ \/ /\ rules' = TRUE
        /\ Goto(IF act.kind = "reload" THEN "watch" ELSE "gate")
     \/ /\ rules' \in BOOLEAN
        /\ Fail("enter")
  /\ UNCHANGED <<core, stray, files, epoch, wanted, monitor, daemonVars>>

\* ResetRescueState, startSubsystems
Watch ==
  /\ At("watch")
  /\ monitor' = TRUE
  /\ Goto("gate")
  /\ UNCHANGED <<device, epoch, wanted, daemonVars>>

\* The gate after a hot swap reads the health through the actor, which hands
\* out the last snapshot while another refresh runs.
MayPassGate == \/ core.proc = "alive" /\ rules
               \/ act.kind = "reload" /\ act.plan # "full"

\* Mutant: a failed readiness gate is only reported.
GateWithoutReset ==
  /\ At("gate")
  /\ \/ MayPassGate /\ Goto("done")
     \/ Fail(AfterFailure)
  /\ UNCHANGED <<device, epoch, wanted, monitor, daemonVars>>

Gate ==
  /\ At("gate")
  /\ \/ MayPassGate /\ Goto("done")
     \/ Fail("enter")
  /\ UNCHANGED <<device, epoch, wanted, monitor, daemonVars>>

\* markRuntimeStartFailed
Mark ==
  /\ At("mark")
  /\ wanted' = (wanted /\ epoch # act.epoch)
  /\ Goto("done")
  /\ UNCHANGED <<device, epoch, monitor, daemonVars>>

-----------------------------------------------------------------------------
(* The reset controller (Controller.Run)                                   *)

\* A step of the RESET that ends well or adds an error to the report.
ResetStep(from, to, ok) ==
  /\ At(from)
  /\ act' = [act EXCEPT !.pc = to, !.broken = @ \/ ~ok]
  /\ UNCHANGED <<epoch, wanted, daemonVars>>

EnterReset ==
  /\ LET locked == [files EXCEPT !.lock = "fresh", !.marker = FALSE] IN
     \/ ResetStep("enter", "quiet", TRUE) /\ files' = [locked EXCEPT !.manual = TRUE]
     \/ ResetStep("enter", "quiet", FALSE) /\ files' \in {files, locked}
  /\ UNCHANGED <<core, rules, stray, monitor>>

QuietReset ==
  /\ ResetStep("quiet", "scour", TRUE)
  /\ monitor' = FALSE
  /\ UNCHANGED device

ScourReset ==
  /\ \E ok \in BOOLEAN : ResetStep("scour", "script", ok) /\ StopCore(ok)
  /\ UNCHANGED monitor

\* rescue_reset.sh daemon-reset: it touches the lock, sets manual mode, kills
\* every sing-box of ours and removes the rules.  It fails when rules are left
\* over, when it runs out of time anywhere, and when it is not there.
ScriptFiles == [lock |-> IF files.lock = "none" THEN "fresh" ELSE files.lock,
                marker |-> FALSE, manual |-> TRUE]

\* Mutant: daemon-reset leaves sing-box processes alone.
ScriptSparingStrays ==
  \/ /\ ResetStep("script", IF act.broken THEN "leave" ELSE "clear", TRUE)
     /\ files' = ScriptFiles /\ rules' = FALSE
     /\ UNCHANGED <<core, stray, monitor>>
  \/ /\ ResetStep("script", "leave", FALSE)
     /\ files' \in {files, ScriptFiles} /\ rules' \in {rules, FALSE}
     /\ UNCHANGED <<core, stray, monitor>>

ScriptReset ==
  \/ /\ ResetStep("script", IF act.broken THEN "leave" ELSE "clear", TRUE)
     /\ files' = ScriptFiles /\ rules' = FALSE /\ stray' = FALSE
     /\ UNCHANGED <<core, monitor>>
  \/ /\ ResetStep("script", "leave", FALSE)
     /\ files' \in {files, ScriptFiles,
                    [ScriptFiles EXCEPT !.manual = files.manual]}
     /\ rules' \in {rules, FALSE} /\ stray' \in {stray, FALSE}
     /\ UNCHANGED <<core, monitor>>

\* The core manager, the rescue counters and the health results are forgotten.
ClearReset ==
  /\ ResetStep("clear", "sweep", TRUE)
  /\ core' = Stopped
  /\ files' = [files EXCEPT !.marker = FALSE]
  /\ UNCHANGED <<rules, stray, monitor>>

\* remove-stale-runtime-files may fail; verify-cleanup can only warn.
SweepReset ==
  /\ \E ok \in BOOLEAN : ResetStep("sweep", "leave", ok)
  /\ UNCHANGED <<device, monitor>>

\* What follows the RESET.
AfterReset(broken) ==
  IF act.recovering
    THEN IF broken THEN [act EXCEPT !.pc = "done", !.err = TRUE]
                   ELSE [act EXCEPT !.pc = AfterRecover, !.recovering = FALSE]
    ELSE IF act.kind = "reset"
           THEN [act EXCEPT !.pc = "done", !.err = broken, !.broken = broken]
           ELSE [act EXCEPT !.pc = AfterFailure]

LeaveReset ==
  /\ At("leave")
  /\ \/ files' = [files EXCEPT !.lock = "none"] /\ act' = AfterReset(act.broken)
     \/ files.lock # "none" /\ act' = AfterReset(TRUE) /\ UNCHANGED files
  /\ UNCHANGED <<core, rules, stray, epoch, wanted, monitor, daemonVars>>

Done ==
  /\ At("done")
  /\ act' = NoAct
  /\ UNCHANGED <<device, epoch, wanted, monitor, daemonVars>>

-----------------------------------------------------------------------------
(* The environment                                                         *)

CoreDies ==
  /\ core.proc = "alive"
  /\ core' = [core EXCEPT !.proc = "dead"]
  /\ UNCHANGED <<up, rules, stray, files, epoch, wanted, monitor, act, reload, autostart>>

StrayExits ==
  /\ stray
  /\ stray' = FALSE
  /\ UNCHANGED <<up, core, rules, files, epoch, wanted, monitor, act, reload, autostart>>

\* Ten minutes have passed since EnterResetMode; a RESET does not take that long.
ResetSteps == {"enter", "quiet", "scour", "script", "clear", "sweep", "leave"}

LockExpires ==
  /\ files.lock = "fresh" /\ act.pc \notin ResetSteps
  /\ files' = [files EXCEPT !.lock = "stale"]
  /\ UNCHANGED <<up, core, rules, stray, epoch, wanted, monitor, act, reload, autostart>>

\* What a step may have done to the rules and the files when it is cut short.
HalfRules(pc) ==
  CASE pc \in {"spawn", "reapply"}                 -> BOOLEAN
    [] pc \in {"kill", "swap", "scour", "script"}  -> {rules, FALSE}
    [] OTHER                                       -> {rules}

HalfFiles(pc) ==
  CASE pc \in {"spawn", "swap"} ->
         {files, [files EXCEPT !.marker = TRUE],
          [files EXCEPT !.marker = TRUE, !.manual = FALSE],
          [files EXCEPT !.marker = FALSE]}
    [] pc \in {"kill", "scour"} -> {files, [files EXCEPT !.marker = FALSE]}
    [] pc = "enter"  -> {files, [files EXCEPT !.lock = "fresh"],
                         [files EXCEPT !.lock = "fresh", !.marker = FALSE]}
    [] pc = "script" -> {files, [ScriptFiles EXCEPT !.manual = files.manual],
                         ScriptFiles}
    [] OTHER         -> {files}

\* The daemon is killed during pc: its memory is gone, and a sing-box that
\* lives on is nobody's child.
CrashDuring(pc) ==
  /\ up
  /\ up' = FALSE
  /\ core' = Stopped
  /\ stray' \in {stray \/ core.proc = "alive" \/ pc \in {"spawn", "swap"}, FALSE}
  /\ rules' \in HalfRules(pc)
  /\ files' \in HalfFiles(pc)
  /\ epoch' = 0
  /\ wanted' = FALSE
  /\ monitor' = FALSE
  /\ act' = NoAct
  /\ reload' = "none"
  /\ autostart' = "off"

Crash == CrashDuring(act.pc)

Relaunched ==
  /\ ~up
  /\ up' = TRUE
  /\ autostart' = IF MayAutostart THEN "pending" ELSE "off"
  /\ UNCHANGED <<core, epoch, wanted, monitor, act, reload>>

\* The app's repair starts the daemon alone, and not while the lock is there.
AppRepair ==
  /\ files.lock = "none"
  /\ Relaunched
  /\ UNCHANGED <<rules, stray, files>>

\* A boot: the kernel forgets, service.sh cleans up what files show.
Boot ==
  /\ Relaunched
  /\ rules' = FALSE
  /\ stray' = FALSE
  /\ files' = [files EXCEPT !.lock = "none", !.marker = FALSE]

-----------------------------------------------------------------------------
Init ==
  /\ up = TRUE
  /\ core = Stopped
  /\ rules = FALSE
  /\ stray = FALSE
  /\ files \in [lock : {"none"}, marker : {FALSE}, manual : BOOLEAN]
  /\ epoch = 0
  /\ wanted = FALSE
  /\ monitor = FALSE
  /\ act = NoAct
  /\ reload = "none"
  /\ autostart = IF MayAutostart THEN "pending" ELSE "off"

Requests == \/ Request \/ SampleReload \/ SubmitReload \/ ReloadBusy
            \/ AutostartCheck \/ AutostartSubmit \/ AutostartBusy

\* The steps that rely on the subsystems' own code come apart for Rescue.tla.
PlainSteps ==
  \/ Recover \/ Begin \/ CheckCore \/ CheckLock \/ Kill \/ KillFails
  \/ Spawn \/ SpawnWithoutNode \/ SpawnFails \/ Swap \/ Reconcile \/ Reapply
  \/ Gate \/ Mark \/ EnterReset \/ ScourReset \/ ScriptReset \/ SweepReset
  \/ LeaveReset \/ Done

MonitorSteps == Halt \/ Watch \/ QuietReset \/ ClearReset

Environment == CoreDies \/ StrayExits \/ LockExpires \/ AppRepair \/ Boot

Next == Requests \/ PlainSteps \/ MonitorSteps \/ Environment \/ Crash

Spec == Init /\ [][Next]_rootVars

-----------------------------------------------------------------------------
(* Properties                                                              *)

RootTypeOK(kinds, steps) ==
  /\ up \in BOOLEAN
  /\ core \in Core
  /\ rules \in BOOLEAN
  /\ stray \in BOOLEAN
  /\ files \in Files
  /\ epoch \in 0..MaxEpoch + 1
  /\ wanted \in BOOLEAN
  /\ monitor \in BOOLEAN
  /\ act \in Act(kinds, steps)
  /\ reload \in Plans \cup {"none"}
  /\ autostart \in {"off", "pending", "checked"}

\* Every variable has its type.
TypeOK == RootTypeOK(Kinds, Steps)

\* No sing-box is brought up while reset.lock is there, whoever left it: the
\* check of the lock and the spawn are many steps apart, and a crash or a
\* failed RESET may leave the lock behind (CHANGELOG: Root start/restart fails
\* early during active reset).
Spawned == core.proc = "none" /\ core'.proc # "none"

NoStartUnderResetLock == [][Spawned => files.lock = "none"]_rootVars

\* An operation that reports success has not left rules that send traffic to
\* a sing-box nobody tracks.  (A network change on a stopped runtime does
\* nothing, and reports success over the leftovers of a crash.)
SuccessLeavesNoBlackhole ==
  act.pc = "done" /\ ~act.err /\ act.kind # "network-change" /\ rules
    => core.proc # "none" /\ CoreUp

\* A start or a restart that fails leaves no sing-box tracked and none of the
\* subsystems that would act on one, on every one of its error paths.
FailedStartStopsCore ==
  act.pc = "done" /\ act.err /\ act.kind \in {"start", "restart"}
    => core = Stopped /\ ~monitor

\* A reset that reports no error has removed what earlier operations, crashes
\* and failed clean-ups left: processes, rules, the lock and the marker; and
\* nothing restarts by itself.
ResetLeavesNothing ==
  act.pc = "done" /\ act.kind = "reset" /\ ~act.err
    => /\ core = Stopped /\ ~rules /\ ~stray
       /\ files = [lock |-> "none", marker |-> FALSE, manual |-> TRUE]
       /\ ~monitor /\ ~wanted

=============================================================================
