------------------------------ MODULE CoreManager ------------------------------
(***************************************************************************)
(* Start, Stop and HotSwap of the core manager, step by step: the two      *)
(* child processes with their PID files, the rendered configurations, the  *)
(* rules, and what the manager remembers of the runtime for a roll-back.   *)
(* A call holds m.mu to its end, so calls never overlap; any step of one   *)
(* may fail, and the daemon may be killed at any step.                     *)
(*                                                                         *)
(* RootRuntime.tla takes every call for one step.  CallContract shows that *)
(* a call leaves behind what that module says of it.                       *)
(***************************************************************************)
EXTENDS Netstack

CONSTANTS
  Configs,     \* configurations without the active node
  Nodes,       \* profiles that may be active
  XrayNodes    \* those that need the Xray sidecar

\* No configuration and no node is called like the lack of one.
ASSUME CoreManagerAssumption == XrayNodes \subseteq Nodes /\ "none" \notin Configs \cup Nodes

Programs == {"sing-box", "xray"}
NoSetup == [config |-> "none", node |-> "none"]
Needs(setup) == setup.node \in XrayNodes

VARIABLES
  state,     \* m.state
  proc,      \* proc[p]: the tracked child, and the setup it was started with
  stray,     \* stray[p]: another p of ours runs
  pid,       \* pid[p]: which of the two the PID file names
  config,    \* m.config
  running,   \* m.runningConfig and m.runningProfile
  rendered,  \* singbox.json and xray-xhttp.json
  rules,     \* the parts of the rules that are installed
  files,     \* the active marker and the manual flag
  at,        \* the next step of the call
  call,      \* the call: what it is for, and how it has gone
  answer,    \* how the last call ended
  seen,      \* what RootRuntime.tla sees of the state before the call
  blurred    \* history: running was overwritten with what does not run

memory == <<config, running>>
disk == <<rendered, rules, files>>
children == <<proc, stray, pid>>
vars == <<state, children, memory, disk, at, call, answer, seen, blurred>>

NoProcess == [life |-> "none", setup |-> NoSetup]
NoCall == [op |-> "none", setup |-> NoSetup, back |-> FALSE, ok |-> TRUE, dirty |-> FALSE]

View == [core  |-> [state |-> state, proc |-> proc["sing-box"].life],
         rules |-> Installed(rules), stray |-> stray["sing-box"],
         files |-> [lock |-> "none", marker |-> files.marker, manual |-> files.manual]]
NoView == [core |-> [state |-> "stopped", proc |-> "none"], rules |-> FALSE, stray |-> FALSE,
           files |-> [lock |-> "none", marker |-> FALSE, manual |-> FALSE]]
Outside == IF at = "idle" THEN View ELSE seen

Assumed == INSTANCE RootRuntime WITH
  MayAutostart <- FALSE, ReloadPlans <- {}, MaxEpoch <- 1,
  up <- TRUE, core <- Outside.core, rules <- Outside.rules, stray <- Outside.stray,
  files <- Outside.files, epoch <- 0, wanted <- FALSE, monitor <- FALSE, act <- "none",
  reload <- "none", autostart <- "off"

-----------------------------------------------------------------------------
(* A call                                                                  *)

At(step, op) == at = step /\ call.op = op
Goto(step) == at' = step /\ UNCHANGED <<call, answer, seen>>

Begin(op, setup, step) ==
  /\ at = "idle" /\ at' = step
  /\ call' = [NoCall EXCEPT !.op = op, !.setup = setup]
  /\ seen' = View
  /\ UNCHANGED <<answer, blurred>>

End(outcome) == at' = "idle" /\ call' = NoCall /\ answer' = outcome /\ seen' = NoView

\* What is being brought up: the setup of the call, or the one it replaced.
Target == IF call.back THEN running ELSE call.setup

\* cleanupAndDegrade: a swap that fails goes back to the runtime before it, once.
Undo == IF ~call.back /\ running # NoSetup THEN "restore" ELSE "degrade"

-----------------------------------------------------------------------------
(* Children                                                                *)

\* A roll-back renders Xray again, but sing-box gets singbox.json as it is.
Given(p) == IF call.back /\ p = "sing-box" THEN rendered[p] ELSE Target

\* Mutant: the PID file is only written by a start.
SpawnedUnrecorded(p) ==
  /\ proc' = [proc EXCEPT ![p] = [life |-> "alive", setup |-> Given(p)]]
  /\ pid' = [pid EXCEPT ![p] = IF call.back THEN @ ELSE "tracked"]
  /\ UNCHANGED stray

Spawned(p) ==
  /\ proc' = [proc EXCEPT ![p] = [life |-> "alive", setup |-> Given(p)]]
  /\ pid' = [pid EXCEPT ![p] = "tracked"]
  /\ UNCHANGED stray

\* killProcessWithTimeout and stopXraySidecar: a tracked child may outlive
\* SIGKILL by two seconds, which is an error; with none tracked, the PID file may
\* lead to another one, which is signalled and not waited for.  Either way p is
\* forgotten.
Killed(p, ok) ==
  /\ proc' = [proc EXCEPT ![p] = NoProcess]
  /\ pid' = [pid EXCEPT ![p] = "none"]
  /\ \E s \in BOOLEAN :
       /\ stray' = [stray EXCEPT ![p] = s]
       /\ CASE proc[p].life = "alive"                    -> s = (stray[p] \/ ~ok)
            [] proc[p].life = "none" /\ pid[p] = "stray" -> s \in {stray[p], FALSE}
            [] OTHER                                     -> s = stray[p] /\ ok

\* The roll-backs do not look at the result, and for sing-box not at the PID file
\* of another one: two seconds after the signal the child is forgotten.
DroppedXray == \E ok \in BOOLEAN : Killed("xray", ok)
DroppedCore ==
  /\ proc' = [proc EXCEPT !["sing-box"] = NoProcess]
  /\ pid' = [pid EXCEPT !["sing-box"] = "none"]
  /\ \E outlives \in BOOLEAN :
       /\ outlives => proc["sing-box"].life = "alive"
       /\ stray' = [stray EXCEPT !["sing-box"] = @ \/ outlives]

\* waitForPortOrExit asks whether somebody listens: a stray p may, where the child
\* has died of its occupied ports.  Nobody asks again in the rest of the call.
Listening(p) == (proc[p].life = "alive" \/ stray[p]) /\ UNCHANGED proc

-----------------------------------------------------------------------------
(* Start                                                                   *)

\* Nothing is tracked when the daemon asks (StartNeverOrphans of Rescue.tla).
Start(node) ==
  /\ state = "running" \/ proc["sing-box"] = NoProcess
  /\ Begin("start", [config |-> config, node |-> node],
           IF state = "running" THEN "refuse" ELSE "render")
  /\ state' = IF state = "running" THEN state ELSE "starting"
  /\ UNCHANGED <<children, memory, disk>>

Refuse ==
  /\ at = "refuse" /\ End("failed")
  /\ UNCHANGED <<state, children, memory, disk, blurred>>

XrayFile == [rendered EXCEPT !["xray"] = IF Needs(Target) THEN Target ELSE NoSetup]

\* Both files are written and checked before anything is spawned.
RenderForStart ==
  /\ At("render", "start")
  /\ rendered' = [XrayFile EXCEPT !["sing-box"] = Target]
  /\ Goto(IF Needs(Target) THEN "xray" ELSE "core")
  /\ UNCHANGED <<state, children, memory, rules, files, blurred>>

RenderForStartFails ==
  /\ At("render", "start")
  /\ rendered' \in {rendered, XrayFile, [XrayFile EXCEPT !["sing-box"] = Target]}
  /\ state' = "stopped" /\ End("failed")
  /\ UNCHANGED <<children, memory, rules, files, blurred>>

SpawnXray ==
  /\ at = "xray" /\ Spawned("xray") /\ Goto("wait")
  /\ UNCHANGED <<state, memory, disk, blurred>>

\* The one failure of Start that leaves an older Xray alone
SpawnXrayFails ==
  /\ at = "xray"
  /\ \/ call.op = "start" /\ state' = "stopped" /\ End("failed")
     \/ call.op = "swap" /\ Goto(Undo) /\ UNCHANGED state
  /\ UNCHANGED <<children, memory, disk, blurred>>

WaitXray ==
  /\ at = "wait"
  /\ \/ Listening("xray") /\ Goto("core")
     \/ UNCHANGED proc /\ Goto(IF call.op = "start" THEN "unwind" ELSE Undo)
  /\ UNCHANGED <<state, stray, pid, memory, disk, blurred>>

SpawnCore ==
  /\ at = "core" /\ Spawned("sing-box") /\ Goto("listen")
  /\ UNCHANGED <<state, memory, disk, blurred>>

SpawnCoreFails ==
  /\ at = "core" /\ Goto(IF call.op = "start" THEN "unwind" ELSE Undo)
  /\ UNCHANGED <<state, children, memory, disk, blurred>>

\* waitRuntimeListeners, and for Start VerifyChainedProxyOwnerPackages
WaitListeners ==
  /\ at = "listen"
  /\ \/ Listening("sing-box") /\ Goto(IF call.op = "start" THEN "apply" ELSE "commit")
     \/ UNCHANGED proc /\ Goto(IF call.op = "start" THEN "rollback" ELSE Undo)
  /\ UNCHANGED <<state, stray, pid, memory, disk, blurred>>

OwnersDiffer ==
  /\ At("apply", "start") /\ Goto("rollback")
  /\ UNCHANGED <<state, children, memory, disk, blurred>>

\* A step of netstack: the rules it leaves, and where the call goes on.
Net(reports, well, ill) ==
  /\ \E r \in reports :
       /\ rules' = r.rules
       /\ at' = IF r.ok THEN well ELSE ill
       /\ call' = [call EXCEPT !.dirty = @ \/ r.dirty]
  /\ UNCHANGED <<answer, seen, state, children, memory, rendered, files, blurred>>

ApplyRules == At("apply", "start") /\ Net(Applies(rules), "verify", "clean")
VerifyRules == At("verify", "start") /\ Net(Verifies(rules), "commit", "clean")
CleanAfterStart == At("clean", "start") /\ Net(CleanUps(rules), "rollback", "rollback")

Rollback ==
  /\ at = "rollback" /\ DroppedCore
  /\ running' = NoSetup /\ state' = "stopped" /\ Goto("unwind")
  /\ UNCHANGED <<config, disk, blurred>>

\* A start that fails stops the sidecar last and does not look at the result.
Unwind ==
  /\ at = "unwind" /\ DroppedXray
  /\ state' = "stopped" /\ End("failed")
  /\ UNCHANGED <<memory, disk, blurred>>

CommitStart ==
  /\ At("commit", "start")
  /\ running' = Target /\ state' = "running"
  /\ files' = [marker |-> TRUE, manual |-> FALSE] /\ End("ok")
  /\ blurred' = FALSE
  /\ UNCHANGED <<children, config, rendered, rules>>

-----------------------------------------------------------------------------
(* Stop and RescueReset                                                    *)

Stop ==
  /\ Begin("stop", NoSetup, "clean")
  /\ state' = "stopping" /\ files' = [files EXCEPT !.marker = FALSE]
  /\ UNCHANGED <<children, memory, rendered, rules>>

CleanForStop == At("clean", "stop") /\ Net(CleanUps(rules), "kill", "kill")

\* The first error of the call is its answer.
KillStep(step, p, next) ==
  /\ At(step, "stop")
  /\ \E ok \in BOOLEAN :
       /\ Killed(p, ok)
       /\ call' = [call EXCEPT !.ok = @ /\ ok]
  /\ at' = next
  /\ UNCHANGED <<answer, seen, state, memory, disk, blurred>>

KillCore == KillStep("kill", "sing-box", "killXray")
KillXray == KillStep("killXray", "xray", "forget")

Forget ==
  /\ at = "forget"
  /\ running' = NoSetup /\ state' = "stopped"
  /\ End(IF call.ok /\ ~call.dirty THEN "ok" ELSE "failed")
  /\ blurred' = FALSE
  /\ UNCHANGED <<children, config, disk>>

-----------------------------------------------------------------------------
(* HotSwap                                                                 *)

\* It does not look at the state: when the runtime was stopped since the reload
\* looked (ConfigApply.tla), there is no old core to stop, and sing-box is started.
HotSwap(node) ==
  /\ Begin("swap", [config |-> config, node |-> node], "render")
  /\ UNCHANGED <<state, children, memory, disk>>

\* Mutant: the new configuration overwrites the one that runs.
RenderForSwapInPlace ==
  /\ At("render", "swap")
  /\ \/ rendered' = [XrayFile EXCEPT !["sing-box"] = Target] /\ Goto("killOld")
     \/ rendered' \in {rendered, XrayFile} /\ End("failed")
  /\ UNCHANGED <<state, children, memory, rules, files, blurred>>

\* sing-box is rendered and checked beside singbox.json, Xray in place.
RenderForSwap ==
  /\ At("render", "swap")
  /\ \/ rendered' = XrayFile /\ Goto("killOld")
     \/ rendered' \in {rendered, XrayFile} /\ End("failed")
  /\ UNCHANGED <<state, children, memory, rules, files, blurred>>

\* An old core that does not die within 1.2 and 2 seconds stays tracked.
KillOld ==
  /\ at = "killOld"
  /\ \/ /\ proc["sing-box"].life = "alive"
        /\ End("failed")
        /\ UNCHANGED <<state, children>>
     \/ /\ proc' = [proc EXCEPT !["sing-box"] = NoProcess]
        /\ state' = "starting" /\ Goto("sidecar")
        /\ UNCHANGED <<stray, pid>>
  /\ UNCHANGED <<memory, disk, blurred>>

\* Mutant: only a node that needs Xray makes the old one stop.
StopOldXrayIfNeeded ==
  /\ at = "sidecar"
  /\ IF Needs(Target) THEN \E ok \in BOOLEAN : Killed("xray", ok) /\ Goto(IF ok THEN "xray" ELSE Undo)
     ELSE UNCHANGED children /\ Goto("core")
  /\ UNCHANGED <<state, memory, disk, blurred>>

StopOldXray ==
  /\ at = "sidecar"
  /\ \E ok \in BOOLEAN :
       /\ Killed("xray", ok)
       /\ Goto(IF ~ok THEN Undo ELSE IF Needs(Target) THEN "xray" ELSE "core")
  /\ UNCHANGED <<state, memory, disk, blurred>>

\* The rename of the new configuration over the old one may fail.
CommitSwap ==
  /\ At("commit", "swap") /\ ~call.back
  /\ rendered' = [rendered EXCEPT !["sing-box"] = Target]
  /\ running' = Target /\ state' = "running"
  /\ files' = [marker |-> TRUE, manual |-> FALSE] /\ End("ok")
  /\ blurred' = FALSE
  /\ UNCHANGED <<children, config, rules>>

CommitSwapFails ==
  /\ At("commit", "swap") /\ ~call.back /\ Goto(Undo)
  /\ UNCHANGED <<state, children, memory, disk, blurred>>

\* restorePreviousRuntimeAfterHotSwapFailure: the new children go, the manager
\* takes the old configuration back, for good.
Restore ==
  /\ at = "restore" /\ DroppedCore
  /\ at' = "restoreXray" /\ call' = [call EXCEPT !.back = TRUE]
  /\ UNCHANGED <<answer, seen, state, memory, disk, blurred>>

RestoreXray ==
  /\ at = "restoreXray" /\ DroppedXray
  /\ config' = running.config
  /\ \/ rendered' = XrayFile /\ Goto(IF Needs(Target) THEN "xray" ELSE "core")
     \/ rendered' \in {rendered, XrayFile} /\ Goto("degrade")
  /\ UNCHANGED <<state, running, rules, files, blurred>>

CommitRestore ==
  /\ At("commit", "swap") /\ call.back
  /\ state' = "running" /\ files' = [files EXCEPT !.marker = TRUE] /\ End("preserved")
  /\ UNCHANGED <<children, memory, rendered, rules, blurred>>

Degrade ==
  /\ at = "degrade" /\ DroppedCore
  /\ \E r \in CleanUps(rules) :
       rules' = r.rules /\ call' = [call EXCEPT !.dirty = @ \/ r.dirty]
  /\ running' = NoSetup /\ state' = "degraded" /\ at' = "unmark"
  /\ UNCHANGED <<answer, seen, config, rendered, files, blurred>>

\* Mutant: a swap that has lost the runtime leaves the active marker.
DegradeMarked ==
  /\ at = "unmark" /\ DroppedXray /\ End("failed")
  /\ UNCHANGED <<state, memory, disk, blurred>>

Unmark ==
  /\ at = "unmark" /\ DroppedXray /\ End("failed")
  /\ files' = [files EXCEPT !.marker = FALSE]
  /\ UNCHANGED <<state, memory, rendered, rules, blurred>>

-----------------------------------------------------------------------------
(* Calls of one step                                                       *)

Idle == at = "idle" /\ UNCHANGED <<at, call, answer, seen>>

SetConfig ==
  /\ Idle /\ config' \in Configs
  /\ UNCHANGED <<state, children, running, disk, blurred>>

\* The health monitor and the rescue
SetState ==
  /\ Idle /\ state' \in {"degraded", "rescue"} \cup (IF state = "stopped" THEN {} ELSE {"running"})
  /\ UNCHANGED <<children, memory, disk, blurred>>

\* A selector switch reached sing-box, when neither node needed Xray.  The request
\* is not an operation of the actor and may wait for m.mu behind any call, so that
\* nothing need run any more, or another node.  What is remembered is the
\* configuration of the manager, which need not be the one sing-box was given.
MarkSelectorActive(node) ==
  /\ Idle /\ node \notin XrayNodes
  /\ running' = [config |-> config, node |-> node]
  /\ blurred' = (blurred \/ config # running.config \/ Needs(running))
  /\ UNCHANGED <<state, children, config, disk>>

\* After rescue_reset.sh has killed all there is
ResetState ==
  /\ Idle /\ \A p \in Programs : proc[p].life # "alive"
  /\ proc' = [p \in Programs |-> NoProcess] /\ pid' = [p \in Programs |-> "none"]
  /\ running' = NoSetup /\ state' = "stopped" /\ files' = [files EXCEPT !.marker = FALSE]
  /\ blurred' = FALSE
  /\ UNCHANGED <<stray, config, rendered, rules>>

-----------------------------------------------------------------------------
(* The environment                                                         *)

\* The sing-box that the call found has not been killed yet.
OldCore == call.op = "stop" \/ at \in {"refuse", "render", "killOld"}

\* At any moment, of a call too.  For RootRuntime.tla, what the call found died
\* before it, and what it spawned is dead when it ends.
ChildDies ==
  /\ \E p \in Programs :
       /\ proc[p].life = "alive" /\ proc' = [proc EXCEPT ![p].life = "dead"]
       /\ seen' = IF p = "sing-box" /\ at # "idle" /\ OldCore
                    THEN [seen EXCEPT !.core.proc = "dead"] ELSE seen
  /\ UNCHANGED <<state, stray, pid, memory, disk, at, call, answer, blurred>>

StrayDies ==
  /\ \E p \in Programs : /\ stray[p] /\ stray' = [stray EXCEPT ![p] = FALSE]
                         /\ pid' = IF pid[p] = "stray" THEN [pid EXCEPT ![p] = "none"] ELSE pid
  /\ seen' = [seen EXCEPT !.stray = @ /\ stray'["sing-box"]]
  /\ UNCHANGED <<state, proc, memory, disk, at, call, answer, blurred>>

\* The daemon dies and is started again: its children live on, and one that was
\* just spawned may not be in its PID file yet.
Crash ==
  /\ stray' = [p \in Programs |-> stray[p] \/ proc[p].life = "alive"]
  /\ pid' \in {[p \in Programs |-> IF proc[p].life # "alive" THEN
                                     IF pid[p] = "stray" THEN "stray" ELSE "none"
                                   ELSE IF p = late THEN "none" ELSE "stray"]
                 : late \in CASE at = "wait" -> {"xray", "none"} [] at = "listen" -> {"sing-box", "none"}
                              [] OTHER -> {"none"}}
  /\ proc' = [p \in Programs |-> NoProcess]
  /\ state' = "stopped" /\ config' \in Configs /\ running' = NoSetup
  /\ at' = "idle" /\ call' = NoCall /\ answer' = "crashed" /\ seen' = NoView
  /\ blurred' = FALSE
  /\ UNCHANGED <<rendered, rules, files>>

Init ==
  /\ state = "stopped" /\ config \in Configs /\ running = NoSetup
  /\ proc = [p \in Programs |-> NoProcess] /\ stray = [p \in Programs |-> FALSE]
  /\ pid = [p \in Programs |-> "none"] /\ rendered = [p \in Programs |-> NoSetup]
  /\ rules = NoRules /\ files \in [marker : {FALSE}, manual : BOOLEAN]
  /\ at = "idle" /\ call = NoCall /\ answer = "none" /\ seen = NoView /\ blurred = FALSE

Calls == \/ \E node \in Nodes : Start(node) \/ HotSwap(node) \/ MarkSelectorActive(node)
         \/ Stop \/ SetConfig \/ SetState \/ ResetState

StartSteps == \/ Refuse \/ RenderForStart \/ RenderForStartFails \/ OwnersDiffer \/ ApplyRules
              \/ VerifyRules \/ CleanAfterStart \/ Rollback \/ Unwind \/ CommitStart
SpawnSteps == \/ SpawnXray \/ SpawnXrayFails \/ WaitXray \/ SpawnCore \/ SpawnCoreFails
              \/ WaitListeners
StopSteps == CleanForStop \/ KillCore \/ KillXray \/ Forget
SwapSteps == \/ RenderForSwap \/ KillOld \/ StopOldXray \/ CommitSwap \/ CommitSwapFails
             \/ Restore \/ RestoreXray \/ CommitRestore \/ Degrade \/ Unmark
Environment == ChildDies \/ StrayDies \/ Crash

Next == Calls \/ StartSteps \/ SpawnSteps \/ StopSteps \/ SwapSteps \/ Environment

Spec == Init /\ [][Next]_vars

-----------------------------------------------------------------------------
(* Properties                                                              *)

Ended(op) == At(at, op) /\ at # "idle" /\ at' = "idle" /\ answer' # "crashed"

\* A running core has the sidecar of the node it was given, or none if that needs none.
ServedByXray ==
  IF Needs(proc["sing-box"].setup)
    THEN proc["xray"].setup.node = proc["sing-box"].setup.node ELSE proc["xray"] = NoProcess

\* Whatever fails or dies on the way, a call leaves the state, the process, the
\* rules and the files as one step of RootRuntime.tla does, which the actor's
\* guarantees are proved from.  A start or a swap that reports a running core has
\* given it its sidecar; so has a roll-back to what the manager rightly remembers.
CallContract == [][
  /\ Ended("start") => IF answer' = "ok" THEN Assumed!StartCore ELSE Assumed!StartCoreFails
  /\ Ended("stop") => Assumed!StopCore(answer' = "ok")
  /\ Ended("swap") => CASE answer' = "ok"        -> Assumed!SwapCore
                        [] answer' = "preserved" -> Assumed!SwapRestored
                        [] OTHER                 -> Assumed!SwapFails
  /\ (Ended("start") \/ Ended("swap"))
     /\ (answer' = "ok" \/ (answer' = "preserved" /\ ~blurred)) => ServedByXray']_vars

\* singbox.json is what the tracked sing-box was started with, after swaps that
\* failed at any step too ("the active config stays intact until the new core has
\* proved its listeners", HotSwap), and there is something to go back to.  Unless a
\* selector switch came late or with another configuration, the manager remembers
\* the configuration of that sing-box, and none when there is none.
RunningIsWhatRuns == at = "idle" =>
  /\ proc["sing-box"] # NoProcess =>
       running # NoSetup /\ proc["sing-box"].setup = rendered["sing-box"]
  /\ ~blurred => /\ running = NoSetup <=> proc["sing-box"] = NoProcess
                 /\ running # NoSetup => running.config = proc["sing-box"].setup.config

\* The PID file names every child that is alive: after a crash of the daemon it is
\* how Stop and rescue_reset.sh find the process.
PidFileFindsIt == at = "idle" =>
  \A p \in Programs : proc[p].life = "alive" => pid[p] = "tracked"
=============================================================================
