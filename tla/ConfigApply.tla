------------------------------ MODULE ConfigApply ------------------------------
(***************************************************************************)
(* How a change of the configuration reaches the two files, the daemon and *)
(* the runtime.  Every request has a goroutine of its own, no lock spans a *)
(* mutation, and a handler outlives the time-out of its request, so two    *)
(* mutations may run at once; SIGHUP makes the daemon read the files       *)
(* again.  A configuration is reduced to the parts that decide how it is   *)
(* applied:                                                                *)
(*   node   the active node; another one takes a selector switch           *)
(*   dns    anything that only the core reads; takes a hot swap            *)
(*   rules  the script environment; takes a hot swap and the rules again   *)
(*   root   what only config.json holds (ports); takes a full restart      *)
(***************************************************************************)
EXTENDS Naturals

CONSTANTS
  Requests,      \* handlers of mutations; "hup" is the signal loop
  Changes,       \* what a request asks for: [kind, reload, part, value]
  First,         \* the configuration at the start
  Sidecar,       \* nodes that need Xray
  BadValues,     \* values of dns that Validate or the renderer refuses
  MaxMutations,  \* bound on mutations and reloads
  MaxFaults      \* bound on failing writes, failing reloads and crashes

Parts == {"node", "dns", "rules", "root"}

\* A configuration has these parts; a change of the profile is one of what the profile decides.
ASSUME FirstAssumption == First = [p \in Parts |-> First[p]]
ASSUME ChangesAssumption ==
  \A c \in Changes : c.part \in Parts /\ c.reload \in BOOLEAN /\ (c.kind = "profile" => c.part # "root")
ASSUME RequestsAssumption == "hup" \notin Requests

Files == {"profile", "config"}
Actors == Requests \union {"hup"}
Missing == [kind |-> "missing"]   \* no such file
Empty == [kind |-> "empty"]       \* truncated, not yet written
Torn == [kind |-> "torn"]         \* one document over a longer one
NoRules == [kind |-> "none"]      \* no rules in the kernel
IsConfig(c) == "node" \in DOMAIN c
NoPlan == [full |-> FALSE, reapply |-> FALSE]
NoOp == [kind |-> "none", cfg |-> First, plan |-> NoPlan, target |-> FALSE]
NoChange == [kind |-> "none", reload |-> FALSE]
Hup == [kind |-> "reload", reload |-> TRUE]

VARIABLES
  cfg,      \* d.cfg
  coreCfg,  \* CoreManager.config
  disk,     \* disk[f]: what the file f holds
  tmp,      \* tmp[f]: what f.tmp holds; all writers of f share that name
  handle,   \* handle[r]: what the file that r writes is called by now
  core,     \* [running, proc, rules]: what sing-box and the kernel run with
  op,       \* the active operation
  act,      \* act[r]: the progress of r
  up,       \* the daemon runs
  begun,    \* mutations and reloads so far
  faults,   \* faults so far
  overlap,  \* history: two mutations were under way at once
  skipped,  \* history: a committed change did not go to the runtime that runs
  last      \* history: the actor that began last

vars == <<cfg, coreCfg, disk, tmp, handle, core, op, act, up, begun, faults, overlap, skipped, last>>
memory == <<cfg, coreCfg>>
files == <<disk, tmp, handle>>
life == <<up, begun, overlap, last>>

Idle == [pc |-> "idle", file |-> "profile", change |-> NoChange, next |-> First,
         was |-> FALSE, now |-> FALSE, plan |-> NoPlan, target |-> FALSE, switch |-> FALSE, answer |-> "none",
         boot |-> First]  \* what a restart would have loaded before it

-----------------------------------------------------------------------------
(* Configurations                                                          *)

Refused(c) == c.dns \in BadValues

\* A request changes a part of what it read: config-import replaces what is
\* outside the profile projection, profile.* what is inside.
Changed(base, change) == [base EXCEPT ![change.part] = change.value]

\* ApplyToConfig at a start: the profile decides all but what only config.json holds.
Projection(conf, profile) ==
  [node |-> profile.node, dns |-> profile.dns, rules |-> profile.rules, root |-> conf.root]

\* LoadConfigProjection: an unreadable config.json is an error, an unreadable
\* profile.json is deleted and made again from config.json.
Loads == IsConfig(disk["config"])
LoadedProfile == IF IsConfig(disk["profile"]) THEN disk["profile"] ELSE disk["config"]
Loaded == Projection(disk["config"], LoadedProfile)

\* Mutant: the environment of the rules is not compared.
PlanWithoutRules(old, new) == [full |-> old.root # new.root, reapply |-> FALSE]

PlanReload(old, new) ==
  [full |-> old.root # new.root,
   reapply |-> old.root = new.root /\ old.rules # new.rules]

\* activeNodeSelectorSwitchTarget: nothing but the active node changes, and
\* neither node needs Xray.
SelectorSwitch(old, new) ==
  /\ old.node # new.node
  /\ new = [old EXCEPT !.node = new.node]
  /\ {old.node, new.node} \intersect Sidecar = {}

-----------------------------------------------------------------------------
(* An actor                                                                *)

Underway(r) == act[r].pc \notin {"idle", "done"}
At(r, pc) == act[r].pc = pc
Goto(r, pc) == act' = [act EXCEPT ![r].pc = pc]
Answer(r, a) ==
  act' = [act EXCEPT ![r] =
           [Idle EXCEPT !.pc = "done", !.answer = a, !.next = act[r].next, !.boot = act[r].boot]]
Fault == faults < MaxFaults /\ faults' = faults + 1

\* r ends without a reload: what it committed is not what the runtime runs with.
EndsUnapplied(r) == skipped' = (skipped \/ (core.running /\ cfg = act[r].next))

Begin(r, start) ==
  /\ up /\ ~Underway(r) /\ begun < MaxMutations
  /\ begun' = begun + 1 /\ last' = r
  /\ overlap' = (overlap \/ \E s \in Actors : Underway(s))
  /\ act' = [act EXCEPT ![r] = start]

\* A request reads d.cfg, derives the next configuration and validates it.
Receive(r) ==
  /\ \E c \in Changes :
       LET next == Changed(cfg, c)
       IN Begin(r, [Idle EXCEPT !.change = c, !.next = next, !.boot = Loaded,
                      !.pc = IF Refused(next) THEN "done" ELSE "check",
                      !.answer = IF Refused(next) THEN "failed" ELSE "none"])
  /\ UNCHANGED <<memory, files, core, op, up, faults, skipped>>

\* ConfigTransaction.Run: EnsureIdle before anything is saved
CheckIdle(r) ==
  /\ At(r, "check")
  /\ IF op = NoOp THEN Goto(r, "open") ELSE Answer(r, "failed")
  /\ UNCHANGED <<memory, files, core, op, life, faults, skipped>>

-----------------------------------------------------------------------------
(* profile.Save and writeFileAtomic: open f.tmp, write, rename             *)

\* What the open files are called once r has renamed f.tmp, or removed it.
AfterRename(r) == [s \in Actors |->
  IF s = r THEN "none"
  ELSE IF act[s].file # act[r].file THEN handle[s]
  ELSE CASE handle[s] = "tmp" -> "file" [] handle[s] = "file" -> "gone" [] OTHER -> handle[s]]
AfterRemove(r) == [s \in Actors |->
  IF s = r THEN "none"
  ELSE IF act[s].file = act[r].file /\ handle[s] = "tmp" THEN "gone" ELSE handle[s]]

\* Mutant: the file itself is opened and truncated.
OpenTheFile(r) ==
  LET f == act[r].file IN
  /\ At(r, "open")
  /\ tmp' = [tmp EXCEPT ![f] = act[r].next] /\ disk' = [disk EXCEPT ![f] = Empty]
  /\ handle' = [handle EXCEPT ![r] = "file"]
  /\ Goto(r, "write")
  /\ UNCHANGED <<memory, core, op, life, faults, skipped>>

OpenTmp(r) ==
  /\ At(r, "open")
  /\ tmp' = [tmp EXCEPT ![act[r].file] = Empty] /\ handle' = [handle EXCEPT ![r] = "tmp"]
  /\ Goto(r, "write")
  /\ UNCHANGED <<memory, disk, core, op, life, faults, skipped>>

\* A document written from the start of a file that may hold another one
Over(old, new) == IF old \in {Empty, new} THEN {new} ELSE {new, Torn}

WriteTmp(r) ==
  LET f == act[r].file IN
  /\ At(r, "write")
  /\ CASE handle[r] = "tmp" ->
            (\E c \in Over(tmp[f], act[r].next) : tmp' = [tmp EXCEPT ![f] = c])
            /\ UNCHANGED disk
       [] handle[r] = "file" ->
            (\E c \in Over(disk[f], act[r].next) : disk' = [disk EXCEPT ![f] = c])
            /\ UNCHANGED tmp
       [] OTHER -> UNCHANGED <<disk, tmp>>
  /\ Goto(r, "rename")
  /\ UNCHANGED <<memory, handle, core, op, life, faults, skipped>>

\* A save that fails removes f.tmp, whoever wrote it.  The profile is the first
\* file: when it is not saved, nothing is.
SaveFails(r) ==
  /\ tmp' = [tmp EXCEPT ![act[r].file] = Missing] /\ handle' = AfterRemove(r)
  /\ Answer(r, IF act[r].file = "profile" THEN "failed" ELSE "saved_not_applied")
  /\ EndsUnapplied(r)
  /\ UNCHANGED <<memory, disk, core, op, life>>

WriteFails(r) == At(r, "write") /\ Fault /\ SaveFails(r)

RenameTmp(r) ==
  LET f == act[r].file IN
  /\ At(r, "rename") /\ UNCHANGED faults
  /\ IF tmp[f] = Missing THEN SaveFails(r)
     ELSE /\ disk' = [disk EXCEPT ![f] = tmp[f]] /\ tmp' = [tmp EXCEPT ![f] = Missing]
          /\ handle' = AfterRename(r)
          /\ act' = [act EXCEPT ![r].pc = IF f = "profile" THEN "plan" ELSE "commit",
                                ![r].file = "config"]
          /\ UNCHANGED <<memory, core, op, life, skipped>>

-----------------------------------------------------------------------------
(* applyConfigWithOperationResult and ApplyRuntimeConfig                   *)

\* RuntimeRunning, then the plan against what d.cfg holds by now.  Only a change
\* of the profile may end in a selector switch.
Plan(r) ==
  /\ At(r, "plan")
  /\ LET target == act[r].change.kind = "profile" /\ SelectorSwitch(cfg, act[r].next)
     IN act' = [act EXCEPT ![r] = [@ EXCEPT
          !.was = core.running, !.plan = PlanReload(cfg, act[r].next), !.target = target,
          !.switch = act[r].change.reload /\ core.running /\ target,
          !.pc = IF act[r].change.reload /\ core.running /\ target THEN "idle2" ELSE "apply"]]
  /\ UNCHANGED <<memory, files, core, op, life, faults, skipped>>

\* WasRunning, asked again on the apply path
LookAgain(r) ==
  /\ At(r, "apply")
  /\ act' = [act EXCEPT ![r] = [@ EXCEPT !.now = core.running, !.switch = FALSE, !.pc = "idle2"]]
  /\ UNCHANGED <<memory, files, core, op, life, faults, skipped>>

\* Mutant: a runtime that got busy is answered as if nothing were saved.
BusyAsFailed(r) ==
  /\ At(r, "idle2")
  /\ IF op = NoOp THEN Goto(r, "open") ELSE Answer(r, "failed")
  /\ EndsUnapplied(r)
  /\ UNCHANGED <<memory, files, core, op, life, faults>>

\* EnsureIdle for the second time
EnsureIdle(r) ==
  /\ At(r, "idle2")
  /\ IF op = NoOp THEN Goto(r, "open") /\ UNCHANGED skipped
     ELSE Answer(r, "saved_not_applied") /\ EndsUnapplied(r)
  /\ UNCHANGED <<memory, files, core, op, life, faults>>

\* Mutant: the core manager keeps its configuration.
PublishNothing(r) ==
  /\ At(r, "publish") /\ Goto(r, "sync")
  /\ UNCHANGED <<memory, files, core, op, life, faults, skipped>>

\* commitAppliedRuntimeConfig: d.cfg under d.mu, the core manager after it.
CommitConfig(r) ==
  /\ At(r, "commit")
  /\ cfg' = act[r].next /\ Goto(r, "publish")
  /\ UNCHANGED <<coreCfg, files, core, op, life, faults, skipped>>

PublishConfig(r) ==
  /\ At(r, "publish")
  /\ coreCfg' = act[r].next /\ Goto(r, "sync")
  /\ UNCHANGED <<cfg, files, core, op, life, faults, skipped>>

\* SyncDesiredState, refused while an operation is active
SyncDesiredState(r) ==
  /\ At(r, "sync")
  /\ IF op = NoOp
     THEN Goto(r, IF act[r].switch THEN "select" ELSE "run") /\ UNCHANGED skipped
     ELSE Answer(r, "saved_not_applied") /\ EndsUnapplied(r)
  /\ UNCHANGED <<memory, files, core, op, life, faults>>

\* switchSingboxSelector: PUT and verify; an answer may get lost after the PUT
\* took effect.  A failed switch takes the apply path from its start.
SelectNode(r) ==
  /\ At(r, "select")
  /\ \/ core.running /\ core' = [core EXCEPT !.proc.node = act[r].next.node]
        /\ Goto(r, "mark") /\ UNCHANGED faults
     \/ core.running /\ Fault
        /\ core' = [core EXCEPT !.proc.node = act[r].next.node] /\ Goto(r, "apply")
     \/ (IF core.running THEN Fault ELSE UNCHANGED faults)
        /\ Goto(r, "apply") /\ UNCHANGED core
  /\ UNCHANGED <<memory, files, op, life, skipped>>

\* MarkSelectorActive, and the answer that the runtime runs with the change
MarkSelector(r) ==
  /\ At(r, "mark") /\ Answer(r, "applied")
  /\ UNCHANGED <<memory, files, core, op, life, faults, skipped>>

\* RuntimeApplyStatus, with the first look at the runtime
ApplyStatus(r) ==
  IF ~act[r].change.reload THEN "not_requested"
  ELSE IF act[r].was THEN "accepted" ELSE "skipped_runtime_stopped"

\* RunOperation accepts the reload, or the slot was taken in the meantime.
RunReload(r) ==
  /\ At(r, "run")
  /\ \/ /\ act[r].change.reload /\ act[r].now /\ op = NoOp
        /\ op' = [kind |-> "reload", cfg |-> act[r].next, plan |-> act[r].plan,
                  target |-> act[r].target]
        /\ Answer(r, ApplyStatus(r)) /\ UNCHANGED skipped
     \/ /\ act[r].change.reload /\ act[r].now /\ op # NoOp
        /\ Answer(r, "saved_not_applied") /\ EndsUnapplied(r)
        /\ UNCHANGED op
     \/ /\ ~(act[r].change.reload /\ act[r].now)
        /\ Answer(r, ApplyStatus(r)) /\ EndsUnapplied(r)
        /\ UNCHANGED op
  /\ UNCHANGED <<memory, files, core, life, faults>>

-----------------------------------------------------------------------------
(* Operations                                                              *)

\* backend.start, backend.restart, backend.stop
RunByUser ==
  /\ up /\ op = NoOp
  /\ \E k \in {"start", "stop"} :
       op' = [kind |-> k, cfg |-> cfg, plan |-> NoPlan, target |-> FALSE]
  /\ UNCHANGED <<memory, files, core, act, life, faults, skipped>>

\* Start and a full restart take the node from d.cfg, all else from the core manager.
Started == [running |-> TRUE, proc |-> [coreCfg EXCEPT !.node = cfg.node],
            rules |-> [rules |-> coreCfg.rules, root |-> coreCfg.root]]

\* HotSwap takes the node of the reload, ReapplyRuntimeRules its configuration.  A core
\* that was stopped while the reload was on its way runs again, with no rules unless the
\* plan has them applied.
Swapped == [running |-> TRUE, proc |-> [coreCfg EXCEPT !.node = op.cfg.node],
            rules |-> IF op.plan.reapply THEN [rules |-> op.cfg.rules, root |-> op.cfg.root]
                      ELSE core.rules]

\* Stop and RESET remove the rules.
Stopped == [core EXCEPT !.running = FALSE, !.rules = NoRules]

Finish(k, next, left) ==
  /\ op.kind = k /\ op' = NoOp
  /\ core' = next /\ skipped' = left
  /\ UNCHANGED <<memory, files, act, life>>

StartDone == Finish("start", Started, FALSE) /\ UNCHANGED faults
StopDone == Finish("stop", Stopped, FALSE) /\ UNCHANGED faults

\* ReloadRuntime: a selector switch where the plan allows it and sing-box answers, else a
\* full restart or a hot swap.  The gate after a hot swap finds that there are no rules,
\* unless another refresh of the health is running.
ReloadDone ==
  /\ UNCHANGED faults
  /\ \/ op.kind = "reload" /\ op.target /\ op.plan = NoPlan /\ core.running
        /\ Finish("reload", [core EXCEPT !.proc.node = op.cfg.node], skipped)
     \/ op.kind = "reload" /\ op.plan.full /\ Finish("reload", Started, FALSE)
     \/ op.kind = "reload" /\ ~op.plan.full /\ Finish("reload", Swapped, skipped)
     \/ op.kind = "reload" /\ op.plan = NoPlan /\ core.rules = NoRules
        /\ Finish("reload", Stopped, FALSE)

\* A start that fails, a reload that fails and is reset, or a hot swap that fails and
\* restores what ran
OperationFails ==
  /\ Fault
  /\ \/ op.kind \in {"start", "reload"} /\ Finish(op.kind, Stopped, FALSE)
     \/ op.kind = "reload" /\ ~op.plan.full /\ core.running /\ Finish("reload", core, TRUE)

-----------------------------------------------------------------------------
(* Start of the daemon and SIGHUP                                          *)

Sighup ==
  LET ok == Loads /\ ~Refused(Loaded)
  IN /\ Begin("hup", [Idle EXCEPT !.change = Hup, !.file = "config",
                        !.next = IF ok THEN Loaded ELSE cfg,
                        !.pc = IF ok THEN "plan" ELSE "done",
                        !.answer = IF ok THEN "none" ELSE "failed"])
     /\ disk' = IF Loads THEN [disk EXCEPT !["profile"] = LoadedProfile] ELSE disk
     /\ handle' = IF Loads /\ ~IsConfig(disk["profile"])
                  THEN [r \in Actors |-> IF act[r].file = "profile" /\ handle[r] = "file"
                                         THEN "gone" ELSE handle[r]]
                  ELSE handle
     /\ UNCHANGED <<memory, tmp, core, op, up, faults, skipped>>

\* No core is swapped before one was started, which replaces the rules that outlive the
\* daemon.
Crash ==
  /\ up /\ Fault /\ up' = FALSE
  /\ act' = [r \in Actors |-> Idle] /\ handle' = [r \in Actors |-> "none"]
  /\ op' = NoOp /\ core' = Stopped
  /\ UNCHANGED <<memory, disk, tmp, begun, overlap, last, skipped>>

Boot ==
  /\ ~up /\ Loads /\ up' = TRUE
  /\ cfg' = Loaded /\ coreCfg' = Loaded
  /\ disk' = [disk EXCEPT !["profile"] = LoadedProfile]
  /\ overlap' = FALSE /\ skipped' = FALSE
  /\ UNCHANGED <<tmp, handle, core, op, act, begun, faults, last>>

Init ==
  /\ cfg = First /\ coreCfg = First
  /\ disk = [f \in Files |-> First] /\ tmp = [f \in Files |-> Missing]
  /\ handle = [r \in Actors |-> "none"]
  /\ core = [running |-> FALSE, proc |-> First, rules |-> NoRules]
  /\ op = NoOp /\ act = [r \in Actors |-> Idle]
  /\ up = TRUE /\ begun = 0 /\ faults = 0 /\ overlap = FALSE /\ skipped = FALSE
  /\ last = "hup"

Handle(r) ==
  \/ CheckIdle(r) \/ OpenTmp(r) \/ WriteTmp(r) \/ WriteFails(r) \/ RenameTmp(r)
  \/ Plan(r) \/ LookAgain(r) \/ EnsureIdle(r) \/ CommitConfig(r) \/ PublishConfig(r)
  \/ SyncDesiredState(r) \/ SelectNode(r) \/ MarkSelector(r) \/ RunReload(r)

Next ==
  \/ \E r \in Requests : Receive(r)
  \/ \E r \in Actors : Handle(r)
  \/ RunByUser \/ StartDone \/ StopDone \/ ReloadDone \/ OperationFails
  \/ Sighup \/ Crash \/ Boot

Spec == Init /\ [][Next]_vars

-----------------------------------------------------------------------------
(* Properties                                                              *)

Answered(r) == r \in Requests /\ last = r /\ At(r, "done") /\ up /\ ~overlap

\* The answer to a mutation that met no other one tells what is stored.  After a success
\* both files, d.cfg and the core manager have the change; after a failure a restart loads
\* what it would have loaded before; and what is answered as saved but not applied is what
\* a restart loads of the profile (persistConfigMutationForAction, ConfigTransaction.Run).
AnswerIsTrue == \A r \in Requests : Answered(r) =>
  CASE act[r].answer = "failed" -> Loaded = act[r].boot
    [] act[r].answer = "saved_not_applied" -> Loaded = [act[r].next EXCEPT !.root = disk["config"].root]
    [] OTHER -> {disk["profile"], disk["config"], cfg, coreCfg} = {act[r].next}

\* Wherever a crash cuts a change of the profile that met no other mutation, the
\* files load, as they were or with the change (profile.Save, writeFileAtomic).
CrashKeepsOldOrNew == ~overlap =>
  /\ IsConfig(disk["config"]) /\ IsConfig(disk["profile"])
  /\ \A r \in Requests : Underway(r) /\ act[r].change.kind = "profile"
                           => Loaded \in {act[r].boot, act[r].next}

\* When all is quiet and no change was left out, sing-box runs with d.cfg and the
\* kernel with its rules, whichever way the plan took (PlanReload,
\* activeNodeSelectorSwitchTarget, reloadRuntimeAfterConfigChange).  A hot swap of a core
\* that was stopped meanwhile may leave it with no rules, never with others.
RuntimeFollowsConfig ==
  (/\ ~overlap /\ ~skipped /\ up /\ core.running /\ op = NoOp
   /\ \A r \in Actors : ~Underway(r))
    => core.proc = cfg /\ core.rules \in {NoRules, [rules |-> cfg.rules, root |-> cfg.root]}

=============================================================================
