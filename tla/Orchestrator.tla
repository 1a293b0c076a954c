---------------------------- MODULE Orchestrator -----------------------------
(***************************************************************************)
(* The runtime actor of the daemon: daemon/internal/runtimev2, type        *)
(* Orchestrator.  Every lifecycle operation (start, stop, restart, reset,  *)
(* network change, reload, rescue, update install) is submitted under one  *)
(* mutex, runs on a goroutine of its own against the backend, and finishes *)
(* under the mutex again.  Health refreshes, progress polls and changes of *)
(* the desired state run at the same time.  The status observer is called  *)
(* outside the mutex; module StatusFile adds it.                           *)
(*                                                                         *)
(* One action is one critical section of Orchestrator.mu or one backend    *)
(* call.  Time is the number of accepted operations: a check begun after   *)
(* operation s was accepted carries a stamp above s.  Only one backend is  *)
(* registered and it always reports itself supported, so the error paths   *)
(* of backendForLocked and Supported are not modelled.                     *)
(***************************************************************************)
EXTENDS Naturals

CONSTANTS
  Profiles,     \* active profile ids
  Kinds,        \* kinds of operation that are requested
  HardCodes,    \* codes of failed readiness checks (core, listener, rules)
  SoftCodes,    \* codes of failed operational checks (DNS, egress)
  ErrorCodes,   \* codes an error of the backend can carry ("" for none)
  MaxOps        \* bound: operations accepted in one life of the daemon

\* operationAppliesDesiredRuntimeState
DesiredStateKinds ==
  {"config-mutation", "profile-apply", "applyDesiredState", "reload"}

\* The kinds RunOperation is called with.
FnKinds == DesiredStateKinds \cup {"rescue", "update-install"}

OperationKinds ==
  FnKinds \cup {"start", "stop", "restart", "reset", "network-change"}

ASSUME OrchestratorAssumption ==
  /\ Profiles # {}
  /\ Kinds \subseteq OperationKinds
  /\ MaxOps \in Nat

VARIABLES
  desired,    \* o.desired.ActiveProfileID
  applied,    \* o.applied
  health,     \* o.health
  active,     \* o.active: the operation that owns the runtime, 0 for nil
  last,       \* o.last: the result of the operation that ended last
  opSeq,      \* o.opSeq
  op,         \* op[s]: the goroutine of operation s with what it captured
  refresher   \* the goroutine that holds healthRefreshMu

vars == <<desired, applied, health, active, last, opSeq, op, refresher>>

-----------------------------------------------------------------------------
(* Data                                                                    *)

Ops == 1 .. MaxOps

\* The phase a failed check or stage stands for (phaseFromHealth's switch).
StageOfCode == [
  TPROXY_PORT_DOWN        |-> "CORE_SPAWNED",
  DNS_LISTENER_DOWN       |-> "CORE_LISTENING",
  API_PORT_DOWN           |-> "CORE_LISTENING",
  RULES_NOT_APPLIED       |-> "CORE_LISTENING",
  NETSTACK_CLEANUP_FAILED |-> "CORE_LISTENING",
  NETSTACK_VERIFY_FAILED  |-> "CORE_LISTENING",
  ROUTING_CHECK_FAILED    |-> "CORE_LISTENING",
  ROUTING_V4_MISSING      |-> "CORE_LISTENING",
  ROUTING_V6_MISSING      |-> "CORE_LISTENING",
  ROUTING_NOT_APPLIED     |-> "CORE_LISTENING",
  DNS_APPLY_FAILED        |-> "RULES_APPLIED",
  DNS_LOOKUP_TIMEOUT      |-> "DNS_APPLIED",
  DNS_EMPTY_RESPONSE      |-> "DNS_APPLIED",
  DNS_LOOKUP_FAILED       |-> "DNS_APPLIED",
  PROXY_DNS_UNAVAILABLE   |-> "DNS_APPLIED",
  OUTBOUND_URL_FAILED     |-> "OUTBOUND_CHECKED",
  OPERATIONAL_DEGRADED    |-> "OUTBOUND_CHECKED",
  CORE_PID_MISSING        |-> "FAILED",
  CORE_PID_LOOKUP_FAILED  |-> "FAILED",
  CORE_PROCESS_DEAD       |-> "FAILED",
  CORE_LOG_OPEN_FAILED    |-> "FAILED",
  CORE_SPAWN_FAILED       |-> "FAILED",
  CONFIG_RENDER_FAILED    |-> "STARTING",
  CONFIG_CHECK_FAILED     |-> "CONFIG_CHECKED" ]

Phase ==
  {"STOPPED", "APPLYING", "STARTING", "CONFIG_CHECKED", "CORE_SPAWNED",
   "CORE_LISTENING", "RULES_APPLIED", "DNS_APPLIED", "OUTBOUND_CHECKED",
   "STOPPING", "RESETTING", "HEALTHY", "DEGRADED", "FAILED"}

\* HealthSnapshot: the readiness flags folded into three levels, LastCode,
\* and CheckedAt as a stamp, 0 for the zero time.
Codes == HardCodes \cup SoftCodes \cup ErrorCodes \cup {"", "PANIC"}
Health == [ready : {"down", "ready", "operational"}, code : Codes, at : Nat]
NoHealth == [ready |-> "down", code |-> "", at |-> 0]

Healthy(h) == h.ready # "down"
OperationalHealthy(h) == h.ready = "operational"

phaseFromHealth(h, fallback) ==
  IF h.at = 0 THEN fallback
  ELSE IF OperationalHealthy(h) THEN "HEALTHY"
  ELSE IF h.code \in DOMAIN StageOfCode THEN StageOfCode[h.code]
  ELSE IF ~Healthy(h) THEN fallback
  ELSE "DEGRADED"

Applied == [phase : Phase, profile : Profiles, generation : Nat]
Result == [op : Nat, ok : BOOLEAN, generation : Nat]
Completion == [err : BOOLEAN, health : Health, applied : Applied]

\* Where the goroutine of an operation can be.
Unfinished == {"running", "gate", "gating", "returned", "finishing", "panicked"}
Pc == Unfinished \cup {"none", "done"}

OpRecord == [pc : Pc, kind : OperationKinds \cup {""}, generation : Nat,
             prev : Applied, want : Profiles, completion : Completion]

APhase(p, profile, g) == [phase |-> p, profile |-> profile, generation |-> g]

\* Values of fields nothing reads: of an operation that has not begun or is
\* done, and of a completion that is not computed yet.
AnyProfile == CHOOSE p \in Profiles : TRUE
NoApplied == APhase("STOPPED", AnyProfile, 0)
NoCompletion == [err |-> FALSE, health |-> NoHealth, applied |-> NoApplied]
Blank(pc, g) ==
  [pc |-> pc, kind |-> "", generation |-> g, prev |-> NoApplied,
   want |-> AnyProfile, completion |-> NoCompletion]
NoRefresh == [pc |-> "idle", owner |-> 0, health |-> NoHealth]

\* The stamp of a check that begins now.
Now == opSeq + 1

\* What a full run of the health checks can report, begun at stamp t
\* (ClassifyHealth with a result: every failed gate carries its code).
ProbedHealth(t) ==
  {[ready |-> "operational", code |-> "", at |-> t]}
    \cup {[ready |-> "ready", code |-> c, at |-> t] : c \in SoftCodes}
    \cup {[ready |-> "down", code |-> c, at |-> t] : c \in HardCodes}

\* What backend.CurrentHealth can report while an operation is under way: the
\* monitor's last result, from before the operation was accepted (how long
\* before makes no difference) or since, or, when the monitor has none, flags
\* read off the core's state.
CachedHealth ==
  ProbedHealth(opSeq) \cup ProbedHealth(Now)
    \cup {[ready |-> r, code |-> "", at |-> Now] : r \in {"down", "ready"}}

\* healthFromError of an error the backend returns now.
ErrorHealth == {[ready |-> "down", code |-> c, at |-> Now] : c \in ErrorCodes}

-----------------------------------------------------------------------------
(* Submitting an operation                                                 *)

\* Mutant: the busy check is dropped.
BusyIgnored == TRUE

\* busyLocked returns nil.
Idle == active = 0

nextGeneration == applied.generation + 1

\* beginOperationLocked and configure are one critical section; the goroutine
\* is started after it.  ap is the applied state the caller's configure sets.
Submit(kind, ap) ==
  /\ kind \in Kinds
  /\ Idle
  /\ opSeq < MaxOps
  /\ opSeq' = opSeq + 1
  /\ active' = opSeq + 1
  /\ applied' = [ap EXCEPT !.generation = nextGeneration]
  /\ op' = [op EXCEPT ![opSeq + 1] =
       [pc |-> "running", kind |-> kind, generation |-> nextGeneration,
        prev |-> applied, want |-> desired, completion |-> NoCompletion]]
  /\ UNCHANGED <<desired, health, last, refresher>>

Start == Submit("start", APhase("STARTING", desired, 0))

Stop == Submit("stop", [applied EXCEPT !.phase = "STOPPING"])

Restart == Submit("restart", APhase("STARTING", desired, 0))

Reset == Submit("reset", [applied EXCEPT !.phase = "RESETTING"])

HandleNetworkChange ==
  /\ applied.phase # "STOPPED"
  /\ Submit("network-change", [applied EXCEPT !.phase = "STARTING"])

RunOperation(kind) ==
  Submit(kind, [applied EXCEPT !.phase =
                  IF kind = "update-install" THEN "STOPPING" ELSE "STARTING"])

-----------------------------------------------------------------------------
(* The operation's goroutine (runSubmittedOperation)                       *)

\* The closure has computed its operationCompletion.
CompleteWith(s, err, h, ap) ==
  /\ op' = [op EXCEPT ![s].pc = "finishing",
                      ![s].completion = [err |-> err, health |-> h, applied |-> ap]]
  /\ UNCHANGED <<desired, applied, health, active, last, opSeq, refresher>>

MoveTo(s, pc) ==
  /\ op' = [op EXCEPT ![s].pc = pc]
  /\ UNCHANGED <<desired, applied, health, active, last, opSeq, refresher>>

\* backend.Start or backend.Restart, then backend.RefreshHealth.
RunStart(s) ==
  LET Outcome(err, h, fallback) ==
        CompleteWith(s, err, h, APhase(phaseFromHealth(h, fallback), op[s].want,
                                       op[s].generation))
  IN
  /\ op[s].pc = "running"
  /\ op[s].kind \in {"start", "restart"}
  /\ \/ \E h \in ErrorHealth : Outcome(TRUE, h, "FAILED")
     \/ \E h \in ProbedHealth(Now) : Outcome(FALSE, h, "HEALTHY")

\* backend.Stop; when it fails and the runtime was not stopped before,
\* backend.Reset, whose report decides between STOPPED and FAILED.
RunStop(s) ==
  LET h == [ready |-> "down", code |-> "", at |-> Now]
      Outcome(err, phase) ==
        CompleteWith(s, err, h,
                     APhase(phase, op[s].prev.profile, op[s].generation))
  IN
  /\ op[s].pc = "running"
  /\ op[s].kind = "stop"
  /\ \/ \E err \in BOOLEAN : Outcome(err, "STOPPED")
     \/ op[s].prev.phase # "STOPPED" /\ Outcome(TRUE, "FAILED")

\* backend.Reset: STOPPED whatever the report says.
RunReset(s) ==
  /\ op[s].pc = "running"
  /\ op[s].kind = "reset"
  /\ \E err \in BOOLEAN :
       CompleteWith(s, err, [ready |-> "down", code |-> "", at |-> Now],
                    APhase("STOPPED", op[s].want, op[s].generation))

\* Mutant: the phase of a failed network change comes from the health.
PhaseIgnoringError(err, h) == phaseFromHealth(h, "HEALTHY")

NetworkChangePhase(err, h) ==
  IF err THEN "DEGRADED" ELSE phaseFromHealth(h, "HEALTHY")

\* backend.HandleNetworkChange, then backend.CurrentHealth.
RunNetworkChange(s) ==
  /\ op[s].pc = "running"
  /\ op[s].kind = "network-change"
  /\ \E err \in BOOLEAN, h \in CachedHealth :
       CompleteWith(s, err, h,
         APhase(NetworkChangePhase(err, h), op[s].prev.profile, op[s].generation))

\* fn fails with an error that carries the health h: the operations map with
\* the failure completion of operation s.
Failed(s, h) ==
  [op EXCEPT ![s].pc = "finishing",
     ![s].completion =
       [err |-> TRUE, health |-> h,
        applied |-> APhase(phaseFromHealth(h, "FAILED"), op[s].prev.profile,
                           op[s].generation)]]

\* An error of the reload or of the installer.  The rescue closure logs its
\* errors and always returns nil.
FnFails(s) ==
  /\ \E h \in ErrorHealth : op' = Failed(s, h)
  /\ UNCHANGED <<desired, applied, health, active, last, opSeq, refresher>>

\* The function given to RunOperation returns, or, in a reload by hot swap,
\* gets as far as the readiness gate.
RunFn(s) ==
  /\ op[s].pc = "running"
  /\ op[s].kind \in FnKinds
  /\ \/ MoveTo(s, "returned")
     \/ op[s].kind # "rescue" /\ FnFails(s)
     \/ op[s].kind \in DesiredStateKinds /\ MoveTo(s, "gate")

\* The readiness gate of a hot swap calls Orchestrator.RefreshHealth.  With
\* healthRefreshMu free it starts a check of its own ...
GateRefresh(s) ==
  /\ op[s].pc = "gate"
  /\ refresher.pc = "idle"
  /\ refresher' = [pc |-> "probing", owner |-> s,
                   health |-> [NoHealth EXCEPT !.at = Now]]
  /\ op' = [op EXCEPT ![s].pc = "gating"]
  /\ UNCHANGED <<desired, applied, health, active, last, opSeq>>

\* ... with healthRefreshMu taken it decides on the snapshot the actor holds.
GateCached(s) ==
  /\ op[s].pc = "gate"
  /\ refresher.pc # "idle"
  /\ IF Healthy(health) THEN MoveTo(s, "returned") ELSE FnFails(s)

\* Mutant: a successful function restores what was captured before it.
AppliedAsBefore(s) == op[s].prev

\* What a successful fn leaves applied.  A rescue keeps the phase from before
\* unless the health was checked since it was accepted.
AppliedAfterFn(s) ==
  LET prev == op[s].prev
      checked == phaseFromHealth(health, "HEALTHY")
      ap == IF op[s].kind = "update-install" THEN [prev EXCEPT !.phase = "STOPPED"]
            ELSE IF op[s].kind \in DesiredStateKinds THEN APhase(checked, desired, 0)
            ELSE IF health.at > s THEN [prev EXCEPT !.phase = checked]
            ELSE prev
  IN [ap EXCEPT !.generation = op[s].generation]

\* After fn the closure reads o.health and o.desired in a critical section.
ReadAfterFn(s) ==
  /\ op[s].pc = "returned"
  /\ CompleteWith(s, FALSE, NoHealth, AppliedAfterFn(s))

\* The backend or fn panics, before its result or at the gate; the deferred
\* function recovers.
Panic(s) == op[s].pc \in {"running", "gate"} /\ MoveTo(s, "panicked")

\* The completion that the deferred function of runSubmittedOperation uses.
CompletionOf(s) ==
  IF op[s].pc = "panicked"
  THEN [err |-> TRUE,
        health |-> [ready |-> "down", code |-> "PANIC", at |-> Now],
        applied |-> [applied EXCEPT !.phase = "FAILED",
                                    !.generation = op[s].generation]]
  ELSE op[s].completion

HasEnded(s) == op[s].pc \in {"finishing", "panicked"}

\* Mutant: the operation that ended keeps the runtime.
OwnerKept(s) == active

OwnerAfter(s) == IF active = s THEN 0 ELSE active

\* finishOperationLocked.  Every completion carries a phase, and every failed
\* one a checked health.  The goroutine ends; only its generation is kept.
Finish(s) ==
  LET c == CompletionOf(s) IN
  /\ HasEnded(s)
  /\ health' = IF c.health.at # 0 THEN c.health ELSE health
  /\ applied' = c.applied
  /\ last' = [op |-> s, ok |-> ~c.err, generation |-> op[s].generation]
  /\ active' = OwnerAfter(s)
  /\ op' = [op EXCEPT ![s] = Blank("done", op[s].generation)]
  /\ UNCHANGED <<desired, opSeq, refresher>>

-----------------------------------------------------------------------------
(* Health refreshes, progress polls and desired-state changes              *)

\* RefreshHealth of an API call that gets healthRefreshMu.  A call that does
\* not get it returns the snapshot the actor holds and changes nothing.
RefreshHealth ==
  /\ refresher.pc = "idle"
  /\ refresher' = [pc |-> "probing", owner |-> 0,
                   health |-> [NoHealth EXCEPT !.at = Now]]
  /\ UNCHANGED <<desired, applied, health, active, last, opSeq, op>>

\* Mutant: a refresh sets the phase of an operation under way.
PhaseOfAnyRefresh(h) ==
  IF applied.phase # "STOPPED" THEN phaseFromHealth(h, applied.phase)
  ELSE applied.phase

\* Mutant: a refresh sets the phase of a stopped runtime.
PhaseOfIdleRefresh(h) ==
  IF active = 0 THEN phaseFromHealth(h, applied.phase) ELSE applied.phase

\* The phase after a refresh: an operation under way owns the phase, and a
\* stopped runtime stays stopped.
RefreshedPhase(h) ==
  IF active = 0 /\ applied.phase # "STOPPED"
  THEN phaseFromHealth(h, applied.phase)
  ELSE applied.phase

\* The checks, begun before, return; the snapshot is stored under the mutex.
StoreRefreshedHealth ==
  /\ refresher.pc = "probing"
  /\ \E h \in ProbedHealth(refresher.health.at) :
       /\ health' = h
       /\ applied' = [applied EXCEPT !.phase = RefreshedPhase(h)]
       /\ refresher' = [refresher EXCEPT !.pc = "stored", !.health = h]
  /\ UNCHANGED <<desired, active, last, opSeq, op>>

\* healthRefreshMu is released and the caller goes on; a reload decides its
\* readiness gate on the result.
ReleaseRefresh ==
  LET s == refresher.owner
      h == refresher.health
  IN
  /\ refresher.pc = "stored"
  /\ refresher' = NoRefresh
  /\ \/ s = 0 /\ UNCHANGED op
     \/ s # 0 /\ Healthy(h) /\ op' = [op EXCEPT ![s].pc = "returned"]
     \/ s # 0 /\ ~Healthy(h) /\ \E e \in ErrorHealth : op' = Failed(s, e)
  /\ UNCHANGED <<desired, applied, health, active, last, opSeq>>

\* mergeOperationProgress: the readiness flags are not merged, the code is
\* when there is one, and the time of the check always is.
Merged(h, progress) ==
  [ready |-> h.ready,
   code |-> IF progress.code # "" THEN progress.code ELSE h.code,
   at |-> progress.at]

\* RefreshActiveProgress.  Its critical sections are one step here: the value
\* read between them is arbitrarily old in CachedHealth, and the second one
\* only asks that some operation is active.
RefreshActiveProgress ==
  /\ active # 0
  /\ \E progress \in CachedHealth : health' = Merged(health, progress)
  /\ UNCHANGED <<desired, applied, active, last, opSeq, op, refresher>>

\* Mutant: the desired state changes while an operation is under way.
ApplyDesiredStateWhileBusy(p) ==
  /\ desired' = p
  /\ UNCHANGED <<applied, health, active, last, opSeq, op, refresher>>

ApplyDesiredState(p) ==
  /\ Idle
  /\ desired' = p
  /\ UNCHANGED <<applied, health, active, last, opSeq, op, refresher>>

-----------------------------------------------------------------------------
(* The specification                                                       *)

Init ==
  /\ desired \in Profiles
  /\ applied = NoApplied
  /\ health = NoHealth
  /\ active = 0
  /\ last = [op |-> 0, ok |-> TRUE, generation |-> 0]
  /\ opSeq = 0
  /\ op = [s \in Ops |-> Blank("none", 0)]
  /\ refresher = NoRefresh

Request ==
  \/ Start \/ Stop \/ Restart \/ Reset \/ HandleNetworkChange
  \/ \E kind \in FnKinds : RunOperation(kind)

\* The closure and the deferred function of operation s's goroutine.
Runner(s) ==
  \/ RunStart(s) \/ RunStop(s) \/ RunReset(s) \/ RunNetworkChange(s)
  \/ RunFn(s) \/ GateRefresh(s) \/ GateCached(s) \/ ReadAfterFn(s)
  \/ Panic(s) \/ Finish(s)

Refresher == StoreRefreshedHealth \/ ReleaseRefresh

Next ==
  \/ Request
  \/ \E s \in Ops : Runner(s)
  \/ RefreshHealth \/ Refresher \/ RefreshActiveProgress
  \/ \E p \in Profiles : ApplyDesiredState(p)

\* A goroutine that can go on does: every script, probe and process wait the
\* backend calls has a timeout of its own.  Nobody has to ask for anything.
Fairness ==
  /\ \A s \in Ops : WF_vars(Runner(s))
  /\ WF_vars(Refresher)

Spec == Init /\ [][Next]_vars /\ Fairness

-----------------------------------------------------------------------------
(* Properties                                                              *)

TypeOK ==
  /\ desired \in Profiles
  /\ applied \in Applied
  /\ health \in Health
  /\ active \in 0 .. MaxOps
  /\ last \in Result
  /\ opSeq \in 0 .. MaxOps
  /\ op \in [Ops -> OpRecord]
  /\ refresher \in [pc : {"idle", "probing", "stored"}, owner : 0 .. MaxOps,
                    health : Health]

\* Two operations never touch the backend at the same time, and the one that
\* does is the one every busy error and status names: the check of o.active
\* in one goroutine and the clearing of it in another leave no gap.
OneOperationAtATime ==
  \A s \in Ops : op[s].pc \in Unfinished => s = active

\* A generation names one operation: whichever of the eight completions an
\* operation ends with, the applied generation is its own, and the next
\* operation is one above every earlier one.  The operation that ended last is
\* the one before the operation under way.
GenerationIdentifiesOperation ==
  /\ applied.generation = opSeq
  /\ \A s \in Ops : op[s].pc # "none" => op[s].generation = s
  /\ last.generation = last.op
  /\ opSeq = IF active = 0 THEN last.op ELSE last.op + 1

\* A health refresh that comes late is harmless.  While an operation is under way
\* only the operation changes the phase: a refresh that began before it or during
\* it does not.  With no operation under way a stopped runtime stays as it is: no
\* late snapshot makes it look alive again.
LateRefreshIsHarmless ==
  [][/\ active # 0 /\ active' = active => applied'.phase = applied.phase
     /\ active = 0 /\ active' = 0 /\ applied.phase = "STOPPED"
          => applied' = applied]_vars

\* An operation that ended in an error or a panic never leaves the phase
\* HEALTHY, also not by restoring the phase that held before it.
FailureIsNotHealthy ==
  [][last' # last /\ ~last'.ok => applied'.phase # "HEALTHY"]_vars

\* A start or a configuration change that succeeds leaves the runtime on the
\* profile that is desired at that moment, although the profile was captured
\* when it was submitted: nobody can change the desired state in between.
SuccessAppliesDesiredProfile ==
  [][\A s \in Ops :
       (/\ op[s].pc = "finishing" /\ op'[s].pc = "done" /\ last'.ok
        /\ op[s].kind \in {"start", "restart"} \cup DesiredStateKinds)
       => applied'.profile = desired']_vars

\* The actor keeps the promise of one operation slot.
Slot == INSTANCE OperationSlot WITH
  slot <- active, generation <- applied.generation,
  lastOp <- last.op, lastOk <- last.ok

ImplementsSlot == Slot!Spec
=============================================================================
