----------------------------- MODULE StatusFile ------------------------------
(***************************************************************************)
(* The runtime actor together with its status observer, which the daemon   *)
(* sets to WriteRuntimeState (cmd/daemon/runtime_v2.go, initRuntimeV2).    *)
(* Every critical section that changes what the file tells captures the    *)
(* status before it unlocks Orchestrator.mu; the goroutine then calls the  *)
(* observer without the mutex and only then goes on.  The file is replaced *)
(* by a rename, so a write happens at once or, when it fails, not at all.  *)
(***************************************************************************)
EXTENDS Orchestrator

CONSTANT WritesFail  \* whether writes of the file may fail (they are logged)

ASSUME StatusFileAssumption == WritesFail \in BOOLEAN

VARIABLES
  opNote,       \* opNote[s]: the status operation s has still to write, if any
  refreshNote,  \* the same for the goroutine that refreshes the health
  clientNote,   \* the same for an API call
  disk          \* run/runtime_state.json

fileVars == <<opNote, refreshNote, clientNote, disk>>
allVars == <<vars, fileVars>>

-----------------------------------------------------------------------------

\* RuntimeStateFromStatus of the status now.
RuntimeState ==
  [active |-> active,
   phase |-> applied.phase,
   desiredGeneration |->
     IF active # 0 THEN op[active].generation
     ELSE IF last.generation > applied.generation THEN last.generation
     ELSE applied.generation,
   appliedGeneration |-> applied.generation,
   last |-> last.op]

\* The observer is called with one of the captured statuses.
Written(notes) == \E note \in notes : disk' \in {note} \cup (IF WritesFail THEN {disk} ELSE {})

-----------------------------------------------------------------------------
(* The actor's steps, with the status each one captures                    *)

\* The submitting goroutine captures the status and calls the observer before
\* it starts the operation's goroutine.
SubmitAndCapture ==
  /\ Request
  /\ opNote' = [opNote EXCEPT ![active'] = {RuntimeState'}]
  /\ UNCHANGED <<refreshNote, clientNote, disk>>

\* SetActiveOperationStep: the closure reports a step of its operation, as
\* long as its generation is the active one; no field of the actor's model.
SetActiveOperationStep(s) ==
  /\ op[s].pc = "running" /\ opNote[s] = {}
  /\ active # 0 /\ op[active].generation = op[s].generation
  /\ opNote' = [opNote EXCEPT ![s] = {RuntimeState}]
  /\ UNCHANGED <<vars, refreshNote, clientNote, disk>>

\* A step of the closure that publishes nothing.
RunQuietly(s) ==
  /\ opNote[s] = {}
  /\ Runner(s) /\ op'[s].pc # "done"
  /\ UNCHANGED fileVars

\* Mutant: the deferred function does not call the observer.
FinishSilently(s) ==
  opNote[s] = {} /\ Finish(s) /\ UNCHANGED fileVars

\* The deferred function captures the status with the result in it.
FinishAndCapture(s) ==
  /\ opNote[s] = {}
  /\ Finish(s)
  /\ opNote' = [opNote EXCEPT ![s] = {RuntimeState'}]
  /\ UNCHANGED <<refreshNote, clientNote, disk>>

\* The observer call of operation s, at its start, a step or its end.
ObserveOperation(s) ==
  /\ Written(opNote[s])
  /\ opNote' = [opNote EXCEPT ![s] = {}]
  /\ UNCHANGED <<vars, refreshNote, clientNote>>

StoreAndCapture ==
  /\ StoreRefreshedHealth
  /\ refreshNote' = {RuntimeState'}
  /\ UNCHANGED <<opNote, clientNote, disk>>

ObserveRefresh ==
  /\ Written(refreshNote)
  /\ refreshNote' = {}
  /\ UNCHANGED <<vars, opNote, clientNote>>

\* The deferred unlock of healthRefreshMu comes after the observer call.
ReleaseAfterObserving ==
  /\ refreshNote = {}
  /\ ReleaseRefresh
  /\ UNCHANGED fileVars

\* ApplyDesiredState and SetCompatibility, which has no field here, capture a
\* status for an API call.  At most one such call is modelled.
CaptureForClient ==
  /\ clientNote = {}
  /\ (\E p \in Profiles : ApplyDesiredState(p)) \/ UNCHANGED vars
  /\ clientNote' = {RuntimeState'}
  /\ UNCHANGED <<opNote, refreshNote, disk>>

ObserveClient ==
  /\ Written(clientNote)
  /\ clientNote' = {}
  /\ UNCHANGED <<vars, opNote, refreshNote>>

\* RefreshHealth takes its lock, RefreshActiveProgress publishes nothing.
ActQuietly == (RefreshHealth \/ RefreshActiveProgress) /\ UNCHANGED fileVars

-----------------------------------------------------------------------------
(* The specification                                                       *)

\* initRuntimeV2 writes the status of the new actor.
FileInit ==
  /\ Init
  /\ opNote = [s \in Ops |-> {}]
  /\ refreshNote = {}
  /\ clientNote = {}
  /\ disk = RuntimeState

Operation(s) == RunQuietly(s) \/ FinishAndCapture(s)

Refreshing == StoreAndCapture \/ ObserveRefresh \/ ReleaseAfterObserving

FileNext ==
  \/ SubmitAndCapture
  \/ \E s \in Ops : Operation(s) \/ SetActiveOperationStep(s) \/ ObserveOperation(s)
  \/ Refreshing \/ CaptureForClient \/ ObserveClient \/ ActQuietly

\* Strong for the operation: reporting a step keeps it from going on while the
\* status is written, and a closure reports finitely many steps.
FileFairness ==
  /\ \A s \in Ops : WF_allVars(ObserveOperation(s)) /\ SF_allVars(Operation(s))
  /\ WF_allVars(Refreshing)
  /\ WF_allVars(ObserveClient)

FileSpec == FileInit /\ [][FileNext]_allVars /\ FileFairness

-----------------------------------------------------------------------------
(* Properties                                                              *)

\* Every result is on disk at some time, whoever else writes the file, when
\* writes do not fail.
ResultReachesFile ==
  \A s \in Ops : op[s].pc = "finishing" ~> disk.last >= s

=============================================================================
