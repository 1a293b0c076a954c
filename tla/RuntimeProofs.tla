----------------------------- MODULE RuntimeProofs -----------------------------
(***************************************************************************)
(* Proofs about the operations of the runtime actor, for every set of      *)
(* reload plans and every bound on the epochs, and about the runtime with  *)
(* its health monitor and its rescues, for any threshold and number of     *)
(* attempts.                                                               *)
(*                                                                         *)
(* LockInv is enough for the types and for the lock.  It is stated for any *)
(* superset of the kinds and steps of RootRuntime, so that RescueInv can   *)
(* use it for the rescues too: what a rescue needs is that its gate, which *)
(* the strategies ask again before they act, refuses under reset.lock.     *)
(* DownInv adds what a stopped core looks like at every step, SettledInv   *)
(* what an operation that succeeded leaves; both hold where no rescue      *)
(* runs.  IntentInv adds to RescueInv whom the daemon brings a sing-box up *)
(* for, and what it knows of the one that runs.                            *)
(***************************************************************************)
EXTENDS Rescue, TLAPS


\* The operation's shape: which kinds of operation are at which steps, and how
\* much of the bound on epochs is left there.
KindAtStep ==
  /\ act.pc = "recover" => act.kind \in {"start", "restart", "network-change"}
  /\ act.pc \in {"lock", "swap"} => act.kind = "reload"
  /\ act.pc \in {"halt", "kill"} => act.kind # "reset"
  /\ act.pc \in {"check", "spawn", "swap", "watch", "reapply", "reconcile"}
       => act.kind \notin {"stop", "reset"}
  /\ act.recovering => /\ act.kind \in {"start", "restart", "network-change"}
                       /\ act.pc \in ResetSteps \cup {"done"}

EpochLeft ==
  /\ act.pc = "recover" \/ act.recovering
       => act.kind = "network-change" \/ epoch < MaxEpoch
  /\ act.pc = "begin" => epoch < MaxEpoch
  /\ act.pc \in {"halt", "kill"} /\ act.kind = "stop" => epoch <= MaxEpoch

\* Between the check of the lock and the spawn nobody sets the lock.
LockHeldOff ==
  act.pc \in {"begin", "check", "halt", "kill", "spawn", "swap", "watch",
              "reapply", "reconcile"} /\ act.kind \notin {"stop", "reset"}
    => files.lock = "none"

LockInv(kinds, steps) ==
  /\ RootTypeOK(kinds, steps)
  /\ KindAtStep
  /\ EpochLeft
  /\ LockHeldOff

\* A stopped core is a forgotten one, and nothing watches it.
StoppedIsQuiet ==
  core.state = "stopped" => core.proc = "none" /\ ~monitor

CoreAtStep ==
  /\ core.state # "rescue"
  /\ act.pc = "spawn" => core.state = "stopped"
  /\ act.pc \in {"watch", "reapply"} => core.state # "stopped"
  /\ act.pc \in {"kill", "swap", "scour"} => ~monitor
  /\ act.pc \in {"script", "clear", "sweep", "leave"} => core.state = "stopped"

\* Outside of a RESET the lock stands for a runtime that is down.
LockMeansDown ==
  files.lock # "none" /\ act.pc \notin {"enter", "quiet", "scour"}
    => core.state = "stopped"

ErrorAtStep ==
  /\ act.err => act.pc \in ResetSteps \cup {"mark", "done"}
  /\ act.err /\ act.recovering => act.pc = "done"
  /\ act.err /\ act.pc \in {"mark", "done"} /\ act.kind \in {"start", "restart"}
       => core.state = "stopped"

DownInv ==
  /\ LockInv(Kinds, Steps)
  /\ StoppedIsQuiet
  /\ CoreAtStep
  /\ LockMeansDown
  /\ ErrorAtStep

-----------------------------------------------------------------------------
(* Data                                                                    *)

\* What a step makes of the operation, apart from its epoch, plan and report.
Moved(kinds, steps, pc, err, recovering) ==
  /\ act' \in Act(kinds, steps)
  /\ act'.kind = act.kind
  /\ act'.pc = pc
  /\ act'.err = err
  /\ act'.recovering = recovering

\* Every form in which a step moves the operation on keeps its type.
LEMMA Moves ==
  ASSUME NEW kinds, NEW steps, act \in Act(kinds, steps), NEW pc \in steps
  PROVE  /\ Goto(pc) => Moved(kinds, steps, pc, act.err, act.recovering)
         /\ Fail(pc) => Moved(kinds, steps, pc, TRUE, act.recovering)
         /\ \A e \in 0..MaxEpoch + 1 :
              act' = [act EXCEPT !.epoch = e, !.pc = pc]
                => Moved(kinds, steps, pc, act.err, act.recovering)
         /\ \A r \in BOOLEAN :
              act' = [act EXCEPT !.pc = pc, !.recovering = r]
                => Moved(kinds, steps, pc, act.err, r)
         /\ \A b \in BOOLEAN :
              act' = [act EXCEPT !.pc = pc, !.broken = b]
                => Moved(kinds, steps, pc, act.err, act.recovering)
         /\ \A b \in BOOLEAN :
              act' = [act EXCEPT !.pc = pc, !.err = b, !.broken = b]
                => Moved(kinds, steps, pc, b, act.recovering)
PROOF BY DEF Act, Moved, Goto, Fail

\* The names of the steps, one by one.
LEMMA StepNames ==
  ASSUME NEW steps, Steps \subseteq steps
  PROVE  /\ {"recover", "begin", "check", "lock", "halt", "kill", "swap"} \subseteq steps
         /\ {"spawn", "reconcile", "reapply", "watch", "gate", "mark"} \subseteq steps
         /\ {"enter", "quiet", "scour", "script", "clear", "sweep"} \subseteq steps
         /\ {"leave", "done"} \subseteq steps
PROOF BY DEF Steps

DeviceOK ==
  /\ core \in Core
  /\ rules \in BOOLEAN
  /\ stray \in BOOLEAN
  /\ files \in Files

\* The writes of files, by what they do to the lock.
LEMMA FileWrites ==
  ASSUME files \in Files
  PROVE  /\ \A b \in BOOLEAN : /\ [files EXCEPT !.marker = b] \in Files
                               /\ [files EXCEPT !.marker = b].lock = files.lock
         /\ \A b, c \in BOOLEAN :
              /\ [files EXCEPT !.marker = b, !.manual = c] \in Files
              /\ [files EXCEPT !.marker = b, !.manual = c].lock = files.lock
         /\ \A l \in {"none", "fresh", "stale"} :
              /\ [files EXCEPT !.lock = l] \in Files
              /\ [files EXCEPT !.lock = l].lock = l
         /\ \A l \in {"none", "fresh", "stale"} : \A b \in BOOLEAN :
              /\ [files EXCEPT !.lock = l, !.marker = b] \in Files
              /\ [files EXCEPT !.lock = l, !.marker = b].lock = l
         /\ ScriptFiles \in Files /\ ScriptFiles.lock # "none"
         /\ [ScriptFiles EXCEPT !.manual = files.manual] \in Files
         /\ [ScriptFiles EXCEPT !.manual = files.manual].lock # "none"
PROOF BY DEF Files, ScriptFiles

\* The calls of the core manager keep the types and leave the lock alone.
LEMMA CallsType ==
  ASSUME DeviceOK
  PROVE  /\ \A ok \in BOOLEAN :
              StopCore(ok) => DeviceOK' /\ files'.lock = files.lock
         /\ StartCore => DeviceOK' /\ files'.lock = files.lock
         /\ StartCoreFails => DeviceOK' /\ files'.lock = files.lock
         /\ SwapCore => DeviceOK' /\ files'.lock = files.lock
         /\ SwapRestored => DeviceOK' /\ files'.lock = files.lock
         /\ SwapFails => DeviceOK' /\ files'.lock = files.lock
PROOF
<1>1. /\ Stopped \in Core /\ NewCore \subseteq Core
      /\ [core EXCEPT !.state = "stopped"] \in Core
      /\ [state |-> "degraded", proc |-> "none"] \in Core
  BY DEF DeviceOK, Core, CoreStates, Stopped, NewCore
<1>2. \A ok \in BOOLEAN : StopCore(ok) => DeviceOK' /\ files'.lock = files.lock
  <2> TAKE ok \in BOOLEAN
  <2> HAVE StopCore(ok)
  <2>1. core' \in Core /\ files' \in Files /\ files'.lock = files.lock
    BY <1>1, FileWrites DEF StopCore, DeviceOK
  <2>2. rules' \in BOOLEAN
    BY DEF StopCore, DeviceOK
  <2>3. stray' \in {stray, FALSE} \/ stray' \in {stray, TRUE}
    BY DEF StopCore
  <2> QED BY <2>1, <2>2, <2>3 DEF DeviceOK
<1>3. StartCore => DeviceOK' /\ files'.lock = files.lock
  BY <1>1, FileWrites DEF StartCore, MarkActive, DeviceOK
<1>4. StartCoreFails => DeviceOK' /\ files'.lock = files.lock
  <2> HAVE StartCoreFails
  <2>1. core' \in Core /\ files' = files
    BY <1>1 DEF StartCoreFails, DeviceOK
  <2>2. rules' \in BOOLEAN /\ stray' \in BOOLEAN
    BY DEF StartCoreFails, DeviceOK
  <2> QED BY <2>1, <2>2 DEF DeviceOK
<1>5. SwapCore => DeviceOK' /\ files'.lock = files.lock
  BY <1>1, FileWrites DEF SwapCore, MarkActive, DeviceOK
<1>6. SwapRestored => DeviceOK' /\ files'.lock = files.lock
  <2> HAVE SwapRestored
  <2>1. core' \in Core
    BY DEF SwapRestored, NewCore, Core, CoreStates
  <2>2. files' \in Files /\ files'.lock = files.lock
    BY FileWrites DEF SwapRestored, DeviceOK
  <2>3. rules' \in BOOLEAN /\ stray' \in BOOLEAN
    BY DEF SwapRestored, DeviceOK
  <2> QED BY <2>1, <2>2, <2>3 DEF DeviceOK
<1>7. SwapFails => DeviceOK' /\ files'.lock = files.lock
  BY <1>1, FileWrites DEF SwapFails, DeviceOK
<1> QED BY <1>2, <1>3, <1>4, <1>5, <1>6, <1>7

-----------------------------------------------------------------------------
(* LockInv is inductive: RootRuntime's own steps, for any more kinds and   *)
(* steps that the rescue adds.                                             *)

\* A step that leaves what only other steps write, and the types of the rest.
Framed ==
  /\ DeviceOK'
  /\ epoch' \in 0..MaxEpoch + 1
  /\ wanted' \in BOOLEAN
  /\ monitor' \in BOOLEAN
  /\ UNCHANGED daemonVars

\* A request that finds a stale lock keeps LockInv, whether it begins, fails
\* or turns into a RESET first.
LEMMA RecoverKeepsLockInv ==
  ASSUME NEW kinds, NEW steps, Steps \subseteq steps,
         LockInv(kinds, steps), Recover
  PROVE  LockInv(kinds, steps)'
PROOF
<1>1. Framed /\ UNCHANGED <<files, epoch>>
  BY DEF LockInv, RootTypeOK, Recover, Framed, DeviceOK, device
<1>2. \/ /\ files.lock = "none"
         /\ \E pc \in {"begin", "reconcile"} :
              /\ pc = "reconcile" <=> act.kind = "network-change"
              /\ Moved(kinds, steps, pc, act.err, act.recovering)
      \/ Moved(kinds, steps, "done", TRUE, act.recovering)
      \/ Moved(kinds, steps, "enter", act.err, TRUE)
  BY Moves, StepNames DEF LockInv, RootTypeOK, Recover, AfterRecover
<1>3. act.pc = "recover"
  BY DEF Recover, At
<1> QED
  BY <1>1, <1>2, <1>3 DEF LockInv, RootTypeOK, Framed, DeviceOK, daemonVars, Moved,
      KindAtStep, EpochLeft, LockHeldOff, ResetSteps

\* The step that takes the next epoch keeps LockInv.
LEMMA BeginKeepsLockInv ==
  ASSUME NEW kinds, NEW steps, Steps \subseteq steps,
         LockInv(kinds, steps), Begin
  PROVE  LockInv(kinds, steps)'
PROOF
<1>1. Framed /\ UNCHANGED files /\ epoch' = epoch + 1 /\ epoch' <= MaxEpoch
  BY RootRuntimeAssumption
  DEF LockInv, RootTypeOK, Begin, At, EpochLeft, Framed, DeviceOK, device
<1>2. \E pc \in {"check", "enter", "halt"} :
        /\ pc = "check" => act.kind = "start"
        /\ pc = "halt" => act.kind # "reset"
        /\ Moved(kinds, steps, pc, act.err, act.recovering)
  BY <1>1, Moves, StepNames DEF LockInv, RootTypeOK, Begin, Framed
<1>3. act.pc = "begin" /\ ~act.recovering
  BY DEF Begin, At, LockInv, KindAtStep, ResetSteps
<1> QED
  BY <1>1, <1>2, <1>3 DEF LockInv, RootTypeOK, Framed, DeviceOK, daemonVars, Moved,
      KindAtStep, EpochLeft, LockHeldOff, ResetSteps

\* Where each of the steps outside of a RESET goes.
LEMMA StepMoves ==
  ASSUME NEW kinds, NEW steps, Steps \subseteq steps, act \in Act(kinds, steps)
  PROVE  /\ CheckCore =>
             /\ act.pc = "check"
             /\ \/ CoreUp /\ Moved(kinds, steps, "done", act.err, act.recovering)
                \/ ~CoreUp /\ Moved(kinds, steps, "spawn", act.err, act.recovering)
         /\ CheckLock =>
             /\ act.pc = "lock"
             /\ \/ files.lock = "none" /\ Moved(kinds, steps, "halt", act.err, act.recovering)
                \/ Moved(kinds, steps, "done", TRUE, act.recovering)
         /\ Kill =>
             /\ act.pc = "kill"
             /\ \/ Moved(kinds, steps, "done", act.err, act.recovering)
                \/ act.kind # "stop" /\ Moved(kinds, steps, "spawn", act.err, act.recovering)
         /\ KillFails =>
             /\ act.pc = "kill"
             /\ \/ act.kind = "stop" /\ Moved(kinds, steps, "done", TRUE, act.recovering)
                \/ Moved(kinds, steps, "enter", TRUE, act.recovering)
         /\ Spawn => act.pc = "spawn" /\ Moved(kinds, steps, "watch", act.err, act.recovering)
         /\ SpawnWithoutNode =>
             /\ act.pc = "spawn"
             /\ \/ Moved(kinds, steps, "mark", TRUE, act.recovering)
                \/ Moved(kinds, steps, "done", TRUE, act.recovering)
         /\ SpawnFails =>
             /\ act.pc = "spawn"
             /\ \/ Moved(kinds, steps, "mark", TRUE, act.recovering)
                \/ Moved(kinds, steps, "enter", TRUE, act.recovering)
         /\ Swap =>
             /\ act.pc = "swap"
             /\ \/ Moved(kinds, steps, "reapply", act.err, act.recovering)
                \/ Moved(kinds, steps, "watch", act.err, act.recovering)
                \/ Moved(kinds, steps, "done", TRUE, act.recovering)
                \/ Moved(kinds, steps, "enter", TRUE, act.recovering)
         /\ Reconcile =>
             /\ act.pc = "reconcile"
             /\ \/ CoreUp /\ Moved(kinds, steps, "reapply", act.err, act.recovering)
                \/ Moved(kinds, steps, "done", act.err, act.recovering)
         /\ Reapply =>
             /\ act.pc = "reapply"
             /\ \/ Moved(kinds, steps, "watch", act.err, act.recovering)
                \/ Moved(kinds, steps, "gate", act.err, act.recovering)
                \/ Moved(kinds, steps, "enter", TRUE, act.recovering)
         /\ Gate =>
             /\ act.pc = "gate"
             /\ \/ Moved(kinds, steps, "done", act.err, act.recovering)
                \/ Moved(kinds, steps, "enter", TRUE, act.recovering)
         /\ Mark => act.pc = "mark" /\ Moved(kinds, steps, "done", act.err, act.recovering)
         /\ Watch => act.pc = "watch" /\ Moved(kinds, steps, "gate", act.err, act.recovering)
         /\ Halt => /\ act.pc = "halt"
                    /\ \/ Moved(kinds, steps, "kill", act.err, act.recovering)
                       \/ act.kind = "reload" /\ Moved(kinds, steps, "swap", act.err, act.recovering)
                       \/ /\ act.kind # "stop" /\ core.state = "stopped"
                          /\ Moved(kinds, steps, "spawn", act.err, act.recovering)
PROOF
<1> USE Moves, StepNames DEF At
<1>1. ASSUME CheckCore
      PROVE  /\ act.pc = "check"
             /\ \/ CoreUp /\ Moved(kinds, steps, "done", act.err, act.recovering)
                \/ ~CoreUp /\ Moved(kinds, steps, "spawn", act.err, act.recovering)
  BY <1>1 DEF CheckCore
<1>2. ASSUME CheckLock
      PROVE  /\ act.pc = "lock"
             /\ \/ files.lock = "none" /\ Moved(kinds, steps, "halt", act.err, act.recovering)
                \/ Moved(kinds, steps, "done", TRUE, act.recovering)
  BY <1>2 DEF CheckLock
<1>3. ASSUME Kill
      PROVE  /\ act.pc = "kill"
             /\ \/ Moved(kinds, steps, "done", act.err, act.recovering)
                \/ act.kind # "stop" /\ Moved(kinds, steps, "spawn", act.err, act.recovering)
  BY <1>3 DEF Kill
<1>4. ASSUME KillFails
      PROVE  /\ act.pc = "kill"
             /\ \/ act.kind = "stop" /\ Moved(kinds, steps, "done", TRUE, act.recovering)
                \/ Moved(kinds, steps, "enter", TRUE, act.recovering)
  BY <1>4 DEF KillFails
<1>5. ASSUME Spawn
      PROVE  /\ act.pc = "spawn"
             /\ Moved(kinds, steps, "watch", act.err, act.recovering)
  BY <1>5 DEF Spawn
<1>6. ASSUME SpawnWithoutNode
      PROVE  /\ act.pc = "spawn"
             /\ \/ Moved(kinds, steps, "mark", TRUE, act.recovering)
                \/ Moved(kinds, steps, "done", TRUE, act.recovering)
  BY <1>6 DEF SpawnWithoutNode, AfterFailure
<1>7. ASSUME SpawnFails
      PROVE  /\ act.pc = "spawn"
             /\ \/ Moved(kinds, steps, "mark", TRUE, act.recovering)
                \/ Moved(kinds, steps, "enter", TRUE, act.recovering)
  BY <1>7 DEF SpawnFails
<1>8. ASSUME Swap
      PROVE  /\ act.pc = "swap"
             /\ \/ Moved(kinds, steps, "reapply", act.err, act.recovering)
                \/ Moved(kinds, steps, "watch", act.err, act.recovering)
                \/ Moved(kinds, steps, "done", TRUE, act.recovering)
                \/ Moved(kinds, steps, "enter", TRUE, act.recovering)
  BY <1>8 DEF Swap
<1>9. ASSUME Reconcile
      PROVE  /\ act.pc = "reconcile"
             /\ \/ CoreUp /\ Moved(kinds, steps, "reapply", act.err, act.recovering)
                \/ Moved(kinds, steps, "done", act.err, act.recovering)
  BY <1>9 DEF Reconcile
<1>10. ASSUME Reapply
      PROVE  /\ act.pc = "reapply"
             /\ \/ Moved(kinds, steps, "watch", act.err, act.recovering)
                \/ Moved(kinds, steps, "gate", act.err, act.recovering)
                \/ Moved(kinds, steps, "enter", TRUE, act.recovering)
  BY <1>10 DEF Reapply
<1>11. ASSUME Gate
      PROVE  /\ act.pc = "gate"
             /\ \/ Moved(kinds, steps, "done", act.err, act.recovering)
                \/ Moved(kinds, steps, "enter", TRUE, act.recovering)
  BY <1>11 DEF Gate
<1>12. ASSUME Mark
      PROVE  /\ act.pc = "mark"
             /\ Moved(kinds, steps, "done", act.err, act.recovering)
  BY <1>12 DEF Mark
<1>13. ASSUME Watch
      PROVE  /\ act.pc = "watch"
             /\ Moved(kinds, steps, "gate", act.err, act.recovering)
  BY <1>13 DEF Watch
<1>14. ASSUME Halt
      PROVE  /\ act.pc = "halt"
             /\ \/ Moved(kinds, steps, "kill", act.err, act.recovering)
                \/ act.kind = "reload" /\ Moved(kinds, steps, "swap", act.err, act.recovering)
                \/ /\ act.kind # "stop" /\ core.state = "stopped"
                   /\ Moved(kinds, steps, "spawn", act.err, act.recovering)
  <2>1. CASE AfterHalt = "kill"
    BY <1>14, <2>1 DEF Halt
  <2>2. CASE AfterHalt = "swap" /\ act.kind = "reload"
    BY <1>14, <2>2 DEF Halt
  <2>3. CASE AfterHalt = "spawn" /\ act.kind # "stop" /\ core.state = "stopped"
    BY <1>14, <2>3 DEF Halt
  <2> QED BY <1>14, <2>1, <2>2, <2>3 DEF Halt, AfterHalt
<1> QED BY <1>1, <1>2, <1>3, <1>4, <1>5, <1>6, <1>7,
     <1>8, <1>9, <1>10, <1>11, <1>12, <1>13, <1>14

\* The steps outside of a RESET, other than those that begin an operation.
LEMMA StepKeepsLockInv ==
  ASSUME NEW kinds, NEW steps, Steps \subseteq steps, LockInv(kinds, steps),
         \/ CheckCore \/ CheckLock \/ Kill \/ KillFails \/ Spawn
         \/ SpawnWithoutNode \/ SpawnFails \/ Swap \/ Reconcile \/ Reapply
         \/ Gate \/ Mark \/ Halt \/ Watch
  PROVE  LockInv(kinds, steps)'
PROOF
<1> USE DEF LockInv, RootTypeOK, DeviceOK
<1>1. act \in Act(kinds, steps)
  OBVIOUS
<1>2. CASE CheckCore
  <2>1. Framed /\ files'.lock = files.lock /\ epoch' = epoch
    BY <1>2 DEF CheckCore, device, Framed
  <2> QED
    BY <1>1, <1>2, <2>1, StepMoves DEF Framed, Moved, KindAtStep, EpochLeft,
        LockHeldOff, ResetSteps, daemonVars
<1>3. CASE CheckLock
  <2>1. Framed /\ files'.lock = files.lock /\ epoch' = epoch
    BY <1>3 DEF CheckLock, device, Framed
  <2> QED
    BY <1>1, <1>3, <2>1, StepMoves DEF Framed, Moved, KindAtStep, EpochLeft,
        LockHeldOff, ResetSteps, daemonVars
<1>4. CASE Kill
  <2>1. Framed /\ files'.lock = files.lock /\ epoch' = epoch
    BY <1>4, CallsType DEF Kill, Framed
  <2> QED
    BY <1>1, <1>4, <2>1, StepMoves DEF Framed, Moved, KindAtStep, EpochLeft,
        LockHeldOff, ResetSteps, daemonVars
<1>5. CASE Spawn
  <2>1. Framed /\ files'.lock = files.lock /\ epoch' = epoch
    BY <1>5, CallsType DEF Spawn, Framed
  <2> QED
    BY <1>1, <1>5, <2>1, StepMoves DEF Framed, Moved, KindAtStep, EpochLeft,
        LockHeldOff, ResetSteps, daemonVars
<1>6. CASE SpawnWithoutNode
  <2>1. Framed /\ files'.lock = files.lock /\ epoch' = epoch
    BY <1>6 DEF SpawnWithoutNode, device, Framed
  <2> QED
    BY <1>1, <1>6, <2>1, StepMoves DEF Framed, Moved, KindAtStep, EpochLeft,
        LockHeldOff, ResetSteps, daemonVars
<1>7. CASE SpawnFails
  <2>1. Framed /\ files'.lock = files.lock /\ epoch' = epoch
    BY <1>7, CallsType DEF SpawnFails, Framed
  <2> QED
    BY <1>1, <1>7, <2>1, StepMoves DEF Framed, Moved, KindAtStep, EpochLeft,
        LockHeldOff, ResetSteps, daemonVars
<1>8. CASE Swap
  <2>1. Framed /\ files'.lock = files.lock /\ epoch' = epoch
    BY <1>8, CallsType DEF Swap, Framed
  <2> QED
    BY <1>1, <1>8, <2>1, StepMoves DEF Framed, Moved, KindAtStep, EpochLeft,
        LockHeldOff, ResetSteps, daemonVars
<1>9. CASE Reconcile
  <2>1. Framed /\ files'.lock = files.lock /\ epoch' = epoch
    BY <1>9 DEF Reconcile, device, Framed
  <2> QED
    BY <1>1, <1>9, <2>1, StepMoves DEF Framed, Moved, KindAtStep, EpochLeft,
        LockHeldOff, ResetSteps, daemonVars
<1>10. CASE Reapply
  <2>1. Framed /\ files'.lock = files.lock /\ epoch' = epoch
    BY <1>10 DEF Reapply, Framed
  <2> QED
    BY <1>1, <1>10, <2>1, StepMoves DEF Framed, Moved, KindAtStep, EpochLeft,
        LockHeldOff, ResetSteps, daemonVars
<1>11. CASE Gate
  <2>1. Framed /\ files'.lock = files.lock /\ epoch' = epoch
    BY <1>11 DEF Gate, device, Framed
  <2> QED
    BY <1>1, <1>11, <2>1, StepMoves DEF Framed, Moved, KindAtStep, EpochLeft,
        LockHeldOff, ResetSteps, daemonVars
<1>12. CASE Mark
  <2>1. Framed /\ files'.lock = files.lock /\ epoch' = epoch
    BY <1>12 DEF Mark, device, Framed
  <2> QED
    BY <1>1, <1>12, <2>1, StepMoves DEF Framed, Moved, KindAtStep, EpochLeft,
        LockHeldOff, ResetSteps, daemonVars
<1>13. CASE Halt
  <2>1. Framed /\ files'.lock = files.lock /\ epoch' = epoch
    BY <1>13 DEF Halt, device, Framed
  <2> QED
    BY <1>1, <1>13, <2>1, StepMoves DEF Framed, Moved, KindAtStep, EpochLeft,
        LockHeldOff, ResetSteps, daemonVars
<1>14. CASE Watch
  <2>1. Framed /\ files'.lock = files.lock /\ epoch' = epoch
    BY <1>14 DEF Watch, device, Framed
  <2> QED
    BY <1>1, <1>14, <2>1, StepMoves DEF Framed, Moved, KindAtStep, EpochLeft,
        LockHeldOff, ResetSteps, daemonVars
<1>15. CASE KillFails
  <2>1. DeviceOK' /\ files'.lock = files.lock
    BY <1>15, CallsType DEF KillFails
  <2>2. \/ epoch' = epoch
        \/ act.pc = "kill" /\ act.kind = "stop" /\ epoch' = epoch + 1
    BY <1>15 DEF KillFails, At
  <2>3. epoch' \in 0..MaxEpoch + 1
    BY <2>2, RootRuntimeAssumption DEF EpochLeft
  <2>4. wanted' \in BOOLEAN
    BY <1>15 DEF KillFails
  <2>5. Framed
    BY <1>15, <2>1, <2>3, <2>4 DEF KillFails, Framed, daemonVars
  <2> QED
    BY <1>1, <1>15, <2>1, <2>5, StepMoves DEF Framed, Moved, KindAtStep, EpochLeft,
        LockHeldOff, ResetSteps, daemonVars
<1> QED BY <1>2, <1>3, <1>4, <1>5, <1>6, <1>7, <1>8,
     <1>9, <1>10, <1>11, <1>12, <1>13, <1>14, <1>15

\* What every step of a RESET does to the operation.
LEMMA ResetMoves ==
  ASSUME NEW kinds, NEW steps, act \in Act(kinds, steps), NEW from,
         NEW to \in steps, NEW ok \in BOOLEAN, ResetStep(from, to, ok)
  PROVE  /\ act.pc = from
         /\ Moved(kinds, steps, to, act.err, act.recovering)
         /\ UNCHANGED <<epoch, wanted, daemonVars>>
PROOF
<1>1. (act.broken \/ ~ok) \in BOOLEAN
  OBVIOUS
<1>2. act' = [act EXCEPT !.pc = to, !.broken = act.broken \/ ~ok]
  BY DEF ResetStep
<1> QED BY <1>1, <1>2, Moves DEF ResetStep, At

\* The steps of a RESET.  Each goes on to another one, except the last.
LEMMA ResetKeepsLockInv ==
  ASSUME NEW kinds, NEW steps, Steps \subseteq steps, LockInv(kinds, steps),
         \/ EnterReset \/ QuietReset \/ ScourReset \/ ScriptReset
         \/ ClearReset \/ SweepReset
  PROVE  LockInv(kinds, steps)'
PROOF
<1>1. act \in Act(kinds, steps) /\ DeviceOK
  BY DEF LockInv, RootTypeOK, DeviceOK
<1>2. SUFFICES
        /\ DeviceOK' /\ monitor' \in BOOLEAN
        /\ \E from \in ResetSteps, to \in ResetSteps \ {"enter"}, ok \in BOOLEAN :
             ResetStep(from, to, ok)
  <2> PICK from \in ResetSteps, to \in ResetSteps \ {"enter"}, ok \in BOOLEAN :
             ResetStep(from, to, ok)
    BY <1>2
  <2>1. to \in steps
    BY DEF ResetSteps, Steps
  <2>2. /\ Moved(kinds, steps, to, act.err, act.recovering)
        /\ UNCHANGED <<epoch, wanted, daemonVars>>
    BY <1>1, <2>1, ResetMoves
  <2> QED
    BY <1>2, <2>2 DEF LockInv, RootTypeOK, DeviceOK, daemonVars, Moved, KindAtStep,
        EpochLeft, LockHeldOff, ResetSteps
<1>3. CASE EnterReset
  <2>1. DeviceOK' /\ UNCHANGED monitor
    BY <1>1, <1>3 DEF EnterReset, DeviceOK, Files
  <2> QED BY <1>3, <2>1 DEF EnterReset, LockInv, RootTypeOK, ResetSteps
<1>4. CASE QuietReset
  BY <1>1, <1>4 DEF QuietReset, device, DeviceOK, ResetSteps
<1>5. CASE ScourReset
  BY <1>1, <1>5, CallsType DEF ScourReset, LockInv, RootTypeOK, ResetSteps
<1>6. CASE ScriptReset
  <2>1. DeviceOK' /\ UNCHANGED monitor
    BY <1>1, <1>6, FileWrites DEF ScriptReset, DeviceOK
  <2>2. \E to \in {"clear", "leave"}, ok \in BOOLEAN : ResetStep("script", to, ok)
    BY <1>6 DEF ScriptReset
  <2> QED BY <2>1, <2>2 DEF LockInv, RootTypeOK, ResetSteps
<1>7. CASE ClearReset
  <2>1. DeviceOK' /\ UNCHANGED monitor
    BY <1>1, <1>7, FileWrites DEF ClearReset, DeviceOK, Stopped, Core, CoreStates
  <2> QED BY <1>7, <2>1 DEF ClearReset, LockInv, RootTypeOK, ResetSteps
<1>8. CASE SweepReset
  BY <1>1, <1>8 DEF SweepReset, device, DeviceOK, LockInv, RootTypeOK, ResetSteps
<1> QED BY <1>3, <1>4, <1>5, <1>6, <1>7, <1>8

\* The end of a RESET keeps LockInv: an operation that goes on finds no lock.
LEMMA LeaveKeepsLockInv ==
  ASSUME NEW kinds, NEW steps, Steps \subseteq steps,
         LockInv(kinds, steps), LeaveReset
  PROVE  LockInv(kinds, steps)'
PROOF
<1>1. /\ act \in Act(kinds, steps) /\ act.pc = "leave"
      /\ act.broken \in BOOLEAN /\ act.err \in BOOLEAN /\ act.recovering \in BOOLEAN
  BY DEF LockInv, RootTypeOK, LeaveReset, At, Act
<1>2. Framed /\ epoch' = epoch
  BY FileWrites DEF LockInv, RootTypeOK, LeaveReset, Framed, DeviceOK
<1>3. PICK b \in BOOLEAN : act' = AfterReset(b) /\ (~b => files'.lock = "none")
  BY <1>1, FileWrites DEF LeaveReset, LockInv, RootTypeOK
<1>4. CASE act.recovering /\ ~b
  <2>1. \E pc \in {"begin", "reconcile"} :
          /\ pc = "reconcile" <=> act.kind = "network-change"
          /\ Moved(kinds, steps, pc, act.err, FALSE)
    <3>1. act' = [act EXCEPT !.pc = AfterRecover, !.recovering = FALSE]
      BY <1>3, <1>4 DEF AfterReset
    <3> QED BY <1>1, <3>1, Moves, StepNames DEF AfterRecover
  <2> QED
    BY <1>1, <1>2, <1>3, <1>4, <2>1 DEF LockInv, RootTypeOK, Framed, DeviceOK,
        daemonVars, Moved, KindAtStep, EpochLeft, LockHeldOff, ResetSteps
<1>5. CASE ~(act.recovering /\ ~b)
  <2>1. \E pc \in {"done", "mark"}, err \in BOOLEAN :
          /\ act.recovering => pc = "done"
          /\ Moved(kinds, steps, pc, err, act.recovering)
    <3>1. CASE act.recovering
      <4>1. act' = [act EXCEPT !.pc = "done", !.err = TRUE]
        BY <1>3, <1>5, <3>1 DEF AfterReset
      <4> QED BY <1>1, <4>1, Moves, StepNames DEF Fail
    <3>2. CASE ~act.recovering /\ act.kind = "reset"
      <4>1. act' = [act EXCEPT !.pc = "done", !.err = b, !.broken = b]
        BY <1>3, <3>2 DEF AfterReset
      <4> QED BY <1>1, <3>2, <4>1, Moves, StepNames
    <3>3. CASE ~act.recovering /\ act.kind # "reset"
      <4>1. Goto(AfterFailure)
        BY <1>3, <3>3 DEF AfterReset, Goto
      <4> QED BY <1>1, <3>3, <4>1, Moves, StepNames DEF AfterFailure
    <3> QED BY <1>1, <3>1, <3>2, <3>3
  <2> QED
    BY <1>1, <1>2, <2>1 DEF LockInv, RootTypeOK, Framed, DeviceOK,
        daemonVars, Moved, KindAtStep, EpochLeft, LockHeldOff, ResetSteps
<1> QED BY <1>4, <1>5

\* An operation that is accepted begins with nothing behind it.
LEMMA RequestsKeepLockInv ==
  ASSUME NEW kinds, NEW steps, Kinds \subseteq kinds, Steps \subseteq steps,
         LockInv(kinds, steps), Requests
  PROVE  LockInv(kinds, steps)'
PROOF
<1>1. /\ DeviceOK /\ epoch \in 0..MaxEpoch + 1 /\ reload \in Plans \cup {"none"}
      /\ wanted \in BOOLEAN /\ monitor \in BOOLEAN /\ up \in BOOLEAN
      /\ autostart \in {"off", "pending", "checked"} /\ act \in Act(kinds, steps)
  BY DEF LockInv, RootTypeOK, DeviceOK
<1>2. ASSUME NEW kind \in Kinds, NEW pc \in {"recover", "begin", "lock"},
             Submit(kind, pc), reload' \in Plans \cup {"none"},
             autostart' \in {"off", "pending", "checked"},
             pc = "recover" => kind \in {"start", "restart", "network-change"},
             pc = "begin" => kind \in {"stop", "reset"},
             pc = "lock" => kind = "reload"
      PROVE  LockInv(kinds, steps)'
  <2>1. /\ act' \in Act(kinds, steps)
        /\ act'.kind = kind /\ act'.pc = pc /\ ~act'.err /\ ~act'.recovering
    <3>1. pc \in steps
      BY StepNames
    <3>2. kind \in kinds
      OBVIOUS
    <3> QED BY <1>1, <1>2, <3>1, <3>2 DEF Submit, NoAct, Act
  <2>2. /\ UNCHANGED <<up, core, rules, stray, files, epoch, wanted, monitor>>
        /\ kind \in {"start", "restart", "stop", "reset"} => epoch < MaxEpoch
    BY <1>2 DEF Submit
  <2> QED
    BY <1>1, <1>2, <2>1, <2>2 DEF LockInv, RootTypeOK, DeviceOK, KindAtStep,
        EpochLeft, LockHeldOff, ResetSteps
<1>3. CASE Request
  <2>1. PICK kind \in Kinds, pc \in {"recover", "begin"} :
          /\ Submit(kind, pc)
          /\ pc = "recover" => kind \in {"start", "restart", "network-change"}
          /\ pc = "begin" => kind \in {"stop", "reset"}
    BY <1>3 DEF Request, Kinds
  <2> QED BY <1>1, <1>2, <1>3, <2>1 DEF Request
<1>4. CASE SubmitReload
  BY <1>1, <1>2, <1>4 DEF SubmitReload, Kinds
<1>5. CASE AutostartSubmit
  BY <1>1, <1>2, <1>5 DEF AutostartSubmit, Kinds
<1>6. CASE SampleReload \/ ReloadBusy \/ AutostartCheck \/ AutostartBusy
  <2>1. /\ reload' \in Plans \cup {"none"}
        /\ autostart' \in {"off", "pending", "checked"}
        /\ UNCHANGED <<up, core, rules, stray, files, epoch, wanted, monitor, act>>
    BY <1>1, <1>6, RootRuntimeAssumption
    DEF SampleReload, ReloadBusy, AutostartCheck, AutostartBusy
  <2> QED
    BY <2>1 DEF LockInv, RootTypeOK, KindAtStep, EpochLeft, LockHeldOff
<1> QED BY <1>3, <1>4, <1>5, <1>6 DEF Requests

\* Processes that die, a lock that ages and a changed configuration keep it.
LEMMA EnvironmentKeepsLockInv ==
  ASSUME NEW kinds, NEW steps, LockInv(kinds, steps), Environment
  PROVE  LockInv(kinds, steps)'
PROOF
<1>1. DeviceOK
  BY DEF LockInv, RootTypeOK, DeviceOK
<1>2. /\ DeviceOK'
      /\ files'.lock = files.lock \/ files.lock # "none" \/ files'.lock = "none"
  <2>1. CASE CoreDies
    BY <1>1, <2>1 DEF CoreDies, DeviceOK, Core
  <2>2. CASE StrayExits
    BY <1>1, <2>2 DEF StrayExits, DeviceOK
  <2>3. CASE LockExpires
    BY <1>1, <2>3, FileWrites DEF LockExpires, DeviceOK
  <2>4. CASE AppRepair
    BY <1>1, <2>4 DEF AppRepair, Relaunched, DeviceOK
  <2>5. CASE Boot
    BY <1>1, <2>5, FileWrites DEF Boot, Relaunched, DeviceOK
  <2> QED BY <2>1, <2>2, <2>3, <2>4, <2>5 DEF Environment
<1>3. /\ UNCHANGED <<epoch, wanted, monitor, act, reload>>
      /\ up' \in BOOLEAN /\ autostart' \in {"off", "pending", "checked"}
  BY DEF Environment, CoreDies, StrayExits, LockExpires, AppRepair, Boot, Relaunched,
      LockInv, RootTypeOK
<1> QED
  BY <1>2, <1>3 DEF LockInv, RootTypeOK, DeviceOK, KindAtStep, EpochLeft, LockHeldOff

\* A crash leaves no operation, and files of the right type.
LEMMA CrashKeepsLockInv ==
  ASSUME NEW kinds, NEW steps, LockInv(kinds, steps), NEW pc, CrashDuring(pc)
  PROVE  LockInv(kinds, steps)'
PROOF
<1>1. DeviceOK
  BY DEF LockInv, RootTypeOK, DeviceOK
<1>2. act' \in Act(kinds, steps) /\ act'.pc = "none" /\ ~act'.recovering
  BY RootRuntimeAssumption DEF CrashDuring, NoAct, Act
<1>3. files' \in Files
  <2>1. HalfFiles(pc) \subseteq Files
    BY <1>1, FileWrites DEF HalfFiles, DeviceOK
  <2> QED BY <2>1 DEF CrashDuring
<1>4. rules' \in BOOLEAN
  <2>1. HalfRules(pc) \subseteq BOOLEAN
    BY <1>1 DEF HalfRules, DeviceOK
  <2> QED BY <2>1 DEF CrashDuring
<1>5. stray' \in BOOLEAN /\ core' \in Core
  BY <1>1 DEF CrashDuring, DeviceOK, Stopped, Core, CoreStates
<1>6. /\ epoch' = 0 /\ ~up' /\ up' \in BOOLEAN /\ wanted' \in BOOLEAN
      /\ monitor' \in BOOLEAN /\ reload' = "none" /\ autostart' = "off"
  BY DEF CrashDuring
<1>7. epoch' \in 0..MaxEpoch + 1
  BY <1>6, RootRuntimeAssumption
<1> QED
  BY <1>2, <1>3, <1>4, <1>5, <1>6, <1>7 DEF LockInv, RootTypeOK, KindAtStep,
      EpochLeft, LockHeldOff

\* The end of an operation keeps LockInv.
LEMMA DoneKeepsLockInv ==
  ASSUME NEW kinds, NEW steps, LockInv(kinds, steps), Done
  PROVE  LockInv(kinds, steps)'
PROOF
<1>1. act' \in Act(kinds, steps) /\ act'.pc = "none" /\ ~act'.recovering
  BY RootRuntimeAssumption DEF Done, NoAct, Act
<1> QED
  BY <1>1 DEF Done, device, daemonVars, LockInv, RootTypeOK, KindAtStep, EpochLeft,
      LockHeldOff

\* All of RootRuntime's steps but the crash.
LEMMA RunningKeepsLockInv ==
  ASSUME NEW kinds, NEW steps, Kinds \subseteq kinds, Steps \subseteq steps,
         LockInv(kinds, steps),
         Requests \/ PlainSteps \/ MonitorSteps \/ Environment
  PROVE  LockInv(kinds, steps)'
PROOF
<1>1. CASE Requests
  BY <1>1, RequestsKeepLockInv
<1>2. CASE PlainSteps
  BY <1>2, RecoverKeepsLockInv, BeginKeepsLockInv, StepKeepsLockInv,
     ResetKeepsLockInv, LeaveKeepsLockInv, DoneKeepsLockInv DEF PlainSteps
<1>3. CASE MonitorSteps
  BY <1>3, StepKeepsLockInv, ResetKeepsLockInv DEF MonitorSteps
<1>4. CASE Environment
  BY <1>4, EnvironmentKeepsLockInv
<1> QED BY <1>1, <1>2, <1>3, <1>4

\* So does a step that changes nothing.
LEMMA StutterKeepsLockInv ==
  ASSUME NEW kinds, NEW steps, LockInv(kinds, steps), UNCHANGED rootVars
  PROVE  LockInv(kinds, steps)'
PROOF BY DEF rootVars, LockInv, RootTypeOK, KindAtStep, EpochLeft, LockHeldOff

\* LockInv holds at first.
LEMMA InitLockInv ==
  ASSUME NEW kinds, NEW steps, Init
  PROVE  LockInv(kinds, steps)
PROOF
<1>1. act \in Act(kinds, steps) /\ act.pc = "none" /\ ~act.recovering
  BY RootRuntimeAssumption DEF Init, NoAct, Act
<1>2. core \in Core /\ files \in Files
  BY DEF Init, Stopped, Core, CoreStates, Files
<1>3. /\ up \in BOOLEAN /\ rules \in BOOLEAN /\ stray \in BOOLEAN
      /\ wanted \in BOOLEAN /\ monitor \in BOOLEAN /\ reload = "none"
      /\ autostart \in {"off", "pending", "checked"}
  BY DEF Init
<1>4. epoch \in 0..MaxEpoch + 1
  BY RootRuntimeAssumption DEF Init
<1> QED
  BY <1>1, <1>2, <1>3, <1>4 DEF LockInv, RootTypeOK, KindAtStep, EpochLeft,
      LockHeldOff

\* Only two steps bring a sing-box up, and both come after the lock was seen
\* to be gone.
LEMMA SpawnedUnlocked ==
  ASSUME NEW kinds, NEW steps, Kinds \subseteq kinds, Steps \subseteq steps,
         LockInv(kinds, steps), [Next]_rootVars, Spawned
  PROVE  files.lock = "none"
PROOF
<1>1. SUFFICES ASSUME files.lock # "none" PROVE FALSE
  OBVIOUS
<1>2. ~Spawn /\ ~Swap
  <2>1. Spawn \/ Swap => act.pc \in {"spawn", "swap"}
    BY DEF Spawn, Swap, At
  <2> QED BY <1>1, <2>1 DEF LockInv, KindAtStep, LockHeldOff
<1>3. core.proc = "none" /\ core' # core /\ core' # Stopped
  BY DEF Spawned, Stopped
<1>4. core \in Core /\ core' # [core EXCEPT !.state = "stopped"]
  <2>1. core \in Core
    BY DEF LockInv, RootTypeOK
  <2>2. [core EXCEPT !.state = "stopped"].proc = core.proc
    BY <2>1 DEF Core
  <2> QED BY <2>1, <2>2 DEF Spawned
<1>5. ~SpawnFails
  BY <1>3, <1>4 DEF SpawnFails, StartCoreFails
<1>6. ~Kill /\ ~KillFails /\ ~ScourReset
  BY <1>3 DEF Kill, KillFails, ScourReset, StopCore
<1>7. ~ClearReset /\ ~Crash
  BY <1>3 DEF ClearReset, Crash, CrashDuring
<1>8. ~Requests
  BY <1>3 DEF Requests, Request, Submit, SampleReload, SubmitReload, ReloadBusy,
      AutostartCheck, AutostartSubmit, AutostartBusy
<1>9. ~Environment
  BY <1>3 DEF Environment, CoreDies, StrayExits, LockExpires, AppRepair, Boot, Relaunched
<1>10. PlainSteps => Spawn \/ SpawnFails \/ Swap \/ Kill \/ KillFails \/ ScourReset
  BY <1>3 DEF PlainSteps, Recover, Begin, CheckCore, CheckLock, SpawnWithoutNode,
      Reconcile, Reapply, Gate, Mark, EnterReset, ScriptReset, SweepReset,
      LeaveReset, Done, device
<1>11. MonitorSteps => ClearReset
  BY <1>3 DEF MonitorSteps, Halt, Watch, QuietReset, device
<1> QED
  BY <1>2, <1>3, <1>5, <1>6, <1>7, <1>8, <1>9, <1>10, <1>11 DEF Next, rootVars

-----------------------------------------------------------------------------
(* Theorems about RootRuntime                                              *)

\* LockInv holds in every state.
THEOREM LockInductive == Spec => []LockInv(Kinds, Steps)
PROOF
<1>1. Init => LockInv(Kinds, Steps)
  BY InitLockInv
<1>2. LockInv(Kinds, Steps) /\ [Next]_rootVars => LockInv(Kinds, Steps)'
  BY RunningKeepsLockInv, CrashKeepsLockInv, StutterKeepsLockInv DEF Next, Crash
<1> QED BY <1>1, <1>2, PTL DEF Spec

\* Every variable keeps its type, the epoch its bound of one more than the
\* operations that begin, for every bound and every set of reload plans.
THEOREM TypeCorrect == Spec => []TypeOK
PROOF
<1>1. LockInv(Kinds, Steps) => TypeOK
  BY DEF LockInv, TypeOK
<1> QED BY <1>1, LockInductive, PTL

\* No step of the backend, of a reload, of a crash or of a relaunch brings a
\* sing-box up while reset.lock is there.
THEOREM LockKeepsCoreDown == Spec => NoStartUnderResetLock
PROOF
<1>1. LockInv(Kinds, Steps) /\ [Next]_rootVars
        => [Spawned => files.lock = "none"]_rootVars
  BY SpawnedUnlocked
<1> QED BY <1>1, LockInductive, PTL DEF Spec, NoStartUnderResetLock
-----------------------------------------------------------------------------
(* DownInv is inductive                                                    *)

\* What a step leaves of the core, the subsystems and the lock.
Quiet == core'.state = "stopped" /\ core'.proc = "none" /\ ~monitor'
Kept == UNCHANGED <<core, monitor>> /\ files'.lock = files.lock

\* The steps outside of a RESET keep DownInv: a failing start stops the core
\* before it is reported.
LEMMA StepKeepsDownInv ==
  ASSUME DownInv,
         \/ CheckCore \/ CheckLock \/ Kill \/ KillFails \/ Spawn
         \/ SpawnWithoutNode \/ SpawnFails \/ Swap \/ Reconcile \/ Reapply
         \/ Gate \/ Mark \/ Halt \/ Watch,
         LockInv(Kinds, Steps)'
  PROVE  DownInv'
PROOF
<1>1. /\ act \in Act(Kinds, Steps) /\ core \in Core /\ files \in Files
      /\ DeviceOK /\ KindAtStep /\ LockHeldOff
  BY DEF DownInv, LockInv, RootTypeOK, DeviceOK
<1>2. core.state \in {"stopped", "running", "degraded"}
  BY <1>1 DEF DownInv, CoreAtStep, Core, CoreStates
<1> USE DEF DownInv
<1>3. CASE CheckCore
  <2>1. Kept
    BY <1>3 DEF CheckCore, device, Kept
  <2>2. CoreUp <=> core.state # "stopped"
    BY <1>2 DEF CoreUp
  <2> QED
    BY <1>1, <1>2, <1>3, <2>1, <2>2, StepMoves
    DEF Kept, Moved, KindAtStep, LockHeldOff, StoppedIsQuiet,
        CoreAtStep, LockMeansDown, ErrorAtStep, ResetSteps
<1>4. CASE CheckLock
  <2>1. Kept
    BY <1>4 DEF CheckLock, device, Kept
  <2> QED
    BY <1>1, <1>2, <1>4, <2>1, StepMoves
    DEF Kept, Moved, KindAtStep, LockHeldOff, StoppedIsQuiet,
        CoreAtStep, LockMeansDown, ErrorAtStep, ResetSteps
<1>5. CASE SpawnWithoutNode
  <2>1. Kept
    BY <1>5 DEF SpawnWithoutNode, device, Kept
  <2> QED
    BY <1>1, <1>2, <1>5, <2>1, StepMoves
    DEF Kept, Moved, KindAtStep, LockHeldOff, StoppedIsQuiet,
        CoreAtStep, LockMeansDown, ErrorAtStep, ResetSteps
<1>6. CASE Reconcile
  <2>1. Kept
    BY <1>6 DEF Reconcile, device, Kept
  <2>2. CoreUp <=> core.state # "stopped"
    BY <1>2 DEF CoreUp
  <2> QED
    BY <1>1, <1>2, <1>6, <2>1, <2>2, StepMoves
    DEF Kept, Moved, KindAtStep, LockHeldOff, StoppedIsQuiet,
        CoreAtStep, LockMeansDown, ErrorAtStep, ResetSteps
<1>7. CASE Reapply
  <2>1. Kept
    BY <1>7 DEF Reapply, Kept
  <2> QED
    BY <1>1, <1>2, <1>7, <2>1, StepMoves
    DEF Kept, Moved, KindAtStep, LockHeldOff, StoppedIsQuiet,
        CoreAtStep, LockMeansDown, ErrorAtStep, ResetSteps
<1>8. CASE Gate
  <2>1. Kept
    BY <1>8 DEF Gate, device, Kept
  <2> QED
    BY <1>1, <1>2, <1>8, <2>1, StepMoves
    DEF Kept, Moved, KindAtStep, LockHeldOff, StoppedIsQuiet,
        CoreAtStep, LockMeansDown, ErrorAtStep, ResetSteps
<1>9. CASE Mark
  <2>1. Kept
    BY <1>9 DEF Mark, device, Kept
  <2> QED
    BY <1>1, <1>2, <1>9, <2>1, StepMoves
    DEF Kept, Moved, KindAtStep, LockHeldOff, StoppedIsQuiet,
        CoreAtStep, LockMeansDown, ErrorAtStep, ResetSteps
<1>10. CASE Halt
  <2>1. UNCHANGED <<core, files>> /\ ~monitor'
    BY <1>10 DEF Halt, device
  <2> QED
    BY <1>1, <1>2, <1>10, <2>1, StepMoves
    DEF Moved, KindAtStep, LockHeldOff, StoppedIsQuiet,
        CoreAtStep, LockMeansDown, ErrorAtStep, ResetSteps
<1>11. CASE Watch
  <2>1. UNCHANGED <<core, files>> /\ core.state # "stopped"
    BY <1>11 DEF Watch, device, At, CoreAtStep
  <2> QED
    BY <1>1, <1>2, <1>11, <2>1, StepMoves
    DEF Moved, KindAtStep, LockHeldOff, StoppedIsQuiet,
        CoreAtStep, LockMeansDown, ErrorAtStep, ResetSteps
<1>12. CASE Kill
  <2>1. Quiet
    BY <1>12 DEF Kill, At, StopCore, Stopped, Quiet, CoreAtStep
  <2> QED
    BY <1>1, <1>2, <1>12, <2>1, StepMoves
    DEF Quiet, Moved, KindAtStep, LockHeldOff, StoppedIsQuiet,
        CoreAtStep, LockMeansDown, ErrorAtStep, ResetSteps
<1>13. CASE KillFails
  <2>1. Quiet
    BY <1>13 DEF KillFails, At, StopCore, Stopped, Quiet, CoreAtStep
  <2> QED
    BY <1>1, <1>2, <1>13, <2>1, StepMoves
    DEF Quiet, Moved, KindAtStep, LockHeldOff, StoppedIsQuiet,
        CoreAtStep, LockMeansDown, ErrorAtStep, ResetSteps
<1>14. CASE SpawnFails
  <2>1. core.state = "stopped" /\ core.proc = "none" /\ ~monitor
    BY <1>14 DEF SpawnFails, At, CoreAtStep, StoppedIsQuiet
  <2>2. Quiet
    BY <1>1, <1>14, <2>1 DEF SpawnFails, StartCoreFails, Stopped, Quiet, Core
  <2> QED
    BY <1>1, <1>2, <1>14, <2>2, StepMoves
    DEF Quiet, Moved, KindAtStep, LockHeldOff, StoppedIsQuiet,
        CoreAtStep, LockMeansDown, ErrorAtStep, ResetSteps
<1>15. CASE Spawn
  <2>1. core'.state = "running"
    BY <1>15 DEF Spawn, StartCore, NewCore
  <2>2. files'.lock = "none"
    BY <1>1, <1>15, CallsType DEF Spawn, At, KindAtStep, LockHeldOff
  <2> QED
    BY <1>1, <1>2, <1>15, <2>1, <2>2, StepMoves
    DEF Moved, KindAtStep, LockHeldOff, StoppedIsQuiet,
        CoreAtStep, LockMeansDown, ErrorAtStep, ResetSteps
<1>16. CASE Swap
  <2>1. \/ core'.state \in {"running", "degraded"}
        \/ UNCHANGED <<core, monitor>> /\ act'.pc = "enter"
    <3>1. CASE SwapFails /\ Fail("enter")
      <4>1. act'.pc = "enter"
        BY <1>1, <3>1 DEF Fail, Act
      <4>2. core' = core \/ core' = [state |-> "degraded", proc |-> "none"]
        BY <3>1 DEF SwapFails
      <4> QED BY <1>16, <4>1, <4>2 DEF Swap
    <3> QED BY <1>16, <3>1 DEF Swap, SwapCore, SwapRestored, NewCore
  <2>2. files'.lock = "none" /\ monitor' = monitor
    BY <1>1, <1>16, CallsType DEF Swap, At, KindAtStep, LockHeldOff
  <2> QED
    BY <1>1, <1>2, <1>16, <2>1, <2>2, StepMoves
    DEF Moved, KindAtStep, LockHeldOff, StoppedIsQuiet,
        CoreAtStep, LockMeansDown, ErrorAtStep, ResetSteps
<1> QED BY <1>3, <1>4, <1>5, <1>6, <1>7, <1>8, <1>9,
     <1>10, <1>11, <1>12, <1>13, <1>14, <1>15, <1>16

\* The steps of a RESET keep DownInv: the monitor stops before the core does.
LEMMA ResetKeepsDownInv ==
  ASSUME DownInv,
         \/ EnterReset \/ QuietReset \/ ScourReset \/ ScriptReset
         \/ ClearReset \/ SweepReset
  PROVE  StoppedIsQuiet' /\ CoreAtStep' /\ LockMeansDown' /\ ErrorAtStep'
PROOF
<1> USE DEF DownInv
<1>1. act \in Act(Kinds, Steps)
  BY DEF LockInv, RootTypeOK
<1>2. ASSUME NEW from, NEW to \in Steps, NEW ok \in BOOLEAN, ResetStep(from, to, ok)
      PROVE  /\ act.pc = from /\ act'.pc = to /\ act'.kind = act.kind
             /\ act'.err = act.err /\ act'.recovering = act.recovering
  BY <1>1, <1>2, ResetMoves DEF Moved
<1>3. CASE EnterReset
  <2>1. PICK ok \in BOOLEAN : ResetStep("enter", "quiet", ok)
    BY <1>3 DEF EnterReset
  <2>2. /\ act.pc = "enter" /\ act'.pc = "quiet" /\ act'.kind = act.kind
        /\ act'.err = act.err /\ act'.recovering = act.recovering
    BY <1>2, <2>1, "quiet" \in Steps DEF Steps
  <2>3. UNCHANGED <<core, monitor>>
    BY <1>3 DEF EnterReset
  <2> QED
    BY <2>2, <2>3 DEF StoppedIsQuiet, CoreAtStep, LockMeansDown, ErrorAtStep,
        ResetSteps
<1>4. CASE QuietReset
  <2>1. /\ act.pc = "quiet" /\ act'.pc = "scour" /\ act'.kind = act.kind
        /\ act'.err = act.err /\ act'.recovering = act.recovering
    BY <1>2, <1>4, "scour" \in Steps DEF QuietReset, Steps
  <2>2. UNCHANGED core /\ ~monitor'
    BY <1>4 DEF QuietReset, device
  <2> QED
    BY <2>1, <2>2 DEF StoppedIsQuiet, CoreAtStep, LockMeansDown, ErrorAtStep,
        ResetSteps
<1>5. CASE ScourReset
  <2>1. PICK ok \in BOOLEAN : ResetStep("scour", "script", ok)
    BY <1>5 DEF ScourReset
  <2>2. act.pc = "scour" /\ core' = Stopped /\ monitor' = monitor
    BY <1>5, <2>1 DEF ScourReset, StopCore, ResetStep, At
  <2> QED
    BY <1>2, <2>1, <2>2 DEF Steps, StoppedIsQuiet, CoreAtStep, LockMeansDown,
        ErrorAtStep, ResetSteps, Stopped
<1>6. CASE ScriptReset
  <2>1. PICK ok \in BOOLEAN, to \in {"clear", "leave"} : ResetStep("script", to, ok)
    BY <1>6 DEF ScriptReset
  <2>2. UNCHANGED <<core, monitor>> /\ act.pc = "script"
    BY <1>6 DEF ScriptReset, ResetStep, At
  <2> QED
    BY <1>2, <2>1, <2>2 DEF Steps, StoppedIsQuiet, CoreAtStep, LockMeansDown,
        ErrorAtStep, ResetSteps
<1>7. CASE ClearReset
  <2>1. act.pc = "clear" /\ core' = Stopped /\ monitor' = monitor
    BY <1>7 DEF ClearReset, ResetStep, At
  <2>2. /\ act'.pc = "sweep" /\ act'.kind = act.kind
        /\ act'.err = act.err /\ act'.recovering = act.recovering
    BY <1>2, <1>7, "sweep" \in Steps DEF ClearReset, Steps
  <2> QED
    BY <2>1, <2>2 DEF StoppedIsQuiet, CoreAtStep, LockMeansDown, ErrorAtStep,
        ResetSteps, Stopped
<1>8. CASE SweepReset
  BY <1>2, <1>8 DEF SweepReset, device, Steps, StoppedIsQuiet, CoreAtStep,
      LockMeansDown, ErrorAtStep, ResetSteps
<1> QED BY <1>3, <1>4, <1>5, <1>6, <1>7, <1>8

\* The end of a RESET keeps DownInv.
LEMMA LeaveKeepsDownInv ==
  ASSUME DownInv, LeaveReset
  PROVE  StoppedIsQuiet' /\ CoreAtStep' /\ LockMeansDown' /\ ErrorAtStep'
PROOF
<1> USE DEF DownInv
<1>1. act \in Act(Kinds, Steps) /\ act.pc = "leave"
  BY DEF LockInv, RootTypeOK, LeaveReset, At
<1>2. UNCHANGED <<core, monitor>> /\ core.state = "stopped"
  BY <1>1 DEF LeaveReset, CoreAtStep
<1>3. PICK b : act' = AfterReset(b)
  BY DEF LeaveReset
<1>4. /\ act'.pc \in {"begin", "reconcile", "done", "mark"}
      /\ act'.pc \in {"begin", "reconcile"} => ~act'.err
      /\ act'.err /\ act'.recovering => act'.pc = "done"
  <2>1. CASE act.recovering /\ ~b
    <3>1. act' = [act EXCEPT !.pc = AfterRecover, !.recovering = FALSE]
      BY <1>3, <2>1 DEF AfterReset
    <3>2. ~act.err
      BY <1>1, <2>1 DEF ErrorAtStep
    <3> QED BY <1>1, <3>1, <3>2 DEF Act, AfterRecover
  <2>2. CASE act.recovering /\ b
    <3>1. act' = [act EXCEPT !.pc = "done", !.err = TRUE]
      BY <1>3, <2>2 DEF AfterReset
    <3> QED BY <1>1, <3>1 DEF Act
  <2>3. CASE ~act.recovering
    <3>1. \/ act' = [act EXCEPT !.pc = "done", !.err = b, !.broken = b]
          \/ act' = [act EXCEPT !.pc = AfterFailure]
      BY <1>3, <2>3 DEF AfterReset
    <3> QED BY <1>1, <2>3, <3>1 DEF Act, AfterFailure
  <2> QED BY <2>1, <2>2, <2>3
<1> QED
  BY <1>2, <1>4 DEF StoppedIsQuiet, CoreAtStep, LockMeansDown, ErrorAtStep

\* Requests, and the step that takes an epoch, keep DownInv.
LEMMA BeginsKeepDownInv ==
  ASSUME DownInv, Recover \/ Begin \/ Done
  PROVE  StoppedIsQuiet' /\ CoreAtStep' /\ LockMeansDown' /\ ErrorAtStep'
PROOF
<1> USE DEF DownInv
<1>1. act \in Act(Kinds, Steps)
  BY DEF LockInv, RootTypeOK
<1>2. UNCHANGED <<core, monitor, files>>
  BY DEF Recover, Begin, Done, device
<1>3. CASE Recover
  <2>1. act.pc = "recover" /\ ~act.err
    BY <1>3 DEF Recover, At, ErrorAtStep, ResetSteps
  <2>2. \/ act'.pc \in {"begin", "reconcile"} /\ ~act'.err
        \/ act'.pc = "enter" /\ ~act'.err
        \/ act'.pc = "done" /\ files.lock # "none"
    BY <1>1, <1>3, <2>1 DEF Recover, AfterRecover, Goto, Fail, Act
  <2> QED
    BY <1>2, <2>1, <2>2 DEF StoppedIsQuiet, CoreAtStep, LockMeansDown, ErrorAtStep
<1>4. CASE Begin
  <2>1. act.pc = "begin" /\ ~act.err
    BY <1>4 DEF Begin, At, ErrorAtStep, ResetSteps
  <2>2. act'.pc \in {"check", "enter", "halt"} /\ ~act'.err
    BY <1>1, <1>4, <2>1 DEF Begin, Act
  <2> QED
    BY <1>2, <2>1, <2>2 DEF StoppedIsQuiet, CoreAtStep, LockMeansDown, ErrorAtStep
<1>5. CASE Done
  BY <1>2, <1>5 DEF Done, At, NoAct, StoppedIsQuiet, CoreAtStep, LockMeansDown, ErrorAtStep
<1> QED BY <1>3, <1>4, <1>5

\* All other steps, a crash among them, keep DownInv.
LEMMA OthersKeepDownInv ==
  ASSUME DownInv, Requests \/ Environment \/ Crash \/ UNCHANGED rootVars
  PROVE  StoppedIsQuiet' /\ CoreAtStep' /\ LockMeansDown' /\ ErrorAtStep'
PROOF
<1> USE DEF DownInv, StoppedIsQuiet, CoreAtStep, LockMeansDown, ErrorAtStep
<1>1. CASE Requests
  <2>1. UNCHANGED <<core, files, monitor>>
    BY <1>1 DEF Requests, Request, Submit, SampleReload, SubmitReload, ReloadBusy,
        AutostartCheck, AutostartSubmit, AutostartBusy
  <2>2. \/ UNCHANGED act
        \/ act = NoAct /\ act'.pc \in {"recover", "begin", "lock"} /\ ~act'.err
    BY <1>1 DEF Requests, Request, Submit, SampleReload, SubmitReload, ReloadBusy,
        AutostartCheck, AutostartSubmit, AutostartBusy, NoAct
  <2> QED BY <2>1, <2>2 DEF NoAct
<1>2. CASE Environment
  <2>1. /\ core'.state = core.state /\ (core.proc = "none" => core'.proc = "none")
        /\ UNCHANGED <<monitor, act>>
    BY <1>2 DEF Environment, CoreDies, StrayExits, LockExpires, AppRepair, Boot,
        Relaunched, LockInv, RootTypeOK, Core
  <2>2. files'.lock = files.lock \/ files.lock # "none" \/ files'.lock = "none"
    BY <1>2 DEF Environment, CoreDies, StrayExits, LockExpires, AppRepair, Boot,
        Relaunched, LockInv, RootTypeOK, Files
  <2> QED BY <2>1, <2>2
<1>3. CASE Crash
  BY <1>3 DEF Crash, CrashDuring, Stopped, NoAct
<1>4. CASE UNCHANGED rootVars
  BY <1>4 DEF rootVars
<1> QED BY <1>1, <1>2, <1>3, <1>4

-----------------------------------------------------------------------------

\* DownInv holds at first.
LEMMA InitDownInv ==
  ASSUME Init
  PROVE  DownInv
PROOF
<1>1. LockInv(Kinds, Steps)
  BY InitLockInv
<1> QED
  BY <1>1 DEF DownInv, Init, Stopped, NoAct, StoppedIsQuiet, CoreAtStep,
      LockMeansDown, ErrorAtStep

\* Every step keeps DownInv.
LEMMA NextKeepsDownInv ==
  ASSUME DownInv, [Next]_rootVars
  PROVE  DownInv'
PROOF
<1>1. LockInv(Kinds, Steps)'
  BY RunningKeepsLockInv, CrashKeepsLockInv, StutterKeepsLockInv
  DEF Next, Crash, DownInv
<1>2. CASE Requests \/ Environment \/ Crash \/ UNCHANGED rootVars
  BY <1>1, <1>2, OthersKeepDownInv DEF DownInv
<1>3. CASE PlainSteps \/ MonitorSteps
  BY <1>1, <1>3, StepKeepsDownInv, ResetKeepsDownInv, LeaveKeepsDownInv,
     BeginsKeepDownInv DEF DownInv, PlainSteps, MonitorSteps
<1> QED BY <1>2, <1>3 DEF Next

\* DownInv holds in every state.
THEOREM DownInductive == Spec => []DownInv
PROOF
<1>1. Init => DownInv
  BY InitDownInv
<1>2. DownInv /\ [Next]_rootVars => DownInv'
  BY NextKeepsDownInv
<1> QED BY <1>1, <1>2, PTL DEF Spec

\* Whichever step a start or a restart fails at, a refusal for the lock
\* included, no sing-box is tracked and no subsystem runs when it ends.
THEOREM FailureLeavesCoreDown == Spec => []FailedStartStopsCore
PROOF
<1>1. DownInv => FailedStartStopsCore
  BY DEF DownInv, LockInv, RootTypeOK, Core, ErrorAtStep, StoppedIsQuiet,
      FailedStartStopsCore, Stopped
<1> QED BY <1>1, DownInductive, PTL

-----------------------------------------------------------------------------
(* SettledInv: what an operation leaves when it ends                       *)

\* A tracked core is forgotten by RESET and by the core's own roll-back only:
\* a core that is not stopped has a sing-box, dead or alive, except between a
\* lost hot swap and the RESET that answers it.
CoreTracked ==
  /\ core.proc = "none" /\ act.pc \notin {"enter", "quiet", "scour"}
       => core.state = "stopped"
  /\ act.pc = "gate" => core.state # "stopped" /\ act.kind # "reset"

\* An operation comes to a RESET of its own, and to the mark of a failed start,
\* only with an error to report; only a network change asks to be reconciled.
FailureKnown ==
  /\ act.pc \in ResetSteps /\ ~act.recovering /\ act.kind # "reset" => act.err
  /\ act.pc = "mark" => act.err
  /\ act.pc = "reconcile" => act.kind = "network-change"

\* What a RESET without an error in its report has removed once its script is
\* through, and that a requested one has withdrawn the desire to run.
CleanAtStep ==
  /\ act.pc = "clear" => ~act.broken
  /\ act.pc \in {"clear", "sweep", "leave"} /\ ~act.broken
       => ~rules /\ ~stray /\ ~files.marker /\ files.manual
  /\ act.kind = "reset" /\ act.pc # "begin" => ~wanted

SettledInv ==
  /\ DownInv
  /\ CoreTracked
  /\ FailureKnown
  /\ CleanAtStep
  /\ SuccessLeavesNoBlackhole
  /\ ResetLeavesNothing

\* The steps outside of a RESET keep SettledInv: the ones that end an operation
\* with success leave either a tracked core or no rules.
LEMMA StepKeepsSettledInv ==
  ASSUME SettledInv,
         \/ CheckCore \/ CheckLock \/ Kill \/ KillFails \/ Spawn
         \/ SpawnWithoutNode \/ SpawnFails \/ Swap \/ Reconcile \/ Reapply
         \/ Gate \/ Mark \/ Halt \/ Watch,
         DownInv'
  PROVE  SettledInv'
PROOF
<1>1. /\ act \in Act(Kinds, Steps) /\ core \in Core /\ core' \in Core
      /\ KindAtStep /\ CoreAtStep /\ StoppedIsQuiet
      /\ CoreTracked /\ FailureKnown /\ CleanAtStep
  BY DEF SettledInv, DownInv, LockInv, RootTypeOK
<1>2. /\ core.state \in {"stopped", "running", "degraded"}
      /\ CoreUp <=> core.state # "stopped"
      /\ CoreUp' <=> core'.state # "stopped"
  BY <1>1 DEF SettledInv, DownInv, CoreAtStep, Core, CoreStates, CoreUp
<1> USE DEF CoreTracked, FailureKnown, CleanAtStep, SuccessLeavesNoBlackhole,
            ResetLeavesNothing
<1> SUFFICES /\ CoreTracked' /\ FailureKnown' /\ CleanAtStep'
             /\ SuccessLeavesNoBlackhole' /\ ResetLeavesNothing'
  BY DEF SettledInv
<1>3. CASE CheckCore
  <2>1. UNCHANGED <<core, rules, wanted>>
    BY <1>3 DEF CheckCore, device
  <2> QED
    BY <1>1, <1>2, <1>3, <2>1, StepMoves DEF Moved, KindAtStep, ResetSteps
<1>4. CASE CheckLock
  <2>1. UNCHANGED <<core, rules, wanted>>
    BY <1>4 DEF CheckLock, device
  <2> QED
    BY <1>1, <1>2, <1>4, <2>1, StepMoves DEF Moved, KindAtStep, ResetSteps
<1>5. CASE SpawnWithoutNode
  <2>1. UNCHANGED <<core, rules, wanted>>
    BY <1>5 DEF SpawnWithoutNode, device
  <2> QED
    BY <1>1, <1>2, <1>5, <2>1, StepMoves DEF Moved, KindAtStep, ResetSteps
<1>6. CASE Reconcile
  <2>1. UNCHANGED <<core, rules, wanted>> /\ act.kind \notin {"stop", "reset"}
    BY <1>1, <1>6 DEF Reconcile, device, At, KindAtStep
  <2>2. act.kind = "network-change"
    BY <1>1, <1>6 DEF Reconcile, At
  <2> QED
    BY <1>1, <1>2, <1>6, <2>1, <2>2, StepMoves DEF Moved, KindAtStep, ResetSteps
<1>7. CASE Reapply
  <2>1. UNCHANGED <<core, wanted>> /\ act.pc = "reapply"
    BY <1>7 DEF Reapply, At
  <2> QED
    BY <1>1, <1>2, <1>7, <2>1, StepMoves DEF Moved, KindAtStep, CoreAtStep, ResetSteps
<1>8. CASE Gate
  <2>1. UNCHANGED <<core, rules, wanted>> /\ act.pc = "gate"
    BY <1>8 DEF Gate, device, At
  <2>2. core'.proc # "none" /\ CoreUp'
    BY <1>1, <1>2, <2>1
  <2>3. /\ act'.kind = act.kind /\ act.kind # "reset"
        /\ \/ act'.pc = "done"
           \/ act'.pc = "enter" /\ act'.err
    BY <1>1, <1>8, <2>1, StepMoves DEF Moved
  <2> QED
    BY <1>1, <2>1, <2>2, <2>3 DEF ResetSteps
<1>9. CASE Mark
  <2>1. UNCHANGED <<core, rules>> /\ (wanted' => wanted)
    BY <1>9 DEF Mark, device
  <2> QED
    BY <1>1, <1>2, <1>9, <2>1, StepMoves DEF Moved, KindAtStep, ResetSteps
<1>10. CASE Halt
  <2>1. UNCHANGED <<core, rules, wanted>>
    BY <1>10 DEF Halt, device
  <2> QED
    BY <1>1, <1>2, <1>10, <2>1, StepMoves DEF Moved, KindAtStep, ResetSteps
<1>11. CASE Watch
  <2>1. UNCHANGED <<core, rules, wanted>> /\ act.pc = "watch"
    BY <1>11 DEF Watch, device, At
  <2> QED
    BY <1>1, <1>2, <1>11, <2>1, StepMoves DEF Moved, KindAtStep, CoreAtStep, ResetSteps
<1>12. CASE Kill
  <2>1. core' = Stopped /\ rules' = FALSE /\ act.pc = "kill"
    BY <1>12 DEF Kill, At, StopCore
  <2> QED
    BY <1>1, <1>2, <1>12, <2>1, StepMoves DEF Moved, KindAtStep, ResetSteps, Stopped
<1>13. CASE KillFails
  <2>1. core' = Stopped /\ act.pc = "kill"
    BY <1>13 DEF KillFails, At, StopCore
  <2> QED
    BY <1>1, <1>2, <1>13, <2>1, StepMoves DEF Moved, KindAtStep, ResetSteps, Stopped
<1>14. CASE SpawnFails
  <2>1. act.pc = "spawn" /\ wanted' = wanted
    BY <1>14 DEF SpawnFails, At
  <2>2. core' = Stopped
    BY <1>1, <1>14, <2>1 DEF SpawnFails, StartCoreFails, CoreAtStep, StoppedIsQuiet,
        Core, Stopped
  <2> QED
    BY <1>1, <1>2, <1>14, <2>1, <2>2, StepMoves DEF Moved, KindAtStep, ResetSteps, Stopped
<1>15. CASE Spawn
  <2>1. core'.proc # "none" /\ act.pc = "spawn" /\ wanted' = wanted
    BY <1>15 DEF Spawn, StartCore, NewCore, At
  <2> QED
    BY <1>1, <1>2, <1>15, <2>1, StepMoves DEF Moved, KindAtStep, ResetSteps
<1>16. CASE Swap
  <2>1. act.pc = "swap" /\ wanted' = wanted
    BY <1>16 DEF Swap, At
  <2>2. core'.proc # "none" \/ act'.pc = "enter"
    <3>1. CASE SwapFails /\ Fail("enter")
      BY <1>1, <3>1 DEF Fail, Act
    <3> QED BY <1>16, <3>1 DEF Swap, SwapCore, SwapRestored, NewCore
  <2> QED
    BY <1>1, <1>2, <1>16, <2>1, <2>2, StepMoves DEF Moved, KindAtStep, ResetSteps
<1> QED BY <1>3, <1>4, <1>5, <1>6, <1>7, <1>8, <1>9,
     <1>10, <1>11, <1>12, <1>13, <1>14, <1>15, <1>16

\* The steps of a RESET keep SettledInv: what its script has removed stays
\* removed, and a step that fails puts an error in the report.
LEMMA ResetKeepsSettledInv ==
  ASSUME SettledInv,
         \/ EnterReset \/ QuietReset \/ ScourReset \/ ScriptReset
         \/ ClearReset \/ SweepReset,
         DownInv'
  PROVE  SettledInv'
PROOF
<1>1. /\ act \in Act(Kinds, Steps) /\ files \in Files /\ core' \in Core
      /\ KindAtStep /\ CoreAtStep /\ StoppedIsQuiet
      /\ CoreTracked /\ FailureKnown /\ CleanAtStep
  BY DEF SettledInv, DownInv, LockInv, RootTypeOK
<1> USE DEF CoreTracked, FailureKnown, CleanAtStep, SuccessLeavesNoBlackhole,
            ResetLeavesNothing
<1> SUFFICES /\ CoreTracked' /\ FailureKnown' /\ CleanAtStep'
             /\ SuccessLeavesNoBlackhole' /\ ResetLeavesNothing'
  BY DEF SettledInv
<1>2. ASSUME NEW from \in ResetSteps, NEW to \in ResetSteps, NEW ok \in BOOLEAN,
             ResetStep(from, to, ok)
      PROVE  /\ act.pc = from /\ act'.pc = to /\ act'.kind = act.kind
             /\ act'.err = act.err /\ act'.recovering = act.recovering
             /\ act'.broken = (act.broken \/ ~ok) /\ wanted' = wanted
  BY <1>1, <1>2 DEF ResetStep, At, Act
<1>3. CASE EnterReset \/ QuietReset \/ ScourReset
  <2>1. PICK from \in {"enter", "quiet", "scour"}, to \in {"quiet", "scour", "script"},
             ok \in BOOLEAN : ResetStep(from, to, ok)
    BY <1>3 DEF EnterReset, QuietReset, ScourReset
  <2>2. to = "script" => core' = Stopped
    BY <1>1, <1>3, <2>1, <1>2 DEF EnterReset, QuietReset, ScourReset, StopCore, ResetSteps, ResetStep, Act
  <2> QED
    BY <1>1, <1>2, <2>1, <2>2 DEF ResetSteps, Stopped
<1>4. CASE ScriptReset
  <2>1. UNCHANGED core /\ core.state = "stopped"
    BY <1>1, <1>4 DEF ScriptReset, ResetStep, At, CoreAtStep
  <2>2. CASE /\ ResetStep("script", IF act.broken THEN "leave" ELSE "clear", TRUE)
             /\ files' = ScriptFiles /\ rules' = FALSE /\ stray' = FALSE
    BY <1>1, <1>2, <2>1, <2>2 DEF ResetSteps, ScriptFiles, Act
  <2>3. CASE ResetStep("script", "leave", FALSE)
    BY <1>1, <1>2, <2>1, <2>3 DEF ResetSteps
  <2> QED BY <1>4, <2>2, <2>3 DEF ScriptReset
<1>5. CASE ClearReset
  <2>1. ResetStep("clear", "sweep", TRUE) /\ core' = Stopped
    BY <1>5 DEF ClearReset
  <2>2. ~rules' /\ ~stray' /\ ~files'.marker /\ files'.manual
    BY <1>1, <1>5, <2>1 DEF ClearReset, ResetStep, At, Files
  <2> QED
    BY <1>1, <1>2, <2>1, <2>2 DEF ResetSteps, Stopped
<1>6. CASE SweepReset
  <2>1. PICK ok \in BOOLEAN : ResetStep("sweep", "leave", ok)
    BY <1>6 DEF SweepReset
  <2>2. UNCHANGED <<core, rules, stray, files>>
    BY <1>6 DEF SweepReset, device
  <2> QED
    BY <1>1, <1>2, <2>1, <2>2 DEF ResetSteps
<1> QED BY <1>3, <1>4, <1>5, <1>6

\* The end of a RESET keeps SettledInv: a requested one without an error ends
\* with the lock removed too; one that answers a failure ends with its error.
LEMMA LeaveKeepsSettledInv ==
  ASSUME SettledInv, LeaveReset, DownInv'
  PROVE  SettledInv'
PROOF
<1>1. /\ act \in Act(Kinds, Steps) /\ files \in Files /\ core \in Core
      /\ KindAtStep /\ CoreAtStep /\ StoppedIsQuiet
      /\ CoreTracked /\ FailureKnown /\ CleanAtStep
      /\ act.pc = "leave"
  BY DEF SettledInv, DownInv, LockInv, RootTypeOK, LeaveReset, At
<1> USE DEF CoreTracked, FailureKnown, CleanAtStep, SuccessLeavesNoBlackhole,
            ResetLeavesNothing
<1> SUFFICES /\ CoreTracked' /\ FailureKnown' /\ CleanAtStep'
             /\ SuccessLeavesNoBlackhole' /\ ResetLeavesNothing'
  BY DEF SettledInv
<1>2. /\ UNCHANGED <<core, rules, stray, wanted, monitor>>
      /\ core = Stopped /\ ~monitor
  BY <1>1 DEF LeaveReset, CoreAtStep, StoppedIsQuiet, Core, Stopped
<1>3. PICK b \in BOOLEAN :
        /\ act' = AfterReset(b)
        /\ ~b => ~act.broken /\ files' = [files EXCEPT !.lock = "none"]
  BY <1>1 DEF LeaveReset, Act
<1>4. CASE act.recovering
  <2>1. \/ act'.pc = AfterRecover /\ act'.kind = act.kind
        \/ act'.pc = "done" /\ act'.err /\ act'.kind = act.kind
    BY <1>1, <1>3, <1>4 DEF AfterReset, Act
  <2>2. act.kind # "reset"
    BY <1>1, <1>4 DEF KindAtStep
  <2> QED
    BY <1>1, <1>2, <2>1, <2>2 DEF AfterRecover, ResetSteps, Stopped
<1>5. CASE ~act.recovering /\ act.kind = "reset"
  <2>1. act'.pc = "done" /\ act'.err = b /\ act'.kind = "reset"
    BY <1>1, <1>3, <1>5 DEF AfterReset, Act
  <2>2. ~b => /\ ~rules /\ ~stray
              /\ files' = [lock |-> "none", marker |-> FALSE, manual |-> TRUE]
    BY <1>1, <1>3 DEF Files
  <2> QED
    BY <1>1, <1>2, <1>5, <2>1, <2>2 DEF ResetSteps, Stopped
<1>6. CASE ~act.recovering /\ act.kind # "reset"
  <2>1. /\ act'.pc \in {"mark", "done"} /\ act'.err = act.err
        /\ act'.kind = act.kind
    BY <1>1, <1>3, <1>6 DEF AfterReset, AfterFailure, Act
  <2> QED
    BY <1>1, <1>2, <1>6, <2>1 DEF ResetSteps, Stopped
<1> QED BY <1>4, <1>5, <1>6

\* Requests, and the step that takes an epoch, keep SettledInv.
LEMMA BeginsKeepSettledInv ==
  ASSUME SettledInv, Recover \/ Begin \/ Done, DownInv'
  PROVE  SettledInv'
PROOF
<1>1. /\ act \in Act(Kinds, Steps) /\ CoreTracked /\ FailureKnown /\ CleanAtStep
      /\ KindAtStep
  BY DEF SettledInv, DownInv, LockInv, RootTypeOK
<1> USE DEF CoreTracked, FailureKnown, CleanAtStep, SuccessLeavesNoBlackhole,
            ResetLeavesNothing
<1> SUFFICES /\ CoreTracked' /\ FailureKnown' /\ CleanAtStep'
             /\ SuccessLeavesNoBlackhole' /\ ResetLeavesNothing'
  BY DEF SettledInv
<1>2. UNCHANGED <<core, rules, stray, files, monitor>>
  BY DEF Recover, Begin, Done, device
<1>3. CASE Recover
  <2>1. act.pc = "recover" /\ wanted' = wanted /\ act.kind # "reset"
    BY <1>1, <1>3 DEF Recover, At, KindAtStep
  <2>2. /\ act'.kind = act.kind
        /\ \/ act'.pc = AfterRecover
           \/ act'.pc = "enter" /\ act'.recovering
           \/ act'.pc = "done" /\ act'.err
    BY <1>1, <1>3, <2>1 DEF Recover, Goto, Fail, Act
  <2> QED
    BY <1>1, <1>2, <2>1, <2>2 DEF AfterRecover, ResetSteps
<1>4. CASE Begin
  <2>1. act.pc = "begin" /\ wanted' = (act.kind \in {"start", "restart"})
    BY <1>4 DEF Begin, At
  <2>2. /\ act'.kind = act.kind
        /\ act'.pc = CASE act.kind = "start" -> "check"
                       [] act.kind = "reset" -> "enter"
                       [] OTHER              -> "halt"
    BY <1>1, <1>4 DEF Begin, Act
  <2> QED
    BY <1>1, <1>2, <2>1, <2>2 DEF ResetSteps
<1>5. CASE Done
  BY <1>1, <1>2, <1>5 DEF Done, At, NoAct, ResetSteps
<1> QED BY <1>3, <1>4, <1>5

\* All other steps, a crash among them, keep SettledInv: nothing but an
\* operation installs rules or forgets a sing-box.
LEMMA OthersKeepSettledInv ==
  ASSUME SettledInv, Requests \/ Environment \/ Crash \/ UNCHANGED rootVars, DownInv'
  PROVE  SettledInv'
PROOF
<1>1. /\ act \in Act(Kinds, Steps) /\ core \in Core /\ files \in Files
      /\ CoreTracked /\ FailureKnown /\ CleanAtStep
      /\ SuccessLeavesNoBlackhole /\ ResetLeavesNothing
  BY DEF SettledInv, DownInv, LockInv, RootTypeOK
<1> USE DEF CoreTracked, FailureKnown, CleanAtStep, SuccessLeavesNoBlackhole,
            ResetLeavesNothing
<1> SUFFICES /\ CoreTracked' /\ FailureKnown' /\ CleanAtStep'
             /\ SuccessLeavesNoBlackhole' /\ ResetLeavesNothing'
  BY DEF SettledInv
<1>2. CASE Requests
  <2>1. UNCHANGED <<core, rules, stray, files, monitor, wanted>>
    BY <1>2 DEF Requests, Request, Submit, SampleReload, SubmitReload, ReloadBusy,
        AutostartCheck, AutostartSubmit, AutostartBusy
  <2>2. CASE UNCHANGED act
    BY <1>1, <2>1, <2>2 DEF CoreUp
  <2>3. CASE ~UNCHANGED act
    <3>1. /\ act = NoAct
          /\ \/ act'.pc = "recover" /\ act'.kind # "reset"
             \/ act'.pc = "begin"
             \/ act'.pc = "lock" /\ act'.kind # "reset"
      BY <1>2, <2>3 DEF Requests, Request, Submit, SampleReload, SubmitReload,
          ReloadBusy, AutostartCheck, AutostartSubmit, AutostartBusy, NoAct
    <3> QED BY <1>1, <2>1, <3>1 DEF NoAct, ResetSteps
  <2> QED BY <2>2, <2>3
<1>3. CASE CoreDies \/ StrayExits
  BY <1>1, <1>3 DEF CoreDies, StrayExits, Core, CoreUp, Stopped
<1>4. CASE LockExpires
  BY <1>1, <1>4 DEF LockExpires, CoreUp, ResetSteps
<1>5. CASE AppRepair
  BY <1>1, <1>5 DEF AppRepair, Relaunched, CoreUp
<1>6. CASE Boot
  <2>1. UNCHANGED <<core, monitor, wanted, act>> /\ ~rules' /\ ~stray'
    BY <1>6 DEF Boot, Relaunched
  <2>2. ~files'.marker /\ files'.manual = files.manual
    BY <1>1, <1>6 DEF Boot, Files
  <2>3. files.lock = "none" /\ ~files.marker => files' = files
    BY <1>1, <1>6 DEF Boot, Files
  <2> QED
    BY <1>1, <2>1, <2>2, <2>3
<1>7. CASE Crash
  BY <1>7 DEF Crash, CrashDuring, Stopped, NoAct, ResetSteps
<1>8. CASE UNCHANGED rootVars
  BY <1>1, <1>8 DEF rootVars, CoreUp
<1> QED BY <1>2, <1>3, <1>4, <1>5, <1>6, <1>7, <1>8 DEF Environment

-----------------------------------------------------------------------------

\* SettledInv holds in every state.
THEOREM SettledInductive == Spec => []SettledInv
PROOF
<1>1. Init => SettledInv
  <2> SUFFICES ASSUME Init PROVE SettledInv
    OBVIOUS
  <2>1. DownInv
    BY InitDownInv
  <2> QED
    BY <2>1 DEF SettledInv, Init, Stopped, NoAct, CoreTracked, FailureKnown,
        CleanAtStep, SuccessLeavesNoBlackhole, ResetLeavesNothing, ResetSteps
<1>2. SettledInv /\ [Next]_rootVars => SettledInv'
  <2> SUFFICES ASSUME SettledInv, [Next]_rootVars PROVE SettledInv'
    OBVIOUS
  <2>1. DownInv'
    BY NextKeepsDownInv DEF SettledInv
  <2>2. CASE Requests \/ Environment \/ Crash \/ UNCHANGED rootVars
    BY <2>1, <2>2, OthersKeepSettledInv
  <2>3. CASE PlainSteps \/ MonitorSteps
    BY <2>1, <2>3, StepKeepsSettledInv, ResetKeepsSettledInv, LeaveKeepsSettledInv,
       BeginsKeepSettledInv DEF PlainSteps, MonitorSteps
  <2> QED BY <2>2, <2>3 DEF Next
<1> QED BY <1>1, <1>2, PTL DEF Spec

\* Whichever way an operation other than a network change reaches success, no
\* rule of ours is left that sends traffic to a sing-box that is not tracked.
THEOREM SuccessIsNoBlackhole == Spec => []SuccessLeavesNoBlackhole
PROOF
<1>1. SettledInv => SuccessLeavesNoBlackhole
  BY DEF SettledInv
<1> QED BY <1>1, SettledInductive, PTL

\* A reset that reports no error has removed every process, rule, lock and
\* marker, whatever operations, crashes and failed clean-ups came before it.
THEOREM ResetIsComplete == Spec => []ResetLeavesNothing
PROOF
<1>1. SettledInv => ResetLeavesNothing
  BY DEF SettledInv
<1> QED BY <1>1, SettledInductive, PTL

-----------------------------------------------------------------------------
(* RescueInv is inductive: the runtime with its monitor and its rescues    *)

AllKinds == Kinds \cup {"rescue"}
AllSteps == Steps \cup RescueSteps

WatchTypeOK ==
  /\ tick \in [pc : {"idle", "checking", "checked"},
               seen : {"none", "running", "degraded"}, ok : BOOLEAN]
  /\ callback \in [pc : {"none", "fired", "gated"}, epoch : 0..MaxEpoch + 1]
  /\ restored \in BOOLEAN
  /\ failures \in 0..Threshold
  /\ attempts \in 0..MaxAttempts
  /\ cooling \in BOOLEAN

RescueInv == LockInv(AllKinds, AllSteps) /\ WatchTypeOK

-----------------------------------------------------------------------------
\* What a rescue does between its steps keeps the types and the lock's place.
LEMMA RescuingKeepsLockInv ==
  ASSUME LockInv(AllKinds, AllSteps), Rescuing
  PROVE  LockInv(AllKinds, AllSteps)'
PROOF
<1>1. /\ act \in Act(AllKinds, AllSteps) /\ core \in Core /\ files \in Files
      /\ rules \in BOOLEAN /\ stray \in BOOLEAN /\ DeviceOK
  BY DEF LockInv, RootTypeOK, DeviceOK
<1>2. \E from \in RescueSteps : RescueStep(from)
  BY DEF Rescuing, Admit, Attempt, TrySwap, TryReapply, TryFull, FullGate, Failed,
      Confirm, Verdict, Rollback, RollbackScript, RescueSteps
<1>3. /\ act.pc \in RescueSteps
      /\ UNCHANGED <<epoch, wanted, monitor, daemonVars, tick, callback, restored, failures>>
  BY <1>2 DEF RescueStep, At
<1>4. \E pc \in RescueSteps \cup {"done"} : Goto(pc)
  BY DEF Rescuing, Admit, Attempt, Strategy, TrySwap, TryReapply, TryFull, FullGate,
      Failed, Confirm, Verdict, Rollback, RollbackScript, Cancelled, RescueSteps
<1>5. \E pc \in RescueSteps \cup {"done"} :
        Moved(AllKinds, AllSteps, pc, act.err, act.recovering)
  BY <1>1, <1>4, Moves DEF AllSteps, Steps
<1>6. \A s \in CoreStates : SetState(s) => core' \in Core
  BY <1>1 DEF SetState, Core
<1>7. DeviceOK'
  <2>1. CASE Admit \/ Verdict
    BY <1>1, <2>1 DEF Admit, Verdict, device, DeviceOK
  <2>2. CASE Attempt \/ Failed \/ Confirm
    BY <1>1, <1>6, <2>2 DEF Attempt, Failed, Confirm, DeviceOK, CoreStates
  <2>3. CASE TrySwap
    BY <1>1, <2>3, CallsType DEF TrySwap, Cancelled, device, DeviceOK
  <2>4. CASE TryReapply
    BY <1>1, <2>4 DEF TryReapply, Cancelled, device, DeviceOK
  <2>5. CASE TryFull
    BY <1>1, <2>5, CallsType DEF TryFull, Cancelled, device, DeviceOK
  <2>6. CASE FullGate
    BY <1>1, <2>6, CallsType DEF FullGate, Cancelled, device, DeviceOK
  <2>7. CASE Rollback
    BY <1>1, <2>7, CallsType DEF Rollback, DeviceOK
  <2>8. CASE RollbackScript
    <3>1. PICK f \in {files, ScriptFiles} : files' \in {f, [f EXCEPT !.lock = "none"]}
      BY <2>8 DEF RollbackScript
    <3>2. f \in Files
      BY <1>1, FileWrites
    <3>3. files' \in Files
      BY <3>1, <3>2 DEF Files
    <3>4. stray' \in BOOLEAN /\ rules' \in BOOLEAN /\ core' \in Core
      BY <1>1, <1>6, <2>8 DEF RollbackScript, CoreStates
    <3> QED BY <3>3, <3>4 DEF DeviceOK
  <2> QED BY <2>1, <2>2, <2>3, <2>4, <2>5, <2>6, <2>7, <2>8 DEF Rescuing
<1> QED
  BY <1>3, <1>5, <1>7 DEF LockInv, RootTypeOK, DeviceOK, Moved, daemonVars, KindAtStep,
      EpochLeft, LockHeldOff, RescueSteps, ResetSteps

\* The monitor and the callbacks write a state of the core and submit.
LEMMA WatchingKeepsLockInv ==
  ASSUME RescueInv, Monitoring \/ Callbacks \/ CooldownEnds
  PROVE  LockInv(AllKinds, AllSteps)'
PROOF
<1>1. LockInv(AllKinds, AllSteps) /\ core \in Core /\ WatchTypeOK
  BY DEF RescueInv, LockInv, RootTypeOK
<1>2. CASE UNCHANGED rootVars
  BY <1>1, <1>2, StutterKeepsLockInv
<1>3. CASE TickPasses \/ TickFails
  <2>1. /\ core' \in Core
        /\ UNCHANGED <<up, rules, stray, files, epoch, wanted, monitor, act, reload, autostart>>
    BY <1>1, <1>3 DEF TickPasses, TickFails, SetState, Core, CoreStates
  <2> QED
    BY <1>1, <2>1 DEF LockInv, RootTypeOK, KindAtStep, EpochLeft, LockHeldOff
<1>4. CASE CallbackSubmit
  <2>1. /\ act' \in Act(AllKinds, AllSteps) /\ act'.pc = "admit" /\ ~act'.recovering
        /\ act'.kind = "rescue"
    BY <1>1, <1>4 DEF CallbackSubmit, NoAct, Act, AllKinds, AllSteps, RescueSteps, WatchTypeOK
  <2> QED
    BY <1>1, <1>4, <2>1 DEF CallbackSubmit, LockInv, RootTypeOK, KindAtStep, EpochLeft,
        LockHeldOff, ResetSteps
<1> QED
  BY <1>2, <1>3, <1>4 DEF Monitoring, Callbacks, CooldownEnds, TickRead, TickCheck,
      CallbackGate, CallbackBusy, Restored

\* Every step, of operations, rescues, watchers and crashes, keeps it.
LEMMA RescueNextKeepsLockInv ==
  ASSUME RescueInv, [RescueNext]_vars
  PROVE  LockInv(AllKinds, AllSteps)'
PROOF
<1>1. LockInv(AllKinds, AllSteps) /\ Kinds \subseteq AllKinds /\ Steps \subseteq AllSteps
  BY DEF RescueInv, AllKinds, AllSteps
<1>2. CASE Requests \/ Environment \/ PlainSteps \/ MonitorSteps
  BY <1>1, <1>2, RunningKeepsLockInv
<1>3. CASE Rescuing
  BY <1>1, <1>3, RescuingKeepsLockInv
<1>4. CASE Monitoring \/ Callbacks \/ CooldownEnds
  BY <1>4, WatchingKeepsLockInv
<1>5. CASE RescueCrash
  BY <1>1, <1>5, CrashKeepsLockInv DEF RescueCrash
<1>6. CASE UNCHANGED vars
  BY <1>1, <1>6, StutterKeepsLockInv DEF vars
<1> QED
  BY <1>2, <1>3, <1>4, <1>5, <1>6 DEF RescueNext, Operating, StopMonitor, StartMonitor,
      ClearMonitor, MonitorSteps

\* The values that the watchers start from have their types.
LEMMA WatchStart ==
  /\ 0 \in 0..Threshold /\ 0 \in 0..MaxAttempts
  /\ NoTick \in [pc : {"idle", "checking", "checked"},
                 seen : {"none", "running", "degraded"}, ok : BOOLEAN]
  /\ NoCallback \in [pc : {"none", "fired", "gated"}, epoch : 0..MaxEpoch + 1]
PROOF
<1>1. 0 \in 0..Threshold /\ 0 \in 0..MaxAttempts
  BY RescueAssumption
<1>2. NoTick \in [pc : {"idle", "checking", "checked"},
                  seen : {"none", "running", "degraded"}, ok : BOOLEAN]
  BY DEF NoTick
<1>3. 0 \in 0..MaxEpoch + 1
  BY RootRuntimeAssumption
<1>4. NoCallback \in [pc : {"none", "fired", "gated"}, epoch : 0..MaxEpoch + 1]
  BY <1>3 DEF NoCallback
<1> QED BY <1>1, <1>2, <1>4

\* Every step keeps the types of what watches; an attempt is only counted
\* below the maximum.
LEMMA WatchStep ==
  ASSUME RescueInv, [RescueNext]_vars
  PROVE  WatchTypeOK'
PROOF
<1> USE RescueAssumption DEF WatchTypeOK
<1>1. WatchTypeOK /\ epoch \in 0..MaxEpoch + 1 /\ core \in Core
  BY DEF RescueInv, LockInv, RootTypeOK
<1>2. CASE UNCHANGED watchVars
  BY <1>1, <1>2 DEF watchVars
<1>3. CASE Rescuing
  <2>1. \/ UNCHANGED watchVars
        \/ /\ UNCHANGED <<tick, callback, restored, failures>>
           /\ attempts' = attempts + 1 /\ attempts < MaxAttempts /\ cooling' = TRUE
    <3>1. CASE Attempt
      <4>1. PICK limit \in Limits :
              \/ UNCHANGED <<attempts, cooling>>
              \/ attempts' = attempts + 1 /\ attempts < limit /\ cooling' = TRUE
        BY <3>1 DEF Attempt
      <4>2. attempts < limit => attempts < MaxAttempts
        BY <1>1, <4>1 DEF Limits
      <4> QED BY <3>1, <4>1, <4>2 DEF Attempt, RescueStep, watchVars
    <3>2. CASE Rescuing /\ ~Attempt
      BY <3>2 DEF Rescuing, RescueStep, Admit, TrySwap, TryReapply, TryFull, FullGate,
          Failed, Confirm, Verdict, Rollback, RollbackScript, watchVars
    <3> QED BY <1>3, <3>1, <3>2
  <2>2. ASSUME attempts < MaxAttempts PROVE attempts + 1 \in 0..MaxAttempts
    BY <1>1, <2>2
  <2>3. TRUE \in BOOLEAN
    OBVIOUS
  <2> QED BY <1>1, <1>2, <2>1, <2>2, <2>3
<1>4. CASE TickRead
  BY <1>1, <1>4 DEF TickRead, CoreUp
<1>5. CASE TickCheck
  <2>1. tick' \in [pc : {"idle", "checking", "checked"},
                   seen : {"none", "running", "degraded"}, ok : BOOLEAN]
    <3>1. PICK ok \in {FALSE, core.proc = "alive" /\ rules} :
            tick' = [tick EXCEPT !.pc = "checked", !.ok = ok]
      BY <1>5 DEF TickCheck
    <3>2. ok \in BOOLEAN
      BY <3>1
    <3> QED BY <1>1, <3>1, <3>2
  <2> QED BY <1>1, <1>5, <2>1 DEF TickCheck
<1>6. CASE TickPasses
  BY <1>1, <1>6 DEF TickPasses, NoTick
<1>7. CASE TickFails
  <2>1. failures' \in 0..Threshold
    BY <1>1, <1>7 DEF TickFails
  <2>2. callback' \in [pc : {"none", "fired", "gated"}, epoch : 0..MaxEpoch + 1]
    BY <1>1, <1>7, RootRuntimeAssumption DEF TickFails
  <2> QED BY <1>1, <1>7, <2>1, <2>2 DEF TickFails, NoTick
<1>8. CASE Callbacks \/ CooldownEnds
  <2>1. callback' \in [pc : {"none", "fired", "gated"}, epoch : 0..MaxEpoch + 1]
    BY <1>1, <1>8, RootRuntimeAssumption
    DEF Callbacks, CallbackGate, CallbackSubmit, CallbackBusy, Restored, CooldownEnds,
        NoCallback
  <2>2. /\ UNCHANGED <<tick, failures>> /\ restored' \in BOOLEAN
        /\ attempts' \in {attempts, 0} /\ cooling' \in BOOLEAN
    BY <1>1, <1>8 DEF Callbacks, CallbackGate, CallbackSubmit, CallbackBusy, Restored,
        CooldownEnds
  <2> QED BY <1>1, <2>1, <2>2
<1>9. CASE StartMonitor \/ ClearMonitor
  <2>1. /\ UNCHANGED <<tick, callback, restored>>
        /\ failures' \in {failures, 0} /\ attempts' = 0 /\ cooling' = FALSE
    BY <1>9 DEF StartMonitor, ClearMonitor
  <2>2. FALSE \in BOOLEAN
    OBVIOUS
  <2> QED BY <1>1, <2>1, <2>2, WatchStart
<1>10. CASE RescueCrash
  <2>1. FALSE \in BOOLEAN
    OBVIOUS
  <2> QED BY <1>10, <2>1, WatchStart DEF RescueCrash
<1>11. CASE UNCHANGED vars
  BY <1>2, <1>11 DEF vars, watchVars
<1> QED
  BY <1>2, <1>3, <1>4, <1>5, <1>6, <1>7, <1>8, <1>9, <1>10, <1>11
  DEF RescueNext, Operating, StopMonitor, Monitoring

-----------------------------------------------------------------------------
(* Theorems about the rescues                                              *)

\* RescueInv holds at first.
LEMMA InitRescueInv ==
  ASSUME RescueInit
  PROVE  RescueInv
PROOF
<1>1. LockInv(AllKinds, AllSteps)
  BY InitLockInv DEF RescueInit
<1>2. WatchTypeOK
  <2>1. FALSE \in BOOLEAN
    OBVIOUS
  <2> QED BY <2>1, WatchStart DEF RescueInit, WatchTypeOK
<1> QED BY <1>1, <1>2 DEF RescueInv

\* RescueInv holds in every state.
THEOREM RescueInductive == RescueSpec => []RescueInv
PROOF
<1>1. RescueInit => RescueInv
  BY InitRescueInv
<1>2. RescueInv /\ [RescueNext]_vars => RescueInv'
  BY RescueNextKeepsLockInv, WatchStep DEF RescueInv
<1> QED BY <1>1, <1>2, PTL DEF RescueSpec

\* Every variable keeps its type, the failures and the attempts their bounds.
THEOREM RescueTypeCorrect == RescueSpec => []RescueTypeOK
PROOF
<1>1. RescueInv => RescueTypeOK
  BY DEF RescueInv, LockInv, WatchTypeOK, RescueTypeOK, AllKinds, AllSteps
<1> QED BY <1>1, RescueInductive, PTL

\* No rescue brings a sing-box up under reset.lock either: the hot swap and the
\* cold start both come after a gate that asks for the lock.
THEOREM LockKeepsRescueDown == RescueSpec => NoStartUnderResetLock
PROOF
<1>1. RescueInv /\ [RescueNext]_vars => [Spawned => files.lock = "none"]_rootVars
  <2> SUFFICES ASSUME RescueInv, [RescueNext]_vars, Spawned, files.lock # "none"
               PROVE  FALSE
    OBVIOUS
  <2>1. /\ LockInv(AllKinds, AllSteps) /\ Kinds \subseteq AllKinds
        /\ Steps \subseteq AllSteps /\ core \in Core
    BY DEF RescueInv, AllKinds, AllSteps, LockInv, RootTypeOK
  <2>2. CASE [Next]_rootVars
    BY <2>1, <2>2, SpawnedUnlocked
  <2>3. CASE Rescuing
    <3>1. ~CanRun(act.epoch)
      BY DEF CanRun, SkipReconcile
    <3>2. \A s : SetState(s) => core'.proc = core.proc
      BY <2>1 DEF SetState, Core
    <3>3. core' = core \/ core' = Stopped \/ core'.proc = core.proc
      BY <2>3, <3>1, <3>2 DEF Rescuing, Admit, Attempt, TrySwap, TryReapply, TryFull,
          FullGate, Failed, Confirm, Verdict, Rollback, RollbackScript, Cancelled,
          device, StopCore
    <3> QED BY <3>3 DEF Spawned, Stopped
  <2>4. CASE TickPasses \/ TickFails
    BY <2>1, <2>4 DEF TickPasses, TickFails, SetState, Spawned, Core
  <2>5. CASE UNCHANGED core
    BY <2>5 DEF Spawned
  <2>6. CASE RescueCrash
    BY <2>6 DEF RescueCrash, CrashDuring, Stopped, Spawned
  <2> QED
    BY <2>2, <2>3, <2>4, <2>5, <2>6
    DEF RescueNext, Operating, StopMonitor, StartMonitor, ClearMonitor, Monitoring,
        Callbacks, CooldownEnds, TickRead, TickCheck, CallbackGate, CallbackSubmit,
        CallbackBusy, Restored, Next, MonitorSteps, vars, rootVars
<1> QED BY <1>1, RescueInductive, PTL DEF RescueSpec, NoStartUnderResetLock

-----------------------------------------------------------------------------
(* IntentInv: for whom the daemon brings a sing-box up or takes one down   *)

\* A rescue is at its own steps until it ends.
RescueAtStep == act.kind = "rescue" => act.pc \in RescueSteps \cup {"done"}

\* Who is still wanted where: between the verdict of a rescue and its
\* roll-back, and between the begin of a start or a restart and its spawn,
\* nobody else can begin.
WantedAtStep ==
  /\ act.pc \in {"rollback", "rollback-script"} => wanted /\ epoch = act.epoch
  /\ act.pc \in {"begin", "check", "halt", "kill", "spawn"}
       => act.kind \notin {"none", "network-change", "rescue"}
  /\ act.pc \in {"check", "halt", "kill", "spawn"} /\ act.kind \in {"start", "restart"}
       => wanted

DownIsIdle == ~up => act = NoAct /\ callback = NoCallback /\ tick = NoTick

\* An attempt leaves no core behind in the state that it gives it: what the
\* strategies have not overwritten, the end of the attempt does, because
\* nothing that its gate asks for has changed.
RescueState ==
  core.state = "rescue"
    => /\ act.pc \in {"try-swap", "try-reapply", "try-full", "failed", "confirm"}
       /\ wanted /\ epoch = act.epoch /\ ~SkipReconcile

\* A late tick may overwrite the state of a stopped core, but not bring its
\* process back.
StoppedIsGone ==
  /\ core.state = "stopped" => core.proc = "none"
  /\ act.pc \in {"spawn", "full-gate", "rollback-script"} => core.proc = "none"

IntentInv ==
  /\ RescueInv
  /\ RescueAtStep
  /\ WantedAtStep
  /\ DownIsIdle
  /\ RescueState
  /\ StoppedIsGone

\* The steps of RootRuntime's operations outside of a RESET keep IntentInv.
LEMMA StepKeepsIntentInv ==
  ASSUME IntentInv, RescueInv',
         \/ CheckCore \/ CheckLock \/ Kill \/ KillFails \/ Spawn
         \/ SpawnWithoutNode \/ SpawnFails \/ Swap \/ Reconcile \/ Reapply
         \/ Gate \/ Mark \/ Halt \/ Watch
  PROVE  IntentInv'
PROOF
<1>1. /\ act \in Act(AllKinds, AllSteps) /\ core \in Core /\ KindAtStep
      /\ Steps \subseteq AllSteps
      /\ RescueAtStep /\ WantedAtStep /\ DownIsIdle /\ RescueState /\ StoppedIsGone
  BY DEF IntentInv, RescueInv, LockInv, RootTypeOK, AllSteps
<1> USE DEF RescueAtStep, WantedAtStep, RescueState, StoppedIsGone
<1>2. /\ up /\ up' = up
      /\ act.pc \in {"check", "lock", "kill", "spawn", "swap", "reconcile",
                     "reapply", "gate", "mark", "halt", "watch"}
  BY DEF CheckCore, CheckLock, Kill, KillFails, Spawn, SpawnWithoutNode, SpawnFails,
      Swap, Reconcile, Reapply, Gate, Mark, Halt, Watch, At, daemonVars
<1>3. act.kind # "rescue" /\ core.state # "rescue"
  BY <1>1, <1>2 DEF RescueSteps
<1> SUFFICES /\ RescueAtStep' /\ WantedAtStep' /\ RescueState' /\ StoppedIsGone'
  BY <1>2 DEF IntentInv, DownIsIdle
<1>4. CASE CheckCore
  <2>1. UNCHANGED <<core, wanted>>
    BY <1>4 DEF CheckCore, device
  <2>2. CoreUp \/ core.state = "stopped"
    BY <1>1, <1>3 DEF CoreUp, Core, CoreStates
  <2> QED
    BY <1>1, <1>2, <1>3, <1>4, <2>1, <2>2, StepMoves DEF Moved, RescueSteps
<1>5. CASE CheckLock \/ SpawnWithoutNode \/ Reconcile \/ Reapply \/ Gate
  <2>1. UNCHANGED <<core, wanted>>
    BY <1>5 DEF CheckLock, SpawnWithoutNode, Reconcile, Reapply, Gate, device
  <2>2. /\ act'.kind = act.kind
        /\ \/ act'.pc \in {"done", "mark", "reapply", "watch", "gate", "enter"}
           \/ act'.pc = "halt" /\ act.kind = "reload"
    BY <1>1, <1>5, StepMoves DEF Moved, KindAtStep
  <2> QED
    BY <1>1, <1>3, <2>1, <2>2 DEF RescueSteps
<1>6. CASE Mark
  <2>1. UNCHANGED core
    BY <1>6 DEF Mark, device
  <2> QED
    BY <1>1, <1>2, <1>3, <1>6, <2>1, StepMoves DEF Moved, RescueSteps
<1>7. CASE Halt \/ Watch
  <2>1. UNCHANGED <<core, wanted>>
    BY <1>7 DEF Halt, Watch, device
  <2> QED
    BY <1>1, <1>2, <1>3, <1>7, <2>1, StepMoves DEF Moved, RescueSteps, KindAtStep
<1>8. CASE Kill
  <2>1. core' = Stopped /\ wanted' = wanted /\ act.pc = "kill"
    BY <1>8 DEF Kill, StopCore, At
  <2> QED
    BY <1>1, <1>2, <1>3, <1>8, <2>1, StepMoves DEF Moved, RescueSteps, Stopped
<1>9. CASE KillFails
  <2>1. core' = Stopped
    BY <1>9 DEF KillFails, StopCore
  <2> QED
    BY <1>1, <1>2, <1>3, <1>9, <2>1, StepMoves DEF Moved, RescueSteps, Stopped
<1>10. CASE Spawn
  <2>1. core'.state = "running"
    BY <1>10 DEF Spawn, StartCore, NewCore
  <2> QED
    BY <1>1, <1>2, <1>3, <1>10, <2>1, StepMoves DEF Moved, RescueSteps
<1>11. CASE SpawnFails
  <2>1. \/ core' = core
        \/ core'.state = "stopped" /\ core'.proc = "none"
    <3>1. core.proc = "none"
      BY <1>1, <1>11 DEF SpawnFails, At
    <3>2. core' = core \/ core' = [core EXCEPT !.state = "stopped"] \/ core' = Stopped
      BY <1>11 DEF SpawnFails, StartCoreFails
    <3> QED BY <1>1, <3>1, <3>2 DEF Stopped, Core
  <2>2. act'.kind = act.kind /\ act'.pc \in {"mark", "enter"}
    BY <1>1, <1>11, StepMoves DEF Moved
  <2> QED
    BY <1>1, <1>3, <2>1, <2>2 DEF RescueSteps
<1>12. CASE Swap
  <2>1. core' = core \/ core'.state \in {"running", "degraded"}
    <3>1. CASE SwapFails
      <4>1. core' = core \/ core' = [state |-> "degraded", proc |-> "none"]
        BY <3>1 DEF SwapFails
      <4> QED BY <4>1
    <3>2. CASE SwapCore \/ SwapRestored
      BY <3>2 DEF SwapCore, SwapRestored, NewCore
    <3> QED BY <1>12, <3>1, <3>2 DEF Swap
  <2>2. act'.kind = act.kind /\ act'.pc \in {"reapply", "watch", "done", "enter"}
    BY <1>1, <1>12, StepMoves DEF Moved
  <2> QED
    BY <1>1, <1>3, <2>1, <2>2 DEF RescueSteps
<1> QED BY <1>4, <1>5, <1>6, <1>7, <1>8, <1>9, <1>10, <1>11, <1>12

\* The steps of a RESET, and those that begin and end an operation, keep it.
LEMMA ResetKeepsIntentInv ==
  ASSUME IntentInv, RescueInv',
         \/ EnterReset \/ QuietReset \/ ScourReset \/ ScriptReset
         \/ ClearReset \/ SweepReset \/ LeaveReset
         \/ Recover \/ Begin \/ Done
  PROVE  IntentInv'
PROOF
<1>1. /\ act \in Act(AllKinds, AllSteps) /\ core \in Core /\ KindAtStep
      /\ Steps \subseteq AllSteps
      /\ RescueAtStep /\ WantedAtStep /\ DownIsIdle /\ RescueState /\ StoppedIsGone
  BY DEF IntentInv, RescueInv, LockInv, RootTypeOK, AllSteps
<1> USE DEF RescueAtStep, WantedAtStep, RescueState, StoppedIsGone
<1>2. up /\ up' = up /\ act.pc \in ResetSteps \cup {"recover", "begin", "done"}
  BY DEF EnterReset, QuietReset, ScourReset, ScriptReset, ClearReset, SweepReset,
      LeaveReset, Recover, Begin, Done, ResetStep, ResetSteps, At, daemonVars
<1>3. core.state # "rescue" /\ (act.pc # "done" => act.kind # "rescue")
  BY <1>1, <1>2 DEF RescueSteps, ResetSteps
<1>4. core' = core \/ core' = Stopped
  BY DEF EnterReset, QuietReset, ScourReset, ScriptReset, ClearReset, SweepReset,
      LeaveReset, Recover, Begin, Done, StopCore, device
<1> SUFFICES /\ RescueAtStep' /\ WantedAtStep' /\ RescueState' /\ StoppedIsGone'
  BY <1>2 DEF IntentInv, DownIsIdle
<1>5. CASE EnterReset \/ QuietReset \/ ScourReset \/ ScriptReset \/ ClearReset \/ SweepReset
  <2>1. PICK from \in ResetSteps, to \in ResetSteps, ok \in BOOLEAN : ResetStep(from, to, ok)
    BY <1>5 DEF EnterReset, QuietReset, ScourReset, ScriptReset, ClearReset, SweepReset,
        ResetSteps
  <2>2. act'.pc \in ResetSteps /\ act'.kind = act.kind /\ act.pc \in ResetSteps
    BY <1>1, <2>1 DEF ResetStep, At, Act
  <2> QED
    BY <1>1, <1>3, <1>4, <2>2 DEF ResetSteps, RescueSteps, Stopped
<1>6. CASE LeaveReset
  <2>1. act.pc = "leave"
    BY <1>6 DEF LeaveReset, At
  <2>2. PICK b : act' = AfterReset(b)
    BY <1>6 DEF LeaveReset
  <2>3. /\ act'.kind = act.kind
        /\ \/ act'.pc \in {"done", "mark"}
           \/ act.recovering /\ act'.pc = AfterRecover
    BY <1>1, <2>2 DEF AfterReset, AfterFailure, Act
  <2>4. act.recovering => act.kind \in {"start", "restart", "network-change"}
    BY <1>1 DEF KindAtStep
  <2> QED
    BY <1>1, <1>3, <1>4, <2>1, <2>3, <2>4 DEF AfterRecover, RescueSteps, Stopped
<1>7. CASE Recover
  <2>1. act.pc = "recover" /\ act.kind \in {"start", "restart", "network-change"}
    BY <1>1, <1>7 DEF Recover, At, KindAtStep
  <2>2. /\ act'.kind = act.kind
        /\ \/ act'.pc \in {"done", "enter"}
           \/ act'.pc = AfterRecover
    BY <1>1, <1>7 DEF Recover, Goto, Fail, Act
  <2> QED
    BY <1>1, <1>3, <1>4, <2>1, <2>2 DEF AfterRecover, RescueSteps, Stopped
<1>8. CASE Begin
  <2>1. act.pc = "begin" /\ (act.kind \in {"start", "restart"} => wanted')
    BY <1>8 DEF Begin, At
  <2>2. act'.kind = act.kind /\ act'.pc \in {"check", "enter", "halt"}
    BY <1>1, <1>8 DEF Begin, Act
  <2>3. act.kind \notin {"none", "network-change", "rescue"}
    BY <1>1, <2>1 DEF RescueSteps
  <2> QED
    BY <1>1, <1>3, <1>4, <2>1, <2>2, <2>3 DEF RescueSteps, Stopped
<1>9. CASE Done
  BY <1>1, <1>3, <1>4, <1>9 DEF Done, NoAct, Stopped
<1> QED BY <1>5, <1>6, <1>7, <1>8, <1>9

\* Requests and the environment keep it: none touches the desire, and the
\* files change under a running daemon only when the lock ages.
LEMMA OthersKeepIntentInv ==
  ASSUME IntentInv, RescueInv', (Requests \/ Environment) /\ UNCHANGED watchVars
  PROVE  IntentInv'
PROOF
<1>1. /\ core \in Core /\ files \in Files
      /\ RescueAtStep /\ WantedAtStep /\ DownIsIdle /\ RescueState /\ StoppedIsGone
  BY DEF IntentInv, RescueInv, LockInv, RootTypeOK
<1> USE DEF RescueAtStep, WantedAtStep, RescueState, StoppedIsGone, DownIsIdle
<1> SUFFICES /\ RescueAtStep' /\ WantedAtStep' /\ DownIsIdle'
             /\ RescueState' /\ StoppedIsGone'
  BY DEF IntentInv
<1>2. callback' = callback /\ tick' = tick
  BY DEF watchVars
<1>3. CASE Requests
  <2>1. UNCHANGED <<core, files, wanted, epoch, up>> /\ up
    BY <1>3 DEF Requests, Request, Submit, SampleReload, SubmitReload, ReloadBusy,
        AutostartCheck, AutostartSubmit, AutostartBusy
  <2>2. CASE UNCHANGED act
    BY <1>1, <1>2, <2>1, <2>2 DEF SkipReconcile
  <2>3. CASE ~UNCHANGED act
    <3>1. /\ act = NoAct
          /\ act'.kind # "rescue"
          /\ \/ act'.pc \in {"recover", "lock"}
             \/ act'.pc = "begin" /\ act'.kind \in {"stop", "reset"}
      BY <1>3, <2>3 DEF Requests, Request, Submit, SampleReload, SubmitReload,
          ReloadBusy, AutostartCheck, AutostartSubmit, AutostartBusy, NoAct
    <3> QED BY <1>1, <1>2, <2>1, <3>1 DEF NoAct, RescueSteps
  <2> QED BY <2>2, <2>3
<1>4. CASE CoreDies
  <2>1. UNCHANGED <<files, wanted, epoch, up, act>>
    BY <1>4 DEF CoreDies
  <2>2. core'.state = core.state /\ (core.proc = "none" => core'.proc = "none")
    BY <1>1, <1>4 DEF CoreDies, Core
  <2> QED BY <1>1, <1>2, <2>1, <2>2 DEF SkipReconcile
<1>5. CASE StrayExits
  BY <1>1, <1>2, <1>5 DEF StrayExits, SkipReconcile
<1>6. CASE LockExpires
  <2>1. core.state # "rescue"
    BY <1>1, <1>6 DEF LockExpires, SkipReconcile
  <2> QED BY <1>1, <1>2, <1>6, <2>1 DEF LockExpires
<1>7. CASE AppRepair \/ Boot
  <2>1. act = NoAct /\ up' /\ UNCHANGED <<core, act, epoch, wanted>>
    BY <1>1, <1>7 DEF AppRepair, Boot, Relaunched
  <2>2. core.state # "rescue"
    BY <1>1, <2>1 DEF NoAct
  <2> QED BY <1>1, <1>2, <2>1, <2>2 DEF NoAct
<1> QED BY <1>3, <1>4, <1>5, <1>6, <1>7 DEF Environment

\* What each step of a rescue does to the operation, and to the desire.
LEMMA RescueMoves ==
  ASSUME act \in Act(AllKinds, AllSteps), Rescuing
  PROVE  /\ act.pc \in RescueSteps /\ up
         /\ UNCHANGED <<up, wanted, epoch, callback, tick>>
         /\ \E pc \in RescueSteps \cup {"done"} : Goto(pc)
         /\ act'.kind = act.kind /\ act'.epoch = act.epoch
PROOF
<1>1. \E from \in RescueSteps : RescueStep(from)
  BY DEF Rescuing, Admit, Attempt, TrySwap, TryReapply, TryFull, FullGate, Failed,
      Confirm, Verdict, Rollback, RollbackScript, RescueSteps
<1>2. /\ act.pc \in RescueSteps /\ up
      /\ UNCHANGED <<up, wanted, epoch, callback, tick>>
  BY <1>1 DEF RescueStep, At, daemonVars
<1>3. \E pc \in RescueSteps \cup {"done"} : Goto(pc)
  BY DEF Rescuing, Admit, Attempt, Strategy, TrySwap, TryReapply, TryFull, FullGate,
      Failed, Confirm, Verdict, Rollback, RollbackScript, Cancelled, RescueSteps
<1>4. act'.kind = act.kind /\ act'.epoch = act.epoch
  BY <1>3 DEF Goto, Act
<1> QED BY <1>2, <1>3, <1>4

\* The steps of a rescue keep IntentInv.
LEMMA RescuingKeepsIntentInv ==
  ASSUME IntentInv, RescueInv', Rescuing
  PROVE  IntentInv'
PROOF
<1>1. /\ act \in Act(AllKinds, AllSteps) /\ core \in Core /\ files \in Files
      /\ RescueAtStep /\ WantedAtStep /\ DownIsIdle /\ RescueState /\ StoppedIsGone
  BY DEF IntentInv, RescueInv, LockInv, RootTypeOK
<1> USE DEF RescueAtStep, WantedAtStep, RescueState, StoppedIsGone
<1>2. /\ act.pc \in RescueSteps /\ up /\ UNCHANGED <<up, wanted, epoch, callback, tick>>
      /\ act'.pc \in RescueSteps \cup {"done"}
      /\ act'.kind = act.kind /\ act'.epoch = act.epoch
      /\ \A pc : Goto(pc) => act'.pc = pc
  BY <1>1, RescueMoves DEF Goto, Act
<1>3. core.state = "rescue" => CanRun(act.epoch)
  BY <1>1 DEF CanRun
<1>4. SUFFICES /\ act'.pc \in {"rollback", "rollback-script"}
                    => wanted /\ epoch = act.epoch
               /\ RescueState' /\ StoppedIsGone'
  BY <1>1, <1>2, <1>4 DEF IntentInv, DownIsIdle, RescueSteps
<1>5. CASE Admit \/ Verdict
  <2>1. UNCHANGED <<core, files>> /\ act.pc \in {"admit", "verdict"}
    BY <1>5 DEF Admit, Verdict, RescueStep, At, device
  <2>2. /\ act'.pc \in {"attempt", "done", "rollback"}
        /\ act'.pc = "rollback" => CanRun(act.epoch)
    BY <1>2, <1>5 DEF Admit, Verdict
  <2> QED
    BY <1>1, <1>2, <2>1, <2>2 DEF CanRun
<1>6. CASE Attempt
  <2>1. act.pc = "attempt" /\ files' = files
    BY <1>6 DEF Attempt, RescueStep, At
  <2>2. \/ /\ CanRun(act.epoch) /\ core' = [core EXCEPT !.state = "rescue"]
           /\ act'.pc \in {"try-swap", "try-reapply", "try-full"}
        \/ core' = core /\ act'.pc = "verdict"
    BY <1>2, <1>6 DEF Attempt, SetState, Strategy
  <2> QED
    BY <1>1, <1>2, <2>1, <2>2 DEF CanRun, Core, SkipReconcile
<1>7. CASE TrySwap
  <2>1. act.pc = "try-swap" /\ act'.pc \in {"confirm", "failed"}
    BY <1>2, <1>7 DEF TrySwap, RescueStep, At, Cancelled
  <2>2. \/ UNCHANGED <<core, files>>
        \/ core'.state \in {"running", "degraded"}
    <3>1. CASE SwapFails
      <4>1. \/ UNCHANGED <<core, files>>
            \/ core' = [state |-> "degraded", proc |-> "none"]
        BY <3>1 DEF SwapFails
      <4> QED BY <4>1
    <3>2. CASE SwapCore \/ SwapRestored
      BY <3>2 DEF SwapCore, SwapRestored, NewCore
    <3> QED BY <1>7, <3>1, <3>2 DEF TrySwap, Cancelled, device
  <2> QED
    BY <1>1, <1>2, <2>1, <2>2 DEF SkipReconcile
<1>8. CASE TryReapply
  <2>1. /\ act.pc = "try-reapply" /\ act'.pc \in {"confirm", "failed"}
        /\ UNCHANGED <<core, files>>
    BY <1>2, <1>8 DEF TryReapply, RescueStep, At, Cancelled, device
  <2> QED
    BY <1>1, <1>2, <2>1 DEF SkipReconcile
<1>9. CASE TryFull
  <2>1. \/ core' = Stopped /\ act'.pc = "full-gate"
        \/ UNCHANGED <<core, files>> /\ act'.pc = "failed"
    BY <1>2, <1>9 DEF TryFull, StopCore, Cancelled, device
  <2>2. act.pc = "try-full"
    BY <1>9 DEF TryFull, RescueStep, At
  <2> QED
    BY <1>1, <1>2, <2>1, <2>2 DEF Stopped, SkipReconcile
<1>10. CASE FullGate
  <2>1. act.pc = "full-gate" /\ core.proc = "none" /\ act'.pc \in {"confirm", "failed"}
    BY <1>1, <1>2, <1>10 DEF FullGate, RescueStep, At, Cancelled
  <2>2. \/ core' = core \/ core' = Stopped
        \/ core' = [core EXCEPT !.state = "stopped"] \/ core' \in NewCore
    BY <1>10 DEF FullGate, StartCore, StartCoreFails, Cancelled, device
  <2>3. \/ core' = core
        \/ core'.state \in {"running"}
        \/ core'.state = "stopped" /\ core'.proc = "none"
    BY <1>1, <2>1, <2>2 DEF NewCore, Core, Stopped
  <2> QED
    BY <1>1, <1>2, <2>1, <2>3
<1>11. CASE Failed \/ Confirm
  <2>1. UNCHANGED files /\ act'.pc \in {"verdict", "done"}
    BY <1>2, <1>11 DEF Failed, Confirm
  <2>2. \/ core' = core /\ core.state # "rescue"
        \/ core' = [core EXCEPT !.state = "degraded"]
        \/ core' = [core EXCEPT !.state = "running"]
    BY <1>3, <1>11 DEF Failed, Confirm, SetState
  <2>3. \/ core' = core /\ core.state # "rescue"
        \/ core'.state \in {"degraded", "running"}
    BY <1>1, <2>2 DEF Core
  <2> QED
    BY <1>1, <1>2, <2>1, <2>3
<1>12. CASE Rollback
  <2>1. core' = Stopped /\ act.pc = "rollback"
    BY <1>12 DEF Rollback, StopCore, RescueStep, At
  <2>2. act'.pc \in {"rollback-script", "done"}
    BY <1>2, <1>12 DEF Rollback
  <2> QED
    BY <1>1, <1>2, <2>1, <2>2 DEF Stopped
<1>13. CASE RollbackScript
  <2>1. /\ act.pc = "rollback-script" /\ act'.pc = "done"
        /\ core' = [core EXCEPT !.state = "stopped"]
    BY <1>2, <1>13 DEF RollbackScript, SetState, RescueStep, At
  <2> QED
    BY <1>1, <1>2, <2>1 DEF Core
<1> QED BY <1>5, <1>6, <1>7, <1>8, <1>9, <1>10, <1>11, <1>12, <1>13 DEF Rescuing

\* The watchers keep it: a tick writes a state only, and a callback submits to
\* an actor that is free.
LEMMA WatchingKeepsIntentInv ==
  ASSUME IntentInv, RescueInv', Monitoring \/ Callbacks \/ CooldownEnds
  PROVE  IntentInv'
PROOF
<1>1. /\ core \in Core /\ WatchTypeOK
      /\ RescueAtStep /\ WantedAtStep /\ DownIsIdle /\ RescueState /\ StoppedIsGone
  BY DEF IntentInv, RescueInv, LockInv, RootTypeOK
<1> USE DEF RescueAtStep, WantedAtStep, RescueState, StoppedIsGone, DownIsIdle
<1> SUFFICES /\ RescueAtStep' /\ WantedAtStep' /\ DownIsIdle'
             /\ RescueState' /\ StoppedIsGone'
  BY DEF IntentInv
<1>2. CASE TickPasses \/ TickFails
  <2>1. /\ UNCHANGED <<act, files, wanted, epoch, up>>
        /\ \/ core' = core
           \/ core' = [core EXCEPT !.state = "running"]
           \/ core' = [core EXCEPT !.state = "degraded"]
    BY <1>2 DEF TickPasses, TickFails, SetState
  <2>2. core'.proc = core.proc /\ core'.state \in {core.state, "running", "degraded"}
    BY <1>1, <2>1 DEF Core
  <2>3. up
    BY <1>1, <1>2 DEF TickPasses, TickFails, NoTick
  <2> QED BY <1>1, <2>1, <2>2, <2>3 DEF SkipReconcile
<1>3. CASE CallbackSubmit
  <2>1. /\ act = NoAct /\ act'.kind = "rescue" /\ act'.pc = "admit"
        /\ UNCHANGED <<core, files, wanted, epoch, up>>
        /\ callback' = NoCallback
    BY <1>3 DEF CallbackSubmit, NoAct
  <2>2. up
    BY <1>1, <1>3 DEF CallbackSubmit, NoCallback
  <2> QED BY <1>1, <2>1, <2>2 DEF RescueSteps, NoAct
<1>4. CASE UNCHANGED rootVars
  <2>1. \/ up
        \/ callback' \in {callback, NoCallback} /\ tick' \in {tick, NoTick}
    BY <1>1, <1>4 DEF Monitoring, Callbacks, CooldownEnds, TickRead, TickCheck,
        TickPasses, TickFails, CallbackGate, CallbackSubmit, CallbackBusy, Restored,
        NoTick, NoCallback
  <2> QED BY <1>1, <1>4, <2>1 DEF rootVars, SkipReconcile
<1> QED
  BY <1>2, <1>3, <1>4 DEF Monitoring, Callbacks, CooldownEnds, TickRead, TickCheck,
      CallbackGate, CallbackBusy, Restored

\* A crash forgets everything that IntentInv speaks of.
LEMMA CrashKeepsIntentInv ==
  ASSUME RescueCrash, RescueInv'
  PROVE  IntentInv'
PROOF BY DEF RescueCrash, CrashDuring, NoAct, Stopped, RescueSteps, IntentInv,
          RescueAtStep, WantedAtStep, DownIsIdle, RescueState, StoppedIsGone

\* Every step keeps IntentInv.
LEMMA RescueNextKeepsIntentInv ==
  ASSUME IntentInv, [RescueNext]_vars
  PROVE  IntentInv'
PROOF
<1>1. RescueInv'
  BY RescueNextKeepsLockInv, WatchStep DEF IntentInv, RescueInv
<1>2. CASE PlainSteps \/ StopMonitor \/ StartMonitor \/ ClearMonitor
  BY <1>1, <1>2, StepKeepsIntentInv, ResetKeepsIntentInv
  DEF PlainSteps, StopMonitor, StartMonitor, ClearMonitor
<1>3. CASE (Requests \/ Environment) /\ UNCHANGED watchVars
  BY <1>1, <1>3, OthersKeepIntentInv
<1>4. CASE Rescuing
  BY <1>1, <1>4, RescuingKeepsIntentInv
<1>5. CASE Monitoring \/ Callbacks \/ CooldownEnds
  BY <1>1, <1>5, WatchingKeepsIntentInv
<1>6. CASE RescueCrash
  BY <1>1, <1>6, CrashKeepsIntentInv
<1>7. CASE UNCHANGED vars
  BY <1>1, <1>7 DEF vars, rootVars, watchVars, IntentInv, RescueAtStep, WantedAtStep,
      DownIsIdle, RescueState, StoppedIsGone, SkipReconcile
<1> QED
  BY <1>2, <1>3, <1>4, <1>5, <1>6, <1>7 DEF RescueNext, Operating

\* What a rescue does to the device, it does while it is still asked for.
LEMMA RescueStepIsWanted ==
  ASSUME IntentInv, [RescueNext]_vars, act.kind = "rescue", act'.kind = "rescue",
         act'.pc # act.pc, device' # device
  PROVE  wanted /\ epoch = act.epoch
PROOF
<1>1. act.pc \in RescueSteps \cup {"done"} /\ WantedAtStep
  BY DEF IntentInv, RescueAtStep
<1>2. Rescuing
  <2>1. ~PlainSteps /\ ~MonitorSteps
    BY <1>1 DEF PlainSteps, Recover, Begin, CheckCore, CheckLock, Kill, KillFails,
        Spawn, SpawnWithoutNode, SpawnFails, Swap, Reconcile, Reapply, Gate, Mark,
        EnterReset, ScourReset, ScriptReset, SweepReset, LeaveReset, Done,
        MonitorSteps, Halt, Watch, QuietReset, ClearReset, ResetStep, At, NoAct,
        RescueSteps
  <2>2. ~Requests /\ ~Environment
    BY DEF Requests, Request, Submit, SampleReload, SubmitReload, ReloadBusy,
        AutostartCheck, AutostartSubmit, AutostartBusy, Environment, CoreDies,
        StrayExits, LockExpires, AppRepair, Boot, Relaunched, NoAct
  <2>3. ~Monitoring /\ ~Callbacks /\ ~CooldownEnds
    BY DEF Monitoring, Callbacks, CooldownEnds, TickRead, TickCheck, TickPasses,
        TickFails, CallbackGate, CallbackSubmit, CallbackBusy, Restored, rootVars, NoAct
  <2>4. ~RescueCrash
    <3>1. RescueCrash => act' = NoAct
      BY DEF RescueCrash, CrashDuring
    <3> QED BY <3>1 DEF NoAct
  <2>5. ~UNCHANGED vars
    BY DEF vars, rootVars
  <2> QED
    BY <2>1, <2>2, <2>3, <2>4, <2>5 DEF RescueNext, Operating, StopMonitor, StartMonitor,
        ClearMonitor, MonitorSteps
<1>3. CASE CanRun(act.epoch)
  BY <1>3 DEF CanRun
<1>4. CASE Rollback \/ RollbackScript
  BY <1>1, <1>4 DEF Rollback, RollbackScript, RescueStep, At, WantedAtStep
<1> QED
  BY <1>2, <1>3, <1>4 DEF Rescuing, Admit, Attempt, TrySwap, TryReapply, TryFull,
      FullGate, Failed, Confirm, Verdict, Cancelled, device

\* Only Spawn, Swap and the strategies of a rescue bring a sing-box up.
LEMMA SpawnedByWhom ==
  ASSUME RescueInv, [RescueNext]_vars, Spawned
  PROVE  \/ Spawn
         \/ Swap
         \/ Rescuing /\ CanRun(act.epoch)
PROOF
<1>1. core \in Core /\ core.proc = "none" /\ core' # core /\ core' # Stopped
  BY DEF RescueInv, LockInv, RootTypeOK, Spawned, Stopped
<1>2. \A s : SetState(s) => core'.proc = core.proc
  BY <1>1 DEF SetState, Core
<1>3. ~(Kill \/ KillFails \/ ScourReset \/ ClearReset \/ RescueCrash \/ CoreDies)
  BY <1>1 DEF Kill, KillFails, ScourReset, StopCore, ClearReset, RescueCrash,
      CrashDuring, CoreDies
<1>4. ~SpawnFails
  <2>1. [core EXCEPT !.state = "stopped"].proc = core.proc
    BY <1>1 DEF Core
  <2> QED BY <1>1, <2>1 DEF SpawnFails, StartCoreFails, Spawned
<1>5. ~TickPasses /\ ~TickFails
  BY <1>1, <1>2 DEF TickPasses, TickFails, Spawned
<1>6. ASSUME Rescuing, ~CanRun(act.epoch)
      PROVE  FALSE
  <2>1. core' = core \/ core' = Stopped \/ core'.proc = core.proc
    BY <1>2, <1>6 DEF Rescuing, Admit, Attempt, TrySwap, TryReapply, TryFull,
        FullGate, Failed, Confirm, Verdict, Rollback, RollbackScript, Cancelled,
        device, StopCore
  <2> QED BY <1>1, <2>1 DEF Spawned
<1>7. CASE Requests \/ Environment
  BY <1>1, <1>3, <1>7 DEF Requests, Request, Submit, SampleReload, SubmitReload,
      ReloadBusy, AutostartCheck, AutostartSubmit, AutostartBusy, Environment,
      StrayExits, LockExpires, AppRepair, Boot, Relaunched
<1>8. CASE PlainSteps \/ MonitorSteps
  BY <1>1, <1>3, <1>4, <1>8 DEF PlainSteps, Recover, Begin, CheckCore, CheckLock,
      SpawnWithoutNode, Reconcile, Reapply, Gate, Mark, EnterReset, ScriptReset,
      SweepReset, LeaveReset, Done, MonitorSteps, Halt, Watch, QuietReset, device
<1>9. CASE Monitoring \/ Callbacks \/ CooldownEnds
  BY <1>1, <1>5, <1>9 DEF Monitoring, Callbacks, CooldownEnds, TickRead, TickCheck,
      CallbackGate, CallbackSubmit, CallbackBusy, Restored, rootVars
<1> QED
  BY <1>1, <1>3, <1>6, <1>7, <1>8, <1>9 DEF RescueNext, Operating, StopMonitor,
      StartMonitor, ClearMonitor, MonitorSteps, vars, rootVars

-----------------------------------------------------------------------------

\* IntentInv holds in every state.
THEOREM IntentInductive == RescueSpec => []IntentInv
PROOF
<1>1. RescueInit => IntentInv
  <2> SUFFICES ASSUME RescueInit PROVE IntentInv
    OBVIOUS
  <2>1. RescueInv
    BY InitRescueInv
  <2> QED
    BY <2>1 DEF RescueInit, Init, NoAct, Stopped, RescueSteps, IntentInv,
        RescueAtStep, WantedAtStep, DownIsIdle, RescueState, StoppedIsGone
<1>2. IntentInv /\ [RescueNext]_vars => IntentInv'
  BY RescueNextKeepsIntentInv
<1> QED BY <1>1, <1>2, PTL DEF RescueSpec

\* Whatever a rescue does to the device, in any of its strategies and in its
\* roll-back, the runtime is still wanted and nothing has begun since its
\* callback passed the gate.
THEOREM RescueActsForTheUser == RescueSpec => RescueRespectsIntent
PROOF
<1>1. IntentInv /\ [RescueNext]_vars
        => [act.kind = "rescue" /\ act'.kind = "rescue" /\ act'.pc # act.pc
              /\ device' # device => wanted /\ epoch = act.epoch]_vars
  BY RescueStepIsWanted
<1> QED BY <1>1, IntentInductive, PTL DEF RescueSpec, RescueRespectsIntent

\* No sing-box comes up that is not wanted, except by a reload.
THEOREM StartsAreWanted == RescueSpec => OnlyWantedStarts
PROOF
<1>1. IntentInv /\ [RescueNext]_vars
        => [Spawned /\ act.kind # "reload" => wanted]_vars
  <2> SUFFICES ASSUME IntentInv, [RescueNext]_vars, Spawned, act.kind # "reload"
               PROVE  wanted
    OBVIOUS
  <2>1. RescueInv /\ KindAtStep /\ WantedAtStep /\ act \in Act(AllKinds, AllSteps)
    BY DEF IntentInv, RescueInv, LockInv, RootTypeOK
  <2>2. CASE Spawn
    BY <2>1, <2>2 DEF Spawn, At, KindAtStep, WantedAtStep, Act, AllKinds, Kinds
  <2>3. CASE Swap
    BY <2>1, <2>3 DEF Swap, At, KindAtStep
  <2>4. CASE Rescuing /\ CanRun(act.epoch)
    BY <2>4 DEF CanRun
  <2> QED BY <2>1, <2>2, <2>3, <2>4, SpawnedByWhom
<1> QED BY <1>1, IntentInductive, PTL DEF RescueSpec, OnlyWantedStarts

\* CoreManager.Start finds no process to overwrite, however long a tick of the
\* health monitor outlives the wait of its Stop: a late tick changes the state
\* that Start asks for, never the process that it would overwrite.
THEOREM StartsOrphanNobody == RescueSpec => StartNeverOrphans
PROOF
<1>1. IntentInv /\ [RescueNext]_vars
        => [act.pc = "spawn" /\ act'.pc = "watch" => core.proc = "none"]_vars
  BY DEF IntentInv, StoppedIsGone
<1> QED BY <1>1, IntentInductive, PTL DEF RescueSpec, StartNeverOrphans

=============================================================================
