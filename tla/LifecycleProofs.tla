--------------------------- MODULE LifecycleProofs ---------------------------
(***************************************************************************)
(* What Lifecycle.tla promises, for any number of readers: the types, that *)
(* one inotifyd runs at most, and that the daemon leaves no core behind.   *)
(***************************************************************************)
EXTENDS Lifecycle, TLAPS

\* After the shutdown has stopped the core, an operation brings it up only if it
\* is a start, and then the history knows.
CoreStaysDown ==
  /\ op.pc = "core" => op.kind = "start"
  /\ phase \in {"close", "unlink", "gone"} /\ ~late => ~core /\ op.kind # "start"

ReaderType == [pc : {"none", "born", "scan", "callback"}, inotifyd : BOOLEAN, done : 0..MaxReaders]
OpType == [kind : {"none", "start", "stop", "network-change"},
           pc : {"none", "core", "watch", "net", "halt", "wait", "kill", "end"}]

LInv == TypeOK /\ OneInotifyd /\ CoreStaysDown

\* A reader that returns is forgotten, and so is its inotifyd.
LEMMA ReturnsKeeps ==
  ASSUME LInv, NEW g \in Readers, Returns(g)
  PROVE  LInv'
<1>1. reader' = [reader EXCEPT ![g] = NoReader] /\ UNCHANGED <<watch, waits, op, core, late, sigCh>>
  BY DEF Returns, runtime, watcher
<1>2. TypeOK'
  <2>1. reader[g].done \in 0..MaxReaders
    BY DEF LInv, TypeOK
  <2>2. ended' \subseteq Readers
    <3>1. ended' = ended \cup ({reader[g].done} \ {0})
      BY DEF Returns
    <3>2. {reader[g].done} \ {0} \subseteq Readers
      BY <2>1, LifecycleAssumption DEF Readers
    <3> QED BY <3>1, <3>2 DEF LInv, TypeOK
  <2>3. phase' \in {phase, "panicked"}
    BY DEF Returns
  <2> QED BY <1>1, <2>2, <2>3, LifecycleAssumption DEF LInv, TypeOK, NoReader
<1>3. OneInotifyd'
  BY <1>1 DEF LInv, TypeOK, OneInotifyd, NoReader
<1>4. CoreStaysDown'
  BY <1>1 DEF Returns, LInv, CoreStaysDown
<1> QED BY <1>2, <1>3, <1>4 DEF LInv

\* Stop kills the inotifyd that the watcher holds, and that is all there may be.
LEMMA StopKeeps ==
  ASSUME LInv, NEW x \in Callers, StopWatcher(x)
  PROVE  /\ OneInotifyd'
         /\ watch' \in 0..MaxReaders /\ waits' \in [Callers -> 0..MaxReaders]
         /\ ended' \subseteq Readers /\ reader' \in [Readers -> ReaderType]
<1>1. watch # 0 => watch \in Readers
  BY LifecycleAssumption DEF LInv, TypeOK, Readers
<1>2. ASSUME NEW g \in Readers PROVE ~reader'[g].inotifyd
  BY <1>1, <1>2 DEF StopWatcher, LInv, TypeOK, OneInotifyd, Readers
<1>3. OneInotifyd'
  BY <1>2 DEF OneInotifyd
<1>4. watch' \in 0..MaxReaders /\ waits' \in [Callers -> 0..MaxReaders] /\ ended' \subseteq Readers
  BY LifecycleAssumption DEF StopWatcher, LInv, TypeOK
<1>5. reader' \in [Readers -> ReaderType]
  <2>1. reader \in [Readers -> ReaderType]
    BY DEF LInv, TypeOK, ReaderType
  <2>2. CASE watch # 0
    <3>1. [reader[watch] EXCEPT !.inotifyd = FALSE] \in ReaderType
      BY <1>1, <2>1, <2>2 DEF ReaderType
    <3> QED BY <1>1, <2>1, <2>2, <3>1 DEF StopWatcher
  <2> QED BY <2>1, <2>2 DEF StopWatcher
<1> QED BY <1>3, <1>4, <1>5

\* Start makes one only when the watcher holds none.
LEMMA StartKeeps ==
  ASSUME LInv, StartWatcher
  PROVE  /\ OneInotifyd'
         /\ watch' \in 0..MaxReaders /\ waits' \in [Callers -> 0..MaxReaders]
         /\ ended' \subseteq Readers /\ reader' \in [Readers -> ReaderType]
<1>1. CASE NotFound
  BY <1>1 DEF NotFound, watcher, LInv, TypeOK, OneInotifyd, ReaderType
<1>2. CASE ~NotFound
  <2>1. PICK g \in Readers :
          /\ watch' = g /\ ended' = ended \ {g}
          /\ reader' = [reader EXCEPT ![g] = [pc |-> "born", inotifyd |-> TRUE, done |-> 0]]
    BY <1>2 DEF StartWatcher
  <2>2. watch = 0 /\ UNCHANGED waits
    BY <1>2 DEF StartWatcher
  <2>3. ASSUME NEW f \in Readers, f # g PROVE ~reader'[f].inotifyd
    BY <2>1, <2>2, <2>3, LifecycleAssumption DEF LInv, TypeOK, OneInotifyd, Readers
  <2>4. OneInotifyd'
    BY <2>1, <2>3 DEF OneInotifyd
  <2>5. [pc |-> "born", inotifyd |-> TRUE, done |-> 0] \in ReaderType
    BY LifecycleAssumption DEF NoReader, ReaderType
  <2>6. reader' \in [Readers -> ReaderType]
    BY <2>1, <2>5 DEF LInv, TypeOK, ReaderType
  <2>7. watch' \in 0..MaxReaders /\ waits' \in [Callers -> 0..MaxReaders] /\ ended' \subseteq Readers
    BY <2>1, <2>2, LifecycleAssumption DEF LInv, TypeOK, Readers
  <2> QED BY <2>4, <2>6, <2>7
<1> QED BY <1>1, <1>2

LEMMA InitHolds == Init => LInv
<1> SUFFICES ASSUME Init PROVE LInv
  OBVIOUS
<1>1. reader \in [Readers -> ReaderType] /\ waits \in [Callers -> 0..MaxReaders] /\ watch \in 0..MaxReaders
  BY LifecycleAssumption DEF Init, NoReader, ReaderType
<1>2. TypeOK
  <2>1. op \in OpType
    BY DEF Init, OpType, NoOp
  <2> QED BY <1>1, <2>1 DEF Init, TypeOK, ReaderType, OpType, Signals
<1>3. OneInotifyd /\ CoreStaysDown
  BY DEF Init, OneInotifyd, CoreStaysDown, NoOp, NoReader
<1> QED BY <1>2, <1>3 DEF LInv

\* An accepted operation, and one that is refused.
LEMMA SubmitKeeps ==
  ASSUME LInv, NEW kind \in {"start", "stop", "network-change"}, NEW pc \in {"core", "halt", "net"},
         pc = "core" => kind = "start", kind = "start" => phase \notin {"gone"},
         Submits(kind, pc), UNCHANGED <<core, phase>>
  PROVE  /\ CoreStaysDown' /\ late' \in BOOLEAN
         /\ op' \in OpType
<1>1. late' \in BOOLEAN /\ op' \in OpType
  <2>1. op' \in OpType
    BY DEF Submits, LInv, TypeOK, OpType
  <2>2. CASE op = NoOp
    BY <2>1, <2>2 DEF Submits
  <2>3. CASE op # NoOp
    BY <2>1, <2>3 DEF Submits, LInv, TypeOK
  <2> QED BY <2>2, <2>3
<1>2. CASE op = NoOp
  <2>1. op'.kind = kind /\ op'.pc = pc
    BY <1>2 DEF Submits
  <2>2. ~late' => ~late /\ (kind # "start" \/ phase \notin {"close", "unlink"})
    BY <1>2 DEF Submits
  <2> QED BY <1>1, <2>1, <2>2 DEF LInv, CoreStaysDown
<1>3. CASE op # NoOp
  BY <1>1, <1>3 DEF Submits, LInv, CoreStaysDown
<1> QED BY <1>2, <1>3

LEMMA StepKeeps == LInv /\ [Next]_vars => LInv'
<1> SUFFICES ASSUME LInv, [Next]_vars PROVE LInv'
  OBVIOUS
<1> USE DEF LInv
<1>1. ASSUME Request PROVE LInv'
  <2>1. UNCHANGED <<watch, reader, ended, waits, core, sigCh, phase>>
    BY <1>1 DEF Request, watcher, loop
  <2>2. CoreStaysDown' /\ late' \in BOOLEAN
        /\ op' \in OpType
    BY <1>1, <2>1, SubmitKeeps DEF Request, Up
  <2> QED BY <2>1, <2>2 DEF TypeOK, OneInotifyd, OpType
<1>2. ASSUME NEW s \in Signals, Signalled(s) PROVE LInv'
  BY <1>2 DEF Signalled, watcher, runtime, TypeOK, OneInotifyd, CoreStaysDown
<1>3. ASSUME NEW g \in Readers, ScanLine(g) PROVE LInv'
  <2>1. CASE Returns(g)
    BY <2>1, ReturnsKeeps
  <2>2. CASE reader' = [reader EXCEPT ![g].pc = "callback"] /\ UNCHANGED <<watch, ended, waits, runtime, loop>>
    BY <2>2 DEF runtime, loop, TypeOK, OneInotifyd, CoreStaysDown
  <2> QED BY <1>3, <2>1, <2>2 DEF ScanLine
<1>4. ASSUME NEW g \in Readers, ScanEnds(g) PROVE LInv'
  BY <1>4, ReturnsKeeps DEF ScanEnds
<1>5. ASSUME NEW g \in Readers, Born(g) PROVE LInv'
  BY <1>5 DEF Born, runtime, loop, TypeOK, OneInotifyd, CoreStaysDown
<1>6. ASSUME NEW g \in Readers, Callback(g) PROVE LInv'
  <2>1. reader' = [reader EXCEPT ![g].pc = "scan"] /\ UNCHANGED <<watch, ended, waits, core, sigCh, phase>>
    BY <1>6 DEF Callback, loop
  <2>2. TypeOK!1' /\ TypeOK!2' /\ OneInotifyd'
    BY <2>1 DEF TypeOK, OneInotifyd
  <2>3. CASE ~core
    BY <1>6, <2>1, <2>3 DEF Callback, TypeOK, OneInotifyd, CoreStaysDown
  <2>4. CASE core
    <3>1. CoreStaysDown' /\ late' \in BOOLEAN
          /\ op' \in OpType
      BY <1>6, <2>1, <2>4, SubmitKeeps DEF Callback
    <3> QED BY <2>1, <2>2, <3>1 DEF TypeOK, OpType
  <2> QED BY <2>3, <2>4 DEF TypeOK
<1>7. ASSUME OpStartsCore PROVE LInv'
  BY <1>7 DEF OpStartsCore, OpAt, OpGoto, watcher, loop, TypeOK, OneInotifyd, CoreStaysDown
<1>8. ASSUME OpWatches PROVE LInv'
  <2>1. op' = [op EXCEPT !.pc = "end"] /\ UNCHANGED <<core, late, sigCh, phase>>
    BY <1>8 DEF OpWatches, OpGoto, loop
  <2> QED BY <1>8, <2>1, StartKeeps DEF OpWatches, TypeOK, ReaderType, CoreStaysDown
<1>9. ASSUME OpReapplies PROVE LInv'
  BY <1>9 DEF OpReapplies, OpAt, OpGoto, watcher, loop, TypeOK, OneInotifyd, CoreStaysDown
<1>10. ASSUME OpHalts PROVE LInv'
  <2>1. op' = [op EXCEPT !.pc = "wait"] /\ UNCHANGED <<core, late, sigCh, phase>>
    BY <1>10 DEF OpHalts, OpGoto, loop
  <2> QED BY <1>10, <2>1, StopKeeps DEF OpHalts, Callers, TypeOK, ReaderType, CoreStaysDown
<1>11. ASSUME OpWaits \/ ShutWaits PROVE LInv'
  <2>1. UNCHANGED <<watch, reader, ended, core, late, sigCh>> /\ \E x \in Callers : waits' = [waits EXCEPT ![x] = 0]
    BY <1>11 DEF OpWaits, ShutWaits, Shut, WaitOver, runtime, loop, Callers
  <2>2. waits' \in [Callers -> 0..MaxReaders]
    BY <2>1, LifecycleAssumption DEF TypeOK
  <2>3. \/ op' = [op EXCEPT !.pc = "kill"] /\ phase' = phase
        \/ op' = op /\ phase = "wait" /\ phase' = "core"
    BY <1>11 DEF OpWaits, ShutWaits, Shut, OpGoto, runtime, loop
  <2> QED BY <2>1, <2>2, <2>3 DEF TypeOK, OneInotifyd, CoreStaysDown
<1>12. ASSUME OpStopsCore \/ OpEnds PROVE LInv'
  <2>1. UNCHANGED <<watch, reader, ended, waits, late, sigCh, phase>>
    BY <1>12 DEF OpStopsCore, OpEnds, watcher, loop
  <2>2. \/ core' = FALSE /\ op' = [op EXCEPT !.pc = "end"]
        \/ core' = core /\ op' = [kind |-> "none", pc |-> "none"]
    BY <1>12 DEF OpStopsCore, OpEnds, OpGoto, NoOp
  <2>3. op' \in OpType /\ core' \in BOOLEAN
    <3>1. core' \in BOOLEAN
      BY <2>2 DEF TypeOK
    <3>2. op \in OpType
      BY DEF TypeOK, OpType
    <3>3. op' \in OpType
      BY <2>2, <3>2 DEF OpType
    <3> QED BY <3>1, <3>3
  <2>4. op'.pc # "core" /\ op'.kind \in {op.kind, "none"} /\ (core' => core)
    BY <2>2 DEF TypeOK
  <2> QED BY <2>1, <2>3, <2>4 DEF TypeOK, OpType, OneInotifyd, CoreStaysDown
<1>13. ASSUME TakeSignal PROVE LInv'
  BY <1>13 DEF TakeSignal, watcher, runtime, TypeOK, OneInotifyd, CoreStaysDown, Signals
<1>14. ASSUME ShutHalts PROVE LInv'
  <2>1. UNCHANGED <<op, core, late, sigCh>> /\ phase' = "wait"
    BY <1>14 DEF ShutHalts, Shut, runtime
  <2> QED BY <1>14, <2>1, StopKeeps DEF ShutHalts, Callers, TypeOK, ReaderType, CoreStaysDown
<1>15. ASSUME ShutStopsCore \/ ShutServer PROVE LInv'
  <2>1. UNCHANGED <<watch, reader, ended, waits, op, sigCh>> /\ phase' \in {"close", "unlink"}
    BY <1>15 DEF ShutStopsCore, ShutServer, Shut, watcher, runtime
  <2>2. core' \in BOOLEAN /\ late' \in BOOLEAN
    BY <1>15 DEF ShutStopsCore, ShutServer, Shut, runtime, TypeOK
  <2>3. ASSUME ~late' PROVE ~core' /\ op.kind # "start"
    <3>1. CASE ShutStopsCore
      BY <2>3, <3>1 DEF ShutStopsCore
    <3>2. CASE ShutServer
      BY <2>3, <3>2 DEF ShutServer, Shut, runtime, CoreStaysDown
    <3> QED BY <1>15, <3>1, <3>2
  <2> QED BY <2>1, <2>2, <2>3 DEF TypeOK, OneInotifyd, CoreStaysDown
<1>16. ASSUME ShutExits PROVE LInv'
  BY <1>16, LifecycleAssumption DEF ShutExits, Shut, NoOp, NoReader, TypeOK, OneInotifyd, CoreStaysDown
<1>17. ASSUME ReloadConfig PROVE LInv'
  BY <1>17 DEF ReloadConfig, watcher, runtime, TypeOK, OneInotifyd, CoreStaysDown
<1>18. CASE UNCHANGED vars
  BY <1>18 DEF vars, watcher, runtime, loop, TypeOK, OneInotifyd, CoreStaysDown
<1> QED BY <1>1, <1>2, <1>3, <1>4, <1>5, <1>6, <1>7, <1>8, <1>9, <1>10, <1>11, <1>12, <1>13, <1>14,
          <1>15, <1>16, <1>17, <1>18 DEF Next, Outside, Operate, SignalLoop, Read

\* The inductive invariant: types, the one inotifyd, and what may bring the core up.
THEOREM LifecycleInductive == Spec => []LInv
PROOF BY InitHolds, StepKeeps, PTL DEF Spec

\* Every variable has its type, for any number of readers.
THEOREM LifecycleTypeCorrect == Spec => []TypeOK
<1>1. LInv => TypeOK
  BY DEF LInv
<1> QED BY <1>1, LifecycleInductive, PTL

\* Starts and stops of two goroutines never leave an inotifyd that nobody can kill.
THEOREM InotifydIsHeld == Spec => []OneInotifyd
<1>1. LInv => OneInotifyd
  BY DEF LInv
<1> QED BY <1>1, LifecycleInductive, PTL

\* The daemon that has shut down leaves a core only if a start overlapped the shutdown.
THEOREM NoCoreLeft == Spec => []ExitLeavesNoCore
<1>1. LInv => ExitLeavesNoCore
  BY DEF LInv, CoreStaysDown, ExitLeavesNoCore
<1> QED BY <1>1, LifecycleInductive, PTL
=============================================================================
