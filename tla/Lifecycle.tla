------------------------------ MODULE Lifecycle ------------------------------
(***************************************************************************)
(* The daemon around the runtime: the signal loop and the shutdown, the    *)
(* network watcher with its readers, and the operations of the runtime     *)
(* that start and stop them.  What an operation does to the runtime is     *)
(* Orchestrator.tla and CoreManager.tla; here it starts or stops sing-box  *)
(* and the watcher.                                                        *)
(***************************************************************************)
EXTENDS Naturals

CONSTANT MaxReaders     \* bound: readers of the watcher at once

ASSUME LifecycleAssumption == MaxReaders \in Nat \ {0}

Readers == 1..MaxReaders
Callers == {"operation", "shutdown"}
Signals == {"HUP", "TERM"}

VARIABLES
  sigCh,   \* the buffered signal
  phase,   \* the signal loop, or how far the shutdown is
  op,      \* the operation of the runtime and its next step
  core,    \* sing-box runs
  late,    \* history: a start ran when, or after, the shutdown stopped the core
  watch,   \* the reader whose stopCh the watcher holds, or 0
  reader,  \* reader[g]: a goroutine that reads what inotifyd g prints, and the
           \* channel it will close; a channel has the number of its reader, 0 is nil
  ended,   \* the channels that are closed
  waits    \* waits[x]: the reader that a Stop by x waits for, or 0

watcher == <<watch, reader, ended, waits>>
runtime == <<op, core, late>>
loop == <<sigCh, phase>>
vars == <<watcher, runtime, loop>>

NoOp == [kind |-> "none", pc |-> "none"]
NoReader == [pc |-> "none", inotifyd |-> FALSE, done |-> 0]
Up == phase \notin {"gone", "panicked"}

-----------------------------------------------------------------------------
(* The operations of the runtime                                           *)

\* The actor takes one operation at a time.
Submits(kind, pc) ==
  IF op = NoOp
  THEN /\ op' = [kind |-> kind, pc |-> pc]
       /\ late' = (late \/ (kind = "start" /\ phase \in {"close", "unlink"}))
  ELSE UNCHANGED <<op, late>>

\* A handler submits; it does so after its request timed out, too, and until the
\* process is gone.
Request ==
  /\ Up /\ (Submits("start", "core") \/ Submits("stop", "halt"))
  /\ UNCHANGED <<watcher, core, loop>>

-----------------------------------------------------------------------------
(* The network watcher                                                     *)

Free(g) ==
  /\ reader[g] = NoReader
  /\ \A x \in Callers : waits[x] # g
  /\ \A f \in Readers : reader[f].done # g

\* findInotifyd finds none, or Start fails for another reason; it is only logged.
NotFound == UNCHANGED watcher

\* Start: refused while one runs.
StartWatcher ==
  \/ NotFound
  \/ /\ watch = 0
     /\ \E g \in Readers :
          /\ Free(g) /\ \A f \in 1..g-1 : ~Free(f)
          /\ watch' = g /\ ended' = ended \ {g}
          /\ reader' = [reader EXCEPT ![g] = [pc |-> "born", inotifyd |-> TRUE, done |-> 0]]
     /\ UNCHANGED waits

\* The goroutine of Start begins with defer close(w.done): it closes the channel
\* that the field holds now, when a Stop may have cleared it already, or a later
\* Start set it anew.
Born(g) ==
  /\ Up /\ reader[g].pc = "born"
  /\ reader' = [reader EXCEPT ![g].pc = "scan", ![g].done = watch]
  /\ UNCHANGED <<watch, ended, waits, runtime, loop>>

\* The reader returns. To close nil, or a channel twice, is a panic: it ends the
\* daemon, and the core stays.
Returns(g) ==
  /\ reader' = [reader EXCEPT ![g] = NoReader]
  /\ ended' = ended \cup ({reader[g].done} \ {0})
  /\ phase' = IF reader[g].done \in ended \cup {0} THEN "panicked" ELSE phase
  /\ UNCHANGED <<watch, waits, runtime, sigCh>>

\* Mutant: inotifyd is left to itself.
StopWatcherOnly(x) ==
  /\ watch' = 0 /\ waits' = [waits EXCEPT ![x] = watch]
  /\ UNCHANGED <<reader, ended>>

\* Stop takes the fields under w.mu and kills inotifyd; a second Stop finds none
\* and does not wait.
StopWatcher(x) ==
  /\ watch' = 0 /\ waits' = [waits EXCEPT ![x] = watch]
  /\ reader' = IF watch = 0 THEN reader ELSE [reader EXCEPT ![watch].inotifyd = FALSE]
  /\ UNCHANGED ended

\* The wait of Stop is over: the channel is closed, or nobody does it within five
\* seconds, because of a callback or because the reader closes another one.
WaitOver(x) ==
  /\ waits[x] # 0 =>
       \/ waits[x] \in ended
       \/ reader[waits[x]].pc = "callback"
       \/ reader[waits[x]].pc # "born" /\ reader[waits[x]].done # waits[x]
  /\ waits' = [waits EXCEPT ![x] = 0]
  /\ UNCHANGED <<watch, reader, ended>>

\* The reader takes a line that inotifyd printed, maybe before it was killed. It
\* asks w.stopCh, a field that Stop has cleared or a later Start has set anew, so
\* the line still fires (or not, by the race); within the debounce interval of
\* another one it is dropped.
ScanLine(g) ==
  /\ Up /\ reader[g].pc = "scan"
  /\ \/ reader' = [reader EXCEPT ![g].pc = "callback"]
        /\ UNCHANGED <<watch, ended, waits, runtime, loop>>
     \/ watch # g /\ Returns(g)

\* The end of what inotifyd printed.
ScanEnds(g) == Up /\ reader[g].pc = "scan" /\ ~reader[g].inotifyd /\ Returns(g)

\* handleNetworkChange: a busy or stopped runtime is not asked again.
Callback(g) ==
  /\ Up /\ reader[g].pc = "callback"
  /\ IF core THEN Submits("network-change", "net") ELSE UNCHANGED <<op, late>>
  /\ reader' = [reader EXCEPT ![g].pc = "scan"]
  /\ UNCHANGED <<watch, ended, waits, core, loop>>

-----------------------------------------------------------------------------
(* The steps of an operation                                               *)

OpAt(pc) == Up /\ op.pc = pc
OpGoto(pc) == op' = [op EXCEPT !.pc = pc]

OpStartsCore ==
  /\ OpAt("core")
  /\ \/ core' = TRUE /\ OpGoto("watch")
     \/ UNCHANGED core /\ OpGoto("end")
  /\ UNCHANGED <<watcher, late, loop>>

OpWatches ==
  /\ OpAt("watch") /\ StartWatcher /\ OpGoto("end")
  /\ UNCHANGED <<core, late, loop>>

\* The rules of the new network: a failure resets the runtime.
OpReapplies ==
  /\ OpAt("net") /\ (OpGoto("end") \/ OpGoto("halt"))
  /\ UNCHANGED <<watcher, core, late, loop>>

OpHalts ==
  /\ OpAt("halt") /\ StopWatcher("operation") /\ OpGoto("wait")
  /\ UNCHANGED <<core, late, loop>>

OpWaits ==
  /\ OpAt("wait") /\ WaitOver("operation") /\ OpGoto("kill")
  /\ UNCHANGED <<core, late, loop>>

OpStopsCore ==
  /\ OpAt("kill") /\ core' = FALSE /\ OpGoto("end")
  /\ UNCHANGED <<watcher, late, loop>>

OpEnds ==
  /\ OpAt("end") /\ op' = NoOp
  /\ UNCHANGED <<watcher, core, late, loop>>

-----------------------------------------------------------------------------
(* The signal loop and the shutdown                                        *)

\* One signal waits; another one is dropped by the Go runtime.
Signalled(s) ==
  /\ Up /\ sigCh = "none" /\ sigCh' = s
  /\ UNCHANGED <<watcher, runtime, phase>>

\* While a reload is on its way, no signal is taken.
TakeSignal ==
  /\ phase = "loop" /\ sigCh # "none" /\ sigCh' = "none"
  /\ phase' = IF sigCh = "TERM" THEN "halt" ELSE "reload"
  /\ UNCHANGED <<watcher, runtime>>

\* reloadConfig is ConfigApply's: what it starts is an operation like any other.
ReloadConfig ==
  /\ phase = "reload" /\ phase' = "loop"
  /\ UNCHANGED <<watcher, runtime, sigCh>>

Shut(from, to) == phase = from /\ phase' = to /\ UNCHANGED sigCh

\* Mutant: the shutdown asks the actor, and waits until it is idle.
ShutHaltsIdle ==
  Shut("halt", "wait") /\ op = NoOp /\ StopWatcher("shutdown") /\ UNCHANGED runtime

\* stopSubsystems.
ShutHalts == Shut("halt", "wait") /\ StopWatcher("shutdown") /\ UNCHANGED runtime
ShutWaits == Shut("wait", "core") /\ WaitOver("shutdown") /\ UNCHANGED runtime

\* Mutant: the shutdown leaves the core to the operation that runs.
ShutStopsIdleCore ==
  /\ Shut("core", "close")
  /\ core' = (core /\ op # NoOp) /\ late' = (late \/ op.kind = "start")
  /\ UNCHANGED <<watcher, op>>

\* coreMgr.Stop does not ask the actor.
ShutStopsCore ==
  /\ Shut("core", "close")
  /\ core' = FALSE /\ late' = (late \/ op.kind = "start")
  /\ UNCHANGED <<watcher, op>>

\* Server.Stop, which ends (StopEnds of IpcServer.tla): wg.Wait waits for the
\* connections and not for the handlers.
ShutServer == Shut("close", "unlink") /\ UNCHANGED <<watcher, runtime>>

\* removeStaleSocket, and the process is gone with its goroutines.
ShutExits ==
  /\ Shut("unlink", "gone")
  /\ op' = NoOp /\ reader' = [g \in Readers |-> NoReader]
  /\ watch' = 0 /\ ended' = {} /\ waits' = [x \in Callers |-> 0]
  /\ UNCHANGED <<core, late>>

-----------------------------------------------------------------------------
Init ==
  /\ sigCh = "none" /\ phase = "loop" /\ core = FALSE /\ late = FALSE
  /\ op \in {NoOp, [kind |-> "start", pc |-> "core"]}   \* maybeAutostart
  /\ watch = 0 /\ ended = {} /\ reader = [g \in Readers |-> NoReader] /\ waits = [x \in Callers |-> 0]

\* Requests, signals and changes of the network come as they like.
Outside ==
  \/ Request
  \/ \E s \in Signals : Signalled(s)
  \/ \E g \in Readers : ScanLine(g)

Operate == OpStartsCore \/ OpWatches \/ OpReapplies \/ OpHalts \/ OpWaits \/ OpStopsCore \/ OpEnds
SignalLoop == TakeSignal \/ ReloadConfig \/ ShutHalts \/ ShutWaits \/ ShutStopsCore \/ ShutServer \/ ShutExits

Read(g) == Born(g) \/ Callback(g)

Next == Outside \/ Operate \/ SignalLoop \/ \E g \in Readers : Read(g) \/ ScanEnds(g)

\* The goroutines of the daemon run, an operation ends (its stages have limits of
\* time), and what a dead inotifyd printed comes to an end.
Fairness ==
  /\ \A g \in Readers : WF_vars(Read(g)) /\ SF_vars(ScanEnds(g))
  /\ WF_vars(Operate) /\ WF_vars(SignalLoop)

Spec == Init /\ [][Next]_vars /\ Fairness

-----------------------------------------------------------------------------
(* Properties                                                              *)

\* Every variable has its type.
TypeOK ==
  /\ sigCh \in Signals \cup {"none"}
  /\ phase \in {"loop", "reload", "halt", "wait", "core", "close", "unlink", "gone", "panicked"}
  /\ op \in [kind : {"none", "start", "stop", "network-change"},
             pc : {"none", "core", "watch", "net", "halt", "wait", "kill",
                   "end"}]
  /\ core \in BOOLEAN /\ late \in BOOLEAN
  /\ watch \in 0..MaxReaders /\ waits \in [Callers -> 0..MaxReaders] /\ ended \subseteq Readers
  /\ reader \in [Readers -> [pc : {"none", "born", "scan", "callback"}, inotifyd : BOOLEAN,
                             done : 0..MaxReaders]]

\* At most one inotifyd runs, and it is the one whose process the watcher holds and
\* would kill, though a start and a stop of two goroutines interleave (Start, Stop).
OneInotifyd == \A g \in Readers : reader[g].inotifyd => watch = g

\* The reader of a watcher that was stopped ends, though its callback may outlast
\* the wait of Stop: it does not go on beside the reader of the next start.
StoppedReaderEnds == \A g \in Readers :
  (reader[g].pc # "none" /\ watch # g) ~> (reader[g].pc = "none" \/ watch = g \/ phase = "panicked")

\* A SIGTERM that reached the channel ends the daemon, whatever operations and
\* changes of the network are under way (runSignalLoop, shutdown).
TermEndsDaemon == sigCh = "TERM" ~> ~Up

\* The daemon leaves no core behind, unless a start ran when the shutdown stopped
\* the core, or was submitted after that (shutdown).
ExitLeavesNoCore == phase = "gone" /\ ~late => ~core

=============================================================================
