--------------------------- MODULE CoreManagerProofs ---------------------------
(***************************************************************************)
(* Proofs about the core manager, for any configurations and nodes.        *)
(*                                                                         *)
(* What is promised of the state between two calls says nothing of the     *)
(* steps inside one, so neither RunningIsWhatRuns nor CallContract is      *)
(* inductive.  SetupInv says for each step of a call how far it has        *)
(* brought the children, the files and the memory; SeenInv says how the    *)
(* state differs from the one the call began in.  Both are stated with one *)
(* part per thing they relate, and each action has a lemma for each of     *)
(* them.                                                                   *)
(***************************************************************************)
EXTENDS CoreManager, TLAPS

-----------------------------------------------------------------------------
(* The invariant                                                           *)

\* What a core can be brought up with.
Setups == [config : Configs, node : Nodes]

\* A tracked child, or none.
Child == [life : {"alive", "dead"}, setup : Setups \cup {NoSetup}] \cup {NoProcess}

\* The two children.
SingBox == proc["sing-box"]
Xray == proc["xray"]

\* The steps of each call.
StepsOf == [
  none  |-> {"idle"},
  start |-> {"refuse", "render", "xray", "wait", "core", "listen", "apply", "verify",
             "clean", "rollback", "unwind", "commit"},
  stop  |-> {"clean", "kill", "killXray", "forget"},
  swap  |-> {"render", "killOld", "sidecar", "xray", "wait", "core", "listen", "commit",
             "restore", "restoreXray", "degrade", "unmark"}]

\* A call that runs, or none.
Call == [op : {"none", "start", "stop", "swap"}, setup : Setups \cup {NoSetup},
         back : BOOLEAN, ok : BOOLEAN, dirty : BOOLEAN]

\* Every variable has its type.
TypeOK ==
  /\ state \in {"stopped", "starting", "running", "stopping", "degraded", "rescue"}
  /\ proc \in [Programs -> Child]
  /\ stray \in [Programs -> BOOLEAN]
  /\ pid \in [Programs -> {"none", "tracked", "stray"}]
  /\ config \in Configs
  /\ running \in Setups \cup {NoSetup}
  /\ rendered \in [Programs -> Setups \cup {NoSetup}]
  /\ rules \in [Parts -> BOOLEAN]
  /\ files \in [marker : BOOLEAN, manual : BOOLEAN]
  /\ call \in Call
  /\ blurred \in BOOLEAN

\* A call is at one of its steps, has a setup to bring up, and takes the old one
\* back only when there is one.
CallFits ==
  /\ call.op = "none" <=> at = "idle"
  /\ at \in StepsOf[call.op]
  /\ call.op \in {"start", "swap"} => call.setup \in Setups
  /\ call.back => /\ call.op = "swap"
                  /\ at \notin {"render", "killOld", "sidecar", "restore"}
                  /\ at # "unmark" => running # NoSetup
  /\ at = "restoreXray" => call.back
  /\ at = "restore" => running # NoSetup

\* A tracked child that is alive is in its PID file, inside a call too.
PidKnown == \A p \in Programs : proc[p].life = "alive" => pid[p] = "tracked"

\* singbox.json is of the configuration that is remembered, and of a node with the
\* same sidecar, until a new one is committed.
FileKept == running # NoSetup /\ ~blurred =>
  /\ rendered["sing-box"].config = running.config
  /\ Needs(running) \/ Needs(rendered["sing-box"]) => rendered["sing-box"].node = running.node

\* While no call has touched the children.
Settled ==
  at \in {"idle", "refuse", "killOld"} \/ At("render", "swap") =>
    /\ ~blurred => (running = NoSetup <=> SingBox = NoProcess)
    /\ SingBox # NoProcess => running # NoSetup /\ SingBox.setup = rendered["sing-box"]
    /\ SingBox = NoProcess => Xray = NoProcess

\* How far the call has brought sing-box down or up.
CoreFits ==
  /\ call.op = "start" /\ at # "refuse" /\ ~blurred => running = NoSetup
  /\ at \in {"sidecar", "xray", "wait", "core", "restoreXray", "unwind", "unmark",
             "killXray", "forget"} \/ At("render", "start") => SingBox = NoProcess
  /\ at \in {"listen", "apply", "verify", "commit"} =>
       SingBox # NoProcess /\ SingBox.setup = Given("sing-box")
  /\ call.op = "start" /\ at \notin {"refuse", "render"} =>
       rendered["sing-box"] = call.setup
  /\ at = "unmark" => running = NoSetup

\* The same for the sidecar.
XrayFits ==
  /\ at \in {"xray", "forget"} \/ At("render", "start") => Xray = NoProcess
  /\ at = "wait" => Xray # NoProcess /\ Xray.setup = Target
  /\ at \in {"xray", "wait"} => Needs(Target)
  /\ at \in {"core", "listen", "apply", "verify", "commit"} =>
       IF Needs(Target) THEN Xray # NoProcess /\ Xray.setup = Target ELSE Xray = NoProcess

\* All of it.
SetupInv ==
  TypeOK /\ CallFits /\ PidKnown /\ FileKept /\ Settled /\ CoreFits /\ XrayFits

-----------------------------------------------------------------------------
(* Children                                                                *)

\* A setup to be brought up is not the lack of one.
LEMMA NoSetupIsNone == NoSetup \notin Setups
PROOF BY CoreManagerAssumption DEF NoSetup, Setups

\* Without a call there is nothing to bring up.
LEMMA NoCallType == NoCall \in Call
PROOF BY DEF NoCall, Call

\* A child has a setup if and only if there is one.
LEMMA ChildFacts ==
  ASSUME NEW c \in Child
  PROVE  /\ c = NoProcess <=> c.life = "none"
         /\ c.life \in {"none", "alive", "dead"}
         /\ c # NoProcess => c.setup \in Setups \cup {NoSetup}
                             /\ [c EXCEPT !.life = "dead"] \in Child
                             /\ [c EXCEPT !.life = "dead"].setup = c.setup
                             /\ [c EXCEPT !.life = "dead"].life = "dead"
PROOF BY DEF Child, NoProcess

\* A killed child is forgotten, and whether another one is left is known from what
\* it was.  The other program is not concerned.
LEMMA KilledFacts ==
  ASSUME TypeOK, NEW p \in Programs, NEW ok \in BOOLEAN, Killed(p, ok)
  PROVE  /\ proc' \in [Programs -> Child] /\ stray' \in [Programs -> BOOLEAN]
         /\ pid' \in [Programs -> {"none", "tracked", "stray"}]
         /\ proc'[p] = NoProcess
         /\ \A q \in Programs \ {p} :
              proc'[q] = proc[q] /\ stray'[q] = stray[q] /\ pid'[q] = pid[q]
         /\ proc[p].life = "alive" => stray'[p] = (stray[p] \/ ~ok)
         /\ proc[p].life = "dead" => stray'[p] = stray[p]
         /\ proc[p].life = "none" => (stray'[p] => stray[p])
<1>1. /\ proc \in [Programs -> Child] /\ stray \in [Programs -> BOOLEAN]
      /\ pid \in [Programs -> {"none", "tracked", "stray"}]
  BY DEF TypeOK
<1>2. NoProcess \in Child
  BY DEF Child
<1>3. PICK s \in BOOLEAN :
        /\ stray' = [stray EXCEPT ![p] = s]
        /\ CASE proc[p].life = "alive"                    -> s = (stray[p] \/ ~ ok)
             [] proc[p].life = "none" /\ pid[p] = "stray" -> s \in {stray[p], FALSE}
             [] OTHER                                     -> s = stray[p] /\ ok
  BY DEF Killed
<1>4. proc' = [proc EXCEPT ![p] = NoProcess] /\ pid' = [pid EXCEPT ![p] = "none"]
  BY DEF Killed
<1>5. stray'[p] = s
  BY <1>1, <1>3
<1>6. /\ proc[p].life = "alive" => s = (stray[p] \/ ~ok)
      /\ proc[p].life = "dead" => s = stray[p]
      /\ proc[p].life = "none" => (s => stray[p])
  <2>1. CASE proc[p].life = "alive"
    BY <1>3, <2>1
  <2>2. CASE proc[p].life = "none" /\ pid[p] = "stray"
    BY <1>3, <2>2
  <2>3. CASE proc[p].life # "alive" /\ ~(proc[p].life = "none" /\ pid[p] = "stray")
    BY <1>3, <2>3
  <2> QED BY <2>1, <2>2, <2>3
<1> QED BY <1>1, <1>2, <1>3, <1>4, <1>5, <1>6

\* A child that is dropped without a look at the result may be left behind.
LEMMA DroppedCoreFacts ==
  ASSUME TypeOK, DroppedCore
  PROVE  /\ proc' \in [Programs -> Child] /\ stray' \in [Programs -> BOOLEAN]
         /\ pid' \in [Programs -> {"none", "tracked", "stray"}]
         /\ SingBox' = NoProcess /\ Xray' = Xray
         /\ pid'["xray"] = pid["xray"] /\ stray'["xray"] = stray["xray"]
         /\ stray["sing-box"] => stray'["sing-box"]
         /\ SingBox.life # "alive" => stray'["sing-box"] = stray["sing-box"]
<1>1. PICK outlives \in BOOLEAN :
        stray' = [stray EXCEPT !["sing-box"] = @ \/ outlives]
        /\ (outlives => SingBox.life = "alive")
  BY DEF DroppedCore, SingBox
<1> QED BY <1>1 DEF DroppedCore, TypeOK, Programs, SingBox, Xray, Child

\* A child that is spawned is tracked, and named by its PID file.
LEMMA SpawnedFacts ==
  ASSUME TypeOK, NEW p \in Programs, Spawned(p), Given(p) \in Setups \cup {NoSetup}
  PROVE  /\ proc' \in [Programs -> Child] /\ pid' \in [Programs -> {"none", "tracked", "stray"}]
         /\ proc'[p].life = "alive" /\ proc'[p].setup = Given(p) /\ proc'[p] # NoProcess
         /\ pid'[p] = "tracked" /\ stray' = stray
         /\ \A q \in Programs \ {p} : proc'[q] = proc[q] /\ pid'[q] = pid[q]
<1>1. [life |-> "alive", setup |-> Given(p)] \in Child
  BY DEF Child
<1> QED BY <1>1 DEF Spawned, TypeOK, NoProcess

-----------------------------------------------------------------------------
(* Rules                                                                   *)

\* Every report leaves rules; a clean-up without an error leaves none, one with
\* an error says so, and none installs anything.
LEMMA CleanUpFacts ==
  ASSUME NEW old \in [Parts -> BOOLEAN], NEW r \in CleanUps(old)
  PROVE  /\ r.rules \in [Parts -> BOOLEAN] /\ r.dirty \in BOOLEAN /\ r.ok \in BOOLEAN
         /\ Installed(r.rules) => Installed(old) /\ r.dirty
<1>1. CASE r = Report(NoRules, TRUE, FALSE)
  BY <1>1 DEF Report, NoRules, Installed
<1>2. CASE \E left \in Removed(old) : r = Report(left, FALSE, TRUE)
  <2>1. PICK left \in Removed(old) : r = Report(left, FALSE, TRUE)
    BY <1>2
  <2>2. left \in [Parts -> BOOLEAN] /\ \A p \in Parts : left[p] => old[p]
    BY DEF Removed
  <2>3. Installed(left) => Installed(old)
    BY <2>2 DEF Installed, NoRules
  <2> QED BY <2>1, <2>2, <2>3 DEF Report
<1> QED BY <1>1, <1>2 DEF CleanUps

\* Applying and verifying report rules, and a verified set is complete.
LEMMA ApplyFacts ==
  ASSUME NEW old \in [Parts -> BOOLEAN], NEW r \in Applies(old)
  PROVE  r.rules \in [Parts -> BOOLEAN] /\ r.dirty \in BOOLEAN /\ r.ok \in BOOLEAN
<1>1. CASE r \in CleanUps(old)
  BY <1>1, CleanUpFacts
<1>2. CASE r \in FailedStart([NoRules EXCEPT !["iptables"] = TRUE]) \cup FailedStart(AllRules)
  <2>1. PICK from \in {[NoRules EXCEPT !["iptables"] = TRUE], AllRules} : r \in FailedStart(from)
    BY <1>2
  <2>2. from \in [Parts -> BOOLEAN]
    BY DEF NoRules, AllRules, Parts
  <2>3. PICK c \in CleanUps(from) : r = [c EXCEPT !.ok = FALSE]
    BY <2>1 DEF FailedStart
  <2>4. c \in [rules : [Parts -> BOOLEAN], ok : BOOLEAN, dirty : BOOLEAN]
    <3>1. CASE c = Report(NoRules, TRUE, FALSE)
      BY <3>1 DEF Report, NoRules
    <3>2. CASE \E left \in Removed(from) : c = Report(left, FALSE, TRUE)
      BY <3>2 DEF Report, Removed
    <3> QED BY <2>3, <3>1, <3>2 DEF CleanUps
  <2> QED BY <2>3, <2>4
<1>3. CASE r = Report(AllRules, TRUE, FALSE)
  BY <1>3 DEF Report, AllRules
<1> QED BY <1>1, <1>2, <1>3 DEF Applies

\* Verifying changes no rule, and finds them well only when they are complete.
LEMMA VerifyFacts ==
  ASSUME NEW old \in [Parts -> BOOLEAN], NEW r \in Verifies(old)
  PROVE  /\ r.rules = old /\ r.dirty \in BOOLEAN /\ r.ok \in BOOLEAN
         /\ r.ok => old = AllRules
<1>1. CASE r = Report(old, FALSE, FALSE)
  BY <1>1 DEF Report
<1>2. CASE r = Report(old, TRUE, FALSE) /\ old = AllRules
  BY <1>2 DEF Report
<1> QED BY <1>1, <1>2 DEF Verifies

-----------------------------------------------------------------------------
(* The invariant holds before the first step, and when nothing happens     *)

\* In the beginning nothing runs, and nothing is remembered.
LEMMA InitSetupInv == Init => SetupInv
<1> SUFFICES ASSUME Init PROVE SetupInv
  OBVIOUS
<1>1. TypeOK
  BY NoCallType DEF Init, TypeOK, Child, NoRules
<1>2. CallFits
  BY DEF Init, CallFits, StepsOf, NoCall
<1>3. SingBox = NoProcess /\ Xray = NoProcess
  BY DEF Init, SingBox, Xray, Programs
<1>4. PidKnown
  BY DEF Init, PidKnown, NoProcess
<1>5. FileKept /\ Settled /\ CoreFits /\ XrayFits
  BY <1>3 DEF Init, FileKept, Settled, CoreFits, XrayFits, At, NoCall
<1> QED BY <1>1, <1>2, <1>4, <1>5 DEF SetupInv

\* A stutter keeps SetupInv: it speaks of nothing but the variables.
LEMMA StutterKeeps == ASSUME SetupInv, UNCHANGED vars PROVE SetupInv'
PROOF BY DEF vars, children, memory, disk, SetupInv, TypeOK, CallFits, PidKnown, FileKept,
         Settled, CoreFits, XrayFits, StepsOf, At, SingBox, Xray, Target, Given, Needs

-----------------------------------------------------------------------------
(* The first step of a call, and calls of one step                         *)

\* Start keeps SetupInv: a start begins with nothing tracked, or is refused.
LEMMA StartKeeps == ASSUME SetupInv, NEW node \in Nodes, Start(node) PROVE SetupInv'
<1>1. [config |-> config, node |-> node] \in Setups
  BY DEF SetupInv, TypeOK, Call, Setups
<1>2. TypeOK'
  BY <1>1, NoSetupIsNone DEF SetupInv, TypeOK, Call, CallFits, FileKept, Settled, CoreFits,
     XrayFits, Start, Begin, At, Target, Given, Needs, children, memory, disk, NoCall, SingBox,
     Xray, StepsOf, NoProcess, Child, Programs
<1>3. CallFits' /\ PidKnown' /\ FileKept' /\ Settled' /\ CoreFits' /\ XrayFits'
  BY <1>1, NoSetupIsNone DEF SetupInv, TypeOK, Call, CallFits, FileKept, Settled, CoreFits,
     XrayFits, Start, Begin, At, Target, Given, Needs, children, memory, disk, NoCall, SingBox,
     Xray, StepsOf, NoProcess, Child, Programs, PidKnown
<1> QED BY <1>2, <1>3 DEF SetupInv

\* HotSwap keeps SetupInv: a swap begins with the runtime that is remembered.
LEMMA HotSwapKeeps == ASSUME SetupInv, NEW node \in Nodes, HotSwap(node) PROVE SetupInv'
<1>1. [config |-> config, node |-> node] \in Setups
  BY DEF SetupInv, TypeOK, Call, Setups
<1>2. TypeOK'
  BY <1>1, NoSetupIsNone DEF SetupInv, TypeOK, Call, CallFits, FileKept, Settled, CoreFits,
     XrayFits, HotSwap, Begin, At, Target, Given, Needs, children, memory, disk, NoCall, SingBox,
     Xray, StepsOf, NoProcess, Child, Programs
<1>3. CallFits' /\ PidKnown' /\ FileKept' /\ Settled' /\ CoreFits' /\ XrayFits'
  BY <1>1, NoSetupIsNone DEF SetupInv, TypeOK, Call, CallFits, FileKept, Settled, CoreFits,
     XrayFits, HotSwap, Begin, At, Target, Given, Needs, children, memory, disk, NoCall, SingBox,
     Xray, StepsOf, NoProcess, Child, Programs, PidKnown
<1> QED BY <1>2, <1>3 DEF SetupInv

\* Stop keeps SetupInv: a stop begins wherever the runtime is.
LEMMA StopKeeps == ASSUME SetupInv, Stop PROVE SetupInv'
<1>1. TypeOK'
  BY NoSetupIsNone DEF SetupInv, TypeOK, Call, CallFits, Stop, Begin, children, memory,
     NoCall, Child, NoProcess, Programs
<1>2. CallFits' /\ PidKnown' /\ FileKept' /\ Settled' /\ CoreFits' /\ XrayFits'
  BY NoSetupIsNone DEF SetupInv, TypeOK, Call, CallFits, Stop, Begin, At, Target, Given, Needs,
     children, memory, NoCall, StepsOf, PidKnown, NoProcess, FileKept, Settled, CoreFits,
     XrayFits, Child, Programs, SingBox, Xray
<1> QED BY <1>1, <1>2 DEF SetupInv

\* MarkSelectorActive keeps SetupInv: a selector switch changes the node that is
\* remembered, and nothing else unless the history says so.
LEMMA MarkSelectorActiveKeeps ==
  ASSUME SetupInv, NEW node \in Nodes, MarkSelectorActive(node)
  PROVE  SetupInv'
<1>1. running' = [config |-> config, node |-> node] /\ running' \in Setups
  BY DEF SetupInv, TypeOK, Setups, MarkSelectorActive
<1>2. running' # NoSetup
  BY <1>1, NoSetupIsNone
<1>3. /\ at = "idle" /\ node \notin XrayNodes
      /\ UNCHANGED <<at, call, state, children, config, disk>>
      /\ blurred' = (blurred \/ config # running.config \/ Needs(running))
  BY DEF MarkSelectorActive, Idle
<1>4. blurred' \in BOOLEAN
  BY <1>3 DEF Needs, SetupInv, TypeOK
<1>5. TypeOK'
  BY <1>1, <1>3, <1>4 DEF SetupInv, TypeOK, children, disk
<1>6. CallFits' /\ PidKnown'
  BY <1>3 DEF SetupInv, CallFits, PidKnown, children, StepsOf
<1>7. ~blurred' => ~blurred /\ running # NoSetup /\ running'.config = running.config /\ ~Needs(running)
  <2>1. config # NoSetup.config
    BY CoreManagerAssumption DEF SetupInv, TypeOK, NoSetup
  <2> QED BY <1>1, <1>3, <2>1 DEF SetupInv, TypeOK
<1>8. ~Needs(running')
  BY <1>1, <1>3 DEF Needs
<1>9. FileKept' /\ Settled'
  BY <1>2, <1>3, <1>7, <1>8 DEF SetupInv, FileKept, Settled, Needs, children, disk, SingBox, Xray, At
<1>10. CoreFits' /\ XrayFits'
  BY <1>3 DEF SetupInv, CallFits, CoreFits, XrayFits, At
<1> QED BY <1>5, <1>6, <1>9, <1>10 DEF SetupInv

\* SetConfig keeps SetupInv: a new configuration of the manager is not yet one that
\* runs.
LEMMA SetConfigKeeps == ASSUME SetupInv, SetConfig PROVE SetupInv'
<1>1. TypeOK'
  BY NoSetupIsNone DEF SetupInv, TypeOK, Call, CallFits, SetConfig, children, disk, Idle,
     Child, NoProcess, Programs
<1>2. CallFits' /\ PidKnown' /\ FileKept' /\ Settled' /\ CoreFits' /\ XrayFits'
  BY NoSetupIsNone DEF SetupInv, TypeOK, Call, CallFits, SetConfig, At, Target, Given, Needs,
     children, disk, Idle, StepsOf, PidKnown, NoProcess, FileKept, Settled, CoreFits,
     XrayFits, Child, Programs, SingBox, Xray
<1> QED BY <1>1, <1>2 DEF SetupInv

\* SetState keeps SetupInv: the health monitor and the rescue touch neither
\* children nor memory.
LEMMA SetStateKeeps == ASSUME SetupInv, SetState PROVE SetupInv'
<1>1. TypeOK'
  BY NoSetupIsNone DEF SetupInv, TypeOK, Call, CallFits, SetState, children, memory, disk,
     Idle, Child, NoProcess, Programs
<1>2. CallFits' /\ PidKnown' /\ FileKept' /\ Settled' /\ CoreFits' /\ XrayFits'
  BY NoSetupIsNone DEF SetupInv, TypeOK, Call, CallFits, SetState, At, Target, Given, Needs,
     children, memory, disk, Idle, StepsOf, PidKnown, NoProcess, FileKept, Settled,
     CoreFits, XrayFits, Child, Programs, SingBox, Xray
<1> QED BY <1>1, <1>2 DEF SetupInv

\* ResetState keeps SetupInv: after a reset nothing is tracked, and nothing
\* remembered.
LEMMA ResetStateKeeps == ASSUME SetupInv, ResetState PROVE SetupInv'
<1>1. TypeOK'
  BY NoSetupIsNone DEF SetupInv, TypeOK, Call, CallFits, ResetState, Idle, Child, NoProcess,
     Programs
<1>2. CallFits' /\ PidKnown' /\ FileKept' /\ Settled' /\ CoreFits' /\ XrayFits'
  BY NoSetupIsNone DEF SetupInv, TypeOK, Call, CallFits, ResetState, At, Target, Given, Needs,
     Idle, StepsOf, PidKnown, NoProcess, FileKept, Settled, CoreFits, XrayFits, Child,
     Programs, SingBox, Xray
<1> QED BY <1>1, <1>2 DEF SetupInv

-----------------------------------------------------------------------------
(* Start                                                                   *)

\* Refuse keeps SetupInv: a refused start touches nothing.
LEMMA RefuseKeeps == ASSUME SetupInv, Refuse PROVE SetupInv'
<1>1. TypeOK'
  BY NoSetupIsNone DEF SetupInv, TypeOK, Call, CallFits, Refuse, End, children, memory,
     disk, NoCall, Child, NoProcess, Programs
<1>2. CallFits' /\ PidKnown' /\ FileKept' /\ Settled' /\ CoreFits' /\ XrayFits'
  BY NoSetupIsNone DEF SetupInv, TypeOK, Call, CallFits, Refuse, End, At, Target, Given, Needs,
     children, memory, disk, NoCall, StepsOf, PidKnown, NoProcess, FileKept, Settled,
     CoreFits, XrayFits, Child, Programs, SingBox, Xray
<1> QED BY <1>1, <1>2 DEF SetupInv

\* RenderForStart keeps SetupInv: a start writes its files while nothing runs.
LEMMA RenderForStartKeeps == ASSUME SetupInv, RenderForStart PROVE SetupInv'
<1>1. TypeOK'
  BY NoSetupIsNone DEF SetupInv, TypeOK, Call, CallFits, RenderForStart, Goto, At, Target, Given,
     Needs, XrayFile, children, memory, Child, NoProcess, Programs
<1>2. CallFits' /\ PidKnown' /\ FileKept' /\ Settled' /\ CoreFits' /\ XrayFits'
  BY NoSetupIsNone DEF SetupInv, TypeOK, Call, CallFits, RenderForStart, Goto, At, Target, Given,
     Needs, XrayFile, children, memory, StepsOf, PidKnown, NoProcess, FileKept, Settled,
     CoreFits, XrayFits, Child, Programs, SingBox, Xray
<1> QED BY <1>1, <1>2 DEF SetupInv

\* RenderForStartFails keeps SetupInv: files that could not be written are of no
\* runtime.
LEMMA RenderForStartFailsKeeps == ASSUME SetupInv, RenderForStartFails PROVE SetupInv'
<1>1. TypeOK'
  BY NoSetupIsNone DEF SetupInv, TypeOK, Call, CallFits, RenderForStartFails, End, At,
     Target, Given, Needs, XrayFile, children, memory, NoCall, Child, NoProcess, Programs
<1>2. CallFits' /\ PidKnown' /\ FileKept' /\ Settled' /\ CoreFits' /\ XrayFits'
  BY NoSetupIsNone DEF SetupInv, TypeOK, Call, CallFits, RenderForStartFails, End, At,
     Target, Given, Needs, XrayFile, children, memory, NoCall, StepsOf, PidKnown, NoProcess,
     FileKept, Settled, CoreFits, XrayFits, Child, Programs, SingBox, Xray
<1> QED BY <1>1, <1>2 DEF SetupInv

\* OwnersDiffer keeps SetupInv: a start that is about to be rolled back has its
\* children still.
LEMMA OwnersDifferKeeps == ASSUME SetupInv, OwnersDiffer PROVE SetupInv'
<1>1. TypeOK'
  BY NoSetupIsNone DEF SetupInv, TypeOK, Call, CallFits, OwnersDiffer, Goto, At, children,
     memory, disk, Child, NoProcess, Programs
<1>2. CallFits' /\ PidKnown' /\ FileKept' /\ Settled' /\ CoreFits' /\ XrayFits'
  BY NoSetupIsNone DEF SetupInv, TypeOK, Call, CallFits, OwnersDiffer, Goto, At, Target, Given,
     Needs, children, memory, disk, StepsOf, PidKnown, NoProcess, FileKept, Settled,
     CoreFits, XrayFits, Child, Programs, SingBox, Xray
<1> QED BY <1>1, <1>2 DEF SetupInv

\* ApplyRules keeps SetupInv: rules that are applied concern neither children nor
\* memory.
LEMMA ApplyRulesKeeps == ASSUME SetupInv, ApplyRules PROVE SetupInv'
<1>1. PICK r \in Applies(rules) :
        /\ rules' = r.rules
        /\ call' = [call EXCEPT !.dirty = @ \/ r.dirty]
  BY DEF ApplyRules, Net
<1>2. rules' \in [Parts -> BOOLEAN] /\ call'.dirty \in BOOLEAN
  BY <1>1, ApplyFacts DEF SetupInv, TypeOK, Call
<1>3. TypeOK'
  BY <1>1, <1>2, NoSetupIsNone DEF SetupInv, TypeOK, Call, CallFits, FileKept, Settled,
     CoreFits, XrayFits, ApplyRules, At, Target, Given, Needs, children, memory, SingBox, Xray,
     StepsOf, NoProcess, Net
<1>4. CallFits' /\ PidKnown' /\ FileKept' /\ Settled' /\ CoreFits' /\ XrayFits'
  BY <1>1, <1>2, NoSetupIsNone DEF SetupInv, TypeOK, Call, CallFits, FileKept, Settled,
     CoreFits, XrayFits, ApplyRules, At, Target, Given, Needs, children, memory, SingBox, Xray,
     StepsOf, NoProcess, Net, PidKnown, Programs
<1> QED BY <1>3, <1>4 DEF SetupInv

\* VerifyRules keeps SetupInv: verifying rules concerns neither children nor
\* memory.
LEMMA VerifyRulesKeeps == ASSUME SetupInv, VerifyRules PROVE SetupInv'
<1>1. PICK r \in Verifies(rules) :
        /\ rules' = r.rules
        /\ call' = [call EXCEPT !.dirty = @ \/ r.dirty]
  BY DEF VerifyRules, Net
<1>2. rules' \in [Parts -> BOOLEAN] /\ call'.dirty \in BOOLEAN
  BY <1>1, VerifyFacts DEF SetupInv, TypeOK, Call
<1>3. TypeOK'
  BY <1>1, <1>2, NoSetupIsNone DEF SetupInv, TypeOK, Call, CallFits, FileKept, Settled,
     CoreFits, XrayFits, VerifyRules, At, Target, Given, Needs, children, memory, SingBox, Xray,
     StepsOf, NoProcess, Net
<1>4. CallFits' /\ PidKnown' /\ FileKept' /\ Settled' /\ CoreFits' /\ XrayFits'
  BY <1>1, <1>2, NoSetupIsNone DEF SetupInv, TypeOK, Call, CallFits, FileKept, Settled,
     CoreFits, XrayFits, VerifyRules, At, Target, Given, Needs, children, memory, SingBox, Xray,
     StepsOf, NoProcess, Net, PidKnown, Programs
<1> QED BY <1>3, <1>4 DEF SetupInv

\* CleanAfterStart keeps SetupInv: removing rules concerns neither children nor
\* memory.
LEMMA CleanAfterStartKeeps == ASSUME SetupInv, CleanAfterStart PROVE SetupInv'
<1>1. PICK r \in CleanUps(rules) :
        /\ rules' = r.rules
        /\ call' = [call EXCEPT !.dirty = @ \/ r.dirty]
  BY DEF CleanAfterStart, Net
<1>2. rules' \in [Parts -> BOOLEAN] /\ call'.dirty \in BOOLEAN
  BY <1>1, CleanUpFacts DEF SetupInv, TypeOK, Call
<1>3. TypeOK'
  BY <1>1, <1>2, NoSetupIsNone DEF SetupInv, TypeOK, Call, CallFits, FileKept, Settled,
     CoreFits, XrayFits, CleanAfterStart, At, Target, Given, Needs, children, memory, SingBox,
     Xray, StepsOf, NoProcess, Net
<1>4. CallFits' /\ PidKnown' /\ FileKept' /\ Settled' /\ CoreFits' /\ XrayFits'
  BY <1>1, <1>2, NoSetupIsNone DEF SetupInv, TypeOK, Call, CallFits, FileKept, Settled,
     CoreFits, XrayFits, CleanAfterStart, At, Target, Given, Needs, children, memory, SingBox,
     Xray, StepsOf, NoProcess, Net, PidKnown, Programs
<1> QED BY <1>3, <1>4 DEF SetupInv

\* Rollback keeps SetupInv: a roll-back leaves no sing-box, and remembers none.
LEMMA RollbackKeeps == ASSUME SetupInv, Rollback PROVE SetupInv'
<1>1. /\ proc' \in [Programs -> Child] /\ stray' \in [Programs -> BOOLEAN]
      /\ pid' \in [Programs -> {"none", "tracked", "stray"}]
      /\ SingBox' = NoProcess /\ Xray' = Xray /\ pid'["xray"] = pid["xray"]
      /\ stray'["xray"] = stray["xray"]
  BY DroppedCoreFacts DEF Rollback, SetupInv
<1>2. TypeOK'
  BY <1>1, NoSetupIsNone DEF SetupInv, TypeOK, Call, CallFits, FileKept, Settled, CoreFits,
     XrayFits, Rollback, Goto, At, Target, Given, Needs, disk, SingBox, Xray, StepsOf, NoProcess
<1>3. CallFits' /\ PidKnown' /\ FileKept' /\ Settled' /\ CoreFits' /\ XrayFits'
  BY <1>1, NoSetupIsNone DEF SetupInv, TypeOK, Call, CallFits, FileKept, Settled, CoreFits,
     XrayFits, Rollback, Goto, At, Target, Given, Needs, disk, SingBox, Xray, StepsOf, NoProcess,
     PidKnown, Programs
<1> QED BY <1>2, <1>3 DEF SetupInv

\* Unwind keeps SetupInv: a start that fails leaves no sidecar either.
LEMMA UnwindKeeps == ASSUME SetupInv, Unwind PROVE SetupInv'
<1>1. PICK ok \in BOOLEAN : Killed("xray", ok)
  BY DEF Unwind, DroppedXray
<1>2. /\ proc' \in [Programs -> Child] /\ stray' \in [Programs -> BOOLEAN]
      /\ pid' \in [Programs -> {"none", "tracked", "stray"}]
      /\ proc'["xray"] = NoProcess /\ proc'["sing-box"] = proc["sing-box"]
      /\ pid'["sing-box"] = pid["sing-box"] /\ stray'["sing-box"] = stray["sing-box"]
  BY <1>1, KilledFacts DEF SetupInv, Programs
<1>3. TypeOK'
  BY <1>2, NoSetupIsNone DEF SetupInv, TypeOK, Call, CallFits, FileKept, Settled, CoreFits,
     XrayFits, Unwind, End, At, Target, Given, Needs, memory, disk, NoCall, SingBox, Xray, StepsOf,
     NoProcess
<1>4. CallFits' /\ PidKnown' /\ FileKept' /\ Settled' /\ CoreFits' /\ XrayFits'
  BY <1>2, NoSetupIsNone DEF SetupInv, TypeOK, Call, CallFits, FileKept, Settled, CoreFits,
     XrayFits, Unwind, End, At, Target, Given, Needs, memory, disk, NoCall, SingBox, Xray, StepsOf,
     NoProcess, PidKnown, Programs
<1> QED BY <1>3, <1>4 DEF SetupInv

\* CommitStart keeps SetupInv: what is remembered is what was started, and it is in
\* singbox.json.
LEMMA CommitStartKeeps == ASSUME SetupInv, CommitStart PROVE SetupInv'
<1>1. TypeOK'
  BY NoSetupIsNone DEF SetupInv, TypeOK, Call, CallFits, CommitStart, End, At, Target, Given,
     children, NoCall, Child, NoProcess, Programs
<1>2. CallFits' /\ PidKnown' /\ FileKept' /\ Settled' /\ CoreFits' /\ XrayFits'
  BY NoSetupIsNone DEF SetupInv, TypeOK, Call, CallFits, CommitStart, End, At, Target, Given,
     Needs, children, NoCall, StepsOf, PidKnown, NoProcess, FileKept, Settled, CoreFits,
     XrayFits, Child, Programs, SingBox, Xray
<1> QED BY <1>1, <1>2 DEF SetupInv

-----------------------------------------------------------------------------
(* Steps that Start and HotSwap share                                      *)

\* SpawnXray keeps SetupInv: a sidecar that is spawned is the one the setup needs.
LEMMA SpawnXrayKeeps == ASSUME SetupInv, SpawnXray PROVE SetupInv'
<1>1. Target \in Setups /\ Given("xray") = Target
  BY DEF SetupInv, CallFits, TypeOK, Call, SpawnXray, Target, Given, StepsOf
<1>2. /\ proc' \in [Programs -> Child] /\ pid' \in [Programs -> {"none", "tracked", "stray"}]
      /\ proc'["xray"].life = "alive" /\ proc'["xray"].setup = Target /\ proc'["xray"] # NoProcess
      /\ pid'["xray"] = "tracked" /\ stray' = stray
      /\ proc'["sing-box"] = proc["sing-box"]
      /\ pid'["sing-box"] = pid["sing-box"]
  BY <1>1, SpawnedFacts DEF SpawnXray, Programs, SetupInv
<1>3. TypeOK'
  BY <1>1, <1>2, NoSetupIsNone DEF SetupInv, TypeOK, Call, CallFits, FileKept, Settled,
     CoreFits, XrayFits, SpawnXray, Goto, At, Target, Given, Needs, memory, disk, SingBox, Xray,
     StepsOf, NoProcess
<1>4. CallFits' /\ PidKnown' /\ FileKept' /\ Settled' /\ CoreFits' /\ XrayFits'
  BY <1>1, <1>2, NoSetupIsNone DEF SetupInv, TypeOK, Call, CallFits, FileKept, Settled,
     CoreFits, XrayFits, SpawnXray, Goto, At, Target, Given, Needs, memory, disk, SingBox, Xray,
     StepsOf, NoProcess, PidKnown, Programs
<1> QED BY <1>3, <1>4 DEF SetupInv

\* SpawnXrayFails keeps SetupInv: without a sidecar, a start ends with nothing and
\* a swap goes back.
LEMMA SpawnXrayFailsKeeps == ASSUME SetupInv, SpawnXrayFails PROVE SetupInv'
<1>1. UNCHANGED <<children, memory, disk, blurred>> /\ state' \in {"stopped", state}
      /\ call' \in {call, NoCall}
  BY DEF SpawnXrayFails, Goto, End
<1>2. TypeOK'
  BY <1>1, NoCallType DEF SetupInv, TypeOK, children, memory, disk
<1>3. CallFits' /\ PidKnown' /\ FileKept' /\ Settled' /\ CoreFits' /\ XrayFits'
  BY NoSetupIsNone DEF SetupInv, TypeOK, Call, CallFits, SpawnXrayFails, Goto, End, At,
     Target, Given, Undo, Needs, children, memory, disk, NoCall, StepsOf, PidKnown, NoProcess,
     FileKept, Settled, CoreFits, XrayFits, Child, Programs, SingBox, Xray
<1> QED BY <1>2, <1>3 DEF SetupInv

\* WaitXray keeps SetupInv: the wait for the sidecar only asks.
LEMMA WaitXrayKeeps == ASSUME SetupInv, WaitXray PROVE SetupInv'
<1>1. UNCHANGED <<state, children, memory, disk, blurred, call>>
  BY DEF WaitXray, Listening, Goto, children
<1>2. TypeOK'
  BY <1>1 DEF SetupInv, TypeOK, children, memory, disk
<1>3. CallFits' /\ PidKnown' /\ FileKept' /\ Settled' /\ CoreFits' /\ XrayFits'
  BY <1>1, NoSetupIsNone DEF SetupInv, TypeOK, Call, CallFits, WaitXray, Goto, At,
     Target, Given, Undo, Needs, children, memory, disk, StepsOf, PidKnown, NoProcess,
     FileKept, Settled, CoreFits, XrayFits, Child, Programs, SingBox, Xray
<1> QED BY <1>2, <1>3 DEF SetupInv

\* SpawnCore keeps SetupInv: a sing-box that is spawned has the sidecar of its
\* setup.
LEMMA SpawnCoreKeeps == ASSUME SetupInv, SpawnCore PROVE SetupInv'
<1>1. Given("sing-box") \in Setups \cup {NoSetup}
  BY DEF SetupInv, CallFits, TypeOK, Call, SpawnCore, Target, Given, StepsOf, Programs
<1>2. /\ proc' \in [Programs -> Child] /\ pid' \in [Programs -> {"none", "tracked", "stray"}]
      /\ proc'["sing-box"].life = "alive" /\ proc'["sing-box"].setup = Given("sing-box")
      /\ proc'["sing-box"] # NoProcess
      /\ pid'["sing-box"] = "tracked" /\ stray' = stray
      /\ proc'["xray"] = proc["xray"]
      /\ pid'["xray"] = pid["xray"]
  BY <1>1, SpawnedFacts DEF SpawnCore, Programs, SetupInv
<1>3. TypeOK'
  BY <1>1, <1>2, NoSetupIsNone DEF SetupInv, TypeOK, Call, CallFits, FileKept, Settled,
     CoreFits, XrayFits, SpawnCore, Goto, At, Target, Given, Needs, memory, disk, SingBox, Xray,
     StepsOf, NoProcess
<1>4. CallFits' /\ PidKnown' /\ FileKept' /\ Settled' /\ CoreFits' /\ XrayFits'
  BY <1>1, <1>2, NoSetupIsNone DEF SetupInv, TypeOK, Call, CallFits, FileKept, Settled,
     CoreFits, XrayFits, SpawnCore, Goto, At, Target, Given, Needs, memory, disk, SingBox, Xray,
     StepsOf, NoProcess, PidKnown, Programs
<1> QED BY <1>3, <1>4 DEF SetupInv

\* SpawnCoreFails keeps SetupInv: without a sing-box, a start is unwound and a swap
\* goes back.
LEMMA SpawnCoreFailsKeeps == ASSUME SetupInv, SpawnCoreFails PROVE SetupInv'
<1>1. TypeOK'
  BY NoSetupIsNone DEF SetupInv, TypeOK, Call, CallFits, SpawnCoreFails, Goto, Undo,
     children, memory, disk, Child, NoProcess, Programs
<1>2. CallFits' /\ PidKnown' /\ FileKept' /\ Settled' /\ CoreFits' /\ XrayFits'
  BY NoSetupIsNone DEF SetupInv, TypeOK, Call, CallFits, SpawnCoreFails, Goto, At, Target, Given,
     Undo, Needs, children, memory, disk, StepsOf, PidKnown, NoProcess, FileKept, Settled,
     CoreFits, XrayFits, Child, Programs, SingBox, Xray
<1> QED BY <1>1, <1>2 DEF SetupInv

\* WaitListeners keeps SetupInv: the wait for sing-box only asks.
LEMMA WaitListenersKeeps == ASSUME SetupInv, WaitListeners PROVE SetupInv'
<1>1. UNCHANGED <<state, children, memory, disk, blurred, call>>
  BY DEF WaitListeners, Listening, Goto, children
<1>2. TypeOK'
  BY <1>1 DEF SetupInv, TypeOK, children, memory, disk
<1>3. CallFits' /\ PidKnown' /\ FileKept' /\ Settled' /\ CoreFits' /\ XrayFits'
  BY <1>1, NoSetupIsNone DEF SetupInv, TypeOK, Call, CallFits, WaitListeners, Goto, At,
     Target, Given, Undo, Needs, children, memory, disk, StepsOf, PidKnown, NoProcess,
     FileKept, Settled, CoreFits, XrayFits, Child, Programs, SingBox, Xray
<1> QED BY <1>2, <1>3 DEF SetupInv

-----------------------------------------------------------------------------
(* Stop                                                                    *)

\* CleanForStop keeps SetupInv: a stop that has removed the rules still tracks the
\* children.
LEMMA CleanForStopKeeps == ASSUME SetupInv, CleanForStop PROVE SetupInv'
<1>1. PICK r \in CleanUps(rules) :
        /\ rules' = r.rules
        /\ call' = [call EXCEPT !.dirty = @ \/ r.dirty]
  BY DEF CleanForStop, Net
<1>2. rules' \in [Parts -> BOOLEAN] /\ call'.dirty \in BOOLEAN
  BY <1>1, CleanUpFacts DEF SetupInv, TypeOK, Call
<1>3. TypeOK'
  BY <1>1, <1>2, NoSetupIsNone DEF SetupInv, TypeOK, Call, CallFits, FileKept, Settled,
     CoreFits, XrayFits, CleanForStop, At, Target, Given, Needs, children, memory, SingBox, Xray,
     StepsOf, NoProcess, Net
<1>4. CallFits' /\ PidKnown' /\ FileKept' /\ Settled' /\ CoreFits' /\ XrayFits'
  BY <1>1, <1>2, NoSetupIsNone DEF SetupInv, TypeOK, Call, CallFits, FileKept, Settled,
     CoreFits, XrayFits, CleanForStop, At, Target, Given, Needs, children, memory, SingBox, Xray,
     StepsOf, NoProcess, Net, PidKnown, Programs
<1> QED BY <1>3, <1>4 DEF SetupInv

\* KillCore keeps SetupInv: a stop forgets sing-box whether it died or not.
LEMMA KillCoreKeeps == ASSUME SetupInv, KillCore PROVE SetupInv'
<1>1. PICK ok \in BOOLEAN : Killed("sing-box", ok)
  BY DEF KillCore, KillStep
<1>2. /\ proc' \in [Programs -> Child] /\ stray' \in [Programs -> BOOLEAN]
      /\ pid' \in [Programs -> {"none", "tracked", "stray"}]
      /\ proc'["sing-box"] = NoProcess /\ proc'["xray"] = proc["xray"]
      /\ pid'["xray"] = pid["xray"] /\ stray'["xray"] = stray["xray"]
  BY <1>1, KilledFacts DEF SetupInv, Programs
<1>3. TypeOK'
  BY <1>2, NoSetupIsNone DEF SetupInv, TypeOK, Call, CallFits, FileKept, Settled, CoreFits,
     XrayFits, KillCore, At, Target, Given, Needs, memory, disk, SingBox, Xray, StepsOf, NoProcess,
     KillStep
<1>4. CallFits' /\ PidKnown' /\ FileKept' /\ Settled' /\ CoreFits' /\ XrayFits'
  BY <1>2, NoSetupIsNone DEF SetupInv, TypeOK, Call, CallFits, FileKept, Settled, CoreFits,
     XrayFits, KillCore, At, Target, Given, Needs, memory, disk, SingBox, Xray, StepsOf, NoProcess,
     KillStep, PidKnown, Programs
<1> QED BY <1>3, <1>4 DEF SetupInv

\* KillXray keeps SetupInv: a stop forgets the sidecar whether it died or not.
LEMMA KillXrayKeeps == ASSUME SetupInv, KillXray PROVE SetupInv'
<1>1. PICK ok \in BOOLEAN : Killed("xray", ok)
  BY DEF KillXray, KillStep
<1>2. /\ proc' \in [Programs -> Child] /\ stray' \in [Programs -> BOOLEAN]
      /\ pid' \in [Programs -> {"none", "tracked", "stray"}]
      /\ proc'["xray"] = NoProcess /\ proc'["sing-box"] = proc["sing-box"]
      /\ pid'["sing-box"] = pid["sing-box"] /\ stray'["sing-box"] = stray["sing-box"]
  BY <1>1, KilledFacts DEF SetupInv, Programs
<1>3. TypeOK'
  BY <1>2, NoSetupIsNone DEF SetupInv, TypeOK, Call, CallFits, FileKept, Settled, CoreFits,
     XrayFits, KillXray, At, Target, Given, Needs, memory, disk, SingBox, Xray, StepsOf, NoProcess,
     KillStep
<1>4. CallFits' /\ PidKnown' /\ FileKept' /\ Settled' /\ CoreFits' /\ XrayFits'
  BY <1>2, NoSetupIsNone DEF SetupInv, TypeOK, Call, CallFits, FileKept, Settled, CoreFits,
     XrayFits, KillXray, At, Target, Given, Needs, memory, disk, SingBox, Xray, StepsOf, NoProcess,
     KillStep, PidKnown, Programs
<1> QED BY <1>3, <1>4 DEF SetupInv

\* Forget keeps SetupInv: what a stop has killed is not remembered.
LEMMA ForgetKeeps == ASSUME SetupInv, Forget PROVE SetupInv'
<1>1. TypeOK'
  BY NoSetupIsNone DEF SetupInv, TypeOK, Call, CallFits, Forget, End, children, disk,
     NoCall, Child, NoProcess, Programs
<1>2. CallFits' /\ PidKnown' /\ FileKept' /\ Settled' /\ CoreFits' /\ XrayFits'
  BY NoSetupIsNone DEF SetupInv, TypeOK, Call, CallFits, Forget, End, At, Target, Given, Needs,
     children, disk, NoCall, StepsOf, PidKnown, NoProcess, FileKept, Settled, CoreFits,
     XrayFits, Child, Programs, SingBox, Xray
<1> QED BY <1>1, <1>2 DEF SetupInv

-----------------------------------------------------------------------------
(* HotSwap                                                                 *)

\* RenderForSwap keeps SetupInv: a swap leaves singbox.json to the runtime it may
\* go back to.
LEMMA RenderForSwapKeeps == ASSUME SetupInv, RenderForSwap PROVE SetupInv'
<1>1. /\ rendered' \in [Programs -> Setups \cup {NoSetup}]
      /\ rendered'["sing-box"] = rendered["sing-box"]
  <2>1. Target \in Setups \cup {NoSetup}
    BY DEF SetupInv, TypeOK, Call, Target
  <2>2. /\ XrayFile \in [Programs -> Setups \cup {NoSetup}]
        /\ XrayFile["sing-box"] = rendered["sing-box"]
    BY <2>1 DEF SetupInv, TypeOK, XrayFile, Programs
  <2> QED BY <2>2 DEF RenderForSwap, SetupInv, TypeOK
<1>2. UNCHANGED <<state, children, memory, rules, files, blurred>> /\ call' \in {call, NoCall}
  BY DEF RenderForSwap, Goto, End
<1>3. TypeOK'
  BY <1>1, <1>2, NoCallType DEF SetupInv, TypeOK, children, memory
<1>4. CallFits' /\ PidKnown' /\ FileKept' /\ Settled' /\ CoreFits' /\ XrayFits'
  BY NoSetupIsNone DEF SetupInv, TypeOK, Call, CallFits, RenderForSwap, Goto, End, At,
     Target, Given, Needs, XrayFile, children, memory, NoCall, StepsOf, PidKnown, NoProcess,
     FileKept, Settled, CoreFits, XrayFits, Child, Programs, SingBox, Xray
<1> QED BY <1>3, <1>4 DEF SetupInv

\* KillOld keeps SetupInv: an old sing-box that does not die stays tracked.
LEMMA KillOldKeeps == ASSUME SetupInv, KillOld PROVE SetupInv'
<1>1. UNCHANGED <<memory, disk, blurred, stray, pid>> /\ state' \in {"starting", state}
      /\ call' \in {call, NoCall} /\ proc' \in {proc, [proc EXCEPT !["sing-box"] = NoProcess]}
  BY DEF KillOld, Goto, End, children
<1>2. TypeOK'
  BY <1>1, NoCallType DEF SetupInv, TypeOK, memory, disk, Child
<1>3. CallFits' /\ PidKnown' /\ FileKept' /\ Settled' /\ CoreFits' /\ XrayFits'
  BY NoSetupIsNone DEF SetupInv, TypeOK, Call, CallFits, KillOld, Goto, End, At, Target, Given,
     Needs, children, memory, disk, NoCall, StepsOf, PidKnown, NoProcess, FileKept, Settled,
     CoreFits, XrayFits, Child, Programs, SingBox, Xray
<1> QED BY <1>2, <1>3 DEF SetupInv

\* StopOldXray keeps SetupInv: a swap leaves no sidecar of the old setup.
LEMMA StopOldXrayKeeps == ASSUME SetupInv, StopOldXray PROVE SetupInv'
<1>1. PICK ok \in BOOLEAN : Killed("xray", ok)
  BY DEF StopOldXray
<1>2. /\ proc' \in [Programs -> Child] /\ stray' \in [Programs -> BOOLEAN]
      /\ pid' \in [Programs -> {"none", "tracked", "stray"}]
      /\ proc'["xray"] = NoProcess /\ proc'["sing-box"] = proc["sing-box"]
      /\ pid'["sing-box"] = pid["sing-box"] /\ stray'["sing-box"] = stray["sing-box"]
  BY <1>1, KilledFacts DEF SetupInv, Programs
<1>3. TypeOK'
  BY <1>2, NoSetupIsNone DEF SetupInv, TypeOK, Call, CallFits, FileKept, Settled, CoreFits,
     XrayFits, StopOldXray, Goto, At, Target, Given, Undo, Needs, memory, disk, SingBox, Xray,
     StepsOf, NoProcess
<1>4. CallFits' /\ PidKnown' /\ FileKept' /\ Settled' /\ CoreFits' /\ XrayFits'
  BY <1>2, NoSetupIsNone DEF SetupInv, TypeOK, Call, CallFits, FileKept, Settled, CoreFits,
     XrayFits, StopOldXray, Goto, At, Target, Given, Undo, Needs, memory, disk, SingBox, Xray,
     StepsOf, NoProcess, PidKnown, Programs
<1> QED BY <1>3, <1>4 DEF SetupInv

\* CommitSwap keeps SetupInv: singbox.json and the memory change together.
LEMMA CommitSwapKeeps == ASSUME SetupInv, CommitSwap PROVE SetupInv'
<1>1. TypeOK'
  BY NoSetupIsNone DEF SetupInv, TypeOK, Call, CallFits, CommitSwap, End, At, Target, Given,
     children, NoCall, Child, NoProcess, Programs
<1>2. CallFits' /\ PidKnown' /\ FileKept' /\ Settled' /\ CoreFits' /\ XrayFits'
  BY NoSetupIsNone DEF SetupInv, TypeOK, Call, CallFits, CommitSwap, End, At, Target, Given, Needs,
     children, NoCall, StepsOf, PidKnown, NoProcess, FileKept, Settled, CoreFits, XrayFits,
     Child, Programs, SingBox, Xray
<1> QED BY <1>1, <1>2 DEF SetupInv

\* CommitSwapFails keeps SetupInv: a new configuration that is not in place leaves
\* the way back open.
LEMMA CommitSwapFailsKeeps == ASSUME SetupInv, CommitSwapFails PROVE SetupInv'
<1>1. TypeOK'
  BY NoSetupIsNone DEF SetupInv, TypeOK, Call, CallFits, CommitSwapFails, Goto, At, Undo,
     children, memory, disk, Child, NoProcess, Programs
<1>2. CallFits' /\ PidKnown' /\ FileKept' /\ Settled' /\ CoreFits' /\ XrayFits'
  BY NoSetupIsNone DEF SetupInv, TypeOK, Call, CallFits, CommitSwapFails, Goto, At, Target, Given,
     Undo, Needs, children, memory, disk, StepsOf, PidKnown, NoProcess, FileKept, Settled,
     CoreFits, XrayFits, Child, Programs, SingBox, Xray
<1> QED BY <1>1, <1>2 DEF SetupInv

\* Restore keeps SetupInv: the new sing-box goes before the old one comes back.
LEMMA RestoreKeeps == ASSUME SetupInv, Restore PROVE SetupInv'
<1>1. /\ proc' \in [Programs -> Child] /\ stray' \in [Programs -> BOOLEAN]
      /\ pid' \in [Programs -> {"none", "tracked", "stray"}]
      /\ SingBox' = NoProcess /\ Xray' = Xray /\ pid'["xray"] = pid["xray"]
      /\ stray'["xray"] = stray["xray"]
  BY DroppedCoreFacts DEF Restore, SetupInv
<1>2. TypeOK'
  BY <1>1, NoSetupIsNone DEF SetupInv, TypeOK, Call, CallFits, FileKept, Settled, CoreFits,
     XrayFits, Restore, At, Target, Given, Needs, memory, disk, SingBox, Xray, StepsOf, NoProcess
<1>3. CallFits' /\ PidKnown' /\ FileKept' /\ Settled' /\ CoreFits' /\ XrayFits'
  BY <1>1, NoSetupIsNone DEF SetupInv, TypeOK, Call, CallFits, FileKept, Settled, CoreFits,
     XrayFits, Restore, At, Target, Given, Needs, memory, disk, SingBox, Xray, StepsOf, NoProcess,
     PidKnown, Programs
<1> QED BY <1>2, <1>3 DEF SetupInv

\* RestoreXray keeps SetupInv: the sidecar goes too; the old configuration is taken
\* back, and singbox.json was never changed.
LEMMA RestoreXrayKeeps == ASSUME SetupInv, RestoreXray PROVE SetupInv'
<1>1. PICK ok \in BOOLEAN : Killed("xray", ok)
  BY DEF RestoreXray, DroppedXray
<1>2. /\ proc' \in [Programs -> Child] /\ stray' \in [Programs -> BOOLEAN]
      /\ pid' \in [Programs -> {"none", "tracked", "stray"}]
      /\ proc'["xray"] = NoProcess /\ proc'["sing-box"] = proc["sing-box"]
      /\ pid'["sing-box"] = pid["sing-box"] /\ stray'["sing-box"] = stray["sing-box"]
  BY <1>1, KilledFacts DEF SetupInv, Programs
<1>3. Target = running /\ running \in Setups /\ call' = call
  BY DEF SetupInv, TypeOK, CallFits, RestoreXray, Target, Goto
<1>4. /\ rendered' \in [Programs -> Setups \cup {NoSetup}]
      /\ rendered'["sing-box"] = rendered["sing-box"]
  <2>1. Target \in Setups \cup {NoSetup}
    BY DEF SetupInv, TypeOK, Call, Target
  <2>2. /\ XrayFile \in [Programs -> Setups \cup {NoSetup}]
        /\ XrayFile["sing-box"] = rendered["sing-box"]
    BY <2>1 DEF SetupInv, TypeOK, XrayFile, Programs
  <2> QED BY <2>2 DEF RestoreXray, SetupInv, TypeOK
<1>5. TypeOK'
  <2>1. config' \in Configs
    BY <1>3 DEF RestoreXray, Setups
  <2> QED BY <1>2, <1>3, <1>4, <2>1 DEF RestoreXray, SetupInv, TypeOK
<1>6. CallFits' /\ PidKnown' /\ FileKept' /\ Settled' /\ CoreFits' /\ XrayFits'
  BY <1>2, NoSetupIsNone, <1>3, <1>4 DEF SetupInv, TypeOK, Call, CallFits, FileKept,
     Settled, CoreFits, XrayFits, RestoreXray, Goto, At, Target, Given, Needs, XrayFile, SingBox,
     Xray, StepsOf, NoProcess, PidKnown, Programs
<1> QED BY <1>5, <1>6 DEF SetupInv

\* CommitRestore keeps SetupInv: a runtime that was taken back is the one that is
\* remembered.
LEMMA CommitRestoreKeeps == ASSUME SetupInv, CommitRestore PROVE SetupInv'
<1>1. TypeOK'
  BY NoSetupIsNone DEF SetupInv, TypeOK, Call, CallFits, CommitRestore, End, At, children,
     memory, NoCall, Child, NoProcess, Programs
<1>2. CallFits' /\ PidKnown' /\ FileKept' /\ Settled' /\ CoreFits' /\ XrayFits'
  BY NoSetupIsNone DEF SetupInv, TypeOK, Call, CallFits, CommitRestore, End, At, Target, Given,
     Needs, children, memory, NoCall, StepsOf, PidKnown, NoProcess, FileKept, Settled,
     CoreFits, XrayFits, Child, Programs, SingBox, Xray
<1> QED BY <1>1, <1>2 DEF SetupInv

\* Degrade keeps SetupInv: a swap that has lost the runtime remembers none.
LEMMA DegradeKeeps == ASSUME SetupInv, Degrade PROVE SetupInv'
<1>1. /\ proc' \in [Programs -> Child] /\ stray' \in [Programs -> BOOLEAN]
      /\ pid' \in [Programs -> {"none", "tracked", "stray"}]
      /\ SingBox' = NoProcess /\ Xray' = Xray /\ pid'["xray"] = pid["xray"]
      /\ stray'["xray"] = stray["xray"]
  BY DroppedCoreFacts DEF Degrade, SetupInv
<1>2. rules' \in [Parts -> BOOLEAN] /\ \E d \in BOOLEAN : call' = [call EXCEPT !.dirty = @ \/ d]
  BY CleanUpFacts DEF SetupInv, TypeOK, Call, Degrade
<1>3. TypeOK'
  BY <1>1, <1>2, NoSetupIsNone DEF SetupInv, TypeOK, Call, CallFits, FileKept, Settled,
     CoreFits, XrayFits, Degrade, At, Target, Given, Needs, SingBox, Xray, StepsOf, NoProcess
<1>4. CallFits' /\ PidKnown' /\ FileKept' /\ Settled' /\ CoreFits' /\ XrayFits'
  BY <1>1, <1>2, NoSetupIsNone DEF SetupInv, TypeOK, Call, CallFits, FileKept, Settled,
     CoreFits, XrayFits, Degrade, At, Target, Given, Needs, SingBox, Xray, StepsOf, NoProcess,
     PidKnown, Programs
<1> QED BY <1>3, <1>4 DEF SetupInv

\* Unmark keeps SetupInv: a swap that has lost the runtime leaves no sidecar.
LEMMA UnmarkKeeps == ASSUME SetupInv, Unmark PROVE SetupInv'
<1>1. PICK ok \in BOOLEAN : Killed("xray", ok)
  BY DEF Unmark, DroppedXray
<1>2. /\ proc' \in [Programs -> Child] /\ stray' \in [Programs -> BOOLEAN]
      /\ pid' \in [Programs -> {"none", "tracked", "stray"}]
      /\ proc'["xray"] = NoProcess /\ proc'["sing-box"] = proc["sing-box"]
      /\ pid'["sing-box"] = pid["sing-box"] /\ stray'["sing-box"] = stray["sing-box"]
  BY <1>1, KilledFacts DEF SetupInv, Programs
<1>3. TypeOK'
  BY <1>2, NoSetupIsNone DEF SetupInv, TypeOK, Call, CallFits, FileKept, Settled, CoreFits,
     XrayFits, Unmark, End, At, Target, Given, Needs, memory, NoCall, SingBox, Xray, StepsOf,
     NoProcess
<1>4. CallFits' /\ PidKnown' /\ FileKept' /\ Settled' /\ CoreFits' /\ XrayFits'
  BY <1>2, NoSetupIsNone DEF SetupInv, TypeOK, Call, CallFits, FileKept, Settled, CoreFits,
     XrayFits, Unmark, End, At, Target, Given, Needs, memory, NoCall, SingBox, Xray, StepsOf,
     NoProcess, PidKnown, Programs
<1> QED BY <1>3, <1>4 DEF SetupInv

-----------------------------------------------------------------------------
(* The environment                                                         *)

\* ChildDies keeps SetupInv: a child that has died is tracked until a call forgets it.
LEMMA ChildDiesKeeps == ASSUME SetupInv, ChildDies PROVE SetupInv'
<1>1. TypeOK'
  BY NoSetupIsNone DEF SetupInv, TypeOK, Call, CallFits, ChildDies, memory, disk,
     Child, NoProcess, Programs
<1>2. CallFits' /\ PidKnown' /\ FileKept' /\ Settled' /\ CoreFits' /\ XrayFits'
  BY NoSetupIsNone DEF SetupInv, TypeOK, Call, CallFits, ChildDies, At, Target, Given, Needs,
     memory, disk, StepsOf, PidKnown, NoProcess, FileKept, Settled, CoreFits,
     XrayFits, Child, Programs, SingBox, Xray
<1> QED BY <1>1, <1>2 DEF SetupInv

\* StrayDies keeps SetupInv: a process that is not tracked may come to its end.
LEMMA StrayDiesKeeps == ASSUME SetupInv, StrayDies PROVE SetupInv'
<1>1. TypeOK'
  BY NoSetupIsNone DEF SetupInv, TypeOK, Call, CallFits, StrayDies, memory, disk,
     Child, NoProcess, Programs
<1>2. CallFits' /\ PidKnown' /\ FileKept' /\ Settled' /\ CoreFits' /\ XrayFits'
  BY NoSetupIsNone DEF SetupInv, TypeOK, Call, CallFits, StrayDies, At, Target, Given, Needs,
     memory, disk, StepsOf, PidKnown, NoProcess, FileKept, Settled, CoreFits,
     XrayFits, Child, Programs, SingBox, Xray
<1> QED BY <1>1, <1>2 DEF SetupInv

\* Crash keeps SetupInv: after a crash nothing is tracked and nothing remembered.
LEMMA CrashKeeps == ASSUME SetupInv, Crash PROVE SetupInv'
<1>1. proc' = [p \in Programs |-> NoProcess] /\ stray' \in [Programs -> BOOLEAN]
  BY DEF SetupInv, TypeOK, Crash
<1>2. pid' \in [Programs -> {"none", "tracked", "stray"}]
  BY DEF Crash
<1>3. /\ state' = "stopped" /\ config' \in Configs /\ running' = NoSetup /\ at' = "idle"
      /\ call' = NoCall /\ blurred' = FALSE /\ UNCHANGED <<rendered, rules, files>>
  BY DEF Crash
<1>4. TypeOK'
  BY <1>1, <1>2, <1>3 DEF SetupInv, TypeOK, Call, Child, NoCall
<1>5. SingBox' = NoProcess /\ Xray' = NoProcess
  BY <1>1 DEF SingBox, Xray, Programs
<1>6. CallFits' /\ FileKept' /\ Settled' /\ CoreFits' /\ XrayFits'
  BY <1>3, <1>5 DEF CallFits, FileKept, Settled, CoreFits, XrayFits, StepsOf, At, NoCall
<1>7. PidKnown'
  BY <1>1 DEF PidKnown, NoProcess
<1> QED BY <1>4, <1>6, <1>7 DEF SetupInv

-----------------------------------------------------------------------------
(* The setup: the invariant, and what it shows                             *)

\* Every step of the specification keeps it.
LEMMA NextKeepsSetupInv == ASSUME SetupInv, [Next]_vars PROVE SetupInv'
<1>1. CASE Calls
  BY <1>1, StartKeeps, HotSwapKeeps, MarkSelectorActiveKeeps, StopKeeps, SetConfigKeeps,
     SetStateKeeps, ResetStateKeeps DEF Calls
<1>2. CASE StartSteps
  BY <1>2, RefuseKeeps, RenderForStartKeeps, RenderForStartFailsKeeps, OwnersDifferKeeps,
     ApplyRulesKeeps, VerifyRulesKeeps, CleanAfterStartKeeps, RollbackKeeps, UnwindKeeps,
     CommitStartKeeps DEF StartSteps
<1>3. CASE SpawnSteps
  BY <1>3, SpawnXrayKeeps, SpawnXrayFailsKeeps, WaitXrayKeeps, SpawnCoreKeeps,
     SpawnCoreFailsKeeps, WaitListenersKeeps DEF SpawnSteps
<1>4. CASE StopSteps
  BY <1>4, CleanForStopKeeps, KillCoreKeeps, KillXrayKeeps, ForgetKeeps DEF StopSteps
<1>5. CASE SwapSteps
  BY <1>5, RenderForSwapKeeps, KillOldKeeps, StopOldXrayKeeps, CommitSwapKeeps,
     CommitSwapFailsKeeps, RestoreKeeps, RestoreXrayKeeps, CommitRestoreKeeps, DegradeKeeps,
     UnmarkKeeps DEF SwapSteps
<1>6. CASE Environment
  BY <1>6, ChildDiesKeeps, StrayDiesKeeps, CrashKeeps DEF Environment
<1>7. CASE UNCHANGED vars
  BY <1>7, StutterKeeps
<1> QED BY <1>1, <1>2, <1>3, <1>4, <1>5, <1>6, <1>7 DEF Next

\* At every step of a call, the children, the files and the memory of the manager
\* are what the call has made of them so far; between two calls, they agree.
THEOREM SetupInductive == Spec => []SetupInv
<1>1. SetupInv /\ [Next]_vars => SetupInv'
  BY NextKeepsSetupInv
<1> QED BY <1>1, InitSetupInv, PTL DEF Spec

\* The PID file names every tracked child that is alive, at every step of a call
\* too: whenever the daemon is killed, rescue_reset.sh and the next daemon find the
\* process.
THEOREM PidFileKnows == Spec => []PidFileFindsIt
<1>1. SetupInv => PidFileFindsIt
  BY DEF SetupInv, PidKnown, PidFileFindsIt
<1> QED BY <1>1, SetupInductive, PTL

\* singbox.json is what the tracked sing-box was started with, and the manager remembers
\* its configuration unless a selector switch came late, whatever calls failed before.
THEOREM MemoryIsTrue == Spec => []RunningIsWhatRuns
<1>1. SetupInv => RunningIsWhatRuns
  BY DEF SetupInv, FileKept, Settled, SingBox, RunningIsWhatRuns
<1> QED BY <1>1, SetupInductive, PTL

-----------------------------------------------------------------------------
(* What has changed since the call began                                   *)

\* The files as RootRuntime.tla sees them.
ViewedFiles == [lock : {"none"}, marker : BOOLEAN, manual : BOOLEAN]

\* The files are those the call began with.
SeenFiles ==
  seen.files = [lock |-> "none", marker |-> files.marker, manual |-> files.manual]

\* A start has changed neither files nor, until it commits, the state that is seen; it
\* can only add a stray sing-box, and at its commit the rules are complete.
StartSees == call.op = "start" =>
  /\ SeenFiles
  /\ at = "refuse" => seen = View /\ state = "running"
  /\ at # "refuse" => seen.core.state # "running"
  /\ at # "unwind" => seen.stray = stray["sing-box"]
  /\ seen.stray => stray["sing-box"]
  /\ at = "commit" => rules = AllRules

\* A stop has taken the marker away; rules or a process that are left were there, and
\* the call has noted that it failed.
StopSees == call.op = "stop" =>
  /\ ~files.marker /\ seen.files \in ViewedFiles /\ seen.files.manual = files.manual
  /\ at \in {"clean", "kill"} =>
       seen.core.proc = SingBox.life /\ seen.stray = stray["sing-box"]
  /\ at = "clean" => seen.rules = Installed(rules)
  /\ at # "clean" => (Installed(rules) => seen.rules /\ call.dirty)
  /\ at \in {"killXray", "forget"} =>
       \/ stray["sing-box"] = seen.stray
       \/ seen.core.proc = "none" /\ ~stray["sing-box"]
       \/ seen.core.proc = "alive" /\ ~call.ok /\ stray["sing-box"]

\* A swap has changed neither files nor, unless it degrades, the rules; it can only add
\* a stray sing-box.
SwapSees == call.op = "swap" =>
  /\ SeenFiles
  /\ at \in {"render", "killOld"} => seen = View
  /\ ~call.back /\ at # "unmark" => seen.stray = stray["sing-box"]
  /\ seen.stray => stray["sing-box"]
  /\ at # "unmark" => seen.rules = Installed(rules)
  /\ Installed(rules) => seen.rules
  /\ at = "unmark" => state = "degraded"

\* What RootRuntime.tla sees of the state before the call is still known.
SeenInv ==
  /\ seen.stray \in BOOLEAN /\ seen.rules \in BOOLEAN
  /\ StartSees /\ StopSees /\ SwapSees

\* It has a type, too.
SeenTypeOK ==
  seen \in [core : [state : {"stopped", "starting", "running", "stopping", "degraded", "rescue"},
                    proc : {"none", "alive", "dead"}],
            rules : BOOLEAN, stray : BOOLEAN, files : ViewedFiles]

\* The whole invariant.
CoreInv == SetupInv /\ SeenTypeOK /\ SeenInv

\* With the end of a call nothing is remembered of its begin.
LEMMA EndKeepsSeen == ASSUME NEW outcome, End(outcome) PROVE SeenInv'
PROOF BY DEF End, NoCall, NoView, SeenInv, StartSees, StopSees, SwapSees

\* Between two calls nothing is remembered.
LEMMA IdleKeepsSeen == ASSUME CoreInv, at = "idle", UNCHANGED <<call, seen>> PROVE SeenInv'
PROOF BY DEF CoreInv, SetupInv, CallFits, SeenInv, StartSees, StopSees, SwapSees

\* Start keeps SeenInv: a start sees the state it begins in; it is not running, or
\* refused.
LEMMA StartKeepsSeen == ASSUME CoreInv, NEW node \in Nodes, Start(node) PROVE SeenInv'
PROOF BY DEF SeenInv, StartSees, StopSees, SwapSees, SeenFiles, CoreInv, Start, Begin,
         SetupInv, TypeOK, Call, CallFits, Settled, CoreFits, At, View, Installed, children,
         memory, disk, SingBox, NoCall, Programs, Child, NoProcess

\* HotSwap keeps SeenInv: a swap sees the state it begins in.
LEMMA HotSwapKeepsSeen == ASSUME CoreInv, NEW node \in Nodes, HotSwap(node) PROVE SeenInv'
PROOF BY DEF SeenInv, StartSees, StopSees, SwapSees, SeenFiles, CoreInv, HotSwap, Begin,
         SetupInv, TypeOK, Call, CallFits, Settled, CoreFits, At, View, Installed, children,
         memory, disk, SingBox, NoCall, Programs, Child, NoProcess

\* Stop keeps SeenInv: a stop has taken the marker away already.
LEMMA StopKeepsSeen == ASSUME CoreInv, Stop PROVE SeenInv'
PROOF BY DEF ViewedFiles, SeenInv, StartSees, StopSees, SwapSees, SeenFiles, CoreInv, Stop,
         Begin, SetupInv, TypeOK, Call, CallFits, Settled, CoreFits, At, View, Installed,
         children, memory, SingBox, NoCall, Programs, Child, NoProcess

\* RenderForStart keeps SeenInv: rendering changes nothing that is seen.
LEMMA RenderForStartKeepsSeen == ASSUME CoreInv, RenderForStart PROVE SeenInv'
PROOF BY DEF SeenInv, StartSees, StopSees, SwapSees, SeenFiles, CoreInv, RenderForStart,
         SetupInv, TypeOK, Call, CallFits, Settled, CoreFits, Goto, At, View, Installed,
         children, memory, SingBox, Programs, Child, NoProcess

\* SpawnXray keeps SeenInv: a new sidecar is not seen.
LEMMA SpawnXrayKeepsSeen == ASSUME CoreInv, SpawnXray PROVE SeenInv'
PROOF BY DEF SeenInv, StartSees, StopSees, SwapSees, SeenFiles, CoreInv, SpawnXray,
         SetupInv, TypeOK, Call, CallFits, Settled, CoreFits, Goto, At, View, Installed,
         memory, disk, SingBox, Spawned, Programs, Child, NoProcess

\* WaitXray keeps SeenInv: the wait for the sidecar changes nothing that is seen.
LEMMA WaitXrayKeepsSeen == ASSUME CoreInv, WaitXray PROVE SeenInv'
PROOF BY DEF SeenInv, StartSees, StopSees, SwapSees, SeenFiles, CoreInv, WaitXray, SetupInv,
         TypeOK, Call, CallFits, Settled, CoreFits, Goto, At, View, Installed, memory, disk,
         SingBox, Undo, Listening, Programs, Child, NoProcess

\* SpawnCore keeps SeenInv: a new sing-box is no stray one.
LEMMA SpawnCoreKeepsSeen == ASSUME CoreInv, SpawnCore PROVE SeenInv'
PROOF BY DEF SeenInv, StartSees, StopSees, SwapSees, SeenFiles, CoreInv, SpawnCore,
         SetupInv, TypeOK, Call, CallFits, Settled, CoreFits, Goto, At, View, Installed,
         memory, disk, SingBox, Spawned, Programs, Child, NoProcess

\* SpawnCoreFails keeps SeenInv: a sing-box that did not come up leaves nothing.
LEMMA SpawnCoreFailsKeepsSeen == ASSUME CoreInv, SpawnCoreFails PROVE SeenInv'
PROOF BY DEF SeenInv, StartSees, StopSees, SwapSees, SeenFiles, CoreInv, SpawnCoreFails,
         SetupInv, TypeOK, Call, CallFits, Settled, CoreFits, Goto, At, View, Installed,
         children, memory, disk, SingBox, Undo, Programs, Child, NoProcess

\* WaitListeners keeps SeenInv: a stray sing-box is none of the call's making.
LEMMA WaitListenersKeepsSeen == ASSUME CoreInv, WaitListeners PROVE SeenInv'
PROOF BY DEF SeenInv, StartSees, StopSees, SwapSees, SeenFiles, CoreInv, WaitListeners,
         SetupInv, TypeOK, Call, CallFits, Settled, CoreFits, Goto, At, View, Installed,
         memory, disk, SingBox, Undo, Listening, Programs, Child, NoProcess

\* OwnersDiffer keeps SeenInv: a start that is to be rolled back has installed
\* nothing yet.
LEMMA OwnersDifferKeepsSeen == ASSUME CoreInv, OwnersDiffer PROVE SeenInv'
PROOF BY DEF SeenInv, StartSees, StopSees, SwapSees, SeenFiles, CoreInv, OwnersDiffer,
         SetupInv, TypeOK, Call, CallFits, Settled, CoreFits, Goto, At, View, Installed,
         children, memory, disk, SingBox, Programs, Child, NoProcess

\* CommitSwapFails keeps SeenInv: a swap that goes back has changed neither rules
\* nor files.
LEMMA CommitSwapFailsKeepsSeen == ASSUME CoreInv, CommitSwapFails PROVE SeenInv'
PROOF BY DEF SeenInv, StartSees, StopSees, SwapSees, SeenFiles, CoreInv, CommitSwapFails,
         SetupInv, TypeOK, Call, CallFits, Settled, CoreFits, Goto, At, View, Installed,
         children, memory, disk, SingBox, Undo, Programs, Child, NoProcess

\* KillXray keeps SeenInv: how sing-box ended does not depend on the sidecar.
LEMMA KillXrayKeepsSeen == ASSUME CoreInv, KillXray PROVE SeenInv'
PROOF BY DEF SeenInv, StartSees, StopSees, SwapSees, SeenFiles, CoreInv, KillXray, SetupInv,
         TypeOK, Call, CallFits, Settled, CoreFits, At, View, Installed, memory, disk,
         SingBox, KillStep, Killed, Programs, Child, NoProcess

\* SpawnXrayFails keeps SeenInv: without a sidecar, what was seen is still true.
LEMMA SpawnXrayFailsKeepsSeen == ASSUME CoreInv, SpawnXrayFails PROVE SeenInv'
PROOF BY EndKeepsSeen DEF SeenInv, StartSees, StopSees, SwapSees, SeenFiles, CoreInv,
         SpawnXrayFails, SetupInv, TypeOK, Call, CallFits, Settled, CoreFits, Goto, At,
         View, Installed, children, memory, disk, SingBox, Undo, Programs, Child, NoProcess

\* RenderForSwap keeps SeenInv: a swap that is rejected ends as it began.
LEMMA RenderForSwapKeepsSeen == ASSUME CoreInv, RenderForSwap PROVE SeenInv'
PROOF BY EndKeepsSeen DEF SeenInv, StartSees, StopSees, SwapSees, SeenFiles, CoreInv,
         RenderForSwap, SetupInv, TypeOK, Call, CallFits, Settled, CoreFits, Goto, At, View,
         Installed, children, memory, SingBox, Programs, Child, NoProcess

\* KillOld keeps SeenInv: a swap that cannot kill the old sing-box ends as it
\* began.
LEMMA KillOldKeepsSeen == ASSUME CoreInv, KillOld PROVE SeenInv'
PROOF BY EndKeepsSeen DEF SeenInv, StartSees, StopSees, SwapSees, SeenFiles, CoreInv,
         KillOld, SetupInv, TypeOK, Call, CallFits, Settled, CoreFits, Goto, At, View,
         Installed, children, memory, disk, SingBox, Programs, Child, NoProcess

\* ApplyRules keeps SeenInv: a start goes on to its commit only from rules that
\* were verified.
LEMMA ApplyRulesKeepsSeen == ASSUME CoreInv, ApplyRules PROVE SeenInv'
<1>1. PICK r \in Applies(rules) :
        /\ rules' = r.rules
        /\ at' \in {"verify", "clean", "commit", "rollback", "kill"}
        /\ at' = "commit" => r.ok
        /\ call' = [call EXCEPT !.dirty = @ \/ r.dirty]
  BY DEF ApplyRules, Net
<1> QED BY <1>1, ApplyFacts DEF ApplyRules, Net, SeenInv, StartSees, StopSees, SwapSees,
           SeenFiles, CoreInv, SetupInv, TypeOK, Call, CallFits, Settled, CoreFits, At,
           View, Installed, children, memory, SingBox

\* VerifyRules keeps SeenInv: rules that were verified are complete.
LEMMA VerifyRulesKeepsSeen == ASSUME CoreInv, VerifyRules PROVE SeenInv'
<1>1. PICK r \in Verifies(rules) :
        /\ rules' = r.rules
        /\ at' \in {"verify", "clean", "commit", "rollback", "kill"}
        /\ at' = "commit" => r.ok
        /\ call' = [call EXCEPT !.dirty = @ \/ r.dirty]
  BY DEF VerifyRules, Net
<1> QED BY <1>1, VerifyFacts DEF VerifyRules, Net, SeenInv, StartSees, StopSees, SwapSees,
           SeenFiles, CoreInv, SetupInv, TypeOK, Call, CallFits, Settled, CoreFits, At,
           View, Installed, children, memory, SingBox

\* CleanAfterStart keeps SeenInv: a start that cleans up is not going to commit.
LEMMA CleanAfterStartKeepsSeen == ASSUME CoreInv, CleanAfterStart PROVE SeenInv'
<1>1. PICK r \in CleanUps(rules) :
        /\ rules' = r.rules
        /\ at' \in {"verify", "clean", "commit", "rollback", "kill"}
        /\ at' = "commit" => r.ok
        /\ call' = [call EXCEPT !.dirty = @ \/ r.dirty]
  BY DEF CleanAfterStart, Net
<1> QED BY <1>1, CleanUpFacts DEF CleanAfterStart, Net, SeenInv, StartSees, StopSees,
           SwapSees, SeenFiles, CoreInv, SetupInv, TypeOK, Call, CallFits, Settled,
           CoreFits, At, View, Installed, children, memory, SingBox

\* CleanForStop keeps SeenInv: rules that a stop leaves were there before, and it
\* says so.
LEMMA CleanForStopKeepsSeen == ASSUME CoreInv, CleanForStop PROVE SeenInv'
<1>1. PICK r \in CleanUps(rules) :
        /\ rules' = r.rules
        /\ at' \in {"verify", "clean", "commit", "rollback", "kill"}
        /\ at' = "commit" => r.ok
        /\ call' = [call EXCEPT !.dirty = @ \/ r.dirty]
  BY DEF CleanForStop, Net
<1> QED BY <1>1, CleanUpFacts DEF CleanForStop, Net, SeenInv, StartSees, StopSees, SwapSees,
           SeenFiles, CoreInv, SetupInv, TypeOK, Call, CallFits, Settled, CoreFits, At,
           View, Installed, children, memory, SingBox

\* Rollback keeps SeenInv: a sing-box that outlives the roll-back of a start is a
\* stray one from now on.
LEMMA RollbackKeepsSeen == ASSUME CoreInv, Rollback PROVE SeenInv'
<1>1. stray' \in [Programs -> BOOLEAN] /\ (stray["sing-box"] => stray'["sing-box"])
  BY DroppedCoreFacts DEF CoreInv, SetupInv, Rollback
<1>2. /\ call.op = "start" /\ at = "rollback" /\ at' = "unwind"
      /\ UNCHANGED <<call, seen, files, rules>>
  BY DEF CoreInv, SetupInv, CallFits, StepsOf, TypeOK, Call, Rollback, Goto, disk
<1> QED BY <1>1, <1>2 DEF CoreInv, SeenInv, StartSees, StopSees, SwapSees, SeenFiles

\* Restore keeps SeenInv: a sing-box that outlives the roll-back of a swap is a
\* stray one from now on.
LEMMA RestoreKeepsSeen == ASSUME CoreInv, Restore PROVE SeenInv'
<1>1. stray' \in [Programs -> BOOLEAN] /\ (stray["sing-box"] => stray'["sing-box"])
  BY DroppedCoreFacts DEF CoreInv, SetupInv, Restore
<1>2. /\ call.op = "swap" /\ at = "restore" /\ at' = "restoreXray"
      /\ call'.op = "swap" /\ call'.back /\ UNCHANGED <<seen, files, rules>>
  BY DEF CoreInv, SetupInv, CallFits, StepsOf, TypeOK, Call, Restore, disk
<1> QED BY <1>1, <1>2 DEF CoreInv, SeenInv, StartSees, StopSees, SwapSees, SeenFiles

\* Degrade keeps SeenInv: a swap that loses the runtime may leave rules that were
\* there, and the process.
LEMMA DegradeKeepsSeen == ASSUME CoreInv, Degrade PROVE SeenInv'
<1>1. PICK r \in CleanUps(rules) : rules' = r.rules /\ call' = [call EXCEPT !.dirty = @ \/ r.dirty]
  BY DEF Degrade
<1>2. Installed(rules') => Installed(rules)
  BY <1>1, CleanUpFacts DEF CoreInv, SetupInv, TypeOK
<1>3. stray' \in [Programs -> BOOLEAN] /\ (stray["sing-box"] => stray'["sing-box"])
  BY DroppedCoreFacts DEF CoreInv, SetupInv, Degrade
<1>4. /\ call.op = "swap" /\ at = "degrade" /\ at' = "unmark" /\ call'.op = "swap"
      /\ state' = "degraded" /\ running' = NoSetup /\ UNCHANGED <<seen, files>>
  BY <1>1 DEF CoreInv, SetupInv, CallFits, StepsOf, TypeOK, Call, Degrade
<1> QED BY <1>2, <1>3, <1>4 DEF CoreInv, SeenInv, StartSees, StopSees, SwapSees, SeenFiles,
           Installed

\* RestoreXray keeps SeenInv: the sidecar of the new setup is not what is seen.
LEMMA RestoreXrayKeepsSeen == ASSUME CoreInv, RestoreXray PROVE SeenInv'
<1>1. stray'["sing-box"] = stray["sing-box"]
  BY KilledFacts DEF RestoreXray, DroppedXray, CoreInv, SetupInv, Programs
<1>2. /\ call.op = "swap" /\ at = "restoreXray"
      /\ at' \in StepsOf["swap"] \ {"render", "killOld", "unmark"}
      /\ UNCHANGED <<call, seen, files, rules, running>>
  BY DEF CoreInv, SetupInv, CallFits, StepsOf, TypeOK, Call, RestoreXray, Goto
<1> QED BY <1>1, <1>2 DEF CoreInv, SeenInv, StartSees, StopSees, SwapSees, SeenFiles

\* StopOldXray keeps SeenInv: the sidecar of the old setup is not what is seen.
LEMMA StopOldXrayKeepsSeen == ASSUME CoreInv, StopOldXray PROVE SeenInv'
<1>1. stray'["sing-box"] = stray["sing-box"]
  BY KilledFacts DEF StopOldXray, CoreInv, SetupInv, Programs
<1>2. /\ call.op = "swap" /\ at = "sidecar"
      /\ at' \in StepsOf["swap"] \ {"render", "killOld", "unmark"}
      /\ UNCHANGED <<call, seen, files, rules, running>>
  BY DEF CoreInv, SetupInv, CallFits, StepsOf, TypeOK, Call, StopOldXray, Goto, Undo,
     memory, disk
<1> QED BY <1>1, <1>2 DEF CoreInv, SeenInv, StartSees, StopSees, SwapSees, SeenFiles

\* KillCore keeps SeenInv: a stop that leaves a process it was to kill has failed.
LEMMA KillCoreKeepsSeen == ASSUME CoreInv, KillCore PROVE SeenInv'
<1>1. PICK ok \in BOOLEAN : Killed("sing-box", ok) /\ call' = [call EXCEPT !.ok = @ /\ ok]
  BY DEF KillCore, KillStep
<1>2. /\ SingBox.life \in {"none", "alive", "dead"}
      /\ SingBox.life = "alive" => stray'["sing-box"] = (stray["sing-box"] \/ ~ok)
      /\ SingBox.life = "dead" => stray'["sing-box"] = stray["sing-box"]
      /\ SingBox.life = "none" => (stray'["sing-box"] => stray["sing-box"])
      /\ stray["sing-box"] \in BOOLEAN /\ stray'["sing-box"] \in BOOLEAN
  <2>1. "sing-box" \in Programs /\ TypeOK
    BY DEF Programs, CoreInv, SetupInv
  <2>2. SingBox \in Child /\ stray["sing-box"] \in BOOLEAN
    BY <2>1 DEF SingBox, TypeOK, Programs
  <2>3. SingBox.life \in {"none", "alive", "dead"}
    BY <2>2, ChildFacts
  <2>4. stray'["sing-box"] \in BOOLEAN
    BY <1>1, <2>1, KilledFacts
  <2> QED BY <1>1, <2>1, <2>2, <2>3, <2>4, KilledFacts DEF SingBox
<1>3. /\ call.op = "stop" /\ at = "kill" /\ at' = "killXray" /\ UNCHANGED <<seen, files, rules>>
      /\ call'.op = "stop" /\ call'.dirty = call.dirty /\ call'.ok = (call.ok /\ ok)
  BY <1>1 DEF CoreInv, SetupInv, TypeOK, Call, KillCore, KillStep, At, disk
<1>4. seen.core.proc = SingBox.life /\ seen.stray = stray["sing-box"]
  BY <1>3 DEF CoreInv, SeenInv, StopSees
<1>5. \/ stray'["sing-box"] = seen.stray
      \/ seen.core.proc = "none" /\ ~stray'["sing-box"]
      \/ seen.core.proc = "alive" /\ ~call'.ok /\ stray'["sing-box"]
  BY <1>2, <1>3, <1>4
<1> QED BY <1>3, <1>5 DEF CoreInv, SeenInv, StartSees, StopSees, SwapSees

\* ChildDies keeps SeenInv: what the call found and has not killed died before it.
LEMMA ChildDiesKeepsSeen == ASSUME CoreInv, ChildDies PROVE SeenInv'
<1>1. PICK p \in Programs :
        /\ proc[p].life = "alive" /\ proc' = [proc EXCEPT ![p].life = "dead"]
        /\ seen' = IF p = "sing-box" /\ at # "idle" /\ OldCore
                     THEN [seen EXCEPT !.core.proc = "dead"] ELSE seen
  BY DEF ChildDies
<1>2. UNCHANGED <<state, stray, pid, memory, disk, at, call>>
  BY DEF ChildDies
<1>3. /\ SingBox'.life = IF p = "sing-box" THEN "dead" ELSE SingBox.life
      /\ p = "sing-box" => SingBox.life = "alive"
  BY <1>1 DEF SingBox, Programs, CoreInv, SetupInv, TypeOK, Child, NoProcess
<1>4. /\ seen'.rules = seen.rules /\ seen'.stray = seen.stray /\ seen'.files = seen.files
      /\ seen'.core.state = seen.core.state
      /\ seen'.core.proc = IF p = "sing-box" /\ at # "idle" /\ OldCore THEN "dead" ELSE seen.core.proc
      /\ seen' \in [core : [state : {"stopped", "starting", "running", "stopping", "degraded", "rescue"},
                             proc : {"none", "alive", "dead"}],
                     rules : BOOLEAN, stray : BOOLEAN, files : ViewedFiles]
  BY <1>1 DEF CoreInv, SeenTypeOK
<1>5. ASSUME seen = View, OldCore, at # "idle" PROVE seen' = View'
  <2>1. View' = [core |-> [state |-> state, proc |-> SingBox'.life],
                 rules |-> Installed(rules), stray |-> stray["sing-box"],
                 files |-> [lock |-> "none", marker |-> files.marker, manual |-> files.manual]]
    BY <1>2 DEF View, SingBox, disk
  <2>2. seen = [core |-> [state |-> state, proc |-> SingBox.life],
                rules |-> Installed(rules), stray |-> stray["sing-box"],
                files |-> [lock |-> "none", marker |-> files.marker, manual |-> files.manual]]
    BY <1>5 DEF View, SingBox
  <2>3. CASE p = "sing-box"
    BY <1>1, <1>3, <1>5, <2>1, <2>2, <2>3
  <2>4. CASE p # "sing-box"
    BY <1>1, <1>3, <2>1, <2>2, <2>4
  <2> QED BY <2>3, <2>4
<1>6. StartSees'
  BY <1>2, <1>4, <1>5 DEF CoreInv, SeenInv, StartSees, SeenFiles, OldCore, disk
<1>7. SwapSees'
  BY <1>2, <1>4, <1>5 DEF CoreInv, SeenInv, SwapSees, SeenFiles, OldCore, disk
<1>8. StopSees'
  <2>1. call.op = "stop" /\ at \in {"killXray", "forget"} => p # "sing-box"
    BY <1>3 DEF CoreInv, SetupInv, CoreFits, NoProcess
  <2>2. call.op = "stop" => at # "idle" /\ OldCore
    BY DEF CoreInv, SetupInv, CallFits, OldCore
  <2> QED BY <1>2, <1>3, <1>4, <2>1, <2>2 DEF CoreInv, SeenInv, StopSees, disk
<1> QED BY <1>4, <1>6, <1>7, <1>8 DEF CoreInv, SeenInv

\* StrayDies keeps SeenInv: a stray sing-box that was there has died before the call.
LEMMA StrayDiesKeepsSeen == ASSUME CoreInv, StrayDies PROVE SeenInv'
<1>1. UNCHANGED <<state, proc, memory, disk, at, call>>
  BY DEF StrayDies
<1>2. /\ stray["sing-box"] \in BOOLEAN /\ stray'["sing-box"] \in BOOLEAN
      /\ stray'["sing-box"] => stray["sing-box"]
  BY DEF StrayDies, CoreInv, SetupInv, TypeOK, Programs
<1>3. /\ seen'.core = seen.core /\ seen'.rules = seen.rules /\ seen'.files = seen.files
      /\ seen'.stray = (seen.stray /\ stray'["sing-box"])
      /\ seen.stray \in BOOLEAN /\ seen.rules \in BOOLEAN
  BY DEF StrayDies, CoreInv, SeenTypeOK
<1>4. ASSUME seen = View PROVE seen' = View'
  <2>1. View' = [core |-> [state |-> state, proc |-> SingBox.life],
                 rules |-> Installed(rules), stray |-> stray'["sing-box"],
                 files |-> [lock |-> "none", marker |-> files.marker, manual |-> files.manual]]
    BY <1>1 DEF View, SingBox, disk
  <2>2. seen = [core |-> [state |-> state, proc |-> SingBox.life],
                rules |-> Installed(rules), stray |-> stray["sing-box"],
                files |-> [lock |-> "none", marker |-> files.marker, manual |-> files.manual]]
    BY <1>4 DEF View, SingBox
  <2>3. seen' = [seen EXCEPT !.stray = stray'["sing-box"]]
    BY <1>2, <2>2 DEF StrayDies
  <2> QED BY <2>1, <2>2, <2>3
<1>5. StartSees'
  BY <1>1, <1>2, <1>3, <1>4 DEF CoreInv, SeenInv, StartSees, SeenFiles, disk
<1>6. SwapSees'
  BY <1>1, <1>2, <1>3, <1>4 DEF CoreInv, SeenInv, SwapSees, SeenFiles, disk, memory
<1>7. StopSees'
  BY <1>1, <1>2, <1>3 DEF CoreInv, SeenInv, StopSees, SingBox, disk
<1> QED BY <1>2, <1>3, <1>5, <1>6, <1>7 DEF SeenInv

\* Crash keeps SeenInv: a crash ends the call.
LEMMA CrashKeepsSeen == ASSUME CoreInv, Crash PROVE SeenInv'
PROOF BY DEF Crash, NoCall, NoView, SeenInv, StartSees, StopSees, SwapSees

\* What has changed since the call began stays known with every step.
LEMMA NextKeepsSeen == ASSUME CoreInv, [Next]_vars PROVE SeenInv'
<1>1. CASE Calls
  <2>1. CASE SetConfig \/ SetState \/ ResetState \/ \E node \in Nodes : MarkSelectorActive(node)
    <3>1. at = "idle" /\ UNCHANGED <<call, seen>>
      BY <2>1 DEF SetConfig, SetState, ResetState, MarkSelectorActive, Idle
    <3> QED BY <3>1, IdleKeepsSeen
  <2> QED BY <1>1, <2>1, StartKeepsSeen, HotSwapKeepsSeen, StopKeepsSeen DEF Calls
<1>2. CASE StartSteps
  <2>1. CASE Refuse \/ RenderForStartFails \/ Unwind \/ CommitStart
    BY <2>1, EndKeepsSeen DEF Refuse, RenderForStartFails, Unwind, CommitStart
  <2> QED BY <1>2, <2>1, RenderForStartKeepsSeen, OwnersDifferKeepsSeen, ApplyRulesKeepsSeen,
          VerifyRulesKeepsSeen, CleanAfterStartKeepsSeen, RollbackKeepsSeen DEF StartSteps
<1>3. CASE SpawnSteps
  BY <1>3, SpawnXrayKeepsSeen, SpawnXrayFailsKeepsSeen, WaitXrayKeepsSeen, SpawnCoreKeepsSeen,
     SpawnCoreFailsKeepsSeen, WaitListenersKeepsSeen DEF SpawnSteps
<1>4. CASE StopSteps
  <2>1. CASE Forget
    BY <2>1, EndKeepsSeen DEF Forget
  <2> QED BY <1>4, <2>1, CleanForStopKeepsSeen, KillCoreKeepsSeen, KillXrayKeepsSeen
          DEF StopSteps
<1>5. CASE SwapSteps
  <2>1. CASE CommitSwap \/ CommitRestore \/ Unmark
    BY <2>1, EndKeepsSeen DEF CommitSwap, CommitRestore, Unmark
  <2> QED BY <1>5, <2>1, RenderForSwapKeepsSeen, KillOldKeepsSeen, StopOldXrayKeepsSeen,
          CommitSwapFailsKeepsSeen, RestoreKeepsSeen, RestoreXrayKeepsSeen, DegradeKeepsSeen
          DEF SwapSteps
<1>6. CASE Environment
  BY <1>6, ChildDiesKeepsSeen, StrayDiesKeepsSeen, CrashKeepsSeen DEF Environment
<1>7. CASE UNCHANGED vars
  BY <1>7 DEF vars, children, memory, disk, CoreInv, SeenInv, StartSees, StopSees, SwapSees,
     SeenFiles, View, SingBox
<1> QED BY <1>1, <1>2, <1>3, <1>4, <1>5, <1>6, <1>7 DEF Next

\* What is seen is taken when a call begins, and changed only by what dies.
LEMMA NextKeepsSeenType == ASSUME CoreInv, [Next]_vars PROVE SeenTypeOK'
<1>1. \/ seen' \in {seen, View, NoView}
      \/ \E s \in BOOLEAN : seen' = [seen EXCEPT !.stray = s]
      \/ seen' = [seen EXCEPT !.core.proc = "dead"]
  <2>1. CASE Calls
    BY <2>1 DEF Calls, Start, HotSwap, Stop, Begin, MarkSelectorActive, SetConfig, SetState, ResetState, Idle
  <2>2. CASE StartSteps
    BY <2>2 DEF StartSteps, Refuse, RenderForStart, RenderForStartFails, OwnersDiffer, ApplyRules,
       VerifyRules, CleanAfterStart, Rollback, Unwind, CommitStart, Goto, End, Net
  <2>3. CASE SpawnSteps
    BY <2>3 DEF SpawnSteps, SpawnXray, SpawnXrayFails, WaitXray, SpawnCore, SpawnCoreFails,
       WaitListeners, Goto, End
  <2>4. CASE StopSteps
    BY <2>4 DEF StopSteps, CleanForStop, KillCore, KillXray, KillStep, Forget, Net, End
  <2>5. CASE SwapSteps
    BY <2>5 DEF SwapSteps, RenderForSwap, KillOld, StopOldXray, CommitSwap, CommitSwapFails, Restore,
       RestoreXray, CommitRestore, Degrade, Unmark, Goto, End
  <2>6. CASE Environment
    <3>1. CASE StrayDies
      <4>1. (seen.stray /\ stray'["sing-box"]) \in BOOLEAN
        BY <3>1 DEF StrayDies, CoreInv, SetupInv, TypeOK, SeenInv, Programs
      <4> QED BY <3>1, <4>1 DEF StrayDies
    <3> QED BY <2>6, <3>1 DEF Environment, ChildDies, Crash
  <2>7. CASE UNCHANGED vars
    BY <2>7 DEF vars
  <2> QED BY <2>1, <2>2, <2>3, <2>4, <2>5, <2>6, <2>7 DEF Next
<1>2. View \in [core : [state : {"stopped", "starting", "running", "stopping", "degraded", "rescue"},
                        proc : {"none", "alive", "dead"}],
                rules : BOOLEAN, stray : BOOLEAN, files : ViewedFiles]
  <2>1. SingBox.life \in {"none", "alive", "dead"}
    <3>1. SingBox \in Child
      BY DEF CoreInv, SetupInv, TypeOK, SingBox, Programs
    <3> QED BY <3>1, ChildFacts
  <2>2. Installed(rules) \in BOOLEAN /\ stray["sing-box"] \in BOOLEAN
    BY DEF Installed, CoreInv, SetupInv, TypeOK, Programs
  <2>3. [lock |-> "none", marker |-> files.marker, manual |-> files.manual] \in ViewedFiles
    BY DEF ViewedFiles, CoreInv, SetupInv, TypeOK
  <2>4. [state |-> state, proc |-> SingBox.life]
          \in [state : {"stopped", "starting", "running", "stopping", "degraded", "rescue"},
              proc : {"none", "alive", "dead"}]
    BY <2>1 DEF CoreInv, SetupInv, TypeOK
  <2> QED BY <2>2, <2>3, <2>4 DEF View, SingBox
<1>3. NoView \in [core : [state : {"stopped", "starting", "running", "stopping", "degraded", "rescue"},
                          proc : {"none", "alive", "dead"}],
                  rules : BOOLEAN, stray : BOOLEAN, files : ViewedFiles]
  BY DEF NoView, ViewedFiles
<1> QED BY <1>1, <1>2, <1>3 DEF CoreInv, SeenTypeOK

\* At every step of a call it is known how the state differs from the one the call
\* began in.
THEOREM CoreInductive == Spec => []CoreInv
<1>1. Init => CoreInv
  BY InitSetupInv DEF Init, NoCall, NoView, CoreInv, SeenTypeOK, ViewedFiles, SeenInv, StartSees,
     StopSees, SwapSees
<1>2. CoreInv /\ [Next]_vars => CoreInv'
  BY NextKeepsSetupInv, NextKeepsSeenType, NextKeepsSeen DEF CoreInv
<1> QED BY <1>1, <1>2, PTL DEF Spec

-----------------------------------------------------------------------------
(* How a call ends                                                         *)

\* What a call that ends now promises.
Contract ==
  /\ Ended("start") => IF answer' = "ok" THEN Assumed!StartCore ELSE Assumed!StartCoreFails
  /\ Ended("stop") => Assumed!StopCore(answer' = "ok")
  /\ Ended("swap") => CASE answer' = "ok"        -> Assumed!SwapCore
                        [] answer' = "preserved" -> Assumed!SwapRestored
                        [] OTHER                 -> Assumed!SwapFails
  /\ (Ended("start") \/ Ended("swap"))
     /\ (answer' = "ok" \/ (answer' = "preserved" /\ ~blurred)) => ServedByXray'

\* At the end of a call RootRuntime.tla sees the state from before it and the
\* state now.
LEMMA OutsideAtEnd ==
  ASSUME at # "idle", at' = "idle"
  PROVE  /\ Outside.core = seen.core /\ Outside.rules = seen.rules
         /\ Outside.stray = seen.stray /\ Outside.files = seen.files
         /\ Outside'.core = [state |-> state', proc |-> SingBox'.life]
         /\ Outside'.rules = Installed(rules') /\ Outside'.stray = stray'["sing-box"]
         /\ Outside'.files = [lock |-> "none", marker |-> files'.marker, manual |-> files'.manual]
PROOF BY DEF Outside, View, SingBox

\* A start that was refused has changed nothing.
LEMMA RefuseContract == ASSUME CoreInv, Refuse PROVE Contract
<1>1. call.op = "start" /\ at = "refuse" /\ at' = "idle" /\ answer' = "failed"
  BY DEF CoreInv, SetupInv, CallFits, StepsOf, TypeOK, Call, Refuse, End
<1>2. seen = View /\ View' = View /\ state = "running"
  BY <1>1 DEF CoreInv, SeenInv, StartSees, Refuse, View, children, disk
<1>3. Assumed!StartCoreFails
  BY <1>1, <1>2, OutsideAtEnd DEF Assumed!StartCoreFails, Outside, View
<1> QED BY <1>1, <1>3 DEF Contract, Ended, At

\* Its updates of the files.
LEMMA FilesUpdate ==
  ASSUME NEW f \in ViewedFiles, NEW g \in ViewedFiles
  PROVE  /\ \A m \in BOOLEAN :
              g.marker = m /\ g.manual = f.manual => g = [f EXCEPT !.marker = m]
         /\ g.marker /\ ~g.manual => g = [f EXCEPT !.marker = TRUE, !.manual = FALSE]
<1>1. ASSUME NEW m \in BOOLEAN, g.marker = m, g.manual = f.manual
      PROVE  g = [f EXCEPT !.marker = m]
  BY <1>1 DEF ViewedFiles
<1>2. ASSUME g.marker, ~g.manual
      PROVE  g = [f EXCEPT !.marker = TRUE, !.manual = FALSE]
  BY <1>2 DEF ViewedFiles
<1> QED BY <1>1, <1>2

\* What RootRuntime.tla sees of the files at the end of a call.
LEMMA FilesAtEnd ==
  ASSUME at # "idle", at' = "idle", files' \in [marker : BOOLEAN, manual : BOOLEAN]
  PROVE  /\ Outside'.files \in ViewedFiles
         /\ Outside'.files.marker = files'.marker /\ Outside'.files.manual = files'.manual
<1>1. Outside'.files = [lock |-> "none", marker |-> files'.marker, manual |-> files'.manual]
  BY OutsideAtEnd
<1> QED BY <1>1 DEF ViewedFiles

\* A start that fails on its way leaves no tracked child, and the rules and a
\* process it could not kill at worst.
LEMMA FailedStartContract ==
  ASSUME CoreInv, call.op = "start", at # "refuse", at # "idle", at' = "idle",
         answer' = "failed", state' = "stopped", SingBox' = NoProcess, files' = files,
         rules' \in [Parts -> BOOLEAN],
         stray'["sing-box"] \in {stray["sing-box"], TRUE}
  PROVE  Contract
<1>1. seen.core.state # "running" /\ SeenFiles
  BY DEF CoreInv, SeenInv, StartSees
<1>2. Outside'.core = [state |-> "stopped", proc |-> "none"] /\ Outside'.rules \in BOOLEAN
  BY OutsideAtEnd DEF NoProcess, Installed
<1>3. Outside'.stray \in {Outside.stray, TRUE}
  <2>1. stray["sing-box"] \in BOOLEAN /\ seen.stray \in BOOLEAN
    BY DEF CoreInv, SetupInv, TypeOK, Programs, SeenInv
  <2>2. seen.stray => stray["sing-box"]
    BY DEF CoreInv, SeenInv, StartSees
  <2> QED BY <2>1, <2>2, OutsideAtEnd
<1>4. Outside'.files = Outside.files
  BY <1>1, OutsideAtEnd DEF SeenFiles
<1>5. Assumed!StartCoreFails
  BY <1>1, <1>2, <1>3, <1>4, OutsideAtEnd DEF Assumed!StartCoreFails, Assumed!Stopped
<1> QED BY <1>5 DEF Contract, Ended, At

\* Before anything was spawned, a failure leaves what was there.
LEMMA EarlyFailureContract ==
  ASSUME CoreInv, RenderForStartFails \/ (SpawnXrayFails /\ call.op = "start")
  PROVE  Contract
<1>1. /\ call.op = "start" /\ at \in {"render", "xray"} /\ at' = "idle"
      /\ answer' = "failed" /\ state' = "stopped" /\ UNCHANGED <<proc, stray, files, rules>>
  BY DEF RenderForStartFails, SpawnXrayFails, End, At, children, disk
<1>2. SingBox' = NoProcess
  BY <1>1 DEF CoreInv, SetupInv, CoreFits, At, SingBox
<1>3. rules' \in [Parts -> BOOLEAN]
  BY <1>1 DEF CoreInv, SetupInv, TypeOK
<1> QED BY <1>1, <1>2, <1>3, FailedStartContract

\* Nor does the last step of a start that was rolled back.
LEMMA UnwindContract == ASSUME CoreInv, Unwind PROVE Contract
<1>1. /\ call.op = "start" /\ at = "unwind" /\ at' = "idle" /\ answer' = "failed"
      /\ state' = "stopped" /\ UNCHANGED <<files, rules>>
  BY DEF CoreInv, SetupInv, CallFits, StepsOf, TypeOK, Call, Unwind, End, disk
<1>2. PICK ok \in BOOLEAN : Killed("xray", ok)
  BY DEF Unwind, DroppedXray
<1>3. proc'["sing-box"] = proc["sing-box"] /\ stray'["sing-box"] = stray["sing-box"]
  BY <1>2, KilledFacts DEF CoreInv, SetupInv, Programs
<1>4. SingBox' = NoProcess
  BY <1>1, <1>3 DEF CoreInv, SetupInv, CoreFits, SingBox
<1>5. rules' \in [Parts -> BOOLEAN]
  BY <1>1 DEF CoreInv, SetupInv, TypeOK
<1> QED BY <1>1, <1>3, <1>4, <1>5, FailedStartContract

\* A start or a swap that commits leaves a core that was seen to listen, alive or
\* dead by now, and the sidecar it needs.
LEMMA CommittedCore ==
  ASSUME CoreInv, at = "commit", at' = "idle", UNCHANGED <<proc, stray>>, state' = "running"
  PROVE  /\ Outside'.core \in Assumed!NewCore
         /\ Outside'.stray = stray["sing-box"]
         /\ ~call.back \/ ~blurred => ServedByXray'
<1>1. SingBox # NoProcess /\ SingBox.setup = Given("sing-box")
  BY DEF CoreInv, SetupInv, CoreFits
<1>2. SingBox.life \in {"alive", "dead"} /\ SingBox' = SingBox
  <2>1. SingBox \in Child
    BY DEF CoreInv, SetupInv, TypeOK, SingBox, Programs
  <2> QED BY <1>1, <2>1, ChildFacts DEF SingBox
<1>3. ASSUME ~call.back \/ ~blurred
      PROVE  Needs(SingBox.setup) \/ Needs(Target) => SingBox.setup.node = Target.node
  <2>1. CASE ~call.back
    BY <1>1, <2>1 DEF Given
  <2>2. CASE call.back /\ ~blurred
    BY <1>1, <2>2 DEF Given, Target, CoreInv, SetupInv, CallFits, FileKept
  <2> QED BY <1>3, <2>1, <2>2 DEF CoreInv, SetupInv, TypeOK, Call
<1>4. ~call.back \/ ~blurred => ServedByXray'
  BY <1>2, <1>3 DEF CoreInv, SetupInv, XrayFits, ServedByXray, Needs, Xray, SingBox
<1> QED BY <1>1, <1>2, <1>4, OutsideAtEnd DEF Assumed!NewCore

\* A start that succeeds has done what StartCore of RootRuntime.tla says.
LEMMA CommitStartContract == ASSUME CoreInv, CommitStart PROVE Contract
<1>1. /\ call.op = "start" /\ at = "commit" /\ at' = "idle" /\ answer' = "ok"
      /\ state' = "running" /\ running' = Target /\ rules = AllRules
      /\ files' = [marker |-> TRUE, manual |-> FALSE] /\ UNCHANGED <<proc, stray, rules>>
  BY DEF CommitStart, At, End, children, CoreInv, SeenInv, StartSees
<1>2. seen.core.state # "running" /\ seen.stray = stray["sing-box"] /\ SeenFiles
  BY <1>1 DEF CoreInv, SeenInv, StartSees
<1>3. Installed(rules')
  BY <1>1 DEF Installed, AllRules, NoRules, Parts
<1>4. Outside'.files = [Outside.files EXCEPT !.marker = TRUE, !.manual = FALSE]
  <2>1. Outside'.files \in ViewedFiles /\ Outside'.files.marker /\ ~Outside'.files.manual
    BY <1>1, FilesAtEnd
  <2>2. Outside.files \in ViewedFiles
    BY <1>1, <1>2, OutsideAtEnd DEF SeenFiles, ViewedFiles, CoreInv, SetupInv, TypeOK
  <2> QED BY <2>1, <2>2, FilesUpdate
<1>5. Assumed!StartCore
  BY <1>1, <1>2, <1>3, <1>4, OutsideAtEnd, CommittedCore DEF Assumed!StartCore, Assumed!MarkActive
<1>6. ~call.back
  BY <1>1 DEF CoreInv, SetupInv, CallFits
<1> QED BY <1>1, <1>5, <1>6, CommittedCore DEF Contract, Ended, At

\* A stop answers with success only when the rules are gone and sing-box was seen
\* to be dead.
LEMMA ForgetContract == ASSUME CoreInv, Forget PROVE Contract
<1>1. /\ call.op = "stop" /\ at = "forget" /\ at' = "idle" /\ state' = "stopped"
      /\ answer' = (IF call.ok /\ ~call.dirty THEN "ok" ELSE "failed")
      /\ UNCHANGED <<proc, stray, rules, files>>
  BY DEF Forget, End, children, disk, CoreInv, SetupInv, CallFits, StepsOf, TypeOK, Call
<1> DEFINE ok == answer' = "ok"
<1>2. ok <=> call.ok /\ ~call.dirty
  BY <1>1
<1>3. Outside'.core = Assumed!Stopped
  BY <1>1, OutsideAtEnd DEF Assumed!Stopped, CoreInv, SetupInv, CoreFits, SingBox, NoProcess
<1>4. Outside'.files = [Outside.files EXCEPT !.marker = FALSE]
  <2>1. /\ ~files.marker /\ files \in [marker : BOOLEAN, manual : BOOLEAN]
        /\ seen.files \in ViewedFiles /\ seen.files.manual = files.manual
    BY <1>1 DEF CoreInv, SeenInv, StopSees, SetupInv, TypeOK
  <2>2. Outside'.files \in ViewedFiles /\ Outside'.files.marker = FALSE
        /\ Outside'.files.manual = files.manual
    BY <1>1, <2>1, OutsideAtEnd DEF ViewedFiles
  <2>3. Outside.files \in ViewedFiles /\ Outside.files.manual = files.manual
    BY <1>1, <2>1, OutsideAtEnd
  <2> QED BY <2>2, <2>3, FilesUpdate
<1>5. Outside'.rules \in {FALSE, ~ok /\ Outside.rules}
  BY <1>1, <1>2, OutsideAtEnd DEF CoreInv, SeenInv, StopSees, Installed
<1>6. \/ stray["sing-box"] = seen.stray
      \/ seen.core.proc = "none" /\ ~stray["sing-box"]
      \/ seen.core.proc = "alive" /\ ~call.ok /\ stray["sing-box"]
  BY <1>1 DEF CoreInv, SeenInv, StopSees
<1>7. stray["sing-box"] \in BOOLEAN
  BY DEF CoreInv, SetupInv, TypeOK, Programs
<1>8. Outside'.stray \in CASE Outside.core.proc = "none"         -> {Outside.stray, FALSE}
                           [] Outside.core.proc = "alive" /\ ~ok -> {Outside.stray, TRUE}
                           [] OTHER                              -> {Outside.stray}
  BY <1>1, <1>2, <1>6, <1>7, OutsideAtEnd
<1>9. Assumed!StopCore(ok)
  BY <1>3, <1>4, <1>5, <1>8 DEF Assumed!StopCore
<1> QED BY <1>1, <1>9 DEF Contract, Ended, At

\* A swap that is rejected has changed nothing.
LEMMA RejectedSwapContract ==
  ASSUME CoreInv, call.op = "swap", at \in {"render", "killOld"}, at' = "idle",
         answer' = "failed", UNCHANGED <<state, proc, stray, rules, files>>
  PROVE  Contract
<1>1. seen = View /\ View' = View
  BY DEF CoreInv, SeenInv, SwapSees, View
<1>2. Assumed!SwapFails
  BY <1>1, OutsideAtEnd DEF Assumed!SwapFails, Outside, View
<1> QED BY <1>2 DEF Contract, Ended, At

\* A swap that loses the runtime says so in the state and the marker.
LEMMA UnmarkContract == ASSUME CoreInv, Unmark PROVE Contract
<1>1. /\ call.op = "swap" /\ at = "unmark" /\ at' = "idle" /\ answer' = "failed"
      /\ files' = [files EXCEPT !.marker = FALSE] /\ UNCHANGED <<state, rules>>
  BY DEF CoreInv, SetupInv, CallFits, StepsOf, TypeOK, Call, Unmark, End
<1>2. PICK ok \in BOOLEAN : Killed("xray", ok)
  BY DEF Unmark, DroppedXray
<1>3. proc'["sing-box"] = proc["sing-box"] /\ stray'["sing-box"] = stray["sing-box"]
  BY <1>2, KilledFacts DEF CoreInv, SetupInv, Programs
<1>4. Outside'.core = [state |-> "degraded", proc |-> "none"]
  BY <1>1, <1>3, OutsideAtEnd DEF CoreInv, SetupInv, CoreFits, SeenInv, SwapSees, SingBox,
     NoProcess
<1>5. Outside'.files = [Outside.files EXCEPT !.marker = FALSE]
  <2>1. /\ files'.marker = FALSE /\ files'.manual = files.manual
        /\ files' \in [marker : BOOLEAN, manual : BOOLEAN]
    BY <1>1 DEF CoreInv, SetupInv, TypeOK
  <2>2. Outside'.files \in ViewedFiles /\ Outside'.files.marker = FALSE
        /\ Outside'.files.manual = files.manual
    BY <1>1, <2>1, FilesAtEnd
  <2>3. Outside.files \in ViewedFiles /\ Outside.files.manual = files.manual
    BY <1>1, OutsideAtEnd DEF CoreInv, SeenInv, SwapSees, SeenFiles, ViewedFiles, SetupInv,
       TypeOK
  <2> QED BY <2>2, <2>3, FilesUpdate
<1>6. Outside'.rules \in {Outside.rules, FALSE}
  BY <1>1, OutsideAtEnd DEF CoreInv, SeenInv, SwapSees, Installed
<1>7. Outside'.stray \in {Outside.stray, TRUE}
  <2>1. stray["sing-box"] \in BOOLEAN /\ seen.stray \in BOOLEAN
    BY DEF CoreInv, SetupInv, TypeOK, Programs, SeenInv
  <2>2. seen.stray => stray["sing-box"]
    BY <1>1 DEF CoreInv, SeenInv, SwapSees
  <2> QED BY <1>1, <1>3, <2>1, <2>2, OutsideAtEnd
<1>8. Assumed!SwapFails
  BY <1>4, <1>5, <1>6, <1>7 DEF Assumed!SwapFails
<1> QED BY <1>1, <1>8 DEF Contract, Ended, At

\* A swap that succeeds has done what SwapCore of RootRuntime.tla says.
LEMMA CommitSwapContract == ASSUME CoreInv, CommitSwap PROVE Contract
<1>1. /\ call.op = "swap" /\ at = "commit" /\ ~call.back /\ at' = "idle" /\ answer' = "ok"
      /\ state' = "running" /\ running' = Target
      /\ files' = [marker |-> TRUE, manual |-> FALSE] /\ UNCHANGED <<proc, stray, rules>>
  BY DEF CommitSwap, At, End, children
<1>2. /\ seen.stray = stray["sing-box"] /\ SeenFiles /\ seen.rules = Installed(rules)
  BY <1>1 DEF CoreInv, SeenInv, SwapSees
<1>3. Outside'.files = [Outside.files EXCEPT !.marker = TRUE, !.manual = FALSE]
  <2>1. Outside'.files \in ViewedFiles /\ Outside'.files.marker /\ ~Outside'.files.manual
    BY <1>1, FilesAtEnd
  <2>2. Outside.files \in ViewedFiles
    BY <1>1, <1>2, OutsideAtEnd DEF SeenFiles, ViewedFiles, CoreInv, SetupInv, TypeOK
  <2> QED BY <2>1, <2>2, FilesUpdate
<1>4. Outside'.rules = Outside.rules
  BY <1>1, <1>2, OutsideAtEnd
<1>5. Assumed!SwapCore
  BY <1>1, <1>2, <1>3, <1>4, OutsideAtEnd, CommittedCore DEF Assumed!SwapCore, Assumed!MarkActive
<1> QED BY <1>1, <1>5, CommittedCore DEF Contract, Ended, At

\* A swap that was rolled back has the previous runtime running again.
LEMMA CommitRestoreContract == ASSUME CoreInv, CommitRestore PROVE Contract
<1>1. /\ call.op = "swap" /\ at = "commit" /\ call.back /\ at' = "idle"
      /\ answer' = "preserved" /\ state' = "running" /\ running' = running
      /\ files' = [files EXCEPT !.marker = TRUE] /\ UNCHANGED <<proc, stray, rules>>
  BY DEF CommitRestore, At, End, children, memory
<1>2. Target = running /\ running # NoSetup
  BY <1>1 DEF Target, CoreInv, SetupInv, CallFits
<1>3. /\ seen.stray => stray["sing-box"]
      /\ SeenFiles /\ seen.rules = Installed(rules)
  BY <1>1, <1>2 DEF CoreInv, SeenInv, SwapSees
<1>4. Outside'.files = [Outside.files EXCEPT !.marker = TRUE]
  <2>1. /\ files'.marker = TRUE /\ files'.manual = files.manual
        /\ files' \in [marker : BOOLEAN, manual : BOOLEAN]
    BY <1>1 DEF CoreInv, SetupInv, TypeOK
  <2>2. Outside'.files \in ViewedFiles /\ Outside'.files.marker = TRUE
        /\ Outside'.files.manual = files.manual
    BY <1>1, <2>1, FilesAtEnd
  <2>3. Outside.files \in ViewedFiles /\ Outside.files.manual = files.manual
    BY <1>1, <1>3, OutsideAtEnd DEF SeenFiles, ViewedFiles, CoreInv, SetupInv, TypeOK
  <2> QED BY <2>2, <2>3, FilesUpdate
<1>5. Outside'.rules = Outside.rules
  BY <1>1, <1>3, OutsideAtEnd
<1>6. Outside'.stray \in {Outside.stray, TRUE}
  <2>1. stray["sing-box"] \in BOOLEAN /\ seen.stray \in BOOLEAN
    BY DEF CoreInv, SetupInv, TypeOK, Programs, SeenInv
  <2> QED BY <1>1, <1>3, <2>1, OutsideAtEnd
<1>7. Assumed!SwapRestored
  BY <1>1, <1>4, <1>5, <1>6, CommittedCore DEF Assumed!SwapRestored
<1> QED BY <1>1, <1>7, CommittedCore DEF Contract, Ended, At

\* A step that does not end a call, and one that begins one, promises nothing yet.
LEMMA InsideContract ==
  ASSUME at = "idle" \/ at' # "idle" \/ answer' = "crashed"
  PROVE  Contract
PROOF BY DEF Contract, Ended

\* Every step of the specification keeps the contract.
LEMMA NextKeepsContract == ASSUME CoreInv, [Next]_vars PROVE Contract
<1>1. CASE Calls
  <2>1. at = "idle"
    BY <1>1 DEF Calls, Start, HotSwap, MarkSelectorActive, Stop, SetConfig, SetState, ResetState,
       Begin, Idle
  <2> QED BY <2>1, InsideContract
<1>2. CASE StartSteps
  <2>1. CASE \/ RenderForStart \/ OwnersDiffer \/ ApplyRules \/ VerifyRules \/ CleanAfterStart
             \/ Rollback
    <3>1. at' # "idle"
      BY <2>1 DEF RenderForStart, OwnersDiffer, ApplyRules, VerifyRules, CleanAfterStart,
         Rollback, Net, Goto
    <3> QED BY <3>1, InsideContract
  <2> QED BY <1>2, <2>1, RefuseContract, EarlyFailureContract, UnwindContract,
          CommitStartContract DEF StartSteps
<1>3. CASE SpawnSteps
  <2>1. CASE SpawnXrayFails /\ call.op = "start"
    BY <2>1, EarlyFailureContract
  <2>2. CASE ~(SpawnXrayFails /\ call.op = "start")
    <3>1. at' # "idle"
      BY <1>3, <2>2 DEF SpawnSteps, SpawnXray, SpawnXrayFails, WaitXray, SpawnCore,
         SpawnCoreFails, WaitListeners, Goto, Undo
    <3> QED BY <3>1, InsideContract
  <2> QED BY <2>1, <2>2
<1>4. CASE StopSteps
  <2>1. CASE CleanForStop \/ KillCore \/ KillXray
    <3>1. at' # "idle"
      BY <2>1 DEF CleanForStop, KillCore, KillXray, KillStep, Net
    <3> QED BY <3>1, InsideContract
  <2> QED BY <1>4, <2>1, ForgetContract DEF StopSteps
<1>5. CASE SwapSteps
  <2>1. CASE RenderForSwap \/ KillOld
    <3>1. CASE at' # "idle"
      BY <3>1, InsideContract
    <3>2. CASE at' = "idle"
      <4>1. /\ at \in {"render", "killOld"} /\ answer' = "failed"
            /\ UNCHANGED <<state, proc, stray, rules, files>>
        BY <2>1, <3>2 DEF RenderForSwap, KillOld, Goto, End, At, children, disk
      <4>2. call.op = "swap"
        BY <2>1 DEF RenderForSwap, KillOld, At, CoreInv, SetupInv, CallFits, StepsOf, TypeOK, Call
      <4> QED BY <3>2, <4>1, <4>2, RejectedSwapContract
    <3> QED BY <3>1, <3>2
  <2>2. CASE StopOldXray \/ CommitSwapFails \/ Restore \/ RestoreXray \/ Degrade
    <3>1. at' # "idle"
      BY <2>2 DEF StopOldXray, CommitSwapFails, Restore, RestoreXray, Degrade, Goto, Undo
    <3> QED BY <3>1, InsideContract
  <2> QED BY <1>5, <2>1, <2>2, CommitSwapContract, CommitRestoreContract, UnmarkContract
          DEF SwapSteps
<1>6. CASE Environment
  <2>1. at = "idle" \/ at' # "idle" \/ answer' = "crashed"
    BY <1>6 DEF Environment, ChildDies, StrayDies, Crash
  <2> QED BY <2>1, InsideContract
<1>7. CASE UNCHANGED vars
  <2>1. at = "idle" \/ at' # "idle"
    BY <1>7 DEF vars
  <2> QED BY <2>1, InsideContract
<1> QED BY <1>1, <1>2, <1>3, <1>4, <1>5, <1>6, <1>7 DEF Next

\* However a call of the core manager ends, it leaves the state, the process, the
\* rules and the files as one step of RootRuntime.tla does: what is proved of the
\* actor with calls of one step holds of the calls of many.
THEOREM CallsKeepContract == Spec => CallContract
<1>1. CoreInv /\ [Next]_vars => [Contract]_vars
  BY NextKeepsContract
<1>2. Spec => [][Contract]_vars
  BY <1>1, CoreInductive, PTL DEF Spec
<1>3. [][Contract]_vars => CallContract
  BY DEF Contract, CallContract
<1> QED BY <1>2, <1>3
=============================================================================
