--------------------------- MODULE ConfigApplyProofs ---------------------------
(***************************************************************************)
(* What a mutation of the configuration promises, for every set of         *)
(* requests and changes and every number of mutations and faults: the      *)
(* answer tells what is stored, a crash leaves the old configuration or    *)
(* the new one, and the runtime follows what was committed.                *)
(*                                                                         *)
(* None of the three is inductive.  They speak of a mutation that met no   *)
(* other one, so ApplyInv says of the actor that began last (Own) how far  *)
(* it has brought the two files (FilesSoFar), what it promised its caller  *)
(* (RequestSoFar), how far the daemon and the core manager know of it      *)
(* (MemorySoFar), and that the plan it made is enough for what runs        *)
(* (RuntimeSoFar), also while a start, a stop or a reload goes on beside   *)
(* it.  Alone says that nobody else is under way or holds a file open.     *)
(***************************************************************************)
EXTENDS ConfigApply, TLAPS

-----------------------------------------------------------------------------
(* The invariant                                                           *)

\* What the parts of a configuration may be.
Values == {First[p] : p \in Parts} \cup {c.value : c \in Changes}
Conf == [node : Values, dns : Values, rules : Values, root : Values]
Content == Conf \cup {Empty, Torn}
Rules == [rules : Values, root : Values]
Plans == [full : BOOLEAN, reapply : BOOLEAN]
Ops == [kind : {"none", "start", "stop", "reload"},
        cfg : Conf, plan : Plans, target : BOOLEAN]
Cores == [running : BOOLEAN, proc : Conf, rules : Rules \cup {NoRules}]
Handles == {"none", "tmp", "file", "gone"}

\* The steps of an actor: those that save the profile or config.json, those that follow
\* the plan until the change is committed, and those after it.
Saving == {"open", "write", "rename"}
Planned == {"apply", "idle2", "open", "write", "rename", "commit"}
Committed == {"sync", "select", "mark", "run"}
Steps == {"idle", "check", "plan", "publish", "done"} \cup Planned \cup Committed

\* What a restart would have loaded (boot) is whatever it was when two mutations met.
ActOK(a) ==
  /\ a = [pc |-> a.pc, file |-> a.file, change |-> a.change, next |-> a.next, was |-> a.was,
          now |-> a.now, plan |-> a.plan, target |-> a.target, switch |-> a.switch,
          answer |-> a.answer, boot |-> a.boot]
  /\ a.pc \in Steps /\ a.file \in Files /\ a.next \in Conf /\ a.plan \in Plans
  /\ a.target \in BOOLEAN /\ a.switch \in BOOLEAN /\ a.was \in BOOLEAN /\ a.now \in BOOLEAN
  /\ a.change \in Changes \cup {NoChange, Hup}

\* Every variable has its type, and a core that is stopped has no rules.
TypeOK ==
  /\ cfg \in Conf /\ coreCfg \in Conf
  /\ disk \in [Files -> Content] /\ tmp \in [Files -> Content \cup {Missing}]
  /\ handle \in [Actors -> Handles]
  /\ core \in Cores /\ (~core.running => core.rules = NoRules)
  /\ op \in Ops
  /\ (op = NoOp <=> op.kind = "none")
  /\ act = [r \in Actors |-> act[r]] /\ \A r \in Actors : ActOK(act[r])
  /\ up \in BOOLEAN /\ overlap \in BOOLEAN /\ skipped \in BOOLEAN /\ last \in Actors

\* A daemon that is down does nothing.
Down == ~up =>
  /\ \A r \in Actors : act[r] = Idle /\ handle[r] = "none"
  /\ op = NoOp /\ ~core.running

\* The actor that began last, the only one as long as no two mutations meet.
Own == act[last]
Alone == \A s \in Actors :
  /\ s # last => ~Underway(s)
  /\ handle[s] = IF s = last /\ Own.pc \in {"write", "rename"} THEN "tmp" ELSE "none"

\* How far the files have come.
FilesSoFar ==
  /\ disk["profile"] \in Conf /\ disk["config"] \in Conf
  /\ Own.pc = "write" => tmp[Own.file] = Empty
  /\ Own.pc = "rename" => tmp[Own.file] = Own.next
  /\ Own.pc \in (Steps \ {"idle", "check", "done"}) \ Saving => Own.file = "config"
  /\ Own.pc = "check" => Own.file = "profile"
  /\ up /\ Own.pc # "commit" => disk["config"].root = cfg.root
  /\ Own.pc \in {"commit", "publish"} \cup Committed => disk["config"] = Own.next

\* What a request has done to the files, and what it answers.
RequestSoFar == last \in Requests =>
  /\ Underway(last) /\ Own.change.kind = "profile" => Own.next.root = disk["config"].root
  /\ Underway(last) /\ Own.file = "profile" => Loaded = Own.boot
  /\ Underway(last) /\ Own.file = "config" => disk["profile"] = Own.next
  /\ At(last, "done") =>
       CASE Own.answer = "failed" -> Loaded = Own.boot
         [] Own.answer = "saved_not_applied" ->
              Loaded = [Own.next EXCEPT !.root = disk["config"].root]
         [] OTHER -> /\ disk["profile"] = Own.next /\ disk["config"] = Own.next
                     /\ cfg = Own.next /\ coreCfg = Own.next

\* How far the configuration has come in memory, and what the plan was made for.
MemorySoFar ==
  /\ Own.pc # "publish" => coreCfg = cfg
  /\ Own.pc \in {"publish"} \cup Committed => cfg = Own.next
  /\ Own.pc \in Planned \cup {"publish"} /\ Own.file = "config" /\ coreCfg # Own.next =>
       /\ Own.plan = PlanReload(coreCfg, Own.next)
       /\ Own.target => SelectorSwitch(coreCfg, Own.next)
  /\ Own.pc \in Planned \cup {"publish"} \cup Committed /\ Own.file = "config" /\ Own.target =>
       Own.plan = NoPlan
  /\ Own.switch => Own.target
  /\ Own.pc \in {"select", "mark"} => Own.target

\* The kernel has the rules of c, or none; sing-box and the kernel run with c.
RulesOf(c) == core.rules \in {NoRules, [rules |-> c.rules, root |-> c.root]}
Follows(c) == core.proc = c /\ RulesOf(c)

\* A reload with the plan p would have them run with c: the plan is enough.
Reaches(c, p, target) ==
  \/ p.full
  \/ /\ p.reapply \/ RulesOf(c)
     /\ target => core.proc = [c EXCEPT !.node = core.proc.node]

\* The runtime runs, and no change was left out.
Follow == ~skipped /\ core.running

\* What the runtime runs with, as long as no change was left out.
RuntimeSoFar ==
  /\ op.kind = "reload" =>
       /\ Own.pc \in {"idle", "done", "check", "plan", "apply", "idle2"}
       /\ op.cfg = cfg
       /\ op.target => op.plan = NoPlan
       /\ Follow => Reaches(cfg, op.plan, op.target)
       /\ Own.pc \in {"apply", "idle2"} => Own.plan = PlanReload(cfg, Own.next)
                                        /\ (Own.target => SelectorSwitch(cfg, Own.next))
  /\ op.kind # "reload" /\ Follow =>
       /\ Own.pc \in {"idle", "done", "check", "plan", "mark"} \/ Own.file = "profile" =>
            Follows(cfg)
       /\ Own.pc \in Planned => Follows(cfg) \/ cfg = Own.next
       /\ Own.pc \in Planned \cup {"publish"} \cup Committed /\ Own.file = "config" =>
            Reaches(Own.next, Own.plan, Own.target)

\* What holds of a mutation that met no other one, in a daemon that is up.
ApplyInv ==
  /\ TypeOK /\ Down
  /\ ~overlap => Alone /\ FilesSoFar
  /\ ~overlap /\ up => RequestSoFar /\ MemorySoFar /\ RuntimeSoFar

-----------------------------------------------------------------------------
(* Configurations and actors                                               *)

\* The first configuration has values.
LEMMA FirstFact == First \in Conf
<1>1. First = [p \in Parts |-> First[p]]
  BY FirstAssumption
<1>2. \A p \in Parts : First[p] \in Values
  BY DEF Values
<1>3. DOMAIN First = {"node", "dns", "rules", "root"}
  BY <1>1 DEF Parts
<1>4. First = [node |-> First["node"], dns |-> First["dns"],
               rules |-> First["rules"], root |-> First["root"]]
  BY <1>1 DEF Parts
<1> QED BY <1>2, <1>4 DEF Conf, Parts

\* What is no configuration does not load.
LEMMA ContentFacts ==
  ASSUME NEW c \in Content \cup {Missing}
  PROVE  IsConfig(c) <=> c \in Conf
<1>1. c \in Conf => IsConfig(c)
  BY DEF Conf, IsConfig
<1>2. ~IsConfig(Empty) /\ ~IsConfig(Torn) /\ ~IsConfig(Missing)
  BY DEF IsConfig, Empty, Torn, Missing
<1> QED BY <1>1, <1>2 DEF Content

\* A change makes a configuration of a configuration.
LEMMA ChangedFacts ==
  ASSUME NEW base \in Conf, NEW c \in Changes
  PROVE  /\ Changed(base, c) \in Conf
         /\ c.kind = "profile" => Changed(base, c).root = base.root
<1>1. c.part \in {"node", "dns", "rules", "root"} /\ c.value \in Values
  BY ChangesAssumption DEF Parts, Values
<1>2. CASE c.part = "node"
  <2>1. Changed(base, c) = [base EXCEPT !.node = c.value]
    BY <1>2 DEF Changed
  <2> QED BY <1>1, <2>1 DEF Conf
<1>3. CASE c.part = "dns"
  <2>1. Changed(base, c) = [base EXCEPT !.dns = c.value]
    BY <1>3 DEF Changed
  <2> QED BY <1>1, <2>1 DEF Conf
<1>4. CASE c.part = "rules"
  <2>1. Changed(base, c) = [base EXCEPT !.rules = c.value]
    BY <1>4 DEF Changed
  <2> QED BY <1>1, <2>1 DEF Conf
<1>5. CASE c.part = "root"
  <2>1. Changed(base, c) = [base EXCEPT !.root = c.value]
    BY <1>5 DEF Changed
  <2> QED BY <1>1, <1>5, <2>1, ChangesAssumption DEF Conf
<1> QED BY <1>1, <1>2, <1>3, <1>4, <1>5

\* r goes on to pc, or ends with an answer; nobody else does anything.
Moves(r, pc) ==
  /\ act' = [s \in Actors |-> act'[s]] /\ \A s \in Actors : ActOK(act'[s])
  /\ \A s \in Actors : s # r => act'[s] = act[s]
  /\ act'[r].pc = pc /\ act'[r].file = act[r].file /\ act'[r].change = act[r].change
  /\ act'[r].next = act[r].next /\ act'[r].plan = act[r].plan
  /\ (act'[r].target <=> act[r].target) /\ (act'[r].switch <=> act[r].switch)
  /\ act'[r].boot = act[r].boot
Ends(r, answer) ==
  /\ act' = [s \in Actors |-> act'[s]] /\ \A s \in Actors : ActOK(act'[s])
  /\ \A s \in Actors : s # r => act'[s] = act[s]
  /\ act'[r].pc = "done" /\ act'[r].answer = answer
  /\ act'[r].next = act[r].next /\ act'[r].boot = act[r].boot
  /\ act'[r].file = "profile" /\ ~act'[r].switch /\ ~act'[r].target

\* An actor that goes on changes nothing but its step.
LEMMA GotoFacts ==
  ASSUME TypeOK, NEW r \in Actors, NEW pc \in Steps, Goto(r, pc)
  PROVE  Moves(r, pc)
<1>1. act' = [act EXCEPT ![r].pc = pc] /\ act = [s \in Actors |-> act[s]] /\ ActOK(act[r])
  BY DEF TypeOK, Goto
<1>2. /\ act' = [s \in Actors |-> act'[s]] /\ \A s \in Actors : s # r => act'[s] = act[s]
      /\ act'[r] = [act[r] EXCEPT !.pc = pc]
  BY <1>1
<1>3. act'[r] = [pc |-> pc, file |-> act[r].file, change |-> act[r].change, next |-> act[r].next,
                 was |-> act[r].was, now |-> act[r].now, plan |-> act[r].plan,
                 target |-> act[r].target, switch |-> act[r].switch,
                 answer |-> act[r].answer, boot |-> act[r].boot]
  BY <1>1, <1>2 DEF ActOK
<1>4. ActOK(act'[r])
  BY <1>1, <1>3 DEF ActOK
<1> QED BY <1>2, <1>3, <1>4 DEF TypeOK, Moves

\* An actor that answers is done, and only what it wanted and found is remembered.
LEMMA AnswerFacts ==
  ASSUME TypeOK, NEW r \in Actors, NEW answer, Answer(r, answer)
  PROVE  Ends(r, answer)
<1>1. /\ act' = [act EXCEPT ![r] = [Idle EXCEPT !.pc = "done", !.answer = answer,
                                    !.next = act[r].next, !.boot = act[r].boot]]
      /\ act = [s \in Actors |-> act[s]] /\ ActOK(act[r])
  BY DEF TypeOK, Answer
<1>2. act'[r] = [pc |-> "done", file |-> "profile", change |-> NoChange, next |-> act[r].next,
                 was |-> FALSE, now |-> FALSE, plan |-> NoPlan, target |-> FALSE,
                 switch |-> FALSE, answer |-> answer, boot |-> act[r].boot]
  BY <1>1 DEF Idle
<1>3. act[r].next \in Conf
  BY <1>1 DEF ActOK
<1>4. ActOK(act'[r])
  <2>1. /\ "done" \in Steps /\ "profile" \in Files /\ NoPlan \in Plans
        /\ NoChange \in Changes \cup {NoChange, Hup}
    BY DEF Files, Steps, NoPlan, Plans
  <2> QED BY <1>2, <1>3, <2>1 DEF ActOK
<1>5. act' = [s \in Actors |-> act'[s]] /\ \A s \in Actors : s # r => act'[s] = act[s]
  BY <1>1
<1>6. \A s \in Actors : ActOK(act'[s])
  BY <1>4, <1>5 DEF TypeOK
<1> QED BY <1>2, <1>5, <1>6 DEF Ends

-----------------------------------------------------------------------------
(* What loads, and who is under way                                        *)

\* What loads is the profile, with what only config.json holds.
LEMMA LoadedFacts ==
  ASSUME disk["profile"] \in Conf
  PROVE  Loaded = [disk["profile"] EXCEPT !.root = disk["config"].root]
<1>1. LoadedProfile = disk["profile"]
  BY ContentFacts DEF LoadedProfile, Content
<1> QED BY <1>1 DEF Loaded, Projection, Conf

\* Who is under way runs in a daemon that is up, and alone began last.
LEMMA UnderwayFacts ==
  ASSUME ApplyInv, NEW r \in Actors, act[r].pc \notin {"idle", "done"}
  PROVE  up /\ (~overlap => r = last)
<1>1. Idle.pc = "idle"
  BY DEF Idle
<1> QED BY <1>1 DEF ApplyInv, Down, Alone, Underway

-----------------------------------------------------------------------------
(* An actor saves the files                                                *)

\* CheckIdle keeps ApplyInv: nothing is saved yet, so a busy runtime costs nothing.
LEMMA CheckIdleKeeps == ASSUME ApplyInv, NEW r \in Actors, CheckIdle(r) PROVE ApplyInv'
<1>1. TypeOK
  BY DEF ApplyInv
<1>2. /\ act[r].pc = "check"
      /\ UNCHANGED <<cfg, coreCfg, disk, tmp, handle, core, op, up, overlap, skipped, last>>
      /\ \/ op = NoOp /\ Goto(r, "open")
         \/ Answer(r, "failed")
  BY DEF CheckIdle, At, memory, files, life
<1>3. up /\ (~overlap => r = last)
  BY <1>2, UnderwayFacts
<1>4. (op = NoOp /\ Moves(r, "open")) \/ Ends(r, "failed")
  BY <1>1, <1>2, GotoFacts, AnswerFacts DEF Steps, Planned
<1>5. TypeOK'
  BY <1>1, <1>2, <1>4 DEF TypeOK, Moves, Ends
<1>6. Down'
  BY <1>2, <1>3 DEF Down
<1> SUFFICES ASSUME ~overlap
             PROVE  Alone' /\ FilesSoFar' /\ RequestSoFar' /\ MemorySoFar' /\ RuntimeSoFar'
  BY <1>2, <1>5, <1>6 DEF ApplyInv
<1>7. r = last /\ Alone /\ FilesSoFar /\ RequestSoFar /\ MemorySoFar /\ RuntimeSoFar
  BY <1>3 DEF ApplyInv
<1>8. Alone'
  BY <1>2, <1>4, <1>7 DEF Alone, Own, Underway, Moves, Ends
<1>9. FilesSoFar'
  BY <1>2, <1>4, <1>7 DEF FilesSoFar, Own, Committed, Saving, Moves, Ends
<1>10. RequestSoFar'
  BY <1>2, <1>4, <1>7 DEF RequestSoFar, FilesSoFar, Own, Underway, At, Loaded,
     LoadedProfile, Moves, Ends
<1>11. MemorySoFar'
  BY <1>2, <1>4, <1>7 DEF MemorySoFar, FilesSoFar, Own, Committed, Moves, Ends
<1>12. RuntimeSoFar'
  BY <1>2, <1>4, <1>7 DEF RuntimeSoFar, FilesSoFar, Own, Follow, Follows, Reaches, RulesOf, NoOp,
     Moves, Ends
<1> QED BY <1>8, <1>9, <1>10, <1>11, <1>12

\* OpenTmp keeps ApplyInv: the file itself is not touched.
LEMMA OpenTmpKeeps == ASSUME ApplyInv, NEW r \in Actors, OpenTmp(r) PROVE ApplyInv'
<1>1. TypeOK
  BY DEF ApplyInv
<1>2. /\ act[r].pc = "open" /\ Goto(r, "write")
      /\ tmp' = [tmp EXCEPT ![act[r].file] = Empty] /\ handle' = [handle EXCEPT ![r] = "tmp"]
      /\ UNCHANGED <<cfg, coreCfg, disk, core, op, up, overlap, skipped, last>>
  BY DEF OpenTmp, At, memory, life
<1>3. up /\ (~overlap => r = last)
  BY <1>2, UnderwayFacts
<1>4. Moves(r, "write")
  BY <1>1, <1>2, GotoFacts DEF Steps, Planned
<1>5. TypeOK'
  <2>1. tmp' \in [Files -> Content \cup {Missing}] /\ handle' \in [Actors -> Handles]
    BY <1>1, <1>2 DEF TypeOK, Content, Handles
  <2> QED BY <1>1, <1>2, <1>4, <2>1 DEF TypeOK, Moves
<1>6. Down'
  BY <1>2, <1>3 DEF Down
<1> SUFFICES ASSUME ~overlap
             PROVE  Alone' /\ FilesSoFar' /\ RequestSoFar' /\ MemorySoFar' /\ RuntimeSoFar'
  BY <1>2, <1>5, <1>6 DEF ApplyInv
<1>7. r = last /\ Alone /\ FilesSoFar /\ RequestSoFar /\ MemorySoFar /\ RuntimeSoFar
  BY <1>3 DEF ApplyInv
<1>8. tmp'[act[r].file] = Empty
  BY <1>1, <1>2 DEF TypeOK, ActOK
<1>9. Alone'
  BY <1>1, <1>2, <1>4, <1>7 DEF Alone, Own, Underway, Moves, TypeOK
<1>10. FilesSoFar'
  BY <1>2, <1>4, <1>7, <1>8 DEF FilesSoFar, Own, Committed, Saving, Moves
<1>11. RequestSoFar'
  BY <1>2, <1>4, <1>7, <1>8 DEF RequestSoFar, Own, Underway, At, Loaded, LoadedProfile,
     Moves
<1>12. MemorySoFar'
  BY <1>2, <1>4, <1>7, <1>8 DEF MemorySoFar, Own, Planned, Committed, Moves
<1>13. RuntimeSoFar'
  BY <1>2, <1>4, <1>7, <1>8 DEF RuntimeSoFar, Own, Planned, Follow, Follows, Reaches, RulesOf, Moves
<1> QED BY <1>9, <1>10, <1>11, <1>12, <1>13

\* WriteTmp keeps ApplyInv: alone, the actor writes f.tmp, and the whole of it.
LEMMA WriteTmpKeeps == ASSUME ApplyInv, NEW r \in Actors, WriteTmp(r) PROVE ApplyInv'
<1>1. TypeOK
  BY DEF ApplyInv
<1>2. /\ act[r].pc = "write" /\ Goto(r, "rename")
      /\ UNCHANGED <<cfg, coreCfg, handle, core, op, up, overlap, skipped, last>>
      /\ \/ /\ handle[r] = "tmp" /\ UNCHANGED disk
            /\ \E c \in Over(tmp[act[r].file], act[r].next) :
                 tmp' = [tmp EXCEPT ![act[r].file] = c]
         \/ /\ handle[r] # "tmp" /\ UNCHANGED tmp
            /\ \/ UNCHANGED disk
               \/ \E c \in {act[r].next, Torn} : disk' = [disk EXCEPT ![act[r].file] = c]
  BY DEF WriteTmp, At, memory, life, Over
<1>3. up /\ (~overlap => r = last)
  BY <1>2, UnderwayFacts
<1>4. Moves(r, "rename")
  BY <1>1, <1>2, GotoFacts DEF Steps, Planned
<1>5. TypeOK'
  <2>1. act[r].next \in Conf /\ act[r].file \in Files
    BY <1>1 DEF TypeOK, ActOK
  <2>2. tmp' \in [Files -> Content \cup {Missing}]
    BY <1>1, <1>2, <2>1 DEF TypeOK, Content, Over
  <2>3. disk' \in [Files -> Content]
    BY <1>1, <1>2, <2>1 DEF TypeOK, Content
  <2> QED BY <1>1, <1>2, <1>4, <2>2, <2>3 DEF TypeOK, Moves
<1>6. Down'
  BY <1>2, <1>3 DEF Down
<1> SUFFICES ASSUME ~overlap
             PROVE  Alone' /\ FilesSoFar' /\ RequestSoFar' /\ MemorySoFar' /\ RuntimeSoFar'
  BY <1>2, <1>5, <1>6 DEF ApplyInv
<1>7. r = last /\ Alone /\ FilesSoFar /\ RequestSoFar /\ MemorySoFar /\ RuntimeSoFar
  BY <1>3 DEF ApplyInv
<1>8. tmp'[act[r].file] = act[r].next /\ UNCHANGED disk
  <2>1. handle[r] = "tmp" /\ tmp[act[r].file] = Empty
    BY <1>2, <1>7 DEF Alone, FilesSoFar, Own
  <2>2. tmp' = [tmp EXCEPT ![act[r].file] = act[r].next]
    BY <1>2, <2>1 DEF Over
  <2> QED BY <1>1, <1>2, <2>1, <2>2 DEF TypeOK, ActOK
<1>9. Alone'
  BY <1>2, <1>4, <1>7, <1>8 DEF Alone, Own, Underway, Moves
<1>10. FilesSoFar'
  BY <1>2, <1>4, <1>7, <1>8 DEF FilesSoFar, Own, Committed, Saving, Moves
<1>11. RequestSoFar'
  BY <1>2, <1>4, <1>7, <1>8 DEF RequestSoFar, Own, Underway, At, Loaded, LoadedProfile,
     Moves
<1>12. MemorySoFar'
  BY <1>2, <1>4, <1>7, <1>8 DEF MemorySoFar, Own, Planned, Committed, Moves
<1>13. RuntimeSoFar'
  BY <1>2, <1>4, <1>7, <1>8 DEF RuntimeSoFar, Own, Planned, Follow, Follows, Reaches, RulesOf, Moves
<1> QED BY <1>9, <1>10, <1>11, <1>12, <1>13

\* A save that fails keeps ApplyInv: the answer depends on whether the profile was saved.
LEMMA SaveFailsKeeps ==
  ASSUME ApplyInv, NEW r \in Actors, act[r].pc \in {"write", "rename"}, SaveFails(r)
  PROVE ApplyInv'
<1>1. TypeOK
  BY DEF ApplyInv
<1>2. /\ act[r].pc \in {"write", "rename"}
      /\ tmp' = [tmp EXCEPT ![act[r].file] = Missing] /\ handle' = AfterRemove(r)
      /\ Answer(r, IF act[r].file = "profile" THEN "failed" ELSE "saved_not_applied")
      /\ EndsUnapplied(r)
      /\ UNCHANGED <<cfg, coreCfg, disk, core, op, up, overlap, last>>
  BY DEF SaveFails, memory, life
<1>3. up /\ (~overlap => r = last)
  BY <1>2, UnderwayFacts
<1>4. Ends(r, IF act[r].file = "profile" THEN "failed" ELSE "saved_not_applied")
  BY <1>1, <1>2, AnswerFacts
<1>5. TypeOK'
  <2>1. tmp' \in [Files -> Content \cup {Missing}]
    BY <1>1, <1>2 DEF TypeOK
  <2>2. handle' \in [Actors -> Handles]
    BY <1>1, <1>2 DEF TypeOK, AfterRemove, Handles
  <2>3. skipped' \in BOOLEAN
    BY <1>2 DEF EndsUnapplied
  <2> QED BY <1>1, <1>2, <1>4, <2>1, <2>2, <2>3 DEF TypeOK, Ends
<1>6. Down'
  BY <1>2, <1>3 DEF Down
<1> SUFFICES ASSUME ~overlap
             PROVE  Alone' /\ FilesSoFar' /\ RequestSoFar' /\ MemorySoFar' /\ RuntimeSoFar'
  BY <1>2, <1>5, <1>6 DEF ApplyInv
<1>7. r = last /\ Alone /\ FilesSoFar /\ RequestSoFar /\ MemorySoFar /\ RuntimeSoFar
  BY <1>3 DEF ApplyInv
<1>8. Alone'
  BY <1>1, <1>2, <1>4, <1>7 DEF Alone, Own, Underway, Ends, AfterRemove
<1>9. FilesSoFar'
  BY <1>2, <1>4, <1>7 DEF FilesSoFar, Own, Committed, Ends
<1>10. RequestSoFar'
  <2>1. /\ Loaded' = Loaded
        /\ disk["profile"] \in Conf =>
             Loaded = [disk["profile"] EXCEPT !.root = disk["config"].root]
    BY <1>2, LoadedFacts DEF Loaded, LoadedProfile
  <2>2. Ends(r, "failed") \/ Ends(r, "saved_not_applied")
    BY <1>4
  <2>3. act[r].file = "profile" =>
          Ends(r, "failed") /\ (last \in Requests => Loaded = act[r].boot)
    BY <1>2, <1>4, <1>7 DEF RequestSoFar, Own, Underway
  <2>4. act[r].file # "profile" =>
          /\ Ends(r, "saved_not_applied")
          /\ last \in Requests => Loaded = [act[r].next EXCEPT !.root = disk["config"].root]
    <3>1. act[r].file \in {"profile", "config"}
      BY <1>1 DEF TypeOK, ActOK, Files
    <3> QED BY <1>2, <1>4, <1>7, <2>1, <3>1 DEF RequestSoFar, FilesSoFar, Own, Underway
  <2> QED BY <1>2, <1>7, <2>1, <2>3, <2>4 DEF RequestSoFar, Own, Underway, Ends
<1>11. MemorySoFar'
  BY <1>2, <1>4, <1>7 DEF MemorySoFar, Own, Committed, Ends
<1>12. RuntimeSoFar'
  BY <1>2, <1>4, <1>7 DEF RuntimeSoFar, EndsUnapplied, Own, Planned, Follow, Follows,
     RulesOf, Ends
<1> QED BY <1>8, <1>9, <1>10, <1>11, <1>12

\* A write that fails, and a file that somebody else renamed.
LEMMA WriteFailsKeeps ==
  ASSUME ApplyInv, NEW r \in Actors, WriteFails(r)
  PROVE  ApplyInv'
PROOF BY SaveFailsKeeps DEF WriteFails, At

\* A rename keeps ApplyInv: one of the files has the change.
LEMMA RenamedKeeps ==
  ASSUME ApplyInv, NEW r \in Actors, RenameTmp(r), tmp[act[r].file] # Missing
  PROVE ApplyInv'
<1>1. TypeOK
  BY DEF ApplyInv
<1>2. /\ act[r].pc = "rename"
      /\ disk' = [disk EXCEPT ![act[r].file] = tmp[act[r].file]]
      /\ tmp' = [tmp EXCEPT ![act[r].file] = Missing] /\ handle' = AfterRename(r)
      /\ act' = [act EXCEPT ![r].pc = IF act[r].file = "profile" THEN "plan" ELSE "commit",
                            ![r].file = "config"]
      /\ UNCHANGED <<cfg, coreCfg, core, op, up, overlap, skipped, last>>
  BY DEF RenameTmp, At, memory, life
<1>3. up /\ (~overlap => r = last)
  BY <1>2, UnderwayFacts
<1>4. /\ act' = [s \in Actors |-> act'[s]] /\ \A s \in Actors : ActOK(act'[s])
      /\ \A s \in Actors : s # r => act'[s] = act[s]
      /\ act'[r].pc = IF act[r].file = "profile" THEN "plan" ELSE "commit"
      /\ act'[r].file = "config" /\ act'[r].change = act[r].change
      /\ act'[r].next = act[r].next /\ act'[r].plan = act[r].plan
      /\ (act'[r].target <=> act[r].target) /\ (act'[r].switch <=> act[r].switch)
      /\ act'[r].boot = act[r].boot
  <2> DEFINE pc == IF act[r].file = "profile" THEN "plan" ELSE "commit"
  <2>1. act = [s \in Actors |-> act[s]] /\ ActOK(act[r])
    BY <1>1 DEF TypeOK
  <2>2. pc \in Steps /\ "config" \in Files
    BY DEF Steps, Planned, Files
  <2>3. /\ act' = [s \in Actors |-> act'[s]] /\ \A s \in Actors : s # r => act'[s] = act[s]
        /\ act'[r] = [act[r] EXCEPT !.pc = pc, !.file = "config"]
    BY <1>2, <2>1
  <2>4. act'[r] = [pc |-> pc, file |-> "config", change |-> act[r].change, next |-> act[r].next,
                   was |-> act[r].was, now |-> act[r].now, plan |-> act[r].plan,
                   target |-> act[r].target, switch |-> act[r].switch,
                   answer |-> act[r].answer, boot |-> act[r].boot]
    BY <2>1, <2>3 DEF ActOK
  <2> HIDE DEF pc
  <2>5. ActOK(act'[r])
    BY <2>1, <2>2, <2>4 DEF ActOK
  <2>6. \A s \in Actors : ActOK(act'[s])
    BY <1>1, <2>3, <2>5 DEF TypeOK
  <2> QED BY <2>3, <2>4, <2>6 DEF pc
<1>5. TypeOK'
  <2>1. act[r].file \in Files /\ tmp[act[r].file] \in Content
    BY <1>1 DEF TypeOK, ActOK
  <2>2. disk' \in [Files -> Content] /\ tmp' \in [Files -> Content \cup {Missing}]
    BY <1>1, <1>2, <2>1 DEF TypeOK
  <2>3. handle' \in [Actors -> Handles]
    BY <1>1, <1>2 DEF TypeOK, AfterRename, Handles
  <2> QED BY <1>1, <1>2, <1>4, <2>2, <2>3 DEF TypeOK
<1>6. Down'
  BY <1>2, <1>3 DEF Down
<1> SUFFICES ASSUME ~overlap
             PROVE  Alone' /\ FilesSoFar' /\ RequestSoFar' /\ MemorySoFar' /\ RuntimeSoFar'
  BY <1>2, <1>5, <1>6 DEF ApplyInv
<1>7. r = last /\ Alone /\ FilesSoFar /\ RequestSoFar /\ MemorySoFar /\ RuntimeSoFar
  BY <1>3 DEF ApplyInv
<1>8. /\ act[r].file \in {"profile", "config"} /\ act[r].next \in Conf
      /\ disk'[act[r].file] = act[r].next
      /\ \A f \in Files : f # act[r].file => disk'[f] = disk[f]
  <2>1. act[r].file \in Files /\ act[r].next \in Conf
    BY <1>1 DEF TypeOK, ActOK
  <2>2. tmp[act[r].file] = act[r].next
    BY <1>2, <1>7 DEF FilesSoFar, Own
  <2> QED BY <1>1, <1>2, <2>1, <2>2 DEF TypeOK, Files
<1>9. Alone'
  BY <1>1, <1>2, <1>4, <1>7 DEF Alone, Own, Underway, AfterRename, TypeOK
<1>10. FilesSoFar'
  BY <1>2, <1>4, <1>7, <1>8 DEF FilesSoFar, Own, Committed
<1>11. RequestSoFar'
  BY <1>2, <1>4, <1>7, <1>8 DEF RequestSoFar, Own, Underway, At
<1>12. MemorySoFar'
  BY <1>2, <1>4, <1>7, <1>8 DEF MemorySoFar, Own, Planned, Committed
<1>13. RuntimeSoFar'
  <2>1. op.kind # "reload"
    BY <1>2, <1>7 DEF RuntimeSoFar, Own
  <2>2. CASE act[r].file = "profile"
    BY <1>2, <1>4, <1>7, <2>1, <2>2 DEF RuntimeSoFar, Own, Planned, Committed, Follow,
       Follows, RulesOf
  <2>3. CASE act[r].file # "profile"
    <3>1. Follow => /\ Follows(cfg) \/ cfg = act[r].next
                    /\ Reaches(act[r].next, act[r].plan, act[r].target)
      BY <1>2, <1>7, <1>8, <2>1, <2>3 DEF RuntimeSoFar, Own, Planned
    <3>2. act'[r].pc = "commit"
      BY <1>4, <2>3
    <3>3. Follow' => /\ Follows(cfg)' \/ cfg' = act'[r].next
                     /\ Reaches(act[r].next, act[r].plan, act[r].target)'
      BY <1>2, <1>4, <3>1 DEF Follow, Follows, Reaches, RulesOf
    <3>4. act'[r].file = "config" /\ op'.kind # "reload" /\ last' = r
      BY <1>2, <1>4, <1>7, <2>1
    <3> QED BY <3>2, <3>3, <3>4 DEF RuntimeSoFar, Own
  <2> QED BY <2>2, <2>3
<1> QED BY <1>9, <1>10, <1>11, <1>12, <1>13

\* RenameTmp keeps ApplyInv: f.tmp is renamed, or it has gone and the save fails.
LEMMA RenameTmpKeeps == ASSUME ApplyInv, NEW r \in Actors, RenameTmp(r) PROVE ApplyInv'
<1>1. CASE tmp[act[r].file] = Missing
  BY <1>1, SaveFailsKeeps DEF RenameTmp, At
<1>2. CASE tmp[act[r].file] # Missing
  BY <1>2, RenamedKeeps
<1> QED BY <1>1, <1>2

-----------------------------------------------------------------------------
(* An actor plans, commits and hands over                                  *)

\* What runs with c would run with n after the reload that is planned from c to n.
LEMMA PlanReaches ==
  ASSUME NEW c \in Conf, NEW n \in Conf, NEW target \in BOOLEAN, Follows(c),
         target => SelectorSwitch(c, n)
  PROVE  Reaches(n, PlanReload(c, n), target)
<1>1. target => c = [n EXCEPT !.node = c.node]
  BY DEF SelectorSwitch, Conf
<1> QED BY <1>1 DEF Reaches, PlanReload, Follows, RulesOf

\* A plan is a plan, and where only the active node changes it asks for nothing.
LEMMA PlanFacts ==
  ASSUME NEW c \in Conf, NEW n \in Conf
  PROVE  PlanReload(c, n) \in Plans /\ (SelectorSwitch(c, n) => PlanReload(c, n) = NoPlan)
<1>1. PlanReload(c, n) \in Plans
  BY DEF PlanReload, Plans
<1>2. SelectorSwitch(c, n) => c.root = n.root /\ c.rules = n.rules
  BY DEF SelectorSwitch, Conf
<1> QED BY <1>1, <1>2 DEF PlanReload, NoPlan

\* Plan keeps ApplyInv: the plan is made for the configuration that runs.
LEMMA PlanKeeps == ASSUME ApplyInv, NEW r \in Actors, Plan(r) PROVE ApplyInv'
<1>1. TypeOK
  BY DEF ApplyInv
<1>2. /\ act[r].pc = "plan"
      /\ act' = [act EXCEPT ![r] = [@ EXCEPT
           !.was = core.running, !.plan = PlanReload(cfg, act[r].next),
           !.target = (act[r].change.kind = "profile" /\ SelectorSwitch(cfg, act[r].next)),
           !.switch = (act[r].change.reload /\ core.running
                       /\ (act[r].change.kind = "profile" /\ SelectorSwitch(cfg, act[r].next))),
           !.pc = IF act[r].change.reload /\ core.running
                     /\ (act[r].change.kind = "profile" /\ SelectorSwitch(cfg, act[r].next))
                  THEN "idle2" ELSE "apply"]]
      /\ UNCHANGED <<cfg, coreCfg, disk, tmp, handle, core, op, up, overlap, skipped, last>>
  BY DEF Plan, At, memory, files, life
<1>3. up /\ (~overlap => r = last)
  BY <1>2, UnderwayFacts
<1>4. /\ act' = [s \in Actors |-> act'[s]] /\ \A s \in Actors : ActOK(act'[s])
      /\ \A s \in Actors : s # r => act'[s] = act[s]
      /\ act'[r].pc \in {"idle2", "apply"} /\ act'[r].file = act[r].file
      /\ act'[r].change = act[r].change /\ act'[r].next = act[r].next
      /\ act'[r].plan = PlanReload(cfg, act[r].next) /\ act'[r].boot = act[r].boot
      /\ act'[r].target => SelectorSwitch(cfg, act[r].next)
      /\ act'[r].switch => act'[r].target
  <2> DEFINE target == act[r].change.kind = "profile" /\ SelectorSwitch(cfg, act[r].next)
             switch == act[r].change.reload /\ core.running /\ target
             pc == IF switch THEN "idle2" ELSE "apply"
             plan == PlanReload(cfg, act[r].next)
  <2>1. act = [s \in Actors |-> act[s]] /\ ActOK(act[r]) /\ cfg \in Conf /\ core.running \in BOOLEAN
    BY <1>1 DEF TypeOK, Cores
  <2>2. pc \in Steps /\ pc \in {"idle2", "apply"}
    BY DEF Steps, Planned
  <2>3. target \in BOOLEAN /\ switch \in BOOLEAN
    BY ChangesAssumption, <2>1
  <2>4. plan \in Plans
    BY <2>1, PlanFacts DEF ActOK
  <2>5. act' = [act EXCEPT ![r] = [@ EXCEPT !.was = core.running, !.plan = plan, !.target = target,
                                           !.switch = switch, !.pc = pc]]
    BY <1>2
  <2> HIDE DEF pc, switch, target, plan
  <2>6. /\ act' = [s \in Actors |-> act'[s]] /\ \A s \in Actors : s # r => act'[s] = act[s]
        /\ act'[r] = [act[r] EXCEPT !.was = core.running, !.plan = plan, !.target = target,
                                    !.switch = switch, !.pc = pc]
    BY <2>1, <2>5
  <2>7. act'[r] = [pc |-> pc, file |-> act[r].file, change |-> act[r].change, next |-> act[r].next,
                   was |-> core.running, now |-> act[r].now, plan |-> plan,
                   target |-> target, switch |-> switch,
                   answer |-> act[r].answer, boot |-> act[r].boot]
    BY <2>1, <2>6 DEF ActOK
  <2>8. ActOK(act'[r])
    BY <2>1, <2>2, <2>3, <2>4, <2>7 DEF ActOK
  <2>9. \A s \in Actors : ActOK(act'[s])
    BY <1>1, <2>6, <2>8 DEF TypeOK
  <2> QED BY <2>2, <2>6, <2>7, <2>9 DEF target, switch, plan
<1>5. TypeOK'
  BY <1>1, <1>2, <1>4 DEF TypeOK
<1>6. Down'
  BY <1>2, <1>3 DEF Down
<1> SUFFICES ASSUME ~overlap
             PROVE  Alone' /\ FilesSoFar' /\ RequestSoFar' /\ MemorySoFar' /\ RuntimeSoFar'
  BY <1>2, <1>5, <1>6 DEF ApplyInv
<1>7. r = last /\ Alone /\ FilesSoFar /\ RequestSoFar /\ MemorySoFar /\ RuntimeSoFar
  BY <1>3 DEF ApplyInv
<1>8. cfg \in Conf /\ act[r].next \in Conf /\ act'[r].target \in BOOLEAN /\ act[r].file = "config"
  BY <1>1, <1>2, <1>4, <1>7 DEF TypeOK, ActOK, FilesSoFar, Own, Saving
<1>9. Alone'
  BY <1>2, <1>4, <1>7, <1>8 DEF Alone, Own, Underway
<1>10. FilesSoFar'
  BY <1>2, <1>4, <1>7, <1>8 DEF FilesSoFar, Own, Committed
<1>11. RequestSoFar'
  BY <1>2, <1>4, <1>7, <1>8 DEF RequestSoFar, Own, Underway, At
<1>12. MemorySoFar'
  BY <1>2, <1>4, <1>7, <1>8, PlanFacts DEF MemorySoFar, Own, Committed
<1>13. RuntimeSoFar'
  <2>1. op.kind # "reload" /\ Follow => Follows(cfg)
    BY <1>2, <1>7 DEF RuntimeSoFar, Own
  <2>2. op.kind # "reload" /\ Follow =>
          Reaches(act[r].next, PlanReload(cfg, act[r].next), act'[r].target)
    BY <1>4, <1>8, <2>1, PlanReaches
  <2> QED BY <1>2, <1>4, <1>7, <1>8, <2>1, <2>2 DEF RuntimeSoFar, Own, Follow, Follows,
             Reaches, RulesOf
<1> QED BY <1>9, <1>10, <1>11, <1>12, <1>13

\* LookAgain keeps ApplyInv: a selector switch is given up, its plan is still good.
LEMMA LookAgainKeeps == ASSUME ApplyInv, NEW r \in Actors, LookAgain(r) PROVE ApplyInv'
<1>1. TypeOK
  BY DEF ApplyInv
<1>2. /\ act[r].pc = "apply"
      /\ act' = [act EXCEPT ![r] = [@ EXCEPT !.now = core.running, !.switch = FALSE, !.pc = "idle2"]]
      /\ UNCHANGED <<cfg, coreCfg, disk, tmp, handle, core, op, up, overlap, skipped, last>>
  BY DEF LookAgain, At, memory, files, life
<1>3. up /\ (~overlap => r = last)
  BY <1>2, UnderwayFacts
<1>4. /\ act' = [s \in Actors |-> act'[s]] /\ \A s \in Actors : ActOK(act'[s])
      /\ \A s \in Actors : s # r => act'[s] = act[s]
      /\ act'[r].pc = "idle2" /\ act'[r].file = act[r].file
      /\ act'[r].change = act[r].change /\ act'[r].next = act[r].next
      /\ act'[r].plan = act[r].plan /\ act'[r].boot = act[r].boot
      /\ (act'[r].target <=> act[r].target) /\ ~act'[r].switch
  <2>1. /\ act = [s \in Actors |-> act[s]] /\ ActOK(act[r])
        /\ core.running \in BOOLEAN /\ "idle2" \in Steps
    BY <1>1 DEF TypeOK, Steps, Planned, Cores
  <2>2. /\ act' = [s \in Actors |-> act'[s]] /\ \A s \in Actors : s # r => act'[s] = act[s]
        /\ act'[r] = [act[r] EXCEPT !.now = core.running, !.switch = FALSE, !.pc = "idle2"]
    BY <1>2, <2>1
  <2>3. act'[r] = [pc |-> "idle2", file |-> act[r].file, change |-> act[r].change, next |-> act[r].next,
                   was |-> act[r].was, now |-> core.running, plan |-> act[r].plan,
                   target |-> act[r].target, switch |-> FALSE,
                   answer |-> act[r].answer, boot |-> act[r].boot]
    BY <2>1, <2>2 DEF ActOK
  <2>4. ActOK(act'[r])
    BY <2>1, <2>3 DEF ActOK
  <2>5. \A s \in Actors : ActOK(act'[s])
    BY <1>1, <2>2, <2>4 DEF TypeOK
  <2> QED BY <2>2, <2>3, <2>5
<1>5. TypeOK'
  BY <1>1, <1>2, <1>4 DEF TypeOK
<1>6. Down'
  BY <1>2, <1>3 DEF Down
<1> SUFFICES ASSUME ~overlap
             PROVE  Alone' /\ FilesSoFar' /\ RequestSoFar' /\ MemorySoFar' /\ RuntimeSoFar'
  BY <1>2, <1>5, <1>6 DEF ApplyInv
<1>7. r = last /\ Alone /\ FilesSoFar /\ RequestSoFar /\ MemorySoFar /\ RuntimeSoFar
  BY <1>3 DEF ApplyInv
<1>8. Alone'
  BY <1>2, <1>4, <1>7 DEF Alone, Own, Underway
<1>9. FilesSoFar'
  BY <1>2, <1>4, <1>7 DEF FilesSoFar, Own, Steps, Planned, Committed, Saving
<1>10. RequestSoFar'
  BY <1>2, <1>4, <1>7 DEF RequestSoFar, Own, Underway, At, Loaded, LoadedProfile
<1>11. MemorySoFar'
  BY <1>2, <1>4, <1>7 DEF MemorySoFar, Own, Planned, Committed
<1>12. RuntimeSoFar'
  BY <1>2, <1>4, <1>7 DEF RuntimeSoFar, Own, Planned, Follow, Follows, Reaches, RulesOf
<1> QED BY <1>8, <1>9, <1>10, <1>11, <1>12

\* EnsureIdle keeps ApplyInv: the profile is saved, so a busy runtime leaves it unapplied.
LEMMA EnsureIdleKeeps ==
  ASSUME ApplyInv, NEW r \in Actors, EnsureIdle(r)
  PROVE  ApplyInv'
<1>1. TypeOK
  BY DEF ApplyInv
<1>2. /\ act[r].pc = "idle2"
      /\ UNCHANGED <<cfg, coreCfg, disk, tmp, handle, core, op, up, overlap, last>>
      /\ \/ op = NoOp /\ Goto(r, "open") /\ UNCHANGED skipped
         \/ Answer(r, "saved_not_applied") /\ EndsUnapplied(r)
  BY DEF EnsureIdle, At, memory, files, life
<1>3. up /\ (~overlap => r = last)
  BY <1>2, UnderwayFacts
<1>4. \/ op = NoOp /\ Moves(r, "open") /\ UNCHANGED skipped
      \/ /\ Ends(r, "saved_not_applied")
         /\ skipped' = (skipped \/ (core.running /\ cfg = act[r].next))
  BY <1>1, <1>2, GotoFacts, AnswerFacts DEF EndsUnapplied, Steps, Planned
<1>5. TypeOK'
  BY <1>1, <1>2, <1>4 DEF TypeOK, Moves, Ends
<1>6. Down'
  BY <1>2, <1>3 DEF Down
<1> SUFFICES ASSUME ~overlap
             PROVE  Alone' /\ FilesSoFar' /\ RequestSoFar' /\ MemorySoFar' /\ RuntimeSoFar'
  BY <1>2, <1>5, <1>6 DEF ApplyInv
<1>7. r = last /\ Alone /\ FilesSoFar /\ RequestSoFar /\ MemorySoFar /\ RuntimeSoFar
  BY <1>3 DEF ApplyInv
<1>8. Alone'
  BY <1>2, <1>4, <1>7 DEF Alone, Own, Underway, Moves, Ends
<1>9. FilesSoFar'
  BY <1>2, <1>4, <1>7 DEF FilesSoFar, Own, Committed, Saving, Moves, Ends
<1>10. RequestSoFar'
  <2>1. /\ Loaded' = Loaded
        /\ disk["profile"] \in Conf =>
             Loaded = [disk["profile"] EXCEPT !.root = disk["config"].root]
    BY <1>2, LoadedFacts DEF Loaded, LoadedProfile
  <2> QED BY <1>2, <1>4, <1>7, <2>1 DEF RequestSoFar, FilesSoFar, Own, Underway, At, Moves,
             Ends, Steps, Planned, Saving
<1>11. MemorySoFar'
  BY <1>2, <1>4, <1>7 DEF MemorySoFar, Own, Planned, Committed, Moves, Ends
<1>12. RuntimeSoFar'
  <2>1. act[r].file = "config"
    BY <1>2, <1>7 DEF FilesSoFar, Own, Steps, Planned, Saving
  <2>2. CASE op = NoOp /\ Moves(r, "open") /\ UNCHANGED skipped
    <3>1. op.kind # "reload"
      BY <2>2 DEF NoOp
    <3> QED BY <1>2, <1>7, <2>1, <2>2, <3>1 DEF RuntimeSoFar, Own, Planned, Follow, Follows,
               Reaches, RulesOf, Moves
  <2>3. CASE /\ Ends(r, "saved_not_applied")
             /\ skipped' = (skipped \/ (core.running /\ cfg = act[r].next))
    <3>1. Follow' => Follow /\ cfg # act[r].next
      BY <1>2, <2>3 DEF Follow
    <3> QED BY <1>2, <1>7, <2>1, <2>3, <3>1 DEF RuntimeSoFar, Own, Planned, Follows,
               Reaches, RulesOf, Ends
  <2> QED BY <1>4, <2>2, <2>3
<1> QED BY <1>8, <1>9, <1>10, <1>11, <1>12

\* CommitConfig keeps ApplyInv: both files have the change.
LEMMA CommitConfigKeeps ==
  ASSUME ApplyInv, NEW r \in Actors, CommitConfig(r)
  PROVE  ApplyInv'
<1>1. TypeOK
  BY DEF ApplyInv
<1>2. /\ act[r].pc = "commit" /\ Goto(r, "publish") /\ cfg' = act[r].next
      /\ UNCHANGED <<coreCfg, disk, tmp, handle, core, op, up, overlap, skipped, last>>
  BY DEF CommitConfig, At, files, life
<1>3. up /\ (~overlap => r = last)
  BY <1>2, UnderwayFacts
<1>4. Moves(r, "publish")
  BY <1>1, <1>2, GotoFacts DEF Steps
<1>5. TypeOK'
  BY <1>1, <1>2, <1>4 DEF TypeOK, ActOK, Moves
<1>6. Down'
  BY <1>2, <1>3 DEF Down
<1> SUFFICES ASSUME ~overlap
             PROVE  Alone' /\ FilesSoFar' /\ RequestSoFar' /\ MemorySoFar' /\ RuntimeSoFar'
  BY <1>2, <1>5, <1>6 DEF ApplyInv
<1>7. r = last /\ Alone /\ FilesSoFar /\ RequestSoFar /\ MemorySoFar /\ RuntimeSoFar
  BY <1>3 DEF ApplyInv
<1>8. Alone'
  BY <1>2, <1>4, <1>7 DEF Alone, Own, Underway, Moves
<1>9. FilesSoFar'
  BY <1>2, <1>4, <1>7 DEF FilesSoFar, Own, Steps, Planned, Saving, Moves
<1>10. RequestSoFar'
  BY <1>2, <1>4, <1>7 DEF RequestSoFar, Own, Underway, At, Loaded, LoadedProfile, Moves
<1>11. MemorySoFar'
  BY <1>2, <1>4, <1>7 DEF MemorySoFar, Own, Planned, Moves
<1>12. RuntimeSoFar'
  BY <1>2, <1>4, <1>7 DEF RuntimeSoFar, FilesSoFar, Own, Steps, Planned, Saving, Follow,
     Reaches, RulesOf, Moves
<1> QED BY <1>8, <1>9, <1>10, <1>11, <1>12

\* PublishConfig keeps ApplyInv: the core manager follows the daemon.
LEMMA PublishConfigKeeps ==
  ASSUME ApplyInv, NEW r \in Actors, PublishConfig(r)
  PROVE  ApplyInv'
<1>1. TypeOK
  BY DEF ApplyInv
<1>2. /\ act[r].pc = "publish" /\ Goto(r, "sync") /\ coreCfg' = act[r].next
      /\ UNCHANGED <<cfg, disk, tmp, handle, core, op, up, overlap, skipped, last>>
  BY DEF PublishConfig, At, files, life
<1>3. up /\ (~overlap => r = last)
  BY <1>2, UnderwayFacts
<1>4. Moves(r, "sync")
  BY <1>1, <1>2, GotoFacts DEF Steps, Committed
<1>5. TypeOK'
  BY <1>1, <1>2, <1>4 DEF TypeOK, ActOK, Moves
<1>6. Down'
  BY <1>2, <1>3 DEF Down
<1> SUFFICES ASSUME ~overlap
             PROVE  Alone' /\ FilesSoFar' /\ RequestSoFar' /\ MemorySoFar' /\ RuntimeSoFar'
  BY <1>2, <1>5, <1>6 DEF ApplyInv
<1>7. r = last /\ Alone /\ FilesSoFar /\ RequestSoFar /\ MemorySoFar /\ RuntimeSoFar
  BY <1>3 DEF ApplyInv
<1>8. Alone'
  BY <1>2, <1>4, <1>7 DEF Alone, Own, Underway, Moves
<1>9. FilesSoFar'
  BY <1>2, <1>4, <1>7 DEF FilesSoFar, Own, Steps, Saving, Moves
<1>10. RequestSoFar'
  BY <1>2, <1>4, <1>7 DEF RequestSoFar, Own, Underway, At, Loaded, LoadedProfile, Moves
<1>11. MemorySoFar'
  BY <1>2, <1>4, <1>7 DEF MemorySoFar, Own, Moves
<1>12. RuntimeSoFar'
  BY <1>2, <1>4, <1>7 DEF RuntimeSoFar, Own, Planned, Follow, Follows, Reaches, RulesOf, Moves
<1> QED BY <1>8, <1>9, <1>10, <1>11, <1>12

\* SyncDesiredState keeps ApplyInv: the change goes to the runtime, or it is left out.
LEMMA SyncDesiredStateKeeps ==
  ASSUME ApplyInv, NEW r \in Actors, SyncDesiredState(r)
  PROVE  ApplyInv'
<1>1. TypeOK
  BY DEF ApplyInv
<1>2. /\ act[r].pc = "sync"
      /\ UNCHANGED <<cfg, coreCfg, disk, tmp, handle, core, op, up, overlap, last>>
      /\ \/ /\ op = NoOp /\ UNCHANGED skipped
            /\ \/ act[r].switch /\ Goto(r, "select")
               \/ Goto(r, "run")
         \/ Answer(r, "saved_not_applied") /\ EndsUnapplied(r)
  BY DEF SyncDesiredState, At, memory, files, life
<1>3. up /\ (~overlap => r = last)
  BY <1>2, UnderwayFacts
<1>4. \/ /\ op = NoOp /\ UNCHANGED skipped
         /\ ((act[r].switch /\ Moves(r, "select")) \/ Moves(r, "run"))
      \/ /\ Ends(r, "saved_not_applied")
         /\ skipped' = (skipped \/ (core.running /\ cfg = act[r].next))
  BY <1>1, <1>2, GotoFacts, AnswerFacts DEF EndsUnapplied, Steps, Committed
<1>5. TypeOK'
  BY <1>1, <1>2, <1>4 DEF TypeOK, Moves, Ends
<1>6. Down'
  BY <1>2, <1>3 DEF Down
<1> SUFFICES ASSUME ~overlap
             PROVE  Alone' /\ FilesSoFar' /\ RequestSoFar' /\ MemorySoFar' /\ RuntimeSoFar'
  BY <1>2, <1>5, <1>6 DEF ApplyInv
<1>7. r = last /\ Alone /\ FilesSoFar /\ RequestSoFar /\ MemorySoFar /\ RuntimeSoFar
  BY <1>3 DEF ApplyInv
<1>8. Alone'
  BY <1>2, <1>4, <1>7 DEF Alone, Own, Underway, Moves, Ends
<1>9. FilesSoFar'
  BY <1>2, <1>4, <1>7 DEF FilesSoFar, Own, Steps, Committed, Saving, Moves, Ends
<1>10. RequestSoFar'
  <2>1. /\ Loaded' = Loaded
        /\ disk["profile"] \in Conf =>
             Loaded = [disk["profile"] EXCEPT !.root = disk["config"].root]
    BY <1>2, LoadedFacts DEF Loaded, LoadedProfile
  <2> QED BY <1>2, <1>4, <1>7, <2>1 DEF RequestSoFar, FilesSoFar, Own, Underway, At, Moves,
             Ends, Steps, Committed, Saving
<1>11. MemorySoFar'
  BY <1>2, <1>4, <1>7 DEF MemorySoFar, Own, Committed, Moves, Ends
<1>12. RuntimeSoFar'
  BY <1>2, <1>4, <1>7 DEF RuntimeSoFar, MemorySoFar, Own, Committed, Follow, Follows,
     Reaches, RulesOf, NoOp, Moves, Ends
<1> QED BY <1>8, <1>9, <1>10, <1>11, <1>12

\* SelectNode keeps ApplyInv: whether the switch took effect or not, the apply path is
\* enough.
LEMMA SelectNodeKeeps ==
  ASSUME ApplyInv, NEW r \in Actors, SelectNode(r)
  PROVE  ApplyInv'
<1>1. TypeOK
  BY DEF ApplyInv
<1>2. /\ act[r].pc = "select"
      /\ \/ /\ core' = [core EXCEPT !.proc.node = act[r].next.node]
            /\ Goto(r, "mark") \/ Goto(r, "apply")
         \/ UNCHANGED core /\ Goto(r, "apply")
      /\ UNCHANGED <<cfg, coreCfg, disk, tmp, handle, op, up, overlap, skipped, last>>
  BY DEF SelectNode, At, memory, files, life
<1>3. up /\ (~overlap => r = last)
  BY <1>2, UnderwayFacts
<1>4. \/ /\ core' = [core EXCEPT !.proc.node = act[r].next.node]
         /\ Moves(r, "mark") \/ Moves(r, "apply")
      \/ UNCHANGED core /\ Moves(r, "apply")
  BY <1>1, <1>2, GotoFacts DEF Steps, Planned, Committed
<1>5. TypeOK'
  <2>1. core' \in Cores /\ (~core'.running => core'.rules = NoRules)
    BY <1>1, <1>2 DEF TypeOK, ActOK, Conf, Cores
  <2> QED BY <1>1, <1>2, <1>4, <2>1 DEF TypeOK, Moves
<1>6. Down'
  BY <1>1, <1>2, <1>3 DEF Down
<1> SUFFICES ASSUME ~overlap
             PROVE  Alone' /\ FilesSoFar' /\ RequestSoFar' /\ MemorySoFar' /\ RuntimeSoFar'
  BY <1>2, <1>5, <1>6 DEF ApplyInv
<1>7. r = last /\ Alone /\ FilesSoFar /\ RequestSoFar /\ MemorySoFar /\ RuntimeSoFar
  BY <1>3 DEF ApplyInv
<1>8. /\ (core'.running <=> core.running) /\ core'.rules = core.rules
      /\ core.proc \in Conf /\ act[r].next \in Conf
      /\ \/ core'.proc = [core.proc EXCEPT !.node = act[r].next.node]
         \/ UNCHANGED core
      /\ Moves(r, "mark") => core'.proc = [core.proc EXCEPT !.node = act[r].next.node]
  BY <1>1, <1>4 DEF TypeOK, ActOK, Moves, Cores
<1>9. Follow => /\ Reaches(act[r].next, act[r].plan, act[r].target)
                /\ act[r].plan = NoPlan /\ act[r].target
  BY <1>2, <1>7 DEF RuntimeSoFar, MemorySoFar, FilesSoFar, Own, Steps, Committed, Saving
<1>10. Follow => /\ Moves(r, "mark") => core'.proc = act[r].next
                 /\ core'.rules \in {NoRules, [rules |-> act[r].next.rules,
                                              root |-> act[r].next.root]}
                 /\ UNCHANGED core \/ core'.proc = act[r].next
  <2>1. ~NoPlan.full /\ ~NoPlan.reapply
    BY DEF NoPlan
  <2>2. Follow => /\ core.rules \in {NoRules, [rules |-> act[r].next.rules,
                                              root |-> act[r].next.root]}
                  /\ core.proc = [act[r].next EXCEPT !.node = core.proc.node]
    BY <1>9, <2>1 DEF Reaches, RulesOf
  <2>3. core.proc = [act[r].next EXCEPT !.node = core.proc.node]
          => [core.proc EXCEPT !.node = act[r].next.node] = act[r].next
    BY <1>8 DEF Conf
  <2> QED BY <1>8, <2>2, <2>3
<1>11. Alone'
  BY <1>2, <1>4, <1>7, <1>8, <1>9, <1>10 DEF Alone, Own, Underway, Moves
<1>12. FilesSoFar'
  BY <1>2, <1>4, <1>7, <1>8, <1>9, <1>10 DEF FilesSoFar, Own, Steps, Committed, Saving,
     Moves
<1>13. RequestSoFar'
  BY <1>2, <1>4, <1>7, <1>8, <1>9, <1>10 DEF RequestSoFar, Own, Underway, At, Loaded,
     LoadedProfile, Moves
<1>14. MemorySoFar'
  BY <1>2, <1>4, <1>7, <1>8, <1>9, <1>10 DEF MemorySoFar, Own, Committed, Moves
<1>15. RuntimeSoFar'
  <2>1. op.kind # "reload" /\ act[r].file = "config" /\ cfg = act[r].next
    BY <1>2, <1>7 DEF RuntimeSoFar, MemorySoFar, FilesSoFar, Own, Steps, Committed, Saving
  <2>2. Follow' => Follow
    BY <1>2, <1>8 DEF Follow
  <2>3. Moves(r, "mark") \/ Moves(r, "apply")
    BY <1>4
  <2>4. /\ act'[r].file = "config" /\ op'.kind # "reload" /\ last' = r /\ cfg' = act'[r].next
        /\ act'[r].next = act[r].next /\ act'[r].plan = act[r].plan
        /\ (act'[r].target <=> act[r].target)
    BY <1>2, <1>7, <2>1, <2>3 DEF Moves
  <2>5. Follow' => Reaches(act[r].next, act[r].plan, act[r].target)'
    <3>1. CASE UNCHANGED core
      BY <1>9, <2>2, <2>4, <3>1 DEF Reaches, RulesOf
    <3>2. CASE core'.proc = act[r].next
      <4>1. act[r].next = [act[r].next EXCEPT !.node = act[r].next.node]
        BY <1>8 DEF Conf
      <4> QED BY <1>10, <2>2, <2>4, <3>2, <4>1 DEF Reaches, RulesOf, Cores
    <3> QED BY <1>10, <2>2, <3>1, <3>2
  <2>6. Follow' /\ Moves(r, "mark") => Follows(cfg)'
    BY <1>10, <2>1, <2>2, <2>4 DEF Follows, RulesOf, Cores
  <2> QED BY <2>5, <2>6, <2>3, <2>4 DEF RuntimeSoFar, Own, Moves
<1> QED BY <1>11, <1>12, <1>13, <1>14, <1>15

\* MarkSelector keeps ApplyInv: the node that was selected is all that had changed.
LEMMA MarkSelectorKeeps ==
  ASSUME ApplyInv, NEW r \in Actors, MarkSelector(r)
  PROVE  ApplyInv'
<1>1. TypeOK
  BY DEF ApplyInv
<1>2. /\ act[r].pc = "mark" /\ Answer(r, "applied")
      /\ UNCHANGED <<cfg, coreCfg, disk, tmp, handle, core, op, up, overlap, skipped, last>>
  BY DEF MarkSelector, At, memory, files, life
<1>3. up /\ (~overlap => r = last)
  BY <1>2, UnderwayFacts
<1>4. Ends(r, "applied")
  BY <1>1, <1>2, AnswerFacts
<1>5. TypeOK'
  BY <1>1, <1>2, <1>4 DEF TypeOK, Ends
<1>6. Down'
  BY <1>2, <1>3 DEF Down
<1> SUFFICES ASSUME ~overlap
             PROVE  Alone' /\ FilesSoFar' /\ RequestSoFar' /\ MemorySoFar' /\ RuntimeSoFar'
  BY <1>2, <1>5, <1>6 DEF ApplyInv
<1>7. r = last /\ Alone /\ FilesSoFar /\ RequestSoFar /\ MemorySoFar /\ RuntimeSoFar
  BY <1>3 DEF ApplyInv
<1>8. Alone'
  BY <1>2, <1>4, <1>7 DEF Alone, Own, Underway, Ends
<1>9. FilesSoFar'
  BY <1>2, <1>4, <1>7 DEF FilesSoFar, Own, Committed, Ends
<1>10. RequestSoFar'
  BY <1>2, <1>4, <1>7 DEF RequestSoFar, FilesSoFar, MemorySoFar, Own, Underway, Steps,
     Committed, Saving, Ends
<1>11. MemorySoFar'
  BY <1>2, <1>4, <1>7 DEF MemorySoFar, Own, Committed, Ends
<1>12. RuntimeSoFar'
  BY <1>2, <1>4, <1>7 DEF RuntimeSoFar, Own, Follow, Follows, RulesOf, Ends
<1> QED BY <1>8, <1>9, <1>10, <1>11, <1>12

\* RunReload keeps ApplyInv: the reload has the plan, or the change is left out.
LEMMA RunReloadKeeps == ASSUME ApplyInv, NEW r \in Actors, RunReload(r) PROVE ApplyInv'
<1>1. TypeOK
  BY DEF ApplyInv
<1>2. /\ act[r].pc = "run"
      /\ UNCHANGED <<cfg, coreCfg, disk, tmp, handle, core, up, overlap, last>>
      /\ \/ /\ op' = [kind |-> "reload", cfg |-> act[r].next, plan |-> act[r].plan,
                      target |-> act[r].target]
            /\ Answer(r, ApplyStatus(r)) /\ UNCHANGED skipped
         \/ Answer(r, "saved_not_applied") /\ EndsUnapplied(r) /\ UNCHANGED op
         \/ Answer(r, ApplyStatus(r)) /\ EndsUnapplied(r) /\ UNCHANGED op
  BY DEF RunReload, At, memory, files, life
<1>3. up /\ (~overlap => r = last)
  BY <1>2, UnderwayFacts
<1>4. \E answer \in {"not_requested", "accepted", "skipped_runtime_stopped", "saved_not_applied"} :
        /\ Ends(r, answer)
        /\ \/ /\ answer # "saved_not_applied" /\ UNCHANGED skipped
              /\ op' = [kind |-> "reload", cfg |-> act[r].next, plan |-> act[r].plan,
                        target |-> act[r].target]
           \/ /\ skipped' = (skipped \/ (core.running /\ cfg = act[r].next)) /\ UNCHANGED op
  BY <1>1, <1>2, AnswerFacts DEF EndsUnapplied, ApplyStatus
<1>5. TypeOK'
  <2>1. /\ op' \in Ops
        /\ op' = NoOp <=> op'.kind = "none"
    BY <1>1, <1>4 DEF TypeOK, ActOK, NoOp, Ops
  <2> QED BY <1>1, <1>2, <1>4, <2>1 DEF TypeOK, Ends
<1>6. Down'
  BY <1>2, <1>3 DEF Down
<1> SUFFICES ASSUME ~overlap
             PROVE  Alone' /\ FilesSoFar' /\ RequestSoFar' /\ MemorySoFar' /\ RuntimeSoFar'
  BY <1>2, <1>5, <1>6 DEF ApplyInv
<1>7. r = last /\ Alone /\ FilesSoFar /\ RequestSoFar /\ MemorySoFar /\ RuntimeSoFar
  BY <1>3 DEF ApplyInv
<1>8. Alone'
  BY <1>2, <1>4, <1>7 DEF Alone, Own, Underway, Ends
<1>9. FilesSoFar'
  BY <1>2, <1>4, <1>7 DEF FilesSoFar, Own, Committed, Ends
<1>10. RequestSoFar'
  <2>1. /\ Loaded' = Loaded
        /\ disk["profile"] \in Conf =>
             Loaded = [disk["profile"] EXCEPT !.root = disk["config"].root]
    BY <1>2, LoadedFacts DEF Loaded, LoadedProfile
  <2> QED BY <1>2, <1>4, <1>7, <2>1 DEF RequestSoFar, FilesSoFar, MemorySoFar, Own,
             Underway, Ends, Steps, Committed, Saving
<1>11. MemorySoFar'
  BY <1>2, <1>4, <1>7 DEF MemorySoFar, Own, Committed, Ends
<1>12. RuntimeSoFar'
  <2>1. op.kind # "reload" /\ cfg = act[r].next /\ act[r].file = "config"
    BY <1>2, <1>7 DEF RuntimeSoFar, MemorySoFar, FilesSoFar, Own, Steps, Committed, Saving
  <2>2. PICK answer : /\ Ends(r, answer)
        /\ \/ /\ UNCHANGED skipped
              /\ op' = [kind |-> "reload", cfg |-> act[r].next, plan |-> act[r].plan,
                        target |-> act[r].target]
           \/ /\ skipped' = (skipped \/ (core.running /\ cfg = act[r].next)) /\ UNCHANGED op
    BY <1>4
  <2>3. CASE UNCHANGED op
    <3>1. skipped' = (skipped \/ (core.running /\ cfg = act[r].next))
      BY <2>1, <2>2, <2>3
    <3>2. ~Follow'
      BY <1>2, <2>1, <3>1 DEF Follow
    <3> QED BY <1>2, <2>1, <2>3, <3>2 DEF RuntimeSoFar
  <2>4. CASE op' = [kind |-> "reload", cfg |-> act[r].next, plan |-> act[r].plan,
                    target |-> act[r].target] /\ UNCHANGED skipped
    <3>1. Follow' => Reaches(cfg, op.plan, op.target)'
      BY <1>2, <1>7, <2>1, <2>4 DEF RuntimeSoFar, Own, Committed, Follow, Reaches, RulesOf
    <3>2. act[r].target => act[r].plan = NoPlan
      BY <1>2, <1>7, <2>1 DEF MemorySoFar, Own, Committed
    <3>3. act'[r].pc = "done"
      BY <2>2 DEF Ends
    <3> QED BY <1>2, <1>7, <2>1, <2>4, <3>1, <3>2, <3>3 DEF RuntimeSoFar, Own
  <2> QED BY <2>2, <2>3, <2>4
<1> QED BY <1>8, <1>9, <1>10, <1>11, <1>12

-----------------------------------------------------------------------------
(* An actor begins; the daemon crashes and starts                          *)

\* Where an actor begins, and that it is well formed.
LEMMA IdleFacts == ActOK(Idle) /\ NoOp.kind = "none" /\ NoPlan \in Plans
<1>1. /\ Idle = [pc |-> "idle", file |-> "profile", change |-> NoChange, next |-> First,
                 was |-> FALSE, now |-> FALSE, plan |-> NoPlan, target |-> FALSE,
                 switch |-> FALSE, answer |-> "none", boot |-> First]
      /\ NoPlan \in Plans
  BY DEF Idle, NoPlan, Plans
<1> QED BY <1>1, FirstFact DEF ActOK, Steps, Files, NoOp

\* The signal loop begins with what it loaded, and its file is config.json.
LEMMA SighupStarts ==
  ASSUME NEW pc, NEW next, NEW answer, NEW start,
         start = [Idle EXCEPT !.change = Hup, !.file = "config", !.next = next,
                              !.pc = pc, !.answer = answer]
  PROVE  start = [pc |-> pc, file |-> "config", change |-> Hup, next |-> next,
                  was |-> FALSE, now |-> FALSE, plan |-> NoPlan, target |-> FALSE,
                  switch |-> FALSE, answer |-> answer, boot |-> First]
BY DEF Idle

\* A mutation that begins while another is under way is in the history; else it is alone.
LEMMA BeginFacts ==
  ASSUME ApplyInv, NEW r \in Actors, NEW start, ActOK(start), Begin(r, start)
  PROVE  /\ act' = [s \in Actors |-> act'[s]] /\ \A s \in Actors : ActOK(act'[s])
         /\ act'[r] = start /\ \A s \in Actors : s # r => act'[s] = act[s]
         /\ up /\ last' = r /\ overlap' \in BOOLEAN
         /\ ~overlap' => /\ ~overlap /\ \A s \in Actors : ~Underway(s) /\ handle[s] = "none"
                         /\ Own.pc \in {"idle", "done"} /\ disk["config"].root = cfg.root
<1>1. TypeOK
  BY DEF ApplyInv
<1>2. /\ act' = [act EXCEPT ![r] = start] /\ up /\ last' = r
      /\ overlap' = (overlap \/ \E s \in Actors : Underway(s))
  BY DEF Begin
<1>3. /\ act' = [s \in Actors |-> act'[s]] /\ act'[r] = start
      /\ \A s \in Actors : s # r => act'[s] = act[s]
  BY <1>1, <1>2 DEF TypeOK
<1>4. \A s \in Actors : ActOK(act'[s])
  BY <1>1, <1>3 DEF TypeOK
<1>5. ASSUME ~overlap'
      PROVE  /\ ~overlap /\ \A s \in Actors : ~Underway(s) /\ handle[s] = "none"
             /\ Own.pc \in {"idle", "done"} /\ disk["config"].root = cfg.root
  <2>1. ~overlap /\ \A s \in Actors : ~Underway(s)
    BY <1>2, <1>5
  <2>2. Own.pc \in {"idle", "done"}
    BY <1>1, <2>1 DEF Own, Underway, TypeOK
  <2> QED BY <1>2, <2>1, <2>2 DEF ApplyInv, Alone, FilesSoFar
<1> QED BY <1>1, <1>2, <1>3, <1>4, <1>5 DEF TypeOK

\* Receive keeps ApplyInv: what is refused leaves everything as it was.
LEMMA ReceiveKeeps == ASSUME ApplyInv, NEW r \in Requests, Receive(r) PROVE ApplyInv'
<1>1. TypeOK /\ r \in Actors
  BY DEF ApplyInv, Actors
<1>2. PICK c \in Changes :
        Begin(r, [Idle EXCEPT !.change = c, !.next = Changed(cfg, c), !.boot = Loaded,
                    !.pc = IF Refused(Changed(cfg, c)) THEN "done" ELSE "check",
                    !.answer = IF Refused(Changed(cfg, c)) THEN "failed" ELSE "none"])
  BY DEF Receive
<1> DEFINE pc == IF Refused(Changed(cfg, c)) THEN "done" ELSE "check"
           answer == IF Refused(Changed(cfg, c)) THEN "failed" ELSE "none"
           start == [Idle EXCEPT !.change = c, !.next = Changed(cfg, c), !.boot = Loaded,
                       !.pc = pc, !.answer = answer]
<1>3. UNCHANGED <<cfg, coreCfg, disk, tmp, handle, core, op, up, skipped>> /\ Begin(r, start)
  BY <1>2 DEF Receive, memory, files
<1>4. Changed(cfg, c) \in Conf /\ (c.kind = "profile" => Changed(cfg, c).root = cfg.root)
  BY <1>1, ChangedFacts DEF TypeOK
<1>5. pc \in {"check", "done"} /\ (pc = "done" => answer = "failed")
  OBVIOUS
<1> HIDE DEF pc, answer
<1>6. start = [pc |-> pc, file |-> "profile", change |-> c, next |-> Changed(cfg, c),
               was |-> FALSE, now |-> FALSE, plan |-> NoPlan, target |-> FALSE,
               switch |-> FALSE, answer |-> answer, boot |-> Loaded]
  <2>1. PICK s : s = start
    OBVIOUS
  <2>2. s = [Idle EXCEPT !.change = c, !.next = Changed(cfg, c), !.boot = Loaded,
                         !.pc = pc, !.answer = answer]
    BY <2>1
  <2> HIDE DEF start
  <2>3. s = [pc |-> pc, file |-> "profile", change |-> c, next |-> Changed(cfg, c),
             was |-> FALSE, now |-> FALSE, plan |-> NoPlan, target |-> FALSE,
             switch |-> FALSE, answer |-> answer, boot |-> Loaded]
    BY <2>2 DEF Idle
  <2> QED BY <2>1, <2>3
<1> HIDE DEF start
<1>7. ActOK(start)
  BY <1>4, <1>5, <1>6, IdleFacts DEF ActOK, Steps, Files
<1>8. /\ act' = [s \in Actors |-> act'[s]] /\ \A s \in Actors : ActOK(act'[s])
      /\ act'[r] = start /\ \A s \in Actors : s # r => act'[s] = act[s]
      /\ up /\ last' = r /\ overlap' \in BOOLEAN
      /\ ~overlap' => /\ ~overlap /\ \A s \in Actors : ~Underway(s) /\ handle[s] = "none"
                      /\ Own.pc \in {"idle", "done"} /\ disk["config"].root = cfg.root
  BY <1>1, <1>3, <1>7, BeginFacts
<1>9. TypeOK' /\ Down'
  BY <1>1, <1>3, <1>8 DEF TypeOK, Down
<1> SUFFICES ASSUME ~overlap'
             PROVE  Alone' /\ FilesSoFar' /\ RequestSoFar' /\ MemorySoFar' /\ RuntimeSoFar'
  BY <1>3, <1>8, <1>9 DEF ApplyInv
<1>10. FilesSoFar /\ MemorySoFar /\ RuntimeSoFar
  BY <1>8 DEF ApplyInv
<1>11. Own'.pc = pc /\ Own'.file = "profile" /\ Own'.next = Changed(cfg, c) /\ Own'.change = c
       /\ Own'.boot = Loaded /\ Own'.answer = answer /\ ~Own'.switch
  BY <1>6, <1>8 DEF Own
<1>12. Alone'
  BY <1>3, <1>5, <1>8, <1>11 DEF Alone, Underway
<1>13. FilesSoFar'
  BY <1>3, <1>5, <1>8, <1>10, <1>11 DEF FilesSoFar, Steps, Planned, Committed, Saving
<1>14. RequestSoFar'
  <2>1. Loaded' = Loaded
    BY <1>3 DEF Loaded, LoadedProfile
  <2>2. Underway(last)' <=> pc = "check"
    BY <1>5, <1>8, <1>11 DEF Underway, Own
  <2>3. At(last, "done")' <=> pc = "done"
    BY <1>8, <1>11 DEF At, Own
  <2> QED BY <1>3, <1>4, <1>5, <1>8, <1>11, <2>1, <2>2, <2>3 DEF RequestSoFar
<1>15. MemorySoFar'
  BY <1>3, <1>5, <1>8, <1>10, <1>11 DEF MemorySoFar, Planned, Committed
<1>16. RuntimeSoFar'
  BY <1>3, <1>5, <1>8, <1>10, <1>11 DEF RuntimeSoFar, Planned, Committed, Follow, Follows,
     Reaches, RulesOf
<1> QED BY <1>12, <1>13, <1>14, <1>15, <1>16

\* Sighup keeps ApplyInv: what it loads is in the files, and it answers nobody.
LEMMA SighupKeeps == ASSUME ApplyInv, Sighup PROVE ApplyInv'
<1>1. TypeOK /\ "hup" \in Actors
  BY DEF ApplyInv, Actors
<1> DEFINE ok == Loads /\ ~Refused(Loaded)
           pc == IF ok THEN "plan" ELSE "done"
           answer == IF ok THEN "none" ELSE "failed"
           next == IF ok THEN Loaded ELSE cfg
           start == [Idle EXCEPT !.change = Hup, !.file = "config", !.next = next,
                       !.pc = pc, !.answer = answer]
<1>2. /\ Begin("hup", start)
      /\ disk' = IF Loads THEN [disk EXCEPT !["profile"] = LoadedProfile] ELSE disk
      /\ handle' = IF Loads /\ ~IsConfig(disk["profile"])
                   THEN [r \in Actors |-> IF act[r].file = "profile" /\ handle[r] = "file"
                                          THEN "gone" ELSE handle[r]]
                   ELSE handle
      /\ UNCHANGED <<cfg, coreCfg, tmp, core, op, up, skipped>>
  BY DEF Sighup, memory
<1>3. Loads => LoadedProfile \in Conf /\ Loaded \in Conf
  <2>1. Loads => disk["config"] \in Conf /\ LoadedProfile \in Conf
    BY <1>1, ContentFacts DEF Loads, LoadedProfile, TypeOK, Files
  <2> QED BY <2>1 DEF Loaded, Projection, Conf
<1>4. pc \in {"plan", "done"} /\ next \in Conf
  BY <1>1, <1>3 DEF TypeOK
<1> HIDE DEF ok, pc, answer, next
<1>5. start = [pc |-> pc, file |-> "config", change |-> Hup, next |-> next,
               was |-> FALSE, now |-> FALSE, plan |-> NoPlan, target |-> FALSE,
               switch |-> FALSE, answer |-> answer, boot |-> First]
  BY SighupStarts
<1> HIDE DEF start
<1>6. ActOK(start)
  BY <1>4, <1>5, IdleFacts DEF ActOK, Steps, Files
<1>7. /\ act' = [s \in Actors |-> act'[s]] /\ \A s \in Actors : ActOK(act'[s])
      /\ act'["hup"] = start /\ \A s \in Actors : s # "hup" => act'[s] = act[s]
      /\ up /\ last' = "hup" /\ overlap' \in BOOLEAN
      /\ ~overlap' => /\ ~overlap /\ \A s \in Actors : ~Underway(s) /\ handle[s] = "none"
                      /\ Own.pc \in {"idle", "done"} /\ disk["config"].root = cfg.root
  BY <1>1, <1>2, <1>6, BeginFacts
<1>8. TypeOK' /\ Down'
  <2>1. disk' \in [Files -> Content]
    BY <1>1, <1>2, <1>3 DEF TypeOK, Content
  <2>2. handle' \in [Actors -> Handles]
    BY <1>1, <1>2 DEF TypeOK, Handles
  <2> QED BY <1>1, <1>2, <1>7, <2>1, <2>2 DEF TypeOK, Down
<1> SUFFICES ASSUME ~overlap'
             PROVE  Alone' /\ FilesSoFar' /\ RequestSoFar' /\ MemorySoFar' /\ RuntimeSoFar'
  BY <1>2, <1>7, <1>8 DEF ApplyInv
<1>9. FilesSoFar /\ MemorySoFar /\ RuntimeSoFar
  BY <1>7 DEF ApplyInv
<1>10. disk' = disk /\ handle' = handle
  <2>1. IsConfig(disk["config"]) /\ IsConfig(disk["profile"])
    BY <1>9, ContentFacts DEF FilesSoFar, Content
  <2> QED BY <1>1, <1>2, <2>1 DEF LoadedProfile, TypeOK
<1>11. Own'.pc = pc /\ Own'.file = "config" /\ ~Own'.switch
  BY <1>5, <1>7 DEF Own
<1>12. Alone'
  BY <1>2, <1>4, <1>7, <1>10, <1>11 DEF Alone, Underway
<1>13. FilesSoFar'
  BY <1>2, <1>4, <1>7, <1>9, <1>10, <1>11 DEF FilesSoFar, Steps, Planned, Committed, Saving
<1>14. RequestSoFar'
  BY <1>7, RequestsAssumption DEF RequestSoFar
<1>15. MemorySoFar'
  BY <1>2, <1>4, <1>7, <1>9, <1>11 DEF MemorySoFar, Planned, Committed
<1>16. RuntimeSoFar'
  BY <1>2, <1>4, <1>7, <1>9, <1>11 DEF RuntimeSoFar, Planned, Committed, Follow, Follows,
     Reaches, RulesOf
<1> QED BY <1>12, <1>13, <1>14, <1>15, <1>16

\* What is stopped has no rules.
LEMMA StoppedFacts ==
  ASSUME TypeOK
  PROVE  Stopped \in Cores /\ ~Stopped.running /\ Stopped.rules = NoRules
BY DEF TypeOK, Stopped, Cores

\* Crash keeps ApplyInv: the files are as far as they were, and nothing runs.
LEMMA CrashKeeps == ASSUME ApplyInv, Crash PROVE ApplyInv'
<1>1. /\ up' = FALSE /\ act' = [r \in Actors |-> Idle] /\ handle' = [r \in Actors |-> "none"]
      /\ op' = NoOp /\ core' = Stopped
      /\ UNCHANGED <<cfg, coreCfg, disk, tmp, overlap, last, skipped>>
  BY DEF Crash, memory
<1>2. core' \in Cores /\ ~core'.running /\ core'.rules = NoRules
  BY <1>1, StoppedFacts DEF ApplyInv
<1>3. op' \in Ops
      /\ op'.kind = "none"
  BY <1>1, IdleFacts, FirstFact DEF NoOp, Ops
<1>4. TypeOK'
  BY <1>1, <1>2, <1>3, IdleFacts DEF ApplyInv, TypeOK, Handles
<1>5. Down'
  BY <1>1, <1>2 DEF Down
<1>6. Own'.pc = "idle"
  BY <1>1, <1>4 DEF Own, TypeOK, Idle
<1>7. ~overlap' => Alone' /\ FilesSoFar'
  BY <1>1, <1>6 DEF ApplyInv, Alone, FilesSoFar, Underway, Idle, Planned, Committed, Saving
<1> QED BY <1>1, <1>4, <1>5, <1>7 DEF ApplyInv

\* Boot keeps ApplyInv: the daemon begins with what the files hold.
LEMMA BootKeeps == ASSUME ApplyInv, Boot PROVE ApplyInv'
<1>1. TypeOK /\ ~up /\ Loads
  BY DEF ApplyInv, Boot
<1>2. /\ cfg' = Loaded /\ coreCfg' = Loaded /\ up' = TRUE /\ overlap' = FALSE /\ skipped' = FALSE
      /\ disk' = [disk EXCEPT !["profile"] = LoadedProfile]
      /\ UNCHANGED <<tmp, handle, core, op, act, last>>
  BY DEF Boot
<1>3. /\ \A r \in Actors : act[r] = Idle /\ handle[r] = "none"
      /\ op = NoOp /\ ~core.running
  BY <1>1 DEF ApplyInv, Down
<1>4. disk["config"] \in Conf /\ LoadedProfile \in Conf /\ Loaded \in Conf
      /\ Loaded.root = disk["config"].root
  <2>1. disk["config"] \in Conf /\ LoadedProfile \in Conf
    BY <1>1, ContentFacts DEF Loads, LoadedProfile, TypeOK, Files
  <2> QED BY <2>1 DEF Loaded, Projection, Conf
<1>5. /\ disk' \in [Files -> Content] /\ disk'["config"] = disk["config"]
      /\ disk'["profile"] = LoadedProfile
  BY <1>1, <1>2, <1>4 DEF TypeOK, Content, Files
<1>6. TypeOK' /\ Down'
  BY <1>1, <1>2, <1>4, <1>5 DEF TypeOK, Down
<1>7. Own'.pc = "idle" /\ ~Own'.switch
  BY <1>1, <1>2, <1>3 DEF Own, TypeOK, Idle
<1>8. Alone'
  BY <1>2, <1>3, <1>7 DEF Alone, Underway, Idle
<1>9. FilesSoFar'
  BY <1>2, <1>4, <1>5, <1>7 DEF FilesSoFar, Planned, Committed, Saving
<1>10. RequestSoFar'
  BY <1>7 DEF RequestSoFar, Underway, At, Own
<1>11. MemorySoFar'
  BY <1>2, <1>7 DEF MemorySoFar, Planned, Committed
<1>12. RuntimeSoFar'
  BY <1>2, <1>3, IdleFacts DEF RuntimeSoFar, Follow
<1> QED BY <1>6, <1>8, <1>9, <1>10, <1>11, <1>12 DEF ApplyInv

-----------------------------------------------------------------------------
(* Operations                                                              *)

\* What an operation changes is the operation and what runs.
LEMMA OperationKeeps ==
  ASSUME ApplyInv, UNCHANGED <<cfg, coreCfg, disk, tmp, handle, act, up, overlap, last>>,
         core' \in Cores, ~core'.running => core'.rules = NoRules, skipped' \in BOOLEAN,
         op' \in Ops,
         op' = NoOp <=> op'.kind = "none", up,
         ~overlap => RuntimeSoFar'
  PROVE  ApplyInv'
<1>1. TypeOK' /\ Down'
  BY DEF ApplyInv, TypeOK, Down
<1>2. ~overlap => Alone' /\ FilesSoFar' /\ RequestSoFar' /\ MemorySoFar'
  BY DEF ApplyInv, Alone, FilesSoFar, RequestSoFar, MemorySoFar, Own, Underway, At, Loaded,
     LoadedProfile
<1> QED BY <1>1, <1>2 DEF ApplyInv

\* RunByUser keeps ApplyInv: what runs does not change yet.
LEMMA RunByUserKeeps == ASSUME ApplyInv, RunByUser PROVE ApplyInv'
<1>1. PICK k \in {"start", "stop"} :
        op' = [kind |-> k, cfg |-> cfg, plan |-> NoPlan, target |-> FALSE]
  BY DEF RunByUser
<1>2. /\ up /\ op = NoOp
      /\ UNCHANGED <<cfg, coreCfg, disk, tmp, handle, core, act, up, overlap, skipped, last>>
  BY DEF RunByUser, memory, files, life
<1>3. op' \in Ops
      /\ (op' = NoOp <=> op'.kind = "none")
  BY <1>1, IdleFacts DEF ApplyInv, TypeOK, Ops
<1>4. ~overlap => RuntimeSoFar'
  <2>1. op.kind # "reload" /\ op'.kind # "reload"
    BY <1>1, <1>2, IdleFacts
  <2> QED BY <1>2, <2>1 DEF ApplyInv, RuntimeSoFar, Own, Follow, Follows, Reaches, RulesOf
<1> QED BY <1>2, <1>3, <1>4, OperationKeeps DEF ApplyInv, TypeOK

\* What runs with a configuration but for its active node is enough to reach the next one,
\* and with the whole of it too.
LEMMA StartReaches ==
  ASSUME NEW c \in Conf, NEW n \in Conf, NEW p, NEW target \in BOOLEAN,
         c # n => p = PlanReload(c, n) /\ (target => SelectorSwitch(c, n)),
         core'.proc = c \/ core'.proc = [c EXCEPT !.node = n.node],
         core'.rules \in {NoRules, [rules |-> c.rules, root |-> c.root]}
  PROVE  Reaches(n, p, target)'
<1>1. CASE c = n
  <2>1. core'.proc = n
    BY <1>1 DEF Conf
  <2>2. n = [n EXCEPT !.node = n.node]
    BY DEF Conf
  <2> QED BY <1>1, <2>1, <2>2 DEF Reaches, RulesOf
<1>2. CASE c # n
  <2>1. target => n = [c EXCEPT !.node = n.node]
    BY <1>2 DEF SelectorSwitch
  <2>2. target => core'.proc = [n EXCEPT !.node = core'.proc.node]
    BY <2>1 DEF Conf
  <2>3. p = [full |-> c.root # n.root, reapply |-> c.root = n.root /\ c.rules # n.rules]
    BY <1>2 DEF PlanReload
  <2>4. (c.root # n.root => p.full) /\ (c.root = n.root /\ c.rules # n.rules => p.reapply)
    BY <2>3
  <2> QED BY <2>2, <2>4 DEF Reaches, RulesOf
<1> QED BY <1>1, <1>2

\* What is well formed stays so when an operation ends.
LEMMA FinishFacts ==
  ASSUME ApplyInv, op.kind # "none", op' = NoOp
  PROVE  /\ TypeOK /\ up /\ op'.kind = "none"
         /\ op' \in Ops
<1>1. op' \in Ops
      /\ op'.kind = "none"
  BY IdleFacts, FirstFact DEF NoOp, Ops
<1>2. TypeOK /\ up
  BY IdleFacts DEF ApplyInv, Down, TypeOK
<1> QED BY <1>1, <1>2

\* What starts runs with a configuration.
LEMMA StartedFacts ==
  ASSUME TypeOK
  PROVE  /\ Started \in Cores
         /\ Started.running /\ Started.proc = [coreCfg EXCEPT !.node = cfg.node]
         /\ Started.rules = [rules |-> coreCfg.rules, root |-> coreCfg.root]
         /\ coreCfg = cfg => Started.proc = cfg
<1>1. cfg \in Conf /\ coreCfg \in Conf
  BY DEF TypeOK
<1> QED BY <1>1 DEF Started, Conf, Rules, Cores

\* StartDone keeps ApplyInv: a start may fall between the commit and the publication.
LEMMA StartDoneKeeps == ASSUME ApplyInv, StartDone PROVE ApplyInv'
<1>1. /\ op.kind = "start" /\ op' = NoOp /\ core' = Started /\ skipped' = FALSE
      /\ UNCHANGED <<cfg, coreCfg, disk, tmp, handle, act, up, overlap, last>>
  BY DEF StartDone, Finish, memory, files, life
<1>2. TypeOK /\ up /\ op'.kind = "none" /\ op' \in Ops
  BY <1>1, FinishFacts
<1>3. ASSUME ~overlap PROVE RuntimeSoFar'
  <2>1. FilesSoFar /\ MemorySoFar
    BY <1>1, <1>2, <1>3 DEF ApplyInv
  <2>2. PICK o : o = Own
    OBVIOUS
  <2>3. Own' = o /\ ActOK(o)
    BY <1>1, <1>2, <2>2 DEF Own, TypeOK
  <2>4. o.pc = "publish" => o.file = "config" /\ cfg = o.next
    BY <2>1, <2>2 DEF FilesSoFar, MemorySoFar, Steps, Saving, Planned, Committed
  <2>5. o.pc # "publish" => Follows(cfg)'
    BY <1>1, <1>2, <2>1, <2>2, StartedFacts DEF MemorySoFar, Follows, RulesOf
  <2>6. ASSUME o.pc \in Planned \cup {"publish"} \cup Committed, o.file = "config"
        PROVE  Reaches(o.next, o.plan, o.target)'
    <3>1. coreCfg \in Conf /\ o.next \in Conf /\ o.target \in BOOLEAN
      BY <1>1, <1>2, <2>3 DEF TypeOK, ActOK
    <3>2. coreCfg # o.next => o.plan = PlanReload(coreCfg, o.next)
                              /\ (o.target => SelectorSwitch(coreCfg, o.next))
      BY <2>1, <2>2, <2>6 DEF MemorySoFar, Planned, Committed
    <3>3. core'.proc = coreCfg \/ core'.proc = [coreCfg EXCEPT !.node = o.next.node]
      BY <1>1, <1>2, <2>1, <2>2, <2>4, StartedFacts DEF MemorySoFar
    <3>4. core'.rules \in {NoRules, [rules |-> coreCfg.rules, root |-> coreCfg.root]}
      BY <1>1, <1>2, StartedFacts
    <3> QED BY <3>1, <3>2, <3>3, <3>4, StartReaches
  <2> QED BY <1>1, <1>2, <2>3, <2>4, <2>5, <2>6 DEF RuntimeSoFar, Planned, Committed
<1> QED BY <1>1, <1>2, <1>3, StartedFacts, OperationKeeps

\* StopDone keeps ApplyInv: nothing runs.
LEMMA StopDoneKeeps == ASSUME ApplyInv, StopDone PROVE ApplyInv'
<1>1. /\ op.kind = "stop" /\ op' = NoOp /\ skipped' = FALSE /\ core' = Stopped
      /\ UNCHANGED <<cfg, coreCfg, disk, tmp, handle, act, up, overlap, last>>
  BY DEF StopDone, Finish, memory, files, life
<1>2. TypeOK /\ up /\ op'.kind = "none" /\ op' \in Ops
  BY <1>1, FinishFacts
<1>3. core' \in Cores /\ ~core'.running /\ core'.rules = NoRules
  BY <1>1, <1>2, StoppedFacts
<1>4. RuntimeSoFar'
  BY <1>1, <1>2, <1>3 DEF RuntimeSoFar, Follow
<1> QED BY <1>1, <1>2, <1>3, <1>4, OperationKeeps

\* OperationFails keeps ApplyInv: nothing runs, or what ran before the change.
LEMMA OperationFailsKeeps == ASSUME ApplyInv, OperationFails PROVE ApplyInv'
<1>1. /\ op.kind # "none" /\ op' = NoOp
      /\ \/ skipped' = FALSE /\ core' = Stopped
         \/ skipped' = TRUE /\ UNCHANGED core
      /\ UNCHANGED <<cfg, coreCfg, disk, tmp, handle, act, up, overlap, last>>
  BY DEF OperationFails, Finish, memory, files, life
<1>2. TypeOK /\ up /\ op'.kind = "none" /\ op' \in Ops
  BY <1>1, FinishFacts
<1>3. core' \in Cores /\ (~core'.running => core'.rules = NoRules) /\ ~Follow'
  BY <1>1, <1>2, StoppedFacts DEF ApplyInv, TypeOK, Follow
<1>4. RuntimeSoFar'
  BY <1>1, <1>2, <1>3 DEF RuntimeSoFar
<1> QED BY <1>1, <1>2, <1>3, <1>4, OperationKeeps

\* ReloadDone keeps ApplyInv: a reload is enough for the configuration, and an actor that
\* has made its plan meanwhile made it for the same one.
LEMMA ReloadDoneKeeps == ASSUME ApplyInv, ReloadDone PROVE ApplyInv'
<1>1. PICK next, left :
        /\ op.kind = "reload" /\ op' = NoOp /\ core' = next /\ skipped' = left
        /\ UNCHANGED <<cfg, coreCfg, disk, tmp, handle, act, up, overlap, last>>
        /\ \/ op.target /\ op.plan = NoPlan /\ next = [core EXCEPT !.proc.node = op.cfg.node]
              /\ left = skipped /\ core.running
           \/ op.plan.full /\ next = Started /\ left = FALSE
           \/ ~op.plan.full /\ next = Swapped /\ left = skipped
           \/ next = Stopped /\ left = FALSE
  BY DEF ReloadDone, Finish, memory, files, life
<1>2. TypeOK /\ up /\ op'.kind = "none" /\ op' \in Ops
  BY <1>1, FinishFacts
<1>3. next \in Cores /\ left \in BOOLEAN /\ (~next.running => next.rules = NoRules)
  <2>1. /\ cfg \in Conf /\ core \in Cores
        /\ skipped \in BOOLEAN /\ op.cfg \in Conf /\ coreCfg \in Conf
    BY <1>1, <1>2 DEF TypeOK, Ops
  <2>2. CASE next = [core EXCEPT !.proc.node = op.cfg.node] /\ left = skipped
    <3>1. /\ next = [running |-> core.running, proc |-> [core.proc EXCEPT !.node = op.cfg.node],
                     rules |-> core.rules]
          /\ [core.proc EXCEPT !.node = op.cfg.node] \in Conf
      BY <2>1, <2>2 DEF Conf, Cores
    <3> QED BY <1>1, <1>2, <2>1, <2>2, <3>1 DEF TypeOK, Cores
  <2>3. CASE next = Started /\ left = FALSE
    BY <1>1, <1>2, <2>3, StartedFacts
  <2>4. CASE next = Swapped /\ left = skipped
    <3>1. /\ [coreCfg EXCEPT !.node = op.cfg.node] \in Conf
          /\ [rules |-> op.cfg.rules, root |-> op.cfg.root] \in Rules
      BY <2>1 DEF Conf, Rules
    <3>2. next = [running |-> TRUE, proc |-> [coreCfg EXCEPT !.node = op.cfg.node],
                  rules |-> IF op.plan.reapply THEN [rules |-> op.cfg.rules, root |-> op.cfg.root]
                            ELSE core.rules]
      BY <2>4 DEF Swapped
    <3> QED BY <2>1, <2>4, <3>1, <3>2 DEF Cores
  <2>5. CASE next = Stopped /\ left = FALSE
    BY <1>2, <2>5, StoppedFacts
  <2> QED BY <1>1, <2>2, <2>3, <2>4, <2>5
<1>4. ASSUME ~overlap PROVE RuntimeSoFar'
  <2>1. FilesSoFar /\ MemorySoFar /\ RuntimeSoFar
    BY <1>1, <1>2, <1>4 DEF ApplyInv
  <2>2. PICK o : o = Own
    OBVIOUS
  <2>3. Own' = o /\ ActOK(o)
    BY <1>1, <1>2, <2>2 DEF Own, TypeOK
  <2>4. /\ o.pc \in {"idle", "done", "check", "plan", "apply", "idle2"}
        /\ op.cfg = cfg /\ (op.target => op.plan = NoPlan)
        /\ (core.running /\ ~skipped => Reaches(cfg, op.plan, op.target))
        /\ (o.pc \in {"apply", "idle2"} => o.plan = PlanReload(cfg, o.next)
                                           /\ (o.target => SelectorSwitch(cfg, o.next)))
    BY <1>1, <2>1, <2>2 DEF RuntimeSoFar, Follow
  <2>5. coreCfg = cfg
    BY <2>1, <2>2, <2>4 DEF MemorySoFar
  <2>6. ASSUME core'.running, ~skipped'
        PROVE  /\ core'.proc = cfg
               /\ core'.rules \in {NoRules, [rules |-> cfg.rules, root |-> cfg.root]}
    <3>1. /\ cfg \in Conf /\ core \in Cores
          /\ cfg = [cfg EXCEPT !.node = cfg.node]
      BY <1>2 DEF TypeOK, Conf
    <3>2. CASE op.target /\ op.plan = NoPlan /\ next = [core EXCEPT !.proc.node = op.cfg.node]
               /\ left = skipped /\ core.running
      <4>1. /\ core'.running <=> core.running
            /\ core'.proc = [core.proc EXCEPT !.node = cfg.node] /\ core'.rules = core.rules
        BY <1>1, <2>4, <3>1, <3>2
      <4>2. Reaches(cfg, NoPlan, TRUE)
        BY <1>1, <2>4, <2>6, <3>2, <4>1
      <4>3. /\ core.rules \in {NoRules, [rules |-> cfg.rules, root |-> cfg.root]}
            /\ core.proc = [cfg EXCEPT !.node = core.proc.node]
        BY <4>2 DEF Reaches, RulesOf, NoPlan
      <4>4. [core.proc EXCEPT !.node = cfg.node] = cfg
        BY <3>1, <4>3 DEF Conf
      <4> QED BY <1>1, <4>1, <4>3, <4>4
    <3>3. CASE op.plan.full /\ next = Started /\ left = FALSE
      BY <1>1, <1>2, <2>5, <3>3, StartedFacts
    <3>4. CASE ~op.plan.full /\ next = Swapped /\ left = skipped
      <4>1. [coreCfg EXCEPT !.node = op.cfg.node] = cfg
        BY <2>4, <2>5, <3>1
      <4>2. core' = [running |-> TRUE, proc |-> cfg,
                     rules |-> IF op.plan.reapply THEN [rules |-> cfg.rules, root |-> cfg.root]
                               ELSE core.rules]
        BY <1>1, <2>4, <3>4, <4>1 DEF Swapped
      <4>3. core.running => Reaches(cfg, op.plan, op.target)
        BY <1>1, <2>4, <2>6, <3>4
      <4>4. \/ op.plan.reapply
            \/ core.rules \in {NoRules, [rules |-> cfg.rules, root |-> cfg.root]}
        BY <1>2, <3>4, <4>3 DEF Reaches, RulesOf, TypeOK
      <4> QED BY <4>2, <4>4
    <3>5. next # Stopped
      BY <1>1, <1>2, <2>6, StoppedFacts
    <3> QED BY <1>1, <3>2, <3>3, <3>4, <3>5
  <2>7. Follow' => Follows(cfg)'
    BY <1>1, <2>6 DEF Follow, Follows, RulesOf
  <2>8. ASSUME Follow', o.pc \in {"apply", "idle2"} PROVE Reaches(o.next, o.plan, o.target)'
    <3>1. cfg \in Conf /\ o.next \in Conf /\ o.target \in BOOLEAN
      BY <1>1, <1>2, <2>3 DEF TypeOK, ActOK
    <3>2. core'.proc = cfg /\ core'.rules \in {NoRules, [rules |-> cfg.rules, root |-> cfg.root]}
      BY <2>6, <2>8 DEF Follow
    <3> QED BY <2>4, <2>8, <3>1, <3>2, StartReaches
  <2> QED BY <1>1, <1>2, <2>3, <2>4, <2>7, <2>8 DEF RuntimeSoFar, Planned, Committed
<1> QED BY <1>1, <1>2, <1>3, <1>4, OperationKeeps

-----------------------------------------------------------------------------
(* The invariant is inductive                                              *)

\* In the beginning nobody is under way and nothing runs.
LEMMA InitKeeps == Init => ApplyInv
<1> SUFFICES ASSUME Init PROVE ApplyInv
  OBVIOUS
<1>1. /\ cfg = First /\ coreCfg = First
      /\ disk = [f \in Files |-> First] /\ tmp = [f \in Files |-> Missing]
      /\ handle = [r \in Actors |-> "none"]
      /\ core = [running |-> FALSE, proc |-> First, rules |-> NoRules]
      /\ op = NoOp /\ act = [r \in Actors |-> Idle]
      /\ up = TRUE /\ overlap = FALSE /\ skipped = FALSE /\ last = "hup"
  BY DEF Init
<1>2. /\ First \in Conf /\ First \in Content /\ Missing \in Content \cup {Missing}
      /\ "hup" \in Actors
  BY FirstFact DEF Content, Actors
<1>3. op \in Ops
      /\ op.kind = "none"
  BY <1>1, <1>2, IdleFacts DEF NoOp, Ops
<1>4. core \in Cores /\ ~core.running /\ core.rules = NoRules
  BY <1>1, <1>2 DEF Cores
<1>5. act = [r \in Actors |-> act[r]] /\ \A r \in Actors : act[r] = Idle /\ ActOK(act[r])
  BY <1>1, IdleFacts
<1>6. disk \in [Files -> Content] /\ tmp \in [Files -> Content \cup {Missing}]
      /\ handle \in [Actors -> Handles]
  BY <1>1, <1>2 DEF Handles
<1>7. TypeOK
  BY <1>1, <1>2, <1>3, <1>4, <1>5, <1>6 DEF TypeOK
<1>8. Own = Idle /\ Idle.pc = "idle" /\ ~Idle.switch
  BY <1>1, <1>2, <1>5 DEF Own, Idle
<1>9. Down /\ Alone
  BY <1>1, <1>4, <1>5, <1>8 DEF Down, Alone, Underway
<1>10. FilesSoFar
  BY <1>1, <1>2, <1>8 DEF FilesSoFar, Files, Planned, Committed, Saving
<1>11. RequestSoFar
  BY <1>8 DEF RequestSoFar, Underway, At, Own
<1>12. MemorySoFar
  BY <1>1, <1>8 DEF MemorySoFar, Planned, Committed
<1>13. RuntimeSoFar
  BY <1>3, <1>4 DEF RuntimeSoFar, Follow
<1> QED BY <1>7, <1>9, <1>10, <1>11, <1>12, <1>13 DEF ApplyInv

\* The steps of an actor keep ApplyInv.
LEMMA HandleKeeps == ASSUME ApplyInv, NEW r \in Actors, Handle(r) PROVE ApplyInv'
<1>1. CASE CheckIdle(r) BY <1>1, CheckIdleKeeps
<1>2. CASE OpenTmp(r) BY <1>2, OpenTmpKeeps
<1>3. CASE WriteTmp(r) BY <1>3, WriteTmpKeeps
<1>4. CASE WriteFails(r) BY <1>4, WriteFailsKeeps
<1>5. CASE RenameTmp(r) BY <1>5, RenameTmpKeeps
<1>6. CASE Plan(r) BY <1>6, PlanKeeps
<1>7. CASE LookAgain(r) BY <1>7, LookAgainKeeps
<1>8. CASE EnsureIdle(r) BY <1>8, EnsureIdleKeeps
<1>9. CASE CommitConfig(r) BY <1>9, CommitConfigKeeps
<1>10. CASE PublishConfig(r) BY <1>10, PublishConfigKeeps
<1>11. CASE SyncDesiredState(r) BY <1>11, SyncDesiredStateKeeps
<1>12. CASE SelectNode(r) BY <1>12, SelectNodeKeeps
<1>13. CASE MarkSelector(r) BY <1>13, MarkSelectorKeeps
<1>14. CASE RunReload(r) BY <1>14, RunReloadKeeps
<1> QED BY <1>1, <1>2, <1>3, <1>4, <1>5, <1>6, <1>7, <1>8, <1>9, <1>10, <1>11, <1>12,
           <1>13, <1>14 DEF Handle

\* Every step keeps ApplyInv.
LEMMA NextKeepsApplyInv == ApplyInv /\ [Next]_vars => ApplyInv'
<1> SUFFICES ASSUME ApplyInv, [Next]_vars PROVE ApplyInv'
  OBVIOUS
<1>1. CASE \E r \in Requests : Receive(r)
  BY <1>1, ReceiveKeeps
<1>2. CASE \E r \in Actors : Handle(r)
  BY <1>2, HandleKeeps
<1>3. CASE RunByUser
  BY <1>3, RunByUserKeeps
<1>4. CASE StartDone
  BY <1>4, StartDoneKeeps
<1>5. CASE StopDone
  BY <1>5, StopDoneKeeps
<1>6. CASE ReloadDone
  BY <1>6, ReloadDoneKeeps
<1>7. CASE OperationFails
  BY <1>7, OperationFailsKeeps
<1>8. CASE Sighup
  BY <1>8, SighupKeeps
<1>9. CASE Crash
  BY <1>9, CrashKeeps
<1>10. CASE Boot
  BY <1>10, BootKeeps
<1>11. CASE UNCHANGED vars
  BY <1>11 DEF vars, ApplyInv, TypeOK, Down, Alone, FilesSoFar, RequestSoFar, MemorySoFar,
     RuntimeSoFar, Own, Underway, At, Loaded, LoadedProfile, Follow, Follows, Reaches, RulesOf
<1> QED BY <1>1, <1>2, <1>3, <1>4, <1>5, <1>6, <1>7, <1>8, <1>9, <1>10, <1>11 DEF Next

\* Alone, a mutation takes the files, the memory of the daemon and the runtime along the

\* steps that the invariant tells.
THEOREM ApplyInductive == Spec => []ApplyInv
BY InitKeeps, NextKeepsApplyInv, PTL DEF Spec

-----------------------------------------------------------------------------
(* What it shows                                                           *)

\* ApplyInv has what the answer says.
LEMMA AnswersFollow == ApplyInv => AnswerIsTrue
<1> SUFFICES ASSUME ApplyInv, NEW r \in Requests, Answered(r)
             PROVE  CASE act[r].answer = "failed" -> Loaded = act[r].boot
                      [] act[r].answer = "saved_not_applied" ->
                           Loaded = [act[r].next EXCEPT !.root = disk["config"].root]
                      [] OTHER -> {disk["profile"], disk["config"], cfg, coreCfg} = {act[r].next}
  BY DEF AnswerIsTrue
<1>1. RequestSoFar /\ last = r /\ At(last, "done") /\ Own = act[r]
  BY DEF Answered, ApplyInv, Own
<1>2. CASE act[r].answer = "failed"
  BY <1>1, <1>2 DEF RequestSoFar
<1>3. CASE act[r].answer = "saved_not_applied"
  BY <1>1, <1>3 DEF RequestSoFar
<1>4. CASE act[r].answer # "failed" /\ act[r].answer # "saved_not_applied"
  <2>1. disk["profile"] = act[r].next /\ disk["config"] = act[r].next
        /\ cfg = act[r].next /\ coreCfg = act[r].next
    BY <1>1, <1>4 DEF RequestSoFar
  <2> QED BY <1>4, <2>1
<1> QED BY <1>2, <1>3, <1>4

\* The answer to a mutation that met no other one tells what is stored and published

\* (AnswerIsTrue).
THEOREM AnswersAreTrue == Spec => []AnswerIsTrue
BY ApplyInductive, AnswersFollow, PTL

\* ApplyInv has the old profile, or the new one with the root that config.json has too.
LEMMA CrashesFollow == ApplyInv => CrashKeepsOldOrNew
<1> SUFFICES ASSUME ApplyInv, ~overlap PROVE CrashKeepsOldOrNew
  BY DEF CrashKeepsOldOrNew
<1>1. TypeOK /\ Alone /\ FilesSoFar
  BY DEF ApplyInv
<1>2. IsConfig(disk["config"]) /\ IsConfig(disk["profile"])
  BY <1>1, ContentFacts DEF FilesSoFar, Content
<1>3. ASSUME NEW r \in Requests, Underway(r), act[r].change.kind = "profile"
      PROVE  Loaded \in {act[r].boot, act[r].next}
  <2>1. r \in Actors
    BY DEF Actors
  <2>2. last = r /\ Own = act[r]
    BY <1>1, <1>3, <2>1 DEF Alone, Own
  <2>3. up
    BY <1>3, <2>1 DEF ApplyInv, Down, Underway, Idle
  <2>4. RequestSoFar
    BY <2>3 DEF ApplyInv
  <2>5. CASE Own.file = "profile"
    BY <1>3, <2>2, <2>4, <2>5 DEF RequestSoFar
  <2>6. CASE Own.file = "config"
    <3>1. disk["profile"] = Own.next /\ Own.next.root = disk["config"].root
      BY <1>3, <2>2, <2>4, <2>6 DEF RequestSoFar
    <3>2. Own.next \in Conf
      BY <1>1, <2>1, <2>2 DEF TypeOK, ActOK
    <3>3. Loaded = Own.next
      BY <1>2, <3>1, <3>2 DEF Loaded, LoadedProfile, Projection, Conf
    <3> QED BY <2>2, <3>3
  <2> QED BY <1>1, <2>1, <2>2, <2>5, <2>6 DEF TypeOK, ActOK, Files
<1> QED BY <1>2, <1>3 DEF CrashKeepsOldOrNew

\* Wherever a crash cuts a mutation that met no other one, the files load, as they were or

\* with the change (CrashKeepsOldOrNew).
THEOREM CrashesKeepOldOrNew == Spec => []CrashKeepsOldOrNew
BY ApplyInductive, CrashesFollow, PTL

\* ApplyInv has what the runtime runs with when nobody is under way.
LEMMA RuntimeFollows == ApplyInv => RuntimeFollowsConfig
<1> SUFFICES ASSUME ApplyInv, ~overlap, ~skipped, up, core.running, op = NoOp,
                    \A r \in Actors : ~Underway(r)
             PROVE  /\ core.proc = cfg
                    /\ core.rules \in {NoRules, [rules |-> cfg.rules, root |-> cfg.root]}
  BY DEF RuntimeFollowsConfig
<1>1. Own.pc \in {"idle", "done"}
  BY DEF ApplyInv, TypeOK, Own, Underway
<1>2. op.kind = "none"
  BY IdleFacts
<1> QED BY <1>1, <1>2 DEF ApplyInv, RuntimeSoFar, Follow, Follows, RulesOf

\* When all is quiet and no change was left out, sing-box runs with the daemon's

\* configuration and the kernel with its rules, whichever plan the reload took
\* (RuntimeFollowsConfig).
THEOREM RuntimesFollow == Spec => []RuntimeFollowsConfig
BY ApplyInductive, RuntimeFollows, PTL

=============================================================================
