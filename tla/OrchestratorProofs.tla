------------------------- MODULE OrchestratorProofs --------------------------
(***************************************************************************)
(* Proofs about the runtime actor and its status file, for any profiles,   *)
(* codes, kinds and any number of operations.                              *)
(*                                                                         *)
(* The safety invariants are not inductive as they stand: that only the    *)
(* active operation is unfinished needs to know which goroutines exist     *)
(* (IdsInOrder), that the active operation is one of them (ActiveRuns),    *)
(* and that the readiness gate wakes only its own operation (GateOwned);   *)
(* that generations survive a completion needs to know what a computed     *)
(* completion holds until it is stored (CompletionFits).  The status file  *)
(* takes nothing from the actor: every step with the observer is a step of *)
(* the actor or none.                                                      *)
(***************************************************************************)
EXTENDS StatusFile, TLAPS

IdsInOrder == \A s \in Ops : op[s].pc = "none" <=> s > opSeq

ActiveRuns == active # 0 => active = opSeq /\ op[active].pc \in Unfinished

GateOwned ==
  refresher.owner # 0 => refresher.pc # "idle" /\ op[refresher.owner].pc = "gating"

\* A completion that waits for the mutex.
CompletionFits ==
  \A s \in Ops : op[s].pc = "finishing" =>
    LET c == op[s].completion IN
    /\ c.applied.generation = s
    /\ c.err => c.applied.phase # "HEALTHY"

\* The profile that a goroutine captured is still the desired one.
ProfileKept ==
  \A s \in Ops :
    /\ op[s].pc \in Unfinished => op[s].want = desired
    /\ (/\ op[s].pc = "finishing" /\ ~op[s].completion.err
        /\ op[s].kind \in {"start", "restart"} \cup DesiredStateKinds)
       => op[s].completion.applied.profile = desired

\* Only a function given to RunOperation has a readiness gate and returns to
\* the closure.
GatesInFn ==
  \A s \in Ops : op[s].pc \in {"gate", "gating", "returned"} => op[s].kind \in FnKinds

IInv ==
  /\ TypeOK
  /\ IdsInOrder
  /\ ActiveRuns
  /\ OneOperationAtATime
  /\ GenerationIdentifiesOperation
  /\ GateOwned
  /\ CompletionFits
  /\ ProfileKept
  /\ GatesInFn

-----------------------------------------------------------------------------
(* Data                                                                    *)

\* The stage table maps every code to a phase, and no failed check to HEALTHY.
LEMMA StageType ==
  \A c \in DOMAIN StageOfCode : StageOfCode[c] \in Phase \ {"HEALTHY"}
PROOF BY DEF StageOfCode, Phase

\* A health maps to a phase.
LEMMA PhaseType ==
  ASSUME NEW h \in Health, NEW fallback \in Phase
  PROVE  phaseFromHealth(h, fallback) \in Phase
PROOF BY StageType DEF phaseFromHealth, Phase

\* Without passed checks and a healthy fallback there is no healthy phase.
LEMMA PhaseNotHealthy ==
  ASSUME NEW h \in Health, h.ready = "down",
         NEW fallback \in Phase, fallback # "HEALTHY"
  PROVE  phaseFromHealth(h, fallback) # "HEALTHY"
PROOF BY StageType DEF phaseFromHealth, OperationalHealthy, Healthy

\* Identities of operations are positive numbers.
LEMMA OpsType ==
  /\ \A s \in Ops : s \in Nat /\ s # 0
  /\ \A n \in 0 .. MaxOps : n \in Nat
PROOF BY OrchestratorAssumption DEF Ops

\* AnyProfile is a profile.
LEMMA AnyProfileType == AnyProfile \in Profiles
PROOF BY OrchestratorAssumption DEF AnyProfile

\* A record of a level, a code and a stamp is a health.
LEMMA HealthType ==
  ASSUME NEW r \in {"down", "ready", "operational"}, NEW c \in Codes, NEW t \in Nat
  PROVE  [ready |-> r, code |-> c, at |-> t] \in Health
PROOF BY DEF Health

\* Every set of codes is part of Codes.
LEMMA CodesType ==
  /\ HardCodes \subseteq Codes /\ SoftCodes \subseteq Codes
  /\ ErrorCodes \subseteq Codes /\ "" \in Codes /\ "PANIC" \in Codes
PROOF BY DEF Codes

\* A full run of the checks reports a health.
LEMMA ProbedType == ASSUME NEW t \in Nat PROVE ProbedHealth(t) \subseteq Health
<1>1. [ready |-> "operational", code |-> "", at |-> t] \in Health
  BY HealthType, CodesType
<1>2. \A c \in SoftCodes : [ready |-> "ready", code |-> c, at |-> t] \in Health
  BY HealthType, CodesType
<1>3. \A c \in HardCodes : [ready |-> "down", code |-> c, at |-> t] \in Health
  BY HealthType, CodesType
<1> QED BY <1>1, <1>2, <1>3, Zenon DEF ProbedHealth

\* So does an error of the backend.
LEMMA ErrorType ==
  ASSUME opSeq \in Nat, NEW h \in ErrorHealth
  PROVE  h \in Health /\ h.ready = "down" /\ h.at # 0
<1>1. PICK c \in ErrorCodes : h = [ready |-> "down", code |-> c, at |-> Now]
  BY DEF ErrorHealth
<1>2. Now \in Nat /\ Now # 0
  BY DEF Now
<1>3. h \in Health
  BY <1>1, <1>2, HealthType, CodesType
<1>4. h.ready = "down" /\ h.at = Now
  BY <1>1
<1> QED BY <1>2, <1>3, <1>4

\* So does the cached health of the backend.
LEMMA CachedType == ASSUME opSeq \in Nat PROVE CachedHealth \subseteq Health
<1>1. Now \in Nat
  BY DEF Now
<1>2. \A r \in {"down", "ready"} : [ready |-> r, code |-> "", at |-> Now] \in Health
  BY <1>1, HealthType, CodesType
<1>3. ProbedHealth(opSeq) \subseteq Health /\ ProbedHealth(Now) \subseteq Health
  BY <1>1, ProbedType
<1> QED BY <1>2, <1>3, Zenon DEF CachedHealth

\* So does the merge of two.
LEMMA MergedType ==
  ASSUME NEW h \in Health, NEW p \in Health PROVE Merged(h, p) \in Health
PROOF BY DEF Merged, Health

\* APhase builds an applied state.
LEMMA APhaseType ==
  ASSUME NEW p \in Phase, NEW profile \in Profiles, NEW g \in Nat
  PROVE  /\ APhase(p, profile, g) \in Applied
         /\ APhase(p, profile, g).phase = p
         /\ APhase(p, profile, g).profile = profile
         /\ APhase(p, profile, g).generation = g
PROOF BY DEF APhase, Applied

\* An operation that has not begun or is done is an operation record.
LEMMA BlankType ==
  ASSUME NEW pc \in Pc, NEW g \in Nat PROVE Blank(pc, g) \in OpRecord
<1>1. NoApplied \in Applied
  BY AnyProfileType, APhaseType DEF NoApplied, Phase
<1>2. NoHealth \in Health
  BY CodesType DEF NoHealth, Health
<1>3. NoCompletion \in Completion
  BY <1>1, <1>2 DEF NoCompletion, Completion
<1> QED BY <1>1, <1>3, AnyProfileType DEF Blank, OpRecord

\* The new actor satisfies IInv.
LEMMA InitIInv == Init => IInv
<1> SUFFICES ASSUME Init PROVE IInv
  OBVIOUS
<1>1. NoApplied \in Applied /\ NoApplied.generation = 0
  BY AnyProfileType, APhaseType DEF NoApplied, Phase
<1>2. NoHealth \in Health
  BY CodesType DEF NoHealth, Health
<1>3. Blank("none", 0) \in OpRecord /\ Blank("none", 0).pc = "none"
  BY BlankType DEF Pc, Blank
<1>4. TypeOK
  BY <1>1, <1>2, <1>3, OrchestratorAssumption
     DEF Init, TypeOK, Ops, Result, NoRefresh
<1>5. IdsInOrder
  BY <1>3 DEF Init, IdsInOrder, Ops
<1>6. GenerationIdentifiesOperation
  BY <1>1, <1>3 DEF Init, GenerationIdentifiesOperation, Ops
<1>7. ActiveRuns /\ GateOwned
  BY DEF Init, ActiveRuns, GateOwned, NoRefresh
<1>8. OneOperationAtATime /\ CompletionFits /\ ProfileKept
  BY <1>3 DEF Init, OneOperationAtATime, CompletionFits, ProfileKept, Ops,
              Unfinished
<1>9. GatesInFn
  BY <1>3 DEF Init, GatesInFn
<1> QED BY <1>4, <1>5, <1>6, <1>7, <1>8, <1>9 DEF IInv

-----------------------------------------------------------------------------
(* Steps of an operation's goroutine                                       *)

\* What a record may become while its operation stays unfinished.
Advances(s, r) ==
  /\ r \in OpRecord
  /\ r.pc \in Unfinished
  /\ r.kind = op[s].kind /\ r.generation = op[s].generation /\ r.want = op[s].want
  /\ r.pc \in {"gate", "gating", "returned"} => r.kind \in FnKinds
  /\ r.pc = "finishing" =>
       /\ r.completion.applied.generation = s
       /\ r.completion.err => r.completion.applied.phase # "HEALTHY"
       /\ (~r.completion.err /\ r.kind \in {"start", "restart"} \cup DesiredStateKinds)
            => r.completion.applied.profile = desired

\* A step that only advances one unfinished operation keeps the invariant,
\* whatever it does with the refresher that suits its readiness gate.
LEMMA AdvanceStep ==
  ASSUME IInv, NEW s \in Ops, op[s].pc \in Unfinished, NEW r, Advances(s, r),
         op' = [op EXCEPT ![s] = r],
         UNCHANGED <<desired, applied, health, active, last, opSeq>>,
         refresher' \in [pc : {"idle", "probing", "stored"}, owner : 0 .. MaxOps,
                         health : Health],
         GateOwned'
  PROVE  IInv'
<1>1. op \in [Ops -> OpRecord] /\ op'[s] = r
  BY DEF IInv, TypeOK
<1>2. \A q \in Ops : q # s => op'[q] = op[q]
  BY <1>1
<1>3. TypeOK'
  BY <1>1 DEF IInv, TypeOK, Advances
<1>4. IdsInOrder'
  BY <1>1, <1>2 DEF IInv, IdsInOrder, Advances, Unfinished
<1>5. ActiveRuns'
  BY <1>1, <1>2 DEF IInv, ActiveRuns, TypeOK, Advances, OneOperationAtATime
<1>6. OneOperationAtATime'
  BY <1>1, <1>2 DEF IInv, OneOperationAtATime
<1>7. GenerationIdentifiesOperation'
  BY <1>1, <1>2 DEF IInv, GenerationIdentifiesOperation, Advances, Unfinished
<1>8. CompletionFits'
  BY <1>1, <1>2 DEF IInv, CompletionFits, Advances
<1>9. ProfileKept'
  BY <1>1, <1>2 DEF IInv, ProfileKept, Advances
<1>10. GatesInFn'
  BY <1>1, <1>2 DEF IInv, GatesInFn, Advances
<1> QED BY <1>3, <1>4, <1>5, <1>6, <1>7, <1>8, <1>9, <1>10 DEF IInv

\* GateOwned survives when neither the refresher nor a gating operation moves.
LEMMA GateStep ==
  ASSUME IInv, NEW s \in Ops, op[s].pc # "gating", UNCHANGED refresher,
         NEW r, op' = [op EXCEPT ![s] = r]
  PROVE  GateOwned'
PROOF BY DEF IInv, TypeOK, GateOwned

\* A closure that computes a completion that fits keeps IInv.
LEMMA CompleteStep ==
  ASSUME IInv, NEW s \in Ops, op[s].pc \in Unfinished \ {"gating"},
         NEW err \in BOOLEAN, NEW h \in Health, NEW ap \in Applied,
         ap.generation = s,
         err => ap.phase # "HEALTHY",
         (~err /\ op[s].kind \in {"start", "restart"} \cup DesiredStateKinds)
           => ap.profile = desired,
         CompleteWith(s, err, h, ap)
  PROVE  IInv'
<1> DEFINE c == [err |-> err, health |-> h, applied |-> ap]
           r == [op[s] EXCEPT !.pc = "finishing", !.completion = c]
<1>1. op[s] \in OpRecord /\ op \in [Ops -> OpRecord]
  BY DEF IInv, TypeOK
<1>2. c \in Completion /\ c.err = err /\ c.applied = ap
  BY DEF Completion
<1>3. r \in OpRecord /\ r.completion = c /\ r.pc = "finishing"
      /\ r.kind = op[s].kind /\ r.generation = op[s].generation /\ r.want = op[s].want
  BY <1>1, <1>2 DEF OpRecord, Pc, Unfinished
<1>4. Advances(s, r)
  BY <1>2, <1>3 DEF Advances, Unfinished
<1>5. op' = [op EXCEPT ![s] = r]
  BY <1>1 DEF CompleteWith
<1>6. /\ UNCHANGED <<desired, applied, health, active, last, opSeq>>
      /\ UNCHANGED refresher
  BY DEF CompleteWith
<1>7. GateOwned'
  BY <1>5, <1>6, GateStep
<1>8. refresher' \in [pc : {"idle", "probing", "stored"}, owner : 0 .. MaxOps,
                      health : Health]
  BY <1>6 DEF IInv, TypeOK
<1> HIDE DEF r
<1> QED BY <1>4, <1>5, <1>6, <1>7, <1>8, AdvanceStep

\* A goroutine that only moves on keeps IInv.
LEMMA MoveStep ==
  ASSUME IInv, NEW s \in Ops, op[s].pc \in Unfinished \ {"gating"},
         NEW pc \in {"gate", "returned", "panicked"}, MoveTo(s, pc),
         pc # "panicked" => op[s].kind \in FnKinds
  PROVE  IInv'
<1> DEFINE r == [op[s] EXCEPT !.pc = pc]
<1>1. op[s] \in OpRecord /\ op \in [Ops -> OpRecord]
  BY DEF IInv, TypeOK
<1>2. Advances(s, r)
  BY <1>1 DEF Advances, OpRecord, Pc, Unfinished
<1>3. op' = [op EXCEPT ![s] = r]
  BY <1>1 DEF MoveTo
<1>4. /\ UNCHANGED <<desired, applied, health, active, last, opSeq>>
      /\ UNCHANGED refresher
  BY DEF MoveTo
<1>5. GateOwned'
  BY <1>3, <1>4, GateStep
<1>6. refresher' \in [pc : {"idle", "probing", "stored"}, owner : 0 .. MaxOps,
                      health : Health]
  BY <1>4 DEF IInv, TypeOK
<1> HIDE DEF r
<1> QED BY <1>2, <1>3, <1>4, <1>5, <1>6, AdvanceStep

\* The record of an operation whose function failed.
LEMMA FailedAdvances ==
  ASSUME IInv, NEW s \in Ops, op[s].pc \in Unfinished, NEW h \in ErrorHealth
  PROVE  \E r : Advances(s, r) /\ Failed(s, h) = [op EXCEPT ![s] = r]
<1> DEFINE ap == APhase(phaseFromHealth(h, "FAILED"), op[s].prev.profile,
                        op[s].generation)
           c == [err |-> TRUE, health |-> h, applied |-> ap]
           r == [op[s] EXCEPT !.pc = "finishing", !.completion = c]
<1>1. op[s] \in OpRecord /\ op \in [Ops -> OpRecord] /\ op[s].generation = s
  BY DEF IInv, TypeOK, GenerationIdentifiesOperation, Unfinished
<1>2. h \in Health /\ h.ready = "down"
  BY ErrorType DEF IInv, TypeOK, Ops
<1>3. phaseFromHealth(h, "FAILED") \in Phase \ {"HEALTHY"}
  BY <1>2, PhaseType, PhaseNotHealthy DEF Phase
<1>4. op[s].prev.profile \in Profiles
  BY <1>1 DEF OpRecord, Applied
<1>5. ap \in Applied /\ ap.generation = s /\ ap.phase # "HEALTHY"
  BY <1>1, <1>3, <1>4, APhaseType DEF Ops
<1> HIDE DEF ap
<1>6. c \in Completion /\ c.err = TRUE /\ c.applied = ap
  BY <1>2, <1>5 DEF Completion
<1> HIDE DEF c
<1>7. Advances(s, r)
  BY <1>1, <1>5, <1>6 DEF Advances, OpRecord, Pc, Unfinished
<1>8. Failed(s, h) = [op EXCEPT ![s] = r]
  BY <1>1 DEF Failed, c, ap
<1> QED BY <1>7, <1>8

\* What the actions of operation s find in its record.
LEMMA OpFacts ==
  ASSUME IInv, NEW s \in Ops
  PROVE  /\ op[s] \in OpRecord /\ op[s].want \in Profiles
         /\ op[s].prev \in Applied /\ op[s].prev.profile \in Profiles
         /\ op[s].pc # "none" => op[s].generation = s
         /\ op[s].pc \in Unfinished => op[s].want = desired
         /\ s \in Nat /\ opSeq \in Nat /\ Now \in Nat /\ Now # 0
         /\ desired \in Profiles /\ health \in Health
<1>1. op[s] \in OpRecord
  BY DEF IInv, TypeOK
<1>2. op[s].want \in Profiles /\ op[s].prev \in Applied
  BY <1>1 DEF OpRecord
<1>3. op[s].prev.profile \in Profiles
  BY <1>2 DEF Applied
<1>4. op[s].pc # "none" => op[s].generation = s
  BY DEF IInv, GenerationIdentifiesOperation
<1>5. op[s].pc \in Unfinished => op[s].want = desired
  BY DEF IInv, ProfileKept
<1>6. opSeq \in Nat /\ desired \in Profiles /\ health \in Health
  BY OpsType DEF IInv, TypeOK
<1>7. Now \in Nat /\ Now # 0
  BY <1>6 DEF Now
<1> QED BY <1>1, <1>2, <1>3, <1>4, <1>5, <1>6, <1>7, OpsType

\* A start or restart keeps IInv.
LEMMA RunStartStep == ASSUME IInv, NEW s \in Ops, RunStart(s) PROVE IInv'
<1>1. /\ op[s] \in OpRecord /\ op[s].generation = s /\ op[s].want = desired
      /\ op[s].pc \in Unfinished \ {"gating"} /\ opSeq \in Nat /\ Now \in Nat
  BY OpFacts DEF RunStart, Unfinished
<1>2. CASE \E h \in ErrorHealth :
             CompleteWith(s, TRUE, h, APhase(phaseFromHealth(h, "FAILED"),
                                             op[s].want, op[s].generation))
  <2>1. PICK h \in ErrorHealth :
          CompleteWith(s, TRUE, h, APhase(phaseFromHealth(h, "FAILED"),
                                          op[s].want, op[s].generation))
    BY <1>2
  <2>2. h \in Health /\ phaseFromHealth(h, "FAILED") \in Phase \ {"HEALTHY"}
    BY <1>1, ErrorType, PhaseType, PhaseNotHealthy DEF Phase
  <2> DEFINE ap == APhase(phaseFromHealth(h, "FAILED"), op[s].want, op[s].generation)
  <2>3. ap \in Applied /\ ap.generation = s /\ ap.phase # "HEALTHY"
    BY <1>1, <2>2, OpFacts, APhaseType
  <2>4. CompleteWith(s, TRUE, h, ap)
    BY <2>1
  <2> HIDE DEF ap
  <2> QED BY <1>1, <2>2, <2>3, <2>4, CompleteStep
<1>3. CASE \E h \in ProbedHealth(Now) :
             CompleteWith(s, FALSE, h, APhase(phaseFromHealth(h, "HEALTHY"),
                                              op[s].want, op[s].generation))
  <2>1. PICK h \in ProbedHealth(Now) :
          CompleteWith(s, FALSE, h, APhase(phaseFromHealth(h, "HEALTHY"),
                                           op[s].want, op[s].generation))
    BY <1>3
  <2>2. h \in Health /\ phaseFromHealth(h, "HEALTHY") \in Phase
    BY <1>1, ProbedType, PhaseType DEF Phase
  <2> DEFINE ap == APhase(phaseFromHealth(h, "HEALTHY"), op[s].want, op[s].generation)
  <2>3. ap \in Applied /\ ap.generation = s /\ ap.profile = desired
    BY <1>1, <2>2, OpFacts, APhaseType
  <2>4. CompleteWith(s, FALSE, h, ap)
    BY <2>1
  <2> HIDE DEF ap
  <2> QED BY <1>1, <2>2, <2>3, <2>4, CompleteStep
<1> QED BY <1>2, <1>3 DEF RunStart

\* A stop keeps IInv.
LEMMA RunStopStep == ASSUME IInv, NEW s \in Ops, RunStop(s) PROVE IInv'
<1> DEFINE h == [ready |-> "down", code |-> "", at |-> Now]
           ap(phase) == APhase(phase, op[s].prev.profile, op[s].generation)
<1>1. /\ op[s] \in OpRecord /\ op[s].generation = s /\ op[s].kind = "stop"
      /\ op[s].pc \in Unfinished \ {"gating"} /\ Now \in Nat
  BY OpFacts DEF RunStop, Unfinished
<1>2. h \in Health
  BY <1>1, HealthType, CodesType
<1>3. \A phase \in {"STOPPED", "FAILED"} :
        ap(phase) \in Applied /\ ap(phase).generation = s /\ ap(phase).phase = phase
  BY <1>1, OpFacts, APhaseType DEF Phase
<1>4. \E err \in BOOLEAN, phase \in {"STOPPED", "FAILED"} :
        CompleteWith(s, err, h, ap(phase))
  BY Zenon DEF RunStop
<1> HIDE DEF h, ap
<1> QED BY <1>1, <1>2, <1>3, <1>4, CompleteStep DEF DesiredStateKinds

\* A reset keeps IInv.
LEMMA RunResetStep == ASSUME IInv, NEW s \in Ops, RunReset(s) PROVE IInv'
<1> DEFINE h == [ready |-> "down", code |-> "", at |-> Now]
           ap == APhase("STOPPED", op[s].want, op[s].generation)
<1>1. /\ op[s] \in OpRecord /\ op[s].generation = s /\ op[s].kind = "reset"
      /\ op[s].pc \in Unfinished \ {"gating"} /\ Now \in Nat
  BY OpFacts DEF RunReset, Unfinished
<1>2. h \in Health
  BY <1>1, HealthType, CodesType
<1>3. ap \in Applied /\ ap.generation = s /\ ap.phase = "STOPPED"
  BY <1>1, OpFacts, APhaseType DEF Phase
<1>4. \E err \in BOOLEAN : CompleteWith(s, err, h, ap)
  BY DEF RunReset
<1> HIDE DEF h, ap
<1> QED BY <1>1, <1>2, <1>3, <1>4, CompleteStep DEF DesiredStateKinds

\* A network change keeps IInv.
LEMMA RunNetworkChangeStep ==
  ASSUME IInv, NEW s \in Ops, RunNetworkChange(s) PROVE IInv'
<1>1. /\ op[s] \in OpRecord /\ op[s].generation = s /\ op[s].kind = "network-change"
      /\ op[s].pc \in Unfinished \ {"gating"} /\ opSeq \in Nat
  BY OpFacts DEF RunNetworkChange, Unfinished
<1>2. PICK err \in BOOLEAN, h \in CachedHealth :
        CompleteWith(s, err, h, APhase(NetworkChangePhase(err, h),
                                       op[s].prev.profile, op[s].generation))
  BY DEF RunNetworkChange
<1>3. h \in Health
  BY <1>1, CachedType
<1>4. NetworkChangePhase(err, h) \in Phase /\ (err => NetworkChangePhase(err, h) # "HEALTHY")
  BY <1>3, PhaseType DEF NetworkChangePhase, Phase
<1> DEFINE ap == APhase(NetworkChangePhase(err, h), op[s].prev.profile, op[s].generation)
<1>5. ap \in Applied /\ ap.generation = s /\ (err => ap.phase # "HEALTHY")
  BY <1>1, <1>4, OpFacts, APhaseType
<1>6. CompleteWith(s, err, h, ap)
  BY <1>2
<1> HIDE DEF ap
<1> QED BY <1>1, <1>3, <1>5, <1>6, CompleteStep DEF DesiredStateKinds

\* A function that fails keeps IInv.
LEMMA FnFailsStep ==
  ASSUME IInv, NEW s \in Ops, op[s].pc \in Unfinished \ {"gating"}, FnFails(s)
  PROVE  IInv'
<1>1. PICK h \in ErrorHealth : op' = Failed(s, h)
  BY DEF FnFails
<1>2. PICK r : Advances(s, r) /\ Failed(s, h) = [op EXCEPT ![s] = r]
  BY FailedAdvances
<1>3. UNCHANGED <<desired, applied, health, active, last, opSeq>> /\ UNCHANGED refresher
  BY DEF FnFails
<1>4. op' = [op EXCEPT ![s] = r]
  BY <1>1, <1>2
<1>5. GateOwned'
  BY <1>3, <1>4, GateStep
<1>6. refresher' \in [pc : {"idle", "probing", "stored"}, owner : 0 .. MaxOps,
                      health : Health]
  BY <1>3 DEF IInv, TypeOK
<1> QED BY <1>2, <1>3, <1>4, <1>5, <1>6, AdvanceStep

\* A function that returns, fails or reaches its gate keeps IInv.
LEMMA RunFnStep == ASSUME IInv, NEW s \in Ops, RunFn(s) PROVE IInv'
<1>1. op[s].pc \in Unfinished \ {"gating"} /\ op[s].kind \in FnKinds
  BY DEF RunFn, Unfinished
<1> QED BY <1>1, MoveStep, FnFailsStep DEF RunFn

\* A gate that decides on the stored snapshot keeps IInv.
LEMMA GateCachedStep == ASSUME IInv, NEW s \in Ops, GateCached(s) PROVE IInv'
<1>1. op[s].pc \in Unfinished \ {"gating"} /\ op[s].kind \in FnKinds
  BY DEF GateCached, Unfinished, IInv, GatesInFn
<1> QED BY <1>1, MoveStep, FnFailsStep DEF GateCached

\* A panic keeps IInv.
LEMMA PanicStep == ASSUME IInv, NEW s \in Ops, Panic(s) PROVE IInv'
<1>1. op[s].pc \in Unfinished \ {"gating"}
  BY DEF Panic, Unfinished
<1> QED BY <1>1, MoveStep DEF Panic

\* A gate that starts a check of its own keeps IInv.
LEMMA GateRefreshStep == ASSUME IInv, NEW s \in Ops, GateRefresh(s) PROVE IInv'
<1> DEFINE r == [op[s] EXCEPT !.pc = "gating"]
<1>1. op[s] \in OpRecord /\ op \in [Ops -> OpRecord] /\ op[s].pc \in Unfinished
  BY DEF IInv, TypeOK, GateRefresh, Unfinished
<1>2. Advances(s, r)
  BY <1>1 DEF Advances, OpRecord, Pc, Unfinished, IInv, GatesInFn, GateRefresh
<1>3. op' = [op EXCEPT ![s] = r]
  BY <1>1 DEF GateRefresh
<1>4. UNCHANGED <<desired, applied, health, active, last, opSeq>>
  BY DEF GateRefresh
<1>5. [NoHealth EXCEPT !.at = Now] \in Health
  BY CodesType, OpFacts DEF NoHealth, Health
<1>6. refresher' \in [pc : {"idle", "probing", "stored"}, owner : 0 .. MaxOps,
                      health : Health]
  BY <1>5 DEF GateRefresh, Ops
<1>7. GateOwned'
  BY <1>1, <1>3 DEF GateRefresh, GateOwned
<1> HIDE DEF r
<1> QED BY <1>1, <1>2, <1>3, <1>4, <1>6, <1>7, AdvanceStep

\* Reading the health and the desired state after fn keeps IInv.
LEMMA ReadAfterFnStep == ASSUME IInv, NEW s \in Ops, ReadAfterFn(s) PROVE IInv'
<1> DEFINE ap == AppliedAfterFn(s)
<1>1. /\ op[s] \in OpRecord /\ op[s].generation = s /\ desired \in Profiles
      /\ op[s].pc \in Unfinished \ {"gating"} /\ health \in Health
  BY DEF IInv, TypeOK, GenerationIdentifiesOperation, ReadAfterFn, Unfinished
<1>2. op[s].prev \in Applied /\ phaseFromHealth(health, "HEALTHY") \in Phase
  BY <1>1, PhaseType DEF OpRecord, Phase
<1>3. ap \in Applied /\ ap.generation = s
      /\ (op[s].kind \in DesiredStateKinds => ap.profile = desired)
  BY <1>1, <1>2, OpsType DEF AppliedAfterFn, APhase, Applied, DesiredStateKinds, Phase
<1>4. NoHealth \in Health
  BY CodesType DEF NoHealth, Health
<1>5. CompleteWith(s, FALSE, NoHealth, ap)
  BY DEF ReadAfterFn
<1>6. op[s].kind \notin {"start", "restart"}
  BY DEF ReadAfterFn, IInv, GatesInFn, FnKinds, DesiredStateKinds
<1> HIDE DEF ap
<1> QED BY <1>1, <1>3, <1>4, <1>5, <1>6, CompleteStep

\* Storing a completion: the operation gives up the runtime and its record.
LEMMA FinishStep == ASSUME IInv, NEW s \in Ops, Finish(s) PROVE IInv'
<1> DEFINE c == CompletionOf(s)
<1>1. /\ op[s].pc \in {"finishing", "panicked"} /\ active = s /\ active = opSeq
      /\ op[s].generation = s /\ active' = 0
  <2>1. op[s].pc \in {"finishing", "panicked"} /\ active' = OwnerAfter(s)
    BY DEF Finish, HasEnded
  <2>2. active = s /\ s # 0
    BY <2>1, OpsType DEF IInv, OneOperationAtATime, Unfinished
  <2>3. active = opSeq
    BY <2>2 DEF IInv, ActiveRuns
  <2> QED BY <2>1, <2>2, <2>3, OpFacts DEF OwnerAfter
<1>2. op[s].completion \in Completion /\ applied \in Applied
  BY OpFacts DEF OpRecord, IInv, TypeOK
<1>3. c.err \in BOOLEAN /\ c.health \in Health
  BY <1>2, OpFacts, CodesType DEF CompletionOf, Completion, Health
<1>4. c.applied \in Applied /\ c.applied.generation = s
  <2>1. CASE op[s].pc = "panicked"
    BY <1>1, <1>2, <2>1, OpFacts DEF CompletionOf, Applied, Phase
  <2>2. CASE op[s].pc = "finishing"
    BY <1>2, <2>2 DEF CompletionOf, Completion, IInv, CompletionFits
  <2> QED BY <1>1, <2>1, <2>2
<1> DEFINE b == Blank("done", op[s].generation)
<1>5. b \in OpRecord /\ b.pc = "done" /\ b.generation = s
  BY <1>1, OpFacts, BlankType DEF Pc, Blank
<1> HIDE DEF b
<1>6. op \in [Ops -> OpRecord] /\ op' = [op EXCEPT ![s] = b]
  BY DEF Finish, b, IInv, TypeOK
<1>7. op'[s] = b /\ \A q \in Ops : q # s => op'[q] = op[q]
  BY <1>6
<1>8. /\ health' \in Health /\ applied' = c.applied
      /\ last' = [op |-> s, ok |-> ~c.err, generation |-> s]
      /\ UNCHANGED <<desired, opSeq, refresher>>
  BY <1>1, <1>3, OpFacts DEF Finish
<1> HIDE DEF c
<1>9. \A q \in Ops : op'[q].pc \notin Unfinished
  BY <1>1, <1>5, <1>7 DEF IInv, OneOperationAtATime, Unfinished
<1>10. TypeOK'
  <2>1. last' \in Result
    BY <1>3, <1>8, OpFacts DEF Result
  <2>2. op' \in [Ops -> OpRecord]
    BY <1>5, <1>6
  <2>3. active' \in 0 .. MaxOps
    BY <1>1, OrchestratorAssumption
  <2> QED BY <1>4, <1>8, <2>1, <2>2, <2>3 DEF IInv, TypeOK
<1>11. IdsInOrder'
  BY <1>1, <1>5, <1>7, <1>8 DEF IInv, IdsInOrder, Unfinished
<1>12. GenerationIdentifiesOperation'
  <2>1. applied'.generation = opSeq' /\ last'.generation = last'.op /\ last'.op = opSeq'
    BY <1>1, <1>4, <1>8
  <2>2. \A q \in Ops : op'[q].pc # "none" => op'[q].generation = q
    BY <1>5, <1>7 DEF IInv, GenerationIdentifiesOperation
  <2> QED BY <1>1, <2>1, <2>2 DEF GenerationIdentifiesOperation
<1>13. GateOwned'
  BY <1>1, <1>7, <1>8 DEF IInv, TypeOK, GateOwned, Ops
<1>14. ActiveRuns' /\ OneOperationAtATime'
  BY <1>1, <1>9 DEF ActiveRuns, OneOperationAtATime
<1>15. CompletionFits' /\ ProfileKept' /\ GatesInFn'
  BY <1>9 DEF CompletionFits, ProfileKept, GatesInFn, Unfinished
<1> QED BY <1>10, <1>11, <1>12, <1>13, <1>14, <1>15 DEF IInv

-----------------------------------------------------------------------------
(* Requests, refreshes, polls and changes of the desired state             *)

\* With the slot free no goroutine of an operation is under way.
LEMMA IdleMeansNone ==
  ASSUME IInv, Idle PROVE \A s \in Ops : op[s].pc \notin Unfinished
PROOF BY OpsType DEF IInv, OneOperationAtATime, Idle

\* Accepting an operation keeps IInv, whatever its kind captures.
LEMMA SubmitStep ==
  ASSUME IInv, NEW kind \in OperationKinds, NEW ap,
         \E p \in Phase, profile \in Profiles, g \in Nat : ap = APhase(p, profile, g),
         Submit(kind, ap)
  PROVE  IInv'
<1> DEFINE s == opSeq + 1
           r == [pc |-> "running", kind |-> kind, generation |-> nextGeneration,
                 prev |-> applied, want |-> desired, completion |-> NoCompletion]
<1>1. /\ opSeq \in Nat /\ s \in Ops /\ active = 0 /\ active' = s /\ opSeq' = s
      /\ applied.generation = opSeq /\ nextGeneration = s /\ last.op = opSeq
  BY OpsType, OrchestratorAssumption
     DEF Submit, Idle, Ops, nextGeneration, IInv, TypeOK, GenerationIdentifiesOperation
<1>2. applied \in Applied /\ desired \in Profiles /\ NoCompletion \in Completion
  <2>1. Blank("none", 0) \in OpRecord
    BY BlankType DEF Pc
  <2>2. NoCompletion \in Completion
    BY <2>1 DEF Blank, OpRecord
  <2> QED BY <2>2 DEF IInv, TypeOK
<1>3. r \in OpRecord
  <2>1. nextGeneration \in Nat /\ kind \in OperationKinds \cup {""}
    BY <1>1, OpsType
  <2>2. "running" \in Pc
    BY DEF Pc, Unfinished
  <2> QED BY <1>2, <2>1, <2>2 DEF OpRecord
<1>4. r.pc = "running" /\ r.generation = s /\ r.want = desired
  BY <1>1
<1>5. op \in [Ops -> OpRecord] /\ op' = [op EXCEPT ![s] = r]
  BY DEF Submit, IInv, TypeOK
<1> HIDE DEF r
<1>6. op'[s] = r /\ \A q \in Ops : q # s => op'[q] = op[q]
  BY <1>1, <1>5
<1>7. applied' \in Applied /\ applied'.generation = s
  BY <1>1 DEF Submit, APhase, Applied
<1>8. \A q \in Ops : op[q].pc \notin Unfinished
  BY IdleMeansNone DEF Submit
<1>9. UNCHANGED <<desired, health, last, refresher>>
  BY DEF Submit
<1> HIDE DEF s
<1>10. TypeOK'
  BY <1>1, <1>3, <1>5, <1>7, <1>9 DEF IInv, TypeOK, Ops
<1>11. IdsInOrder'
  BY <1>1, <1>4, <1>6, OpsType DEF IInv, IdsInOrder, s
<1>12. ActiveRuns' /\ OneOperationAtATime'
  BY <1>1, <1>4, <1>6, <1>8 DEF ActiveRuns, OneOperationAtATime, Unfinished
<1>13. GenerationIdentifiesOperation'
  BY <1>1, <1>4, <1>6, <1>7, <1>9, OpsType DEF IInv, GenerationIdentifiesOperation, s
<1>14. GateOwned'
  BY <1>8, <1>9, OpsType DEF IInv, TypeOK, GateOwned, Unfinished, Ops
<1>15. CompletionFits' /\ ProfileKept' /\ GatesInFn'
  BY <1>4, <1>6, <1>8, <1>9 DEF CompletionFits, ProfileKept, GatesInFn, Unfinished
<1> QED BY <1>10, <1>11, <1>12, <1>13, <1>14, <1>15 DEF IInv

\* Every request keeps IInv.
LEMMA RequestStep == ASSUME IInv, Request PROVE IInv'
<1>1. /\ applied \in Applied /\ desired \in Profiles
      /\ applied.profile \in Profiles /\ applied.generation \in Nat
  BY DEF IInv, TypeOK, Applied
<1>2. \A p \in Phase : [applied EXCEPT !.phase = p] = APhase(p, applied.profile, applied.generation)
  BY <1>1 DEF Applied, APhase
<1>3. CASE Start \/ Restart
  <2>1. APhase("STARTING", desired, 0) = APhase("STARTING", desired, 0)
    OBVIOUS
  <2>2. "STARTING" \in Phase /\ 0 \in Nat
    BY DEF Phase
  <2> QED BY <1>1, <1>3, <2>1, <2>2, SubmitStep DEF Start, Restart, OperationKinds
<1>4. CASE Stop
  <2>1. "STOPPING" \in Phase
    BY DEF Phase
  <2> QED BY <1>1, <1>2, <1>4, <2>1, SubmitStep DEF Stop, OperationKinds
<1>5. CASE Reset
  <2>1. "RESETTING" \in Phase
    BY DEF Phase
  <2> QED BY <1>1, <1>2, <1>5, <2>1, SubmitStep DEF Reset, OperationKinds
<1>6. CASE HandleNetworkChange
  <2>1. "STARTING" \in Phase
    BY DEF Phase
  <2> QED BY <1>1, <1>2, <1>6, <2>1, SubmitStep DEF HandleNetworkChange, OperationKinds
<1>7. CASE \E kind \in FnKinds : RunOperation(kind)
  <2>1. PICK kind \in FnKinds : RunOperation(kind)
    BY <1>7
  <2>2. (IF kind = "update-install" THEN "STOPPING" ELSE "STARTING") \in Phase
    BY DEF Phase
  <2>3. kind \in OperationKinds
    BY DEF OperationKinds
  <2> QED BY <1>1, <1>2, <2>1, <2>2, <2>3, SubmitStep DEF RunOperation
<1> QED BY <1>3, <1>4, <1>5, <1>6, <1>7 DEF Request

\* Steps that move neither the slot nor any operation.
LEMMA QuietStep ==
  ASSUME IInv, UNCHANGED <<active, last, opSeq, op>>, desired' \in Profiles,
         desired' = desired \/ Idle, applied' \in Applied, health' \in Health,
         applied'.generation = applied.generation,
         refresher' \in [pc : {"idle", "probing", "stored"}, owner : 0 .. MaxOps,
                         health : Health],
         refresher'.owner # 0 => refresher'.pc # "idle" /\ refresher'.owner = refresher.owner
  PROVE  IInv'
<1>1. TypeOK'
  BY DEF IInv, TypeOK
<1>2. IdsInOrder' /\ ActiveRuns' /\ OneOperationAtATime' /\ CompletionFits' /\ GatesInFn'
  BY DEF IInv, IdsInOrder, ActiveRuns, OneOperationAtATime, CompletionFits, GatesInFn
<1>3. GenerationIdentifiesOperation'
  BY DEF IInv, GenerationIdentifiesOperation
<1>4. GateOwned'
  BY DEF IInv, GateOwned
<1>5. ProfileKept'
  <2>1. CASE desired' = desired
    BY <2>1 DEF IInv, ProfileKept
  <2>2. CASE Idle
    BY <2>2, IdleMeansNone DEF ProfileKept, Unfinished
  <2> QED BY <2>1, <2>2
<1> QED BY <1>1, <1>2, <1>3, <1>4, <1>5 DEF IInv

\* Changing nothing keeps IInv.
LEMMA StutterStep == ASSUME IInv, UNCHANGED vars PROVE IInv'
PROOF BY QuietStep DEF vars, IInv, TypeOK, GateOwned

\* The begin of a health refresh keeps IInv.
LEMMA RefreshHealthStep == ASSUME IInv, RefreshHealth PROVE IInv'
<1> Now \in Nat
  BY OpsType DEF Now, IInv, TypeOK
<1>1. [NoHealth EXCEPT !.at = Now] \in Health
  BY CodesType DEF NoHealth, Health
<1>2. refresher' \in [pc : {"idle", "probing", "stored"}, owner : 0 .. MaxOps,
                      health : Health] /\ refresher'.owner = 0
  BY <1>1, OrchestratorAssumption DEF RefreshHealth
<1> QED BY <1>2, QuietStep DEF RefreshHealth, IInv, TypeOK

\* The phase after a refresh is a phase.
LEMMA RefreshedPhaseType ==
  ASSUME applied \in Applied, NEW h \in Health PROVE RefreshedPhase(h) \in Phase
PROOF BY PhaseType DEF RefreshedPhase, Applied

\* Storing a refreshed health keeps IInv.
LEMMA StoreStep == ASSUME IInv, StoreRefreshedHealth PROVE IInv'
<1>1. refresher.health.at \in Nat
  BY DEF IInv, TypeOK, Health
<1>2. PICK h \in ProbedHealth(refresher.health.at) :
        /\ health' = h
        /\ applied' = [applied EXCEPT !.phase = RefreshedPhase(h)]
        /\ refresher' = [refresher EXCEPT !.pc = "stored", !.health = h]
  BY DEF StoreRefreshedHealth
<1>3. h \in Health
  BY <1>1, ProbedType
<1>4. applied' \in Applied /\ applied'.generation = applied.generation
  BY <1>2, <1>3, RefreshedPhaseType DEF IInv, TypeOK, Applied
<1>5. refresher' \in [pc : {"idle", "probing", "stored"}, owner : 0 .. MaxOps,
                      health : Health]
      /\ refresher'.pc = "stored" /\ refresher'.owner = refresher.owner
  BY <1>2, <1>3 DEF IInv, TypeOK
<1> QED BY <1>2, <1>3, <1>4, <1>5, QuietStep DEF StoreRefreshedHealth, IInv, TypeOK

\* The end of a refresh, which may let a gate go on, keeps IInv.
LEMMA ReleaseStep == ASSUME IInv, ReleaseRefresh PROVE IInv'
<1> DEFINE s == refresher.owner
<1>1. NoRefresh \in [pc : {"idle", "probing", "stored"}, owner : 0 .. MaxOps,
                     health : Health]
      /\ NoRefresh.owner = 0
  <2>1. NoHealth \in Health
    BY CodesType DEF NoHealth, Health
  <2>2. 0 \in 0 .. MaxOps
    BY OrchestratorAssumption
  <2> QED BY <2>1, <2>2 DEF NoRefresh
<1>2. refresher' = NoRefresh /\ UNCHANGED <<desired, applied, health, active, last, opSeq>>
  BY DEF ReleaseRefresh
<1>3. GateOwned'
  BY <1>1, <1>2 DEF GateOwned
<1>4. CASE s = 0 /\ UNCHANGED op
  BY <1>1, <1>2, <1>4, QuietStep DEF IInv, TypeOK
<1>5. ASSUME s # 0 PROVE s \in Ops /\ op[s].pc = "gating" /\ op[s].pc \in Unfinished
  BY <1>5 DEF IInv, TypeOK, GateOwned, Ops, Unfinished
<1>6. CASE s # 0 /\ op' = [op EXCEPT ![s].pc = "returned"]
  <2> DEFINE r == [op[s] EXCEPT !.pc = "returned"]
  <2>1. op \in [Ops -> OpRecord] /\ op[s] \in OpRecord
    BY <1>5, <1>6 DEF IInv, TypeOK
  <2>2. op' = [op EXCEPT ![s] = r]
    BY <1>5, <1>6, <2>1
  <2>3. op[s].kind \in FnKinds
    BY <1>5, <1>6 DEF IInv, GatesInFn
  <2>4. Advances(s, r)
    BY <2>1, <2>3 DEF Advances, OpRecord, Pc, Unfinished
  <2> HIDE DEF r, s
  <2> QED BY <1>1, <1>2, <1>3, <1>5, <1>6, <2>2, <2>4, AdvanceStep
<1>7. CASE s # 0 /\ \E e \in ErrorHealth : op' = Failed(s, e)
  <2>1. PICK e \in ErrorHealth : op' = Failed(s, e)
    BY <1>7
  <2>2. PICK r : Advances(s, r) /\ Failed(s, e) = [op EXCEPT ![s] = r]
    BY <1>5, <1>7, FailedAdvances
  <2>3. op' = [op EXCEPT ![s] = r]
    BY <2>1, <2>2
  <2> HIDE DEF s
  <2> QED BY <1>1, <1>2, <1>3, <1>5, <1>7, <2>2, <2>3, AdvanceStep
<1> QED BY <1>4, <1>6, <1>7 DEF ReleaseRefresh

\* A progress poll keeps IInv.
LEMMA ProgressStep == ASSUME IInv, RefreshActiveProgress PROVE IInv'
<1>1. PICK progress \in CachedHealth : health' = Merged(health, progress)
  BY DEF RefreshActiveProgress
<1>2. health \in Health /\ opSeq \in Nat
  BY OpsType DEF IInv, TypeOK
<1>3. health' \in Health
  BY <1>1, <1>2, CachedType, MergedType
<1> QED BY <1>3, QuietStep DEF RefreshActiveProgress, IInv, TypeOK, GateOwned

\* A change of the desired state keeps IInv: there is no operation then.
LEMMA ApplyStep ==
  ASSUME IInv, NEW p \in Profiles, ApplyDesiredState(p) PROVE IInv'
PROOF BY QuietStep DEF ApplyDesiredState, IInv, TypeOK, GateOwned

-----------------------------------------------------------------------------
(* Theorems                                                                *)

\* Every step of a goroutine keeps IInv.
LEMMA RunnerStep == ASSUME IInv, NEW s \in Ops, Runner(s) PROVE IInv'
PROOF BY RunStartStep, RunStopStep, RunResetStep, RunNetworkChangeStep, RunFnStep,
         GateRefreshStep, GateCachedStep, ReadAfterFnStep, PanicStep, FinishStep
      DEF Runner

\* Every step of the actor keeps IInv.
LEMMA NextIInv == IInv /\ [Next]_vars => IInv'
PROOF BY RequestStep, RunnerStep, RefreshHealthStep, StoreStep, ReleaseStep,
         ProgressStep, ApplyStep, StutterStep DEF Next, Refresher

\* The inductive invariant holds in every state of the runtime actor.
THEOREM Inductive == Spec => []IInv
PROOF BY InitIInv, NextIInv, PTL DEF Spec

\* Every field of the actor keeps its type, for any number of operations.
THEOREM TypeCorrect == Spec => []TypeOK
<1>1. IInv => TypeOK
  BY DEF IInv
<1> QED BY <1>1, Inductive, PTL

\* Only the operation that o.active names is between its acceptance and its
\* result, however requests, panics and refreshes interleave.
THEOREM MutualExclusion == Spec => []OneOperationAtATime
<1>1. IInv => OneOperationAtATime
  BY DEF IInv
<1> QED BY <1>1, Inductive, PTL

\* The generation of the runtime, of each operation and of the last result are
\* the number of the operation they belong to.
THEOREM GenerationsIdentify == Spec => []GenerationIdentifiesOperation
<1>1. IInv => GenerationIdentifiesOperation
  BY DEF IInv
<1> QED BY <1>1, Inductive, PTL

\* An operation under way owns the phase: no health refresh changes it.
LEMMA PhaseOwned ==
  ASSUME IInv, [Next]_vars, active # 0, active' = active
  PROVE  applied'.phase = applied.phase
<1>1. ASSUME Request PROVE FALSE
  BY <1>1 DEF Request, Start, Stop, Restart, Reset, HandleNetworkChange,
                    RunOperation, Submit, Idle
<1>2. ASSUME NEW s \in Ops, Finish(s) PROVE FALSE
  BY <1>2 DEF Finish, HasEnded, OwnerAfter, IInv, OneOperationAtATime, Unfinished
<1>3. ASSUME NEW s \in Ops, Runner(s) PROVE applied' = applied
  BY <1>2, <1>3 DEF Runner, RunStart, RunStop, RunReset, RunNetworkChange, RunFn,
     GateRefresh, GateCached, ReadAfterFn, Panic, CompleteWith, MoveTo, FnFails
<1>4. CASE StoreRefreshedHealth
  BY <1>4 DEF StoreRefreshedHealth, RefreshedPhase, IInv, TypeOK, Applied
<1>5. CASE UNCHANGED applied
  BY <1>5
<1>6. ReleaseRefresh \/ RefreshHealth \/ RefreshActiveProgress
        \/ (\E p \in Profiles : ApplyDesiredState(p)) \/ UNCHANGED vars
        => UNCHANGED applied
  BY DEF ReleaseRefresh, RefreshHealth, RefreshActiveProgress, ApplyDesiredState, vars
<1> QED BY <1>1, <1>3, <1>4, <1>5, <1>6 DEF Next, Refresher

\* Nothing but an accepted operation changes a stopped runtime.
LEMMA StoppedSticky ==
  ASSUME IInv, [Next]_vars, active = 0, active' = 0, applied.phase = "STOPPED"
  PROVE  applied' = applied
<1>1. ASSUME Request PROVE FALSE
  <2>1. active' = opSeq + 1
    BY <1>1 DEF Request, Start, Stop, Restart, Reset, HandleNetworkChange, RunOperation,
                Submit
  <2>2. opSeq \in Nat
    BY OpsType DEF IInv, TypeOK
  <2> QED BY <2>1, <2>2
<1>2. ASSUME NEW s \in Ops, Runner(s) PROVE FALSE
  BY <1>2, IdleMeansNone DEF Idle, Runner, RunStart, RunStop, RunReset,
     RunNetworkChange, RunFn, GateRefresh, GateCached, ReadAfterFn, Panic, Finish,
     HasEnded, Unfinished
<1>3. CASE StoreRefreshedHealth
  BY <1>3 DEF StoreRefreshedHealth, RefreshedPhase, IInv, TypeOK, Applied
<1>4. ReleaseRefresh \/ RefreshHealth \/ RefreshActiveProgress
        \/ (\E p \in Profiles : ApplyDesiredState(p)) \/ UNCHANGED vars
        => UNCHANGED applied
  BY DEF ReleaseRefresh, RefreshHealth, RefreshActiveProgress, ApplyDesiredState, vars
<1> QED BY <1>1, <1>2, <1>3, <1>4 DEF Next, Refresher

\* A health refresh that comes late is harmless, during an operation and after a stop.
THEOREM LateRefreshHarmless == Spec => LateRefreshIsHarmless
<1>1. IInv /\ [Next]_vars =>
      [/\ active # 0 /\ active' = active => applied'.phase = applied.phase
       /\ active = 0 /\ active' = 0 /\ applied.phase = "STOPPED" => applied' = applied]_vars
  BY PhaseOwned, StoppedSticky
<1> QED BY <1>1, Inductive, PTL DEF Spec, LateRefreshIsHarmless

\* A start or a configuration change that succeeds leaves the profile applied
\* that is desired then.
THEOREM SuccessOnDesired == Spec => SuccessAppliesDesiredProfile
<1>1. ASSUME IInv, Next, NEW s \in Ops, op[s].pc = "finishing", op'[s].pc = "done",
             last'.ok, op[s].kind \in {"start", "restart"} \cup DesiredStateKinds
      PROVE  applied'.profile = desired'
  <2>1. active = s /\ s # 0 /\ op \in [Ops -> OpRecord]
    BY <1>1, OpsType DEF IInv, TypeOK, OneOperationAtATime, Unfinished
  <2>2. ASSUME Request PROVE FALSE
    BY <2>1, <2>2 DEF Request, Start, Stop, Restart, Reset, HandleNetworkChange,
       RunOperation, Submit, Idle
  <2>3. ASSUME NEW q \in Ops, Runner(q) PROVE q = s
    BY <1>1, <2>1, <2>3 DEF Runner, RunStart, RunStop, RunReset, RunNetworkChange, RunFn,
       GateRefresh, GateCached, ReadAfterFn, Panic, Finish, HasEnded, IInv,
       OneOperationAtATime, Unfinished
  <2>4. StoreRefreshedHealth \/ RefreshHealth \/ RefreshActiveProgress
          \/ (\E p \in Profiles : ApplyDesiredState(p)) => op' = op
    BY DEF StoreRefreshedHealth, RefreshHealth, RefreshActiveProgress, ApplyDesiredState
  <2>5. ASSUME ReleaseRefresh PROVE FALSE
    <3>1. CASE UNCHANGED op
      BY <1>1, <3>1
    <3>2. CASE refresher.owner # 0
      BY <1>1, <2>1, <2>5, <3>2 DEF ReleaseRefresh, Failed, IInv, GateOwned, TypeOK, Ops
    <3> QED BY <2>5, <3>1, <3>2 DEF ReleaseRefresh
  <2>6. Runner(s)
    BY <1>1, <2>2, <2>3, <2>4, <2>5 DEF Next, Refresher
  <2>7. Finish(s)
    BY <1>1, <2>6 DEF Runner, RunStart, RunStop, RunReset, RunNetworkChange, RunFn,
       GateRefresh, GateCached, ReadAfterFn, Panic
  <2>8. applied' = op[s].completion.applied /\ desired' = desired
        /\ last'.ok = ~op[s].completion.err
    BY <1>1, <2>7 DEF Finish, CompletionOf
  <2> QED BY <1>1, <2>8 DEF IInv, ProfileKept
<1>2. IInv /\ [Next]_vars =>
      [\A s \in Ops :
         (/\ op[s].pc = "finishing" /\ op'[s].pc = "done" /\ last'.ok
          /\ op[s].kind \in {"start", "restart"} \cup DesiredStateKinds)
         => applied'.profile = desired']_vars
  BY <1>1
<1> QED BY <1>2, Inductive, PTL DEF Spec, SuccessAppliesDesiredProfile

\* A failed or panicked operation leaves no HEALTHY phase behind.
THEOREM FailureNotHealthy == Spec => FailureIsNotHealthy
<1>1. ASSUME IInv, Next, last' # last, ~last'.ok PROVE applied'.phase # "HEALTHY"
  <2>1. \A kind \in OperationKinds : \A ap : Submit(kind, ap) => last' = last
    BY DEF Submit
  <2>2. Request => last' = last
    BY DEF Request, Start, Stop, Restart, Reset, HandleNetworkChange, RunOperation, Submit
  <2>3. ASSUME NEW s \in Ops, Runner(s) PROVE Finish(s)
    BY <1>1, <2>3 DEF Runner, RunStart, RunStop, RunReset, RunNetworkChange, RunFn,
       GateRefresh, GateCached, ReadAfterFn, Panic, CompleteWith, MoveTo, FnFails
  <2>4. StoreRefreshedHealth \/ ReleaseRefresh \/ RefreshHealth \/ RefreshActiveProgress
          \/ (\E p \in Profiles : ApplyDesiredState(p)) => last' = last
    BY DEF StoreRefreshedHealth, ReleaseRefresh, RefreshHealth, RefreshActiveProgress,
           ApplyDesiredState
  <2>5. PICK s \in Ops : Finish(s)
    BY <1>1, <2>2, <2>3, <2>4 DEF Next, Refresher
  <2>6. applied' = CompletionOf(s).applied /\ CompletionOf(s).err
        /\ op[s].pc \in {"finishing", "panicked"}
    BY <1>1, <2>5 DEF Finish, HasEnded
  <2>7. CASE op[s].pc = "panicked"
    BY <1>1, <2>6, <2>7 DEF CompletionOf, IInv, TypeOK, Applied
  <2>8. CASE op[s].pc = "finishing"
    BY <1>1, <2>6, <2>8 DEF CompletionOf, IInv, CompletionFits
  <2> QED BY <2>6, <2>7, <2>8
<1>2. IInv /\ [Next]_vars => [last' # last /\ ~last'.ok => applied'.phase # "HEALTHY"]_vars
  BY <1>1
<1> QED BY <1>2, Inductive, PTL DEF Spec, FailureIsNotHealthy

\* The actor implements the operation slot (its safety part: liveness under
\* fairness is model-checked).
THEOREM Refinement == Spec => Slot!Init /\ [][Slot!Next]_Slot!slotVars
<1>1. Init => Slot!Init
  BY DEF Init, Slot!Init, Slot!Free, NoApplied, APhase
<1>2. ASSUME IInv, [Next]_vars PROVE [Slot!Next]_Slot!slotVars
  <2>1. ASSUME NEW kind, NEW ap, Submit(kind, ap),
               ap \in Applied
        PROVE  Slot!Accept
    BY <1>2, <2>1 DEF Submit, Idle, nextGeneration, Slot!Accept, Slot!Free, IInv,
       GenerationIdentifiesOperation, Applied
  <2>2. applied \in Applied /\ desired \in Profiles
    BY <1>2 DEF IInv, TypeOK
  <2>3. ASSUME Request PROVE Slot!Accept
    BY <2>1, <2>2, <2>3 DEF Request, Start, Stop, Restart, Reset, HandleNetworkChange,
       RunOperation, APhase, Applied, Phase
  <2>4. ASSUME NEW s \in Ops, Finish(s) PROVE Slot!Complete
    <3>1. IInv'
      BY <1>2, <2>4, FinishStep
    <3>2. active = s /\ s # 0
      BY <1>2, <2>4, OpsType DEF Finish, HasEnded, IInv, OneOperationAtATime, Unfinished
    <3>3. active' = 0 /\ last'.op = s
      BY <2>4, <3>2 DEF Finish, OwnerAfter
    <3>4. applied'.generation = applied.generation
      BY <1>2, <2>4, <3>1 DEF Finish, IInv, GenerationIdentifiesOperation
    <3>5. last'.ok \in BOOLEAN
      BY <3>1 DEF IInv, TypeOK, Result
    <3> QED BY <3>2, <3>3, <3>4, <3>5 DEF Slot!Complete, Slot!Free
  <2>5. ASSUME NEW s \in Ops, Runner(s), ~Finish(s) PROVE UNCHANGED <<active, applied, last>>
    BY <2>5 DEF Runner, RunStart, RunStop, RunReset, RunNetworkChange, RunFn,
       GateRefresh, GateCached, ReadAfterFn, Panic, CompleteWith, MoveTo, FnFails
  <2>6. CASE StoreRefreshedHealth
    BY <2>2, <2>6 DEF StoreRefreshedHealth, Applied, Slot!slotVars
  <2>7. ReleaseRefresh \/ RefreshHealth \/ RefreshActiveProgress
          \/ (\E p \in Profiles : ApplyDesiredState(p)) \/ UNCHANGED vars
          => UNCHANGED <<active, applied, last>>
    BY DEF ReleaseRefresh, RefreshHealth, RefreshActiveProgress, ApplyDesiredState, vars
  <2>8. UNCHANGED <<active, applied, last>> => UNCHANGED Slot!slotVars
    BY DEF Slot!slotVars
  <2> QED BY <1>2, <2>3, <2>4, <2>5, <2>6, <2>7, <2>8 DEF Next, Refresher, Slot!Next
<1> QED BY <1>1, <1>2, Inductive, PTL DEF Spec
-----------------------------------------------------------------------------
(* The status file: the actor and its observer together                    *)

\* The observer changes no field of the actor.
LEMMA FileStepIsActorStep == [FileNext]_allVars => [Next]_vars
<1>1. SubmitAndCapture => Next
  BY DEF SubmitAndCapture, Next
<1>2. \A s \in Ops : Operation(s) => Next
  BY DEF Operation, RunQuietly, FinishAndCapture, Next, Runner
<1>3. \A s \in Ops : SetActiveOperationStep(s) \/ ObserveOperation(s) => UNCHANGED vars
  BY DEF SetActiveOperationStep, ObserveOperation
<1>4. Refreshing => [Next]_vars
  BY DEF Refreshing, StoreAndCapture, ObserveRefresh, ReleaseAfterObserving, Next,
     Refresher
<1>5. CaptureForClient => [Next]_vars
  BY DEF CaptureForClient, Next
<1>6. ObserveClient => UNCHANGED vars
  BY DEF ObserveClient
<1>7. ActQuietly => Next
  BY DEF ActQuietly, Next
<1>8. UNCHANGED allVars => UNCHANGED vars
  BY DEF allVars
<1> QED BY <1>1, <1>2, <1>3, <1>4, <1>5, <1>6, <1>7, <1>8 DEF FileNext

\* The actor is the same with its observer: what is proved of Spec holds of
\* FileSpec, although every captured status is written outside the mutex.
THEOREM ObserverKeepsActor == FileSpec => Init /\ [][Next]_vars
<1>1. FileInit => Init
  BY DEF FileInit
<1> QED BY <1>1, FileStepIsActorStep, PTL DEF FileSpec

=============================================================================
