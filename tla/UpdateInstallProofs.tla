------------------------- MODULE UpdateInstallProofs --------------------------
(***************************************************************************)
(* What the updater promises, for every set of releases and every number   *)
(* of faults and requests: install_state.json tells the truth about the    *)
(* module and the app, an install that fails before the handover leaves    *)
(* the binaries it found, and the daemon that ran it never leaves the      *)
(* phone without one.                                                      *)
(*                                                                         *)
(* None of the three is inductive.  InstallInv adds what each step of the  *)
(* transaction may rely on: where the old binaries are (in place, then in  *)
(* the backup, then in place again), which files hold the staged release   *)
(* already, which daemon was forked, and that from its first step on the   *)
(* record says that something is unfinished.                               *)
(***************************************************************************)
EXTENDS UpdateInstall, WellFoundedInduction, TLAPS

-----------------------------------------------------------------------------
(* The invariant                                                           *)

\* What a binary, and what a file of the update directory, may hold.
Binary == Releases \cup {Damaged}
Content == Releases \cup {0, Damaged}

\* The steps and results that a record names.
StepNames == {"none", "update-download", "update-verify", "persist-artifacts",
              "update-stop-runtime", "update-install-module", "update-install-apk",
              "update-cleanup-downloads", "update-schedule-self-exit"}
Results == {"none", "running", "ok", "failed"}
Record == [status : {"none", "running", "failed", "completed", "downloaded"}, step : StepNames,
           result : Results, module : BOOLEAN, apk : BOOLEAN]

\* The module, the local variables of an install, a download, the daemons.
Disk == [bin : [BinaryNames -> Binary], backup : [BinaryNames -> Content],
         scripts : Releases \cup {0}, link : Releases]
Job == [staged : Releases \cup {0}, next : 1..5, aside : Releases \cup {0},
        wasRunning : BOOLEAN, before : [BinaryNames -> Content], cancelled : BOOLEAN,
        moduleUpdated : BOOLEAN,
        outcome : {"none", "ok", "failed", "refused", "cancelled", "crashed"}]
Loading == [at : {"idle", "clean", "module", "apk", "sums", "manifest", "verify"},
            release : Releases \cup {0}]
Procs == [alive : SUBSET Daemons, bound : SUBSET Daemons, listens : Daemons \cup {Nobody},
          exit : {"no", "asked", "closing"}, version : Binary]

\* The steps of the transaction: before a binary is replaced, while the backup is what
\* leads back, once the binaries have been rolled back, and after the handover.
Early == {"begin", "module", "clean", "backup"}
Placing == {"replace", "scripts", "publish", "files", "postclean", "manual", "profile",
            "link", "verify", "fork", "wait"}
Saved == Placing \cup {"rollback", "unfork"}
Undone == {"refork", "waitback", "failed"}
Handed == {"apk", "cleanup"}
Steps == Early \cup Saved \cup Undone \cup Handed

\* Every variable has its type.
TypeOK ==
  /\ dir \in [FileNames -> Content] /\ disk \in Disk /\ apk \in Releases
  /\ record \in Record /\ track \in Record
  /\ at \in {"idle", "resolved"} \cup Steps /\ job \in Job /\ down \in Loading
  /\ procs \in Procs /\ overlap \in BOOLEAN /\ lost \in BOOLEAN

\* Until a binary is replaced the module is the old one; from then on the backup is,
\* and after the roll-back the module again, unless a copy was lost.
WayBack ==
  /\ at \in Early => disk.bin = job.before
  /\ at \in Saved /\ ~lost => disk.backup = job.before
  /\ at \in Undone /\ ~lost => disk.bin = job.before
  /\ at \in Steps => job.before \in [BinaryNames -> Binary]
  /\ at # "idle" => job.outcome = "none" /\ (job.moduleUpdated <=> at \in Handed)
  /\ FailedInstallKeepsBinaries

\* How far the staged module has come.
StagedSoFar ==
  /\ at \in Early \cup {"resolved"} => job.next = 1
  /\ at \in {"clean", "backup"} \cup Placing \cup Handed => job.staged \in Releases
  /\ at = "replace" => /\ job.next \in 1..4
                       /\ \A i \in 1..4 : i < job.next => disk.bin[Binaries[i]] = job.staged
  /\ at \in (Placing \ {"replace"}) \cup Handed => disk.bin = AllOf(job.staged)
  /\ at \in (Placing \ {"replace", "scripts", "publish"}) \cup Handed =>
       disk.scripts = job.staged
  /\ at \in {"verify", "fork", "wait"} \cup Handed => disk.link = job.staged

\* A daemon that was waited for, or for whose sake the host leaves, is alive.
Forked ==
  /\ at \in {"wait"} \cup Handed => "next" \in procs.alive
  /\ at = "waitback" => "restored" \in procs.alive
  /\ procs.exit # "no" => "next" \in procs.alive \/ "restored" \in procs.alive

\* As long as no download interferes, the artifacts are those that were verified.
Artifacts == ~overlap =>
  /\ at # "idle" => Verified(dir)
  /\ at \in {"clean", "backup"} \cup Placing \cup Handed => dir["module"] = job.staged
  /\ at = "cleanup" => apk = job.staged

Told == record.status \in {"running", "failed"} \/ record.step \in DownloadSteps
IsWhole == \E r \in Releases : Whole(r)

\* The record says that something is unfinished before the first file is touched.
RecordSoFar ==
  /\ at \in Steps => Told /\ record.status # "completed" /\ track.status \in {"running", "failed"}
  /\ at \in Steps \ Handed => ~record.module /\ ~track.module
  /\ record.module => IsWhole
  /\ record.status = "completed" => dir = EmptyDir
  /\ record.status = "completed" /\ ~overlap => \E r \in Releases : Whole(r) /\ apk = r
  /\ Told \/ IsWhole

InstallInv == TypeOK /\ WayBack /\ StagedSoFar /\ Forked /\ Artifacts /\ RecordSoFar

-----------------------------------------------------------------------------
(* Records, files and binaries                                             *)

\* The four binaries.
LEMMA BinaryFacts ==
  /\ BinaryNames = {"sing-box", "xray", "daemon", "daemonctl"}
  /\ Binaries[1] = "sing-box" /\ Binaries[2] = "xray"
  /\ Binaries[3] = "daemon" /\ Binaries[4] = "daemonctl"
PROOF BY DEF BinaryNames, Binaries

\* The four files of the update directory.
LEMMA FileFacts ==
  /\ FileNames = {"module", "apk", "sums", "manifest"}
  /\ Files[1] = "module" /\ Files[2] = "apk" /\ Files[3] = "sums" /\ Files[4] = "manifest"
PROOF BY DEF FileNames, Files

\* There is a release at first.
LEMMA InstalledFact == Installed \in Releases
<1> DEFINE Less == {ss \in Nat \X Nat : ss[1] < ss[2]}
<1>1. IsWellFoundedOn(Less, Nat)
  BY NatLessThanWellFounded DEF OpToRel
<1>2. Releases \subseteq Nat /\ Releases # {}
  BY ReleasesAssumption
<1>3. PICK r \in Releases : \A q \in Releases : <<q, r>> \notin Less
  BY <1>1, <1>2, WFMin
<1>4. ASSUME NEW q \in Releases PROVE r <= q
  <2>1. ~(q < r)
    BY <1>2, <1>3
  <2> QED BY <1>2, <2>1
<1> QED BY <1>4 DEF Installed

\* A release is neither damaged nor missing.
LEMMA ReleaseFacts == Releases \subseteq Int /\ 0 \notin Releases /\ Damaged \notin Releases
PROOF BY ReleasesAssumption DEF Damaged

\* The record of a download names no module.
LEMMA DownloadRecordFacts ==
  ASSUME NEW status \in {"running", "failed", "downloaded"}, NEW step \in StepNames, NEW result \in Results
  PROVE  LET d == DownloadRecord(status, step, result) IN
         /\ d \in Record /\ d.status = status /\ d.step = step /\ ~d.module
PROOF BY DEF DownloadRecord, Fresh, Record, Results

\* A step keeps what the tracker says of the module, and a failure.
LEMMA SteppedFacts ==
  ASSUME NEW t \in Record, NEW step \in StepNames, NEW result \in Results
  PROVE  /\ Stepped(t, step, result) \in Record
         /\ Stepped(t, step, result).step = step
         /\ Stepped(t, step, result).module = t.module
         /\ Stepped(t, step, result).status =
              IF result = "failed" THEN "failed"
              ELSE IF t.status \in {"completed", "failed"} THEN t.status ELSE "running"
PROOF BY DEF Stepped, Record

\* What a verified directory holds.
LEMMA VerifiedFacts ==
  ASSUME NEW d, Verified(d)
  PROVE  d["module"] \in Releases /\ d["apk"] = d["module"]
PROOF BY DEF Verified, ChecksumsMatch

\* A step that cannot be recorded is still remembered.
LEMMA WriteFacts ==
  ASSUME NEW t, Write(t) \/ WriteAlso(t)
  PROVE  track' = t /\ record' \in {t, record}
PROOF BY DEF Write, WriteAlso

\* Nothing is remembered of a transaction that is over.
LEMMA NothingFacts ==
  /\ NoTrack \in Record /\ NoJob \in Job /\ NoDownload \in Loading
  /\ EmptyDir \in [FileNames -> Content]
<1>1. NoTrack \in Record /\ NoDownload \in Loading
  <2>1. NoTrack = [status |-> "none", step |-> "none", result |-> "none", module |-> FALSE,
                   apk |-> FALSE]
    BY DEF NoTrack, Fresh
  <2>2. NoTrack \in Record
    BY <2>1 DEF Record, StepNames, Results
  <2> QED BY <2>2 DEF NoDownload, Loading
<1>2. AllOf(0) \in [BinaryNames -> Content] /\ EmptyDir \in [FileNames -> Content]
  BY DEF AllOf, EmptyDir, Content
<1>3. NoJob \in Job
  BY <1>2 DEF NoJob, Job
<1> QED BY <1>1, <1>2, <1>3

\* What a transaction that returns leaves: nothing of its own, the record, and a host

\* that is asked to exit if the module was replaced.
LEMMA ReturnFacts ==
  ASSUME TypeOK, NEW t \in Record, t.status \in {"running", "failed", "completed"},
         NEW outcome \in {"ok", "failed", "cancelled", "refused"}, Return(outcome, t, procs)
  PROVE  /\ at' = "idle" /\ track' = NoTrack /\ job' \in Job
         /\ job'.outcome = outcome /\ job'.before = job.before
         /\ job'.moduleUpdated <=> job.moduleUpdated
         /\ record' \in Record /\ record'.status = t.status /\ record'.module = t.module
         /\ procs' \in Procs /\ procs'.alive = procs.alive
         /\ procs'.exit = IF job.moduleUpdated THEN "asked" ELSE procs.exit
<1>1. /\ job' = Result(outcome) /\ job' \in Job /\ job'.outcome = outcome
      /\ job'.before = job.before
      /\ job'.moduleUpdated <=> job.moduleUpdated
  <2>1. NoJob \in Job /\ job \in Job
    BY NothingFacts DEF TypeOK
  <2> QED BY <2>1 DEF Return, Result, Job
<1>2. record' \in Record /\ record'.status = t.status /\ record'.module = t.module
  <2>1. CASE job.moduleUpdated
    <3>1. record' = Stepped(t, "update-schedule-self-exit", "ok")
      BY <2>1 DEF Return
    <3> QED BY <3>1, SteppedFacts DEF StepNames, Results
  <2>2. CASE ~job.moduleUpdated
    BY <2>2 DEF Return
  <2> QED BY <2>1, <2>2
<1>3. /\ procs' \in Procs /\ procs'.alive = procs.alive
      /\ procs'.exit = IF job.moduleUpdated THEN "asked" ELSE procs.exit
  <2>1. [procs EXCEPT !.exit = "asked"] \in Procs
    BY DEF TypeOK, Procs
  <2> QED BY <2>1 DEF Return, TypeOK, Procs
<1> QED BY <1>1, <1>2, <1>3 DEF Return

\* After the handover the staged module is installed whole.
LEMMA HandedWhole ==
  ASSUME StagedSoFar, at \in {"wait"} \cup Handed
  PROVE  job.staged \in Releases /\ Whole(job.staged) /\ IsWhole
<1>1. job.staged \in Releases /\ Whole(job.staged)
  BY DEF StagedSoFar, Placing, Handed, Whole
<1> QED BY <1>1 DEF IsWhole

-----------------------------------------------------------------------------
(* The invariant holds before the first step, and when nothing happens     *)

\* At first the least release is installed whole, and nothing is recorded.
LEMMA InitInstallInv == Init => InstallInv
<1> SUFFICES ASSUME Init PROVE InstallInv
  OBVIOUS
<1>1. Installed \in Releases /\ AllOf(Installed) \in [BinaryNames -> Binary]
      /\ AllOf(0) \in [BinaryNames -> Content]
  BY InstalledFact DEF AllOf, Binary, Content
<1>2. Booted(Installed) \in Procs /\ Booted(Installed).exit = "no"
  BY <1>1 DEF Booted, Procs, Daemons, Binary
<1>3. /\ disk \in Disk /\ Whole(Installed)
  BY <1>1 DEF Init, Disk, Whole
<1>4. NoJob.outcome = "none" /\ NoTrack.status = "none" /\ ~NoTrack.module
  BY DEF NoJob, NoTrack, Fresh
<1>5. TypeOK
  BY <1>1, <1>2, <1>3, NothingFacts DEF Init, TypeOK
<1>6. WayBack /\ StagedSoFar /\ Forked /\ Artifacts
  BY <1>2, <1>4 DEF Init, WayBack, StagedSoFar, Forked, Artifacts,
     FailedInstallKeepsBinaries,
     Steps, Early, Placing, Saved, Undone, Handed
<1>7. RecordSoFar
  BY <1>1, <1>3, <1>4 DEF Init, RecordSoFar, IsWhole, Steps, Early, Placing, Saved, Undone,
     Handed
<1> QED BY <1>5, <1>6, <1>7 DEF InstallInv

\* Whose sing-box runs, and how much has failed, are no part of the invariant.
LEMMA UnchangedKeeps ==
  ASSUME InstallInv, UNCHANGED <<dir, disk, apk, record, track, at, job, down, procs, overlap, lost>>
  PROVE  InstallInv'
<1>1. TypeOK'
  BY DEF InstallInv, TypeOK
<1>2. WayBack' /\ StagedSoFar' /\ Forked' /\ Artifacts'
  BY DEF InstallInv, WayBack, StagedSoFar, Forked, Artifacts, FailedInstallKeepsBinaries
<1>3. RecordSoFar'
  BY DEF InstallInv, RecordSoFar, Told, IsWhole, Whole
<1> QED BY <1>1, <1>2, <1>3 DEF InstallInv

-----------------------------------------------------------------------------
(* The download                                                            *)

\* What a step of a download leaves alone, and that the record it writes tells of itself.
LEMMA DownloadStepKeeps ==
  ASSUME InstallInv, UNCHANGED installVars, dir' \in [FileNames -> Content], down' \in Loading,
         overlap' \in BOOLEAN, UNCHANGED overlap \/ overlap' = (overlap \/ at # "idle"),
         dir' = dir \/ overlap' = (overlap \/ at # "idle"),
         \/ record' = record /\ (dir = EmptyDir => dir' = EmptyDir)
         \/ /\ record' \in Record /\ record'.step \in DownloadSteps /\ ~record'.module
            /\ record'.status \notin {"completed"}
         \/ record' \in Record /\ record'.status = "failed" /\ ~record'.module
  PROVE  InstallInv'
<1>1. TypeOK'
  BY DEF InstallInv, TypeOK, installVars
<1>2. WayBack' /\ StagedSoFar' /\ Forked'
  BY DEF InstallInv, WayBack, StagedSoFar, Forked, FailedInstallKeepsBinaries, installVars
<1>3. Artifacts'
  <2>1. CASE dir' = dir
    BY <2>1 DEF InstallInv, TypeOK, Artifacts, installVars
  <2>2. CASE overlap' = (overlap \/ at # "idle")
    BY <2>2 DEF InstallInv, TypeOK, Artifacts, installVars, Steps, Placing, Handed
  <2> QED BY <2>1, <2>2
<1>4. RecordSoFar'
  BY DEF InstallInv, TypeOK, RecordSoFar, Told, IsWhole, Whole, installVars, Steps, Handed
<1> QED BY <1>1, <1>2, <1>3, <1>4 DEF InstallInv

\* BeginDownload keeps InstallInv: the actor is asked before, and only the record changes.
LEMMA BeginDownloadKeeps == ASSUME InstallInv, BeginDownload PROVE InstallInv'
<1>1. down' \in Loading
  BY DEF BeginDownload, Loading
<1>2. record' \in Record /\ record'.step \in DownloadSteps /\ ~record'.module /\ record'.status = "running"
  BY DownloadRecordFacts DEF BeginDownload, StepNames, Results, DownloadSteps
<1>3. UNCHANGED installVars /\ UNCHANGED <<dir, overlap>>
  BY DEF BeginDownload
<1>4. dir' \in [FileNames -> Content] /\ overlap' \in BOOLEAN
  BY <1>3 DEF InstallInv, TypeOK
<1> QED BY <1>1, <1>2, <1>3, <1>4, DownloadStepKeeps

\* RemoveStale keeps InstallInv: nothing that was complete has files left, so nothing gets

\* new ones.
LEMMA RemoveStaleKeeps == ASSUME InstallInv, RemoveStale PROVE InstallInv'
<1>1. PICK n \in 0..4 :
        /\ dir' = [f \in FileNames |-> IF \E i \in 1..n : Files[i] = f THEN 0 ELSE dir[f]]
        /\ \/ n = 4 /\ down' = [down EXCEPT !.at = "module"] /\ UNCHANGED <<faults, record>>
           \/ /\ n < 4 /\ Fails
              /\ down' = NoDownload
              /\ record' = DownloadRecord("failed", "update-download", "failed")
  BY DEF RemoveStale
<1>2. dir' \in [FileNames -> Content] /\ (dir = EmptyDir => dir' = EmptyDir)
  BY <1>1 DEF InstallInv, TypeOK, Content, EmptyDir
<1>3. down' \in Loading
  BY <1>1, NothingFacts DEF InstallInv, TypeOK, Loading
<1>4. \/ record' = record
      \/ record' \in Record /\ record'.status = "failed" /\ ~record'.module
  BY <1>1, DownloadRecordFacts DEF StepNames, Results
<1>5. UNCHANGED installVars /\ overlap' = (overlap \/ at # "idle") /\ overlap' \in BOOLEAN
  BY DEF RemoveStale, Touch
<1> QED BY <1>2, <1>3, <1>4, <1>5, DownloadStepKeeps

\* LoadFile keeps InstallInv: a file that is replaced under an install is in the history.
LEMMA LoadFileKeeps == ASSUME InstallInv, LoadFile PROVE InstallInv'
<1>1. dir' \in [FileNames -> Content]
  BY DEF LoadFile, InstallInv, TypeOK, Loading, Content
<1>2. down' \in Loading
  BY DEF LoadFile, InstallInv, TypeOK, Loading, AfterFile
<1>3. record' \in Record /\ record'.step \in DownloadSteps /\ ~record'.module /\ record'.status = "running"
  BY DownloadRecordFacts DEF LoadFile, StepNames, Results, DownloadSteps
<1>4. UNCHANGED installVars /\ overlap' = (overlap \/ at # "idle") /\ overlap' \in BOOLEAN
  BY DEF LoadFile, Touch
<1> QED BY <1>1, <1>2, <1>3, <1>4, DownloadStepKeeps

\* WriteManifest keeps InstallInv: a manifest that is written under an install is in the

\* history.
LEMMA WriteManifestKeeps == ASSUME InstallInv, WriteManifest PROVE InstallInv'
<1>1. dir' \in [FileNames -> Content]
  BY DEF WriteManifest, InstallInv, TypeOK, Loading, Content
<1>2. down' \in Loading
  BY DEF WriteManifest, InstallInv, TypeOK, Loading
<1>3. record' \in Record /\ record'.step \in DownloadSteps /\ ~record'.module /\ record'.status = "running"
  BY DownloadRecordFacts DEF WriteManifest, StepNames, Results, DownloadSteps
<1>4. UNCHANGED installVars /\ overlap' = (overlap \/ at # "idle") /\ overlap' \in BOOLEAN
  BY DEF WriteManifest, Touch
<1> QED BY <1>1, <1>2, <1>3, <1>4, DownloadStepKeeps

\* FinishDownload keeps InstallInv: what was downloaded says nothing of what is installed.
LEMMA FinishDownloadKeeps == ASSUME InstallInv, FinishDownload PROVE InstallInv'
<1>1. down' \in Loading
  BY NothingFacts DEF FinishDownload
<1>2. record' \in Record /\ record'.step \in DownloadSteps /\ ~record'.module /\ record'.status = "downloaded"
  BY DownloadRecordFacts DEF FinishDownload, StepNames, Results, DownloadSteps
<1>3. UNCHANGED installVars /\ UNCHANGED <<dir, overlap>>
  BY DEF FinishDownload
<1>4. dir' \in [FileNames -> Content] /\ overlap' \in BOOLEAN
  BY <1>3 DEF InstallInv, TypeOK
<1> QED BY <1>1, <1>2, <1>3, <1>4, DownloadStepKeeps

\* DownloadFails keeps InstallInv: the record fails, or keeps what it said.
LEMMA DownloadFailsKeeps == ASSUME InstallInv, DownloadFails PROVE InstallInv'
<1>1. down' \in Loading
  BY NothingFacts DEF DownloadFails
<1>2. \/ record' = record
      \/ record' \in Record /\ record'.status = "failed" /\ ~record'.module
  <2>1. record.step \in StepNames
    BY DEF InstallInv, TypeOK, Record
  <2> QED BY <2>1, DownloadRecordFacts DEF DownloadFails, Results
<1>3. UNCHANGED installVars /\ UNCHANGED <<dir, overlap>>
  BY DEF DownloadFails
<1>4. dir' \in [FileNames -> Content] /\ overlap' \in BOOLEAN
  BY <1>3 DEF InstallInv, TypeOK
<1> QED BY <1>1, <1>2, <1>3, <1>4, DownloadStepKeeps

-----------------------------------------------------------------------------
(* The request                                                             *)

\* ResolveInstall keeps InstallInv: artifacts that are verified are there, so nothing is

\* recorded as completed.
LEMMA ResolveInstallKeeps == ASSUME InstallInv, ResolveInstall PROVE InstallInv'
<1>1. /\ at = "idle" /\ at' = "resolved" /\ Verified(dir) /\ overlap' \in BOOLEAN /\ lost' = FALSE
      /\ UNCHANGED <<dir, disk, apk, record, track, down, procs>>
  BY DEF ResolveInstall
<1>2. /\ job' \in Job /\ job'.outcome = "none" /\ ~job'.moduleUpdated /\ job'.next = 1
  BY NothingFacts DEF ResolveInstall, NoJob, Job
<1>3. TypeOK'
  BY <1>1, <1>2 DEF InstallInv, TypeOK
<1>4. WayBack' /\ StagedSoFar' /\ Forked' /\ Artifacts'
  BY <1>1, <1>2 DEF InstallInv, WayBack, StagedSoFar, Forked, Artifacts,
     FailedInstallKeepsBinaries,
     Steps, Early, Placing, Saved, Undone, Handed
<1>5. RecordSoFar'
  <2>1. dir # EmptyDir
    BY <1>1, FileFacts, ReleaseFacts DEF Verified, ChecksumsMatch, EmptyDir
  <2> QED BY <1>1, <2>1 DEF InstallInv, RecordSoFar, Told, IsWhole, Whole, Steps, Early,
             Placing, Saved, Undone, Handed
<1> QED BY <1>3, <1>4, <1>5 DEF InstallInv

\* CancelContext keeps InstallInv: nothing but the flag changes.
LEMMA CancelContextKeeps == ASSUME InstallInv, CancelContext PROVE InstallInv'
<1>1. /\ job' = [job EXCEPT !.cancelled = TRUE] /\ job' \in Job
      /\ UNCHANGED <<dir, disk, apk, record, track, at, down, procs, overlap, lost>>
  BY DEF CancelContext, history, InstallInv, TypeOK, Job
<1>2. /\ UNCHANGED <<job.staged, job.next, job.before, job.outcome>>
      /\ job'.moduleUpdated <=> job.moduleUpdated
  BY <1>1 DEF InstallInv, TypeOK, Job
<1>3. TypeOK'
  BY <1>1 DEF InstallInv, TypeOK
<1>4. WayBack' /\ StagedSoFar' /\ Forked' /\ Artifacts'
  BY <1>1, <1>2 DEF InstallInv, WayBack, StagedSoFar, Forked, Artifacts,
     FailedInstallKeepsBinaries
<1>5. RecordSoFar'
  BY <1>1 DEF InstallInv, RecordSoFar, Told, IsWhole, Whole
<1> QED BY <1>3, <1>4, <1>5 DEF InstallInv

-----------------------------------------------------------------------------
(* The transaction: before a file is touched                               *)

\* Cancelled keeps InstallInv: an install that ends without a word is told of by its last

\* record.
LEMMA CancelledKeeps == ASSUME InstallInv, Cancelled PROVE InstallInv'
<1>1. /\ at \in Steps \cup {"resolved"}
      /\ job.moduleUpdated => at \in Handed
      /\ UNCHANGED <<dir, disk, apk, down, overlap, lost>>
  BY DEF Cancelled, InstallInv, WayBack, Steps, Early, Handed, history
<1>2. /\ at' = "idle" /\ track' = NoTrack /\ job' \in Job
      /\ job'.outcome = "cancelled"
      /\ record' \in Record
      /\ procs' \in Procs /\ procs'.alive = procs.alive
      /\ procs'.exit # "no" => procs.exit # "no" \/ job.moduleUpdated
  <2>1. CASE job.moduleUpdated
    BY <1>1, <2>1, ReturnFacts DEF Cancelled, InstallInv, TypeOK, RecordSoFar, Steps, Early,
       Handed
  <2>2. CASE ~job.moduleUpdated
    <3>1. Result("cancelled") \in Job /\ Result("cancelled").outcome = "cancelled"
      BY NothingFacts DEF Result, InstallInv, TypeOK, Job
    <3> QED BY <2>2, <3>1 DEF Cancelled, InstallInv, TypeOK
  <2> QED BY <2>1, <2>2
<1>3. job.moduleUpdated => IsWhole
  BY <1>1, HandedWhole DEF InstallInv
<1>4. IF job.moduleUpdated THEN record'.status \in {"running", "failed"}
      ELSE record' = record
  <2>1. CASE job.moduleUpdated
    BY <1>1, <2>1, ReturnFacts DEF Cancelled, InstallInv, TypeOK, RecordSoFar, Steps, Handed
  <2> QED BY <2>1 DEF Cancelled
<1>5. TypeOK'
  BY <1>1, <1>2, NothingFacts DEF InstallInv, TypeOK
<1>6. WayBack' /\ StagedSoFar' /\ Artifacts'
  BY <1>2 DEF WayBack, StagedSoFar, Artifacts, FailedInstallKeepsBinaries, Steps, Early,
     Placing, Saved, Undone, Handed
<1>7. Forked'
  BY <1>1, <1>2 DEF InstallInv, Forked, Handed
<1>8. RecordSoFar'
  <2>1. /\ at' \notin Steps /\ (IsWhole <=> IsWhole') /\ (Told' \/ record' = record)
        /\ \A r \in Releases : Whole(r)' <=> Whole(r)
    BY <1>1, <1>2, <1>4 DEF Told, IsWhole, Whole, Steps, Early, Placing, Saved, Undone,
       Handed
  <2> QED BY <1>1, <1>2, <1>3, <1>4, <2>1 DEF InstallInv, RecordSoFar, Told
<1> QED BY <1>5, <1>6, <1>7, <1>8 DEF InstallInv

\* BeginInstall keeps InstallInv: from here on the record says running, or the install

\* never begins.
LEMMA BeginInstallKeeps == ASSUME InstallInv, BeginInstall PROVE InstallInv'
<1>1. /\ at = "resolved" /\ at' \in {"idle", "begin"} /\ job' = [job EXCEPT !.before = disk.bin]
      /\ UNCHANGED <<dir, disk, apk, down, procs, overlap, lost>>
  BY DEF BeginInstall, history
<1>2. /\ job' \in Job /\ UNCHANGED <<job.staged, job.next, job.outcome>>
      /\ job'.moduleUpdated <=> job.moduleUpdated
      /\ job'.before = disk.bin /\ disk.bin \in [BinaryNames -> Binary]
  BY <1>1 DEF InstallInv, TypeOK, Job, Disk, Binary, Content
<1>3. at' = "begin" => record' = Fresh("running", "none") /\ track' = Fresh("running", "none")
  BY DEF BeginInstall, WriteAlso
<1>4. at' = "idle" => UNCHANGED <<record, track>>
  BY DEF BeginInstall
<1>5. Fresh("running", "none") \in Record
  BY DEF Fresh, Record, StepNames, Results
<1>6. TypeOK'
  BY <1>1, <1>2, <1>3, <1>4, <1>5 DEF InstallInv, TypeOK, Steps, Early
<1>7. WayBack'
  BY <1>1, <1>2 DEF InstallInv, WayBack, FailedInstallKeepsBinaries, Steps, Early, Placing,
     Saved, Undone, Handed
<1>8. StagedSoFar' /\ Forked' /\ Artifacts'
  BY <1>1, <1>2 DEF InstallInv, StagedSoFar, Forked, Artifacts, Steps, Early, Placing,
     Saved, Undone, Handed
<1>9. RecordSoFar'
  BY <1>1, <1>3, <1>4 DEF InstallInv, RecordSoFar, Told, IsWhole, Whole, Fresh, Steps,
     Early, Placing, Saved, Undone, Handed
<1> QED BY <1>6, <1>7, <1>8, <1>9 DEF InstallInv

\* StopRuntime keeps InstallInv: no file is touched yet.
LEMMA StopRuntimeKeeps == ASSUME InstallInv, StopRuntime PROVE InstallInv'
<1>1. at = "begin" /\ ~job.moduleUpdated /\ UNCHANGED <<dir, disk, apk, down, overlap, lost>>
  BY DEF StopRuntime, InstallInv, WayBack, Handed, Steps, Early, Undone, Saved, Placing,
     history
<1>2. /\ track \in Record /\ track.status \in {"running", "failed"} /\ ~track.module
      /\ record \in Record /\ ~record.module /\ Told /\ record.status # "completed"
  BY <1>1 DEF InstallInv, TypeOK, RecordSoFar, Steps, Early, Handed
<1>3. CASE at' = "module"
  <2>1. /\ track' = Stepped(track, "update-stop-runtime", "ok") /\ record' \in {track', record}
        /\ UNCHANGED <<job, procs>>
    BY <1>3, WriteFacts, ReturnFacts DEF StopRuntime, Return
  <2>2. /\ track' \in Record /\ track'.status \in {"running", "failed"} /\ ~track'.module
        /\ record' \in Record /\ ~record'.module /\ Told' /\ record'.status # "completed"
    BY <1>2, <2>1, SteppedFacts DEF StepNames, Results, Told
  <2>3. TypeOK'
    BY <1>1, <1>3, <2>1, <2>2 DEF InstallInv, TypeOK, Steps, Early
  <2>4. WayBack' /\ StagedSoFar' /\ Forked' /\ Artifacts'
    BY <1>1, <1>3, <2>1 DEF InstallInv, WayBack, StagedSoFar, Forked, Artifacts,
       FailedInstallKeepsBinaries, Steps, Early, Placing, Saved, Undone, Handed
  <2>5. RecordSoFar'
    BY <2>2 DEF RecordSoFar
  <2> QED BY <2>3, <2>4, <2>5 DEF InstallInv
<1>4. CASE at' # "module"
  <2>1. Return("refused", Stepped(track, "update-stop-runtime", "failed"), procs)
    BY <1>4 DEF StopRuntime
  <2>2. /\ at' = "idle" /\ track' = NoTrack /\ job' \in Job /\ job'.outcome = "refused"
        /\ record' \in Record /\ record'.status = "failed" /\ ~record'.module
        /\ procs' \in Procs /\ procs'.alive = procs.alive /\ procs'.exit = procs.exit
    BY <1>1, <1>2, <2>1, SteppedFacts, ReturnFacts DEF StepNames, Results, InstallInv
  <2>3. TypeOK'
    BY <1>1, <2>2, NothingFacts DEF InstallInv, TypeOK
  <2>4. WayBack' /\ StagedSoFar' /\ Forked' /\ Artifacts'
    BY <1>1, <2>2 DEF InstallInv, WayBack, StagedSoFar, Forked, Artifacts,
       FailedInstallKeepsBinaries, Steps, Early, Placing, Saved, Undone, Handed
  <2>5. RecordSoFar'
    BY <2>2 DEF RecordSoFar, Told, Steps, Early, Placing, Saved, Undone, Handed
  <2> QED BY <2>3, <2>4, <2>5 DEF InstallInv
<1> QED BY <1>3, <1>4

\* Stage keeps InstallInv: the release that is staged is the one of the artifacts.
LEMMA StageKeeps == ASSUME InstallInv, Stage PROVE InstallInv'
<1>1. /\ at = "module" /\ at' \in {"clean", "failed"} /\ job' \in Job
      /\ at' = "clean" => job' = [job EXCEPT !.staged = dir["module"]] /\ dir["module"] \in Releases
      /\ at' = "failed" => job' = job
      /\ track' = Stepped(track, "update-install-module", "running") /\ record' \in {track', record}
      /\ UNCHANGED <<dir, disk, apk, down, procs, overlap, lost>>
  <2>1. dir["module"] \in Releases => [job EXCEPT !.staged = dir["module"]] \in Job
    BY DEF InstallInv, TypeOK, Job
  <2> QED BY <2>1, WriteFacts DEF Stage, history, InstallInv, TypeOK
<1>2. /\ track \in Record /\ track.status \in {"running", "failed"} /\ ~track.module
      /\ record \in Record /\ ~record.module /\ Told /\ record.status # "completed"
  BY <1>1 DEF InstallInv, TypeOK, RecordSoFar, Steps, Early, Handed
<1>3. /\ track' \in Record /\ track'.status \in {"running", "failed"} /\ ~track'.module
      /\ record' \in Record /\ ~record'.module /\ Told' /\ record'.status # "completed"
  BY <1>1, <1>2, SteppedFacts DEF StepNames, Results, Told
<1>4. TypeOK'
  BY <1>1, <1>3 DEF InstallInv, TypeOK, Steps, Early, Undone
<1>5. WayBack' /\ StagedSoFar' /\ Forked' /\ Artifacts'
  BY <1>1 DEF InstallInv, TypeOK, Job, WayBack, StagedSoFar, Forked, Artifacts,
     FailedInstallKeepsBinaries, Steps, Early, Placing, Saved, Undone, Handed
<1>6. RecordSoFar'
  BY <1>3 DEF RecordSoFar
<1> QED BY <1>4, <1>5, <1>6 DEF InstallInv

\* A step that writes no record, before the handover: what is installed may change, and the

\* record still tells that something is unfinished.
LEMMA UnrecordedStep ==
  ASSUME RecordSoFar, at \in Steps \ Handed, at' \in Steps \ Handed, UNCHANGED <<record, track>>
  PROVE  RecordSoFar'
PROOF BY DEF RecordSoFar, Told

\* CleanRuntime keeps InstallInv: no file is touched yet.
LEMMA CleanRuntimeKeeps == ASSUME InstallInv, CleanRuntime PROVE InstallInv'
<1>1. /\ at = "clean" /\ at' \in {"backup", "failed"}
      /\ UNCHANGED <<dir, disk, apk, record, track, job, down, procs, overlap, lost>>
  BY DEF CleanRuntime, history
<1>2. at \in Steps \ Handed /\ at' \in Steps \ Handed
  BY <1>1 DEF Steps, Early, Undone, Handed
<1>3. TypeOK'
  BY <1>1, <1>2 DEF InstallInv, TypeOK
<1>4. WayBack' /\ StagedSoFar' /\ Forked' /\ Artifacts'
  BY <1>1 DEF InstallInv, WayBack, StagedSoFar, Forked, Artifacts,
     FailedInstallKeepsBinaries,
     Steps, Early, Placing, Saved, Undone, Handed
<1>5. RecordSoFar'
  BY <1>1, <1>2, UnrecordedStep DEF InstallInv
<1> QED BY <1>3, <1>4, <1>5 DEF InstallInv

\* Backup keeps InstallInv: the backup is the module as it was, unless a copy was lost.
LEMMA BackupKeeps == ASSUME InstallInv, Backup PROVE InstallInv'
<1>1. /\ at = "backup" /\ at' = "replace" /\ disk' \in Disk
      /\ disk'.bin = disk.bin /\ disk'.scripts = disk.scripts /\ disk'.link = disk.link
      /\ (lost' \in BOOLEAN /\ (~lost' => disk'.backup = disk.bin /\ ~lost))
      /\ UNCHANGED <<dir, apk, record, track, job, down, procs, overlap>>
  <2>1. [disk EXCEPT !.backup = disk.bin] \in Disk
    BY DEF InstallInv, TypeOK, Disk, Binary, Content
  <2>2. ASSUME NEW b \in BinaryNames, NEW torn \in {0, Damaged}
        PROVE  [disk EXCEPT !.backup = [disk.bin EXCEPT ![b] = torn]] \in Disk
    BY DEF InstallInv, TypeOK, Disk, Binary, Content
  <2> QED BY <2>1, <2>2 DEF Backup, InstallInv, TypeOK, Disk
<1>2. TypeOK'
  BY <1>1 DEF InstallInv, TypeOK, Steps, Saved, Placing
<1>3. WayBack' /\ StagedSoFar' /\ Forked' /\ Artifacts'
  BY <1>1 DEF InstallInv, WayBack, StagedSoFar, Forked, Artifacts,
     FailedInstallKeepsBinaries, Steps, Early, Placing, Saved, Undone, Handed
<1>4. RecordSoFar'
  BY <1>1 DEF InstallInv, RecordSoFar, Told, Steps, Early, Placing, Saved, Undone, Handed
<1> QED BY <1>2, <1>3, <1>4 DEF InstallInv

-----------------------------------------------------------------------------
(* The transaction: the module is put in place                             *)

\* Replace keeps InstallInv: one more binary is of the staged release.
LEMMA ReplaceKeeps == ASSUME InstallInv, Replace PROVE InstallInv'
<1>1. /\ at = "replace" /\ at \in Steps \ Handed
      /\ UNCHANGED <<dir, apk, record, track, down, procs, overlap, lost>>
  BY DEF Replace, history, Steps, Saved, Placing, Handed
<1>2. job \in Job /\ disk \in Disk /\ job.next \in 1..4 /\ job.staged \in Releases
  BY <1>1 DEF InstallInv, TypeOK, StagedSoFar, Placing
<1>3. Binaries[job.next] \in BinaryNames /\ \A b \in BinaryNames : \E i \in 1..4 : b = Binaries[i]
  BY <1>2, BinaryFacts
<1>4. CASE at' = "rollback"
  <2>1. UNCHANGED <<disk, job>> /\ at' \in Steps \ Handed
    BY <1>4 DEF Replace, Steps, Saved, Handed
  <2>2. TypeOK'
    BY <1>1, <2>1 DEF InstallInv, TypeOK
  <2>3. WayBack' /\ StagedSoFar' /\ Forked' /\ Artifacts'
    BY <1>1, <1>4, <2>1 DEF InstallInv, WayBack, StagedSoFar, Forked, Artifacts,
       FailedInstallKeepsBinaries, Steps, Early, Placing, Saved, Undone, Handed
  <2>4. RecordSoFar'
    BY <1>1, <2>1, UnrecordedStep DEF InstallInv
  <2> QED BY <2>2, <2>3, <2>4 DEF InstallInv
<1>5. CASE at' # "rollback"
  <2>1. /\ disk' = [disk EXCEPT !.bin[Binaries[job.next]] = job.staged]
        /\ job' = [job EXCEPT !.next = @ + 1]
        /\ at' = IF job.next = 4 THEN "scripts" ELSE "replace"
    BY <1>5 DEF Replace
  <2>2. /\ disk' \in Disk /\ disk'.bin = [disk.bin EXCEPT ![Binaries[job.next]] = job.staged]
        /\ UNCHANGED <<disk.backup, disk.scripts, disk.link>>
    BY <1>2, <1>3, <2>1 DEF Disk, Binary
  <2>3. /\ job' \in Job /\ job'.next = job.next + 1
        /\ UNCHANGED <<job.staged, job.before, job.outcome>>
        /\ job'.moduleUpdated <=> job.moduleUpdated
    BY <1>2, <2>1 DEF Job
  <2>4. at' \in {"replace", "scripts"} /\ at' \in Steps \ Handed
    BY <2>1 DEF Steps, Saved, Placing, Handed
  <2>5. TypeOK'
    BY <1>1, <2>2, <2>3, <2>4 DEF InstallInv, TypeOK
  <2>6. WayBack'
    BY <1>1, <2>2, <2>3, <2>4 DEF InstallInv, WayBack, FailedInstallKeepsBinaries, Steps,
       Early,
       Placing, Saved, Undone, Handed
  <2>7. \A i \in 1..4 : i < job'.next => disk'.bin[Binaries[i]] = job.staged
    BY <1>1, <1>2, <1>3, <2>2, <2>3 DEF InstallInv, StagedSoFar, Disk
  <2>8. at' = "scripts" => disk'.bin = AllOf(job.staged)
    BY <1>2, <1>3, <2>1, <2>2, <2>3, <2>7 DEF Disk, AllOf
  <2>9. StagedSoFar'
    BY <1>2, <2>1, <2>3, <2>4, <2>7, <2>8 DEF StagedSoFar, Early, Placing, Handed
  <2>10. Forked' /\ Artifacts'
    BY <1>1, <2>3, <2>4 DEF InstallInv, Forked, Artifacts, Placing, Handed
  <2>11. RecordSoFar'
    BY <1>1, <2>4, UnrecordedStep DEF InstallInv
  <2> QED BY <2>5, <2>6, <2>9, <2>10, <2>11 DEF InstallInv
<1> QED BY <1>4, <1>5

\* MoveScriptsAside keeps InstallInv: the binaries are in place, the scripts are not.
LEMMA MoveScriptsAsideKeeps == ASSUME InstallInv, MoveScriptsAside PROVE InstallInv'
<1>1. /\ at = "scripts" /\ at' \in {"publish", "rollback"}
      /\ UNCHANGED <<dir, apk, record, track, down, procs, overlap, lost>>
  BY DEF MoveScriptsAside, history
<1>2. at \in Steps \ Handed /\ at' \in Steps \ Handed
  BY <1>1 DEF Steps, Saved, Placing, Handed
<1>3. disk' \in Disk /\ UNCHANGED <<disk.bin, disk.backup, disk.link>>
  BY DEF MoveScriptsAside, InstallInv, TypeOK, Disk
<1>4. /\ job' \in Job /\ UNCHANGED <<job.staged, job.next, job.before, job.outcome>>
      /\ job'.moduleUpdated <=> job.moduleUpdated
  BY DEF MoveScriptsAside, InstallInv, TypeOK, Job, Disk
<1>5. TypeOK'
  BY <1>1, <1>2, <1>3, <1>4 DEF InstallInv, TypeOK
<1>6. WayBack' /\ StagedSoFar' /\ Forked' /\ Artifacts'
  BY <1>1, <1>3, <1>4 DEF InstallInv, WayBack, StagedSoFar, Forked, Artifacts,
     FailedInstallKeepsBinaries, Steps, Early, Placing, Saved, Undone, Handed
<1>7. RecordSoFar'
  BY <1>1, <1>2, UnrecordedStep DEF InstallInv
<1> QED BY <1>5, <1>6, <1>7 DEF InstallInv

\* CopyScripts keeps InstallInv: the scripts are of the staged release, or those of before.
LEMMA CopyScriptsKeeps == ASSUME InstallInv, CopyScripts PROVE InstallInv'
<1>1. /\ at = "publish" /\ at' \in {"files", "rollback"}
      /\ UNCHANGED <<dir, apk, record, track, job, down, procs, overlap, lost>>
  BY DEF CopyScripts, history
<1>2. at \in Steps \ Handed /\ at' \in Steps \ Handed
  BY <1>1 DEF Steps, Saved, Placing, Handed
<1>3. disk' \in Disk /\ UNCHANGED <<disk.bin, disk.backup, disk.link>>
  BY DEF CopyScripts, InstallInv, TypeOK, Disk, Job
<1>4. at' = "files" => disk'.scripts = job.staged
  BY DEF CopyScripts, InstallInv, TypeOK, Disk
<1>5. TypeOK'
  BY <1>1, <1>2, <1>3 DEF InstallInv, TypeOK
<1>6. WayBack' /\ StagedSoFar' /\ Forked' /\ Artifacts'
  BY <1>1, <1>3, <1>4 DEF InstallInv, WayBack, StagedSoFar, Forked, Artifacts,
     FailedInstallKeepsBinaries, Steps, Early, Placing, Saved, Undone, Handed
<1>7. RecordSoFar'
  BY <1>1, <1>2, UnrecordedStep DEF InstallInv
<1> QED BY <1>5, <1>6, <1>7 DEF InstallInv

\* CopyModuleFiles keeps InstallInv: no other file matters here.
LEMMA CopyModuleFilesKeeps == ASSUME InstallInv, CopyModuleFiles PROVE InstallInv'
<1>1. /\ at = "files" /\ at' = "postclean"
      /\ UNCHANGED <<dir, disk, apk, record, track, job, down, procs, overlap, lost>>
  BY DEF CopyModuleFiles, history
<1>2. at \in Steps \ Handed /\ at' \in Steps \ Handed
  BY <1>1 DEF Steps, Saved, Placing, Handed
<1>3. TypeOK'
  BY <1>1, <1>2 DEF InstallInv, TypeOK
<1>4. WayBack' /\ StagedSoFar' /\ Forked' /\ Artifacts'
  BY <1>1 DEF InstallInv, WayBack, StagedSoFar, Forked, Artifacts,
     FailedInstallKeepsBinaries,
     Steps, Early, Placing, Saved, Undone, Handed
<1>5. RecordSoFar'
  BY <1>1, <1>2, UnrecordedStep DEF InstallInv
<1> QED BY <1>3, <1>4, <1>5 DEF InstallInv

\* The steps that look at the new module and change nothing of it.
LEMMA PutKeeps ==
  ASSUME InstallInv, NEW here, NEW next,
         <<here, next>> \in {<<"postclean", "manual">>, <<"manual", "profile">>,
                             <<"profile", "link">>, <<"verify", "fork">>},
         Put(here, next, disk)
  PROVE  InstallInv'
<1>1. /\ at = here /\ at' \in {next, "rollback"}
      /\ UNCHANGED <<dir, disk, apk, record, track, job, down, procs, overlap, lost>>
  BY DEF Put, history
<1>2. at \in Steps \ Handed /\ at' \in Steps \ Handed
  BY <1>1 DEF Steps, Saved, Placing, Handed
<1>3. TypeOK'
  BY <1>1, <1>2 DEF InstallInv, TypeOK
<1>4. WayBack' /\ StagedSoFar' /\ Forked' /\ Artifacts'
  BY <1>1 DEF InstallInv, WayBack, StagedSoFar, Forked, Artifacts,
     FailedInstallKeepsBinaries,
     Steps, Early, Placing, Saved, Undone, Handed
<1>5. RecordSoFar'
  BY <1>1, <1>2, UnrecordedStep DEF InstallInv
<1> QED BY <1>3, <1>4, <1>5 DEF InstallInv

\* LinkRelease keeps InstallInv: now the whole module is of the staged release.
LEMMA LinkReleaseKeeps == ASSUME InstallInv, LinkRelease PROVE InstallInv'
<1>1. /\ at = "link" /\ at' \in {"verify", "rollback"}
      /\ UNCHANGED <<dir, apk, record, track, job, down, procs, overlap, lost>>
  BY DEF LinkRelease, Put, history
<1>2. at \in Steps \ Handed /\ at' \in Steps \ Handed
  BY <1>1 DEF Steps, Saved, Placing, Handed
<1>3. job.staged \in Releases
  BY <1>1 DEF InstallInv, StagedSoFar, Placing
<1>4. disk' \in Disk /\ UNCHANGED <<disk.bin, disk.backup, disk.scripts>>
  BY <1>3 DEF LinkRelease, Put, InstallInv, TypeOK, Disk
<1>5. at' = "verify" => disk'.link = job.staged
  BY DEF LinkRelease, Put, InstallInv, TypeOK, Disk
<1>6. TypeOK'
  BY <1>1, <1>2, <1>4 DEF InstallInv, TypeOK
<1>7. WayBack' /\ StagedSoFar' /\ Forked' /\ Artifacts'
  BY <1>1, <1>4, <1>5 DEF InstallInv, WayBack, StagedSoFar, Forked, Artifacts,
     FailedInstallKeepsBinaries, Steps, Early, Placing, Saved, Undone, Handed
<1>8. RecordSoFar'
  BY <1>1, <1>2, UnrecordedStep DEF InstallInv
<1> QED BY <1>6, <1>7, <1>8 DEF InstallInv

-----------------------------------------------------------------------------
(* The transaction: the way back                                           *)

\* A roll-back leaves binaries; those of the backup when it is complete.
LEMMA RolledBackFacts ==
  ASSUME TypeOK
  PROVE  /\ RolledBack \in [BinaryNames -> Binary]
         /\ disk.backup \in [BinaryNames -> Binary] => RolledBack = disk.backup
<1>1. /\ disk.bin \in [BinaryNames -> Binary] /\ disk.backup \in [BinaryNames -> Content]
      /\ 0 \notin Binary
  BY ReleaseFacts DEF TypeOK, Disk, Binary, Damaged
<1> QED BY <1>1 DEF RolledBack, Binary, Content

\* RollbackBinaries keeps InstallInv: the backup leads back to the binaries of before.
LEMMA RollbackBinariesKeeps == ASSUME InstallInv, RollbackBinaries PROVE InstallInv'
<1>1. /\ at = "rollback" /\ at' = "failed" /\ disk' \in Disk
      /\ lost' \in BOOLEAN /\ (~lost' => disk'.bin = RolledBack /\ ~lost)
      /\ UNCHANGED <<dir, apk, record, track, job, down, procs, overlap>>
  <2>1. TypeOK
    BY DEF InstallInv
  <2>2. [disk EXCEPT !.bin = RolledBack] \in Disk
    BY <2>1, RolledBackFacts DEF TypeOK, Disk
  <2>3. ASSUME NEW b \in BinaryNames
        PROVE  [disk EXCEPT !.bin = [RolledBack EXCEPT ![b] = disk.bin[b]]] \in Disk
    BY <2>1, RolledBackFacts DEF TypeOK, Disk
  <2> QED BY <2>1, <2>2, <2>3 DEF RollbackBinaries, Rollback, TypeOK, Disk
<1>2. ~lost' => disk'.bin = job.before
  BY <1>1, RolledBackFacts DEF InstallInv, WayBack, Saved, Steps
<1>3. TypeOK'
  BY <1>1 DEF InstallInv, TypeOK, Steps, Undone
<1>4. WayBack' /\ StagedSoFar' /\ Forked' /\ Artifacts'
  BY <1>1, <1>2 DEF InstallInv, WayBack, StagedSoFar, Forked, Artifacts,
     FailedInstallKeepsBinaries, Steps, Early, Placing, Saved, Undone, Handed
<1>5. RecordSoFar'
  BY <1>1 DEF InstallInv, RecordSoFar, Told, Steps, Early, Placing, Saved, Undone, Handed
<1> QED BY <1>3, <1>4, <1>5 DEF InstallInv

\* RollbackAfterFork keeps InstallInv: the backup still leads back after a handover that

\* failed.
LEMMA RollbackAfterForkKeeps == ASSUME InstallInv, RollbackAfterFork PROVE InstallInv'
<1>1. /\ at = "unfork" /\ at' = "refork" /\ disk' \in Disk
      /\ lost' \in BOOLEAN /\ (~lost' => disk'.bin = RolledBack /\ ~lost)
      /\ UNCHANGED <<dir, apk, record, track, job, down, procs, overlap>>
  <2>1. TypeOK
    BY DEF InstallInv
  <2>2. [disk EXCEPT !.bin = RolledBack] \in Disk
    BY <2>1, RolledBackFacts DEF TypeOK, Disk
  <2>3. ASSUME NEW b \in BinaryNames
        PROVE  [disk EXCEPT !.bin = [RolledBack EXCEPT ![b] = disk.bin[b]]] \in Disk
    BY <2>1, RolledBackFacts DEF TypeOK, Disk
  <2> QED BY <2>1, <2>2, <2>3 DEF RollbackAfterFork, Rollback, TypeOK, Disk
<1>2. ~lost' => disk'.bin = job.before
  BY <1>1, RolledBackFacts DEF InstallInv, WayBack, Saved, Steps
<1>3. TypeOK'
  BY <1>1 DEF InstallInv, TypeOK, Steps, Undone
<1>4. WayBack' /\ StagedSoFar' /\ Forked' /\ Artifacts'
  BY <1>1, <1>2 DEF InstallInv, WayBack, StagedSoFar, Forked, Artifacts,
     FailedInstallKeepsBinaries, Steps, Early, Placing, Saved, Undone, Handed
<1>5. RecordSoFar'
  BY <1>1 DEF InstallInv, RecordSoFar, Told, Steps, Early, Placing, Saved, Undone, Handed
<1> QED BY <1>3, <1>4, <1>5 DEF InstallInv

\* FailInstall keeps InstallInv: the install fails with the binaries of before.
LEMMA FailInstallKeeps == ASSUME InstallInv, FailInstall PROVE InstallInv'
<1>1. at = "failed" /\ ~job.moduleUpdated /\ UNCHANGED <<dir, disk, apk, down, overlap, lost>>
  BY DEF FailInstall, InstallInv, WayBack, Handed, Steps, Undone, history
<1>2. track \in Record /\ track.status \in {"running", "failed"} /\ ~track.module
  BY <1>1 DEF InstallInv, TypeOK, RecordSoFar, Steps, Undone, Handed
<1>3. /\ at' = "idle" /\ track' = NoTrack /\ job' \in Job /\ job'.outcome = "failed"
      /\ job'.before = job.before
      /\ record' \in Record /\ record'.status = "failed" /\ ~record'.module
      /\ procs' \in Procs /\ procs'.alive = procs.alive /\ procs'.exit = procs.exit
  BY <1>1, <1>2, SteppedFacts, ReturnFacts DEF FailInstall, StepNames, Results, InstallInv
<1>4. TypeOK'
  BY <1>1, <1>3, NothingFacts DEF InstallInv, TypeOK
<1>5. WayBack' /\ StagedSoFar' /\ Forked' /\ Artifacts'
  BY <1>1, <1>3 DEF InstallInv, WayBack, StagedSoFar, Forked, Artifacts,
     FailedInstallKeepsBinaries, Steps, Early, Placing, Saved, Undone, Handed
<1>6. RecordSoFar'
  BY <1>3 DEF RecordSoFar, Told, Steps, Early, Placing, Saved, Undone, Handed
<1> QED BY <1>4, <1>5, <1>6 DEF InstallInv

-----------------------------------------------------------------------------
(* The transaction: the handover, and what follows it                      *)

\* ForkNext keeps InstallInv: the daemon that is waited for was spawned.
LEMMA ForkNextKeeps == ASSUME InstallInv, ForkNext PROVE InstallInv'
<1>1. /\ at = "fork" /\ at' \in {"wait", "unfork"}
      /\ procs' \in Procs /\ procs.alive \subseteq procs'.alive /\ procs'.exit = procs.exit
      /\ at' = "wait" => "next" \in procs'.alive
      /\ UNCHANGED <<dir, disk, apk, record, track, job, down, overlap, lost>>
  <2>1. [procs EXCEPT !.alive = @ \cup {"next"}, !.listens = Nobody] \in Procs
    BY DEF InstallInv, TypeOK, Procs, Daemons
  <2>2. [procs EXCEPT !.listens = Nobody] \in Procs
    BY DEF InstallInv, TypeOK, Procs
  <2>3. CASE procs' = [procs EXCEPT !.alive = @ \cup {"next"}, !.listens = Nobody]
    BY <2>1, <2>3 DEF ForkNext, Fork, InstallInv, TypeOK, Procs, history
  <2>4. CASE at' = "unfork" /\ procs' = [procs EXCEPT !.listens = Nobody]
    BY <2>2, <2>4 DEF ForkNext, Fork, InstallInv, TypeOK, Procs, history
  <2> QED BY <2>3, <2>4 DEF ForkNext, Fork
<1>2. TypeOK'
  BY <1>1 DEF InstallInv, TypeOK, Steps, Placing, Saved, Undone
<1>3. WayBack' /\ StagedSoFar' /\ Forked' /\ Artifacts'
  BY <1>1 DEF InstallInv, WayBack, StagedSoFar, Forked, Artifacts,
     FailedInstallKeepsBinaries, Steps, Early, Placing, Saved, Undone, Handed
<1>4. RecordSoFar'
  BY <1>1 DEF InstallInv, RecordSoFar, Told, Steps, Early, Placing, Saved, Undone, Handed,
     IsWhole, Whole
<1> QED BY <1>2, <1>3, <1>4 DEF InstallInv

\* ForkRestored keeps InstallInv: the previous daemon that is waited for was spawned.
LEMMA ForkRestoredKeeps == ASSUME InstallInv, ForkRestored PROVE InstallInv'
<1>1. /\ at = "refork" /\ at' \in {"waitback", "failed"}
      /\ procs' \in Procs /\ procs.alive \subseteq procs'.alive /\ procs'.exit = procs.exit
      /\ at' = "waitback" => "restored" \in procs'.alive
      /\ UNCHANGED <<dir, disk, apk, record, track, job, down, overlap, lost>>
  <2>1. [procs EXCEPT !.alive = @ \cup {"restored"}, !.listens = Nobody] \in Procs
    BY DEF InstallInv, TypeOK, Procs, Daemons
  <2>2. [procs EXCEPT !.listens = Nobody] \in Procs
    BY DEF InstallInv, TypeOK, Procs
  <2>3. CASE procs' = [procs EXCEPT !.alive = @ \cup {"restored"}, !.listens = Nobody]
    BY <2>1, <2>3 DEF ForkRestored, Fork, InstallInv, TypeOK, Procs, history
  <2>4. CASE at' = "failed" /\ procs' = [procs EXCEPT !.listens = Nobody]
    BY <2>2, <2>4 DEF ForkRestored, Fork, InstallInv, TypeOK, Procs, history
  <2> QED BY <2>3, <2>4 DEF ForkRestored, Fork
<1>2. TypeOK'
  BY <1>1 DEF InstallInv, TypeOK, Steps, Placing, Saved, Undone
<1>3. WayBack' /\ StagedSoFar' /\ Forked' /\ Artifacts'
  BY <1>1 DEF InstallInv, WayBack, StagedSoFar, Forked, Artifacts,
     FailedInstallKeepsBinaries, Steps, Early, Placing, Saved, Undone, Handed
<1>4. RecordSoFar'
  BY <1>1 DEF InstallInv, RecordSoFar, Told, Steps, Early, Placing, Saved, Undone, Handed,
     IsWhole, Whole
<1> QED BY <1>2, <1>3, <1>4 DEF InstallInv

\* SeeNext keeps InstallInv: the module is recorded as installed when it is whole.
LEMMA SeeNextKeeps == ASSUME InstallInv, SeeNext PROVE InstallInv'
<1>1. /\ at = "wait" /\ at' = "apk"
      /\ job' = [job EXCEPT !.moduleUpdated = TRUE] /\ job' \in Job
      /\ UNCHANGED <<dir, disk, apk, down, procs, overlap, lost>>
  BY DEF SeeNext, InstallInv, TypeOK, Job, history
<1> DEFINE t == [track EXCEPT !.module = TRUE]
<1>2. /\ t \in Record /\ t.status \in {"running", "failed"}
      /\ record \in Record /\ Told /\ record.status # "completed"
  BY <1>1 DEF InstallInv, TypeOK, Record, RecordSoFar, Steps, Saved, Placing
<1>3. /\ track' = Stepped(t, "update-install-module", "ok")
      /\ record' \in {track', record}
  BY WriteFacts DEF SeeNext
<1> HIDE DEF t
<1>4. /\ track' \in Record /\ track'.status \in {"running", "failed"}
      /\ record' \in Record /\ Told' /\ record'.status # "completed"
  BY <1>2, <1>3, SteppedFacts DEF StepNames, Results, Told
<1>5. TypeOK'
  BY <1>1, <1>4 DEF InstallInv, TypeOK, Steps, Handed
<1>6. WayBack' /\ StagedSoFar' /\ Forked' /\ Artifacts'
  BY <1>1 DEF InstallInv, TypeOK, Job, WayBack, StagedSoFar, Forked, Artifacts,
     FailedInstallKeepsBinaries, Steps, Early, Placing, Saved, Undone, Handed
<1>7. RecordSoFar'
  <2>1. IsWhole'
    BY <1>1, HandedWhole DEF InstallInv, IsWhole, Whole
  <2> QED BY <1>1, <1>4, <2>1 DEF RecordSoFar, Handed
<1> QED BY <1>5, <1>6, <1>7 DEF InstallInv

\* SeeRestored keeps InstallInv: the host is asked to leave when the restored daemon is

\* alive.
LEMMA SeeRestoredKeeps == ASSUME InstallInv, SeeRestored PROVE InstallInv'
<1>1. /\ at = "waitback" /\ at' = "failed"
      /\ UNCHANGED <<dir, disk, apk, record, track, job, down, overlap, lost>>
  BY DEF SeeRestored, history
<1>2. at \in Steps \ Handed /\ at' \in Steps \ Handed
  BY <1>1 DEF Steps, Undone, Handed
<1>3. procs' \in Procs /\ procs'.alive = procs.alive
  BY DEF SeeRestored, InstallInv, TypeOK, Procs
<1>4. TypeOK'
  BY <1>1, <1>2, <1>3 DEF InstallInv, TypeOK
<1>5. WayBack' /\ StagedSoFar' /\ Forked' /\ Artifacts'
  BY <1>1, <1>3 DEF InstallInv, WayBack, StagedSoFar, Forked, Artifacts,
     FailedInstallKeepsBinaries, Steps, Early, Placing, Saved, Undone, Handed
<1>6. RecordSoFar'
  BY <1>1, <1>2, UnrecordedStep DEF InstallInv
<1> QED BY <1>4, <1>5, <1>6 DEF InstallInv

\* GiveUp keeps InstallInv: a daemon that does not answer stays alive.
LEMMA GiveUpKeeps == ASSUME InstallInv, GiveUp PROVE InstallInv'
<1>1. /\ \/ at = "wait" /\ at' = "unfork"
         \/ at = "waitback" /\ at' = "failed"
      /\ UNCHANGED <<dir, disk, apk, record, track, job, down, procs, overlap, lost>>
  BY DEF GiveUp, history
<1>2. at \in Steps \ Handed /\ at' \in Steps \ Handed
  BY <1>1 DEF Steps, Saved, Placing, Undone, Handed
<1>3. TypeOK'
  BY <1>1, <1>2 DEF InstallInv, TypeOK
<1>4. WayBack' /\ StagedSoFar' /\ Forked' /\ Artifacts'
  BY <1>1 DEF InstallInv, WayBack, StagedSoFar, Forked, Artifacts,
     FailedInstallKeepsBinaries,
     Steps, Early, Placing, Saved, Undone, Handed
<1>5. RecordSoFar'
  BY <1>1, <1>2, UnrecordedStep DEF InstallInv
<1> QED BY <1>3, <1>4, <1>5 DEF InstallInv

\* InstallApk keeps InstallInv: the app is of the release of the module.
LEMMA InstallApkKeeps == ASSUME InstallInv, InstallApk PROVE InstallInv'
<1>1. at = "apk" /\ job.moduleUpdated /\ UNCHANGED <<dir, disk, down, overlap, lost>>
  BY DEF InstallApk, InstallInv, WayBack, Handed, Steps, history
<1>2. /\ track \in Record /\ track.status \in {"running", "failed"}
      /\ record \in Record /\ Told /\ record.status # "completed"
  BY <1>1 DEF InstallInv, TypeOK, RecordSoFar, Steps, Handed
<1>3. IsWhole /\ IsWhole'
  BY <1>1, HandedWhole DEF InstallInv, IsWhole, Whole, Handed
<1>4. CASE at' = "cleanup"
  <2> DEFINE t == [track EXCEPT !.apk = TRUE]
  <2>1. /\ apk' = dir["apk"] /\ apk' \in Releases /\ UNCHANGED <<job, procs>>
        /\ track' = Stepped(t, "update-install-apk", "ok")
        /\ record' \in {track', record}
    BY <1>4, WriteFacts DEF InstallApk, Return
  <2>2. t \in Record /\ t.status \in {"running", "failed"}
    BY <1>2 DEF Record
  <2> HIDE DEF t
  <2>3. /\ track' \in Record /\ track'.status \in {"running", "failed"}
        /\ record' \in Record /\ Told' /\ record'.status # "completed"
    BY <1>2, <2>1, <2>2, SteppedFacts DEF StepNames, Results, Told
  <2>4. TypeOK'
    BY <1>1, <1>4, <2>1, <2>3 DEF InstallInv, TypeOK, Steps, Handed
  <2>5. WayBack' /\ StagedSoFar' /\ Forked'
    BY <1>1, <1>4, <2>1 DEF InstallInv, WayBack, StagedSoFar, Forked,
       FailedInstallKeepsBinaries, Steps, Early, Placing, Saved, Undone, Handed
  <2>6. Artifacts'
    BY <1>1, <1>4, <2>1, VerifiedFacts DEF InstallInv, Artifacts, Placing, Handed
  <2>7. RecordSoFar'
    BY <1>3, <1>4, <2>3 DEF RecordSoFar, Handed
  <2> QED BY <2>4, <2>5, <2>6, <2>7 DEF InstallInv
<1>5. CASE at' # "cleanup"
  <2>1. apk' = apk /\ Return("failed", Stepped(track, "update-install-apk", "failed"), procs)
    BY <1>5 DEF InstallApk
  <2>2. /\ at' = "idle" /\ track' = NoTrack /\ job' \in Job /\ job'.moduleUpdated
        /\ record' \in Record /\ record'.status = "failed"
        /\ procs' \in Procs /\ procs'.alive = procs.alive
    BY <1>1, <1>2, <2>1, SteppedFacts, ReturnFacts DEF StepNames, Results, InstallInv
  <2>3. TypeOK'
    BY <1>1, <2>1, <2>2, NothingFacts DEF InstallInv, TypeOK
  <2>4. WayBack' /\ StagedSoFar' /\ Forked' /\ Artifacts'
    BY <1>1, <2>1, <2>2 DEF InstallInv, WayBack, StagedSoFar, Forked, Artifacts,
       FailedInstallKeepsBinaries, Steps, Early, Placing, Saved, Undone, Handed
  <2>5. RecordSoFar'
    BY <1>3, <2>2 DEF RecordSoFar, Told, Steps, Early, Placing, Saved, Undone, Handed
  <2> QED BY <2>3, <2>4, <2>5 DEF InstallInv
<1> QED BY <1>4, <1>5

\* CleanUp keeps InstallInv: completed is recorded when module and app are of one release

\* and the artifacts gone.
LEMMA CleanUpKeeps == ASSUME InstallInv, CleanUp PROVE InstallInv'
<1>1. at = "cleanup" /\ job.moduleUpdated /\ UNCHANGED <<disk, apk, down, overlap, lost>>
  BY DEF CleanUp, InstallInv, WayBack, Handed, Steps, history
<1>2. track \in Record /\ track.status \in {"running", "failed"}
  BY <1>1 DEF InstallInv, TypeOK, RecordSoFar, Steps, Handed
<1>3. PICK s \in Releases : Whole(s) /\ (~overlap => apk = s)
  BY <1>1, HandedWhole DEF InstallInv, Artifacts, Handed
<1>4. Whole(s)' /\ IsWhole'
  BY <1>1, <1>3 DEF Whole, IsWhole
<1>5. /\ at' = "idle" /\ track' = NoTrack /\ job' \in Job /\ job'.moduleUpdated
      /\ record' \in Record /\ record'.status \in {"completed", "failed"}
      /\ record'.status = "completed" => dir' = EmptyDir
      /\ dir' \in {EmptyDir, dir} /\ procs' \in Procs /\ procs'.alive = procs.alive
  <2>1. CASE dir' = EmptyDir /\ Return("ok", [Stepped(track, "update-cleanup-downloads", "ok") EXCEPT !.status = "completed"], procs)
    <3>1. LET t == [Stepped(track, "update-cleanup-downloads", "ok") EXCEPT !.status = "completed"]
          IN t \in Record /\ t.status = "completed"
      BY <1>2, SteppedFacts DEF StepNames, Results, Record
    <3> QED BY <1>1, <2>1, <3>1, ReturnFacts DEF InstallInv
  <2>2. CASE dir' = dir /\ Return("failed", Stepped(track, "update-cleanup-downloads", "failed"), procs)
    <3>1. Stepped(track, "update-cleanup-downloads", "failed") \in Record
          /\ Stepped(track, "update-cleanup-downloads", "failed").status = "failed"
      BY <1>2, SteppedFacts DEF StepNames, Results
    <3> QED BY <1>1, <2>2, <3>1, ReturnFacts DEF InstallInv
  <2> QED BY <2>1, <2>2 DEF CleanUp
<1>6. TypeOK'
  BY <1>1, <1>5, NothingFacts DEF InstallInv, TypeOK
<1>7. WayBack' /\ StagedSoFar' /\ Forked' /\ Artifacts'
  BY <1>1, <1>5 DEF InstallInv, WayBack, StagedSoFar, Forked, Artifacts,
     FailedInstallKeepsBinaries, Steps, Early, Placing, Saved, Undone, Handed
<1>8. RecordSoFar'
  <2>1. overlap' = overlap /\ apk' = apk
    BY <1>1
  <2>2. ~overlap' => \E r \in Releases : Whole(r)' /\ apk' = r
    BY <1>3, <1>4, <2>1
  <2> QED BY <1>4, <1>5, <2>2 DEF RecordSoFar, Told, Steps, Early, Placing, Saved, Undone,
             Handed
<1> QED BY <1>6, <1>7, <1>8 DEF InstallInv

-----------------------------------------------------------------------------
(* The daemons                                                             *)

\* Who listens is no part of the invariant.
LEMMA ListenKeeps == ASSUME InstallInv, NEW d \in Daemons, Listen(d) PROVE InstallInv'
<1>1. /\ procs' = [procs EXCEPT !.listens = d, !.bound = @ \cup {d}]
      /\ UNCHANGED <<dir, disk, apk, record, track, at, job, down, overlap, lost>>
  BY DEF Listen, history
<1>2. procs' \in Procs /\ procs'.alive = procs.alive /\ procs'.exit = procs.exit
  BY <1>1 DEF InstallInv, TypeOK, Procs
<1>3. TypeOK'
  BY <1>1, <1>2 DEF InstallInv, TypeOK
<1>4. WayBack' /\ StagedSoFar' /\ Forked' /\ Artifacts'
  BY <1>1, <1>2 DEF InstallInv, WayBack, StagedSoFar, Forked, Artifacts,
     FailedInstallKeepsBinaries
<1>5. RecordSoFar'
  BY <1>1 DEF InstallInv, RecordSoFar, Told, IsWhole, Whole
<1> QED BY <1>3, <1>4, <1>5 DEF InstallInv

\* ShutdownStopsCore keeps InstallInv: the host goes on leaving.
LEMMA ShutdownStopsCoreKeeps == ASSUME InstallInv, ShutdownStopsCore PROVE InstallInv'
<1>1. /\ procs.exit = "asked" /\ procs' = [procs EXCEPT !.exit = "closing"]
      /\ UNCHANGED <<dir, disk, apk, record, track, at, job, down, overlap, lost>>
  BY DEF ShutdownStopsCore, history
<1>2. procs' \in Procs /\ procs'.alive = procs.alive
  BY <1>1 DEF InstallInv, TypeOK, Procs
<1>3. TypeOK'
  BY <1>1, <1>2 DEF InstallInv, TypeOK
<1>4. WayBack' /\ StagedSoFar' /\ Forked' /\ Artifacts'
  BY <1>1, <1>2 DEF InstallInv, WayBack, StagedSoFar, Forked, Artifacts,
     FailedInstallKeepsBinaries
<1>5. RecordSoFar'
  BY <1>1 DEF InstallInv, RecordSoFar, Told, IsWhole, Whole
<1> QED BY <1>3, <1>4, <1>5 DEF InstallInv

\* ShutdownRemovesSocket keeps InstallInv: a host that has left has no install, and nobody

\* is leaving.
LEMMA ShutdownRemovesSocketKeeps ==
  ASSUME InstallInv, ShutdownRemovesSocket
  PROVE  InstallInv'
<1>1. /\ procs.exit = "closing" /\ at' = "idle" /\ down' = NoDownload /\ track' = NoTrack
      /\ procs' = [procs EXCEPT !.exit = "no", !.alive = @ \ {"host"}, !.listens = Nobody]
      /\ UNCHANGED <<dir, disk, apk, record, job, overlap, lost>>
  BY DEF ShutdownRemovesSocket, history
<1>2. procs' \in Procs /\ procs'.exit = "no"
  BY <1>1 DEF InstallInv, TypeOK, Procs
<1>3. TypeOK'
  BY <1>1, <1>2, NothingFacts DEF InstallInv, TypeOK
<1>4. WayBack' /\ StagedSoFar' /\ Forked' /\ Artifacts'
  BY <1>1, <1>2 DEF InstallInv, WayBack, StagedSoFar, Forked, Artifacts,
     FailedInstallKeepsBinaries,
     Steps, Early, Placing, Saved, Undone, Handed
<1>5. RecordSoFar'
  BY <1>1 DEF InstallInv, RecordSoFar, Told, IsWhole, Whole, Steps, Early, Placing, Saved,
     Undone, Handed
<1> QED BY <1>3, <1>4, <1>5 DEF InstallInv

\* Reboot keeps InstallInv: the files are as they were, and the record with them.
LEMMA RebootKeeps == ASSUME InstallInv, Reboot PROVE InstallInv'
<1>1. /\ procs' = Booted(disk.bin["daemon"]) /\ at' = "idle" /\ job' = Result("crashed")
      /\ track' = NoTrack /\ down' = NoDownload
      /\ UNCHANGED <<dir, disk, apk, record, overlap, lost>>
  BY DEF Reboot, history
<1>2. procs' \in Procs /\ procs'.exit = "no"
  <2>1. disk.bin["daemon"] \in Binary
    BY BinaryFacts DEF InstallInv, TypeOK, Disk
  <2> QED BY <1>1, <2>1 DEF Booted, Procs, Daemons
<1>3. job' \in Job /\ job'.outcome = "crashed"
  <2>1. NoJob \in Job /\ job \in Job
    BY NothingFacts DEF InstallInv, TypeOK
  <2> QED BY <1>1, <2>1 DEF Result, Job
<1>4. TypeOK'
  BY <1>1, <1>2, <1>3, NothingFacts DEF InstallInv, TypeOK
<1>5. WayBack' /\ StagedSoFar' /\ Forked' /\ Artifacts'
  BY <1>1, <1>2, <1>3 DEF InstallInv, WayBack, StagedSoFar, Forked, Artifacts,
     FailedInstallKeepsBinaries,
     Steps, Early, Placing, Saved, Undone, Handed
<1>6. RecordSoFar'
  BY <1>1 DEF InstallInv, RecordSoFar, Told, IsWhole, Whole, Steps, Early, Placing, Saved,
     Undone, Handed
<1> QED BY <1>4, <1>5, <1>6 DEF InstallInv

-----------------------------------------------------------------------------
(* What is always so                                                       *)

\* Every step keeps the invariant.
LEMMA NextKeepsInstallInv == ASSUME InstallInv, [Next]_vars PROVE InstallInv'
<1>1. CASE Download
  BY <1>1, BeginDownloadKeeps, RemoveStaleKeeps, LoadFileKeeps, WriteManifestKeeps,
     FinishDownloadKeeps, DownloadFailsKeeps DEF Download
<1>2. CASE ResolveInstall \/ CancelContext
  BY <1>2, ResolveInstallKeeps, CancelContextKeeps
<1>3. CASE Transaction
  <2>1. CASE \/ CleanWithNewScripts \/ MarkManual \/ KeepProfile \/ VerifyBinary
    BY <2>1, PutKeeps DEF CleanWithNewScripts, MarkManual, KeepProfile, VerifyBinary
  <2>2. CASE \/ Cancelled \/ BeginInstall \/ StopRuntime \/ Stage \/ CleanRuntime \/ Backup
             \/ Replace \/ MoveScriptsAside \/ CopyScripts \/ CopyModuleFiles \/ LinkRelease
    BY <2>2, CancelledKeeps, BeginInstallKeeps, StopRuntimeKeeps, StageKeeps, CleanRuntimeKeeps,
       BackupKeeps, ReplaceKeeps, MoveScriptsAsideKeeps, CopyScriptsKeeps, CopyModuleFilesKeeps,
       LinkReleaseKeeps
  <2>3. CASE \/ RollbackBinaries \/ RollbackAfterFork \/ ForkNext \/ ForkRestored \/ SeeNext
             \/ SeeRestored \/ GiveUp \/ FailInstall \/ InstallApk \/ CleanUp
    BY <2>3, RollbackBinariesKeeps, RollbackAfterForkKeeps, ForkNextKeeps, ForkRestoredKeeps,
       SeeNextKeeps, SeeRestoredKeeps, GiveUpKeeps, FailInstallKeeps, InstallApkKeeps, CleanUpKeeps
  <2> QED BY <1>3, <2>1, <2>2, <2>3 DEF Transaction
<1>4. CASE Shutdown \/ Reboot
  BY <1>4, ShutdownStopsCoreKeeps, ShutdownRemovesSocketKeeps, RebootKeeps DEF Shutdown
<1>5. CASE \E d \in Daemons : Listen(d) \/ StartRuntime(d) \/ StopByUser(d)
  <2>1. PICK d \in Daemons : Listen(d) \/ StartRuntime(d) \/ StopByUser(d)
    BY <1>5
  <2>2. CASE Listen(d)
    BY <2>2, ListenKeeps
  <2>3. CASE StartRuntime(d) \/ StopByUser(d)
    BY <2>3, UnchangedKeeps DEF StartRuntime, StopByUser, history
  <2> QED BY <2>1, <2>2, <2>3
<1>6. CASE UNCHANGED vars
  BY <1>6, UnchangedKeeps DEF vars
<1> QED BY <1>1, <1>2, <1>3, <1>4, <1>5, <1>6 DEF Next

\* The invariant: types, the way back to the old binaries, how far the new module has come,

\* the daemons that were forked, the artifacts, and what the record says meanwhile.
THEOREM InstallInductive == Spec => []InstallInv
<1>1. Init => InstallInv
  BY InitInstallInv
<1>2. InstallInv /\ [Next]_vars => InstallInv'
  BY NextKeepsInstallInv
<1> QED BY <1>1, <1>2, PTL DEF Spec

\* install_state.json tells what there is: what it says is installed is installed whole,

\* completed means one release and no artifact left, and a module of two releases is told of
\* whichever write, script or command failed and whenever power was lost.
THEOREM RecordTells == Spec => []RecordIsTrue
<1>1. InstallInv => RecordIsTrue
  BY DEF InstallInv, RecordSoFar, RecordIsTrue, Told, IsWhole
<1> QED BY <1>1, InstallInductive, PTL

\* At whichever step the module fails to install, its binaries are those of before, if no

\* copy to or from the backup was lost.
THEOREM FailureKeepsBinaries == Spec => []FailedInstallKeepsBinaries
<1>1. InstallInv => FailedInstallKeepsBinaries
  BY DEF InstallInv, WayBack
<1> QED BY <1>1, InstallInductive, PTL

\* The daemon that ran the transaction leaves only when one that it forked is alive.
THEOREM SomebodyIsThere == Spec => []SomebodyStays
<1>1. InstallInv => SomebodyStays
  BY DEF InstallInv, Forked, SomebodyStays
<1> QED BY <1>1, InstallInductive, PTL

=============================================================================
