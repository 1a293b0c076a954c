--------------------------- MODULE UpdateInstall ----------------------------
(***************************************************************************)
(* The updater: the download of a release into the update directory, the   *)
(* install transaction that puts it in place of the running module and of  *)
(* the app, and the handover from the daemon that runs the transaction     *)
(* ("host") to the one it forks ("next").  When the forked daemon does not *)
(* answer, the previous binary is forked again ("restored").               *)
(*                                                                         *)
(* A release is a number; a file that was damaged on its way holds Damaged,*)
(* a missing one holds 0.  The operation is accepted by the runtime actor  *)
(* and runs after the request that asked for it has been answered; the     *)
(* context of that request is cancelled when its handler returns.          *)
(***************************************************************************)
EXTENDS Integers, Sequences, FiniteSets

CONSTANTS
  Releases,     \* the releases there are; the least one is installed at first
  MaxFaults,    \* bound: writes, scripts and commands that fail
  MaxRequests   \* bound: downloads and installs that are asked for

ASSUME ReleasesAssumption == IsFiniteSet(Releases) /\ Releases # {} /\ Releases \subseteq Nat \ {0}
ASSUME BoundsAssumption == MaxFaults \in Nat /\ MaxRequests \in Nat

VARIABLES
  dir,       \* <dataDir>/update: what each of its files holds
  disk,      \* the installed module: binaries, their backup, scripts and the current link
  apk,       \* the app that is installed
  record,    \* install_state.json
  track,     \* what the InstallTracker of the transaction holds in memory
  at,        \* the next step of the install
  job,       \* the local variables of the install
  down,      \* the next step of the download and the release it loads
  procs,     \* the daemons: alive, the release the host runs, who is about to exit, who has the socket
  runtime,   \* the daemon whose sing-box runs
  faults, requests,
  overlap,   \* history: a download changed the update directory under an install
  lost       \* history: a copy of a binary into or out of the backup failed

vars == <<dir, disk, apk, record, track, at, job, down, procs, runtime, faults, requests, overlap, lost>>
installVars == <<disk, apk, track, at, job, procs, runtime, lost>>
history == <<requests, overlap, lost>>

Installed == CHOOSE r \in Releases : \A q \in Releases : r <= q
Damaged == -1
Daemons == {"host", "next", "restored"}
Nobody == "nobody"
Files == <<"module", "apk", "sums", "manifest">>
FileNames == {Files[i] : i \in 1..4}
Binaries == <<"sing-box", "xray", "daemon", "daemonctl">>
BinaryNames == {Binaries[i] : i \in 1..4}
EmptyDir == [f \in FileNames |-> 0]
AllOf(r) == [b \in BinaryNames |-> r]

NoJob == [staged |-> 0, next |-> 1, aside |-> 0, wasRunning |-> FALSE, before |-> AllOf(0), cancelled |-> FALSE,
          moduleUpdated |-> FALSE, outcome |-> "none"]
Fresh(status, step) == [status |-> status, step |-> step, result |-> "none", module |-> FALSE, apk |-> FALSE]

NoTrack == Fresh("none", "none")
NoDownload == [at |-> "idle", release |-> 0]

\* A daemon that was started at boot has the socket.
Booted(r) == [alive |-> {"host"}, bound |-> {"host"}, listens |-> "host", exit |-> "no",
              version |-> r]

Init ==
  /\ dir = EmptyDir
  /\ disk = [bin |-> AllOf(Installed), backup |-> AllOf(0), scripts |-> Installed,
             link |-> Installed]
  /\ apk = Installed
  /\ record = NoTrack /\ track = NoTrack
  /\ at = "idle" /\ job = NoJob
  /\ down = NoDownload
  /\ procs = Booted(Installed)
  /\ runtime = Nobody
  /\ faults = 0 /\ requests = 0
  /\ overlap = FALSE /\ lost = FALSE

Fails == faults < MaxFaults /\ faults' = faults + 1
Busy == at \notin {"idle", "resolved"}

-----------------------------------------------------------------------------
(* Download: RunDownloadTransaction and DownloadUpdateWithContext. *)

\* A download never saves what an install did: its tracker starts afresh.
DownloadRecord(status, step, result) == [Fresh(status, step) EXCEPT !.result = result]

\* The actor is asked whether an operation runs only here.
BeginDownload ==
  /\ down.at = "idle" /\ requests < MaxRequests /\ "host" \in procs.alive /\ ~Busy
  /\ \E r \in Releases :
       /\ r > procs.version
       /\ down' = [at |-> "clean", release |-> r]
  /\ record' = DownloadRecord("running", "update-download", "running")
  /\ requests' = requests + 1
  /\ UNCHANGED <<dir, installVars, faults, overlap>>

Touch == overlap' = (overlap \/ at # "idle")

\* cleanupDownloadedArtifacts removes the files one by one, in the order of Files.
RemoveStale ==
  /\ down.at = "clean"
  /\ \E n \in 0..4 :
       /\ dir' = [f \in FileNames |-> IF \E i \in 1..n : Files[i] = f THEN 0 ELSE dir[f]]
       /\ \/ n = 4 /\ down' = [down EXCEPT !.at = "module"] /\ UNCHANGED <<faults, record>>
          \/ /\ n < 4 /\ Fails
             /\ down' = NoDownload
             /\ record' = DownloadRecord("failed", "update-download", "failed")
  /\ Touch
  /\ UNCHANGED <<installVars, requests>>

AfterFile == [module |-> "apk", apk |-> "sums", sums |-> "manifest"]

\* A file is loaded beside its name and renamed; its content is checked later.
LoadFile ==
  /\ down.at \in {"module", "apk", "sums"}
  /\ \/ dir' = [dir EXCEPT ![down.at] = down.release] /\ UNCHANGED faults
     \/ Fails /\ dir' = [dir EXCEPT ![down.at] = Damaged]
  /\ down' = [down EXCEPT !.at = AfterFile[down.at]]
  /\ record' = DownloadRecord("running", "update-download", "running")
  /\ Touch
  /\ UNCHANGED <<installVars, requests>>

\* verifyChecksums compares both artifacts with the sums beside them.
ChecksumsMatch(d) == d["sums"] \in Releases /\ d["module"] = d["sums"] /\ d["apk"] = d["sums"]

WriteManifest ==
  /\ down.at = "manifest" /\ ChecksumsMatch(dir)
  /\ dir' = [dir EXCEPT !["manifest"] = down.release]
  /\ down' = [down EXCEPT !.at = "verify"]
  /\ record' = DownloadRecord("running", "update-verify", "running")
  /\ Touch
  /\ UNCHANGED <<installVars, requests, faults>>

\* VerifyDownloadedUpdate: all four files, and the manifest knows the content of the other three.
Verified(d) == ChecksumsMatch(d) /\ d["manifest"] = d["sums"]

FinishDownload ==
  /\ down.at = "verify" /\ Verified(dir)
  /\ down' = NoDownload
  /\ record' = DownloadRecord("downloaded", "persist-artifacts", "ok")
  /\ UNCHANGED <<dir, installVars, requests, faults, overlap>>

\* The network, a mismatch or the record itself fails (the record tells), or the request runs out
\* of time (the record keeps its last step).
DownloadFails ==
  /\ down.at # "idle"
  /\ \/ down.at = "manifest" /\ ~ChecksumsMatch(dir) /\ UNCHANGED faults
     \/ down.at = "verify" /\ ~Verified(dir) /\ UNCHANGED faults
     \/ Fails
  /\ down' = NoDownload
  /\ record' \in {record, DownloadRecord("failed", record.step, "failed")}
  /\ UNCHANGED <<dir, installVars, requests, overlap>>

-----------------------------------------------------------------------------
(* The request and its context. *)

\* ResolveVerifiedInstallArtifacts, and RuntimeWasRunning right after it.
ResolveInstall ==
  /\ at = "idle" /\ requests < MaxRequests
  /\ "host" \in procs.alive /\ procs.exit = "no" /\ procs.listens = "host"
  /\ Verified(dir)
  /\ at' = "resolved"
  /\ job' = [NoJob EXCEPT !.wasRunning = (runtime = "host")]
  /\ requests' = requests + 1
  /\ overlap' = (down.at # "idle")
  /\ lost' = FALSE
  /\ UNCHANGED <<dir, disk, apk, record, track, down, procs, runtime, faults>>

\* The actor accepts the operation and the handler returns; the context ends when it has.
CancelContext ==
  /\ at # "idle" /\ ~job.cancelled
  /\ job' = [job EXCEPT !.cancelled = TRUE]
  /\ UNCHANGED <<dir, disk, apk, record, track, at, down, procs, runtime, faults, history>>

-----------------------------------------------------------------------------
(* The transaction: RunInstallTransaction. *)

\* InstallTracker.Step: a failure stays one.
Stepped(t, step, result) ==
  [t EXCEPT !.step = step, !.result = result,
            !.status = IF result = "failed" THEN "failed"
                       ELSE IF t.status \in {"completed", "failed"} THEN t.status ELSE "running"]

\* The file is replaced by a rename; a write that fails is only logged.
Write(t) ==
  /\ track' = t
  /\ \/ record' = t /\ UNCHANGED faults
     \/ Fails /\ UNCHANGED record
WriteAlso(t) == track' = t /\ record' = t

\* What is left of the local variables when nothing runs: what the properties ask about.
Result(outcome) == [NoJob EXCEPT !.before = job.before, !.moduleUpdated = job.moduleUpdated, !.outcome = outcome]

\* The transaction returns, and its deferred function runs: a daemon whose module was replaced exits.
Return(outcome, t, p) ==
  LET leaving == job.moduleUpdated
      last == IF leaving THEN Stepped(t, "update-schedule-self-exit", "ok") ELSE t
  IN /\ at' = "idle"
     /\ job' = Result(outcome)
     /\ track' = NoTrack /\ record' = last
     /\ procs' = IF leaving THEN [p EXCEPT !.exit = "asked"] ELSE p

\* A check of the context that finds it cancelled ends the transaction without a word in the record.
Cancelled ==
  /\ at \in {"resolved", "begin", "module", "apk", "cleanup"} /\ job.cancelled
  /\ IF job.moduleUpdated
     THEN Return("cancelled", track, procs)
     ELSE /\ at' = "idle" /\ job' = Result("cancelled") /\ track' = NoTrack
          /\ UNCHANGED <<record, procs>>
  /\ UNCHANGED <<dir, disk, apk, down, runtime, faults, history>>

BeginInstall ==
  /\ at = "resolved" /\ ~job.cancelled
  /\ job' = [job EXCEPT !.before = disk.bin]
  /\ \/ /\ at' = "begin" /\ WriteAlso(Fresh("running", "none")) /\ UNCHANGED faults
     \/ /\ Fails /\ at' = "idle" /\ UNCHANGED <<track, record>>
  /\ UNCHANGED <<dir, disk, apk, down, procs, runtime, history>>

\* StopRuntimeForModuleInstall: refused while a RESET runs; an error of the core is only logged.
StopRuntime ==
  /\ at = "begin" /\ ~job.cancelled
  /\ \/ /\ at' = "module"
        /\ runtime' = Nobody
        /\ Write(Stepped(track, "update-stop-runtime", "ok"))
        /\ UNCHANGED <<job, procs>>
     \/ /\ Fails /\ UNCHANGED runtime
        /\ Return("refused", Stepped(track, "update-stop-runtime", "failed"), procs)
  /\ UNCHANGED <<dir, disk, apk, down, history>>

\* Extract, validate, lay out releases/<version>: nothing that runs is touched yet.
Stage ==
  /\ at = "module" /\ ~job.cancelled
  /\ \/ /\ dir["module"] \in Releases
        /\ at' = "clean" /\ job' = [job EXCEPT !.staged = dir["module"]]
        /\ Write(Stepped(track, "update-install-module", "running"))
     \/ /\ \/ dir["module"] \notin Releases /\ UNCHANGED faults
           \/ Fails
        /\ at' = "failed" /\ WriteAlso(Stepped(track, "update-install-module", "running"))
        /\ UNCHANGED job
  /\ UNCHANGED <<dir, disk, apk, down, procs, runtime, history>>

\* stopCurrentProxy: rescue_reset.sh kills whatever sing-box there is and removes the rules.
CleanRuntime ==
  /\ at = "clean"
  /\ \/ at' = "backup" /\ runtime' = Nobody /\ UNCHANGED faults
     \/ Fails /\ at' = "failed" /\ runtime' \in {runtime, Nobody}
  /\ UNCHANGED <<dir, disk, apk, record, track, job, down, procs, history>>

\* The old backup is removed first; a copy that fails, perhaps halfway, is only logged.
Backup ==
  /\ at = "backup"
  /\ \/ disk' = [disk EXCEPT !.backup = disk.bin] /\ UNCHANGED <<faults, lost>>
     \/ /\ Fails /\ lost' = TRUE
        /\ \E b \in BinaryNames, torn \in {0, Damaged} :
             disk' = [disk EXCEPT !.backup = [disk.bin EXCEPT ![b] = torn]]
  /\ at' = "replace"
  /\ UNCHANGED <<dir, apk, record, track, job, down, procs, runtime, requests, overlap>>

Replace ==
  /\ at = "replace"
  /\ \/ /\ disk' = [disk EXCEPT !.bin[Binaries[job.next]] = job.staged]
        /\ job' = [job EXCEPT !.next = @ + 1]
        /\ at' = IF job.next = 4 THEN "scripts" ELSE "replace"
        /\ UNCHANGED faults
     \/ Fails /\ at' = "rollback" /\ UNCHANGED <<disk, job>>
  /\ UNCHANGED <<dir, apk, record, track, down, procs, runtime, history>>

\* A step that is done, or fails and has the binaries rolled back.
Put(here, next, new) ==
  /\ at = here
  /\ \/ at' = next /\ disk' = new /\ UNCHANGED faults
     \/ Fails /\ at' = "rollback" /\ UNCHANGED disk
  /\ UNCHANGED <<dir, apk, record, track, job, down, procs, runtime, history>>

\* The old scripts are moved aside before the new ones take their name, and back if that fails.
MoveScriptsAside ==
  /\ at = "scripts"
  /\ \/ /\ at' = "publish" /\ UNCHANGED faults
        /\ job' = [job EXCEPT !.aside = disk.scripts] /\ disk' = [disk EXCEPT !.scripts = 0]
     \/ Fails /\ at' = "rollback" /\ UNCHANGED <<disk, job>>
  /\ UNCHANGED <<dir, apk, record, track, down, procs, runtime, history>>

\* Mutant: the scripts fail and nobody rolls the binaries back.
CopyScriptsOnly ==
  /\ at = "publish"
  /\ \/ at' = "files" /\ disk' = [disk EXCEPT !.scripts = job.staged] /\ UNCHANGED faults
     \/ Fails /\ at' = "failed" /\ disk' = [disk EXCEPT !.scripts = job.aside]
  /\ UNCHANGED <<dir, apk, record, track, job, down, procs, runtime, history>>

CopyScripts ==
  /\ at = "publish"
  /\ \/ at' = "files" /\ disk' = [disk EXCEPT !.scripts = job.staged] /\ UNCHANGED faults
     \/ Fails /\ at' = "rollback" /\ disk' = [disk EXCEPT !.scripts = job.aside]
  /\ UNCHANGED <<dir, apk, record, track, job, down, procs, runtime, history>>

\* Module files and defaults, which nothing below looks at: a failure is only logged.
CopyModuleFiles ==
  /\ at = "files" /\ at' = "postclean"
  /\ UNCHANGED <<dir, disk, apk, record, track, job, down, procs, runtime, faults, history>>

CleanWithNewScripts == Put("postclean", "manual", disk)
MarkManual == Put("manual", "profile", disk)
KeepProfile == Put("profile", "link", disk)
LinkRelease == Put("link", "verify", [disk EXCEPT !.link = job.staged])
VerifyBinary == Put("verify", "fork", disk)

\* rollbackBinaries: what has a backup is copied back; a copy that fails is only logged.
RolledBack == [b \in BinaryNames |-> IF disk.backup[b] = 0 THEN disk.bin[b] ELSE disk.backup[b]]
Rollback(here, next) ==
  /\ at = here /\ at' = next
  /\ \/ disk' = [disk EXCEPT !.bin = RolledBack] /\ UNCHANGED <<faults, lost>>
     \/ /\ Fails /\ lost' = TRUE
        /\ \E b \in BinaryNames : disk' = [disk EXCEPT !.bin = [RolledBack EXCEPT ![b] = disk.bin[b]]]
  /\ UNCHANGED <<dir, apk, record, track, job, down, procs, runtime, requests, overlap>>

RollbackBinaries == Rollback("rollback", "failed")
RollbackAfterFork == Rollback("unfork", "refork")

\* relaunchDaemon removes the socket of whoever listens and spawns the binary that is installed.
Fork(here, child, wait, failed) ==
  /\ at = here
  /\ \/ /\ at' = wait /\ UNCHANGED faults
        /\ procs' = [procs EXCEPT !.alive = @ \cup {child}, !.listens = Nobody]
     \/ Fails /\ at' = failed /\ procs' = [procs EXCEPT !.listens = Nobody]
  /\ UNCHANGED <<dir, disk, apk, record, track, job, down, runtime, history>>

ForkNext == Fork("fork", "next", "wait", "unfork")

\* Mutant: the host leaves although the previous binary could not be spawned either.
ForkRestoredAndExit ==
  /\ at = "refork"
  /\ \/ /\ at' = "waitback" /\ UNCHANGED faults
        /\ procs' = [procs EXCEPT !.alive = @ \cup {"restored"}, !.listens = Nobody]
     \/ /\ Fails /\ at' = "failed"
        /\ procs' = [procs EXCEPT !.listens = Nobody, !.exit = "asked"]
  /\ UNCHANGED <<dir, disk, apk, record, track, job, down, runtime, history>>

ForkRestored == Fork("refork", "restored", "waitback", "failed")

\* A new daemon binds the socket, taking it from whoever had it, whenever it gets there.
Listen(d) ==
  /\ d \in procs.alive \ procs.bound
  /\ procs' = [procs EXCEPT !.listens = d, !.bound = @ \cup {d}]
  /\ UNCHANGED <<dir, disk, apk, record, track, at, job, down, runtime, faults, history>>

\* Anybody who answers at the socket counts as the daemon that was forked.
SeeNext ==
  /\ at = "wait" /\ procs.listens # Nobody
  /\ at' = "apk"
  /\ job' = [job EXCEPT !.moduleUpdated = TRUE]
  /\ Write(Stepped([track EXCEPT !.module = TRUE], "update-install-module", "ok"))
  /\ UNCHANGED <<dir, disk, apk, down, procs, runtime, history>>

SeeRestored ==
  /\ at = "waitback" /\ procs.listens # Nobody
  /\ at' = "failed"
  /\ procs' = [procs EXCEPT !.exit = IF @ = "no" THEN "asked" ELSE @]
  /\ UNCHANGED <<dir, disk, apk, record, track, job, down, runtime, faults, history>>

\* Mutant: the wait for the socket has no deadline.
WaitForever == FALSE /\ UNCHANGED vars

\* Ten seconds have passed; the daemon that was forked is left to itself.
GiveUp ==
  /\ at \in {"wait", "waitback"} /\ procs.listens = Nobody
  /\ at' = IF at = "wait" THEN "unfork" ELSE "failed"
  /\ UNCHANGED <<dir, disk, apk, record, track, job, down, procs, runtime, faults, history>>

\* Mutant: once the binaries are rolled back the record is dropped.
FailInstallQuietly ==
  /\ at = "failed"
  /\ Return("failed", NoTrack, procs)
  /\ UNCHANGED <<dir, disk, apk, down, runtime, faults, history>>

\* The runtime is restored if it ran when the request came in: CoreManager.Start, refused
\* while a RESET runs.
FailInstall ==
  /\ at = "failed"
  /\ \/ /\ job.wasRunning /\ runtime = Nobody
        /\ runtime' = "host"
        /\ UNCHANGED faults
     \/ /\ ~job.wasRunning \/ runtime # Nobody
        /\ UNCHANGED <<runtime, faults>>
     \/ job.wasRunning /\ Fails /\ UNCHANGED runtime
  /\ Return("failed", Stepped(track, "update-install-module", "failed"), procs)
  /\ UNCHANGED <<dir, disk, apk, down, history>>

\* Mutant: an APK that fails is logged and the transaction goes on.
InstallApkOrNot ==
  /\ at = "apk" /\ ~job.cancelled
  /\ \/ apk' = dir["apk"] /\ UNCHANGED faults
     \/ Fails /\ UNCHANGED apk
  /\ at' = "cleanup"
  /\ track' = Stepped(track, "update-install-apk", "ok") /\ record' = track'
  /\ UNCHANGED <<dir, disk, job, procs, down, runtime, history>>

InstallApk ==
  /\ at = "apk" /\ ~job.cancelled
  /\ \/ /\ dir["apk"] \in Releases
        /\ apk' = dir["apk"] /\ at' = "cleanup"
        /\ Write(Stepped([track EXCEPT !.apk = TRUE], "update-install-apk", "ok"))
        /\ UNCHANGED <<job, procs>>
     \/ /\ \/ dir["apk"] \notin Releases /\ UNCHANGED faults
           \/ Fails
        /\ UNCHANGED apk
        /\ Return("failed", Stepped(track, "update-install-apk", "failed"), procs)
  /\ UNCHANGED <<dir, disk, down, runtime, history>>

\* The update directory is removed and the record completed.
CleanUp ==
  /\ at = "cleanup" /\ ~job.cancelled
  /\ \/ /\ dir' = EmptyDir /\ UNCHANGED faults
        /\ Return("ok", [Stepped(track, "update-cleanup-downloads", "ok") EXCEPT !.status = "completed"], procs)
     \/ /\ Fails /\ UNCHANGED dir
        /\ Return("failed", Stepped(track, "update-cleanup-downloads", "failed"), procs)
  /\ UNCHANGED <<disk, apk, down, runtime, history>>

-----------------------------------------------------------------------------
(* The daemons: shutdown of the host, the user, a reboot. *)

\* SIGTERM: CoreManager.Stop cleans up whatever it stopped or not, and the sing-box that the PID
\* file names goes too, whoever spawned it.
ShutdownStopsCore ==
  /\ procs.exit = "asked"
  /\ procs' = [procs EXCEPT !.exit = "closing"]
  /\ runtime' = Nobody
  /\ UNCHANGED <<dir, disk, apk, record, track, at, job, down, faults, history>>

\* Server.Stop closes the listener and removes the socket at its path, then the process ends.
ShutdownRemovesSocket ==
  /\ procs.exit = "closing"
  /\ procs' = [procs EXCEPT !.exit = "no", !.alive = @ \ {"host"}, !.listens = Nobody]
  /\ at' = "idle" /\ down' = NoDownload /\ track' = NoTrack
  /\ UNCHANGED <<dir, disk, apk, record, job, runtime, faults, history>>

Reachable(d) == d \in procs.alive /\ procs.listens = d

\* The user, or the autostart of a daemon; the actor of the host refuses while the install runs.
StartRuntime(d) ==
  /\ Reachable(d) /\ runtime = Nobody /\ (d = "host" => ~Busy /\ procs.exit = "no")
  /\ runtime' = d
  /\ UNCHANGED <<dir, disk, apk, record, track, at, job, down, procs, faults, history>>

StopByUser(d) ==
  /\ Reachable(d) /\ (d = "host" => ~Busy /\ procs.exit = "no")
  /\ runtime' = Nobody
  /\ UNCHANGED <<dir, disk, apk, record, track, at, job, down, procs, faults, history>>

\* Power is lost at any moment; service.sh starts the daemon that is installed.
Reboot ==
  /\ procs' = Booted(disk.bin["daemon"])
  /\ runtime' = Nobody
  /\ at' = "idle" /\ job' = Result("crashed") /\ track' = NoTrack
  /\ down' = NoDownload
  /\ UNCHANGED <<dir, disk, apk, record, faults, history>>

Download == BeginDownload \/ RemoveStale \/ LoadFile \/ WriteManifest \/ FinishDownload \/ DownloadFails
Transaction ==
  \/ Cancelled \/ BeginInstall \/ StopRuntime \/ Stage \/ CleanRuntime \/ Backup \/ Replace
  \/ MoveScriptsAside \/ CopyScripts \/ CopyModuleFiles \/ CleanWithNewScripts \/ MarkManual \/ KeepProfile \/ LinkRelease
  \/ VerifyBinary \/ RollbackBinaries \/ RollbackAfterFork \/ ForkNext \/ ForkRestored
  \/ SeeNext \/ SeeRestored \/ GiveUp \/ FailInstall \/ InstallApk \/ CleanUp
Shutdown == ShutdownStopsCore \/ ShutdownRemovesSocket

Next ==
  \/ Download \/ ResolveInstall \/ CancelContext \/ Transaction \/ Shutdown \/ Reboot
  \/ \E d \in Daemons : Listen(d) \/ StartRuntime(d) \/ StopByUser(d)

\* Every command of the transaction has a time limit, so it goes on; a shutdown ends.
Fairness == WF_vars(Transaction) /\ WF_vars(Shutdown)
Spec == Init /\ [][Next]_vars /\ Fairness

-----------------------------------------------------------------------------
DownloadSteps == {"update-download", "update-verify", "persist-artifacts"}
Whole(r) == disk.bin = AllOf(r) /\ disk.scripts = r /\ disk.link = r

\* install_state.json tells what there is.  What it says is installed is installed whole,
\* and completed means the module and the app of one release, with no artifact left.  And
\* after a failed or interrupted install a module put together from two releases is told
\* of, as long as no later download has taken the file over.
RecordIsTrue ==
  /\ ~overlap /\ record.module => \E r \in Releases : Whole(r)
  /\ ~overlap /\ record.status = "completed" => dir = EmptyDir /\ \E r \in Releases : Whole(r) /\ apk = r
  /\ (\A r \in Releases : ~Whole(r)) /\ record.step \notin DownloadSteps
       => record.status \in {"running", "failed"}

\* An install whose module step fails leaves every binary as it was, at whichever step it fails.
FailedInstallKeepsBinaries ==
  at = "idle" /\ job.outcome = "failed" /\ ~job.moduleUpdated /\ ~lost => disk.bin = job.before

\* The host leaves only when another daemon is there to stay.
SomebodyStays == procs.exit # "no" => procs.alive # {"host"}

\* A transaction that was accepted comes to an end.
InstallEnds == Busy ~> ~Busy

\* An accepted install that meets no failure, reboot or download installs the module and the app.
AcceptedInstallFinishes ==
  at = "idle" /\ job.outcome \notin {"none", "crashed"} /\ faults = 0 /\ ~overlap
    => job.moduleUpdated /\ job.outcome = "ok"

=============================================================================
