------------------------------- MODULE OsUpdate -------------------------------
(***************************************************************************)
(* OS update jobs (epilykos_os_update.py): the journal, guard and cancel   *)
(* files on DATA, hostd's admission handlers, the update worker and RAUC.  *)
(*                                                                         *)
(* Three programs write the same files: hostd, the worker (a unit of its   *)
(* own, started with --no-block) and the confirmation coordinator.  Each   *)
(* is a program counter with its in-memory copy of the job, which is       *)
(* written back long after it was read.  Every step makes at most one      *)
(* durable write, so that a power cut, a crash or another program's step   *)
(* can come between any two of them.                                       *)
(***************************************************************************)
EXTENDS BootEnv, FiniteSets

CONSTANTS
  MaxCrashes,   \* killed processes: hostd, worker, RAUC, a timed-out coordinator
  MaxIOErrors,  \* environment, RAUC or systemd commands, and saves of a new
                \* job, that fail without a power cut
  WaitExpires   \* can RAUC outlast the four hours reconcile_install waits?

ASSUME CrashAssumption ==
  MaxCrashes \in Nat /\ MaxIOErrors \in Nat /\ WaitExpires \in BOOLEAN

VARIABLES
  env,       \* the platform environment (redundant records, EpkEnv)
  journal,   \* private/journal.json; NoJob when there is no file
  guard,     \* public/guard.json; "missing" when there is no file
  cancel,    \* the job private/cancel names, 0 when there is no file
  image,     \* what each slot holds: a release sequence, or Broken
  proc,      \* hostd, worker, confirm: program counter, job copy, return point
  wreq,      \* systemd has been asked to start the worker
  rauc,      \* the RAUC service: operation, recorded identity, last result
  slot,      \* the booted slot
  health,    \* /run/epilykos/os-health.json: the slot confirmed this boot
  reboot,    \* "no", "asked" (hostd's timer or the supervisor's stop of the app
             \* still runs) or "going" (systemd shuts down)
  jobs,      \* jobs admitted so far
  crashes,   \* killed processes so far
  ioerrs,    \* failed commands so far
  power,     \* "loader", "erase" (DATA being made anew), "up" or "halted"
  sup,       \* the health supervisor of this boot
  appUp,     \* hostd has been ready in this boot, so the app may run
  resetReq,  \* the factory reset request on BOOT
  faults,    \* power cuts and failed boots so far
  resets     \* factory resets so far

files == <<journal, guard, cancel>>
store == <<image, rauc>>
machine == <<power, sup, appUp, resetReq, faults, resets>>
boot == <<slot, health, reboot, machine>>
counts == <<jobs, crashes, ioerrs>>

Working == {"queued", "downloading", "verifying"}
Terminal == {"confirmed", "rolled_back", "failed", "cancelled", "discarded"}
JobStates == Working \cup Terminal \cup
             {"none", "installing", "ready", "restarting", "trying", "reconciling"}
Resumable == Working \cup {"installing", "restarting"}

Broken == MaxSeq + 1

Job == [id: JobIds, state: JobStates, tgt: Slots, seq: Sequences0, act: BOOLEAN]
NoJob == [id |-> 0, state |-> "none", tgt |-> "A", seq |-> 0, act |-> FALSE]

Programs == {"hostd", "worker", "confirm"}
Off == [pc |-> "off", job |-> NoJob, ret |-> "off"]

\* The RAUC service: what it does, the job that recorded its identity, the
\* release it writes, and whether its last operation succeeded.
RaucIdle == [op |-> "idle", owner |-> 0, seq |-> 0, ok |-> TRUE]

WorkerActive == proc["worker"].pc # "off"
Serving == "serve" \in {proc["hostd"].pc, proc["hostd"].ret}

-----------------------------------------------------------------------------
(* Steps of a program.                                                     *)

At(p, pc) == proc[p].pc = pc
JobOf(p) == proc[p].job

Goto(p, pc) == proc' = [proc EXCEPT ![p].pc = pc]

\* Continue with another job copy, and where the subroutine returns to.
Call(p, pc, job, ret) == proc' = [proc EXCEPT ![p] = [pc |-> pc, job |-> job, ret |-> ret]]

WithState(job, state) == [job EXCEPT !.state = state, !.act = FALSE]

\* start_worker: nothing happens while the worker runs.  A start that is
\* refused, or that hostd does not live to ask for, leaves the job to View.
StartWorker ==
  \/ wreq' = (wreq \/ ~WorkerActive) /\ UNCHANGED ioerrs
  \/ ioerrs < MaxIOErrors /\ ioerrs' = ioerrs + 1 /\ UNCHANGED wreq

\* A checked batch: it lands, or it fails and may have landed all the same.
EnvBatch(p, new, okpc, failpc) ==
  \/ env' = new /\ Goto(p, okpc) /\ UNCHANGED ioerrs
  \/ /\ ioerrs < MaxIOErrors
     /\ ioerrs' = ioerrs + 1
     /\ env' \in {env, new}
     /\ Goto(p, failpc)

\* rauc status mark-bad: its exit status is ignored, its effect read back.
RaucMarksBad(s) ==
  \/ env' \in MarkBad(env, s) /\ UNCHANGED ioerrs
  \/ ioerrs < MaxIOErrors /\ ioerrs' = ioerrs + 1 /\ UNCHANGED env

\* _run raises when a command does not answer, whatever became of it.
Unanswered(p, outcomes, pc) ==
  /\ ioerrs < MaxIOErrors
  /\ ioerrs' = ioerrs + 1
  /\ env' \in {env} \cup outcomes
  /\ Goto(p, pc)

\* finish: the terminal state first, then the guard.
FinishSave(p) ==
  /\ At(p, "fin_save")
  /\ journal' = JobOf(p)
  /\ Goto(p, "fin_guard")
  /\ UNCHANGED <<env, guard, cancel, wreq, store, boot, counts>>

FinishGuard(p) ==
  /\ At(p, "fin_guard")
  /\ guard' = "idle"
  /\ Goto(p, proc[p].ret)
  /\ UNCHANGED <<env, journal, cancel, wreq, store, boot, counts>>

\* complete_install and back_to_ready end alike: ready, then guard pending.
ReadySave(p) ==
  /\ At(p, "rdy_save")
  /\ journal' = WithState(JobOf(p), "ready")
  /\ Goto(p, "rdy_guard")
  /\ UNCHANGED <<env, guard, cancel, wreq, store, boot, counts>>

ReadyGuard(p) ==
  /\ At(p, "rdy_guard")
  /\ guard' = "pending"
  /\ Goto(p, proc[p].ret)
  /\ UNCHANGED <<env, journal, cancel, wreq, store, boot, counts>>

\* The target could not be shown non-bootable: say so rather than guess.
ReconcilingSave(p) ==
  /\ At(p, "rec_save")
  /\ journal' = WithState(JobOf(p), "reconciling")
  /\ Goto(p, "rec_guard")
  /\ UNCHANGED <<env, guard, cancel, wreq, store, boot, counts>>

ReconcilingGuard(p) ==
  /\ At(p, "rec_guard")
  /\ guard' = "reconciling"
  /\ Goto(p, proc[p].ret)
  /\ UNCHANGED <<env, journal, cancel, wreq, store, boot, counts>>

EndJob(p) ==
  \/ FinishSave(p) \/ FinishGuard(p)
  \/ ReadySave(p) \/ ReadyGuard(p)
  \/ ReconcilingSave(p) \/ ReconcilingGuard(p)

-----------------------------------------------------------------------------
(* hostd: admission and cancellation, one at a time under _lock.           *)

Blocking ==
  IF guard # "idle" THEN IF guard = "missing" THEN "reconciling" ELSE guard
  ELSE IF journal.state \in Working \cup {"installing"} THEN "active" ELSE "idle"

RefuseReboot ==
  \/ Blocking \in {"active", "reconciling"}
  \/ Blocking = "pending" /\ journal.state \in {"none", "ready", "restarting"}

\* Mutant: admission does not look for an open job.
NoOpenJobUnchecked == TRUE

NoOpenJob == journal.state \in Terminal \cup {"none"} /\ guard = "idle"

\* Mutant: a slot that is not confirmed, or a job that has not finished, is
\* no obstacle.
HealthyUnchecked == TRUE

\* health_blockers: confirmed this boot, nothing pending, the default slot.
Healthy ==
  /\ health = slot
  /\ env.pending = 0
  /\ Head(env.order) = slot

\* trust.admissible: above the confirmed floor and the running system.
Admissible(seq) == seq > env.floor /\ seq > image[slot]

NewJob(seq) ==
  [id |-> jobs + 1, state |-> "queued", tgt |-> Other(slot), seq |-> seq, act |-> FALSE]

\* install, for a new request ID (a repeated one only returns the status).
\* The last job's cancel request goes before the new job is saved, so it is
\* gone also when the save fails.
Install(seq) ==
  /\ At("hostd", "serve")
  /\ jobs < MaxJobs
  /\ NoOpenJob
  /\ Admissible(seq)
  /\ Healthy
  /\ cancel' = 0
  /\ \/ jobs' = jobs + 1 /\ journal' = NewJob(seq) /\ StartWorker
     \/ ioerrs < MaxIOErrors /\ ioerrs' = ioerrs + 1 /\ UNCHANGED <<jobs, journal, wreq>>
  /\ UNCHANGED <<env, guard, proc, store, boot, crashes>>

\* cancel: the request is written, then the worker looked for ...
Cancel ==
  /\ At("hostd", "serve")
  /\ journal.state \in Working
  /\ cancel' = journal.id
  /\ Call("hostd", "can_check", journal, "serve")
  /\ UNCHANGED <<env, journal, guard, wreq, store, boot, counts>>

\* Mutant: hostd ends the job whether or not the worker runs.
CancelCheckForgotten ==
  /\ At("hostd", "can_check")
  /\ Call("hostd", "fin_save", WithState(JobOf("hostd"), "cancelled"), "serve")
  /\ UNCHANGED <<env, files, wreq, store, boot, counts>>

\* ... and only without one does hostd end the job itself.
CancelCheck ==
  /\ At("hostd", "can_check")
  /\ IF WorkerActive THEN Goto("hostd", "serve")
     ELSE Call("hostd", "fin_save", WithState(JobOf("hostd"), "cancelled"), "serve")
  /\ UNCHANGED <<env, files, wreq, store, boot, counts>>

Dismiss ==
  /\ At("hostd", "serve")
  /\ journal.state \in Terminal
  /\ journal' = NoJob
  /\ UNCHANGED <<env, guard, cancel, proc, wreq, store, boot, counts>>

\* Mutant: looking does not resume it.
ViewOnlyLooks == FALSE

\* view: looking resumes a job whose worker went away.
View ==
  /\ Serving
  /\ journal.state \in Resumable
  /\ ~WorkerActive
  /\ wreq' = TRUE
  /\ UNCHANGED <<env, files, proc, store, boot, counts>>

-----------------------------------------------------------------------------
(* The worker, up to an installed slot.                                    *)

WorkerFinish(state) == Call("worker", "fin_save", WithState(JobOf("worker"), state), "exit")

\* systemd starts no unit any more once a reboot is under way.
WorkerBegin ==
  /\ wreq
  /\ ~WorkerActive
  /\ reboot # "going"
  /\ wreq' = FALSE
  /\ Call("worker", "begin", NoJob, "exit")
  /\ UNCHANGED <<env, files, store, boot, counts>>

\* run_worker reads the journal once and keeps the copy.
WorkerReads ==
  /\ At("worker", "begin")
  /\ IF journal.state \in Resumable THEN Call("worker", "start", journal, "exit")
     ELSE Goto("worker", "exit")
  /\ UNCHANGED <<env, files, wreq, store, boot, counts>>

CancelSeen == cancel = JobOf("worker").id

WorkerStarts ==
  /\ At("worker", "start")
  /\ IF JobOf("worker").state \in Working /\ CancelSeen
     THEN WorkerFinish("cancelled")
     ELSE Goto("worker", "lease")
  /\ UNCHANGED <<env, files, wreq, store, boot, counts>>

\* The maintenance flock: free, or held by other maintenance.  A job whose
\* RAUC may still be writing waits for it; any other job gives up.
WorkerLease ==
  /\ At("worker", "lease")
  /\ \/ Goto("worker", "guard")
     \/ JobOf("worker").state # "installing" /\ WorkerFinish("failed")
  /\ UNCHANGED <<env, files, wreq, store, boot, counts>>

WorkerGuard ==
  /\ At("worker", "guard")
  /\ guard' = "active"
  /\ Goto("worker", IF JobOf("worker").state = "installing" THEN "recon"
                    ELSE IF JobOf("worker").state = "restarting" THEN "act"
                    ELSE "work")
  /\ UNCHANGED <<env, journal, cancel, wreq, store, boot, counts>>

\* work: re-verified against the shared trust state, then downloaded.  A
\* complete package that is already staged is not downloaded again.
WorkerWork ==
  /\ At("worker", "work")
  /\ \/ /\ Admissible(JobOf("worker").seq)
        /\ \/ /\ proc' = [proc EXCEPT !["worker"].pc = "download",
                                      !["worker"].job = WithState(@, "downloading")]
              /\ journal' = WithState(JobOf("worker"), "downloading")
           \/ JobOf("worker").state # "queued" /\ Goto("worker", "verify") /\ UNCHANGED journal
     \/ WorkerFinish("failed") /\ UNCHANGED journal
  /\ UNCHANGED <<env, guard, cancel, wreq, store, boot, counts>>

\* hostd has promised a reboot and waits a second to let its reply out.
RebootPromised == reboot = "asked" /\ sup # "rebooting"

\* The transfer: progress is saved from the copy; a cancel request ends it.
\* It takes longer than the second hostd waits with a promised reboot.
WorkerDownload ==
  /\ At("worker", "download")
  /\ \/ journal' = JobOf("worker") /\ UNCHANGED proc
     \/ CancelSeen /\ WorkerFinish("cancelled") /\ UNCHANGED journal
     \/ WorkerFinish("failed") /\ UNCHANGED journal
     \/ ~RebootPromised /\ Goto("worker", "verify") /\ UNCHANGED journal
  /\ UNCHANGED <<env, guard, cancel, wreq, store, boot, counts>>

WorkerVerifying ==
  /\ At("worker", "verify")
  /\ proc' = [proc EXCEPT !["worker"].pc = "checkcancel",
                          !["worker"].job = WithState(@, "verifying")]
  /\ journal' = WithState(JobOf("worker"), "verifying")
  /\ UNCHANGED <<env, guard, cancel, wreq, store, boot, counts>>

\* verify_bundle passed; the last look at the cancel request.
WorkerCheckCancel ==
  /\ At("worker", "checkcancel")
  /\ \/ ~CancelSeen /\ Goto("worker", "identity")
     \/ CancelSeen /\ WorkerFinish("cancelled")
     \/ WorkerFinish("failed")
  /\ UNCHANGED <<env, files, wreq, store, boot, counts>>

\* rauc_identity: the idle service that will do the writing is recorded.
WorkerIdentity ==
  /\ At("worker", "identity")
  /\ \/ /\ rauc.op = "idle"
        /\ rauc' = [rauc EXCEPT !.owner = JobOf("worker").id]
        /\ Goto("worker", "install")
     \/ WorkerFinish("failed") /\ UNCHANGED rauc
  /\ UNCHANGED <<env, files, wreq, image, boot, counts>>

\* installing is durable before RAUC is called.
WorkerInstalling ==
  /\ At("worker", "install")
  /\ proc' = [proc EXCEPT !["worker"].pc = "callrauc",
                          !["worker"].job = WithState(@, "installing")]
  /\ journal' = WithState(JobOf("worker"), "installing")
  /\ UNCHANGED <<env, guard, cancel, wreq, store, boot, counts>>

WorkerCallsRauc ==
  /\ At("worker", "callrauc")
  /\ rauc' = [rauc EXCEPT !.op = "called", !.seq = JobOf("worker").seq, !.ok = FALSE]
  /\ Goto("worker", "rauc")
  /\ UNCHANGED <<env, files, wreq, image, boot, counts>>

\* rauc install returned; while it runs its progress is saved from the copy.
WorkerRaucDone ==
  /\ At("worker", "rauc")
  /\ IF rauc.op = "idle"
     THEN /\ Goto("worker", IF rauc.ok THEN "target" ELSE "failinstall")
          /\ UNCHANGED journal
     ELSE journal' = JobOf("worker") /\ UNCHANGED proc
  /\ UNCHANGED <<env, guard, cancel, wreq, store, boot, counts>>

\* verify_target: exactly the signed image, and it cannot boot yet.
TargetVerified(job) == NonBootable(env, job.tgt) /\ image[job.tgt] = job.seq

WorkerCompleteInstall ==
  /\ At("worker", "target")
  /\ Goto("worker", IF TargetVerified(JobOf("worker")) THEN "rdy_save" ELSE "failinstall")
  /\ UNCHANGED <<env, files, wreq, store, boot, counts>>

\* fail_install: the target is made, and shown to be, non-bootable.  The
\* command may not answer (the worker ends) or the environment not be read
\* (reconciling).
WorkerFailInstall ==
  /\ At("worker", "failinstall")
  /\ \/ /\ RaucMarksBad(JobOf("worker").tgt)
        /\ IF NonBootable(env', JobOf("worker").tgt)
           THEN WorkerFinish("failed")
           ELSE Goto("worker", "rec_save")
     \/ \E pc \in {"exit", "rec_save"} :
          Unanswered("worker", MarkBad(env, JobOf("worker").tgt), pc)
  /\ UNCHANGED <<files, wreq, store, boot, jobs, crashes>>

\* reconcile_install: only the recorded RAUC service can have finished it.
WorkerReconcileInstall ==
  /\ At("worker", "recon")
  /\ \/ /\ rauc.owner = JobOf("worker").id
        /\ rauc.op = "idle"
        /\ Goto("worker", IF rauc.ok THEN "target" ELSE "failinstall")
     \/ /\ rauc.owner # JobOf("worker").id
        /\ Goto("worker", "failinstall")
     \/ /\ WaitExpires
        /\ Goto("worker", "failinstall")
  /\ UNCHANGED <<env, files, wreq, store, boot, counts>>

\* The lease is released and the unit ends.
WorkerExit ==
  /\ At("worker", "exit")
  /\ proc' = [proc EXCEPT !["worker"] = Off]
  /\ UNCHANGED <<env, files, wreq, store, boot, counts>>

-----------------------------------------------------------------------------
(* RAUC (external): it writes the slot group that is not booted.           *)

RaucMarksTarget ==
  /\ rauc.op = "called"
  /\ env' \in MarkBad(env, Other(slot))
  /\ rauc' = [rauc EXCEPT !.op = "marked"]
  /\ UNCHANGED <<files, proc, wreq, image, boot, counts>>

RaucWrites ==
  /\ rauc.op = "marked"
  /\ image' = [image EXCEPT ![Other(slot)] = Broken]
  /\ rauc' = [rauc EXCEPT !.op = "writing"]
  /\ UNCHANGED <<env, files, proc, wreq, boot, counts>>

\* The package is written completely ...
RaucEnds ==
  /\ rauc.op = "writing"
  /\ image' = [image EXCEPT ![Other(slot)] = rauc.seq]
  /\ rauc' = [rauc EXCEPT !.op = "idle", !.ok = TRUE]
  /\ UNCHANGED <<env, files, proc, wreq, boot, counts>>

\* ... or it gives up at any point.
RaucFails ==
  /\ rauc.op # "idle"
  /\ rauc' = [rauc EXCEPT !.op = "idle", !.ok = FALSE]
  /\ UNCHANGED <<env, files, proc, wreq, image, boot, counts>>

=============================================================================
