------------------------------ MODULE OsActivate ------------------------------
(***************************************************************************)
(* Finishing an OS update (epilykos_os_activate.py): Restart, Discard, the *)
(* trial's confirmation and the reconciliation at every hostd start.       *)
(***************************************************************************)
EXTENDS OsUpdate

\* Restart for a ready job: the worker activates it and reboots.
Restart ==
  /\ At("hostd", "serve")
  /\ journal.state = "ready"
  /\ ~WorkerActive
  /\ journal' = WithState(journal, "restarting")
  /\ StartWorker
  /\ UNCHANGED <<env, guard, cancel, proc, store, boot, jobs, crashes>>

\* Discard for a ready job: the target is shown non-bootable, then dropped.
Discard ==
  /\ At("hostd", "serve")
  /\ journal.state = "ready"
  /\ ~WorkerActive
  /\ env.pending = 0
  /\ \/ /\ RaucMarksBad(journal.tgt)
        /\ IF env'.left[journal.tgt] = 0
           THEN Call("hostd", "fin_save", WithState(journal, "discarded"), "serve")
           ELSE UNCHANGED proc
     \/ Unanswered("hostd", MarkBad(env, journal.tgt), "serve")
  /\ UNCHANGED <<files, wreq, store, boot, jobs, crashes>>

-----------------------------------------------------------------------------
(* back_to_ready: activation did not happen.  Run by the worker or hostd.  *)

\* Mutant: the target is not made non-bootable again.
BackToReadyTrusts(p) ==
  /\ At(p, "b2r_bad")
  /\ Goto(p, "b2r_clear")
  /\ UNCHANGED <<env, files, wreq, store, boot, counts>>

BackToReadyBad(p) ==
  /\ At(p, "b2r_bad")
  /\ \/ /\ RaucMarksBad(JobOf(p).tgt)
        /\ Goto(p, IF env'.left[JobOf(p).tgt] = 0 THEN "b2r_clear" ELSE "rec_save")
     \/ Unanswered(p, MarkBad(env, JobOf(p).tgt), "rec_save")
  /\ UNCHANGED <<files, wreq, store, boot, jobs, crashes>>

BackToReadyClear(p) ==
  /\ At(p, "b2r_clear")
  /\ EnvBatch(p, ClearPending(env), "rdy_save", "rec_save")
  /\ UNCHANGED <<files, wreq, store, boot, jobs, crashes>>

BackToReady(p) == BackToReadyBad(p) \/ BackToReadyClear(p)

-----------------------------------------------------------------------------
(* activate: run by the worker for a restarting job.                       *)

\* Only the reboot was missing; or everything is revalidated once more.
ActivateBegin ==
  /\ At("worker", "act")
  /\ IF JobOf("worker").act /\ env.phase = "activated"
     THEN Goto("worker", "reboot")
     ELSE \/ /\ Admissible(JobOf("worker").seq)
             /\ TargetVerified(JobOf("worker"))
             /\ env.pending \in {0, JobOf("worker").id}
             /\ Goto("worker", "intent")
          \/ Goto("worker", "b2r_bad")
  /\ UNCHANGED <<env, files, wreq, store, boot, counts>>

ActivateIntent ==
  /\ At("worker", "intent")
  /\ EnvBatch("worker", ActivationIntent(env, JobOf("worker")), "markactive", "b2r_bad")
  /\ UNCHANGED <<files, wreq, store, boot, jobs, crashes>>

\* rauc status mark-active <target>, and the order and attempts read back.
ActivateMark ==
  /\ At("worker", "markactive")
  /\ LET t == JobOf("worker").tgt
     IN  \/ EnvBatch("worker", MarkActive(env, t), "activated",
                     IF Head(env'.order) = t /\ env'.left[t] = Attempts
                     THEN "activated" ELSE "b2r_bad")
         \/ Unanswered("worker", {MarkActive(env, t)}, "exit")
  /\ UNCHANGED <<files, wreq, store, boot, jobs, crashes>>

\* An error here is not caught: the worker ends, the journal says restarting.
ActivateActivated ==
  /\ At("worker", "activated")
  /\ EnvBatch("worker", SetPhase(env, "activated"), "actsave", "exit")
  /\ UNCHANGED <<files, wreq, store, boot, jobs, crashes>>

ActivateSave ==
  /\ At("worker", "actsave")
  /\ journal' = [JobOf("worker") EXCEPT !.act = TRUE]
  /\ Goto("worker", "reboot")
  /\ UNCHANGED <<env, guard, cancel, wreq, store, boot, counts>>

ActivateReboot ==
  /\ At("worker", "reboot")
  /\ reboot' = "going"
  /\ Goto("worker", "exit")
  /\ UNCHANGED <<env, files, wreq, store, slot, health, machine, counts>>

-----------------------------------------------------------------------------
(* confirm_candidate: run by the boot health supervisor on a trial.        *)

\* An error: confirm_main tries again (three times) or gives up.
ConfirmErrors == {"c_begin", "c_failed"}

ConfirmBatch(new, okpc) ==
  \E again \in ConfirmErrors : EnvBatch("confirm", new, okpc, again)

IsTrialOf(e, id, s) ==
  /\ e.pending = id /\ id # 0
  /\ e.target = s
  /\ e.trial = id

\* The pending job as the environment alone describes it.
PendingJob(e) ==
  [id |-> e.pending, state |-> "trying", tgt |-> e.target, seq |-> e.seq, act |-> FALSE]

\* rebuild: the journal of that job, reconstructed when DATA lost it.
Rebuilt(pending, job) == IF job.id = pending.id THEN job ELSE pending

\* Only a trial in one of the phases of an activated job is confirmed.
ConfirmBegin ==
  /\ At("confirm", "c_begin")
  /\ IF IsTrialOf(env, JobOf("confirm").id, slot) /\ env.phase \in TrialPhases
     THEN Call("confirm", env.phase, PendingJob(env), "c_clear")
     ELSE Goto("confirm", "c_refused")
  /\ UNCHANGED <<env, files, wreq, store, boot, counts>>

\* The confirmation intent.
ConfirmIntent ==
  /\ At("confirm", "activated")
  /\ ConfirmBatch(SetPhase(env, "confirming"), "confirming")
  /\ UNCHANGED <<files, wreq, store, boot, jobs, crashes>>

ConfirmMarkGood ==
  /\ At("confirm", "confirming")
  /\ ConfirmBatch(MarkGood(env, slot), "c_promote")
  /\ UNCHANGED <<files, wreq, store, boot, jobs, crashes>>

\* The floor and promoting in one batch.
ConfirmPromote ==
  /\ At("confirm", "c_promote")
  /\ ConfirmBatch(Promote(env, JobOf("confirm").seq), "promoting")
  /\ UNCHANGED <<files, wreq, store, boot, jobs, crashes>>

\* Attempts kept, the bundled app promoted on DATA, the journal at hand.
ConfirmJournal ==
  /\ At("confirm", "promoting")
  /\ IF env.left[slot] = Attempts
     THEN /\ journal' = Rebuilt(JobOf("confirm"), journal)
          /\ Call("confirm", "fin_save", WithState(journal', "confirmed"), "c_clear")
     ELSE /\ UNCHANGED journal
          /\ \E again \in ConfirmErrors : Goto("confirm", again)
  /\ UNCHANGED <<env, guard, cancel, wreq, store, boot, counts>>

ConfirmClear ==
  /\ At("confirm", "c_clear")
  /\ ConfirmBatch(ClearPending(env), "c_ok")
  /\ UNCHANGED <<files, wreq, store, boot, jobs, crashes>>

-----------------------------------------------------------------------------
(* reconcile_boot: hostd start, before it serves and before the app.       *)

\* Mutant: nothing is guarded until the ready job is restarted.
GuardForReadyIdle(state) ==
  IF state \in Terminal \cup {"none", "ready"} THEN "idle"
  ELSE IF state = "reconciling" THEN "reconciling"
  ELSE "active"

GuardFor(state) ==
  IF state \in Terminal \cup {"none"} THEN "idle"
  ELSE IF state = "ready" THEN "pending"
  ELSE IF state = "reconciling" THEN "reconciling"
  ELSE "active"

\* osu.reconcile: the guard from the journal; an interrupted job resumes.
ReconcileJournal ==
  /\ guard' = GuardFor(journal.state)
  /\ IF guard' = "active" THEN StartWorker ELSE UNCHANGED <<wreq, ioerrs>>
  /\ Goto("hostd", "begin")

\* Mutant: a running worker is not looked for.
WorkerCarriesOnUnseen == FALSE

\* hostd restarted while the worker carries on.
WorkerCarriesOn == journal.state \in Resumable /\ WorkerActive

\* No pending job in the environment.
ReconcileNoPending ==
  /\ At("hostd", "start")
  /\ ~WorkerCarriesOn
  /\ env.pending = 0
  /\ \/ /\ journal.state = "restarting"
        /\ Call("hostd", "b2r_bad", journal, "begin")
        /\ UNCHANGED <<guard, wreq, ioerrs>>
     \/ /\ journal.state = "trying"
        /\ Call("hostd", "fin_save",
                WithState(journal, IF slot = journal.tgt /\ env.floor >= journal.seq
                                   THEN "confirmed" ELSE "failed"), "begin")
        /\ UNCHANGED <<guard, wreq, ioerrs>>
     \/ /\ journal.state \notin {"restarting", "trying"}
        /\ ReconcileJournal
  /\ UNCHANGED <<env, journal, cancel, store, boot, jobs, crashes>>

ReconcileCarriesOn ==
  /\ At("hostd", "start")
  /\ WorkerCarriesOn
  /\ Goto("hostd", "begin")
  /\ UNCHANGED <<env, files, wreq, store, boot, counts>>

\* The source booted although the job was activated, before any trial.
NeverTried ==
  /\ slot # env.target
  /\ env.trial # env.pending
  /\ journal.id = env.pending
  /\ journal.state \in {"restarting", "ready"}

\* A pending job: its trial, its rollback, or an interrupted start.  The
\* journal is rebuilt from the environment first.
ReconcilePending ==
  /\ At("hostd", "start")
  /\ ~WorkerCarriesOn
  /\ env.pending # 0
  /\ IF NeverTried
     THEN Call("hostd", "b2r_bad", journal, "begin") /\ UNCHANGED journal
     ELSE LET job == Rebuilt(PendingJob(env), journal)
          IN  /\ journal' = job
              /\ IF slot = env.target
                 THEN Call("hostd", IF job.state = "confirmed" THEN "try_clear" ELSE "try_save",
                           job, "begin")
                 ELSE IF env.trial = env.pending
                 THEN Call("hostd", "rb_bad", job,
                           IF Head(env.order) # slot THEN "rb_active" ELSE "rb_finish")
                 ELSE Call("hostd", "int_bad", job, "begin")
  /\ UNCHANGED <<env, guard, cancel, wreq, store, boot, counts>>

\* The trial of a job whose confirmation finished but for the environment.
TrialClear ==
  /\ At("hostd", "try_clear")
  /\ EnvBatch("hostd", ClearPending(env), "try_idle", "begin")
  /\ UNCHANGED <<files, wreq, store, boot, jobs, crashes>>

TrialIdle ==
  /\ At("hostd", "try_idle")
  /\ guard' = "idle"
  /\ Goto("hostd", "begin")
  /\ UNCHANGED <<env, journal, cancel, wreq, store, boot, counts>>

TrialSave ==
  /\ At("hostd", "try_save")
  /\ journal' = WithState(JobOf("hostd"), "trying")
  /\ Goto("hostd", "try_guard")
  /\ UNCHANGED <<env, guard, cancel, wreq, store, boot, counts>>

TrialGuard ==
  /\ At("hostd", "try_guard")
  /\ guard' = "pending"
  /\ Goto("hostd", "begin")
  /\ UNCHANGED <<env, journal, cancel, wreq, store, boot, counts>>

\* Rollback: target bad, source primary again, journal, environment.
RollbackBad ==
  /\ At("hostd", "rb_bad")
  /\ \/ /\ RaucMarksBad(JobOf("hostd").tgt)
        /\ IF env'.left[JobOf("hostd").tgt] = 0 THEN Goto("hostd", proc["hostd"].ret)
           ELSE Call("hostd", "rec_guard", JobOf("hostd"), "begin")
     \/ Unanswered("hostd", MarkBad(env, JobOf("hostd").tgt), "begin")
  /\ UNCHANGED <<files, wreq, store, boot, jobs, crashes>>

\* mark-active booted; its exit status is ignored.
RollbackActive ==
  /\ At("hostd", "rb_active")
  /\ \/ EnvBatch("hostd", MarkActive(env, slot), "rb_finish", "rb_finish")
     \/ Unanswered("hostd", {MarkActive(env, slot)}, "begin")
  /\ UNCHANGED <<files, wreq, store, boot, jobs, crashes>>

RollbackFinish ==
  /\ At("hostd", "rb_finish")
  /\ IF JobOf("hostd").state = "rolled_back"
     THEN Call("hostd", "rb_clear", JobOf("hostd"), "begin")
     ELSE Call("hostd", "fin_save", WithState(JobOf("hostd"), "rolled_back"), "rb_clear")
  /\ UNCHANGED <<env, files, wreq, store, boot, counts>>

\* Mutant: the rolled back job stays pending.
RollbackKeepsPending ==
  /\ At("hostd", "rb_clear")
  /\ Goto("hostd", "begin")
  /\ UNCHANGED <<env, files, wreq, store, boot, counts>>

RollbackClear ==
  /\ At("hostd", "rb_clear")
  /\ EnvBatch("hostd", ClearPending(env), "begin", "begin")
  /\ UNCHANGED <<files, wreq, store, boot, jobs, crashes>>

\* Interrupted before it started, and the journal is gone or says otherwise.
InterruptedBad ==
  /\ At("hostd", "int_bad")
  /\ \/ /\ RaucMarksBad(JobOf("hostd").tgt)
        /\ IF env'.left[JobOf("hostd").tgt] = 0
           THEN Call("hostd", "fin_save", WithState(JobOf("hostd"), "failed"), "rb_clear")
           ELSE Goto("hostd", "rec_guard")
     \/ Unanswered("hostd", MarkBad(env, JobOf("hostd").tgt), "begin")
  /\ UNCHANGED <<files, wreq, store, boot, jobs, crashes>>

\* Reconciliation done: hostd serves requests.
HostdServes ==
  /\ At("hostd", "begin")
  /\ Call("hostd", "serve", NoJob, "off")
  /\ UNCHANGED <<env, files, wreq, store, boot, counts>>
=============================================================================
