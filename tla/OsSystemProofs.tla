---------------------------- MODULE OsSystemProofs ----------------------------
(***************************************************************************)
(* Proofs about the whole box (OsSystem): for any number of jobs and       *)
(* releases, killed processes, failing commands, power cuts and resets.    *)
(***************************************************************************)
EXTENDS OsSystem, TLAPS

-----------------------------------------------------------------------------
(* The inductive invariant.                                                *)

\* Where each of the three programs can be.
WorkerPCs == {"off", "begin", "exit", "start", "lease", "guard", "work", "download", "verify",
              "checkcancel", "identity", "install", "callrauc", "rauc", "target", "failinstall",
              "recon", "act", "intent", "markactive", "activated", "actsave", "reboot",
              "fin_save", "fin_guard", "rdy_save", "rdy_guard", "rec_save", "rec_guard",
              "b2r_bad", "b2r_clear"}

HostdPCs == {"off", "start", "begin", "serve", "can_check",
             "fin_save", "fin_guard", "rdy_save", "rdy_guard", "rec_save", "rec_guard",
             "b2r_bad", "b2r_clear", "try_clear", "try_idle", "try_save", "try_guard",
             "rb_bad", "rb_active", "rb_finish", "rb_clear", "int_bad"}

ConfirmPCs == {"off", "c_begin", "activated", "confirming", "c_promote", "promoting",
               "fin_save", "fin_guard", "c_clear", "c_ok", "c_failed", "c_refused"}

\* ... and where its subroutines return to.
PlaceInv ==
  /\ proc["worker"].pc \in WorkerPCs /\ proc["worker"].ret \in {"off", "exit"}
  /\ proc["hostd"].pc \in HostdPCs
  /\ proc["hostd"].ret \in {"off", "serve", "begin", "rb_clear", "rb_active", "rb_finish"}
  /\ proc["hostd"].ret = "serve" => proc["hostd"].pc \in {"serve", "can_check", "fin_save", "fin_guard"}
  /\ proc["hostd"].pc \in {"fin_save", "fin_guard"} => proc["hostd"].ret \in {"serve", "begin", "rb_clear"}
  /\ proc["hostd"].pc = "can_check" => proc["hostd"].ret = "serve"
  /\ proc["hostd"].pc = "rb_bad" => proc["hostd"].ret \in {"rb_active", "rb_finish"}
  /\ proc["hostd"].pc \in {"rdy_save", "rdy_guard", "rec_save", "rec_guard", "b2r_bad", "b2r_clear", "int_bad"}
       => proc["hostd"].ret = "begin"
  /\ proc["confirm"].pc \in ConfirmPCs
  /\ proc["confirm"].pc \in {"fin_save", "fin_guard"} => proc["confirm"].ret = "c_clear"

\* Before the box is up nothing runs in it; the coordinator runs under the
\* supervisor, once the app has been up.
PowerInv ==
  /\ power # "up" => /\ proc = [p \in Programs |-> Off]
                     /\ ~wreq /\ ~appUp /\ health = NoSlot
                     /\ sup \in {"off", "checking", "rebooting"}
  /\ proc["confirm"].pc # "off" => sup = "confirming" /\ appUp

\* Every job that is written or held has an ID and a sequence.
Named(job) == IF job.state = "none" THEN job.id = 0 ELSE job.id # 0 /\ job.seq # 0

\* hostd is in a subroutine on a job.
HoldsJob == proc["hostd"].pc \in HostdPCs \ {"off", "start", "begin", "serve", "try_clear", "try_idle",
                                             "fin_guard", "rec_guard", "rdy_guard", "try_guard", "rb_clear"}

\* The copy of the job that a program is about to write back.
CopyInv ==
  /\ Named(journal) /\ Named(JobOf("worker")) /\ Named(JobOf("hostd"))
  /\ HoldsJob => JobOf("hostd").state # "none"
  /\ proc["worker"].pc \in {"rdy_save", "rec_save"} => JobOf("worker").state # "none"
  /\ proc["worker"].pc \in {"start", "lease", "guard"} => JobOf("worker").state \in Resumable
  /\ proc["worker"].pc \in {"work", "verify", "checkcancel", "identity", "install"}
       => JobOf("worker").state \in Working
  /\ At("worker", "download") => JobOf("worker").state = "downloading"
  /\ proc["worker"].pc \in {"callrauc", "rauc", "target", "failinstall", "recon"}
       => JobOf("worker").state = "installing"
  /\ proc["worker"].pc \in {"act", "intent", "markactive", "activated", "actsave", "reboot", "b2r_bad", "b2r_clear"}
       => JobOf("worker").state = "restarting"
  /\ proc["worker"].pc \in {"fin_save", "fin_guard"} => JobOf("worker").state \in {"cancelled", "failed"}
  /\ proc["hostd"].pc \in {"fin_save", "fin_guard"} => JobOf("hostd").state \in Terminal
  /\ proc["confirm"].pc \in {"fin_save", "fin_guard"}
       => JobOf("confirm").state = "confirmed" /\ JobOf("confirm").id # 0 /\ JobOf("confirm").seq # 0
  /\ proc["confirm"].pc \in {"activated", "confirming", "c_promote", "promoting"}
       => JobOf("confirm").state = "trying" /\ JobOf("confirm").id # 0 /\ JobOf("confirm").seq # 0

\* The worker has read a restarting job and has not given it up.
Activating ==
  /\ proc["worker"].pc \in {"start", "lease", "guard", "act", "intent", "markactive", "activated", "actsave"}
  /\ JobOf("worker").state = "restarting"

\* hostd is in reconcile_boot.
Reconciling == proc["hostd"].pc \notin {"off", "begin", "serve", "can_check"} /\ proc["hostd"].ret # "serve"

\* No worker is asked for during reconcile_boot; while one has, or will find,
\* a restarting job, hostd changes neither journal nor environment.
ExclusionInv ==
  /\ Reconciling => ~wreq
  /\ proc["hostd"].ret = "serve" /\ ~At("hostd", "serve") => journal.state # "restarting"
  /\ journal.state = "restarting" /\ (WorkerActive \/ wreq) => proc["hostd"].pc \in {"off", "start", "begin", "serve"}
  /\ Activating => journal.state = "restarting"

\* The job that is being activated is pending, and not in the booted slot.
ActivationInv ==
  /\ proc["worker"].pc \in {"intent", "markactive", "activated"} => JobOf("worker").tgt # slot
  /\ proc["worker"].pc \in {"markactive", "activated"}
       => env.pending = JobOf("worker").id /\ env.target = JobOf("worker").tgt

\* The pending job's slot is the one that is booted.
InTrial == power \in {"up", "erase"} /\ env.pending # 0 /\ env.target = slot

Confirming == proc["confirm"].pc \notin {"off", "c_ok", "c_failed", "c_refused"}

Quiet == Terminal \cup {"none", "trying"}

\* From the start of a trial until it is cleared and the coordinator is done
\* the box admits, resumes and activates no job.
TrialInv ==
  /\ InTrial => env.trial = env.pending
  /\ InTrial => sup # "marking" /\ ~At("confirm", "c_ok")
  /\ Confirming => env.pending = 0 \/ env.target = slot
  /\ InTrial \/ Confirming =>
       /\ ~WorkerActive /\ ~wreq /\ health # slot
       /\ proc["hostd"].pc \in {"off", "start", "begin", "serve", "try_clear", "try_idle", "try_save", "try_guard"}
            \/ (proc["hostd"].pc \in {"fin_save", "fin_guard"} /\ proc["hostd"].ret = "begin")
       /\ appUp \/ proc["hostd"].pc \notin {"off", "start", "try_save"} => journal.state \in Quiet

\* The phase of the pending job is the one the coordinator last wrote, and a
\* job is called confirmed only once it is promoting.
PhaseInv ==
  /\ At("confirm", "activated") => env.pending # 0 /\ env.phase = "activated"
  /\ proc["confirm"].pc \in {"confirming", "c_promote"} => env.pending # 0 /\ env.phase = "confirming"
  /\ \/ proc["confirm"].pc \in {"promoting", "fin_save", "fin_guard", "c_clear"}
     \/ At("hostd", "try_clear")
     \/ At("hostd", "fin_save") /\ JobOf("hostd").state = "confirmed"
     \/ journal.state = "confirmed" /\ journal.id = env.pending
     => env.pending = 0 \/ env.phase = "promoting"

BoxInv ==
  /\ TypeOK /\ PlaceInv /\ PowerInv /\ CopyInv /\ ExclusionInv /\ ActivationInv /\ TrialInv /\ PhaseInv
  /\ PendingSound

-----------------------------------------------------------------------------
(* Facts about the operators on the environment and on jobs.               *)

\* The same job is pending, in the same phase.
SamePending(e, f) ==
  /\ f.pending = e.pending /\ f.target = e.target /\ f.seq = e.seq
  /\ f.phase = e.phase /\ f.trial = e.trial

\* An environment with another order, attempts and trial.
EnvWith(e, o, l, t) == [e EXCEPT !.order = o, !.left = l, !.trial = t]

LEMMA EnvWithIs ==
  ASSUME NEW e \in Env, NEW o \in Orders, NEW l \in [Slots -> 0..Attempts], NEW t \in JobIds
  PROVE  /\ EnvWith(e, o, l, t) \in Env
         /\ EnvWith(e, o, l, t).pending = e.pending /\ EnvWith(e, o, l, t).target = e.target
         /\ EnvWith(e, o, l, t).seq = e.seq /\ EnvWith(e, o, l, t).phase = e.phase
         /\ EnvWith(e, o, l, t).trial = t /\ EnvWith(e, o, l, t).floor = e.floor
         /\ EnvWith(e, o, l, t).order = o /\ EnvWith(e, o, l, t).left = l
BY DEF Env, EnvWith

\* RAUC's marks only touch BOOT_ORDER and the attempts.
LEMMA MarksAre ==
  ASSUME NEW e \in Env, NEW s \in Slots
  PROVE  /\ MarkActive(e, s) \in Env /\ SamePending(e, MarkActive(e, s))
         /\ MarkGood(e, s) \in Env /\ SamePending(e, MarkGood(e, s))
         /\ \A f \in MarkBad(e, s) : f \in Env /\ SamePending(e, f)
<1> DEFINE With(o, n) == EnvWith(e, o, [e.left EXCEPT ![s] = n], e.trial)
<1>1. \A n \in 0..Attempts : [e.left EXCEPT ![s] = n] \in [Slots -> 0..Attempts]
  BY DEF Env
<1>2. e.order \in Orders /\ e.trial \in JobIds /\ <<s, Other(s)>> \in Orders /\ <<Other(s)>> \in Orders
  BY DEF Env, Orders, Slots, Other
<1>3. \A o \in Orders, n \in 0..Attempts : With(o, n) \in Env /\ SamePending(e, With(o, n))
  BY <1>1, <1>2, EnvWithIs DEF SamePending
<1>4. 0 \in 0..Attempts /\ Attempts \in 0..Attempts
  BY DEF Attempts
<1>5. MarkActive(e, s) = With(<<s, Other(s)>>, Attempts)
  BY DEF MarkActive, Env, EnvWith
<1>6. MarkGood(e, s) = With(e.order, Attempts)
  BY DEF MarkGood, Env, EnvWith
<1>7. ASSUME NEW f \in MarkBad(e, s) PROVE \E o \in Orders : f = With(o, 0)
  <2>1. PICK drop \in BadDrops :
               f = [e EXCEPT !.left[s] = 0, !.order = IF drop /\ Len(@) = 2 THEN <<Other(s)>> ELSE @]
    BY DEF MarkBad
  <2>2. f = With(IF drop /\ Len(e.order) = 2 THEN <<Other(s)>> ELSE e.order, 0)
    BY <2>1 DEF Env, EnvWith
  <2> QED BY <2>2, <1>2
<1> HIDE DEF With
<1> QED BY <1>2, <1>3, <1>4, <1>5, <1>6, <1>7

\* The batches.
LEMMA ClearIs ==
  ASSUME NEW e \in Env
  PROVE  ClearPending(e) \in Env /\ ClearPending(e).pending = 0 /\ PendingConsistent(ClearPending(e))
<1>1. 0 \in JobIds /\ 0 \in Sequences0 /\ "none" \in Phases
  BY JobsAssumption DEF JobIds, Sequences0, Phases
<1> QED BY <1>1 DEF Env, ClearPending, PendingConsistent

LEMMA IntentIs ==
  ASSUME NEW e \in Env, NEW job \in Job
  PROVE  /\ ActivationIntent(e, job) \in Env
         /\ ActivationIntent(e, job).pending = job.id /\ ActivationIntent(e, job).target = job.tgt
         /\ ActivationIntent(e, job).seq = job.seq /\ ActivationIntent(e, job).trial = 0
         /\ ActivationIntent(e, job).phase = "activation_intent"
<1>1. 0 \in JobIds /\ "activation_intent" \in Phases
  BY JobsAssumption DEF JobIds, Phases
<1>2. job.id \in JobIds /\ job.tgt \in Slots /\ job.seq \in Sequences0
  BY DEF Job
<1> QED BY <1>1, <1>2 DEF Env, ActivationIntent

LEMMA PhaseIs ==
  ASSUME NEW e \in Env, NEW phase \in Phases, NEW seq \in Sequences0
  PROVE  /\ SetPhase(e, phase) \in Env /\ SamePending([e EXCEPT !.phase = phase], SetPhase(e, phase))
         /\ Promote(e, seq) \in Env /\ SamePending([e EXCEPT !.phase = "promoting"], Promote(e, seq))
<1>1. SetPhase(e, phase) \in Env /\ SamePending([e EXCEPT !.phase = phase], SetPhase(e, phase))
  BY DEF Env, SetPhase, SamePending
<1>2. Promote(e, seq) \in Env /\ SamePending([e EXCEPT !.phase = "promoting"], Promote(e, seq))
  BY JobsAssumption DEF Env, Promote, Phases, SamePending
<1> QED BY <1>1, <1>2

\* The loader starts a slot that has an attempt left, and spends it.
LEMMA LoaderIs ==
  ASSUME NEW e \in Env, ~LoaderHalts(e)
  PROVE  /\ LoaderSlot(e) \in Slots /\ e.left[LoaderSlot(e)] # 0
         /\ LoaderSpend(e) \in Env
         /\ LoaderSpend(e).pending = e.pending /\ LoaderSpend(e).target = e.target
         /\ LoaderSpend(e).seq = e.seq /\ LoaderSpend(e).phase = e.phase
         /\ LoaderSpend(e).trial = IF e.pending # 0 /\ LoaderSlot(e) = e.target THEN e.pending ELSE e.trial
<1>1. Eligible(e) # {} /\ Eligible(e) \subseteq {1, 2} /\ Eligible(e) \subseteq DOMAIN e.order
  BY DEF LoaderHalts, Eligible, Env, Orders
<1>2. \E i \in Eligible(e) : \A j \in Eligible(e) : i <= j
  BY <1>1
<1>3. PICK i \in Eligible(e) : LoaderSlot(e) = e.order[i]
  BY <1>2 DEF LoaderSlot
<1>4. LoaderSlot(e) \in Slots /\ e.left[LoaderSlot(e)] # 0
  BY <1>1, <1>3 DEF Eligible, Env, Orders, Slots
<1> DEFINE s == LoaderSlot(e)
           l == [e.left EXCEPT ![s] = @ - 1]
           t == IF e.pending # 0 /\ s = e.target THEN e.pending ELSE e.trial
<1>5. e.order \in Orders /\ t \in JobIds /\ e.left \in [Slots -> 0..Attempts]
  BY DEF Env
<1>6. l \in [Slots -> 0..Attempts]
  BY <1>4, <1>5 DEF Attempts
<1>7. LoaderSpend(e) = EnvWith(e, e.order, l, t)
  BY DEF LoaderSpend, Env, EnvWith
<1> HIDE DEF l, t
<1>8. /\ LoaderSpend(e) \in Env
      /\ LoaderSpend(e).pending = e.pending /\ LoaderSpend(e).target = e.target
      /\ LoaderSpend(e).seq = e.seq /\ LoaderSpend(e).phase = e.phase /\ LoaderSpend(e).trial = t
  BY <1>5, <1>6, <1>7, EnvWithIs
<1> QED BY <1>4, <1>8 DEF t

\* A job with another state.
LEMMA WithStateIs ==
  ASSUME NEW job \in Job, NEW state \in JobStates
  PROVE  /\ WithState(job, state) \in Job
         /\ WithState(job, state).id = job.id /\ WithState(job, state).seq = job.seq
         /\ WithState(job, state).tgt = job.tgt /\ WithState(job, state).state = state
<1>1. FALSE \in BOOLEAN
  BY Zenon
<1> QED BY <1>1 DEF WithState, Job

LEMMA JobsAre ==
  /\ NoJob \in Job /\ NoJob.id = 0 /\ NoJob.state = "none" /\ NoJob.seq = 0
  /\ \A job \in Job : job.id \in JobIds /\ job.state \in JobStates /\ job.tgt \in Slots /\ job.seq \in Sequences0
  /\ \A e \in Env : e.pending \in JobIds /\ e.trial \in JobIds /\ e.seq \in Sequences0 /\ e.phase \in Phases
<1>1. FALSE \in BOOLEAN
  BY Zenon
<1> QED BY <1>1, JobsAssumption DEF Job, NoJob, JobIds, Sequences0, JobStates, Slots, Env

\* The jobs that hostd, the worker and the coordinator make.
LEMMA JobsMade ==
  ASSUME TypeOK, PendingSound
  PROVE  /\ env.pending # 0 => /\ PendingJob(env) \in Job /\ PendingJob(env).id = env.pending
                               /\ PendingJob(env).seq # 0 /\ PendingJob(env).state = "trying"
         /\ [NoJob EXCEPT !.id = env.pending] \in Job /\ [NoJob EXCEPT !.id = env.pending].id = env.pending
         /\ \A job \in Job : /\ [job EXCEPT !.act = TRUE] \in Job /\ [job EXCEPT !.act = TRUE].state = job.state
                              /\ [job EXCEPT !.act = TRUE].id = job.id /\ [job EXCEPT !.act = TRUE].seq = job.seq
         /\ \A seq \in 1..MaxSeq : jobs < MaxJobs =>
              NewJob(seq) \in Job /\ NewJob(seq).state = "queued" /\ NewJob(seq).id # 0 /\ NewJob(seq).seq = seq
<1> USE DEF TypeOK, PendingSound, PendingConsistent
<1>0. TRUE \in BOOLEAN /\ FALSE \in BOOLEAN
  BY Zenon
<1>1. env.pending # 0 => /\ PendingJob(env) \in Job /\ PendingJob(env).id = env.pending
                        /\ PendingJob(env).seq # 0 /\ PendingJob(env).state = "trying"
  BY <1>0 DEF PendingJob, Job, Env, JobStates
<1>2. [NoJob EXCEPT !.id = env.pending] \in Job /\ [NoJob EXCEPT !.id = env.pending].id = env.pending
  BY <1>0, JobsAre DEF Job, Env
<1>3. \A job \in Job : /\ [job EXCEPT !.act = TRUE] \in Job /\ [job EXCEPT !.act = TRUE].state = job.state
                       /\ [job EXCEPT !.act = TRUE].id = job.id /\ [job EXCEPT !.act = TRUE].seq = job.seq
  BY <1>0 DEF Job
<1>4. \A seq \in 1..MaxSeq : jobs < MaxJobs =>
        NewJob(seq) \in Job /\ NewJob(seq).state = "queued" /\ NewJob(seq).id # 0 /\ NewJob(seq).seq = seq
  BY <1>0, JobsAssumption DEF NewJob, Job, JobIds, Sequences0, JobStates, Working, Slots, Other
<1> QED BY <1>1, <1>2, <1>3, <1>4

RaucType == [op: {"idle", "called", "marked", "writing"}, owner: JobIds, seq: Sequences0, ok: BOOLEAN]

\* The type invariant without the environment, the programs and RAUC.
RestOK ==
  /\ journal \in Job
  /\ guard \in {"missing", "idle", "active", "pending", "reconciling"}
  /\ cancel \in JobIds
  /\ image \in [Slots -> 0..Broken]
  /\ wreq \in BOOLEAN
  /\ slot \in Slots
  /\ health \in Slots \cup {NoSlot}
  /\ reboot \in {"no", "asked", "going"}
  /\ jobs \in JobIds /\ crashes \in 0..MaxCrashes /\ ioerrs \in 0..MaxIOErrors
  /\ power \in {"loader", "erase", "up", "halted"}
  /\ sup \in {"off", "checking", "marking", "confirming", "done", "rebooting"}
  /\ appUp \in BOOLEAN
  /\ resetReq \in BOOLEAN
  /\ faults \in 0..MaxFaults
  /\ resets \in 0..MaxResets

LEMMA Booleans == TRUE \in BOOLEAN /\ FALSE \in BOOLEAN
BY Zenon

LEMMA OtherIs == Other(slot) \in Slots
BY DEF Other, Slots

LEMMA PhaseNames == {"activated", "confirming", "promoting"} \subseteq Phases
BY DEF Phases

LEMMA ProgramWith ==
  ASSUME NEW r \in [pc: PCs, job: Job, ret: PCs], NEW pc \in PCs, NEW job \in Job
  PROVE  [r EXCEPT !.pc = pc, !.job = job] \in [pc: PCs, job: Job, ret: PCs]
OBVIOUS

\* The pending job but for its phase is the same.
PhaseOnly(e, f, phase) ==
  /\ f.pending = e.pending /\ f.target = e.target /\ f.seq = e.seq /\ f.trial = e.trial
  /\ f.phase = phase

\* The steps that mark a slot leave the pending job alone.
LEMMA MarkSteps ==
  ASSUME TypeOK,
         Discard \/ RollbackBad \/ RollbackActive \/ InterruptedBad \/ WorkerFailInstall
           \/ ActivateMark \/ ConfirmMarkGood \/ RaucMarksTarget \/ SupMarkGood \/ BackToReadyBad("hostd") \/ BackToReadyBad("worker")
  PROVE  env' \in Env /\ SamePending(env, env')
<1>0. env \in Env /\ slot \in Slots /\ Other(slot) \in Slots /\ journal \in Job /\ \A p \in Programs : proc[p].job \in Job
  BY DEF TypeOK, Other, Slots
<1>1. journal.tgt \in Slots /\ \A p \in Programs : JobOf(p).tgt \in Slots
  BY <1>0, JobsAre DEF JobOf
<1>2. SamePending(env, env)
  BY DEF SamePending
<1>3. \A s \in Slots : \A f \in MarkBad(env, s) \cup {env, MarkActive(env, s), MarkGood(env, s)} : f \in Env /\ SamePending(env, f)
  BY <1>0, <1>2, MarksAre
<1> USE <1>0, <1>1, <1>3 DEF Programs
<1>4. CASE Discard
  <2>1. env' \in MarkBad(env, journal.tgt) \cup {env, MarkActive(env, journal.tgt), MarkGood(env, journal.tgt)}
    BY <1>4 DEF Discard, RaucMarksBad, Unanswered
  <2> QED BY <2>1
<1>5. CASE RollbackBad
  <2>1. env' \in MarkBad(env, JobOf("hostd").tgt) \cup {env, MarkActive(env, JobOf("hostd").tgt), MarkGood(env, JobOf("hostd").tgt)}
    BY <1>5 DEF RollbackBad, RaucMarksBad, Unanswered
  <2> QED BY <2>1
<1>6. CASE RollbackActive
  <2>1. env' \in MarkBad(env, slot) \cup {env, MarkActive(env, slot), MarkGood(env, slot)}
    BY <1>6 DEF RollbackActive, EnvBatch, Unanswered
  <2> QED BY <2>1
<1>7. CASE InterruptedBad
  <2>1. env' \in MarkBad(env, JobOf("hostd").tgt) \cup {env, MarkActive(env, JobOf("hostd").tgt), MarkGood(env, JobOf("hostd").tgt)}
    BY <1>7 DEF InterruptedBad, RaucMarksBad, Unanswered
  <2> QED BY <2>1
<1>8. CASE WorkerFailInstall
  <2>1. env' \in MarkBad(env, JobOf("worker").tgt) \cup {env, MarkActive(env, JobOf("worker").tgt), MarkGood(env, JobOf("worker").tgt)}
    BY <1>8 DEF WorkerFailInstall, RaucMarksBad, Unanswered, WorkerFinish
  <2> QED BY <2>1
<1>9. CASE ActivateMark
  <2>1. env' \in MarkBad(env, JobOf("worker").tgt) \cup {env, MarkActive(env, JobOf("worker").tgt), MarkGood(env, JobOf("worker").tgt)}
    BY <1>9 DEF ActivateMark, EnvBatch, Unanswered
  <2> QED BY <2>1
<1>10. CASE ConfirmMarkGood
  <2>1. env' \in MarkBad(env, slot) \cup {env, MarkActive(env, slot), MarkGood(env, slot)}
    BY <1>10 DEF ConfirmMarkGood, ConfirmBatch, ConfirmErrors, EnvBatch
  <2> QED BY <2>1
<1>11. CASE RaucMarksTarget
  <2>1. env' \in MarkBad(env, Other(slot)) \cup {env, MarkActive(env, Other(slot)), MarkGood(env, Other(slot))}
    BY <1>11 DEF RaucMarksTarget
  <2> QED BY <2>1
<1>12. CASE SupMarkGood
  <2>1. env' \in MarkBad(env, slot) \cup {env, MarkActive(env, slot), MarkGood(env, slot)}
    BY <1>12 DEF SupMarkGood
  <2> QED BY <2>1
<1>13. CASE BackToReadyBad("hostd")
  <2>1. env' \in MarkBad(env, JobOf("hostd").tgt) \cup {env, MarkActive(env, JobOf("hostd").tgt), MarkGood(env, JobOf("hostd").tgt)}
    BY <1>13 DEF BackToReadyBad, RaucMarksBad, Unanswered
  <2> QED BY <2>1
<1>14. CASE BackToReadyBad("worker")
  <2>1. env' \in MarkBad(env, JobOf("worker").tgt) \cup {env, MarkActive(env, JobOf("worker").tgt), MarkGood(env, JobOf("worker").tgt)}
    BY <1>14 DEF BackToReadyBad, RaucMarksBad, Unanswered
  <2> QED BY <2>1
<1> QED BY <1>4, <1>5, <1>6, <1>7, <1>8, <1>9, <1>10, <1>11, <1>12, <1>13, <1>14

\* What the batches of the programs do to the pending job.
LEMMA BatchSteps ==
  ASSUME TypeOK
  PROVE  /\ TrialClear \/ RollbackClear \/ BackToReadyClear("hostd") \/ BackToReadyClear("worker") \/ ConfirmClear
              => env' = env \/ (env'.pending = 0 /\ PendingConsistent(env'))
         /\ ActivateActivated => env' = env \/ PhaseOnly(env, env', "activated")
         /\ ConfirmIntent => env' = env \/ PhaseOnly(env, env', "confirming")
         /\ ConfirmPromote => env' = env \/ PhaseOnly(env, env', "promoting")
         /\ ActivateIntent => \/ env' = env
                              \/ /\ env'.pending = JobOf("worker").id /\ env'.target = JobOf("worker").tgt
                                 /\ env'.seq = JobOf("worker").seq /\ env'.trial = 0
                                 /\ env'.phase = "activation_intent"
<1>0. env \in Env /\ \A p \in Programs : proc[p].job \in Job
  BY DEF TypeOK
<1>1. \A p \in Programs : JobOf(p).seq \in Sequences0
  BY <1>0, JobsAre DEF JobOf
<1>2. \A phase \in Phases : PhaseOnly(env, SetPhase(env, phase), phase)
  BY <1>0 DEF SetPhase, PhaseOnly, Env
<1>3. \A seq \in Sequences0 : PhaseOnly(env, Promote(env, seq), "promoting")
  BY <1>0 DEF Promote, PhaseOnly, Env
<1>4. TrialClear => env' \in {env, ClearPending(env)}
  BY DEF TrialClear, EnvBatch
<1>5. RollbackClear => env' \in {env, ClearPending(env)}
  BY DEF RollbackClear, EnvBatch
<1>6. BackToReadyClear("hostd") => env' \in {env, ClearPending(env)}
  BY DEF BackToReadyClear, EnvBatch
<1>7. BackToReadyClear("worker") => env' \in {env, ClearPending(env)}
  BY DEF BackToReadyClear, EnvBatch
<1>8. ConfirmClear => env' \in {env, ClearPending(env)}
  BY DEF ConfirmClear, ConfirmBatch, ConfirmErrors, EnvBatch
<1>9. ActivateActivated => env' \in {env, SetPhase(env, "activated")}
  BY DEF ActivateActivated, EnvBatch
<1>10. ConfirmIntent => env' \in {env, SetPhase(env, "confirming")}
  BY DEF ConfirmIntent, ConfirmBatch, EnvBatch
<1>11. ConfirmPromote => env' \in {env, Promote(env, JobOf("confirm").seq)}
  BY DEF ConfirmPromote, ConfirmBatch, EnvBatch
<1>12. ActivateIntent => env' \in {env, ActivationIntent(env, JobOf("worker"))}
  BY DEF ActivateIntent, EnvBatch
<1>13. TrialClear \/ RollbackClear \/ BackToReadyClear("hostd") \/ BackToReadyClear("worker") \/ ConfirmClear
          => env' = env \/ (env'.pending = 0 /\ PendingConsistent(env'))
  BY <1>0, <1>4, <1>5, <1>6, <1>7, <1>8, ClearIs
<1>14. /\ ActivateActivated => env' = env \/ PhaseOnly(env, env', "activated")
       /\ ConfirmIntent => env' = env \/ PhaseOnly(env, env', "confirming")
  BY <1>2, <1>9, <1>10, PhaseNames
<1>15. ConfirmPromote => env' = env \/ PhaseOnly(env, env', "promoting")
  BY <1>1, <1>3, <1>11 DEF Programs
<1>16. ActivateIntent => \/ env' = env
                         \/ /\ env'.pending = JobOf("worker").id /\ env'.target = JobOf("worker").tgt
                            /\ env'.seq = JobOf("worker").seq /\ env'.trial = 0
                            /\ env'.phase = "activation_intent"
  <2>1. JobOf("worker") \in Job
    BY <1>0 DEF JobOf, Programs
  <2> QED BY <1>0, <1>12, <2>1, IntentIs
<1> QED BY <1>13, <1>14, <1>15, <1>16

\* What every program does when it ends a job, whichever program it is.
LEMMA EndJobTyped ==
  ASSUME TypeOK, NEW p \in Programs, EndJob(p)
  PROVE  TypeOK'
<1>1. proc[p] \in [pc: PCs, job: Job, ret: PCs] /\ JobOf(p) \in Job
  BY DEF TypeOK, JobOf
<1>2. /\ WithState(JobOf(p), "ready") \in Job /\ WithState(JobOf(p), "reconciling") \in Job
      /\ {"fin_guard", "rdy_guard", "rec_guard", proc[p].ret} \subseteq PCs
  BY <1>1, WithStateIs DEF JobStates, PCs
<1>3. journal' \in {journal, JobOf(p), WithState(JobOf(p), "ready"), WithState(JobOf(p), "reconciling")}
  BY DEF EndJob, FinishSave, FinishGuard, ReadySave, ReadyGuard, ReconcilingSave, ReconcilingGuard
<1>4. guard' \in {guard, "idle", "pending", "reconciling"}
  BY DEF EndJob, FinishSave, FinishGuard, ReadySave, ReadyGuard, ReconcilingSave, ReconcilingGuard
<1>5. \E pc \in PCs : Goto(p, pc)
  BY <1>2 DEF EndJob, FinishSave, FinishGuard, ReadySave, ReadyGuard, ReconcilingSave, ReconcilingGuard
<1>6. proc' \in [Programs -> [pc: PCs, job: Job, ret: PCs]]
  BY <1>5 DEF Goto, TypeOK
<1>7. UNCHANGED <<env, cancel, wreq, store, boot, counts>>
  BY DEF EndJob, FinishSave, FinishGuard, ReadySave, ReadyGuard, ReconcilingSave, ReconcilingGuard
<1>8. journal \in Job /\ guard \in {"missing", "idle", "active", "pending", "reconciling"}
  BY DEF TypeOK
<1>9. journal' \in Job /\ guard' \in {"missing", "idle", "active", "pending", "reconciling"}
  BY <1>1, <1>2, <1>3, <1>4, <1>8
<1> QED BY <1>6, <1>7, <1>9 DEF TypeOK, store, boot, machine, counts

\* Asking for the worker keeps the types, whether or not the request is taken.
LEMMA StartTyped ==
  ASSUME TypeOK, StartWorker
  PROVE  wreq' \in BOOLEAN /\ ioerrs' \in 0..MaxIOErrors
<1>1. wreq \in BOOLEAN /\ ioerrs \in 0..MaxIOErrors /\ MaxIOErrors \in Nat
  BY CrashAssumption DEF TypeOK
<1>2. wreq' \in BOOLEAN
  <2>1. wreq' = (wreq \/ ~WorkerActive) \/ wreq' = wreq
    BY DEF StartWorker
  <2> QED BY <1>1, <2>1
<1>3. ioerrs' \in 0..MaxIOErrors
  <2>1. ioerrs' = ioerrs \/ (ioerrs < MaxIOErrors /\ ioerrs' = ioerrs + 1)
    BY DEF StartWorker
  <2> QED BY <1>1, <2>1
<1> QED BY <1>2, <1>3

LEMMA TypeStep == BoxInv /\ [Next]_vars => TypeOK'
<1> SUFFICES ASSUME TypeOK, PendingSound, [Next]_vars PROVE TypeOK'
  BY DEF BoxInv
<1> USE JobsAssumption, CrashAssumption, FaultAssumption
    DEF TypeOK, At, Goto, Call, JobOf, Programs, Off, RaucIdle, PCs, files, store, machine, boot, counts, session,
        JobStates, Terminal, Working, Resumable, WorkerActive, RaucType, RestOK
<1>98. /\ WithState(JobOf("worker"), "failed") \in Job
       /\ WithState(JobOf("worker"), "cancelled") \in Job
       /\ WithState(JobOf("worker"), "downloading") \in Job
  BY WithStateIs
<1>99. /\ WithState(JobOf("hostd"), "failed") \in Job
       /\ WithState(JobOf("hostd"), "trying") \in Job
       /\ WithState(JobOf("hostd"), "rolled_back") \in Job
  BY WithStateIs
<1>1. ASSUME NEW seq \in 1..MaxSeq, Install(seq) PROVE TypeOK'
  <2>1. jobs < MaxJobs /\ cancel' = 0 /\ UNCHANGED <<env, guard, proc, store, boot, crashes>>
    BY <1>1 DEF Install
  <2>2. journal' \in Job
    BY <1>1, <2>1, JobsMade DEF Install
  <2>3. jobs' \in JobIds /\ cancel' \in JobIds
    BY <1>1, <2>1 DEF Install, JobIds
  <2>4. wreq' \in BOOLEAN /\ ioerrs' \in 0..MaxIOErrors
    <3>1. StartWorker \/ (ioerrs < MaxIOErrors /\ ioerrs' = ioerrs + 1 /\ UNCHANGED wreq)
      BY <1>1 DEF Install
    <3> QED BY <3>1, StartTyped
  <2> QED BY <2>1, <2>2, <2>3, <2>4
<1>2. CASE Cancel
  BY <1>2, JobsAre DEF Cancel
<1>3. CASE CancelCheck
  BY <1>3, WithStateIs DEF CancelCheck
<1>4. CASE Dismiss
  BY <1>4, JobsAre DEF Dismiss
<1>5. CASE View
  BY <1>5 DEF View, Serving
<1>6. CASE Restart
  <2>1. wreq' \in BOOLEAN /\ ioerrs' \in 0..MaxIOErrors
    BY <1>6, StartTyped DEF Restart
  <2>2. journal' \in Job /\ UNCHANGED <<env, guard, cancel, proc, store, boot, jobs, crashes>>
    BY <1>6, WithStateIs DEF Restart
  <2> QED BY <2>1, <2>2
<1>7. CASE Discard
  <2>1. env' \in Env
    BY <1>7, MarkSteps
  <2>2. proc' \in [Programs -> [pc: PCs, job: Job, ret: PCs]]
    BY <1>7, WithStateIs DEF Discard, RaucMarksBad, Unanswered
  <2>3. rauc' \in RaucType
    BY <1>7 DEF Discard, RaucMarksBad, Unanswered, JobIds, Sequences0
  <2>4. RestOK'
    BY <1>7 DEF Discard, RaucMarksBad, Unanswered
  <2> QED BY <2>1, <2>2, <2>3, <2>4
<1>8. CASE ReconcileCarriesOn
  BY <1>8 DEF ReconcileCarriesOn, WorkerCarriesOn
<1>9. CASE ReconcileNoPending
  <2>1. env' \in Env
    BY <1>9 DEF ReconcileNoPending, WorkerCarriesOn, ReconcileJournal, GuardFor, StartWorker
  <2>2. proc' \in [Programs -> [pc: PCs, job: Job, ret: PCs]]
    BY <1>9, WithStateIs DEF ReconcileNoPending, WorkerCarriesOn, ReconcileJournal, GuardFor, StartWorker
  <2>3. rauc' \in RaucType
    BY <1>9 DEF ReconcileNoPending, WorkerCarriesOn, ReconcileJournal, GuardFor, StartWorker,
      JobIds, Sequences0
  <2>4. RestOK'
    <3>1. guard' \in {"missing", "idle", "active", "pending", "reconciling"}
      BY <1>9 DEF ReconcileNoPending, ReconcileJournal, GuardFor
    <3>2. wreq' \in BOOLEAN /\ ioerrs' \in 0..MaxIOErrors
      <4>1. StartWorker \/ UNCHANGED <<wreq, ioerrs>>
        BY <1>9 DEF ReconcileNoPending, ReconcileJournal
      <4> QED BY <4>1, StartTyped
    <3>3. UNCHANGED <<journal, cancel, image, slot, health, reboot, jobs, crashes, power, sup, appUp, resetReq, faults, resets>>
      BY <1>9 DEF ReconcileNoPending
    <3> QED BY <3>1, <3>2, <3>3
  <2> QED BY <2>1, <2>2, <2>3, <2>4
<1>10. CASE ReconcilePending
  <2>1. env.pending # 0 /\ UNCHANGED <<env, guard, cancel, wreq, store, boot, counts>>
    BY <1>10 DEF ReconcilePending
  <2>2. Rebuilt(PendingJob(env), journal) \in Job /\ journal \in Job
    BY <2>1, JobsMade DEF Rebuilt
  <2>3. journal' \in {journal, Rebuilt(PendingJob(env), journal)}
    BY <1>10 DEF ReconcilePending
  <2>4. CASE NeverTried
    BY <1>10, <2>2, <2>4 DEF ReconcilePending
  <2>5. CASE ~NeverTried
    <3>1. \A job \in Job, pc \in {"try_clear", "try_save", "rb_bad", "int_bad"} :
            \A ret \in {"begin", "rb_active", "rb_finish"} :
              Call("hostd", pc, job, ret)
                => proc' \in [Programs -> [pc: PCs, job: Job, ret: PCs]]
      OBVIOUS
    <3> HIDE DEF Call
    <3> DEFINE J == Rebuilt(PendingJob(env), journal)
    <3>2. \E pc \in {"try_clear", "try_save", "rb_bad", "int_bad"} :
            \E ret \in {"begin", "rb_active", "rb_finish"} : Call("hostd", pc, J, ret)
      BY <1>10, <2>5 DEF ReconcilePending
    <3>3. J \in Job
      BY <2>2
    <3> HIDE DEF J, PCs, TypeOK
    <3>4. proc' \in [Programs -> [pc: PCs, job: Job, ret: PCs]]
      BY <3>1, <3>2, <3>3
    <3> QED BY <2>1, <2>2, <2>3, <3>4 DEF TypeOK, PCs
  <2> QED BY <2>4, <2>5
<1>11. CASE TrialClear
  BY <1>11, ClearIs DEF TrialClear, EnvBatch
<1>12. CASE TrialIdle
  BY <1>12 DEF TrialIdle
<1>13. CASE TrialSave
  BY <1>13, <1>99 DEF TrialSave
<1>14. CASE TrialGuard
  BY <1>14 DEF TrialGuard
<1>15. CASE RollbackBad
  <2>1. env' \in Env
    BY <1>15, MarkSteps
  <2>2. proc' \in [Programs -> [pc: PCs, job: Job, ret: PCs]]
    BY <1>15 DEF RollbackBad, RaucMarksBad, Unanswered
  <2>3. rauc' \in RaucType
    BY <1>15 DEF RollbackBad, RaucMarksBad, Unanswered, JobIds, Sequences0
  <2>4. RestOK'
    BY <1>15 DEF RollbackBad, RaucMarksBad, Unanswered
  <2> QED BY <2>1, <2>2, <2>3, <2>4
<1>16. CASE RollbackActive
  <2>1. env' \in Env
    BY <1>16, MarkSteps
  <2>2. proc' \in [Programs -> [pc: PCs, job: Job, ret: PCs]]
    BY <1>16 DEF RollbackActive, EnvBatch, Unanswered
  <2>3. rauc' \in RaucType
    BY <1>16 DEF RollbackActive, EnvBatch, Unanswered, JobIds, Sequences0
  <2>4. RestOK'
    BY <1>16 DEF RollbackActive, EnvBatch, Unanswered
  <2> QED BY <2>1, <2>2, <2>3, <2>4
<1>17. CASE RollbackFinish
  BY <1>17, <1>99 DEF RollbackFinish
<1>18. CASE RollbackClear
  BY <1>18, ClearIs DEF RollbackClear, EnvBatch
<1>19. CASE InterruptedBad
  <2>1. env' \in Env
    BY <1>19, MarkSteps
  <2>2. proc' \in [Programs -> [pc: PCs, job: Job, ret: PCs]]
    BY <1>19, <1>99 DEF InterruptedBad, RaucMarksBad, Unanswered
  <2>3. rauc' \in RaucType
    BY <1>19 DEF InterruptedBad, RaucMarksBad, Unanswered, JobIds, Sequences0
  <2>4. RestOK'
    BY <1>19 DEF InterruptedBad, RaucMarksBad, Unanswered
  <2> QED BY <2>1, <2>2, <2>3, <2>4
<1>20. CASE HostdServes
  BY <1>20, JobsAre DEF HostdServes
<1>21. CASE WorkerBegin
  <2>1. env' \in Env
    BY <1>21 DEF WorkerBegin
  <2>2. proc' \in [Programs -> [pc: PCs, job: Job, ret: PCs]]
    BY <1>21, JobsAre DEF WorkerBegin
  <2>3. rauc' \in RaucType
    BY <1>21 DEF WorkerBegin, JobIds, Sequences0
  <2>4. wreq' \in BOOLEAN /\ UNCHANGED <<files, store, boot, counts>>
    BY <1>21 DEF WorkerBegin
  <2> QED BY <2>1, <2>2, <2>3, <2>4
<1>22. CASE WorkerReads
  BY <1>22 DEF WorkerReads
<1>23. CASE WorkerStarts
  BY <1>23, <1>98 DEF WorkerStarts, WorkerFinish, CancelSeen
<1>24. CASE WorkerLease
  <2>1. proc' \in [Programs -> [pc: PCs, job: Job, ret: PCs]]
    BY <1>24, <1>98 DEF WorkerLease, WorkerFinish
  <2>2. UNCHANGED <<env, files, wreq, store, boot, counts>>
    BY <1>24 DEF WorkerLease
  <2> QED BY <2>1, <2>2
<1>25. CASE WorkerGuard
  <2>1. proc' \in [Programs -> [pc: PCs, job: Job, ret: PCs]]
    BY <1>25 DEF WorkerGuard
  <2>2. guard' = "active" /\ UNCHANGED <<env, journal, cancel, wreq, store, boot, counts>>
    BY <1>25 DEF WorkerGuard
  <2> QED BY <2>1, <2>2
<1>26. CASE WorkerWork
  BY <1>26, <1>98 DEF WorkerWork, WorkerFinish
<1>27. CASE WorkerDownload
  BY <1>27, <1>98 DEF WorkerDownload, WorkerFinish, CancelSeen, RebootPromised
<1>28. CASE WorkerVerifying
  <2>1. env' \in Env
    BY <1>28 DEF WorkerVerifying
  <2>2. proc' \in [Programs -> [pc: PCs, job: Job, ret: PCs]]
    <3>1. WithState(proc["worker"].job, "verifying") \in Job
      BY WithStateIs
    <3>2. proc' = [proc EXCEPT !["worker"] = [proc["worker"] EXCEPT !.pc = "checkcancel",
                                                !.job = WithState(proc["worker"].job, "verifying")]]
      BY <1>28 DEF WorkerVerifying
    <3>3. [proc["worker"] EXCEPT !.pc = "checkcancel", !.job = WithState(proc["worker"].job, "verifying")] \in [pc: PCs, job: Job, ret: PCs]
      <4>1. proc["worker"] \in [pc: PCs, job: Job, ret: PCs] /\ "checkcancel" \in PCs
        OBVIOUS
      <4> HIDE DEF PCs, TypeOK, JobStates
      <4> QED BY <3>1, <4>1
    <3> QED BY <3>2, <3>3
  <2>3. rauc' \in RaucType
    BY <1>28 DEF WorkerVerifying, JobIds, Sequences0
  <2>4. RestOK'
    BY <1>28 DEF WorkerVerifying
  <2> QED BY <2>1, <2>2, <2>3, <2>4
<1>29. CASE WorkerCheckCancel
  BY <1>29, <1>98 DEF WorkerCheckCancel, WorkerFinish, CancelSeen
<1>30. CASE WorkerIdentity
  BY <1>30, JobsAre, <1>98 DEF WorkerIdentity, WorkerFinish
<1>31. CASE WorkerInstalling
  <2>1. env' \in Env
    BY <1>31 DEF WorkerInstalling
  <2>2. proc' \in [Programs -> [pc: PCs, job: Job, ret: PCs]]
    <3>1. WithState(proc["worker"].job, "installing") \in Job
      BY WithStateIs
    <3>2. proc' = [proc EXCEPT !["worker"] = [proc["worker"] EXCEPT !.pc = "callrauc",
                                                !.job = WithState(proc["worker"].job, "installing")]]
      BY <1>31 DEF WorkerInstalling
    <3>3. [proc["worker"] EXCEPT !.pc = "callrauc", !.job = WithState(proc["worker"].job, "installing")] \in [pc: PCs, job: Job, ret: PCs]
      <4>1. proc["worker"] \in [pc: PCs, job: Job, ret: PCs] /\ "callrauc" \in PCs
        OBVIOUS
      <4> HIDE DEF PCs, TypeOK, JobStates
      <4> QED BY <3>1, <4>1
    <3> QED BY <3>2, <3>3
  <2>3. rauc' \in RaucType
    BY <1>31 DEF WorkerInstalling, JobIds, Sequences0
  <2>4. RestOK'
    BY <1>31 DEF WorkerInstalling
  <2> QED BY <2>1, <2>2, <2>3, <2>4
<1>32. CASE WorkerCallsRauc
  <2>1. env' \in Env
    BY <1>32 DEF WorkerCallsRauc
  <2>2. proc' \in [Programs -> [pc: PCs, job: Job, ret: PCs]]
    BY <1>32 DEF WorkerCallsRauc
  <2>3. rauc' \in RaucType
    <3>1. JobOf("worker").seq \in Sequences0
      BY JobsAre
    <3>2. rauc' = [op |-> "called", owner |-> rauc.owner, seq |-> JobOf("worker").seq, ok |-> FALSE]
      BY <1>32 DEF WorkerCallsRauc
    <3> QED BY <3>1, <3>2
  <2>4. RestOK'
    BY <1>32 DEF WorkerCallsRauc, Broken, Sequences0, Slots, Other
  <2> QED BY <2>1, <2>2, <2>3, <2>4
<1>33. CASE WorkerRaucDone
  <2>1. proc' \in [Programs -> [pc: PCs, job: Job, ret: PCs]]
    BY <1>33 DEF WorkerRaucDone
  <2>2. journal' \in {journal, JobOf("worker")} /\ UNCHANGED <<env, guard, cancel, wreq, store, boot, counts>>
    BY <1>33 DEF WorkerRaucDone
  <2> QED BY <2>1, <2>2
<1>34. CASE WorkerCompleteInstall
  BY <1>34 DEF WorkerCompleteInstall
<1>35. CASE WorkerFailInstall
  <2>1. env' \in Env
    BY <1>35, MarkSteps
  <2>2. proc' \in [Programs -> [pc: PCs, job: Job, ret: PCs]]
    BY <1>35, <1>98 DEF WorkerFailInstall, RaucMarksBad, Unanswered, WorkerFinish
  <2>3. rauc' \in RaucType
    BY <1>35 DEF WorkerFailInstall, RaucMarksBad, Unanswered, WorkerFinish, JobIds, Sequences0
  <2>4. RestOK'
    BY <1>35 DEF WorkerFailInstall, RaucMarksBad, Unanswered, WorkerFinish
  <2> QED BY <2>1, <2>2, <2>3, <2>4
<1>36. CASE WorkerReconcileInstall
  BY <1>36 DEF WorkerReconcileInstall
<1>37. CASE ActivateBegin
  BY <1>37 DEF ActivateBegin, Admissible, TargetVerified
<1>38. CASE ActivateIntent
  <2>1. env' \in Env
    <3>1. env' \in {env, ActivationIntent(env, JobOf("worker"))}
      BY <1>38 DEF ActivateIntent, EnvBatch
    <3>2. ActivationIntent(env, JobOf("worker")) \in Env
      BY IntentIs
    <3> QED BY <3>1, <3>2
  <2>2. proc' \in [Programs -> [pc: PCs, job: Job, ret: PCs]]
    BY <1>38 DEF ActivateIntent, EnvBatch
  <2>3. rauc' \in RaucType
    BY <1>38 DEF ActivateIntent, EnvBatch, JobIds, Sequences0
  <2>4. RestOK'
    BY <1>38 DEF ActivateIntent, EnvBatch
  <2> QED BY <2>1, <2>2, <2>3, <2>4
<1>39. CASE ActivateMark
  <2>1. env' \in Env
    <3>1. env' \in {env, MarkActive(env, JobOf("worker").tgt)}
      BY <1>39 DEF ActivateMark, EnvBatch, Unanswered
    <3>2. MarkActive(env, JobOf("worker").tgt) \in Env
      BY MarksAre, JobsAre
    <3> QED BY <3>1, <3>2
  <2>2. proc' \in [Programs -> [pc: PCs, job: Job, ret: PCs]]
    BY <1>39 DEF ActivateMark, EnvBatch, Unanswered
  <2>3. rauc' \in RaucType
    BY <1>39 DEF ActivateMark, EnvBatch, Unanswered, JobIds, Sequences0
  <2>4. RestOK'
    BY <1>39 DEF ActivateMark, EnvBatch, Unanswered
  <2> QED BY <2>1, <2>2, <2>3, <2>4
<1>40. CASE ActivateActivated
  <2>1. env' \in Env
    <3>1. env' \in {env, SetPhase(env, "activated")}
      BY <1>40 DEF ActivateActivated, EnvBatch
    <3>2. SetPhase(env, "activated") \in Env
      BY PhaseIs, PhaseNames
    <3> QED BY <3>1, <3>2
  <2>2. proc' \in [Programs -> [pc: PCs, job: Job, ret: PCs]]
    BY <1>40 DEF ActivateActivated, EnvBatch
  <2>3. rauc' \in RaucType
    BY <1>40 DEF ActivateActivated, EnvBatch, JobIds, Sequences0
  <2>4. RestOK'
    BY <1>40 DEF ActivateActivated, EnvBatch
  <2> QED BY <2>1, <2>2, <2>3, <2>4
<1>41. CASE ActivateSave
  <2>1. journal' \in Job
    BY <1>41, JobsMade DEF ActivateSave
  <2>2. proc' \in [Programs -> [pc: PCs, job: Job, ret: PCs]]
    BY <1>41 DEF ActivateSave
  <2>3. UNCHANGED <<env, guard, cancel, wreq, store, boot, counts>>
    BY <1>41 DEF ActivateSave
  <2> QED BY <2>1, <2>2, <2>3
<1>42. CASE ActivateReboot
  BY <1>42 DEF ActivateReboot
<1>43. CASE WorkerExit
  BY <1>43, JobsAre DEF WorkerExit
<1>44. CASE ConfirmBegin
  <2>1. env' \in Env
    BY <1>44 DEF ConfirmBegin, IsTrialOf
  <2>2. proc' \in [Programs -> [pc: PCs, job: Job, ret: PCs]]
    BY <1>44, JobsMade DEF ConfirmBegin, IsTrialOf, TrialPhases
  <2>3. rauc' \in RaucType
    BY <1>44 DEF ConfirmBegin, IsTrialOf, JobIds, Sequences0
  <2>4. RestOK'
    BY <1>44 DEF ConfirmBegin, IsTrialOf
  <2> QED BY <2>1, <2>2, <2>3, <2>4
<1>45. CASE ConfirmIntent
  <2>1. env' \in Env
    <3>1. env' \in {env, SetPhase(env, "confirming")}
      BY <1>45 DEF ConfirmIntent, ConfirmBatch, EnvBatch
    <3>2. SetPhase(env, "confirming") \in Env
      BY PhaseIs, PhaseNames
    <3> QED BY <3>1, <3>2
  <2>2. proc' \in [Programs -> [pc: PCs, job: Job, ret: PCs]]
    BY <1>45 DEF ConfirmIntent, ConfirmBatch, ConfirmErrors, EnvBatch
  <2>3. rauc' \in RaucType
    BY <1>45 DEF ConfirmIntent, ConfirmBatch, ConfirmErrors, EnvBatch, JobIds, Sequences0
  <2>4. RestOK'
    BY <1>45 DEF ConfirmIntent, ConfirmBatch, ConfirmErrors, EnvBatch
  <2> QED BY <2>1, <2>2, <2>3, <2>4
<1>46. CASE ConfirmMarkGood
  <2>1. env' \in Env
    BY <1>46, MarkSteps
  <2>2. proc' \in [Programs -> [pc: PCs, job: Job, ret: PCs]]
    BY <1>46 DEF ConfirmMarkGood, ConfirmBatch, ConfirmErrors, EnvBatch
  <2>3. rauc' \in RaucType
    BY <1>46 DEF ConfirmMarkGood, ConfirmBatch, ConfirmErrors, EnvBatch, JobIds, Sequences0
  <2>4. RestOK'
    BY <1>46 DEF ConfirmMarkGood, ConfirmBatch, ConfirmErrors, EnvBatch
  <2> QED BY <2>1, <2>2, <2>3, <2>4
<1>47. CASE ConfirmPromote
  <2>1. env' \in Env
    <3>1. env' \in {env, Promote(env, JobOf("confirm").seq)}
      BY <1>47 DEF ConfirmPromote, ConfirmBatch, EnvBatch
    <3>2. Promote(env, JobOf("confirm").seq) \in Env
      BY PhaseIs, JobsAre
    <3> QED BY <3>1, <3>2
  <2>2. proc' \in [Programs -> [pc: PCs, job: Job, ret: PCs]]
    BY <1>47 DEF ConfirmPromote, ConfirmBatch, ConfirmErrors, EnvBatch
  <2>3. rauc' \in RaucType
    BY <1>47 DEF ConfirmPromote, ConfirmBatch, ConfirmErrors, EnvBatch, JobIds, Sequences0
  <2>4. RestOK'
    BY <1>47 DEF ConfirmPromote, ConfirmBatch, ConfirmErrors, EnvBatch
  <2> QED BY <2>1, <2>2, <2>3, <2>4
<1>48. CASE ConfirmJournal
  <2>1. Rebuilt(JobOf("confirm"), journal) \in Job /\ "confirmed" \in JobStates
    BY DEF Rebuilt, JobStates, Terminal
  <2>2. /\ journal' \in Job
        /\ proc' \in [Programs -> [pc: PCs, job: Job, ret: PCs]]
    BY <1>48, <2>1, WithStateIs DEF ConfirmJournal, ConfirmErrors
  <2>3. UNCHANGED <<env, guard, cancel, wreq, store, boot, counts>>
    BY <1>48 DEF ConfirmJournal
  <2> QED BY <2>2, <2>3
<1>49. CASE ConfirmClear
  BY <1>49, ClearIs DEF ConfirmClear, ConfirmBatch, ConfirmErrors, EnvBatch
<1>50. CASE RaucMarksTarget
  <2>1. env' \in Env
    BY <1>50, MarkSteps
  <2>2. proc' \in [Programs -> [pc: PCs, job: Job, ret: PCs]]
    BY <1>50 DEF RaucMarksTarget
  <2>3. rauc' \in RaucType
    BY <1>50 DEF RaucMarksTarget, JobIds, Sequences0
  <2>4. RestOK'
    BY <1>50 DEF RaucMarksTarget
  <2> QED BY <2>1, <2>2, <2>3, <2>4
<1>51. CASE RaucWrites
  <2>1. env' \in Env
    BY <1>51 DEF RaucWrites
  <2>2. proc' \in [Programs -> [pc: PCs, job: Job, ret: PCs]]
    BY <1>51 DEF RaucWrites
  <2>3. rauc' \in RaucType
    BY <1>51 DEF RaucWrites, JobIds, Sequences0
  <2>4. RestOK'
    BY <1>51 DEF RaucWrites, Broken, Sequences0, Slots, Other
  <2> QED BY <2>1, <2>2, <2>3, <2>4
<1>52. CASE RaucEnds
  <2>1. env' \in Env
    BY <1>52 DEF RaucEnds
  <2>2. proc' \in [Programs -> [pc: PCs, job: Job, ret: PCs]]
    BY <1>52 DEF RaucEnds
  <2>3. rauc' \in RaucType
    BY <1>52 DEF RaucEnds, JobIds, Sequences0
  <2>4. RestOK'
    BY <1>52 DEF RaucEnds, Broken, Sequences0, Slots, Other
  <2> QED BY <2>1, <2>2, <2>3, <2>4
<1>53. CASE RaucFails
  <2>1. env' \in Env
    BY <1>53 DEF RaucFails
  <2>2. proc' \in [Programs -> [pc: PCs, job: Job, ret: PCs]]
    BY <1>53 DEF RaucFails
  <2>3. rauc' \in RaucType
    BY <1>53 DEF RaucFails, JobIds, Sequences0
  <2>4. RestOK'
    BY <1>53 DEF RaucFails
  <2> QED BY <2>1, <2>2, <2>3, <2>4
<1>54. CASE PowerCut
  <2>1. env' \in Env
    BY <1>54 DEF PowerCut, LosePower
  <2>2. proc' \in [Programs -> [pc: PCs, job: Job, ret: PCs]]
    BY <1>54, JobsAre DEF PowerCut, LosePower
  <2>3. rauc' \in RaucType
    BY <1>54 DEF PowerCut, LosePower, JobIds, Sequences0
  <2>4. RestOK'
    <3>1. wreq' \in BOOLEAN /\ appUp' \in BOOLEAN
      BY <1>54 DEF PowerCut, LosePower
    <3>2. faults' \in 0..MaxFaults
      BY <1>54 DEF PowerCut, LosePower
    <3> QED BY <1>54, <3>1, <3>2 DEF PowerCut, LosePower
  <2> QED BY <2>1, <2>2, <2>3, <2>4
<1>55. CASE Reboot
  <2>1. env' \in Env
    BY <1>55 DEF Reboot, LosePower
  <2>2. proc' \in [Programs -> [pc: PCs, job: Job, ret: PCs]]
    BY <1>55, JobsAre DEF Reboot, LosePower
  <2>3. rauc' \in RaucType
    BY <1>55 DEF Reboot, LosePower, JobIds, Sequences0
  <2>4. RestOK'
    <3>1. wreq' \in BOOLEAN /\ appUp' \in BOOLEAN
      BY <1>55 DEF Reboot, LosePower
    <3>2. faults' \in 0..MaxFaults
      BY <1>55 DEF Reboot, LosePower
    <3> QED BY <1>55, <3>1, <3>2 DEF Reboot, LosePower
  <2> QED BY <2>1, <2>2, <2>3, <2>4
<1>56. CASE LoaderBoots
  BY <1>56, LoaderIs DEF LoaderBoots
<1>57. CASE LoaderStops
  BY <1>57 DEF LoaderStops
<1>58. CASE EraseData
  <2>1. env' \in Env
    BY <1>58 DEF EraseData
  <2>2. proc' \in [Programs -> [pc: PCs, job: Job, ret: PCs]]
    BY <1>58 DEF EraseData
  <2>3. rauc' \in RaucType
    BY <1>58 DEF EraseData, JobIds, Sequences0
  <2>4. RestOK'
    BY <1>58, JobsAre DEF EraseData, JobIds
  <2> QED BY <2>1, <2>2, <2>3, <2>4
<1>59. CASE PhysicalReset
  BY <1>59 DEF PhysicalReset
<1>60. CASE HostdStarts
  BY <1>60, JobsAre DEF HostdStarts
<1>61. CASE AppStarts
  BY <1>61 DEF AppStarts
<1>62. CASE AdminReboot
  BY <1>62 DEF AdminReboot
<1>63. CASE FactoryReset
  BY <1>63 DEF FactoryReset
<1>64. CASE RebootGoes
  BY <1>64 DEF RebootGoes
<1>65. CASE SupHealthy
  BY <1>65, JobsMade DEF SupHealthy, OnTrial, IsTrialOf
<1>66. CASE SupUnreadable
  BY <1>66 DEF SupUnreadable
<1>67. CASE SupMarkGood
  <2>1. env' \in Env
    BY <1>67, MarkSteps
  <2>2. proc' \in [Programs -> [pc: PCs, job: Job, ret: PCs]]
    BY <1>67 DEF SupMarkGood
  <2>3. rauc' \in RaucType
    BY <1>67 DEF SupMarkGood, JobIds, Sequences0
  <2>4. RestOK'
    BY <1>67 DEF SupMarkGood
  <2> QED BY <2>1, <2>2, <2>3, <2>4
<1>68. CASE SupConfirmed
  BY <1>68, JobsAre DEF SupConfirmed
<1>69. CASE SupDeadline
  BY <1>69 DEF SupDeadline
<1>70. CASE HostdKilled
  BY <1>70, JobsAre DEF HostdKilled, Killed
<1>71. CASE WorkerKilled
  BY <1>71, JobsAre DEF WorkerKilled, Killed
<1>72. CASE ConfirmKilled
  BY <1>72, JobsAre DEF ConfirmKilled, Killed
<1>73. CASE SupKilled
  BY <1>73, JobsAre DEF SupKilled
<1>74. CASE RaucKilled
  <2>1. env' \in Env
    BY <1>74 DEF RaucKilled
  <2>2. proc' \in [Programs -> [pc: PCs, job: Job, ret: PCs]]
    BY <1>74 DEF RaucKilled
  <2>3. rauc' \in RaucType
    <3>1. rauc' = [op |-> "idle", owner |-> 0, seq |-> 0, ok |-> FALSE]
      BY <1>74 DEF RaucKilled
    <3> QED BY <3>1 DEF JobIds, Sequences0
  <2>4. RestOK'
    BY <1>74 DEF RaucKilled
  <2> QED BY <2>1, <2>2, <2>3, <2>4
<1>75. CASE FinishSave("hostd")
  BY <1>75, EndJobTyped DEF EndJob
<1>76. CASE FinishGuard("hostd")
  BY <1>76, EndJobTyped DEF EndJob
<1>77. CASE ReadySave("hostd")
  BY <1>77, EndJobTyped DEF EndJob
<1>78. CASE ReadyGuard("hostd")
  BY <1>78, EndJobTyped DEF EndJob
<1>79. CASE ReconcilingSave("hostd")
  BY <1>79, EndJobTyped DEF EndJob
<1>80. CASE ReconcilingGuard("hostd")
  BY <1>80, EndJobTyped DEF EndJob
<1>81. CASE FinishSave("worker")
  BY <1>81, EndJobTyped DEF EndJob
<1>82. CASE FinishGuard("worker")
  BY <1>82, EndJobTyped DEF EndJob
<1>83. CASE ReadySave("worker")
  BY <1>83, EndJobTyped DEF EndJob
<1>84. CASE ReadyGuard("worker")
  BY <1>84, EndJobTyped DEF EndJob
<1>85. CASE ReconcilingSave("worker")
  BY <1>85, EndJobTyped DEF EndJob
<1>86. CASE ReconcilingGuard("worker")
  BY <1>86, EndJobTyped DEF EndJob
<1>87. CASE FinishSave("confirm")
  BY <1>87, EndJobTyped DEF EndJob
<1>88. CASE FinishGuard("confirm")
  BY <1>88, EndJobTyped DEF EndJob
<1>89. CASE ReadySave("confirm")
  BY <1>89, EndJobTyped DEF EndJob
<1>90. CASE ReadyGuard("confirm")
  BY <1>90, EndJobTyped DEF EndJob
<1>91. CASE ReconcilingSave("confirm")
  BY <1>91, EndJobTyped DEF EndJob
<1>92. CASE ReconcilingGuard("confirm")
  BY <1>92, EndJobTyped DEF EndJob
<1>93. CASE BackToReadyBad("hostd")
  <2>1. env' \in Env
    BY <1>93, MarkSteps
  <2>2. proc' \in [Programs -> [pc: PCs, job: Job, ret: PCs]]
    BY <1>93 DEF BackToReadyBad, RaucMarksBad, Unanswered
  <2>3. rauc' \in RaucType
    BY <1>93 DEF BackToReadyBad, RaucMarksBad, Unanswered, JobIds, Sequences0
  <2>4. RestOK'
    BY <1>93 DEF BackToReadyBad, RaucMarksBad, Unanswered
  <2> QED BY <2>1, <2>2, <2>3, <2>4
<1>94. CASE BackToReadyClear("hostd")
  BY <1>94, ClearIs DEF BackToReadyClear, EnvBatch
<1>95. CASE BackToReadyBad("worker")
  <2>1. env' \in Env
    BY <1>95, MarkSteps
  <2>2. proc' \in [Programs -> [pc: PCs, job: Job, ret: PCs]]
    BY <1>95 DEF BackToReadyBad, RaucMarksBad, Unanswered
  <2>3. rauc' \in RaucType
    BY <1>95 DEF BackToReadyBad, RaucMarksBad, Unanswered, JobIds, Sequences0
  <2>4. RestOK'
    BY <1>95 DEF BackToReadyBad, RaucMarksBad, Unanswered
  <2> QED BY <2>1, <2>2, <2>3, <2>4
<1>96. CASE BackToReadyClear("worker")
  BY <1>96, ClearIs DEF BackToReadyClear, EnvBatch
<1>97. CASE UNCHANGED vars
  BY <1>97 DEF vars
<1> HIDE DEF TypeOK
<1>100. HostdStep => TypeOK'
  BY <1>1, <1>2, <1>3, <1>4, <1>5, <1>6, <1>7, <1>8, <1>9, <1>10, <1>11, <1>12, <1>13, <1>14,
     <1>15, <1>16, <1>17, <1>18, <1>19, <1>20, <1>75, <1>76, <1>77, <1>78, <1>79, <1>80, <1>93,
     <1>94
  DEF HostdStep, EndJob, BackToReady
<1>101. WorkerStep => TypeOK'
  BY <1>21, <1>22, <1>23, <1>24, <1>25, <1>26, <1>27, <1>28, <1>29, <1>30, <1>31, <1>32, <1>33,
     <1>34, <1>35, <1>36, <1>37, <1>38, <1>39, <1>40, <1>41, <1>42, <1>43, <1>81, <1>82, <1>83,
     <1>84, <1>85, <1>86, <1>95, <1>96
  DEF WorkerStep, EndJob, BackToReady
<1>102. ConfirmStep => TypeOK'
  BY <1>44, <1>45, <1>46, <1>47, <1>48, <1>49, <1>87, <1>88, <1>89, <1>90, <1>91, <1>92
  DEF ConfirmStep, EndJob
<1>103. RaucStep => TypeOK'
  BY <1>50, <1>51, <1>52, <1>53
  DEF RaucStep
<1>104. MachineStep => TypeOK'
  BY <1>54, <1>55, <1>56, <1>57, <1>58, <1>59, <1>60, <1>61, <1>62, <1>63, <1>64, <1>65, <1>66,
     <1>67, <1>68, <1>69, <1>70, <1>71, <1>72, <1>73, <1>74
  DEF MachineStep
<1> QED BY <1>97, <1>100, <1>101, <1>102, <1>103, <1>104 DEF Next

-----------------------------------------------------------------------------
(* Every step keeps the invariant, part by part.                           *)

ProcType == [Programs -> [pc: PCs, job: Job, ret: PCs]]

LEMMA PlaceStep == BoxInv /\ [Next]_vars => PlaceInv'
<1> SUFFICES ASSUME proc \in ProcType, PlaceInv, [Next]_vars PROVE PlaceInv'
  BY DEF BoxInv, TypeOK, ProcType
<1> USE DEF ProcType, PlaceInv, WorkerPCs, HostdPCs, ConfirmPCs, At, Goto, Call, JobOf, Programs, Off
<1>1. ASSUME NEW seq \in 1..MaxSeq, Install(seq) PROVE PlaceInv'
  BY <1>1 DEF Install, NoOpenJob, Admissible, Healthy, NewJob, StartWorker
<1>2. CASE Cancel
  BY <1>2 DEF Cancel
<1>3. CASE CancelCheck
  BY <1>3 DEF CancelCheck
<1>4. CASE Dismiss
  BY <1>4 DEF Dismiss
<1>5. CASE View
  BY <1>5 DEF View, Serving
<1>6. CASE Restart
  BY <1>6 DEF Restart, StartWorker
<1>7. CASE Discard
  BY <1>7 DEF Discard, RaucMarksBad, Unanswered
<1>8. CASE ReconcileCarriesOn
  BY <1>8 DEF ReconcileCarriesOn, WorkerCarriesOn
<1>9. CASE ReconcileNoPending
  BY <1>9 DEF ReconcileNoPending, WorkerCarriesOn, ReconcileJournal, GuardFor, StartWorker
<1>10. CASE ReconcilePending
  BY <1>10 DEF ReconcilePending, WorkerCarriesOn, NeverTried, Rebuilt
<1>11. CASE TrialClear
  BY <1>11 DEF TrialClear, EnvBatch
<1>12. CASE TrialIdle
  BY <1>12 DEF TrialIdle
<1>13. CASE TrialSave
  BY <1>13 DEF TrialSave
<1>14. CASE TrialGuard
  BY <1>14 DEF TrialGuard
<1>15. CASE RollbackBad
  BY <1>15 DEF RollbackBad, RaucMarksBad, Unanswered
<1>16. CASE RollbackActive
  BY <1>16 DEF RollbackActive, EnvBatch, Unanswered
<1>17. CASE RollbackFinish
  BY <1>17 DEF RollbackFinish
<1>18. CASE RollbackClear
  BY <1>18 DEF RollbackClear, EnvBatch
<1>19. CASE InterruptedBad
  BY <1>19 DEF InterruptedBad, RaucMarksBad, Unanswered
<1>20. CASE HostdServes
  BY <1>20 DEF HostdServes
<1>21. CASE WorkerBegin
  BY <1>21 DEF WorkerBegin
<1>22. CASE WorkerReads
  BY <1>22 DEF WorkerReads
<1>23. CASE WorkerStarts
  BY <1>23 DEF WorkerStarts, WorkerFinish, CancelSeen
<1>24. CASE WorkerLease
  BY <1>24 DEF WorkerLease, WorkerFinish
<1>25. CASE WorkerGuard
  BY <1>25 DEF WorkerGuard
<1>26. CASE WorkerWork
  BY <1>26 DEF WorkerWork, WorkerFinish
<1>27. CASE WorkerDownload
  BY <1>27 DEF WorkerDownload, WorkerFinish, CancelSeen, RebootPromised
<1>28. CASE WorkerVerifying
  BY <1>28 DEF WorkerVerifying
<1>29. CASE WorkerCheckCancel
  BY <1>29 DEF WorkerCheckCancel, WorkerFinish, CancelSeen
<1>30. CASE WorkerIdentity
  BY <1>30 DEF WorkerIdentity, WorkerFinish
<1>31. CASE WorkerInstalling
  BY <1>31 DEF WorkerInstalling
<1>32. CASE WorkerCallsRauc
  BY <1>32 DEF WorkerCallsRauc
<1>33. CASE WorkerRaucDone
  BY <1>33 DEF WorkerRaucDone
<1>34. CASE WorkerCompleteInstall
  BY <1>34 DEF WorkerCompleteInstall
<1>35. CASE WorkerFailInstall
  BY <1>35 DEF WorkerFailInstall, RaucMarksBad, Unanswered, WorkerFinish
<1>36. CASE WorkerReconcileInstall
  BY <1>36 DEF WorkerReconcileInstall
<1>37. CASE ActivateBegin
  BY <1>37 DEF ActivateBegin, Admissible, TargetVerified
<1>38. CASE ActivateIntent
  BY <1>38 DEF ActivateIntent, EnvBatch
<1>39. CASE ActivateMark
  BY <1>39 DEF ActivateMark, EnvBatch, Unanswered
<1>40. CASE ActivateActivated
  BY <1>40 DEF ActivateActivated, EnvBatch
<1>41. CASE ActivateSave
  BY <1>41 DEF ActivateSave
<1>42. CASE ActivateReboot
  BY <1>42 DEF ActivateReboot
<1>43. CASE WorkerExit
  BY <1>43 DEF WorkerExit
<1>44. CASE ConfirmBegin
  BY <1>44 DEF ConfirmBegin, TrialPhases
<1>45. CASE ConfirmIntent
  BY <1>45 DEF ConfirmIntent, ConfirmBatch, ConfirmErrors, EnvBatch
<1>46. CASE ConfirmMarkGood
  BY <1>46 DEF ConfirmMarkGood, ConfirmBatch, ConfirmErrors, EnvBatch
<1>47. CASE ConfirmPromote
  BY <1>47 DEF ConfirmPromote, ConfirmBatch, ConfirmErrors, EnvBatch
<1>48. CASE ConfirmJournal
  BY <1>48 DEF ConfirmJournal, ConfirmErrors, Rebuilt
<1>49. CASE ConfirmClear
  BY <1>49 DEF ConfirmClear, ConfirmBatch, ConfirmErrors, EnvBatch
<1>50. CASE RaucMarksTarget
  BY <1>50 DEF RaucMarksTarget
<1>51. CASE RaucWrites
  BY <1>51 DEF RaucWrites
<1>52. CASE RaucEnds
  BY <1>52 DEF RaucEnds
<1>53. CASE RaucFails
  BY <1>53 DEF RaucFails
<1>54. CASE PowerCut
  BY <1>54 DEF PowerCut, LosePower
<1>55. CASE Reboot
  BY <1>55 DEF Reboot, LosePower
<1>56. CASE LoaderBoots
  BY <1>56 DEF LoaderBoots
<1>57. CASE LoaderStops
  BY <1>57 DEF LoaderStops
<1>58. CASE EraseData
  BY <1>58 DEF EraseData
<1>59. CASE PhysicalReset
  BY <1>59 DEF PhysicalReset
<1>60. CASE HostdStarts
  BY <1>60 DEF HostdStarts
<1>61. CASE AppStarts
  BY <1>61 DEF AppStarts
<1>62. CASE AdminReboot
  BY <1>62 DEF AdminReboot
<1>63. CASE FactoryReset
  BY <1>63 DEF FactoryReset
<1>64. CASE RebootGoes
  BY <1>64 DEF RebootGoes
<1>65. CASE SupHealthy
  BY <1>65 DEF SupHealthy, OnTrial, IsTrialOf
<1>66. CASE SupUnreadable
  BY <1>66 DEF SupUnreadable
<1>67. CASE SupMarkGood
  BY <1>67 DEF SupMarkGood
<1>68. CASE SupConfirmed
  BY <1>68 DEF SupConfirmed
<1>69. CASE SupDeadline
  BY <1>69 DEF SupDeadline
<1>70. CASE HostdKilled
  BY <1>70 DEF HostdKilled, Killed
<1>71. CASE WorkerKilled
  BY <1>71 DEF WorkerKilled, Killed
<1>72. CASE ConfirmKilled
  BY <1>72 DEF ConfirmKilled, Killed
<1>73. CASE SupKilled
  BY <1>73 DEF SupKilled
<1>74. CASE RaucKilled
  BY <1>74 DEF RaucKilled
<1>75. CASE FinishSave("hostd")
  BY <1>75 DEF FinishSave
<1>76. CASE FinishGuard("hostd")
  BY <1>76 DEF FinishGuard
<1>77. CASE ReadySave("hostd")
  BY <1>77 DEF ReadySave
<1>78. CASE ReadyGuard("hostd")
  BY <1>78 DEF ReadyGuard
<1>79. CASE ReconcilingSave("hostd")
  BY <1>79 DEF ReconcilingSave
<1>80. CASE ReconcilingGuard("hostd")
  BY <1>80 DEF ReconcilingGuard
<1>81. CASE FinishSave("worker")
  BY <1>81 DEF FinishSave
<1>82. CASE FinishGuard("worker")
  BY <1>82 DEF FinishGuard
<1>83. CASE ReadySave("worker")
  BY <1>83 DEF ReadySave
<1>84. CASE ReadyGuard("worker")
  BY <1>84 DEF ReadyGuard
<1>85. CASE ReconcilingSave("worker")
  BY <1>85 DEF ReconcilingSave
<1>86. CASE ReconcilingGuard("worker")
  BY <1>86 DEF ReconcilingGuard
<1>87. CASE FinishSave("confirm")
  BY <1>87 DEF FinishSave
<1>88. CASE FinishGuard("confirm")
  BY <1>88 DEF FinishGuard
<1>89. CASE ReadySave("confirm")
  BY <1>89 DEF ReadySave
<1>90. CASE ReadyGuard("confirm")
  BY <1>90 DEF ReadyGuard
<1>91. CASE ReconcilingSave("confirm")
  BY <1>91 DEF ReconcilingSave
<1>92. CASE ReconcilingGuard("confirm")
  BY <1>92 DEF ReconcilingGuard
<1>93. CASE BackToReadyBad("hostd")
  BY <1>93 DEF BackToReadyBad, RaucMarksBad, Unanswered
<1>94. CASE BackToReadyClear("hostd")
  BY <1>94 DEF BackToReadyClear, EnvBatch
<1>95. CASE BackToReadyBad("worker")
  BY <1>95 DEF BackToReadyBad, RaucMarksBad, Unanswered
<1>96. CASE BackToReadyClear("worker")
  BY <1>96 DEF BackToReadyClear, EnvBatch
<1>97. CASE UNCHANGED vars
  BY <1>97 DEF vars
<1> HIDE DEF ProcType, PlaceInv, WorkerPCs, HostdPCs, ConfirmPCs, At, Goto, Call, JobOf,
  Programs, Off
<1>98. HostdStep => PlaceInv'
  BY <1>1, <1>2, <1>3, <1>4, <1>5, <1>6, <1>7, <1>8, <1>9, <1>10, <1>11, <1>12, <1>13, <1>14,
    <1>15, <1>16, <1>17, <1>18, <1>19, <1>20, <1>75, <1>76, <1>77, <1>78, <1>79, <1>80, <1>93,
    <1>94
  DEF HostdStep, EndJob, BackToReady
<1>99. WorkerStep => PlaceInv'
  BY <1>21, <1>22, <1>23, <1>24, <1>25, <1>26, <1>27, <1>28, <1>29, <1>30, <1>31, <1>32, <1>33,
    <1>34, <1>35, <1>36, <1>37, <1>38, <1>39, <1>40, <1>41, <1>42, <1>43, <1>81, <1>82, <1>83,
    <1>84, <1>85, <1>86, <1>95, <1>96
  DEF WorkerStep, EndJob, BackToReady
<1>100. ConfirmStep => PlaceInv'
  BY <1>44, <1>45, <1>46, <1>47, <1>48, <1>49, <1>87, <1>88, <1>89, <1>90, <1>91, <1>92
  DEF ConfirmStep, EndJob
<1>101. RaucStep => PlaceInv'
  BY <1>50, <1>51, <1>52, <1>53
  DEF RaucStep
<1>102. MachineStep => PlaceInv'
  BY <1>54, <1>55, <1>56, <1>57, <1>58, <1>59, <1>60, <1>61, <1>62, <1>63, <1>64, <1>65, <1>66,
    <1>67, <1>68, <1>69, <1>70, <1>71, <1>72, <1>73, <1>74
  DEF MachineStep
<1> QED BY <1>97, <1>98, <1>99, <1>100, <1>101, <1>102 DEF Next

LEMMA PowerStep == BoxInv /\ [Next]_vars => PowerInv'
<1> SUFFICES ASSUME proc \in ProcType, PlaceInv, PowerInv, [Next]_vars PROVE PowerInv'
  BY DEF BoxInv, TypeOK, ProcType
<1> USE DEF ProcType, PlaceInv, ConfirmPCs, PowerInv, At, Goto, Call, JobOf, Programs, Off, WorkerActive, Serving,
        boot, machine, session, store
<1>1. ASSUME NEW seq \in 1..MaxSeq, Install(seq) PROVE PowerInv'
  BY <1>1 DEF Install, NoOpenJob, Admissible, Healthy, NewJob, StartWorker
<1>2. CASE Cancel
  BY <1>2 DEF Cancel
<1>3. CASE CancelCheck
  BY <1>3 DEF CancelCheck
<1>4. CASE Dismiss
  BY <1>4 DEF Dismiss
<1>5. CASE View
  BY <1>5 DEF View, Serving
<1>6. CASE Restart
  BY <1>6 DEF Restart, StartWorker
<1>7. CASE Discard
  BY <1>7 DEF Discard, RaucMarksBad, Unanswered
<1>8. CASE ReconcileCarriesOn
  BY <1>8 DEF ReconcileCarriesOn, WorkerCarriesOn
<1>9. CASE ReconcileNoPending
  BY <1>9 DEF ReconcileNoPending, WorkerCarriesOn, ReconcileJournal, GuardFor, StartWorker
<1>10. CASE ReconcilePending
  BY <1>10 DEF ReconcilePending, WorkerCarriesOn, NeverTried, Rebuilt
<1>11. CASE TrialClear
  BY <1>11 DEF TrialClear, EnvBatch
<1>12. CASE TrialIdle
  BY <1>12 DEF TrialIdle
<1>13. CASE TrialSave
  BY <1>13 DEF TrialSave
<1>14. CASE TrialGuard
  BY <1>14 DEF TrialGuard
<1>15. CASE RollbackBad
  BY <1>15 DEF RollbackBad, RaucMarksBad, Unanswered
<1>16. CASE RollbackActive
  BY <1>16 DEF RollbackActive, EnvBatch, Unanswered
<1>17. CASE RollbackFinish
  BY <1>17 DEF RollbackFinish
<1>18. CASE RollbackClear
  BY <1>18 DEF RollbackClear, EnvBatch
<1>19. CASE InterruptedBad
  BY <1>19 DEF InterruptedBad, RaucMarksBad, Unanswered
<1>20. CASE HostdServes
  BY <1>20 DEF HostdServes
<1>21. CASE WorkerBegin
  BY <1>21 DEF WorkerBegin
<1>22. CASE WorkerReads
  BY <1>22 DEF WorkerReads
<1>23. CASE WorkerStarts
  BY <1>23 DEF WorkerStarts, WorkerFinish, CancelSeen
<1>24. CASE WorkerLease
  BY <1>24 DEF WorkerLease, WorkerFinish
<1>25. CASE WorkerGuard
  BY <1>25 DEF WorkerGuard
<1>26. CASE WorkerWork
  BY <1>26 DEF WorkerWork, WorkerFinish
<1>27. CASE WorkerDownload
  BY <1>27 DEF WorkerDownload, WorkerFinish, CancelSeen, RebootPromised
<1>28. CASE WorkerVerifying
  BY <1>28 DEF WorkerVerifying
<1>29. CASE WorkerCheckCancel
  BY <1>29 DEF WorkerCheckCancel, WorkerFinish, CancelSeen
<1>30. CASE WorkerIdentity
  BY <1>30 DEF WorkerIdentity, WorkerFinish
<1>31. CASE WorkerInstalling
  BY <1>31 DEF WorkerInstalling
<1>32. CASE WorkerCallsRauc
  BY <1>32 DEF WorkerCallsRauc
<1>33. CASE WorkerRaucDone
  BY <1>33 DEF WorkerRaucDone
<1>34. CASE WorkerCompleteInstall
  BY <1>34 DEF WorkerCompleteInstall
<1>35. CASE WorkerFailInstall
  BY <1>35 DEF WorkerFailInstall, RaucMarksBad, Unanswered, WorkerFinish
<1>36. CASE WorkerReconcileInstall
  BY <1>36 DEF WorkerReconcileInstall
<1>37. CASE ActivateBegin
  BY <1>37 DEF ActivateBegin, Admissible, TargetVerified
<1>38. CASE ActivateIntent
  BY <1>38 DEF ActivateIntent, EnvBatch
<1>39. CASE ActivateMark
  BY <1>39 DEF ActivateMark, EnvBatch, Unanswered
<1>40. CASE ActivateActivated
  BY <1>40 DEF ActivateActivated, EnvBatch
<1>41. CASE ActivateSave
  BY <1>41 DEF ActivateSave
<1>42. CASE ActivateReboot
  BY <1>42 DEF ActivateReboot
<1>43. CASE WorkerExit
  BY <1>43 DEF WorkerExit
<1>44. CASE ConfirmBegin
  BY <1>44 DEF ConfirmBegin, IsTrialOf
<1>45. CASE ConfirmIntent
  BY <1>45 DEF ConfirmIntent, ConfirmBatch, ConfirmErrors, EnvBatch
<1>46. CASE ConfirmMarkGood
  BY <1>46 DEF ConfirmMarkGood, ConfirmBatch, ConfirmErrors, EnvBatch
<1>47. CASE ConfirmPromote
  BY <1>47 DEF ConfirmPromote, ConfirmBatch, ConfirmErrors, EnvBatch
<1>48. CASE ConfirmJournal
  BY <1>48 DEF ConfirmJournal, ConfirmErrors, Rebuilt
<1>49. CASE ConfirmClear
  BY <1>49 DEF ConfirmClear, ConfirmBatch, ConfirmErrors, EnvBatch
<1>50. CASE RaucMarksTarget
  BY <1>50 DEF RaucMarksTarget
<1>51. CASE RaucWrites
  BY <1>51 DEF RaucWrites
<1>52. CASE RaucEnds
  BY <1>52 DEF RaucEnds
<1>53. CASE RaucFails
  BY <1>53 DEF RaucFails
<1>54. CASE PowerCut
  BY <1>54 DEF PowerCut, LosePower
<1>55. CASE Reboot
  BY <1>55 DEF Reboot, LosePower
<1>56. CASE LoaderBoots
  BY <1>56 DEF LoaderBoots
<1>57. CASE LoaderStops
  BY <1>57 DEF LoaderStops
<1>58. CASE EraseData
  BY <1>58 DEF EraseData
<1>59. CASE PhysicalReset
  BY <1>59 DEF PhysicalReset
<1>60. CASE HostdStarts
  BY <1>60 DEF HostdStarts
<1>61. CASE AppStarts
  BY <1>61 DEF AppStarts
<1>62. CASE AdminReboot
  BY <1>62 DEF AdminReboot
<1>63. CASE FactoryReset
  BY <1>63 DEF FactoryReset
<1>64. CASE RebootGoes
  BY <1>64 DEF RebootGoes
<1>65. CASE SupHealthy
  BY <1>65 DEF SupHealthy, OnTrial, IsTrialOf
<1>66. CASE SupUnreadable
  BY <1>66 DEF SupUnreadable
<1>67. CASE SupMarkGood
  BY <1>67 DEF SupMarkGood
<1>68. CASE SupConfirmed
  BY <1>68 DEF SupConfirmed
<1>69. CASE SupDeadline
  BY <1>69 DEF SupDeadline
<1>70. CASE HostdKilled
  BY <1>70 DEF HostdKilled, Killed
<1>71. CASE WorkerKilled
  BY <1>71 DEF WorkerKilled, Killed
<1>72. CASE ConfirmKilled
  BY <1>72 DEF ConfirmKilled, Killed
<1>73. CASE SupKilled
  BY <1>73 DEF SupKilled
<1>74. CASE RaucKilled
  BY <1>74 DEF RaucKilled
<1>75. CASE FinishSave("hostd")
  BY <1>75 DEF FinishSave
<1>76. CASE FinishGuard("hostd")
  BY <1>76 DEF FinishGuard
<1>77. CASE ReadySave("hostd")
  BY <1>77 DEF ReadySave
<1>78. CASE ReadyGuard("hostd")
  BY <1>78 DEF ReadyGuard
<1>79. CASE ReconcilingSave("hostd")
  BY <1>79 DEF ReconcilingSave
<1>80. CASE ReconcilingGuard("hostd")
  BY <1>80 DEF ReconcilingGuard
<1>81. CASE FinishSave("worker")
  BY <1>81 DEF FinishSave
<1>82. CASE FinishGuard("worker")
  BY <1>82 DEF FinishGuard
<1>83. CASE ReadySave("worker")
  BY <1>83 DEF ReadySave
<1>84. CASE ReadyGuard("worker")
  BY <1>84 DEF ReadyGuard
<1>85. CASE ReconcilingSave("worker")
  BY <1>85 DEF ReconcilingSave
<1>86. CASE ReconcilingGuard("worker")
  BY <1>86 DEF ReconcilingGuard
<1>87. CASE FinishSave("confirm")
  BY <1>87 DEF FinishSave
<1>88. CASE FinishGuard("confirm")
  BY <1>88 DEF FinishGuard
<1>89. CASE ReadySave("confirm")
  BY <1>89 DEF ReadySave
<1>90. CASE ReadyGuard("confirm")
  BY <1>90 DEF ReadyGuard
<1>91. CASE ReconcilingSave("confirm")
  BY <1>91 DEF ReconcilingSave
<1>92. CASE ReconcilingGuard("confirm")
  BY <1>92 DEF ReconcilingGuard
<1>93. CASE BackToReadyBad("hostd")
  BY <1>93 DEF BackToReadyBad, RaucMarksBad, Unanswered
<1>94. CASE BackToReadyClear("hostd")
  BY <1>94 DEF BackToReadyClear, EnvBatch
<1>95. CASE BackToReadyBad("worker")
  BY <1>95 DEF BackToReadyBad, RaucMarksBad, Unanswered
<1>96. CASE BackToReadyClear("worker")
  BY <1>96 DEF BackToReadyClear, EnvBatch
<1>97. CASE UNCHANGED vars
  BY <1>97 DEF vars
<1> HIDE DEF ProcType, PlaceInv, ConfirmPCs, PowerInv, At, Goto, Call, JobOf, Programs, Off,
  WorkerActive, Serving, boot, machine, session, store
<1>98. HostdStep => PowerInv'
  BY <1>1, <1>2, <1>3, <1>4, <1>5, <1>6, <1>7, <1>8, <1>9, <1>10, <1>11, <1>12, <1>13, <1>14,
    <1>15, <1>16, <1>17, <1>18, <1>19, <1>20, <1>75, <1>76, <1>77, <1>78, <1>79, <1>80, <1>93,
    <1>94
  DEF HostdStep, EndJob, BackToReady
<1>99. WorkerStep => PowerInv'
  BY <1>21, <1>22, <1>23, <1>24, <1>25, <1>26, <1>27, <1>28, <1>29, <1>30, <1>31, <1>32, <1>33,
    <1>34, <1>35, <1>36, <1>37, <1>38, <1>39, <1>40, <1>41, <1>42, <1>43, <1>81, <1>82, <1>83,
    <1>84, <1>85, <1>86, <1>95, <1>96
  DEF WorkerStep, EndJob, BackToReady
<1>100. ConfirmStep => PowerInv'
  BY <1>44, <1>45, <1>46, <1>47, <1>48, <1>49, <1>87, <1>88, <1>89, <1>90, <1>91, <1>92
  DEF ConfirmStep, EndJob
<1>101. RaucStep => PowerInv'
  BY <1>50, <1>51, <1>52, <1>53
  DEF RaucStep
<1>102. MachineStep => PowerInv'
  BY <1>54, <1>55, <1>56, <1>57, <1>58, <1>59, <1>60, <1>61, <1>62, <1>63, <1>64, <1>65, <1>66,
    <1>67, <1>68, <1>69, <1>70, <1>71, <1>72, <1>73, <1>74
  DEF MachineStep
<1> QED BY <1>97, <1>98, <1>99, <1>100, <1>101, <1>102 DEF Next

LEMMA CopyStep == BoxInv /\ [Next]_vars => CopyInv'
<1> SUFFICES ASSUME proc \in ProcType, journal \in Job, TypeOK, PendingSound, PlaceInv, CopyInv, [Next]_vars PROVE CopyInv'
  BY DEF BoxInv, TypeOK, ProcType
<1> USE DEF ProcType, PlaceInv, WorkerPCs, HostdPCs, ConfirmPCs, CopyInv, Named, HoldsJob, At, Goto, Call, JobOf, Programs, Off, files,
        JobStates, Working, Terminal, Resumable
<1>1. ASSUME NEW seq \in 1..MaxSeq, Install(seq) PROVE CopyInv'
  BY <1>1, JobsMade DEF Install, NoOpenJob, Admissible, Healthy, NewJob, StartWorker
<1>2. CASE Cancel
  BY <1>2 DEF Cancel
<1>3. CASE CancelCheck
  BY <1>3, WithStateIs DEF CancelCheck
<1>4. CASE Dismiss
  BY <1>4, JobsAre DEF Dismiss
<1>5. CASE View
  BY <1>5 DEF View, Serving
<1>6. CASE Restart
  BY <1>6, WithStateIs DEF Restart, StartWorker
<1>7. CASE Discard
  BY <1>7, WithStateIs DEF Discard, RaucMarksBad, Unanswered
<1>8. CASE ReconcileCarriesOn
  BY <1>8 DEF ReconcileCarriesOn, WorkerCarriesOn
<1>9. CASE ReconcileNoPending
  BY <1>9, WithStateIs DEF ReconcileNoPending, WorkerCarriesOn, ReconcileJournal, GuardFor,
    StartWorker
<1>10. CASE ReconcilePending
  BY <1>10, JobsMade DEF ReconcilePending, WorkerCarriesOn, NeverTried, Rebuilt
<1>11. CASE TrialClear
  BY <1>11 DEF TrialClear, EnvBatch
<1>12. CASE TrialIdle
  BY <1>12 DEF TrialIdle
<1>13. CASE TrialSave
  BY <1>13, WithStateIs DEF TrialSave
<1>14. CASE TrialGuard
  BY <1>14 DEF TrialGuard
<1>15. CASE RollbackBad
  BY <1>15 DEF RollbackBad, RaucMarksBad, Unanswered
<1>16. CASE RollbackActive
  BY <1>16 DEF RollbackActive, EnvBatch, Unanswered
<1>17. CASE RollbackFinish
  BY <1>17, WithStateIs DEF RollbackFinish
<1>18. CASE RollbackClear
  BY <1>18 DEF RollbackClear, EnvBatch
<1>19. CASE InterruptedBad
  BY <1>19, WithStateIs DEF InterruptedBad, RaucMarksBad, Unanswered
<1>20. CASE HostdServes
  BY <1>20, JobsAre DEF HostdServes
<1>21. CASE WorkerBegin
  BY <1>21, JobsAre DEF WorkerBegin
<1>22. CASE WorkerReads
  BY <1>22 DEF WorkerReads
<1>23. CASE WorkerStarts
  BY <1>23, WithStateIs DEF WorkerStarts, WorkerFinish, CancelSeen
<1>24. CASE WorkerLease
  BY <1>24, WithStateIs DEF WorkerLease, WorkerFinish
<1>25. CASE WorkerGuard
  BY <1>25 DEF WorkerGuard
<1>26. CASE WorkerWork
  BY <1>26, WithStateIs DEF WorkerWork, WorkerFinish
<1>27. CASE WorkerDownload
  BY <1>27, WithStateIs DEF WorkerDownload, WorkerFinish, CancelSeen, RebootPromised
<1>28. CASE WorkerVerifying
  BY <1>28 DEF WorkerVerifying
<1>29. CASE WorkerCheckCancel
  BY <1>29, WithStateIs DEF WorkerCheckCancel, WorkerFinish, CancelSeen
<1>30. CASE WorkerIdentity
  BY <1>30, WithStateIs DEF WorkerIdentity, WorkerFinish
<1>31. CASE WorkerInstalling
  BY <1>31, WithStateIs DEF WorkerInstalling
<1>32. CASE WorkerCallsRauc
  BY <1>32 DEF WorkerCallsRauc
<1>33. CASE WorkerRaucDone
  BY <1>33 DEF WorkerRaucDone
<1>34. CASE WorkerCompleteInstall
  BY <1>34 DEF WorkerCompleteInstall
<1>35. CASE WorkerFailInstall
  BY <1>35, WithStateIs DEF WorkerFailInstall, RaucMarksBad, Unanswered, WorkerFinish
<1>36. CASE WorkerReconcileInstall
  BY <1>36 DEF WorkerReconcileInstall
<1>37. CASE ActivateBegin
  BY <1>37 DEF ActivateBegin, Admissible, TargetVerified
<1>38. CASE ActivateIntent
  BY <1>38 DEF ActivateIntent, EnvBatch
<1>39. CASE ActivateMark
  BY <1>39 DEF ActivateMark, EnvBatch, Unanswered
<1>40. CASE ActivateActivated
  BY <1>40 DEF ActivateActivated, EnvBatch
<1>41. CASE ActivateSave
  BY <1>41 DEF ActivateSave
<1>42. CASE ActivateReboot
  BY <1>42 DEF ActivateReboot
<1>43. CASE WorkerExit
  BY <1>43, JobsAre DEF WorkerExit
<1>44. CASE ConfirmBegin
  BY <1>44, JobsMade DEF ConfirmBegin, TrialPhases, IsTrialOf
<1>45. CASE ConfirmIntent
  BY <1>45 DEF ConfirmIntent, ConfirmBatch, ConfirmErrors, EnvBatch
<1>46. CASE ConfirmMarkGood
  BY <1>46 DEF ConfirmMarkGood, ConfirmBatch, ConfirmErrors, EnvBatch
<1>47. CASE ConfirmPromote
  BY <1>47 DEF ConfirmPromote, ConfirmBatch, ConfirmErrors, EnvBatch
<1>48. CASE ConfirmJournal
  BY <1>48, WithStateIs DEF ConfirmJournal, ConfirmErrors, Rebuilt
<1>49. CASE ConfirmClear
  BY <1>49 DEF ConfirmClear, ConfirmBatch, ConfirmErrors, EnvBatch
<1>50. CASE RaucMarksTarget
  BY <1>50 DEF RaucMarksTarget
<1>51. CASE RaucWrites
  BY <1>51 DEF RaucWrites
<1>52. CASE RaucEnds
  BY <1>52 DEF RaucEnds
<1>53. CASE RaucFails
  BY <1>53 DEF RaucFails
<1>54. CASE PowerCut
  BY <1>54, JobsAre DEF PowerCut, LosePower
<1>55. CASE Reboot
  BY <1>55, JobsAre DEF Reboot, LosePower
<1>56. CASE LoaderBoots
  BY <1>56 DEF LoaderBoots
<1>57. CASE LoaderStops
  BY <1>57 DEF LoaderStops
<1>58. CASE EraseData
  BY <1>58, JobsAre DEF EraseData
<1>59. CASE PhysicalReset
  BY <1>59 DEF PhysicalReset
<1>60. CASE HostdStarts
  BY <1>60, JobsAre DEF HostdStarts
<1>61. CASE AppStarts
  BY <1>61 DEF AppStarts
<1>62. CASE AdminReboot
  BY <1>62 DEF AdminReboot
<1>63. CASE FactoryReset
  BY <1>63 DEF FactoryReset
<1>64. CASE RebootGoes
  BY <1>64 DEF RebootGoes
<1>65. CASE SupHealthy
  BY <1>65 DEF SupHealthy, OnTrial, IsTrialOf
<1>66. CASE SupUnreadable
  BY <1>66 DEF SupUnreadable
<1>67. CASE SupMarkGood
  BY <1>67 DEF SupMarkGood
<1>68. CASE SupConfirmed
  BY <1>68 DEF SupConfirmed
<1>69. CASE SupDeadline
  BY <1>69 DEF SupDeadline
<1>70. CASE HostdKilled
  BY <1>70, JobsAre DEF HostdKilled, Killed
<1>71. CASE WorkerKilled
  BY <1>71, JobsAre DEF WorkerKilled, Killed
<1>72. CASE ConfirmKilled
  BY <1>72 DEF ConfirmKilled, Killed
<1>73. CASE SupKilled
  BY <1>73 DEF SupKilled
<1>74. CASE RaucKilled
  BY <1>74 DEF RaucKilled
<1>75. CASE FinishSave("hostd")
  BY <1>75 DEF FinishSave
<1>76. CASE FinishGuard("hostd")
  BY <1>76 DEF FinishGuard
<1>77. CASE ReadySave("hostd")
  BY <1>77, WithStateIs DEF ReadySave
<1>78. CASE ReadyGuard("hostd")
  BY <1>78 DEF ReadyGuard
<1>79. CASE ReconcilingSave("hostd")
  BY <1>79, WithStateIs DEF ReconcilingSave
<1>80. CASE ReconcilingGuard("hostd")
  BY <1>80 DEF ReconcilingGuard
<1>81. CASE FinishSave("worker")
  BY <1>81 DEF FinishSave
<1>82. CASE FinishGuard("worker")
  BY <1>82 DEF FinishGuard
<1>83. CASE ReadySave("worker")
  BY <1>83, WithStateIs DEF ReadySave
<1>84. CASE ReadyGuard("worker")
  BY <1>84 DEF ReadyGuard
<1>85. CASE ReconcilingSave("worker")
  BY <1>85, WithStateIs DEF ReconcilingSave
<1>86. CASE ReconcilingGuard("worker")
  BY <1>86 DEF ReconcilingGuard
<1>87. CASE FinishSave("confirm")
  BY <1>87 DEF FinishSave
<1>88. CASE FinishGuard("confirm")
  BY <1>88 DEF FinishGuard
<1>89. CASE ReadySave("confirm")
  BY <1>89 DEF ReadySave
<1>90. CASE ReadyGuard("confirm")
  BY <1>90 DEF ReadyGuard
<1>91. CASE ReconcilingSave("confirm")
  BY <1>91 DEF ReconcilingSave
<1>92. CASE ReconcilingGuard("confirm")
  BY <1>92 DEF ReconcilingGuard
<1>93. CASE BackToReadyBad("hostd")
  BY <1>93 DEF BackToReadyBad, RaucMarksBad, Unanswered
<1>94. CASE BackToReadyClear("hostd")
  BY <1>94 DEF BackToReadyClear, EnvBatch
<1>95. CASE BackToReadyBad("worker")
  BY <1>95 DEF BackToReadyBad, RaucMarksBad, Unanswered
<1>96. CASE BackToReadyClear("worker")
  BY <1>96 DEF BackToReadyClear, EnvBatch
<1>97. CASE UNCHANGED vars
  BY <1>97 DEF vars
<1> HIDE DEF ProcType, PlaceInv, WorkerPCs, HostdPCs, ConfirmPCs, CopyInv, Named, HoldsJob, At,
  Goto, Call, JobOf, Programs, Off, files, JobStates, Working, Terminal, Resumable
<1>98. HostdStep => CopyInv'
  BY <1>1, <1>2, <1>3, <1>4, <1>5, <1>6, <1>7, <1>8, <1>9, <1>10, <1>11, <1>12, <1>13, <1>14,
    <1>15, <1>16, <1>17, <1>18, <1>19, <1>20, <1>75, <1>76, <1>77, <1>78, <1>79, <1>80, <1>93,
    <1>94
  DEF HostdStep, EndJob, BackToReady
<1>99. WorkerStep => CopyInv'
  BY <1>21, <1>22, <1>23, <1>24, <1>25, <1>26, <1>27, <1>28, <1>29, <1>30, <1>31, <1>32, <1>33,
    <1>34, <1>35, <1>36, <1>37, <1>38, <1>39, <1>40, <1>41, <1>42, <1>43, <1>81, <1>82, <1>83,
    <1>84, <1>85, <1>86, <1>95, <1>96
  DEF WorkerStep, EndJob, BackToReady
<1>100. ConfirmStep => CopyInv'
  BY <1>44, <1>45, <1>46, <1>47, <1>48, <1>49, <1>87, <1>88, <1>89, <1>90, <1>91, <1>92
  DEF ConfirmStep, EndJob
<1>101. RaucStep => CopyInv'
  BY <1>50, <1>51, <1>52, <1>53
  DEF RaucStep
<1>102. MachineStep => CopyInv'
  BY <1>54, <1>55, <1>56, <1>57, <1>58, <1>59, <1>60, <1>61, <1>62, <1>63, <1>64, <1>65, <1>66,
    <1>67, <1>68, <1>69, <1>70, <1>71, <1>72, <1>73, <1>74
  DEF MachineStep
<1> QED BY <1>97, <1>98, <1>99, <1>100, <1>101, <1>102 DEF Next

LEMMA ExclusionStep == BoxInv /\ [Next]_vars => ExclusionInv'
<1> SUFFICES ASSUME proc \in ProcType, journal \in Job, TypeOK, PendingSound, PlaceInv, PowerInv, CopyInv, ExclusionInv, TrialInv,
                    [Next]_vars
             PROVE ExclusionInv'
  BY DEF BoxInv, TypeOK, ProcType
<1> USE DEF ProcType, PlaceInv, WorkerPCs, HostdPCs, ConfirmPCs, PowerInv, CopyInv, HoldsJob, ExclusionInv, TrialInv, Activating, Reconciling,
        Confirming, Quiet,
        At, Goto, Call, JobOf, Programs, Off, files, WorkerActive, Serving, JobStates, Working, Terminal, Resumable
<1>1. ASSUME NEW seq \in 1..MaxSeq, Install(seq) PROVE ExclusionInv'
  BY <1>1 DEF Install, NoOpenJob, Admissible, Healthy, NewJob, StartWorker
<1>2. CASE Cancel
  BY <1>2 DEF Cancel
<1>3. CASE CancelCheck
  BY <1>3 DEF CancelCheck
<1>4. CASE Dismiss
  BY <1>4 DEF Dismiss
<1>5. CASE View
  BY <1>5 DEF View, Serving
<1>6. CASE Restart
  BY <1>6 DEF Restart, StartWorker
<1>7. CASE Discard
  BY <1>7 DEF Discard, RaucMarksBad, Unanswered
<1>8. CASE ReconcileCarriesOn
  BY <1>8 DEF ReconcileCarriesOn, WorkerCarriesOn
<1>9. CASE ReconcileNoPending
  BY <1>9 DEF ReconcileNoPending, WorkerCarriesOn, ReconcileJournal, GuardFor, StartWorker
<1>10. CASE ReconcilePending
  BY <1>10, JobsMade DEF ReconcilePending, WorkerCarriesOn, NeverTried, Rebuilt
<1>11. CASE TrialClear
  BY <1>11 DEF TrialClear, EnvBatch
<1>12. CASE TrialIdle
  BY <1>12 DEF TrialIdle
<1>13. CASE TrialSave
  BY <1>13, WithStateIs DEF TrialSave
<1>14. CASE TrialGuard
  BY <1>14 DEF TrialGuard
<1>15. CASE RollbackBad
  BY <1>15 DEF RollbackBad, RaucMarksBad, Unanswered
<1>16. CASE RollbackActive
  BY <1>16 DEF RollbackActive, EnvBatch, Unanswered
<1>17. CASE RollbackFinish
  BY <1>17 DEF RollbackFinish
<1>18. CASE RollbackClear
  BY <1>18 DEF RollbackClear, EnvBatch
<1>19. CASE InterruptedBad
  BY <1>19 DEF InterruptedBad, RaucMarksBad, Unanswered
<1>20. CASE HostdServes
  BY <1>20 DEF HostdServes
<1>21. CASE WorkerBegin
  BY <1>21 DEF WorkerBegin
<1>22. CASE WorkerReads
  BY <1>22 DEF WorkerReads
<1>23. CASE WorkerStarts
  BY <1>23 DEF WorkerStarts, WorkerFinish, CancelSeen
<1>24. CASE WorkerLease
  BY <1>24 DEF WorkerLease, WorkerFinish
<1>25. CASE WorkerGuard
  BY <1>25 DEF WorkerGuard
<1>26. CASE WorkerWork
  BY <1>26 DEF WorkerWork, WorkerFinish
<1>27. CASE WorkerDownload
  BY <1>27 DEF WorkerDownload, WorkerFinish, CancelSeen, RebootPromised
<1>28. CASE WorkerVerifying
  BY <1>28 DEF WorkerVerifying
<1>29. CASE WorkerCheckCancel
  BY <1>29 DEF WorkerCheckCancel, WorkerFinish, CancelSeen
<1>30. CASE WorkerIdentity
  BY <1>30 DEF WorkerIdentity, WorkerFinish
<1>31. CASE WorkerInstalling
  BY <1>31 DEF WorkerInstalling
<1>32. CASE WorkerCallsRauc
  BY <1>32 DEF WorkerCallsRauc
<1>33. CASE WorkerRaucDone
  BY <1>33 DEF WorkerRaucDone
<1>34. CASE WorkerCompleteInstall
  BY <1>34 DEF WorkerCompleteInstall
<1>35. CASE WorkerFailInstall
  BY <1>35 DEF WorkerFailInstall, RaucMarksBad, Unanswered, WorkerFinish
<1>36. CASE WorkerReconcileInstall
  BY <1>36 DEF WorkerReconcileInstall
<1>37. CASE ActivateBegin
  BY <1>37 DEF ActivateBegin, Admissible, TargetVerified
<1>38. CASE ActivateIntent
  BY <1>38 DEF ActivateIntent, EnvBatch
<1>39. CASE ActivateMark
  BY <1>39 DEF ActivateMark, EnvBatch, Unanswered
<1>40. CASE ActivateActivated
  BY <1>40 DEF ActivateActivated, EnvBatch
<1>41. CASE ActivateSave
  BY <1>41 DEF ActivateSave
<1>42. CASE ActivateReboot
  BY <1>42 DEF ActivateReboot
<1>43. CASE WorkerExit
  BY <1>43 DEF WorkerExit
<1>44. CASE ConfirmBegin
  BY <1>44 DEF ConfirmBegin, TrialPhases, IsTrialOf
<1>45. CASE ConfirmIntent
  BY <1>45 DEF ConfirmIntent, ConfirmBatch, ConfirmErrors, EnvBatch
<1>46. CASE ConfirmMarkGood
  BY <1>46 DEF ConfirmMarkGood, ConfirmBatch, ConfirmErrors, EnvBatch
<1>47. CASE ConfirmPromote
  BY <1>47 DEF ConfirmPromote, ConfirmBatch, ConfirmErrors, EnvBatch
<1>48. CASE ConfirmJournal
  BY <1>48 DEF ConfirmJournal, ConfirmErrors, Rebuilt
<1>49. CASE ConfirmClear
  BY <1>49 DEF ConfirmClear, ConfirmBatch, ConfirmErrors, EnvBatch
<1>50. CASE RaucMarksTarget
  BY <1>50 DEF RaucMarksTarget
<1>51. CASE RaucWrites
  BY <1>51 DEF RaucWrites
<1>52. CASE RaucEnds
  BY <1>52 DEF RaucEnds
<1>53. CASE RaucFails
  BY <1>53 DEF RaucFails
<1>54. CASE PowerCut
  BY <1>54 DEF PowerCut, LosePower
<1>55. CASE Reboot
  BY <1>55 DEF Reboot, LosePower
<1>56. CASE LoaderBoots
  BY <1>56 DEF LoaderBoots
<1>57. CASE LoaderStops
  BY <1>57 DEF LoaderStops
<1>58. CASE EraseData
  BY <1>58 DEF EraseData
<1>59. CASE PhysicalReset
  BY <1>59 DEF PhysicalReset
<1>60. CASE HostdStarts
  BY <1>60 DEF HostdStarts
<1>61. CASE AppStarts
  BY <1>61 DEF AppStarts
<1>62. CASE AdminReboot
  BY <1>62 DEF AdminReboot
<1>63. CASE FactoryReset
  BY <1>63 DEF FactoryReset
<1>64. CASE RebootGoes
  BY <1>64 DEF RebootGoes
<1>65. CASE SupHealthy
  BY <1>65 DEF SupHealthy, OnTrial, IsTrialOf
<1>66. CASE SupUnreadable
  BY <1>66 DEF SupUnreadable
<1>67. CASE SupMarkGood
  BY <1>67 DEF SupMarkGood
<1>68. CASE SupConfirmed
  BY <1>68 DEF SupConfirmed
<1>69. CASE SupDeadline
  BY <1>69 DEF SupDeadline
<1>70. CASE HostdKilled
  BY <1>70 DEF HostdKilled, Killed
<1>71. CASE WorkerKilled
  BY <1>71 DEF WorkerKilled, Killed
<1>72. CASE ConfirmKilled
  BY <1>72 DEF ConfirmKilled, Killed
<1>73. CASE SupKilled
  BY <1>73 DEF SupKilled
<1>74. CASE RaucKilled
  BY <1>74 DEF RaucKilled
<1>75. CASE FinishSave("hostd")
  BY <1>75 DEF FinishSave
<1>76. CASE FinishGuard("hostd")
  BY <1>76 DEF FinishGuard
<1>77. CASE ReadySave("hostd")
  BY <1>77, WithStateIs DEF ReadySave
<1>78. CASE ReadyGuard("hostd")
  BY <1>78 DEF ReadyGuard
<1>79. CASE ReconcilingSave("hostd")
  BY <1>79, WithStateIs DEF ReconcilingSave
<1>80. CASE ReconcilingGuard("hostd")
  BY <1>80 DEF ReconcilingGuard
<1>81. CASE FinishSave("worker")
  BY <1>81 DEF FinishSave
<1>82. CASE FinishGuard("worker")
  BY <1>82 DEF FinishGuard
<1>83. CASE ReadySave("worker")
  BY <1>83, WithStateIs DEF ReadySave
<1>84. CASE ReadyGuard("worker")
  BY <1>84 DEF ReadyGuard
<1>85. CASE ReconcilingSave("worker")
  BY <1>85, WithStateIs DEF ReconcilingSave
<1>86. CASE ReconcilingGuard("worker")
  BY <1>86 DEF ReconcilingGuard
<1>87. CASE FinishSave("confirm")
  BY <1>87 DEF FinishSave
<1>88. CASE FinishGuard("confirm")
  BY <1>88 DEF FinishGuard
<1>89. CASE ReadySave("confirm")
  BY <1>89 DEF ReadySave
<1>90. CASE ReadyGuard("confirm")
  BY <1>90 DEF ReadyGuard
<1>91. CASE ReconcilingSave("confirm")
  BY <1>91 DEF ReconcilingSave
<1>92. CASE ReconcilingGuard("confirm")
  BY <1>92 DEF ReconcilingGuard
<1>93. CASE BackToReadyBad("hostd")
  BY <1>93 DEF BackToReadyBad, RaucMarksBad, Unanswered
<1>94. CASE BackToReadyClear("hostd")
  BY <1>94 DEF BackToReadyClear, EnvBatch
<1>95. CASE BackToReadyBad("worker")
  BY <1>95 DEF BackToReadyBad, RaucMarksBad, Unanswered
<1>96. CASE BackToReadyClear("worker")
  BY <1>96 DEF BackToReadyClear, EnvBatch
<1>97. CASE UNCHANGED vars
  BY <1>97 DEF vars
<1> HIDE DEF ProcType, PlaceInv, WorkerPCs, HostdPCs, ConfirmPCs, PowerInv, CopyInv, HoldsJob,
  ExclusionInv, TrialInv, Activating, Reconciling, Confirming, Quiet, At, Goto, Call, JobOf,
  Programs, Off, files, WorkerActive, Serving, JobStates, Working, Terminal, Resumable
<1>98. HostdStep => ExclusionInv'
  BY <1>1, <1>2, <1>3, <1>4, <1>5, <1>6, <1>7, <1>8, <1>9, <1>10, <1>11, <1>12, <1>13, <1>14,
    <1>15, <1>16, <1>17, <1>18, <1>19, <1>20, <1>75, <1>76, <1>77, <1>78, <1>79, <1>80, <1>93,
    <1>94
  DEF HostdStep, EndJob, BackToReady
<1>99. WorkerStep => ExclusionInv'
  BY <1>21, <1>22, <1>23, <1>24, <1>25, <1>26, <1>27, <1>28, <1>29, <1>30, <1>31, <1>32, <1>33,
    <1>34, <1>35, <1>36, <1>37, <1>38, <1>39, <1>40, <1>41, <1>42, <1>43, <1>81, <1>82, <1>83,
    <1>84, <1>85, <1>86, <1>95, <1>96
  DEF WorkerStep, EndJob, BackToReady
<1>100. ConfirmStep => ExclusionInv'
  BY <1>44, <1>45, <1>46, <1>47, <1>48, <1>49, <1>87, <1>88, <1>89, <1>90, <1>91, <1>92
  DEF ConfirmStep, EndJob
<1>101. RaucStep => ExclusionInv'
  BY <1>50, <1>51, <1>52, <1>53
  DEF RaucStep
<1>102. MachineStep => ExclusionInv'
  BY <1>54, <1>55, <1>56, <1>57, <1>58, <1>59, <1>60, <1>61, <1>62, <1>63, <1>64, <1>65, <1>66,
    <1>67, <1>68, <1>69, <1>70, <1>71, <1>72, <1>73, <1>74
  DEF MachineStep
<1> QED BY <1>97, <1>98, <1>99, <1>100, <1>101, <1>102 DEF Next

LEMMA ActivationStep == BoxInv /\ [Next]_vars => ActivationInv'
<1> SUFFICES ASSUME proc \in ProcType, TypeOK, PlaceInv, PowerInv, CopyInv, ExclusionInv, TrialInv, ActivationInv,
                    [Next]_vars
             PROVE ActivationInv'
  BY DEF BoxInv, TypeOK, ProcType
<1>0. env \in Env /\ slot \in Slots /\ \A p \in Programs : proc[p].job \in Job
  BY DEF TypeOK, ProcType
<1> USE <1>0 DEF ProcType, PlaceInv, WorkerPCs, HostdPCs, ConfirmPCs, PowerInv, CopyInv, ExclusionInv, ActivationInv, TrialInv, Activating,
        Confirming, InTrial, SamePending,
        At, Goto, Call, JobOf, Programs, Off, WorkerActive, boot, machine, session
<1>1. ASSUME NEW seq \in 1..MaxSeq, Install(seq) PROVE ActivationInv'
  BY <1>1 DEF Install, NoOpenJob, Admissible, Healthy, NewJob, StartWorker
<1>2. CASE Cancel
  BY <1>2 DEF Cancel
<1>3. CASE CancelCheck
  BY <1>3 DEF CancelCheck
<1>4. CASE Dismiss
  BY <1>4 DEF Dismiss
<1>5. CASE View
  BY <1>5 DEF View, Serving
<1>6. CASE Restart
  BY <1>6 DEF Restart, StartWorker
<1>7. CASE Discard
  BY <1>7 DEF Discard, RaucMarksBad, Unanswered
<1>8. CASE ReconcileCarriesOn
  BY <1>8 DEF ReconcileCarriesOn, WorkerCarriesOn
<1>9. CASE ReconcileNoPending
  BY <1>9 DEF ReconcileNoPending, WorkerCarriesOn, ReconcileJournal, GuardFor, StartWorker
<1>10. CASE ReconcilePending
  BY <1>10 DEF ReconcilePending, WorkerCarriesOn, NeverTried, Rebuilt
<1>11. CASE TrialClear
  BY <1>11 DEF TrialClear, EnvBatch
<1>12. CASE TrialIdle
  BY <1>12 DEF TrialIdle
<1>13. CASE TrialSave
  BY <1>13 DEF TrialSave
<1>14. CASE TrialGuard
  BY <1>14 DEF TrialGuard
<1>15. CASE RollbackBad
  BY <1>15 DEF RollbackBad, RaucMarksBad, Unanswered
<1>16. CASE RollbackActive
  BY <1>16 DEF RollbackActive, EnvBatch, Unanswered
<1>17. CASE RollbackFinish
  BY <1>17 DEF RollbackFinish
<1>18. CASE RollbackClear
  BY <1>18 DEF RollbackClear, EnvBatch
<1>19. CASE InterruptedBad
  BY <1>19 DEF InterruptedBad, RaucMarksBad, Unanswered
<1>20. CASE HostdServes
  BY <1>20 DEF HostdServes
<1>21. CASE WorkerBegin
  BY <1>21 DEF WorkerBegin
<1>22. CASE WorkerReads
  BY <1>22 DEF WorkerReads
<1>23. CASE WorkerStarts
  BY <1>23 DEF WorkerStarts, WorkerFinish, CancelSeen
<1>24. CASE WorkerLease
  BY <1>24 DEF WorkerLease, WorkerFinish
<1>25. CASE WorkerGuard
  BY <1>25 DEF WorkerGuard
<1>26. CASE WorkerWork
  BY <1>26 DEF WorkerWork, WorkerFinish
<1>27. CASE WorkerDownload
  BY <1>27 DEF WorkerDownload, WorkerFinish, CancelSeen, RebootPromised
<1>28. CASE WorkerVerifying
  BY <1>28 DEF WorkerVerifying
<1>29. CASE WorkerCheckCancel
  BY <1>29 DEF WorkerCheckCancel, WorkerFinish, CancelSeen
<1>30. CASE WorkerIdentity
  BY <1>30 DEF WorkerIdentity, WorkerFinish
<1>31. CASE WorkerInstalling
  BY <1>31 DEF WorkerInstalling
<1>32. CASE WorkerCallsRauc
  BY <1>32 DEF WorkerCallsRauc
<1>33. CASE WorkerRaucDone
  BY <1>33 DEF WorkerRaucDone
<1>34. CASE WorkerCompleteInstall
  BY <1>34 DEF WorkerCompleteInstall
<1>35. CASE WorkerFailInstall
  BY <1>35 DEF WorkerFailInstall, RaucMarksBad, Unanswered, WorkerFinish
<1>36. CASE WorkerReconcileInstall
  BY <1>36 DEF WorkerReconcileInstall
<1>37. CASE ActivateBegin
  <2>1. JobOf("worker").seq \in Int
    BY JobsAre, JobsAssumption DEF Sequences0
  <2> QED BY <1>37, <2>1 DEF ActivateBegin, Admissible, TargetVerified
<1>38. CASE ActivateIntent
  <2>1. /\ ActivationIntent(env, JobOf("worker")).pending = JobOf("worker").id
        /\ ActivationIntent(env, JobOf("worker")).target = JobOf("worker").tgt
    <3>1. env \in Env /\ JobOf("worker") \in Job
      OBVIOUS
    <3> HIDE DEF JobOf
    <3> QED BY <3>1, IntentIs
  <2>2. At("worker", "intent") /\ slot' = slot
    BY <1>38 DEF ActivateIntent
  <2>3. \/ proc' = [proc EXCEPT !["worker"].pc = "markactive"]
           /\ env' = ActivationIntent(env, JobOf("worker"))
        \/ proc' = [proc EXCEPT !["worker"].pc = "b2r_bad"]
    BY <1>38 DEF ActivateIntent, EnvBatch
  <2> QED BY <2>1, <2>2, <2>3
<1>39. CASE ActivateMark
  <2>1. SamePending(env, env')
    BY <1>39, MarkSteps
  <2> QED BY <1>39, <2>1 DEF ActivateMark, EnvBatch, Unanswered
<1>40. CASE ActivateActivated
  BY <1>40 DEF ActivateActivated, EnvBatch
<1>41. CASE ActivateSave
  BY <1>41 DEF ActivateSave
<1>42. CASE ActivateReboot
  BY <1>42 DEF ActivateReboot
<1>43. CASE WorkerExit
  BY <1>43 DEF WorkerExit
<1>44. CASE ConfirmBegin
  BY <1>44 DEF ConfirmBegin, IsTrialOf
<1>45. CASE ConfirmIntent
  BY <1>45 DEF ConfirmIntent, ConfirmBatch, ConfirmErrors, EnvBatch
<1>46. CASE ConfirmMarkGood
  BY <1>46 DEF ConfirmMarkGood, ConfirmBatch, ConfirmErrors, EnvBatch
<1>47. CASE ConfirmPromote
  BY <1>47 DEF ConfirmPromote, ConfirmBatch, ConfirmErrors, EnvBatch
<1>48. CASE ConfirmJournal
  BY <1>48 DEF ConfirmJournal, ConfirmErrors, Rebuilt
<1>49. CASE ConfirmClear
  BY <1>49 DEF ConfirmClear, ConfirmBatch, ConfirmErrors, EnvBatch
<1>50. CASE RaucMarksTarget
  BY <1>50, MarkSteps DEF RaucMarksTarget
<1>51. CASE RaucWrites
  BY <1>51 DEF RaucWrites
<1>52. CASE RaucEnds
  BY <1>52 DEF RaucEnds
<1>53. CASE RaucFails
  BY <1>53 DEF RaucFails
<1>54. CASE PowerCut
  BY <1>54 DEF PowerCut, LosePower
<1>55. CASE Reboot
  BY <1>55 DEF Reboot, LosePower
<1>56. CASE LoaderBoots
  BY <1>56 DEF LoaderBoots
<1>57. CASE LoaderStops
  BY <1>57 DEF LoaderStops
<1>58. CASE EraseData
  BY <1>58 DEF EraseData
<1>59. CASE PhysicalReset
  BY <1>59 DEF PhysicalReset
<1>60. CASE HostdStarts
  BY <1>60 DEF HostdStarts
<1>61. CASE AppStarts
  BY <1>61 DEF AppStarts
<1>62. CASE AdminReboot
  BY <1>62 DEF AdminReboot
<1>63. CASE FactoryReset
  BY <1>63 DEF FactoryReset
<1>64. CASE RebootGoes
  BY <1>64 DEF RebootGoes
<1>65. CASE SupHealthy
  BY <1>65 DEF SupHealthy, OnTrial, IsTrialOf
<1>66. CASE SupUnreadable
  BY <1>66 DEF SupUnreadable
<1>67. CASE SupMarkGood
  <2>1. SamePending(env, env')
    BY <1>67, MarksAre DEF SupMarkGood
  <2> QED BY <1>67, <2>1 DEF SupMarkGood
<1>68. CASE SupConfirmed
  BY <1>68 DEF SupConfirmed
<1>69. CASE SupDeadline
  BY <1>69 DEF SupDeadline
<1>70. CASE HostdKilled
  BY <1>70 DEF HostdKilled, Killed
<1>71. CASE WorkerKilled
  BY <1>71 DEF WorkerKilled, Killed
<1>72. CASE ConfirmKilled
  BY <1>72 DEF ConfirmKilled, Killed
<1>73. CASE SupKilled
  BY <1>73 DEF SupKilled
<1>74. CASE RaucKilled
  BY <1>74 DEF RaucKilled
<1>75. CASE FinishSave("hostd")
  BY <1>75 DEF FinishSave
<1>76. CASE FinishGuard("hostd")
  BY <1>76 DEF FinishGuard
<1>77. CASE ReadySave("hostd")
  BY <1>77 DEF ReadySave
<1>78. CASE ReadyGuard("hostd")
  BY <1>78 DEF ReadyGuard
<1>79. CASE ReconcilingSave("hostd")
  BY <1>79 DEF ReconcilingSave
<1>80. CASE ReconcilingGuard("hostd")
  BY <1>80 DEF ReconcilingGuard
<1>81. CASE FinishSave("worker")
  BY <1>81 DEF FinishSave
<1>82. CASE FinishGuard("worker")
  BY <1>82 DEF FinishGuard
<1>83. CASE ReadySave("worker")
  BY <1>83 DEF ReadySave
<1>84. CASE ReadyGuard("worker")
  BY <1>84 DEF ReadyGuard
<1>85. CASE ReconcilingSave("worker")
  BY <1>85 DEF ReconcilingSave
<1>86. CASE ReconcilingGuard("worker")
  BY <1>86 DEF ReconcilingGuard
<1>87. CASE FinishSave("confirm")
  BY <1>87 DEF FinishSave
<1>88. CASE FinishGuard("confirm")
  BY <1>88 DEF FinishGuard
<1>89. CASE ReadySave("confirm")
  BY <1>89 DEF ReadySave
<1>90. CASE ReadyGuard("confirm")
  BY <1>90 DEF ReadyGuard
<1>91. CASE ReconcilingSave("confirm")
  BY <1>91 DEF ReconcilingSave
<1>92. CASE ReconcilingGuard("confirm")
  BY <1>92 DEF ReconcilingGuard
<1>93. CASE BackToReadyBad("hostd")
  BY <1>93 DEF BackToReadyBad, RaucMarksBad, Unanswered
<1>94. CASE BackToReadyClear("hostd")
  BY <1>94 DEF BackToReadyClear, EnvBatch
<1>95. CASE BackToReadyBad("worker")
  BY <1>95 DEF BackToReadyBad, RaucMarksBad, Unanswered
<1>96. CASE BackToReadyClear("worker")
  BY <1>96 DEF BackToReadyClear, EnvBatch
<1>97. CASE UNCHANGED vars
  BY <1>97 DEF vars
<1> HIDE DEF ProcType, PlaceInv, WorkerPCs, HostdPCs, ConfirmPCs, PowerInv, CopyInv,
  ExclusionInv, ActivationInv, TrialInv, Activating, Confirming, InTrial, SamePending, At, Goto,
  Call, JobOf, Programs, Off, WorkerActive, boot, machine, session
<1>98. HostdStep => ActivationInv'
  BY <1>1, <1>2, <1>3, <1>4, <1>5, <1>6, <1>7, <1>8, <1>9, <1>10, <1>11, <1>12, <1>13, <1>14,
    <1>15, <1>16, <1>17, <1>18, <1>19, <1>20, <1>75, <1>76, <1>77, <1>78, <1>79, <1>80, <1>93,
    <1>94
  DEF HostdStep, EndJob, BackToReady
<1>99. WorkerStep => ActivationInv'
  BY <1>21, <1>22, <1>23, <1>24, <1>25, <1>26, <1>27, <1>28, <1>29, <1>30, <1>31, <1>32, <1>33,
    <1>34, <1>35, <1>36, <1>37, <1>38, <1>39, <1>40, <1>41, <1>42, <1>43, <1>81, <1>82, <1>83,
    <1>84, <1>85, <1>86, <1>95, <1>96
  DEF WorkerStep, EndJob, BackToReady
<1>100. ConfirmStep => ActivationInv'
  BY <1>44, <1>45, <1>46, <1>47, <1>48, <1>49, <1>87, <1>88, <1>89, <1>90, <1>91, <1>92
  DEF ConfirmStep, EndJob
<1>101. RaucStep => ActivationInv'
  BY <1>50, <1>51, <1>52, <1>53
  DEF RaucStep
<1>102. MachineStep => ActivationInv'
  BY <1>54, <1>55, <1>56, <1>57, <1>58, <1>59, <1>60, <1>61, <1>62, <1>63, <1>64, <1>65, <1>66,
    <1>67, <1>68, <1>69, <1>70, <1>71, <1>72, <1>73, <1>74
  DEF MachineStep
<1> QED BY <1>97, <1>98, <1>99, <1>100, <1>101, <1>102 DEF Next

LEMMA TrialStep == BoxInv /\ [Next]_vars => TrialInv'
<1> SUFFICES ASSUME BoxInv, [Next]_vars PROVE TrialInv'
  OBVIOUS
<1>0. /\ env \in Env /\ proc \in ProcType /\ journal \in Job /\ slot \in Slots /\ TypeOK /\ PendingSound
      /\ PlaceInv /\ PowerInv /\ CopyInv /\ ExclusionInv /\ ActivationInv /\ TrialInv /\ PhaseInv
  BY DEF BoxInv, TypeOK, ProcType
<1> USE <1>0 DEF ProcType, PlaceInv, WorkerPCs, HostdPCs, ConfirmPCs, PowerInv, CopyInv, HoldsJob, ExclusionInv, ActivationInv,
        Activating, Reconciling, TrialInv, InTrial, Confirming, Quiet, SamePending, PhaseOnly,
        At, Goto, Call, JobOf, Programs, Off, files, store, boot, machine, session, WorkerActive, Serving,
        JobStates, Working, Terminal, Resumable, Named
<1>1. ASSUME NEW seq \in 1..MaxSeq, Install(seq) PROVE TrialInv'
  BY <1>1 DEF Install, NoOpenJob, Admissible, Healthy, NewJob, StartWorker
<1>2. CASE Cancel
  BY <1>2 DEF Cancel
<1>3. CASE CancelCheck
  BY <1>3 DEF CancelCheck
<1>4. CASE Dismiss
  BY <1>4, JobsAre DEF Dismiss
<1>5. CASE View
  BY <1>5 DEF View, Serving
<1>6. CASE Restart
  BY <1>6 DEF Restart, StartWorker
<1>7. CASE Discard
  BY <1>7, MarkSteps DEF Discard, RaucMarksBad, Unanswered
<1>8. CASE ReconcileCarriesOn
  BY <1>8 DEF ReconcileCarriesOn, WorkerCarriesOn
<1>9. CASE ReconcileNoPending
  BY <1>9 DEF ReconcileNoPending, WorkerCarriesOn, ReconcileJournal, GuardFor, StartWorker
<1>10. CASE ReconcilePending
  BY <1>10, JobsMade DEF ReconcilePending, WorkerCarriesOn, NeverTried, Rebuilt
<1>11. CASE TrialClear
  BY <1>11, BatchSteps DEF TrialClear, EnvBatch
<1>12. CASE TrialIdle
  BY <1>12 DEF TrialIdle
<1>13. CASE TrialSave
  BY <1>13, WithStateIs DEF TrialSave
<1>14. CASE TrialGuard
  BY <1>14 DEF TrialGuard
<1>15. CASE RollbackBad
  BY <1>15, MarkSteps DEF RollbackBad, RaucMarksBad, Unanswered
<1>16. CASE RollbackActive
  BY <1>16, MarkSteps DEF RollbackActive, EnvBatch, Unanswered
<1>17. CASE RollbackFinish
  BY <1>17 DEF RollbackFinish
<1>18. CASE RollbackClear
  BY <1>18, BatchSteps DEF RollbackClear, EnvBatch
<1>19. CASE InterruptedBad
  BY <1>19, MarkSteps DEF InterruptedBad, RaucMarksBad, Unanswered
<1>20. CASE HostdServes
  BY <1>20 DEF HostdServes
<1>21. CASE WorkerBegin
  BY <1>21 DEF WorkerBegin
<1>22. CASE WorkerReads
  BY <1>22 DEF WorkerReads
<1>23. CASE WorkerStarts
  BY <1>23 DEF WorkerStarts, WorkerFinish, CancelSeen
<1>24. CASE WorkerLease
  BY <1>24 DEF WorkerLease, WorkerFinish
<1>25. CASE WorkerGuard
  BY <1>25 DEF WorkerGuard
<1>26. CASE WorkerWork
  BY <1>26 DEF WorkerWork, WorkerFinish
<1>27. CASE WorkerDownload
  BY <1>27 DEF WorkerDownload, WorkerFinish, CancelSeen, RebootPromised
<1>28. CASE WorkerVerifying
  BY <1>28 DEF WorkerVerifying
<1>29. CASE WorkerCheckCancel
  BY <1>29 DEF WorkerCheckCancel, WorkerFinish, CancelSeen
<1>30. CASE WorkerIdentity
  BY <1>30 DEF WorkerIdentity, WorkerFinish
<1>31. CASE WorkerInstalling
  BY <1>31 DEF WorkerInstalling
<1>32. CASE WorkerCallsRauc
  BY <1>32 DEF WorkerCallsRauc
<1>33. CASE WorkerRaucDone
  BY <1>33 DEF WorkerRaucDone
<1>34. CASE WorkerCompleteInstall
  BY <1>34 DEF WorkerCompleteInstall
<1>35. CASE WorkerFailInstall
  BY <1>35, MarkSteps DEF WorkerFailInstall, RaucMarksBad, Unanswered, WorkerFinish
<1>36. CASE WorkerReconcileInstall
  BY <1>36 DEF WorkerReconcileInstall
<1>37. CASE ActivateBegin
  BY <1>37 DEF ActivateBegin, Admissible, TargetVerified
<1>38. CASE ActivateIntent
  BY <1>38, BatchSteps DEF ActivateIntent, EnvBatch
<1>39. CASE ActivateMark
  BY <1>39, MarkSteps DEF ActivateMark, EnvBatch, Unanswered
<1>40. CASE ActivateActivated
  BY <1>40, BatchSteps DEF ActivateActivated, EnvBatch
<1>41. CASE ActivateSave
  BY <1>41 DEF ActivateSave
<1>42. CASE ActivateReboot
  BY <1>42 DEF ActivateReboot
<1>43. CASE WorkerExit
  BY <1>43 DEF WorkerExit
<1>44. CASE ConfirmBegin
  BY <1>44 DEF ConfirmBegin, TrialPhases, IsTrialOf
<1>45. CASE ConfirmIntent
  BY <1>45, BatchSteps DEF ConfirmIntent, ConfirmBatch, ConfirmErrors, EnvBatch
<1>46. CASE ConfirmMarkGood
  BY <1>46, MarkSteps DEF ConfirmMarkGood, ConfirmBatch, ConfirmErrors, EnvBatch
<1>47. CASE ConfirmPromote
  BY <1>47, BatchSteps DEF ConfirmPromote, ConfirmBatch, ConfirmErrors, EnvBatch
<1>48. CASE ConfirmJournal
  BY <1>48 DEF ConfirmJournal, ConfirmErrors, Rebuilt
<1>49. CASE ConfirmClear
  <2>1. ClearPending(env).pending = 0
    BY ClearIs
  <2>2. At("confirm", "c_ok")' => env' = ClearPending(env)
    BY <1>49 DEF ConfirmClear, ConfirmBatch, ConfirmErrors, EnvBatch
  <2> QED BY <1>49, <2>1, <2>2 DEF ConfirmClear, ConfirmBatch, ConfirmErrors, EnvBatch
<1>50. CASE RaucMarksTarget
  BY <1>50, MarkSteps DEF RaucMarksTarget
<1>51. CASE RaucWrites
  BY <1>51 DEF RaucWrites
<1>52. CASE RaucEnds
  BY <1>52 DEF RaucEnds
<1>53. CASE RaucFails
  BY <1>53 DEF RaucFails
<1>54. CASE PowerCut
  BY <1>54 DEF PowerCut, LosePower
<1>55. CASE Reboot
  BY <1>55 DEF Reboot, LosePower
<1>56. CASE LoaderBoots
  <2>1. /\ power = "loader" /\ proc' = proc /\ wreq' = wreq /\ health' = health /\ appUp' = appUp /\ journal' = journal
        /\ env' = LoaderSpend(env) /\ ~LoaderHalts(env)
        /\ (power' = "loader" /\ sup' = sup) \/ (slot' = LoaderSlot(env) /\ sup' = "checking")
    BY <1>56 DEF LoaderBoots
  <2>2. /\ env'.pending = env.pending /\ env'.target = env.target
        /\ env'.trial = IF env.pending # 0 /\ LoaderSlot(env) = env.target THEN env.pending ELSE env.trial
    BY <2>1, LoaderIs
  <2>3. /\ \A p \in Programs : proc'[p].pc = "off"
        /\ ~wreq' /\ ~appUp' /\ health' = NoSlot /\ slot' # NoSlot
    BY <2>1, LoaderIs, <1>56 DEF NoSlot, Slots, LoaderBoots
  <2> QED BY <2>1, <2>2, <2>3
<1>57. CASE LoaderStops
  BY <1>57 DEF LoaderStops
<1>58. CASE EraseData
  BY <1>58 DEF EraseData
<1>59. CASE PhysicalReset
  BY <1>59 DEF PhysicalReset
<1>60. CASE HostdStarts
  BY <1>60 DEF HostdStarts
<1>61. CASE AppStarts
  BY <1>61 DEF AppStarts
<1>62. CASE AdminReboot
  BY <1>62 DEF AdminReboot
<1>63. CASE FactoryReset
  BY <1>63 DEF FactoryReset
<1>64. CASE RebootGoes
  BY <1>64 DEF RebootGoes
<1>65. CASE SupHealthy
  BY <1>65 DEF SupHealthy, OnTrial, IsTrialOf
<1>66. CASE SupUnreadable
  BY <1>66 DEF SupUnreadable
<1>67. CASE SupMarkGood
  BY <1>67, MarkSteps DEF SupMarkGood
<1>68. CASE SupConfirmed
  BY <1>68 DEF SupConfirmed
<1>69. CASE SupDeadline
  BY <1>69 DEF SupDeadline
<1>70. CASE HostdKilled
  BY <1>70 DEF HostdKilled, Killed
<1>71. CASE WorkerKilled
  BY <1>71 DEF WorkerKilled, Killed
<1>72. CASE ConfirmKilled
  BY <1>72 DEF ConfirmKilled, Killed
<1>73. CASE SupKilled
  BY <1>73 DEF SupKilled
<1>74. CASE RaucKilled
  BY <1>74 DEF RaucKilled
<1>75. CASE FinishSave("hostd")
  BY <1>75 DEF FinishSave
<1>76. CASE FinishGuard("hostd")
  BY <1>76 DEF FinishGuard
<1>77. CASE ReadySave("hostd")
  BY <1>77 DEF ReadySave
<1>78. CASE ReadyGuard("hostd")
  BY <1>78 DEF ReadyGuard
<1>79. CASE ReconcilingSave("hostd")
  BY <1>79 DEF ReconcilingSave
<1>80. CASE ReconcilingGuard("hostd")
  BY <1>80 DEF ReconcilingGuard
<1>81. CASE FinishSave("worker")
  BY <1>81 DEF FinishSave
<1>82. CASE FinishGuard("worker")
  BY <1>82 DEF FinishGuard
<1>83. CASE ReadySave("worker")
  BY <1>83 DEF ReadySave
<1>84. CASE ReadyGuard("worker")
  BY <1>84 DEF ReadyGuard
<1>85. CASE ReconcilingSave("worker")
  BY <1>85 DEF ReconcilingSave
<1>86. CASE ReconcilingGuard("worker")
  BY <1>86 DEF ReconcilingGuard
<1>87. CASE FinishSave("confirm")
  BY <1>87 DEF FinishSave
<1>88. CASE FinishGuard("confirm")
  BY <1>88 DEF FinishGuard
<1>89. CASE ReadySave("confirm")
  BY <1>89 DEF ReadySave
<1>90. CASE ReadyGuard("confirm")
  BY <1>90 DEF ReadyGuard
<1>91. CASE ReconcilingSave("confirm")
  BY <1>91 DEF ReconcilingSave
<1>92. CASE ReconcilingGuard("confirm")
  BY <1>92 DEF ReconcilingGuard
<1>93. CASE BackToReadyBad("hostd")
  BY <1>93, MarkSteps DEF BackToReadyBad, RaucMarksBad, Unanswered
<1>94. CASE BackToReadyClear("hostd")
  BY <1>94, BatchSteps DEF BackToReadyClear, EnvBatch
<1>95. CASE BackToReadyBad("worker")
  BY <1>95, MarkSteps DEF BackToReadyBad, RaucMarksBad, Unanswered
<1>96. CASE BackToReadyClear("worker")
  BY <1>96, BatchSteps DEF BackToReadyClear, EnvBatch
<1>97. CASE UNCHANGED vars
  BY <1>97 DEF vars
<1> HIDE DEF ProcType, PlaceInv, WorkerPCs, HostdPCs, ConfirmPCs, PowerInv, CopyInv, HoldsJob,
  ExclusionInv, ActivationInv, Activating, Reconciling, TrialInv, InTrial, Confirming, Quiet,
  SamePending, PhaseOnly, At, Goto, Call, JobOf, Programs, Off, files, store, boot, machine,
  session, WorkerActive, Serving, JobStates, Working, Terminal, Resumable, Named
<1>98. HostdStep => TrialInv'
  BY <1>1, <1>2, <1>3, <1>4, <1>5, <1>6, <1>7, <1>8, <1>9, <1>10, <1>11, <1>12, <1>13, <1>14,
    <1>15, <1>16, <1>17, <1>18, <1>19, <1>20, <1>75, <1>76, <1>77, <1>78, <1>79, <1>80, <1>93,
    <1>94
  DEF HostdStep, EndJob, BackToReady
<1>99. WorkerStep => TrialInv'
  BY <1>21, <1>22, <1>23, <1>24, <1>25, <1>26, <1>27, <1>28, <1>29, <1>30, <1>31, <1>32, <1>33,
    <1>34, <1>35, <1>36, <1>37, <1>38, <1>39, <1>40, <1>41, <1>42, <1>43, <1>81, <1>82, <1>83,
    <1>84, <1>85, <1>86, <1>95, <1>96
  DEF WorkerStep, EndJob, BackToReady
<1>100. ConfirmStep => TrialInv'
  BY <1>44, <1>45, <1>46, <1>47, <1>48, <1>49, <1>87, <1>88, <1>89, <1>90, <1>91, <1>92
  DEF ConfirmStep, EndJob
<1>101. RaucStep => TrialInv'
  BY <1>50, <1>51, <1>52, <1>53
  DEF RaucStep
<1>102. MachineStep => TrialInv'
  BY <1>54, <1>55, <1>56, <1>57, <1>58, <1>59, <1>60, <1>61, <1>62, <1>63, <1>64, <1>65, <1>66,
    <1>67, <1>68, <1>69, <1>70, <1>71, <1>72, <1>73, <1>74
  DEF MachineStep
<1> QED BY <1>97, <1>98, <1>99, <1>100, <1>101, <1>102 DEF Next

LEMMA PhaseStep == BoxInv /\ [Next]_vars => PhaseInv'
<1> SUFFICES ASSUME BoxInv, [Next]_vars PROVE PhaseInv'
  OBVIOUS
<1>0. /\ env \in Env /\ proc \in ProcType /\ journal \in Job /\ slot \in Slots /\ TypeOK /\ PendingSound
      /\ PlaceInv /\ PowerInv /\ CopyInv /\ ExclusionInv /\ ActivationInv /\ TrialInv /\ PhaseInv
  BY DEF BoxInv, TypeOK, ProcType
<1> USE <1>0 DEF ProcType, PlaceInv, WorkerPCs, HostdPCs, ConfirmPCs, PowerInv, CopyInv, HoldsJob, ExclusionInv, ActivationInv,
        Activating, Reconciling, TrialInv, InTrial, Confirming, Quiet, SamePending, PhaseOnly,
        At, Goto, Call, JobOf, Programs, Off, files, store, boot, machine, session, WorkerActive, Serving,
        JobStates, Working, Terminal, Resumable, Named, PhaseInv
<1>1. ASSUME NEW seq \in 1..MaxSeq, Install(seq) PROVE PhaseInv'
  BY <1>1 DEF Install, NoOpenJob, Admissible, Healthy, NewJob, StartWorker
<1>2. CASE Cancel
  BY <1>2 DEF Cancel
<1>3. CASE CancelCheck
  BY <1>3, WithStateIs DEF CancelCheck
<1>4. CASE Dismiss
  BY <1>4, JobsAre DEF Dismiss
<1>5. CASE View
  BY <1>5 DEF View, Serving
<1>6. CASE Restart
  BY <1>6, WithStateIs DEF Restart, StartWorker
<1>7. CASE Discard
  BY <1>7, WithStateIs DEF Discard, RaucMarksBad, Unanswered
<1>8. CASE ReconcileCarriesOn
  BY <1>8 DEF ReconcileCarriesOn, WorkerCarriesOn
<1>9. CASE ReconcileNoPending
  BY <1>9 DEF ReconcileNoPending, WorkerCarriesOn, ReconcileJournal, GuardFor, StartWorker
<1>10. CASE ReconcilePending
  BY <1>10, JobsMade DEF ReconcilePending, WorkerCarriesOn, NeverTried, Rebuilt
<1>11. CASE TrialClear
  BY <1>11, BatchSteps DEF TrialClear, EnvBatch
<1>12. CASE TrialIdle
  BY <1>12 DEF TrialIdle
<1>13. CASE TrialSave
  BY <1>13, WithStateIs DEF TrialSave
<1>14. CASE TrialGuard
  BY <1>14 DEF TrialGuard
<1>15. CASE RollbackBad
  BY <1>15, MarkSteps DEF RollbackBad, RaucMarksBad, Unanswered
<1>16. CASE RollbackActive
  BY <1>16, MarkSteps DEF RollbackActive, EnvBatch, Unanswered
<1>17. CASE RollbackFinish
  BY <1>17, WithStateIs DEF RollbackFinish
<1>18. CASE RollbackClear
  BY <1>18, BatchSteps DEF RollbackClear, EnvBatch
<1>19. CASE InterruptedBad
  BY <1>19, WithStateIs, MarkSteps DEF InterruptedBad, RaucMarksBad, Unanswered
<1>20. CASE HostdServes
  BY <1>20 DEF HostdServes
<1>21. CASE WorkerBegin
  BY <1>21 DEF WorkerBegin
<1>22. CASE WorkerReads
  BY <1>22 DEF WorkerReads
<1>23. CASE WorkerStarts
  BY <1>23 DEF WorkerStarts, WorkerFinish, CancelSeen
<1>24. CASE WorkerLease
  BY <1>24 DEF WorkerLease, WorkerFinish
<1>25. CASE WorkerGuard
  BY <1>25 DEF WorkerGuard
<1>26. CASE WorkerWork
  BY <1>26 DEF WorkerWork, WorkerFinish
<1>27. CASE WorkerDownload
  BY <1>27 DEF WorkerDownload, WorkerFinish, CancelSeen, RebootPromised
<1>28. CASE WorkerVerifying
  BY <1>28 DEF WorkerVerifying
<1>29. CASE WorkerCheckCancel
  BY <1>29 DEF WorkerCheckCancel, WorkerFinish, CancelSeen
<1>30. CASE WorkerIdentity
  BY <1>30 DEF WorkerIdentity, WorkerFinish
<1>31. CASE WorkerInstalling
  BY <1>31 DEF WorkerInstalling
<1>32. CASE WorkerCallsRauc
  BY <1>32 DEF WorkerCallsRauc
<1>33. CASE WorkerRaucDone
  BY <1>33 DEF WorkerRaucDone
<1>34. CASE WorkerCompleteInstall
  BY <1>34 DEF WorkerCompleteInstall
<1>35. CASE WorkerFailInstall
  BY <1>35, MarkSteps DEF WorkerFailInstall, RaucMarksBad, Unanswered, WorkerFinish
<1>36. CASE WorkerReconcileInstall
  BY <1>36 DEF WorkerReconcileInstall
<1>37. CASE ActivateBegin
  BY <1>37 DEF ActivateBegin, Admissible, TargetVerified
<1>38. CASE ActivateIntent
  BY <1>38 DEF ActivateIntent, EnvBatch
<1>39. CASE ActivateMark
  BY <1>39 DEF ActivateMark, EnvBatch, Unanswered
<1>40. CASE ActivateActivated
  BY <1>40 DEF ActivateActivated, EnvBatch
<1>41. CASE ActivateSave
  BY <1>41 DEF ActivateSave
<1>42. CASE ActivateReboot
  BY <1>42 DEF ActivateReboot
<1>43. CASE WorkerExit
  BY <1>43 DEF WorkerExit
<1>44. CASE ConfirmBegin
  BY <1>44 DEF ConfirmBegin, TrialPhases, IsTrialOf
<1>45. CASE ConfirmIntent
  <2>1. PhaseOnly(env, SetPhase(env, "confirming"), "confirming")
    BY DEF SetPhase, Env
  <2>2. At("confirm", "confirming")' => env' = SetPhase(env, "confirming")
    BY <1>45 DEF ConfirmIntent, ConfirmBatch, ConfirmErrors, EnvBatch
  <2> QED BY <1>45, <2>1, <2>2 DEF ConfirmIntent, ConfirmBatch, ConfirmErrors, EnvBatch
<1>46. CASE ConfirmMarkGood
  BY <1>46, MarkSteps DEF ConfirmMarkGood, ConfirmBatch, ConfirmErrors, EnvBatch
<1>47. CASE ConfirmPromote
  <2>1. PhaseOnly(env, Promote(env, JobOf("confirm").seq), "promoting")
    BY DEF Promote, Env
  <2>2. At("confirm", "promoting")' => env' = Promote(env, JobOf("confirm").seq)
    BY <1>47 DEF ConfirmPromote, ConfirmBatch, ConfirmErrors, EnvBatch
  <2> QED BY <1>47, <2>1, <2>2 DEF ConfirmPromote, ConfirmBatch, ConfirmErrors, EnvBatch
<1>48. CASE ConfirmJournal
  BY <1>48 DEF ConfirmJournal, ConfirmErrors, Rebuilt
<1>49. CASE ConfirmClear
  BY <1>49, BatchSteps DEF ConfirmClear, ConfirmBatch, ConfirmErrors, EnvBatch
<1>50. CASE RaucMarksTarget
  BY <1>50, MarkSteps DEF RaucMarksTarget
<1>51. CASE RaucWrites
  BY <1>51 DEF RaucWrites
<1>52. CASE RaucEnds
  BY <1>52 DEF RaucEnds
<1>53. CASE RaucFails
  BY <1>53 DEF RaucFails
<1>54. CASE PowerCut
  BY <1>54 DEF PowerCut, LosePower
<1>55. CASE Reboot
  BY <1>55 DEF Reboot, LosePower
<1>56. CASE LoaderBoots
  BY <1>56, LoaderIs DEF LoaderBoots
<1>57. CASE LoaderStops
  BY <1>57 DEF LoaderStops
<1>58. CASE EraseData
  BY <1>58, JobsAre DEF EraseData
<1>59. CASE PhysicalReset
  BY <1>59 DEF PhysicalReset
<1>60. CASE HostdStarts
  BY <1>60 DEF HostdStarts
<1>61. CASE AppStarts
  BY <1>61 DEF AppStarts
<1>62. CASE AdminReboot
  BY <1>62 DEF AdminReboot
<1>63. CASE FactoryReset
  BY <1>63 DEF FactoryReset
<1>64. CASE RebootGoes
  BY <1>64 DEF RebootGoes
<1>65. CASE SupHealthy
  BY <1>65 DEF SupHealthy, OnTrial, IsTrialOf
<1>66. CASE SupUnreadable
  BY <1>66 DEF SupUnreadable
<1>67. CASE SupMarkGood
  BY <1>67, MarkSteps DEF SupMarkGood
<1>68. CASE SupConfirmed
  BY <1>68 DEF SupConfirmed
<1>69. CASE SupDeadline
  BY <1>69 DEF SupDeadline
<1>70. CASE HostdKilled
  BY <1>70 DEF HostdKilled, Killed
<1>71. CASE WorkerKilled
  BY <1>71 DEF WorkerKilled, Killed
<1>72. CASE ConfirmKilled
  BY <1>72 DEF ConfirmKilled, Killed
<1>73. CASE SupKilled
  BY <1>73 DEF SupKilled
<1>74. CASE RaucKilled
  BY <1>74 DEF RaucKilled
<1>75. CASE FinishSave("hostd")
  BY <1>75 DEF FinishSave
<1>76. CASE FinishGuard("hostd")
  BY <1>76 DEF FinishGuard
<1>77. CASE ReadySave("hostd")
  BY <1>77, WithStateIs DEF ReadySave
<1>78. CASE ReadyGuard("hostd")
  BY <1>78 DEF ReadyGuard
<1>79. CASE ReconcilingSave("hostd")
  BY <1>79, WithStateIs DEF ReconcilingSave
<1>80. CASE ReconcilingGuard("hostd")
  BY <1>80 DEF ReconcilingGuard
<1>81. CASE FinishSave("worker")
  BY <1>81 DEF FinishSave
<1>82. CASE FinishGuard("worker")
  BY <1>82 DEF FinishGuard
<1>83. CASE ReadySave("worker")
  BY <1>83, WithStateIs DEF ReadySave
<1>84. CASE ReadyGuard("worker")
  BY <1>84 DEF ReadyGuard
<1>85. CASE ReconcilingSave("worker")
  BY <1>85, WithStateIs DEF ReconcilingSave
<1>86. CASE ReconcilingGuard("worker")
  BY <1>86 DEF ReconcilingGuard
<1>87. CASE FinishSave("confirm")
  BY <1>87 DEF FinishSave
<1>88. CASE FinishGuard("confirm")
  BY <1>88 DEF FinishGuard
<1>89. CASE ReadySave("confirm")
  BY <1>89 DEF ReadySave
<1>90. CASE ReadyGuard("confirm")
  BY <1>90 DEF ReadyGuard
<1>91. CASE ReconcilingSave("confirm")
  BY <1>91 DEF ReconcilingSave
<1>92. CASE ReconcilingGuard("confirm")
  BY <1>92 DEF ReconcilingGuard
<1>93. CASE BackToReadyBad("hostd")
  BY <1>93, MarkSteps DEF BackToReadyBad, RaucMarksBad, Unanswered
<1>94. CASE BackToReadyClear("hostd")
  BY <1>94, BatchSteps DEF BackToReadyClear, EnvBatch
<1>95. CASE BackToReadyBad("worker")
  BY <1>95, MarkSteps DEF BackToReadyBad, RaucMarksBad, Unanswered
<1>96. CASE BackToReadyClear("worker")
  BY <1>96, BatchSteps DEF BackToReadyClear, EnvBatch
<1>97. CASE UNCHANGED vars
  BY <1>97 DEF vars
<1> HIDE DEF ProcType, PlaceInv, WorkerPCs, HostdPCs, ConfirmPCs, PowerInv, CopyInv, HoldsJob,
  ExclusionInv, ActivationInv, Activating, Reconciling, TrialInv, InTrial, Confirming, Quiet,
  SamePending, PhaseOnly, At, Goto, Call, JobOf, Programs, Off, files, store, boot, machine,
  session, WorkerActive, Serving, JobStates, Working, Terminal, Resumable, Named, PhaseInv
<1>98. HostdStep => PhaseInv'
  BY <1>1, <1>2, <1>3, <1>4, <1>5, <1>6, <1>7, <1>8, <1>9, <1>10, <1>11, <1>12, <1>13, <1>14,
    <1>15, <1>16, <1>17, <1>18, <1>19, <1>20, <1>75, <1>76, <1>77, <1>78, <1>79, <1>80, <1>93,
    <1>94
  DEF HostdStep, EndJob, BackToReady
<1>99. WorkerStep => PhaseInv'
  BY <1>21, <1>22, <1>23, <1>24, <1>25, <1>26, <1>27, <1>28, <1>29, <1>30, <1>31, <1>32, <1>33,
    <1>34, <1>35, <1>36, <1>37, <1>38, <1>39, <1>40, <1>41, <1>42, <1>43, <1>81, <1>82, <1>83,
    <1>84, <1>85, <1>86, <1>95, <1>96
  DEF WorkerStep, EndJob, BackToReady
<1>100. ConfirmStep => PhaseInv'
  BY <1>44, <1>45, <1>46, <1>47, <1>48, <1>49, <1>87, <1>88, <1>89, <1>90, <1>91, <1>92
  DEF ConfirmStep, EndJob
<1>101. RaucStep => PhaseInv'
  BY <1>50, <1>51, <1>52, <1>53
  DEF RaucStep
<1>102. MachineStep => PhaseInv'
  BY <1>54, <1>55, <1>56, <1>57, <1>58, <1>59, <1>60, <1>61, <1>62, <1>63, <1>64, <1>65, <1>66,
    <1>67, <1>68, <1>69, <1>70, <1>71, <1>72, <1>73, <1>74
  DEF MachineStep
<1> QED BY <1>97, <1>98, <1>99, <1>100, <1>101, <1>102 DEF Next

LEMMA PendingStep == BoxInv /\ [Next]_vars => PendingSound'
<1> SUFFICES ASSUME BoxInv, [Next]_vars PROVE PendingSound'
  OBVIOUS
<1>0. /\ env \in Env /\ proc \in ProcType /\ journal \in Job /\ slot \in Slots /\ TypeOK /\ PendingSound
      /\ PlaceInv /\ PowerInv /\ CopyInv /\ ExclusionInv /\ ActivationInv /\ TrialInv /\ PhaseInv
  BY DEF BoxInv, TypeOK, ProcType
<1> USE <1>0 DEF ProcType, PlaceInv, WorkerPCs, HostdPCs, ConfirmPCs, PowerInv, CopyInv, HoldsJob, ExclusionInv, ActivationInv,
        Activating, Reconciling, TrialInv, InTrial, Confirming, Quiet, SamePending, PhaseOnly,
        At, Goto, Call, JobOf, Programs, Off, files, store, boot, machine, session, WorkerActive, Serving,
        JobStates, Working, Terminal, Resumable, Named, PhaseInv, PendingSound, PendingConsistent
<1>1. ASSUME NEW seq \in 1..MaxSeq, Install(seq) PROVE PendingSound'
  BY <1>1 DEF Install, NoOpenJob, Admissible, Healthy, NewJob, StartWorker
<1>2. CASE Cancel
  BY <1>2 DEF Cancel
<1>3. CASE CancelCheck
  BY <1>3 DEF CancelCheck
<1>4. CASE Dismiss
  BY <1>4 DEF Dismiss
<1>5. CASE View
  BY <1>5 DEF View, Serving
<1>6. CASE Restart
  BY <1>6 DEF Restart, StartWorker
<1>7. CASE Discard
  BY <1>7, MarkSteps DEF Discard, RaucMarksBad, Unanswered
<1>8. CASE ReconcileCarriesOn
  BY <1>8 DEF ReconcileCarriesOn, WorkerCarriesOn
<1>9. CASE ReconcileNoPending
  BY <1>9 DEF ReconcileNoPending, WorkerCarriesOn, ReconcileJournal, GuardFor, StartWorker
<1>10. CASE ReconcilePending
  BY <1>10 DEF ReconcilePending, WorkerCarriesOn, NeverTried, Rebuilt
<1>11. CASE TrialClear
  BY <1>11, BatchSteps DEF TrialClear, EnvBatch
<1>12. CASE TrialIdle
  BY <1>12 DEF TrialIdle
<1>13. CASE TrialSave
  BY <1>13 DEF TrialSave
<1>14. CASE TrialGuard
  BY <1>14 DEF TrialGuard
<1>15. CASE RollbackBad
  BY <1>15, MarkSteps DEF RollbackBad, RaucMarksBad, Unanswered
<1>16. CASE RollbackActive
  BY <1>16, MarkSteps DEF RollbackActive, EnvBatch, Unanswered
<1>17. CASE RollbackFinish
  BY <1>17 DEF RollbackFinish
<1>18. CASE RollbackClear
  BY <1>18, BatchSteps DEF RollbackClear, EnvBatch
<1>19. CASE InterruptedBad
  BY <1>19, MarkSteps DEF InterruptedBad, RaucMarksBad, Unanswered
<1>20. CASE HostdServes
  BY <1>20 DEF HostdServes
<1>21. CASE WorkerBegin
  BY <1>21 DEF WorkerBegin
<1>22. CASE WorkerReads
  BY <1>22 DEF WorkerReads
<1>23. CASE WorkerStarts
  BY <1>23 DEF WorkerStarts, WorkerFinish, CancelSeen
<1>24. CASE WorkerLease
  BY <1>24 DEF WorkerLease, WorkerFinish
<1>25. CASE WorkerGuard
  BY <1>25 DEF WorkerGuard
<1>26. CASE WorkerWork
  BY <1>26 DEF WorkerWork, WorkerFinish
<1>27. CASE WorkerDownload
  BY <1>27 DEF WorkerDownload, WorkerFinish, CancelSeen, RebootPromised
<1>28. CASE WorkerVerifying
  BY <1>28 DEF WorkerVerifying
<1>29. CASE WorkerCheckCancel
  BY <1>29 DEF WorkerCheckCancel, WorkerFinish, CancelSeen
<1>30. CASE WorkerIdentity
  BY <1>30 DEF WorkerIdentity, WorkerFinish
<1>31. CASE WorkerInstalling
  BY <1>31 DEF WorkerInstalling
<1>32. CASE WorkerCallsRauc
  BY <1>32 DEF WorkerCallsRauc
<1>33. CASE WorkerRaucDone
  BY <1>33 DEF WorkerRaucDone
<1>34. CASE WorkerCompleteInstall
  BY <1>34 DEF WorkerCompleteInstall
<1>35. CASE WorkerFailInstall
  BY <1>35, MarkSteps DEF WorkerFailInstall, RaucMarksBad, Unanswered, WorkerFinish
<1>36. CASE WorkerReconcileInstall
  BY <1>36 DEF WorkerReconcileInstall
<1>37. CASE ActivateBegin
  BY <1>37 DEF ActivateBegin, Admissible, TargetVerified
<1>38. CASE ActivateIntent
  <2>1. JobOf("worker").id # 0 /\ JobOf("worker").seq # 0 /\ JobOf("worker").tgt \in Slots
    BY <1>38, JobsAre DEF ActivateIntent
  <2> QED BY <1>38, <2>1, BatchSteps
<1>39. CASE ActivateMark
  BY <1>39, MarkSteps DEF ActivateMark, EnvBatch, Unanswered
<1>40. CASE ActivateActivated
  <2>1. env.pending # 0
    BY <1>40 DEF ActivateActivated
  <2> QED BY <1>40, <2>1, BatchSteps
<1>41. CASE ActivateSave
  BY <1>41 DEF ActivateSave
<1>42. CASE ActivateReboot
  BY <1>42 DEF ActivateReboot
<1>43. CASE WorkerExit
  BY <1>43 DEF WorkerExit
<1>44. CASE ConfirmBegin
  BY <1>44 DEF ConfirmBegin, TrialPhases, IsTrialOf
<1>45. CASE ConfirmIntent
  BY <1>45, BatchSteps DEF ConfirmIntent, ConfirmBatch, ConfirmErrors, EnvBatch
<1>46. CASE ConfirmMarkGood
  BY <1>46, MarkSteps DEF ConfirmMarkGood, ConfirmBatch, ConfirmErrors, EnvBatch
<1>47. CASE ConfirmPromote
  BY <1>47, BatchSteps DEF ConfirmPromote, ConfirmBatch, ConfirmErrors, EnvBatch
<1>48. CASE ConfirmJournal
  BY <1>48 DEF ConfirmJournal, ConfirmErrors, Rebuilt
<1>49. CASE ConfirmClear
  BY <1>49, BatchSteps DEF ConfirmClear, ConfirmBatch, ConfirmErrors, EnvBatch
<1>50. CASE RaucMarksTarget
  BY <1>50, MarkSteps DEF RaucMarksTarget
<1>51. CASE RaucWrites
  BY <1>51 DEF RaucWrites
<1>52. CASE RaucEnds
  BY <1>52 DEF RaucEnds
<1>53. CASE RaucFails
  BY <1>53 DEF RaucFails
<1>54. CASE PowerCut
  BY <1>54 DEF PowerCut, LosePower
<1>55. CASE Reboot
  BY <1>55 DEF Reboot, LosePower
<1>56. CASE LoaderBoots
  BY <1>56, LoaderIs DEF LoaderBoots
<1>57. CASE LoaderStops
  BY <1>57 DEF LoaderStops
<1>58. CASE EraseData
  BY <1>58 DEF EraseData
<1>59. CASE PhysicalReset
  BY <1>59 DEF PhysicalReset
<1>60. CASE HostdStarts
  BY <1>60 DEF HostdStarts
<1>61. CASE AppStarts
  BY <1>61 DEF AppStarts
<1>62. CASE AdminReboot
  BY <1>62 DEF AdminReboot
<1>63. CASE FactoryReset
  BY <1>63 DEF FactoryReset
<1>64. CASE RebootGoes
  BY <1>64 DEF RebootGoes
<1>65. CASE SupHealthy
  BY <1>65 DEF SupHealthy, OnTrial, IsTrialOf
<1>66. CASE SupUnreadable
  BY <1>66 DEF SupUnreadable
<1>67. CASE SupMarkGood
  BY <1>67, MarkSteps DEF SupMarkGood
<1>68. CASE SupConfirmed
  BY <1>68 DEF SupConfirmed
<1>69. CASE SupDeadline
  BY <1>69 DEF SupDeadline
<1>70. CASE HostdKilled
  BY <1>70 DEF HostdKilled, Killed
<1>71. CASE WorkerKilled
  BY <1>71 DEF WorkerKilled, Killed
<1>72. CASE ConfirmKilled
  BY <1>72 DEF ConfirmKilled, Killed
<1>73. CASE SupKilled
  BY <1>73 DEF SupKilled
<1>74. CASE RaucKilled
  BY <1>74 DEF RaucKilled
<1>75. CASE FinishSave("hostd")
  BY <1>75 DEF FinishSave
<1>76. CASE FinishGuard("hostd")
  BY <1>76 DEF FinishGuard
<1>77. CASE ReadySave("hostd")
  BY <1>77 DEF ReadySave
<1>78. CASE ReadyGuard("hostd")
  BY <1>78 DEF ReadyGuard
<1>79. CASE ReconcilingSave("hostd")
  BY <1>79 DEF ReconcilingSave
<1>80. CASE ReconcilingGuard("hostd")
  BY <1>80 DEF ReconcilingGuard
<1>81. CASE FinishSave("worker")
  BY <1>81 DEF FinishSave
<1>82. CASE FinishGuard("worker")
  BY <1>82 DEF FinishGuard
<1>83. CASE ReadySave("worker")
  BY <1>83 DEF ReadySave
<1>84. CASE ReadyGuard("worker")
  BY <1>84 DEF ReadyGuard
<1>85. CASE ReconcilingSave("worker")
  BY <1>85 DEF ReconcilingSave
<1>86. CASE ReconcilingGuard("worker")
  BY <1>86 DEF ReconcilingGuard
<1>87. CASE FinishSave("confirm")
  BY <1>87 DEF FinishSave
<1>88. CASE FinishGuard("confirm")
  BY <1>88 DEF FinishGuard
<1>89. CASE ReadySave("confirm")
  BY <1>89 DEF ReadySave
<1>90. CASE ReadyGuard("confirm")
  BY <1>90 DEF ReadyGuard
<1>91. CASE ReconcilingSave("confirm")
  BY <1>91 DEF ReconcilingSave
<1>92. CASE ReconcilingGuard("confirm")
  BY <1>92 DEF ReconcilingGuard
<1>93. CASE BackToReadyBad("hostd")
  BY <1>93, MarkSteps DEF BackToReadyBad, RaucMarksBad, Unanswered
<1>94. CASE BackToReadyClear("hostd")
  BY <1>94, BatchSteps DEF BackToReadyClear, EnvBatch
<1>95. CASE BackToReadyBad("worker")
  BY <1>95, MarkSteps DEF BackToReadyBad, RaucMarksBad, Unanswered
<1>96. CASE BackToReadyClear("worker")
  BY <1>96, BatchSteps DEF BackToReadyClear, EnvBatch
<1>97. CASE UNCHANGED vars
  BY <1>97 DEF vars
<1> HIDE DEF ProcType, PlaceInv, WorkerPCs, HostdPCs, ConfirmPCs, PowerInv, CopyInv, HoldsJob,
  ExclusionInv, ActivationInv, Activating, Reconciling, TrialInv, InTrial, Confirming, Quiet,
  SamePending, PhaseOnly, At, Goto, Call, JobOf, Programs, Off, files, store, boot, machine,
  session, WorkerActive, Serving, JobStates, Working, Terminal, Resumable, Named, PhaseInv,
  PendingSound, PendingConsistent
<1>98. HostdStep => PendingSound'
  BY <1>1, <1>2, <1>3, <1>4, <1>5, <1>6, <1>7, <1>8, <1>9, <1>10, <1>11, <1>12, <1>13, <1>14,
    <1>15, <1>16, <1>17, <1>18, <1>19, <1>20, <1>75, <1>76, <1>77, <1>78, <1>79, <1>80, <1>93,
    <1>94
  DEF HostdStep, EndJob, BackToReady
<1>99. WorkerStep => PendingSound'
  BY <1>21, <1>22, <1>23, <1>24, <1>25, <1>26, <1>27, <1>28, <1>29, <1>30, <1>31, <1>32, <1>33,
    <1>34, <1>35, <1>36, <1>37, <1>38, <1>39, <1>40, <1>41, <1>42, <1>43, <1>81, <1>82, <1>83,
    <1>84, <1>85, <1>86, <1>95, <1>96
  DEF WorkerStep, EndJob, BackToReady
<1>100. ConfirmStep => PendingSound'
  BY <1>44, <1>45, <1>46, <1>47, <1>48, <1>49, <1>87, <1>88, <1>89, <1>90, <1>91, <1>92
  DEF ConfirmStep, EndJob
<1>101. RaucStep => PendingSound'
  BY <1>50, <1>51, <1>52, <1>53
  DEF RaucStep
<1>102. MachineStep => PendingSound'
  BY <1>54, <1>55, <1>56, <1>57, <1>58, <1>59, <1>60, <1>61, <1>62, <1>63, <1>64, <1>65, <1>66,
    <1>67, <1>68, <1>69, <1>70, <1>71, <1>72, <1>73, <1>74
  DEF MachineStep
<1> QED BY <1>97, <1>98, <1>99, <1>100, <1>101, <1>102 DEF Next

LEMMA InitInv == Init => BoxInv
<1> SUFFICES ASSUME Init PROVE BoxInv
  OBVIOUS
<1>1. SeedEnv \in Env
  BY JobsAssumption DEF SeedEnv, Env, Orders, Slots, Attempts, JobIds, Sequences0, Phases
<1>2. TypeOK
  <2>1. rauc \in RaucType
    BY JobsAssumption DEF Init, RaucIdle, RaucType, JobIds, Sequences0
  <2>2. proc \in ProcType
    BY JobsAre DEF Init, ProcType, Off, PCs
  <2>3. RestOK
    <3>1. image \in [Slots -> 0..Broken] /\ 0 \in JobIds
      BY JobsAssumption DEF Init, Broken, JobIds
    <3>2. wreq \in BOOLEAN /\ appUp \in BOOLEAN /\ resetReq \in BOOLEAN
      BY DEF Init
    <3>3. journal \in Job
      BY JobsAre DEF Init
    <3> QED BY <3>1, <3>2, <3>3, CrashAssumption, FaultAssumption DEF Init, RestOK, Slots, NoSlot
  <2> QED BY <1>1, <2>1, <2>2, <2>3 DEF Init, TypeOK, RaucType, ProcType, RestOK
<1>3. \A p \in Programs : proc[p].pc = "off" /\ proc[p].ret = "off" /\ proc[p].job = NoJob
  BY DEF Init, Off
<1>4. PlaceInv /\ PowerInv
  BY <1>3 DEF Init, PlaceInv, PowerInv, Programs, WorkerPCs, HostdPCs, ConfirmPCs
<1>5. CopyInv /\ ExclusionInv /\ ActivationInv
  BY <1>3, JobsAre DEF Init, CopyInv, ExclusionInv, ActivationInv, Named, HoldsJob, At, JobOf, Programs, Activating, Reconciling,
     WorkerActive
<1>6. TrialInv /\ PhaseInv /\ PendingSound
  BY <1>3 DEF Init, SeedEnv, TrialInv, PhaseInv, PendingSound, PendingConsistent, InTrial,
    Confirming, At, Programs
<1> QED BY <1>2, <1>4, <1>5, <1>6 DEF BoxInv

LEMMA StepInv == BoxInv /\ [Next]_vars => BoxInv'
BY TypeStep, PlaceStep, PowerStep, CopyStep, ExclusionStep, ActivationStep, TrialStep, PhaseStep, PendingStep DEF BoxInv

\* Every variable of the whole box keeps its type.
THEOREM BoxTyped == Spec => []TypeOK
<1>1. BoxInv => TypeOK
  BY DEF BoxInv
<1> QED BY <1>1, InitInv, StepInv, PTL DEF Spec

\* boot-slot.cmd never finds a pending job it cannot make sense of: hostd,
\* worker, coordinator and loader, killed, restarted or failing anywhere,
\* leave its variables complete or absent.
THEOREM PendingAlwaysSound == Spec => []PendingSound
<1>1. BoxInv => PendingSound
  BY DEF BoxInv
<1> QED BY <1>1, InitInv, StepInv, PTL DEF Spec
=============================================================================
