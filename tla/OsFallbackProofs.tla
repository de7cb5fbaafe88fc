--------------------------- MODULE OsFallbackProofs ---------------------------
(***************************************************************************)
(* Proofs about the whole box (OsSystem), continued: what a pending job    *)
(* leaves untouched, so that there is always a system to fall back to,     *)
(* what the floor stands for, and what the guard does.                     *)
(***************************************************************************)
EXTENDS OsSystemProofs

-----------------------------------------------------------------------------
(* The inductive invariant, on top of BoxInv.                              *)

InstallPCs == {"work", "download", "verify", "checkcancel", "identity", "install",
               "callrauc", "rauc", "recon", "target", "failinstall"}
ActivatePCs == {"act", "intent", "markactive", "activated", "actsave", "reboot", "b2r_bad", "b2r_clear"}

\* The worker is on its way to an installed slot.
Installing ==
  \/ proc["worker"].pc \in InstallPCs
  \/ proc["worker"].pc \in {"start", "lease", "guard"} /\ JobOf("worker").state # "restarting"

\* A worker that does nothing to any job any more.
Resting == proc["worker"].pc \in {"off", "begin", "exit", "rdy_guard"}

\* hostd is in back_to_ready.
HostdReturns == proc["hostd"].pc \in {"b2r_bad", "b2r_clear", "rdy_save", "rec_save"}

\* Installing and activating exclude each other: a job is installed while
\* none is pending; once it is ready, or restarting, no install goes on.
OrderInv ==
  /\ Installing \/ journal.state \in Working \cup {"installing"} => env.pending = 0
  /\ "rdy_save" \in {proc["hostd"].pc, proc["worker"].pc} => env.pending = 0
  /\ journal.state = "ready" => Resting /\ env.pending = 0
  /\ journal.state = "restarting" => ~Installing
  /\ HostdReturns => Resting /\ journal.state \in {"ready", "restarting"}

\* RAUC writes for a job that is neither ready, nor activated, nor pending.
WriterInv ==
  rauc.op # "idle" =>
    /\ env.pending = 0
    /\ journal.state \notin {"ready", "restarting"}
    /\ proc["worker"].pc \notin ActivatePCs \cup {"target", "rdy_save"}

InOrder(e, s) == \E i \in DOMAIN e.order : e.order[i] = s

\* What the slots hold: the one that runs is whole; the target of a pending
\* job is the signed image and the other one can be fallen back to.
SlotInv ==
  /\ power \in {"up", "erase"} => image[slot] # Broken
  /\ At("worker", "intent") => /\ Head(env.order) = Other(JobOf("worker").tgt)
                               /\ image[JobOf("worker").tgt] = JobOf("worker").seq
  /\ env.pending # 0 => /\ image[env.target] = env.seq
                        /\ image[Other(env.target)] # Broken
                        /\ InOrder(env, Other(env.target))

ConfirmHolds == proc["confirm"].pc \in {"activated", "confirming", "c_promote", "promoting", "fin_save"}

\* Every description of a job there is: in the journal, in the programs and
\* in the environment.
Held ==
  {journal, JobOf("worker"), JobOf("hostd")}
    \cup (IF ConfirmHolds THEN {JobOf("confirm")} ELSE {})
    \cup (IF env.pending # 0 THEN {PendingJob(env)} ELSE {})

\* Two descriptions of the same job agree on its target and sequence: an ID
\* is given out once, and a stale copy is one of the same job.
AgreeInv ==
  /\ \A j \in Held : j.id <= jobs
  /\ \A j, k \in Held : j.id = k.id /\ j.id # 0 => j.tgt = k.tgt /\ j.seq = k.seq

\* The job that is activated, confirmed, rolled back or made ready again
\* while one is pending is the pending one.
AimInv ==
  /\ Activating => journal.id = JobOf("worker").id
  /\ env.pending # 0 =>
       /\ journal.state = "restarting" => journal.id = env.pending
       /\ Activating \/ proc["worker"].pc \in ActivatePCs => JobOf("worker").id = env.pending
       /\ proc["hostd"].pc \in {"b2r_bad", "rb_bad", "int_bad"} => JobOf("hostd").id = env.pending
       /\ proc["confirm"].pc \in {"activated", "confirming", "c_promote"} => JobOf("confirm").id = env.pending

\* Promoting means that the floor has been raised.
FloorInv ==
  /\ env.phase = "promoting" => env.floor >= env.seq
  /\ proc["confirm"].pc \in {"promoting", "fin_save"} => env.floor >= JobOf("confirm").seq
  /\ At("hostd", "fin_save") /\ JobOf("hostd").state = "confirmed" => env.floor >= JobOf("hostd").seq
  /\ ConfirmedIsFloored

\* A worker that installs, activates and resumes nothing any more; it may
\* still call its job failed, cancelled or reconciling.
Leaving == proc["worker"].pc \in {"off", "begin", "exit", "fin_save", "fin_guard",
                                  "rec_save", "rec_guard", "rdy_guard"}

\* hostd is about to write the outcome of a pending or tried job.
Settling ==
  \/ proc["hostd"].pc \in {"try_save", "rb_bad", "rb_active", "rb_finish", "int_bad"}
  \/ proc["hostd"].pc = "fin_save" /\ proc["hostd"].ret # "serve"

\* hostd ends a ready job only if it is the one it has in its hands, and no
\* worker makes a job ready while hostd settles another one.
KeepInv ==
  /\ journal.state = "trying" => Leaving
  /\ proc["worker"].pc \in ActivatePCs => journal.state = "restarting"
  /\ Settling => /\ Leaving /\ journal.state # "ready"
                 /\ journal.state \in Resumable => ~At("worker", "begin")
  /\ HostdReturns => journal.id = JobOf("hostd").id
  /\ proc["hostd"].ret = "serve" /\ ~At("hostd", "serve") =>
       \/ cancel = JobOf("hostd").id
       \/ At("hostd", "fin_guard")
       \/ Resting /\ journal.state = "ready" /\ journal.id = JobOf("hostd").id

\* Who may do what, when.
TurnInv == OrderInv /\ WriterInv /\ AimInv /\ KeepInv

FallbackInv == TurnInv /\ SlotInv /\ AgreeInv /\ FloorInv

-----------------------------------------------------------------------------
(* Facts about the environment.                                            *)

\* The slots in BOOT_ORDER after RAUC's marks and the loader.
LEMMA OrdersAre ==
  ASSUME NEW e \in Env, NEW s \in Slots, NEW t \in Slots
  PROVE  /\ Head(e.order) = t => InOrder(e, t)
         /\ InOrder(MarkActive(e, s), t)
         /\ MarkGood(e, s).order = e.order
         /\ \A f \in MarkBad(e, s) : InOrder(e, Other(s)) => InOrder(f, Other(s))
         /\ LoaderSpend(e).order = e.order
<1> USE DEF Env, Orders, Slots, Other
<1>1. Head(e.order) = t => InOrder(e, t)
  BY DEF InOrder
<1>2. InOrder(MarkActive(e, s), t)
  <2>1. MarkActive(e, s).order = <<s, Other(s)>>
    BY DEF MarkActive
  <2> QED BY <2>1 DEF InOrder
<1>3. MarkGood(e, s).order = e.order /\ LoaderSpend(e).order = e.order
  BY DEF MarkGood, LoaderSpend
<1>4. ASSUME NEW f \in MarkBad(e, s), InOrder(e, Other(s)) PROVE InOrder(f, Other(s))
  <2>1. f.order = e.order \/ f.order = <<Other(s)>>
    BY DEF MarkBad
  <2>2. CASE f.order = e.order
    BY <2>2, <1>4 DEF InOrder
  <2>3. CASE f.order = <<Other(s)>>
    BY <2>3 DEF InOrder
  <2> QED BY <2>1, <2>2, <2>3
<1> QED BY <1>1, <1>2, <1>3, <1>4

FloorKept(e, f) == f.floor = e.floor

\* What leaves the floor alone: every operator on the environment but
\* Promote.
LEMMA FloorsAre ==
  ASSUME NEW e \in Env, NEW s \in Slots, NEW job \in Job, NEW phase \in Phases
  PROVE  /\ FloorKept(e, MarkActive(e, s)) /\ FloorKept(e, MarkGood(e, s))
         /\ \A f \in MarkBad(e, s) : FloorKept(e, f)
         /\ FloorKept(e, ClearPending(e)) /\ FloorKept(e, ActivationIntent(e, job))
         /\ FloorKept(e, SetPhase(e, phase)) /\ FloorKept(e, LoaderSpend(e))
BY DEF Env, FloorKept, MarkActive, MarkGood, MarkBad, ClearPending, ActivationIntent,
  SetPhase, LoaderSpend

\* No step installs a job while another is pending, or begins an activation
\* while one is being installed; and RAUC is only called by a worker that
\* installs.
LEMMA OrderStep == BoxInv /\ TurnInv /\ [Next]_vars => OrderInv' /\ WriterInv'
<1> SUFFICES ASSUME BoxInv, TurnInv, [Next]_vars PROVE OrderInv' /\ WriterInv'
  OBVIOUS
<1>0. /\ env \in Env /\ proc \in ProcType /\ journal \in Job /\ rauc \in RaucType /\ TypeOK
      /\ PendingSound
      /\ PlaceInv /\ PowerInv /\ CopyInv /\ ExclusionInv /\ TrialInv /\ OrderInv /\ WriterInv
  BY DEF BoxInv, TypeOK, ProcType, RaucType, TurnInv
<1> USE <1>0 DEF ProcType, RaucType, RaucIdle, PlaceInv, WorkerPCs, HostdPCs, ConfirmPCs,
        PowerInv, CopyInv, ExclusionInv, Activating, Reconciling, TrialInv, Confirming,
        Quiet, SamePending, PhaseOnly, OrderInv, WriterInv, Installing, InstallPCs,
        ActivatePCs, Resting, HostdReturns, At, Goto, Call, JobOf, Programs, Off, files,
        store, WorkerActive, JobStates, Working, Terminal, Resumable
<1>1. ASSUME NEW seq \in 1..MaxSeq, Install(seq) PROVE OrderInv' /\ WriterInv'
  BY <1>1 DEF Install, NoOpenJob, Admissible, Healthy, NewJob, StartWorker
<1>2. CASE Cancel \/ CancelCheck
  BY <1>2 DEF Cancel, CancelCheck
<1>3. CASE Dismiss
  BY <1>3, JobsAre DEF Dismiss
<1>4. CASE View \/ Restart
  BY <1>4 DEF View, Serving, Restart, StartWorker
<1>5. CASE Discard
  <2>1. env'.pending = env.pending
    BY <1>5, MarkSteps DEF SamePending
  <2> QED BY <1>5, <2>1 DEF Discard, RaucMarksBad, Unanswered
<1>6. CASE ReconcileCarriesOn
  BY <1>6 DEF ReconcileCarriesOn, WorkerCarriesOn
<1>7. CASE ReconcileNoPending
  BY <1>7 DEF ReconcileNoPending, WorkerCarriesOn, ReconcileJournal, GuardFor, StartWorker
<1>8. CASE ReconcilePending
  BY <1>8, JobsMade DEF ReconcilePending, WorkerCarriesOn, NeverTried, Rebuilt
<1>9. CASE TrialClear
  <2>1. env' = env \/ env'.pending = 0
    BY <1>9, BatchSteps
  <2> QED BY <1>9, <2>1 DEF TrialClear, EnvBatch
<1>10. CASE TrialIdle \/ TrialSave \/ TrialGuard
  BY <1>10, WithStateIs DEF TrialIdle, TrialSave, TrialGuard
<1>11. CASE RollbackBad
  <2>1. env'.pending = env.pending
    BY <1>11, MarkSteps DEF SamePending
  <2> QED BY <1>11, <2>1 DEF RollbackBad, RaucMarksBad, Unanswered
<1>12. CASE RollbackActive
  <2>1. env'.pending = env.pending
    BY <1>12, MarkSteps DEF SamePending
  <2> QED BY <1>12, <2>1 DEF RollbackActive, Unanswered, EnvBatch
<1>13. CASE RollbackFinish
  BY <1>13 DEF RollbackFinish
<1>14. CASE RollbackClear
  <2>1. env' = env \/ env'.pending = 0
    BY <1>14, BatchSteps
  <2> QED BY <1>14, <2>1 DEF RollbackClear, EnvBatch
<1>15. CASE InterruptedBad
  <2>1. env'.pending = env.pending
    BY <1>15, MarkSteps DEF SamePending
  <2> QED BY <1>15, <2>1 DEF InterruptedBad, RaucMarksBad, Unanswered
<1>16. CASE HostdServes \/ FinishSave("hostd") \/ FinishGuard("hostd")
  BY <1>16 DEF HostdServes, FinishSave, FinishGuard
<1>17. CASE ReadySave("hostd") \/ ReadyGuard("hostd")
  BY <1>17 DEF ReadySave, ReadyGuard
<1>18. CASE ReconcilingSave("hostd")
  BY <1>18, WithStateIs DEF ReconcilingSave
<1>19. CASE ReconcilingGuard("hostd")
  BY <1>19 DEF ReconcilingGuard
<1>20. CASE BackToReadyBad("hostd")
  <2>1. env'.pending = env.pending
    BY <1>20, MarkSteps DEF SamePending
  <2> QED BY <1>20, <2>1 DEF BackToReadyBad, RaucMarksBad, Unanswered
<1>21. CASE BackToReadyClear("hostd")
  <2>1. env' = env \/ env'.pending = 0
    BY <1>21, BatchSteps
  <2>2. At("hostd", "rdy_save")' => env'.pending = 0
    BY <1>21, ClearIs DEF BackToReadyClear, EnvBatch
  <2> QED BY <1>21, <2>1, <2>2 DEF BackToReadyClear, EnvBatch
<1>22. CASE WorkerBegin \/ WorkerReads
  BY <1>22 DEF WorkerBegin, WorkerReads
<1>23. CASE WorkerStarts
  BY <1>23 DEF WorkerStarts, WorkerFinish, CancelSeen
<1>24. CASE WorkerLease
  BY <1>24 DEF WorkerLease, WorkerFinish
<1>25. CASE WorkerGuard
  BY <1>25 DEF WorkerGuard
<1>26. CASE WorkerWork
  BY <1>26 DEF WorkerWork, WorkerFinish
<1>27. CASE WorkerDownload
  BY <1>27 DEF WorkerDownload, WorkerFinish, CancelSeen, RebootPromised
<1>28. CASE WorkerVerifying
  BY <1>28 DEF WorkerVerifying
<1>29. CASE WorkerCheckCancel
  BY <1>29 DEF WorkerCheckCancel, WorkerFinish, CancelSeen
<1>30. CASE WorkerIdentity
  BY <1>30 DEF WorkerIdentity, WorkerFinish
<1>31. CASE WorkerInstalling
  BY <1>31 DEF WorkerInstalling
<1>32. CASE WorkerCallsRauc
  BY <1>32 DEF WorkerCallsRauc
<1>33. CASE WorkerRaucDone
  BY <1>33 DEF WorkerRaucDone
<1>34. CASE WorkerCompleteInstall \/ WorkerReconcileInstall
  BY <1>34 DEF WorkerCompleteInstall, WorkerReconcileInstall
<1>35. CASE WorkerFailInstall
  <2>1. env'.pending = env.pending
    BY <1>35, MarkSteps DEF SamePending
  <2> QED BY <1>35, <2>1 DEF WorkerFailInstall, RaucMarksBad, Unanswered, WorkerFinish
<1>36. CASE ActivateBegin
  BY <1>36 DEF ActivateBegin, Admissible, TargetVerified
<1>37. CASE ActivateIntent
  <2>1. env' = env \/ env'.pending = JobOf("worker").id
    BY <1>37, BatchSteps
  <2> QED BY <1>37, <2>1 DEF ActivateIntent, EnvBatch
<1>38. CASE ActivateMark
  <2>1. env'.pending = env.pending
    BY <1>38, MarkSteps DEF SamePending
  <2> QED BY <1>38, <2>1 DEF ActivateMark, EnvBatch, Unanswered
<1>39. CASE ActivateActivated
  <2>1. env'.pending = env.pending
    BY <1>39, BatchSteps DEF PhaseOnly, SamePending
  <2> QED BY <1>39, <2>1 DEF ActivateActivated, EnvBatch
<1>40. CASE ActivateSave
  BY <1>40 DEF ActivateSave
<1>41. CASE ActivateReboot
  BY <1>41 DEF ActivateReboot
<1>42. CASE WorkerExit
  BY <1>42 DEF WorkerExit
<1>43. CASE FinishSave("worker") \/ FinishGuard("worker")
  BY <1>43 DEF FinishSave, FinishGuard
<1>44. CASE ReadySave("worker")
  BY <1>44 DEF ReadySave
<1>45. CASE ReadyGuard("worker")
  BY <1>45 DEF ReadyGuard
<1>46. CASE ReconcilingSave("worker")
  BY <1>46, WithStateIs DEF ReconcilingSave
<1>47. CASE ReconcilingGuard("worker")
  BY <1>47 DEF ReconcilingGuard
<1>48. CASE BackToReadyBad("worker")
  <2>1. env'.pending = env.pending
    BY <1>48, MarkSteps DEF SamePending
  <2> QED BY <1>48, <2>1 DEF BackToReadyBad, RaucMarksBad, Unanswered
<1>49. CASE BackToReadyClear("worker")
  <2>1. env' = env \/ env'.pending = 0
    BY <1>49, BatchSteps
  <2>2. At("worker", "rdy_save")' => env'.pending = 0
    BY <1>49, ClearIs DEF BackToReadyClear, EnvBatch
  <2> QED BY <1>49, <2>1, <2>2 DEF BackToReadyClear, EnvBatch
<1>50. CASE ConfirmBegin
  BY <1>50 DEF ConfirmBegin, IsTrialOf
<1>51. CASE ConfirmIntent
  <2>1. env'.pending = env.pending
    BY <1>51, BatchSteps DEF PhaseOnly, SamePending
  <2> QED BY <1>51, <2>1 DEF ConfirmIntent, ConfirmBatch, ConfirmErrors, EnvBatch
<1>52. CASE ConfirmMarkGood
  <2>1. env'.pending = env.pending
    BY <1>52, MarkSteps DEF SamePending
  <2> QED BY <1>52, <2>1 DEF ConfirmMarkGood, ConfirmBatch, ConfirmErrors, EnvBatch
<1>53. CASE ConfirmPromote
  <2>1. env'.pending = env.pending
    BY <1>53, BatchSteps DEF PhaseOnly, SamePending
  <2> QED BY <1>53, <2>1 DEF ConfirmPromote, ConfirmBatch, ConfirmErrors, EnvBatch
<1>54. CASE ConfirmJournal
  BY <1>54 DEF ConfirmJournal, ConfirmErrors, Rebuilt
<1>55. CASE ConfirmClear
  <2>1. env' = env \/ env'.pending = 0
    BY <1>55, BatchSteps
  <2> QED BY <1>55, <2>1 DEF ConfirmClear, ConfirmBatch, ConfirmErrors, EnvBatch
<1>56. CASE FinishSave("confirm") \/ FinishGuard("confirm")
  BY <1>56 DEF FinishSave, FinishGuard
<1>57. CASE ReadySave("confirm")
  BY <1>57 DEF ReadySave
<1>58. CASE ReadyGuard("confirm") \/ ReconcilingSave("confirm")
  BY <1>58 DEF ReadyGuard, ReconcilingSave
<1>59. CASE ReconcilingGuard("confirm")
  BY <1>59 DEF ReconcilingGuard
<1>60. CASE RaucMarksTarget
  <2>1. env'.pending = env.pending
    BY <1>60, MarkSteps DEF SamePending
  <2> QED BY <1>60, <2>1 DEF RaucMarksTarget
<1>61. CASE RaucWrites \/ RaucEnds \/ RaucFails
  BY <1>61 DEF RaucWrites, RaucEnds, RaucFails
<1>62. CASE PowerCut \/ Reboot \/ LoaderBoots
  BY <1>62, LoaderIs DEF PowerCut, Reboot, LosePower, LoaderBoots
<1>63. CASE LoaderStops \/ EraseData
  BY <1>63, JobsAre DEF LoaderStops, EraseData
<1>64. CASE PhysicalReset \/ HostdStarts \/ AppStarts \/ AdminReboot \/ FactoryReset
  BY <1>64 DEF PhysicalReset, HostdStarts, AppStarts, AdminReboot, FactoryReset
<1>65. CASE RebootGoes \/ SupHealthy \/ SupUnreadable
  BY <1>65 DEF RebootGoes, SupHealthy, SupUnreadable, OnTrial, IsTrialOf
<1>66. CASE SupMarkGood
  <2>1. env'.pending = env.pending
    BY <1>66, MarkSteps DEF SamePending
  <2> QED BY <1>66, <2>1 DEF SupMarkGood
<1>67. CASE SupConfirmed \/ SupDeadline \/ HostdKilled \/ WorkerKilled \/ ConfirmKilled
  BY <1>67 DEF SupConfirmed, SupDeadline, HostdKilled, WorkerKilled, ConfirmKilled, Killed
<1>68. CASE SupKilled \/ RaucKilled
  BY <1>68 DEF SupKilled, RaucKilled
<1>69. CASE UNCHANGED vars
  BY <1>69 DEF vars
<1> HIDE DEF ProcType, RaucType, RaucIdle, PlaceInv, WorkerPCs, HostdPCs, ConfirmPCs,
        PowerInv, CopyInv, ExclusionInv, Activating, Reconciling, TrialInv, Confirming,
        Quiet, SamePending, PhaseOnly, OrderInv, WriterInv, Installing, InstallPCs,
        ActivatePCs, Resting, HostdReturns, At, Goto, Call, JobOf, Off, files, store,
        WorkerActive, JobStates, Working, Terminal, Resumable, OrderInv, WriterInv
<1>70. CASE HostdStep
  BY <1>1, <1>2, <1>3, <1>4, <1>5, <1>6, <1>7, <1>8, <1>9, <1>10, <1>11, <1>12, <1>13, <1>14,
    <1>15, <1>16, <1>17, <1>18, <1>19, <1>20, <1>21, <1>70 DEF HostdStep, EndJob,
    BackToReady
<1>71. CASE WorkerStep
  BY <1>22, <1>23, <1>24, <1>25, <1>26, <1>27, <1>28, <1>29, <1>30, <1>31, <1>32, <1>33,
    <1>34, <1>35, <1>36, <1>37, <1>38, <1>39, <1>40, <1>41, <1>42, <1>43, <1>44, <1>45,
    <1>46, <1>47, <1>48, <1>49, <1>71 DEF WorkerStep, EndJob, BackToReady
<1>72. CASE ConfirmStep
  BY <1>50, <1>51, <1>52, <1>53, <1>54, <1>55, <1>56, <1>57, <1>58, <1>59,
    <1>72 DEF ConfirmStep, EndJob
<1>73. CASE RaucStep
  BY <1>60, <1>61, <1>73 DEF RaucStep
<1>74. CASE MachineStep
  BY <1>62, <1>63, <1>64, <1>65, <1>66, <1>67, <1>68, <1>74 DEF MachineStep
<1> QED BY <1>69, <1>70, <1>71, <1>72, <1>73, <1>74 DEF Next

\* Nobody acts on the pending variables with another job in its hands.
LEMMA AimStep == BoxInv /\ TurnInv /\ [Next]_vars => AimInv'
<1> SUFFICES ASSUME BoxInv, TurnInv, [Next]_vars PROVE AimInv'
  OBVIOUS
<1>0. /\ env \in Env /\ proc \in ProcType /\ journal \in Job /\ rauc \in RaucType /\ TypeOK
      /\ PendingSound
      /\ PlaceInv /\ PowerInv /\ CopyInv /\ ExclusionInv /\ TrialInv /\ OrderInv /\ AimInv
  BY DEF BoxInv, TypeOK, ProcType, RaucType, TurnInv
<1> USE <1>0 DEF ProcType, RaucType, RaucIdle, PlaceInv, WorkerPCs, HostdPCs, ConfirmPCs,
        PowerInv, CopyInv, ExclusionInv, Activating, Reconciling, TrialInv, Confirming,
        Quiet, SamePending, PhaseOnly, OrderInv, AimInv, Installing, InstallPCs,
        ActivatePCs, Resting, HostdReturns, At, Goto, Call, JobOf, Programs, Off, files,
        store, WorkerActive, JobStates, Working, Terminal, Resumable
<1>1. ASSUME NEW seq \in 1..MaxSeq, Install(seq) PROVE AimInv'
  BY <1>1 DEF Install, NoOpenJob, Admissible, Healthy, NewJob, StartWorker
<1>2. CASE Cancel \/ CancelCheck \/ Dismiss \/ View \/ Restart
  BY <1>2, JobsAre DEF Cancel, CancelCheck, Dismiss, View, Serving, Restart, StartWorker
<1>3. CASE Discard
  <2>1. env'.pending = env.pending
    BY <1>3, MarkSteps DEF SamePending
  <2> QED BY <1>3, <2>1 DEF Discard, RaucMarksBad, Unanswered
<1>4. CASE ReconcileCarriesOn \/ ReconcileNoPending
  BY <1>4 DEF ReconcileCarriesOn, WorkerCarriesOn, ReconcileNoPending, ReconcileJournal, GuardFor,
    StartWorker
<1>5. CASE ReconcilePending
  BY <1>5, JobsMade DEF ReconcilePending, WorkerCarriesOn, NeverTried, Rebuilt
<1>6. CASE TrialClear
  <2>1. env' = env \/ env'.pending = 0
    BY <1>6, BatchSteps
  <2> QED BY <1>6, <2>1 DEF TrialClear, EnvBatch
<1>7. CASE TrialIdle \/ TrialSave \/ TrialGuard
  BY <1>7, WithStateIs DEF TrialIdle, TrialSave, TrialGuard
<1>8. CASE RollbackBad
  <2>1. env'.pending = env.pending
    BY <1>8, MarkSteps DEF SamePending
  <2> QED BY <1>8, <2>1 DEF RollbackBad, RaucMarksBad, Unanswered
<1>9. CASE RollbackActive
  <2>1. env'.pending = env.pending
    BY <1>9, MarkSteps DEF SamePending
  <2> QED BY <1>9, <2>1 DEF RollbackActive, Unanswered, EnvBatch
<1>10. CASE RollbackFinish
  BY <1>10 DEF RollbackFinish
<1>11. CASE RollbackClear
  <2>1. env' = env \/ env'.pending = 0
    BY <1>11, BatchSteps
  <2> QED BY <1>11, <2>1 DEF RollbackClear, EnvBatch
<1>12. CASE InterruptedBad
  <2>1. env'.pending = env.pending
    BY <1>12, MarkSteps DEF SamePending
  <2> QED BY <1>12, <2>1 DEF InterruptedBad, RaucMarksBad, Unanswered
<1>13. CASE HostdServes \/ FinishSave("hostd") \/ FinishGuard("hostd")
         \/ ReadySave("hostd") \/ ReadyGuard("hostd")
  BY <1>13 DEF HostdServes, FinishSave, FinishGuard, ReadySave, ReadyGuard
<1>14. CASE ReconcilingSave("hostd") \/ ReconcilingGuard("hostd")
  <2>1. CASE ReconcilingSave("hostd")
    BY <2>1, WithStateIs DEF ReconcilingSave
  <2>2. CASE ReconcilingGuard("hostd")
    BY <2>2 DEF ReconcilingGuard
  <2> QED BY <1>14, <2>1, <2>2
<1>15. CASE BackToReadyBad("hostd")
  <2>1. env'.pending = env.pending
    BY <1>15, MarkSteps DEF SamePending
  <2> QED BY <1>15, <2>1 DEF BackToReadyBad, RaucMarksBad, Unanswered
<1>16. CASE BackToReadyClear("hostd")
  <2>1. env' = env \/ env'.pending = 0
    BY <1>16, BatchSteps
  <2>2. At("hostd", "rdy_save")' => env'.pending = 0
    BY <1>16, ClearIs DEF BackToReadyClear, EnvBatch
  <2> QED BY <1>16, <2>1, <2>2 DEF BackToReadyClear, EnvBatch
<1>17. CASE WorkerBegin \/ WorkerReads \/ WorkerStarts
  BY <1>17 DEF WorkerBegin, WorkerReads, WorkerStarts, WorkerFinish, CancelSeen
<1>18. CASE WorkerLease \/ WorkerGuard
  BY <1>18 DEF WorkerLease, WorkerGuard, WorkerFinish
<1>19. CASE WorkerWork \/ WorkerDownload
  BY <1>19 DEF WorkerWork, WorkerDownload, WorkerFinish, CancelSeen, RebootPromised
<1>20. CASE WorkerVerifying
  BY <1>20 DEF WorkerVerifying
<1>21. CASE WorkerCheckCancel \/ WorkerIdentity
  BY <1>21 DEF WorkerCheckCancel, WorkerFinish, CancelSeen, WorkerIdentity
<1>22. CASE WorkerInstalling \/ WorkerCallsRauc \/ WorkerRaucDone
  BY <1>22 DEF WorkerInstalling, WorkerCallsRauc, WorkerRaucDone
<1>23. CASE WorkerCompleteInstall \/ WorkerReconcileInstall
  BY <1>23 DEF WorkerCompleteInstall, WorkerReconcileInstall
<1>24. CASE WorkerFailInstall
  <2>1. env'.pending = env.pending
    BY <1>24, MarkSteps DEF SamePending
  <2> QED BY <1>24, <2>1 DEF WorkerFailInstall, RaucMarksBad, Unanswered, WorkerFinish
<1>25. CASE ActivateBegin
  BY <1>25 DEF ActivateBegin, Admissible, TargetVerified
<1>26. CASE ActivateIntent
  <2>1. env' = env \/ env'.pending = JobOf("worker").id
    BY <1>26, BatchSteps
  <2> QED BY <1>26, <2>1 DEF ActivateIntent, EnvBatch
<1>27. CASE ActivateMark
  <2>1. env'.pending = env.pending
    BY <1>27, MarkSteps DEF SamePending
  <2> QED BY <1>27, <2>1 DEF ActivateMark, EnvBatch, Unanswered
<1>28. CASE ActivateActivated
  <2>1. env'.pending = env.pending
    BY <1>28, BatchSteps DEF PhaseOnly, SamePending
  <2> QED BY <1>28, <2>1 DEF ActivateActivated, EnvBatch
<1>29. CASE ActivateSave
  BY <1>29 DEF ActivateSave
<1>30. CASE ActivateReboot
  BY <1>30 DEF ActivateReboot
<1>31. CASE WorkerExit
  BY <1>31 DEF WorkerExit
<1>32. CASE FinishSave("worker") \/ FinishGuard("worker")
  BY <1>32 DEF FinishSave, FinishGuard
<1>33. CASE ReadySave("worker") \/ ReadyGuard("worker") \/ ReconcilingSave("worker")
         \/ ReconcilingGuard("worker")
  BY <1>33, WithStateIs DEF ReadySave, ReadyGuard, ReconcilingSave, ReconcilingGuard
<1>34. CASE BackToReadyBad("worker")
  <2>1. env'.pending = env.pending
    BY <1>34, MarkSteps DEF SamePending
  <2> QED BY <1>34, <2>1 DEF BackToReadyBad, RaucMarksBad, Unanswered
<1>35. CASE BackToReadyClear("worker")
  <2>1. env' = env \/ env'.pending = 0
    BY <1>35, BatchSteps
  <2>2. At("worker", "rdy_save")' => env'.pending = 0
    BY <1>35, ClearIs DEF BackToReadyClear, EnvBatch
  <2> QED BY <1>35, <2>1, <2>2 DEF BackToReadyClear, EnvBatch
<1>36. CASE ConfirmBegin
  BY <1>36, JobsMade DEF ConfirmBegin, IsTrialOf
<1>37. CASE ConfirmIntent
  <2>1. env'.pending = env.pending
    BY <1>37, BatchSteps DEF PhaseOnly, SamePending
  <2> QED BY <1>37, <2>1 DEF ConfirmIntent, ConfirmBatch, ConfirmErrors, EnvBatch
<1>38. CASE ConfirmMarkGood
  <2>1. env'.pending = env.pending
    BY <1>38, MarkSteps DEF SamePending
  <2> QED BY <1>38, <2>1 DEF ConfirmMarkGood, ConfirmBatch, ConfirmErrors, EnvBatch
<1>39. CASE ConfirmPromote
  <2>1. env'.pending = env.pending
    BY <1>39, BatchSteps DEF PhaseOnly, SamePending
  <2> QED BY <1>39, <2>1 DEF ConfirmPromote, ConfirmBatch, ConfirmErrors, EnvBatch
<1>40. CASE ConfirmJournal
  BY <1>40 DEF ConfirmJournal, ConfirmErrors, Rebuilt
<1>41. CASE ConfirmClear
  <2>1. env' = env \/ env'.pending = 0
    BY <1>41, BatchSteps
  <2> QED BY <1>41, <2>1 DEF ConfirmClear, ConfirmBatch, ConfirmErrors, EnvBatch
<1>42. CASE FinishSave("confirm") \/ FinishGuard("confirm") \/ ReadySave("confirm")
  BY <1>42 DEF FinishSave, FinishGuard, ReadySave
<1>43. CASE ReadyGuard("confirm") \/ ReconcilingSave("confirm")
  BY <1>43 DEF ReadyGuard, ReconcilingSave
<1>44. CASE ReconcilingGuard("confirm")
  BY <1>44 DEF ReconcilingGuard
<1>45. CASE RaucMarksTarget
  <2>1. env'.pending = env.pending
    BY <1>45, MarkSteps DEF SamePending
  <2> QED BY <1>45, <2>1 DEF RaucMarksTarget
<1>46. CASE RaucWrites \/ RaucEnds \/ RaucFails
  <2>1. CASE RaucWrites
    BY <2>1 DEF RaucWrites
  <2>2. CASE RaucEnds
    BY <2>2 DEF RaucEnds
  <2>3. CASE RaucFails
    BY <2>3 DEF RaucFails
  <2> QED BY <1>46, <2>1, <2>2, <2>3
<1>47. CASE PowerCut \/ Reboot \/ LoaderBoots \/ LoaderStops \/ EraseData
  BY <1>47, JobsAre, LoaderIs DEF PowerCut, Reboot, LosePower, LoaderBoots, LoaderStops,
    EraseData
<1>48. CASE PhysicalReset \/ HostdStarts \/ AppStarts \/ AdminReboot \/ FactoryReset
  BY <1>48 DEF PhysicalReset, HostdStarts, AppStarts, AdminReboot, FactoryReset
<1>49. CASE RebootGoes \/ SupHealthy \/ SupUnreadable
  BY <1>49 DEF RebootGoes, SupHealthy, SupUnreadable, OnTrial, IsTrialOf
<1>50. CASE SupMarkGood
  <2>1. env'.pending = env.pending
    BY <1>50, MarkSteps DEF SamePending
  <2> QED BY <1>50, <2>1 DEF SupMarkGood
<1>51. CASE SupConfirmed \/ SupDeadline \/ HostdKilled \/ WorkerKilled \/ ConfirmKilled
  BY <1>51 DEF SupConfirmed, SupDeadline, HostdKilled, WorkerKilled, ConfirmKilled, Killed
<1>52. CASE SupKilled \/ RaucKilled
  BY <1>52 DEF SupKilled, RaucKilled
<1>53. CASE UNCHANGED vars
  BY <1>53 DEF vars
<1> HIDE DEF ProcType, RaucType, RaucIdle, PlaceInv, WorkerPCs, HostdPCs, ConfirmPCs,
        PowerInv, CopyInv, ExclusionInv, Activating, Reconciling, TrialInv, Confirming,
        Quiet, SamePending, PhaseOnly, OrderInv, AimInv, Installing, InstallPCs,
        ActivatePCs, Resting, HostdReturns, At, Goto, Call, JobOf, Off, files, store,
        WorkerActive, JobStates, Working, Terminal, Resumable, AimInv
<1>54. CASE HostdStep
  BY <1>1, <1>2, <1>3, <1>4, <1>5, <1>6, <1>7, <1>8, <1>9, <1>10, <1>11, <1>12, <1>13, <1>14,
    <1>15, <1>16, <1>54 DEF HostdStep, EndJob, BackToReady
<1>55. CASE WorkerStep
  BY <1>17, <1>18, <1>19, <1>20, <1>21, <1>22, <1>23, <1>24, <1>25, <1>26, <1>27, <1>28,
    <1>29, <1>30, <1>31, <1>32, <1>33, <1>34, <1>35, <1>55 DEF WorkerStep, EndJob,
    BackToReady
<1>56. CASE ConfirmStep
  BY <1>36, <1>37, <1>38, <1>39, <1>40, <1>41, <1>42, <1>43, <1>44, <1>56 DEF ConfirmStep,
    EndJob
<1>57. CASE RaucStep
  BY <1>45, <1>46, <1>57 DEF RaucStep
<1>58. CASE MachineStep
  BY <1>47, <1>48, <1>49, <1>50, <1>51, <1>52, <1>58 DEF MachineStep
<1> QED BY <1>53, <1>54, <1>55, <1>56, <1>57, <1>58 DEF Next

\* Nobody acts on a ready job with another one in its hands.
LEMMA KeepStep == BoxInv /\ TurnInv /\ [Next]_vars => KeepInv'
<1> SUFFICES ASSUME BoxInv, TurnInv, [Next]_vars PROVE KeepInv'
  OBVIOUS
<1>0. /\ env \in Env /\ proc \in ProcType /\ journal \in Job /\ rauc \in RaucType /\ TypeOK
      /\ PendingSound
      /\ PlaceInv /\ PowerInv /\ CopyInv /\ ExclusionInv /\ TrialInv /\ OrderInv /\ KeepInv
  BY DEF BoxInv, TypeOK, ProcType, RaucType, TurnInv
<1> USE <1>0 DEF ProcType, RaucType, RaucIdle, PlaceInv, WorkerPCs, HostdPCs, ConfirmPCs,
        PowerInv, CopyInv, ExclusionInv, Activating, Reconciling, TrialInv, Confirming,
        Quiet, SamePending, PhaseOnly, OrderInv, KeepInv, Installing, InstallPCs,
        ActivatePCs, Resting, HostdReturns, Leaving, Settling, At, Goto, Call, JobOf,
        Programs, Off, files, store, WorkerActive, JobStates, Working, Terminal, Resumable
<1>1. ASSUME NEW seq \in 1..MaxSeq, Install(seq) PROVE KeepInv'
  BY <1>1 DEF Install, NoOpenJob, Admissible, Healthy, NewJob, StartWorker
<1>2. CASE Cancel \/ CancelCheck \/ Dismiss \/ View \/ Restart
  BY <1>2, WithStateIs, JobsAre DEF Cancel, CancelCheck, Dismiss, View, Serving, Restart,
    StartWorker
<1>3. CASE Discard \/ ReconcileCarriesOn
  BY <1>3, WithStateIs DEF Discard, RaucMarksBad, Unanswered, ReconcileCarriesOn, WorkerCarriesOn
<1>4. CASE ReconcileNoPending
  BY <1>4 DEF ReconcileNoPending, WorkerCarriesOn, ReconcileJournal, GuardFor, StartWorker
<1>5. CASE ReconcilePending \/ TrialClear
  BY <1>5, JobsMade DEF ReconcilePending, WorkerCarriesOn, NeverTried, Rebuilt, TrialClear, EnvBatch
<1>6. CASE TrialIdle \/ TrialSave \/ TrialGuard
  BY <1>6 DEF TrialIdle, TrialSave, TrialGuard
<1>7. CASE RollbackBad \/ RollbackActive
  BY <1>7 DEF RollbackBad, RollbackActive, RaucMarksBad, Unanswered, EnvBatch
<1>8. CASE RollbackFinish \/ RollbackClear
  BY <1>8 DEF RollbackFinish, RollbackClear, EnvBatch
<1>9. CASE InterruptedBad
  BY <1>9 DEF InterruptedBad, RaucMarksBad, Unanswered
<1>10. CASE HostdServes \/ FinishSave("hostd")
  BY <1>10 DEF HostdServes, FinishSave
<1>11. CASE FinishGuard("hostd") \/ ReadySave("hostd") \/ ReadyGuard("hostd")
         \/ ReconcilingSave("hostd") \/ ReconcilingGuard("hostd")
  BY <1>11 DEF FinishGuard, ReadySave, ReadyGuard, ReconcilingSave, ReconcilingGuard
<1>12. CASE BackToReadyBad("hostd") \/ BackToReadyClear("hostd")
  BY <1>12 DEF BackToReadyBad, RaucMarksBad, Unanswered, BackToReadyClear, EnvBatch
<1>13. CASE WorkerBegin \/ WorkerReads \/ WorkerStarts
  BY <1>13 DEF WorkerBegin, WorkerReads, WorkerStarts, WorkerFinish, CancelSeen
<1>14. CASE WorkerLease \/ WorkerGuard
  BY <1>14 DEF WorkerLease, WorkerGuard, WorkerFinish
<1>15. CASE WorkerWork \/ WorkerDownload \/ WorkerVerifying
  BY <1>15 DEF WorkerWork, WorkerDownload, WorkerVerifying, WorkerFinish, CancelSeen, RebootPromised
<1>16. CASE WorkerCheckCancel \/ WorkerIdentity
  BY <1>16 DEF WorkerCheckCancel, WorkerFinish, CancelSeen, WorkerIdentity
<1>17. CASE WorkerInstalling \/ WorkerCallsRauc \/ WorkerRaucDone
  BY <1>17 DEF WorkerInstalling, WorkerCallsRauc, WorkerRaucDone
<1>18. CASE WorkerCompleteInstall \/ WorkerReconcileInstall
  BY <1>18 DEF WorkerCompleteInstall, WorkerReconcileInstall
<1>19. CASE WorkerFailInstall
  BY <1>19 DEF WorkerFailInstall, RaucMarksBad, Unanswered, WorkerFinish
<1>20. CASE ActivateBegin
  BY <1>20 DEF ActivateBegin, Admissible, TargetVerified
<1>21. CASE ActivateIntent
  BY <1>21 DEF ActivateIntent, EnvBatch
<1>22. CASE ActivateMark \/ ActivateActivated
  BY <1>22 DEF ActivateMark, EnvBatch, Unanswered, ActivateActivated
<1>23. CASE ActivateSave
  BY <1>23 DEF ActivateSave
<1>24. CASE ActivateReboot
  BY <1>24 DEF ActivateReboot
<1>25. CASE WorkerExit
  BY <1>25 DEF WorkerExit
<1>26. CASE FinishSave("worker") \/ FinishGuard("worker")
  BY <1>26 DEF FinishSave, FinishGuard
<1>27. CASE ReadySave("worker") \/ ReadyGuard("worker") \/ ReconcilingSave("worker")
  <2>1. CASE ReadySave("worker") \/ ReadyGuard("worker")
    BY <2>1, WithStateIs DEF ReadySave, ReadyGuard
  <2>2. CASE ReconcilingSave("worker")
    BY <2>2, WithStateIs DEF ReconcilingSave
  <2> QED BY <1>27, <2>1, <2>2
<1>28. CASE ReconcilingGuard("worker") \/ BackToReadyBad("worker")
  BY <1>28 DEF ReconcilingGuard, BackToReadyBad, RaucMarksBad, Unanswered
<1>29. CASE BackToReadyClear("worker")
  BY <1>29 DEF BackToReadyClear, EnvBatch
<1>30. CASE ConfirmBegin \/ ConfirmIntent \/ ConfirmMarkGood
  BY <1>30 DEF ConfirmBegin, IsTrialOf, ConfirmIntent, ConfirmMarkGood, ConfirmBatch,
    ConfirmErrors, EnvBatch
<1>31. CASE ConfirmPromote
  BY <1>31 DEF ConfirmPromote, ConfirmBatch, ConfirmErrors, EnvBatch
<1>32. CASE ConfirmJournal
  BY <1>32 DEF ConfirmJournal, ConfirmErrors, Rebuilt
<1>33. CASE ConfirmClear \/ FinishSave("confirm") \/ FinishGuard("confirm")
  BY <1>33 DEF ConfirmClear, ConfirmBatch, ConfirmErrors, EnvBatch, FinishSave, FinishGuard
<1>34. CASE ReadySave("confirm") \/ ReadyGuard("confirm")
  BY <1>34 DEF ReadySave, ReadyGuard
<1>35. CASE ReconcilingSave("confirm") \/ ReconcilingGuard("confirm")
  BY <1>35 DEF ReconcilingSave, ReconcilingGuard
<1>36. CASE RaucMarksTarget \/ RaucWrites \/ RaucEnds \/ RaucFails
  BY <1>36 DEF RaucMarksTarget, RaucWrites, RaucEnds, RaucFails
<1>37. CASE PowerCut \/ Reboot \/ LoaderBoots \/ LoaderStops \/ EraseData
  BY <1>37 DEF PowerCut, Reboot, LosePower, LoaderBoots, LoaderStops, EraseData
<1>38. CASE PhysicalReset \/ HostdStarts \/ AppStarts \/ AdminReboot \/ FactoryReset
  BY <1>38 DEF PhysicalReset, HostdStarts, AppStarts, AdminReboot, FactoryReset
<1>39. CASE RebootGoes \/ SupHealthy \/ SupUnreadable \/ SupMarkGood \/ SupConfirmed
  BY <1>39 DEF RebootGoes, SupHealthy, SupUnreadable, OnTrial, IsTrialOf, SupMarkGood, SupConfirmed
<1>40. CASE SupDeadline \/ HostdKilled \/ WorkerKilled \/ ConfirmKilled \/ SupKilled
  BY <1>40 DEF SupDeadline, HostdKilled, WorkerKilled, ConfirmKilled, SupKilled, Killed
<1>41. CASE RaucKilled
  BY <1>41 DEF RaucKilled
<1>42. CASE UNCHANGED vars
  BY <1>42 DEF vars
<1> HIDE DEF ProcType, RaucType, RaucIdle, PlaceInv, WorkerPCs, HostdPCs, ConfirmPCs,
        PowerInv, CopyInv, ExclusionInv, Activating, Reconciling, TrialInv, Confirming,
        Quiet, SamePending, PhaseOnly, OrderInv, KeepInv, Installing, InstallPCs,
        ActivatePCs, Resting, HostdReturns, Leaving, Settling, At, Goto, Call, JobOf, Off,
        files, store, WorkerActive, JobStates, Working, Terminal, Resumable, KeepInv
<1>43. CASE HostdStep
  BY <1>1, <1>2, <1>3, <1>4, <1>5, <1>6, <1>7, <1>8, <1>9, <1>10, <1>11, <1>12,
    <1>43 DEF HostdStep, EndJob, BackToReady
<1>44. CASE WorkerStep
  BY <1>13, <1>14, <1>15, <1>16, <1>17, <1>18, <1>19, <1>20, <1>21, <1>22, <1>23, <1>24,
    <1>25, <1>26, <1>27, <1>28, <1>29, <1>44 DEF WorkerStep, EndJob, BackToReady
<1>45. CASE ConfirmStep
  BY <1>30, <1>31, <1>32, <1>33, <1>34, <1>35, <1>45 DEF ConfirmStep, EndJob
<1>46. CASE RaucStep
  BY <1>36, <1>46 DEF RaucStep
<1>47. CASE MachineStep
  BY <1>37, <1>38, <1>39, <1>40, <1>41, <1>47 DEF MachineStep
<1> QED BY <1>42, <1>43, <1>44, <1>45, <1>46, <1>47 DEF Next

\* Each conjunct is preserved by its lemma.
LEMMA TurnStep == BoxInv /\ TurnInv /\ [Next]_vars => TurnInv'
BY OrderStep, AimStep, KeepStep DEF TurnInv

-----------------------------------------------------------------------------
(* Copies of a job agree: every step copies a description that is there.   *)

\* j describes no job, or one of those in S.
Known(j, S) == j.id = 0 \/ \E k \in S : k.id = j.id /\ k.tgt = j.tgt /\ k.seq = j.seq

\* Nothing but known jobs after the step.
Carried ==
  /\ Known(journal', Held) /\ Known(proc'["worker"].job, Held) /\ Known(proc'["hostd"].job, Held)
  /\ ConfirmHolds' => Known(proc'["confirm"].job, Held)
  /\ env'.pending # 0 => Known(PendingJob(env'), Held)
  /\ jobs' = jobs

\* Steps that only pass known descriptions on keep them in agreement.
LEMMA AgreeKept ==
  ASSUME TypeOK, AgreeInv, Carried
  PROVE  AgreeInv'
<1>1. \A j \in Held' : Known(j, Held)
  BY DEF Held, Carried, JobOf
<1>2. 0 <= jobs
  BY JobsAssumption DEF TypeOK, JobIds
<1> QED BY <1>1, <1>2 DEF AgreeInv, Known, Carried

\* The jobs that programs derive from others are the same ones.
LEMMA KnownJobs ==
  ASSUME TypeOK
  PROVE  /\ Known(journal, Held) /\ Known(JobOf("worker"), Held) /\ Known(JobOf("hostd"), Held)
         /\ ConfirmHolds => Known(JobOf("confirm"), Held)
         /\ env.pending # 0 => Known(PendingJob(env), Held)
         /\ Known(NoJob, Held)
         /\ \A state : /\ Known(WithState(journal, state), Held)
                       /\ Known(WithState(JobOf("worker"), state), Held)
                       /\ Known(WithState(JobOf("hostd"), state), Held)
                       /\ ConfirmHolds => Known(WithState(JobOf("confirm"), state), Held)
         /\ \A job \in Job : Known(job, Held) => Known([job EXCEPT !.act = TRUE], Held)
<1>1. \A j \in Held : Known(j, Held)
  BY DEF Known
<1>2. /\ journal \in Held /\ JobOf("worker") \in Held /\ JobOf("hostd") \in Held
      /\ ConfirmHolds => JobOf("confirm") \in Held
      /\ env.pending # 0 => PendingJob(env) \in Held
  BY DEF Held
<1>3. Known(NoJob, Held)
  BY JobsAre DEF Known
<1>4. \A job \in Job : Known(job, Held) => \A state : Known(WithState(job, state), Held)
  BY DEF Known, WithState, Job
<1>5. \A job \in Job : Known(job, Held) => Known([job EXCEPT !.act = TRUE], Held)
  BY DEF Known, Job
<1>6. journal \in Job /\ \A p \in Programs : JobOf(p) \in Job
  BY DEF TypeOK, JobOf
<1> QED BY <1>1, <1>2, <1>3, <1>4, <1>5, <1>6 DEF Programs

\* The pending job, and the one that becomes pending, is known.
LEMMA KnownPending ==
  ASSUME TypeOK
  PROVE  /\ env' = env \/ SamePending(env, env') \/ (\E phase : PhaseOnly(env, env', phase))
              => (env'.pending # 0 => Known(PendingJob(env'), Held))
         /\ LoaderBoots => (env'.pending # 0 => Known(PendingJob(env'), Held))
         /\ \A job \in Job : /\ Known(job, Held)
                             /\ env'.pending = job.id /\ env'.target = job.tgt /\ env'.seq = job.seq
                             => Known(PendingJob(env'), Held)
<1> DEFINE Same(e) == e.pending = env.pending /\ e.target = env.target /\ e.seq = env.seq
<1>1. ASSUME Same(env'), env'.pending # 0 PROVE Known(PendingJob(env'), Held)
  <2>1. env.pending # 0 /\ PendingJob(env') = PendingJob(env)
    BY <1>1 DEF PendingJob
  <2> QED BY <2>1, KnownJobs
<1>2. LoaderBoots => Same(env')
  BY LoaderIs DEF LoaderBoots, TypeOK
<1>3. \A job \in Job : /\ Known(job, Held)
                       /\ env'.pending = job.id /\ env'.target = job.tgt /\ env'.seq = job.seq
                       => Known(PendingJob(env'), Held)
  BY DEF Known, PendingJob
<1> QED BY <1>1, <1>2, <1>3 DEF SamePending, PhaseOnly

\* Every step but the admission of a new job.
LEMMA CarriedStep == BoxInv /\ [Next]_vars => Carried \/ \E seq \in 1..MaxSeq : Install(seq)
<1> SUFFICES ASSUME BoxInv, [Next]_vars, ~\E seq \in 1..MaxSeq : Install(seq) PROVE Carried
  OBVIOUS
<1>0. /\ env \in Env /\ proc \in ProcType /\ journal \in Job /\ TypeOK /\ PendingSound /\ PlaceInv /\ CopyInv
  BY DEF BoxInv, TypeOK, ProcType
<1> USE <1>0, KnownJobs, KnownPending
    DEF ProcType, PlaceInv, ConfirmPCs, Carried, ConfirmHolds, At, Goto, Call, JobOf,
      Programs, Off, files, counts
<1>1. ASSUME NEW seq \in 1..MaxSeq, Install(seq) PROVE Carried
  BY <1>1
<1>2. CASE Cancel \/ CancelCheck \/ Dismiss \/ View
  BY <1>2 DEF Cancel, CancelCheck, Dismiss, View, Serving
<1>3. CASE Restart
  BY <1>3 DEF Restart, StartWorker
<1>4. CASE Discard
  BY <1>4, MarkSteps DEF Discard, RaucMarksBad, Unanswered
<1>5. CASE ReconcileCarriesOn
  BY <1>5 DEF ReconcileCarriesOn, WorkerCarriesOn
<1>6. CASE ReconcileNoPending
  BY <1>6 DEF ReconcileNoPending, WorkerCarriesOn, ReconcileJournal, GuardFor,
    StartWorker
<1>7. CASE ReconcilePending
  BY <1>7 DEF ReconcilePending, WorkerCarriesOn, NeverTried, Rebuilt
<1>8. CASE TrialClear \/ TrialIdle \/ TrialSave \/ TrialGuard
  BY <1>8, BatchSteps DEF TrialClear, TrialIdle, TrialSave, TrialGuard, EnvBatch
<1>9. CASE RollbackBad \/ RollbackActive
  BY <1>9, MarkSteps DEF RollbackBad, RollbackActive, RaucMarksBad, Unanswered, EnvBatch
<1>10. CASE RollbackFinish \/ RollbackClear
  BY <1>10, BatchSteps DEF RollbackFinish, RollbackClear, EnvBatch
<1>11. CASE InterruptedBad
  BY <1>11, MarkSteps DEF InterruptedBad, RaucMarksBad, Unanswered
<1>12. CASE HostdServes
  BY <1>12 DEF HostdServes
<1>13. CASE WorkerBegin \/ WorkerReads \/ WorkerStarts \/ WorkerLease \/ WorkerGuard
  BY <1>13 DEF WorkerBegin, WorkerReads, WorkerStarts, WorkerLease, WorkerGuard, WorkerFinish,
    CancelSeen
<1>14. CASE WorkerWork \/ WorkerDownload \/ WorkerVerifying \/ WorkerCheckCancel
  BY <1>14 DEF WorkerWork, WorkerDownload, WorkerVerifying, WorkerCheckCancel,
    WorkerFinish, CancelSeen, RebootPromised
<1>15. CASE WorkerIdentity \/ WorkerInstalling \/ WorkerCallsRauc \/ WorkerRaucDone
  BY <1>15 DEF WorkerIdentity, WorkerInstalling, WorkerCallsRauc, WorkerRaucDone,
    WorkerFinish
<1>16. CASE WorkerCompleteInstall \/ WorkerReconcileInstall
  BY <1>16 DEF WorkerCompleteInstall, WorkerReconcileInstall
<1>17. CASE WorkerFailInstall
  BY <1>17, MarkSteps DEF WorkerFailInstall, RaucMarksBad, Unanswered, WorkerFinish
<1>18. CASE ActivateBegin
  BY <1>18 DEF ActivateBegin, Admissible, TargetVerified
<1>19. CASE ActivateIntent
  BY <1>19, BatchSteps DEF ActivateIntent, EnvBatch
<1>20. CASE ActivateMark
  BY <1>20, MarkSteps DEF ActivateMark, EnvBatch, Unanswered
<1>21. CASE ActivateActivated \/ ActivateSave \/ ActivateReboot \/ WorkerExit
  BY <1>21, BatchSteps DEF ActivateActivated, ActivateSave, ActivateReboot, WorkerExit, EnvBatch
<1>22. CASE ConfirmBegin
  BY <1>22 DEF ConfirmBegin, IsTrialOf
<1>23. CASE ConfirmIntent \/ ConfirmMarkGood
  BY <1>23, BatchSteps, MarkSteps DEF ConfirmIntent, ConfirmMarkGood, ConfirmBatch,
    ConfirmErrors, EnvBatch
<1>24. CASE ConfirmPromote
  BY <1>24, BatchSteps DEF ConfirmPromote, ConfirmBatch, ConfirmErrors, EnvBatch
<1>25. CASE ConfirmJournal
  BY <1>25 DEF ConfirmJournal, ConfirmErrors, Rebuilt
<1>26. CASE ConfirmClear
  BY <1>26, BatchSteps DEF ConfirmClear, ConfirmBatch, ConfirmErrors, EnvBatch
<1>27. CASE RaucMarksTarget
  BY <1>27, MarkSteps DEF RaucMarksTarget
<1>28. CASE RaucWrites \/ RaucEnds \/ RaucFails
  BY <1>28 DEF RaucWrites, RaucEnds, RaucFails
<1>29. CASE PowerCut \/ Reboot
  BY <1>29 DEF PowerCut, Reboot, LosePower
<1>30. CASE LoaderBoots
  BY <1>30 DEF LoaderBoots
<1>31. CASE LoaderStops \/ EraseData \/ PhysicalReset \/ HostdStarts
  BY <1>31 DEF LoaderStops, EraseData, PhysicalReset, HostdStarts
<1>32. CASE AppStarts \/ AdminReboot \/ FactoryReset \/ RebootGoes
  BY <1>32 DEF AppStarts, AdminReboot, FactoryReset, RebootGoes
<1>33. CASE SupHealthy \/ SupUnreadable
  BY <1>33 DEF SupHealthy, SupUnreadable, OnTrial, IsTrialOf
<1>34. CASE SupMarkGood
  BY <1>34, MarkSteps DEF SupMarkGood
<1>35. CASE SupConfirmed \/ SupDeadline
  BY <1>35 DEF SupConfirmed, SupDeadline
<1>36. CASE HostdKilled \/ WorkerKilled \/ ConfirmKilled \/ SupKilled \/ RaucKilled
  BY <1>36 DEF HostdKilled, WorkerKilled, ConfirmKilled, SupKilled, RaucKilled, Killed
<1>37. CASE FinishSave("hostd") \/ FinishGuard("hostd")
  BY <1>37 DEF FinishSave, FinishGuard
<1>38. CASE ReadySave("hostd") \/ ReadyGuard("hostd")
  BY <1>38 DEF ReadySave, ReadyGuard
<1>39. CASE ReconcilingSave("hostd") \/ ReconcilingGuard("hostd")
  BY <1>39 DEF ReconcilingSave, ReconcilingGuard
<1>40. CASE FinishSave("worker") \/ FinishGuard("worker")
  BY <1>40 DEF FinishSave, FinishGuard
<1>41. CASE ReadySave("worker") \/ ReadyGuard("worker")
  BY <1>41 DEF ReadySave, ReadyGuard
<1>42. CASE ReconcilingSave("worker") \/ ReconcilingGuard("worker")
  BY <1>42 DEF ReconcilingSave, ReconcilingGuard
<1>43. CASE FinishSave("confirm") \/ FinishGuard("confirm")
  BY <1>43 DEF FinishSave, FinishGuard
<1>44. CASE ReadySave("confirm") \/ ReadyGuard("confirm") \/
         ReconcilingSave("confirm") \/ ReconcilingGuard("confirm")
  BY <1>44 DEF ReadySave, ReadyGuard, ReconcilingSave, ReconcilingGuard
<1>45. CASE BackToReadyBad("hostd") \/ BackToReadyBad("worker")
  BY <1>45, MarkSteps DEF BackToReadyBad, RaucMarksBad, Unanswered
<1>46. CASE BackToReadyClear("hostd") \/ BackToReadyClear("worker")
  BY <1>46, BatchSteps DEF BackToReadyClear, EnvBatch
<1>47. CASE UNCHANGED vars
  BY <1>47 DEF vars
<1> QED
  BY <1>1, <1>2, <1>3, <1>4, <1>5, <1>6, <1>7, <1>8, <1>9, <1>10, <1>11, <1>12, <1>13,
    <1>14, <1>15, <1>16, <1>17, <1>18, <1>19, <1>20, <1>21, <1>22, <1>23, <1>24, <1>25,
    <1>26, <1>27, <1>28, <1>29, <1>30, <1>31, <1>32, <1>33, <1>34, <1>35, <1>36, <1>37,
    <1>38, <1>39, <1>40, <1>41, <1>42, <1>43, <1>44, <1>45, <1>46, <1>47
  DEF Next, HostdStep, WorkerStep, ConfirmStep, RaucStep, MachineStep, EndJob, BackToReady

\* A new job gets an ID nobody has; every other step passes known jobs on.
LEMMA AgreeStep == BoxInv /\ AgreeInv /\ [Next]_vars => AgreeInv'
<1> SUFFICES ASSUME BoxInv, AgreeInv, [Next]_vars PROVE AgreeInv'
  OBVIOUS
<1>0. TypeOK /\ PendingSound /\ jobs \in Int
  BY JobsAssumption DEF BoxInv, TypeOK, JobIds
<1>1. CASE Carried
  BY <1>0, <1>1, AgreeKept
<1>2. ASSUME NEW seq \in 1..MaxSeq, Install(seq) PROVE AgreeInv'
  <2>1. CASE UNCHANGED <<jobs, journal>>
    <3>1. Held' = Held
      BY <1>2, <2>1 DEF Install, Held, JobOf, ConfirmHolds
    <3> QED BY <2>1, <3>1 DEF AgreeInv
  <2>2. CASE journal' = NewJob(seq) /\ jobs' = jobs + 1
    <3>1. journal' = NewJob(seq) /\ proc' = proc /\ env' = env /\ jobs' = jobs + 1
      BY <1>2, <2>2 DEF Install
    <3>2. \A j \in Held' : j = NewJob(seq) \/ j \in Held
      BY <3>1 DEF Held, JobOf, ConfirmHolds
    <3>3. NewJob(seq).id = jobs + 1
      BY DEF NewJob
    <3>4. \A j \in Held : j.id <= jobs
      BY DEF AgreeInv
    <3>5. \A j \in Held : j.id \in Int
      <4>1. \A j \in Job : j.id \in Int
        BY JobsAre, JobsAssumption DEF JobIds
      <4>2. journal \in Job /\ \A p \in Programs : JobOf(p) \in Job
        BY <1>0 DEF TypeOK, JobOf
      <4> QED BY <1>0, <4>1, <4>2, JobsMade DEF Held, Programs
    <3>6. \A j \in Held' : j.id <= jobs'
      BY <1>0, <3>1, <3>2, <3>3, <3>4, <3>5
    <3>7. ASSUME NEW j \in Held', NEW k \in Held', j.id = k.id, j.id # 0 PROVE j.tgt = k.tgt /\ j.seq = k.seq
      <4>1. (j = NewJob(seq) /\ k = NewJob(seq)) \/ (j \in Held /\ k \in Held)
        BY <1>0, <3>2, <3>3, <3>4, <3>5, <3>7
      <4> QED BY <4>1, <3>7 DEF AgreeInv
    <3> QED BY <3>6, <3>7 DEF AgreeInv
  <2> QED BY <1>2, <2>1, <2>2 DEF Install
<1> QED BY <1>1, <1>2, CarriedStep

-----------------------------------------------------------------------------
(* What happens to BOOT_ORDER.                                             *)

\* Batches do not change it.
LEMMA BatchOrders ==
  ASSUME TypeOK,
         TrialClear \/ RollbackClear \/ BackToReadyClear("hostd") \/ BackToReadyClear("worker") \/ ConfirmClear
           \/ ActivateActivated \/ ConfirmIntent \/ ConfirmPromote \/ ActivateIntent
  PROVE  env'.order = env.order
<1>1. PICK job, phase, seq : env' \in {env, ClearPending(env), SetPhase(env, phase), Promote(env, seq), ActivationIntent(env, job)}
  <2>1. TrialClear \/ RollbackClear \/ BackToReadyClear("hostd") \/ BackToReadyClear("worker") \/ ConfirmClear
          => env' \in {env, ClearPending(env)}
    BY DEF TrialClear, RollbackClear, BackToReadyClear, ConfirmClear, ConfirmBatch,
      EnvBatch
  <2>2. ActivateActivated \/ ConfirmIntent => env' \in {env, SetPhase(env, "activated"), SetPhase(env, "confirming")}
    BY DEF ActivateActivated, ConfirmIntent, ConfirmBatch, EnvBatch
  <2>3. ConfirmPromote => env' \in {env, Promote(env, JobOf("confirm").seq)}
    BY DEF ConfirmPromote, ConfirmBatch, EnvBatch
  <2>4. ActivateIntent => env' \in {env, ActivationIntent(env, JobOf("worker"))}
    BY DEF ActivateIntent, EnvBatch
  <2> QED BY <2>1, <2>2, <2>3, <2>4
<1> QED BY <1>1 DEF TypeOK, Env, ClearPending, SetPhase, Promote, ActivationIntent

\* The pending job's source slot stays in it: only the target of the pending
\* job is ever marked bad.
LEMMA MarkOrders ==
  ASSUME BoxInv, OrderInv, WriterInv, AgreeInv, AimInv,
         Discard \/ RollbackBad \/ RollbackActive \/ InterruptedBad \/ WorkerFailInstall
           \/ ActivateMark \/ ConfirmMarkGood \/ RaucMarksTarget \/ SupMarkGood \/ BackToReadyBad("hostd") \/ BackToReadyBad("worker")
  PROVE  /\ env.pending # 0 /\ InOrder(env, Other(env.target)) => InOrder(env', Other(env.target))
         /\ At("worker", "intent") => env'.order = env.order
<1>0. /\ env \in Env /\ slot \in Slots /\ \A p \in Programs : JobOf(p) \in Job /\ JobOf(p).tgt \in Slots
      /\ PlaceInv /\ ExclusionInv /\ TrialInv /\ PendingSound
  BY JobsAre DEF BoxInv, TypeOK, JobOf
<1>1. env.pending # 0 => env.target \in Slots /\ Other(env.target) \in Slots
  BY <1>0 DEF PendingSound, PendingConsistent, Slots, Other
<1>2. env.pending # 0 =>
        /\ proc["hostd"].pc \in {"b2r_bad", "rb_bad", "int_bad"} => JobOf("hostd").tgt = env.target
        /\ At("worker", "b2r_bad") => JobOf("worker").tgt = env.target
  <2>1. env.pending # 0 => PendingJob(env) \in Held /\ JobOf("hostd") \in Held /\ JobOf("worker") \in Held
    BY DEF Held
  <2>2. PendingJob(env).id = env.pending /\ PendingJob(env).tgt = env.target
    BY DEF PendingJob
  <2> QED BY <2>1, <2>2 DEF AgreeInv, AimInv, ActivatePCs, At
<1>3. At("worker", "intent") =>
        /\ journal.state = "restarting" /\ rauc.op = "idle"
        /\ proc["hostd"].pc \in {"off", "start", "begin", "serve"}
  BY <1>0 DEF ExclusionInv, Activating, CopyInv, BoxInv, At, WorkerActive, WriterInv,
    ActivatePCs
<1>4. CASE Discard \/ WorkerFailInstall \/ RaucMarksTarget
  <2>1. env.pending = 0 /\ ~At("worker", "intent")
    BY <1>3, <1>4 DEF Discard, WorkerFailInstall, RaucMarksTarget, OrderInv,
      Installing, InstallPCs, WriterInv, At
  <2> QED BY <2>1
<1>5. CASE RollbackBad \/ InterruptedBad \/ BackToReadyBad("hostd") \/ BackToReadyBad("worker")
  <2>1. ~At("worker", "intent")
    BY <1>3, <1>5 DEF RollbackBad, InterruptedBad, BackToReadyBad, At
  <2>2. env.pending # 0 => env' = env \/ env' \in MarkBad(env, env.target)
    BY <1>2, <1>5 DEF RollbackBad, InterruptedBad, BackToReadyBad, RaucMarksBad,
      Unanswered, At
  <2> QED BY <2>1, <2>2, <1>0, <1>1, OrdersAre
<1>6. CASE RollbackActive \/ ActivateMark
  <2>1. ~At("worker", "intent")
    BY <1>3, <1>6 DEF RollbackActive, ActivateMark, At
  <2>2. \E s \in Slots : env' \in {env, MarkActive(env, s)}
    BY <1>0, <1>6 DEF RollbackActive, ActivateMark, EnvBatch, Unanswered, Programs
  <2> QED BY <2>1, <2>2, <1>0, <1>1, OrdersAre
<1>7. CASE ConfirmMarkGood \/ SupMarkGood
  <2>1. env' \in {env, MarkGood(env, slot)}
    BY <1>7 DEF ConfirmMarkGood, ConfirmBatch, SupMarkGood, EnvBatch
  <2>2. env'.order = env.order
    BY <2>1, <1>0, OrdersAre
  <2> QED BY <2>2 DEF InOrder
<1> QED BY <1>4, <1>5, <1>6, <1>7

\* The slot to fall back to is never written and never leaves BOOT_ORDER.
LEMMA SlotStep == BoxInv /\ OrderInv /\ WriterInv /\ AgreeInv /\ AimInv /\ SlotInv /\ [Next]_vars => SlotInv'
<1> SUFFICES ASSUME BoxInv, OrderInv, WriterInv, AgreeInv, AimInv, SlotInv, [Next]_vars PROVE SlotInv'
  OBVIOUS
<1>0. /\ env \in Env /\ proc \in ProcType /\ journal \in Job /\ rauc \in RaucType /\ slot \in Slots
      /\ image \in [Slots -> 0..Broken] /\ TypeOK /\ PendingSound
      /\ PlaceInv /\ PowerInv /\ CopyInv /\ ActivationInv
  BY DEF BoxInv, TypeOK, ProcType, RaucType
<1> USE <1>0 DEF ProcType, RaucType, RaucIdle, PlaceInv, WorkerPCs, PowerInv,
        ActivationInv, SamePending, PhaseOnly,
        SlotInv, InOrder, WriterInv, ActivatePCs, Slots, Other,
        At, Goto, Call, JobOf, Programs, Off, files, store, boot, machine, session
<1>1. ASSUME NEW seq \in 1..MaxSeq, Install(seq) PROVE SlotInv'
  BY <1>1 DEF Install, NoOpenJob, Admissible, Healthy, NewJob, StartWorker
<1>2. CASE Cancel \/ CancelCheck \/ Dismiss \/ View
  BY <1>2 DEF Cancel, CancelCheck, Dismiss, View, Serving
<1>3. CASE Restart
  BY <1>3 DEF Restart, StartWorker
<1>4. CASE Discard
  BY <1>4, MarkSteps, MarkOrders DEF Discard, RaucMarksBad, Unanswered
<1>5. CASE ReconcileCarriesOn
  BY <1>5 DEF ReconcileCarriesOn, WorkerCarriesOn
<1>6. CASE ReconcileNoPending
  BY <1>6 DEF ReconcileNoPending, WorkerCarriesOn, ReconcileJournal, GuardFor,
    StartWorker
<1>7. CASE ReconcilePending
  BY <1>7 DEF ReconcilePending, WorkerCarriesOn, NeverTried, Rebuilt
<1>8. CASE TrialClear \/ TrialIdle \/ TrialSave \/ TrialGuard
  BY <1>8, BatchSteps, BatchOrders DEF TrialClear, TrialIdle, TrialSave, TrialGuard,
    EnvBatch
<1>9. CASE RollbackBad \/ RollbackActive
  BY <1>9, MarkSteps, MarkOrders DEF RollbackBad, RollbackActive, RaucMarksBad,
    Unanswered, EnvBatch
<1>10. CASE RollbackFinish \/ RollbackClear
  BY <1>10, BatchSteps, BatchOrders DEF RollbackFinish, RollbackClear, EnvBatch
<1>11. CASE InterruptedBad
  BY <1>11, MarkSteps, MarkOrders DEF InterruptedBad, RaucMarksBad, Unanswered
<1>12. CASE HostdServes
  BY <1>12 DEF HostdServes
<1>13. CASE WorkerBegin \/ WorkerReads \/ WorkerStarts \/ WorkerLease \/ WorkerGuard
  BY <1>13 DEF WorkerBegin, WorkerReads, WorkerStarts, WorkerLease, WorkerGuard,
    WorkerFinish, CancelSeen
<1>14. CASE WorkerWork \/ WorkerDownload \/ WorkerVerifying \/ WorkerCheckCancel
  BY <1>14 DEF WorkerWork, WorkerDownload, WorkerVerifying, WorkerCheckCancel,
    WorkerFinish, CancelSeen, RebootPromised
<1>15. CASE WorkerIdentity \/ WorkerInstalling \/ WorkerCallsRauc \/ WorkerRaucDone
  BY <1>15 DEF WorkerIdentity, WorkerInstalling, WorkerCallsRauc, WorkerRaucDone,
    WorkerFinish
<1>16. CASE WorkerCompleteInstall \/ WorkerReconcileInstall
  BY <1>16 DEF WorkerCompleteInstall, WorkerReconcileInstall
<1>17. CASE WorkerFailInstall
  BY <1>17, MarkSteps, MarkOrders DEF WorkerFailInstall, RaucMarksBad, Unanswered,
    WorkerFinish
<1>18. CASE ActivateBegin
  <2>1. At("worker", "intent")' =>
          /\ NonBootable(env, JobOf("worker").tgt)
          /\ image[JobOf("worker").tgt] = JobOf("worker").seq
    BY <1>18 DEF ActivateBegin, TargetVerified
  <2>2. JobOf("worker")' = JobOf("worker") /\ env' = env /\ image' = image /\ power' = power /\ slot' = slot
    BY <1>18 DEF ActivateBegin
  <2> QED BY <2>1, <2>2 DEF NonBootable
<1>19. CASE ActivateIntent
  <2>1. /\ power = "up" /\ JobOf("worker").tgt # slot /\ JobOf("worker").tgt \in Slots
        /\ JobOf("worker")' = JobOf("worker") /\ ~At("worker", "intent")'
        /\ image' = image /\ slot' = slot /\ power' = power /\ env'.order = env.order
    BY <1>19, JobsAre, BatchOrders DEF ActivateIntent, EnvBatch
  <2>2. InOrder(env, slot) /\ image[slot] # Broken
    BY <1>19, <2>1, OrdersAre DEF ActivateIntent
  <2>3. env'.pending # 0 => env' = env \/ (env'.target = JobOf("worker").tgt /\ env'.seq = JobOf("worker").seq)
    BY <1>19, BatchSteps
  <2> QED BY <1>19, <2>1, <2>2, <2>3 DEF ActivateIntent
<1>20. CASE ActivateMark
  BY <1>20, MarkSteps, MarkOrders DEF ActivateMark, EnvBatch, Unanswered
<1>21. CASE ActivateActivated \/ ActivateSave \/ ActivateReboot \/ WorkerExit
  BY <1>21, BatchSteps, BatchOrders DEF ActivateActivated, ActivateSave,
    ActivateReboot, WorkerExit, EnvBatch
<1>22. CASE ConfirmBegin
  BY <1>22 DEF ConfirmBegin, IsTrialOf
<1>23. CASE ConfirmIntent \/ ConfirmMarkGood
  BY <1>23, BatchSteps, BatchOrders, MarkSteps, MarkOrders DEF ConfirmIntent,
    ConfirmMarkGood, ConfirmBatch, ConfirmErrors, EnvBatch
<1>24. CASE ConfirmPromote
  BY <1>24, BatchSteps, BatchOrders DEF ConfirmPromote, ConfirmBatch, ConfirmErrors,
    EnvBatch
<1>25. CASE ConfirmJournal
  BY <1>25 DEF ConfirmJournal, ConfirmErrors, Rebuilt
<1>26. CASE ConfirmClear
  BY <1>26, BatchSteps, BatchOrders DEF ConfirmClear, ConfirmBatch, ConfirmErrors,
    EnvBatch
<1>27. CASE RaucMarksTarget
  BY <1>27, MarkSteps DEF RaucMarksTarget
<1>28. CASE RaucWrites \/ RaucEnds \/ RaucFails
  BY <1>28 DEF RaucWrites, RaucEnds, RaucFails
<1>29. CASE PowerCut \/ Reboot
  BY <1>29 DEF PowerCut, Reboot, LosePower
<1>30. CASE LoaderBoots
  BY <1>30, LoaderIs, OrdersAre DEF LoaderBoots
<1>31. CASE LoaderStops \/ EraseData \/ PhysicalReset \/ HostdStarts
  BY <1>31 DEF LoaderStops, EraseData, PhysicalReset, HostdStarts
<1>32. CASE AppStarts \/ AdminReboot \/ FactoryReset \/ RebootGoes
  BY <1>32 DEF AppStarts, AdminReboot, FactoryReset, RebootGoes
<1>33. CASE SupHealthy \/ SupUnreadable
  BY <1>33 DEF SupHealthy, SupUnreadable, OnTrial, IsTrialOf
<1>34. CASE SupMarkGood
  BY <1>34, MarkSteps, MarkOrders DEF SupMarkGood
<1>35. CASE SupConfirmed \/ SupDeadline
  BY <1>35 DEF SupConfirmed, SupDeadline
<1>36. CASE HostdKilled \/ WorkerKilled \/ ConfirmKilled \/ SupKilled \/ RaucKilled
  BY <1>36 DEF HostdKilled, WorkerKilled, ConfirmKilled, SupKilled, RaucKilled, Killed
<1>37. CASE FinishSave("hostd") \/ FinishGuard("hostd")
  BY <1>37 DEF FinishSave, FinishGuard
<1>38. CASE ReadySave("hostd") \/ ReadyGuard("hostd")
  BY <1>38 DEF ReadySave, ReadyGuard
<1>39. CASE ReconcilingSave("hostd") \/ ReconcilingGuard("hostd")
  BY <1>39 DEF ReconcilingSave, ReconcilingGuard
<1>40. CASE FinishSave("worker") \/ FinishGuard("worker")
  BY <1>40 DEF FinishSave, FinishGuard
<1>41. CASE ReadySave("worker") \/ ReadyGuard("worker")
  BY <1>41 DEF ReadySave, ReadyGuard
<1>42. CASE ReconcilingSave("worker") \/ ReconcilingGuard("worker")
  BY <1>42 DEF ReconcilingSave, ReconcilingGuard
<1>43. CASE FinishSave("confirm") \/ FinishGuard("confirm")
  BY <1>43 DEF FinishSave, FinishGuard
<1>44. CASE ReadySave("confirm") \/ ReadyGuard("confirm") \/
         ReconcilingSave("confirm") \/ ReconcilingGuard("confirm")
  BY <1>44 DEF ReadySave, ReadyGuard, ReconcilingSave, ReconcilingGuard
<1>45. CASE BackToReadyBad("hostd") \/ BackToReadyBad("worker")
  <2>1. CASE BackToReadyBad("hostd")
    BY <2>1, MarkSteps, MarkOrders DEF BackToReadyBad, RaucMarksBad, Unanswered
  <2>2. CASE BackToReadyBad("worker")
    BY <2>2, MarkSteps, MarkOrders DEF BackToReadyBad, RaucMarksBad, Unanswered
  <2> QED BY <1>45, <2>1, <2>2
<1>46. CASE BackToReadyClear("hostd") \/ BackToReadyClear("worker")
  BY <1>46, BatchSteps, BatchOrders DEF BackToReadyClear, EnvBatch
<1>47. CASE UNCHANGED vars
  BY <1>47 DEF vars
<1> QED
  BY <1>1, <1>2, <1>3, <1>4, <1>5, <1>6, <1>7, <1>8, <1>9, <1>10, <1>11, <1>12, <1>13,
    <1>14, <1>15, <1>16, <1>17, <1>18, <1>19, <1>20, <1>21, <1>22, <1>23, <1>24, <1>25,
    <1>26, <1>27, <1>28, <1>29, <1>30, <1>31, <1>32, <1>33, <1>34, <1>35, <1>36, <1>37,
    <1>38, <1>39, <1>40, <1>41, <1>42, <1>43, <1>44, <1>45, <1>46, <1>47
  DEF Next, HostdStep, WorkerStep, ConfirmStep, RaucStep, MachineStep, EndJob, BackToReady

-----------------------------------------------------------------------------
(* What happens to the floor.                                              *)

\* Only the coordinator's batch raises it.
FloorKeptBy == env'.floor = env.floor \/ (ConfirmPromote /\ env' = Promote(env, JobOf("confirm").seq))

\* Marks, phases, intents and the loader leave the floor alone.
LEMMA FloorMoves == BoxInv /\ [Next]_vars => FloorKeptBy
<1> SUFFICES ASSUME BoxInv, [Next]_vars PROVE FloorKeptBy
  OBVIOUS
<1>0. /\ env \in Env /\ slot \in Slots /\ Other(slot) \in Slots /\ journal \in Job /\ journal.tgt \in Slots
      /\ \A p \in Programs : JobOf(p) \in Job /\ JobOf(p).tgt \in Slots
  BY JobsAre, OtherIs DEF BoxInv, TypeOK, JobOf
<1> USE <1>0, FloorsAre, PhaseNames DEF FloorKeptBy, FloorKept, Programs
<1>1. ASSUME NEW seq \in 1..MaxSeq, Install(seq) PROVE FloorKeptBy
  BY <1>1 DEF Install, NoOpenJob, Admissible, Healthy, NewJob, StartWorker
<1>2. CASE Cancel \/ CancelCheck \/ Dismiss \/ View
  BY <1>2 DEF Cancel, CancelCheck, Dismiss, View, Serving
<1>3. CASE Restart
  BY <1>3 DEF Restart, StartWorker
<1>4. CASE Discard
  BY <1>4 DEF Discard, RaucMarksBad, Unanswered
<1>5. CASE ReconcileCarriesOn
  BY <1>5 DEF ReconcileCarriesOn, WorkerCarriesOn
<1>6. CASE ReconcileNoPending
  BY <1>6 DEF ReconcileNoPending, WorkerCarriesOn, ReconcileJournal, GuardFor,
    StartWorker
<1>7. CASE ReconcilePending
  BY <1>7 DEF ReconcilePending, WorkerCarriesOn, NeverTried, Rebuilt
<1>8. CASE TrialClear \/ TrialIdle \/ TrialSave \/ TrialGuard
  BY <1>8 DEF TrialClear, TrialIdle, TrialSave, TrialGuard, EnvBatch
<1>9. CASE RollbackBad \/ RollbackActive
  BY <1>9 DEF RollbackBad, RollbackActive, RaucMarksBad, Unanswered, EnvBatch
<1>10. CASE RollbackFinish \/ RollbackClear
  BY <1>10 DEF RollbackFinish, RollbackClear, EnvBatch
<1>11. CASE InterruptedBad
  BY <1>11 DEF InterruptedBad, RaucMarksBad, Unanswered
<1>12. CASE HostdServes
  BY <1>12 DEF HostdServes
<1>13. CASE WorkerBegin \/ WorkerReads \/ WorkerStarts \/ WorkerLease \/ WorkerGuard
  BY <1>13 DEF WorkerBegin, WorkerReads, WorkerStarts, WorkerLease, WorkerGuard,
    WorkerFinish, CancelSeen
<1>14. CASE WorkerWork \/ WorkerDownload \/ WorkerVerifying \/ WorkerCheckCancel
  BY <1>14 DEF WorkerWork, WorkerDownload, WorkerVerifying, WorkerCheckCancel,
    WorkerFinish, CancelSeen, RebootPromised
<1>15. CASE WorkerIdentity \/ WorkerInstalling \/ WorkerCallsRauc \/ WorkerRaucDone
  BY <1>15 DEF WorkerIdentity, WorkerInstalling, WorkerCallsRauc, WorkerRaucDone,
    WorkerFinish
<1>16. CASE WorkerCompleteInstall \/ WorkerReconcileInstall
  BY <1>16 DEF WorkerCompleteInstall, WorkerReconcileInstall
<1>17. CASE WorkerFailInstall
  BY <1>17 DEF WorkerFailInstall, RaucMarksBad, Unanswered, WorkerFinish
<1>18. CASE ActivateBegin
  BY <1>18 DEF ActivateBegin, Admissible, TargetVerified
<1>19. CASE ActivateIntent
  BY <1>19 DEF ActivateIntent, EnvBatch
<1>20. CASE ActivateMark
  BY <1>20 DEF ActivateMark, EnvBatch, Unanswered
<1>21. CASE ActivateActivated \/ ActivateSave \/ ActivateReboot \/ WorkerExit
  BY <1>21 DEF ActivateActivated, ActivateSave, ActivateReboot, WorkerExit, EnvBatch
<1>22. CASE ConfirmBegin
  BY <1>22 DEF ConfirmBegin, IsTrialOf
<1>23. CASE ConfirmIntent \/ ConfirmMarkGood
  BY <1>23 DEF ConfirmIntent, ConfirmMarkGood, ConfirmBatch, ConfirmErrors, EnvBatch
<1>24. CASE ConfirmPromote
  BY <1>24 DEF ConfirmPromote, ConfirmBatch, EnvBatch
<1>25. CASE ConfirmJournal
  BY <1>25 DEF ConfirmJournal, ConfirmErrors, Rebuilt
<1>26. CASE ConfirmClear
  BY <1>26 DEF ConfirmClear, ConfirmBatch, ConfirmErrors, EnvBatch
<1>27. CASE RaucMarksTarget
  BY <1>27 DEF RaucMarksTarget
<1>28. CASE RaucWrites \/ RaucEnds \/ RaucFails
  BY <1>28 DEF RaucWrites, RaucEnds, RaucFails
<1>29. CASE PowerCut \/ Reboot
  BY <1>29 DEF PowerCut, Reboot, LosePower
<1>30. CASE LoaderBoots
  BY <1>30 DEF LoaderBoots
<1>31. CASE LoaderStops \/ EraseData \/ PhysicalReset \/ HostdStarts
  BY <1>31 DEF LoaderStops, EraseData, PhysicalReset, HostdStarts
<1>32. CASE AppStarts \/ AdminReboot \/ FactoryReset \/ RebootGoes
  BY <1>32 DEF AppStarts, AdminReboot, FactoryReset, RebootGoes
<1>33. CASE SupHealthy \/ SupUnreadable
  BY <1>33 DEF SupHealthy, SupUnreadable, OnTrial, IsTrialOf
<1>34. CASE SupMarkGood
  BY <1>34 DEF SupMarkGood
<1>35. CASE SupConfirmed \/ SupDeadline
  BY <1>35 DEF SupConfirmed, SupDeadline
<1>36. CASE HostdKilled \/ WorkerKilled \/ ConfirmKilled \/ SupKilled \/ RaucKilled
  BY <1>36 DEF HostdKilled, WorkerKilled, ConfirmKilled, SupKilled, RaucKilled, Killed
<1>37. CASE FinishSave("hostd") \/ FinishGuard("hostd")
  BY <1>37 DEF FinishSave, FinishGuard
<1>38. CASE ReadySave("hostd") \/ ReadyGuard("hostd")
  BY <1>38 DEF ReadySave, ReadyGuard
<1>39. CASE ReconcilingSave("hostd") \/ ReconcilingGuard("hostd")
  BY <1>39 DEF ReconcilingSave, ReconcilingGuard
<1>40. CASE FinishSave("worker") \/ FinishGuard("worker")
  BY <1>40 DEF FinishSave, FinishGuard
<1>41. CASE ReadySave("worker") \/ ReadyGuard("worker")
  BY <1>41 DEF ReadySave, ReadyGuard
<1>42. CASE ReconcilingSave("worker") \/ ReconcilingGuard("worker")
  BY <1>42 DEF ReconcilingSave, ReconcilingGuard
<1>43. CASE FinishSave("confirm") \/ FinishGuard("confirm")
  BY <1>43 DEF FinishSave, FinishGuard
<1>44. CASE ReadySave("confirm") \/ ReadyGuard("confirm") \/
         ReconcilingSave("confirm") \/ ReconcilingGuard("confirm")
  BY <1>44 DEF ReadySave, ReadyGuard, ReconcilingSave, ReconcilingGuard
<1>45. CASE BackToReadyBad("hostd") \/ BackToReadyBad("worker")
  BY <1>45 DEF BackToReadyBad, RaucMarksBad, Unanswered
<1>46. CASE BackToReadyClear("hostd") \/ BackToReadyClear("worker")
  BY <1>46 DEF BackToReadyClear, EnvBatch
<1>47. CASE UNCHANGED vars
  BY <1>47 DEF vars
<1> QED
  BY <1>1, <1>2, <1>3, <1>4, <1>5, <1>6, <1>7, <1>8, <1>9, <1>10, <1>11, <1>12, <1>13,
    <1>14, <1>15, <1>16, <1>17, <1>18, <1>19, <1>20, <1>21, <1>22, <1>23, <1>24, <1>25,
    <1>26, <1>27, <1>28, <1>29, <1>30, <1>31, <1>32, <1>33, <1>34, <1>35, <1>36, <1>37,
    <1>38, <1>39, <1>40, <1>41, <1>42, <1>43, <1>44, <1>45, <1>46, <1>47
  DEF Next, HostdStep, WorkerStep, ConfirmStep, RaucStep, MachineStep, EndJob, BackToReady

\* The coordinator's copy is the pending job, and agrees with the journal
\* of that job.
LEMMA ConfirmCopy ==
  ASSUME BoxInv, AgreeInv, AimInv
  PROVE  /\ At("confirm", "c_promote") => env.pending # 0 /\ JobOf("confirm").seq = env.seq
         /\ ConfirmHolds /\ journal.id = JobOf("confirm").id /\ journal.id # 0 => journal.seq = JobOf("confirm").seq
<1>1. At("confirm", "c_promote") => env.pending # 0 /\ JobOf("confirm").id = env.pending
  BY DEF BoxInv, PhaseInv, AimInv, At
<1>2. /\ journal \in Held
      /\ ConfirmHolds => JobOf("confirm") \in Held
      /\ env.pending # 0 => PendingJob(env) \in Held
  BY DEF Held
<1>3. PendingJob(env).id = env.pending /\ PendingJob(env).seq = env.seq
  BY DEF PendingJob
<1> QED BY <1>1, <1>2, <1>3 DEF AgreeInv, ConfirmHolds, At

\* Nobody says promoting or confirmed before the floor is raised.
LEMMA FloorStep == BoxInv /\ AgreeInv /\ AimInv /\ FloorInv /\ [Next]_vars => FloorInv'
<1> SUFFICES ASSUME BoxInv, AgreeInv, AimInv, FloorInv, [Next]_vars PROVE FloorInv'
  OBVIOUS
<1>0. /\ env \in Env /\ env.floor \in Int /\ env.seq \in Int /\ proc \in ProcType /\ journal \in Job /\ TypeOK /\ PendingSound
      /\ journal.seq \in Int /\ \A p \in Programs : proc[p].job.seq \in Int
      /\ PlaceInv /\ PowerInv /\ CopyInv
  BY JobsAssumption DEF BoxInv, TypeOK, ProcType, Env, Job, Sequences0
<1>f. env'.floor >= env.floor /\ env'.floor \in Int
  <2>1. JobOf("confirm").seq \in Int
    BY <1>0 DEF JobOf, Programs
  <2>2. /\ Promote(env, JobOf("confirm").seq).floor >= env.floor
        /\ Promote(env, JobOf("confirm").seq).floor \in Int
    BY <1>0, <2>1 DEF Promote, Env
  <2> QED BY <1>0, <2>2, FloorMoves DEF FloorKeptBy
<1> USE <1>0 DEF ProcType, PlaceInv, WorkerPCs, HostdPCs, ConfirmPCs, PowerInv, CopyInv,
        Named, SamePending, PhaseOnly,
        FloorInv, ConfirmedIsFloored, PendingConsistent,
        At, Goto, Call, JobOf, Programs, Off, files, JobStates, Working, Terminal, Resumable
<1>1. ASSUME NEW seq \in 1..MaxSeq, Install(seq) PROVE FloorInv'
  BY <1>1 DEF Install, NoOpenJob, Admissible, Healthy, NewJob, StartWorker
<1>2. CASE Cancel \/ CancelCheck \/ Dismiss \/ View
  BY <1>2, WithStateIs, JobsAre DEF Cancel, CancelCheck, Dismiss, View, Serving
<1>3. CASE Restart
  BY <1>3, WithStateIs DEF Restart, StartWorker
<1>4. CASE Discard
  BY <1>4, WithStateIs, MarkSteps, <1>f DEF Discard, RaucMarksBad, Unanswered
<1>5. CASE ReconcileCarriesOn
  BY <1>5 DEF ReconcileCarriesOn, WorkerCarriesOn
<1>6. CASE ReconcileNoPending
  BY <1>6, WithStateIs DEF ReconcileNoPending, WorkerCarriesOn, ReconcileJournal, GuardFor,
    StartWorker
<1>7. CASE ReconcilePending
  BY <1>7, JobsMade DEF ReconcilePending, WorkerCarriesOn, NeverTried, Rebuilt
<1>8. CASE TrialClear \/ TrialIdle \/ TrialSave \/ TrialGuard
  BY <1>8, BatchSteps, <1>f, WithStateIs DEF TrialClear, TrialIdle, TrialSave, TrialGuard, EnvBatch
<1>9. CASE RollbackBad \/ RollbackActive
  BY <1>9, MarkSteps, <1>f DEF RollbackBad, RollbackActive, RaucMarksBad, Unanswered, EnvBatch
<1>10. CASE RollbackFinish \/ RollbackClear
  BY <1>10, WithStateIs, BatchSteps, <1>f DEF RollbackFinish, RollbackClear, EnvBatch
<1>11. CASE InterruptedBad
  BY <1>11, WithStateIs, MarkSteps, <1>f DEF InterruptedBad, RaucMarksBad, Unanswered
<1>12. CASE HostdServes
  BY <1>12 DEF HostdServes
<1>13. CASE WorkerBegin \/ WorkerReads \/ WorkerStarts \/ WorkerLease \/ WorkerGuard
  BY <1>13 DEF WorkerBegin, WorkerReads, WorkerStarts, WorkerLease, WorkerGuard, WorkerFinish,
    CancelSeen
<1>14. CASE WorkerWork \/ WorkerDownload \/ WorkerVerifying \/ WorkerCheckCancel
  BY <1>14 DEF WorkerWork, WorkerDownload, WorkerVerifying, WorkerCheckCancel, WorkerFinish,
    CancelSeen, RebootPromised
<1>15. CASE WorkerIdentity \/ WorkerInstalling \/ WorkerCallsRauc \/ WorkerRaucDone
  BY <1>15 DEF WorkerIdentity, WorkerInstalling, WorkerCallsRauc, WorkerRaucDone, WorkerFinish
<1>16. CASE WorkerCompleteInstall \/ WorkerReconcileInstall
  BY <1>16 DEF WorkerCompleteInstall, WorkerReconcileInstall
<1>17. CASE WorkerFailInstall
  BY <1>17, MarkSteps, <1>f DEF WorkerFailInstall, RaucMarksBad, Unanswered, WorkerFinish
<1>18. CASE ActivateBegin
  BY <1>18 DEF ActivateBegin, Admissible, TargetVerified
<1>19. CASE ActivateIntent
  BY <1>19, BatchSteps, <1>f DEF ActivateIntent, EnvBatch
<1>20. CASE ActivateMark
  BY <1>20, MarkSteps, <1>f DEF ActivateMark, EnvBatch, Unanswered
<1>21. CASE ActivateActivated
  BY <1>21, BatchSteps, <1>f DEF ActivateActivated, EnvBatch
<1>22. CASE ActivateSave
  BY <1>22 DEF ActivateSave
<1>23. CASE ActivateReboot
  BY <1>23 DEF ActivateReboot
<1>24. CASE WorkerExit
  BY <1>24 DEF WorkerExit
<1>25. CASE ConfirmBegin
  <2>1. PendingJob(env).seq = env.seq
    BY DEF PendingJob
  <2> QED BY <1>25, <2>1 DEF ConfirmBegin, TrialPhases
<1>26. CASE ConfirmIntent \/ ConfirmMarkGood
  BY <1>26, BatchSteps, <1>f, MarkSteps DEF ConfirmIntent, ConfirmMarkGood,
    ConfirmBatch, ConfirmErrors, EnvBatch
<1>27. CASE ConfirmPromote
  <2>1. env' = env \/ env' = Promote(env, JobOf("confirm").seq)
    BY <1>27 DEF ConfirmPromote, ConfirmBatch, EnvBatch
  <2>2. At("confirm", "promoting")' => env' = Promote(env, JobOf("confirm").seq)
    BY <1>27 DEF ConfirmPromote, ConfirmBatch, ConfirmErrors, EnvBatch
  <2>3. /\ Promote(env, JobOf("confirm").seq).floor >= JobOf("confirm").seq
        /\ Promote(env, JobOf("confirm").seq).floor >= env.floor /\ Promote(env, JobOf("confirm").seq).floor \in Int
        /\ Promote(env, JobOf("confirm").seq).seq = env.seq
    BY DEF Promote, Env
  <2>4. JobOf("confirm").seq = env.seq
    BY <1>27, ConfirmCopy DEF ConfirmPromote
  <2>5. /\ \A p \in Programs : proc'[p].job = proc[p].job
        /\ proc'["hostd"] = proc["hostd"] /\ proc'["confirm"].pc # "fin_save" /\ journal' = journal
    BY <1>27 DEF ConfirmPromote, ConfirmBatch, ConfirmErrors, EnvBatch
  <2> QED BY <2>1, <2>2, <2>3, <2>4, <2>5
<1>28. CASE ConfirmJournal
  <2>1. At("confirm", "promoting") /\ JobOf("confirm").id # 0 /\ JobOf("confirm").state = "trying"
    BY <1>28 DEF ConfirmJournal
  <2>2. Rebuilt(JobOf("confirm"), journal) \in Job /\ env.floor >= Rebuilt(JobOf("confirm"), journal).seq
    BY <2>1, ConfirmCopy DEF Rebuilt, ConfirmHolds
  <2>3. WithState(Rebuilt(JobOf("confirm"), journal), "confirmed").seq = Rebuilt(JobOf("confirm"), journal).seq
    BY <2>2, WithStateIs
  <2>4. env' = env /\ proc'["hostd"] = proc["hostd"] /\ proc'["confirm"].pc # "promoting"
    BY <1>28 DEF ConfirmJournal, ConfirmErrors
  <2>5. journal' \in {journal, Rebuilt(JobOf("confirm"), journal)}
    BY <1>28 DEF ConfirmJournal
  <2>6. proc'["confirm"].pc = "fin_save" => proc'["confirm"].job = WithState(Rebuilt(JobOf("confirm"), journal), "confirmed")
    BY <1>28 DEF ConfirmJournal, ConfirmErrors
  <2> QED BY <2>2, <2>3, <2>4, <2>5, <2>6
<1>29. CASE ConfirmClear
  BY <1>29, BatchSteps, <1>f DEF ConfirmClear, ConfirmBatch, ConfirmErrors, EnvBatch
<1>30. CASE RaucMarksTarget
  BY <1>30, MarkSteps, <1>f DEF RaucMarksTarget
<1>31. CASE RaucWrites \/ RaucEnds \/ RaucFails
  BY <1>31 DEF RaucWrites, RaucEnds, RaucFails
<1>32. CASE PowerCut \/ Reboot
  BY <1>32 DEF PowerCut, Reboot, LosePower
<1>33. CASE LoaderBoots
  BY <1>33, LoaderIs, <1>f DEF LoaderBoots
<1>34. CASE LoaderStops \/ EraseData \/ PhysicalReset \/ HostdStarts
  BY <1>34, JobsAre DEF LoaderStops, EraseData, PhysicalReset, HostdStarts
<1>35. CASE AppStarts \/ AdminReboot \/ FactoryReset \/ RebootGoes
  BY <1>35 DEF AppStarts, AdminReboot, FactoryReset, RebootGoes
<1>36. CASE SupHealthy \/ SupUnreadable
  BY <1>36 DEF SupHealthy, SupUnreadable, OnTrial, IsTrialOf
<1>37. CASE SupMarkGood
  BY <1>37, MarkSteps, <1>f DEF SupMarkGood
<1>38. CASE SupConfirmed \/ SupDeadline
  BY <1>38 DEF SupConfirmed, SupDeadline
<1>39. CASE HostdKilled \/ WorkerKilled \/ ConfirmKilled \/ SupKilled \/ RaucKilled
  BY <1>39 DEF HostdKilled, WorkerKilled, ConfirmKilled, SupKilled, RaucKilled, Killed
<1>40. CASE FinishSave("hostd") \/ FinishGuard("hostd")
  BY <1>40 DEF FinishSave, FinishGuard
<1>41. CASE ReadySave("hostd") \/ ReadyGuard("hostd")
  BY <1>41, WithStateIs DEF ReadySave, ReadyGuard
<1>42. CASE ReconcilingSave("hostd") \/ ReconcilingGuard("hostd")
  BY <1>42, WithStateIs DEF ReconcilingSave, ReconcilingGuard
<1>43. CASE FinishSave("worker") \/ FinishGuard("worker")
  BY <1>43 DEF FinishSave, FinishGuard
<1>44. CASE ReadySave("worker") \/ ReadyGuard("worker")
  BY <1>44, WithStateIs DEF ReadySave, ReadyGuard
<1>45. CASE ReconcilingSave("worker") \/ ReconcilingGuard("worker")
  BY <1>45, WithStateIs DEF ReconcilingSave, ReconcilingGuard
<1>46. CASE FinishSave("confirm") \/ FinishGuard("confirm")
  BY <1>46 DEF FinishSave, FinishGuard
<1>47. CASE ReadySave("confirm") \/ ReadyGuard("confirm") \/
         ReconcilingSave("confirm") \/ ReconcilingGuard("confirm")
  BY <1>47 DEF ReadySave, ReadyGuard, ReconcilingSave, ReconcilingGuard
<1>48. CASE BackToReadyBad("hostd") \/ BackToReadyBad("worker")
  BY <1>48, MarkSteps, <1>f DEF BackToReadyBad, RaucMarksBad, Unanswered
<1>49. CASE BackToReadyClear("hostd") \/ BackToReadyClear("worker")
  BY <1>49, BatchSteps, <1>f DEF BackToReadyClear, EnvBatch
<1>50. CASE UNCHANGED vars
  BY <1>50 DEF vars
<1> QED
  BY <1>1, <1>2, <1>3, <1>4, <1>5, <1>6, <1>7, <1>8, <1>9, <1>10, <1>11, <1>12, <1>13,
    <1>14, <1>15, <1>16, <1>17, <1>18, <1>19, <1>20, <1>21, <1>22, <1>23, <1>24, <1>25,
    <1>26, <1>27, <1>28, <1>29, <1>30, <1>31, <1>32, <1>33, <1>34, <1>35, <1>36, <1>37,
    <1>38, <1>39, <1>40, <1>41, <1>42, <1>43, <1>44, <1>45, <1>46, <1>47, <1>48, <1>49,
    <1>50
  DEF Next, HostdStep, WorkerStep, ConfirmStep, RaucStep, MachineStep, EndJob, BackToReady

-----------------------------------------------------------------------------
(* A ready job.                                                            *)

ReadyStays ==
  journal.state = "ready" /\ cancel = 0 =>
    /\ journal'.id = journal.id \/ journal' = NoJob
    /\ image'[journal.tgt] = image[journal.tgt]

\* No step but those the property names takes a ready job away.
LEMMA ReadyStep == BoxInv /\ OrderInv /\ WriterInv /\ KeepInv /\ [Next]_vars => ReadyStays
<1> SUFFICES ASSUME BoxInv, OrderInv, WriterInv, KeepInv, [Next]_vars, journal.state = "ready", cancel = 0 PROVE ReadyStays
  BY DEF ReadyStays
<1>0. /\ proc \in ProcType /\ journal \in Job /\ TypeOK /\ PendingSound
      /\ PlaceInv /\ PowerInv /\ CopyInv /\ TrialInv
  BY DEF BoxInv, TypeOK, ProcType
<1>w. \A state : WithState(journal, state).id = journal.id /\ WithState(JobOf("hostd"), state).id = JobOf("hostd").id
  BY <1>0 DEF ProcType, Programs, JobOf, WithState, Job
<1> USE <1>0, <1>w DEF PlaceInv, WorkerPCs, HostdPCs, ConfirmPCs, PowerInv, CopyInv,
        Named, HoldsJob, TrialInv, Confirming, Quiet,
        OrderInv, WriterInv, Resting, HostdReturns, KeepInv, Settling, ReadyStays,
        At, JobOf, Programs, files, store, Working, Terminal
<1>1. ASSUME NEW seq \in 1..MaxSeq, Install(seq) PROVE ReadyStays
  BY <1>1 DEF Install, NoOpenJob, Admissible, Healthy, NewJob, StartWorker
<1>2. CASE Cancel \/ CancelCheck \/ Dismiss \/ View
  BY <1>2 DEF Cancel, CancelCheck, Dismiss, View, Serving
<1>3. CASE Restart
  BY <1>3 DEF Restart, StartWorker
<1>4. CASE Discard
  BY <1>4 DEF Discard, RaucMarksBad, Unanswered
<1>5. CASE ReconcileCarriesOn
  BY <1>5 DEF ReconcileCarriesOn, WorkerCarriesOn
<1>6. CASE ReconcileNoPending
  BY <1>6 DEF ReconcileNoPending, WorkerCarriesOn, ReconcileJournal, GuardFor,
    StartWorker
<1>7. CASE ReconcilePending
  BY <1>7 DEF ReconcilePending, WorkerCarriesOn, NeverTried, Rebuilt
<1>8. CASE TrialClear \/ TrialIdle \/ TrialSave \/ TrialGuard
  BY <1>8 DEF TrialClear, TrialIdle, TrialSave, TrialGuard, EnvBatch
<1>9. CASE RollbackBad \/ RollbackActive
  BY <1>9 DEF RollbackBad, RollbackActive, RaucMarksBad, Unanswered, EnvBatch
<1>10. CASE RollbackFinish \/ RollbackClear
  BY <1>10 DEF RollbackFinish, RollbackClear, EnvBatch
<1>11. CASE InterruptedBad
  BY <1>11 DEF InterruptedBad, RaucMarksBad, Unanswered
<1>12. CASE HostdServes
  BY <1>12 DEF HostdServes
<1>13. CASE WorkerBegin \/ WorkerReads \/ WorkerStarts \/ WorkerLease \/ WorkerGuard
  BY <1>13 DEF WorkerBegin, WorkerReads, WorkerStarts, WorkerLease, WorkerGuard, WorkerFinish,
    CancelSeen
<1>14. CASE WorkerWork \/ WorkerDownload \/ WorkerVerifying \/ WorkerCheckCancel
  BY <1>14 DEF WorkerWork, WorkerDownload, WorkerVerifying, WorkerCheckCancel,
    WorkerFinish, CancelSeen, RebootPromised
<1>15. CASE WorkerIdentity \/ WorkerInstalling \/ WorkerCallsRauc \/ WorkerRaucDone
  BY <1>15 DEF WorkerIdentity, WorkerInstalling, WorkerCallsRauc, WorkerRaucDone,
    WorkerFinish
<1>16. CASE WorkerCompleteInstall \/ WorkerReconcileInstall
  BY <1>16 DEF WorkerCompleteInstall, WorkerReconcileInstall
<1>17. CASE WorkerFailInstall
  BY <1>17 DEF WorkerFailInstall, RaucMarksBad, Unanswered, WorkerFinish
<1>18. CASE ActivateBegin
  BY <1>18 DEF ActivateBegin, Admissible, TargetVerified
<1>19. CASE ActivateIntent
  BY <1>19 DEF ActivateIntent, EnvBatch
<1>20. CASE ActivateMark
  BY <1>20 DEF ActivateMark, EnvBatch, Unanswered
<1>21. CASE ActivateActivated \/ ActivateSave \/ ActivateReboot \/ WorkerExit
  BY <1>21 DEF ActivateActivated, ActivateSave, ActivateReboot, WorkerExit, EnvBatch
<1>22. CASE ConfirmBegin
  BY <1>22 DEF ConfirmBegin, IsTrialOf
<1>23. CASE ConfirmIntent \/ ConfirmMarkGood
  BY <1>23 DEF ConfirmIntent, ConfirmMarkGood, ConfirmBatch, ConfirmErrors, EnvBatch
<1>24. CASE ConfirmPromote
  BY <1>24 DEF ConfirmPromote, ConfirmBatch, ConfirmErrors, EnvBatch
<1>25. CASE ConfirmJournal
  BY <1>25 DEF ConfirmJournal, ConfirmErrors, Rebuilt
<1>26. CASE ConfirmClear
  BY <1>26 DEF ConfirmClear, ConfirmBatch, ConfirmErrors, EnvBatch
<1>27. CASE RaucMarksTarget
  BY <1>27 DEF RaucMarksTarget
<1>28. CASE RaucWrites \/ RaucEnds \/ RaucFails
  BY <1>28 DEF RaucWrites, RaucEnds, RaucFails
<1>29. CASE PowerCut \/ Reboot
  BY <1>29 DEF PowerCut, Reboot, LosePower
<1>30. CASE LoaderBoots
  BY <1>30 DEF LoaderBoots
<1>31. CASE LoaderStops \/ EraseData \/ PhysicalReset \/ HostdStarts
  BY <1>31 DEF LoaderStops, EraseData, PhysicalReset, HostdStarts
<1>32. CASE AppStarts \/ AdminReboot \/ FactoryReset \/ RebootGoes
  BY <1>32 DEF AppStarts, AdminReboot, FactoryReset, RebootGoes
<1>33. CASE SupHealthy \/ SupUnreadable
  BY <1>33 DEF SupHealthy, SupUnreadable, OnTrial, IsTrialOf
<1>34. CASE SupMarkGood
  BY <1>34 DEF SupMarkGood
<1>35. CASE SupConfirmed \/ SupDeadline
  BY <1>35 DEF SupConfirmed, SupDeadline
<1>36. CASE HostdKilled \/ WorkerKilled \/ ConfirmKilled \/ SupKilled \/ RaucKilled
  BY <1>36 DEF HostdKilled, WorkerKilled, ConfirmKilled, SupKilled, RaucKilled, Killed
<1>37. CASE FinishSave("hostd") \/ FinishGuard("hostd")
  BY <1>37 DEF FinishSave, FinishGuard
<1>38. CASE ReadySave("hostd") \/ ReadyGuard("hostd")
  BY <1>38 DEF ReadySave, ReadyGuard
<1>39. CASE ReconcilingSave("hostd") \/ ReconcilingGuard("hostd")
  BY <1>39 DEF ReconcilingSave, ReconcilingGuard
<1>40. CASE FinishSave("worker") \/ FinishGuard("worker")
  BY <1>40 DEF FinishSave, FinishGuard
<1>41. CASE ReadySave("worker") \/ ReadyGuard("worker")
  BY <1>41 DEF ReadySave, ReadyGuard
<1>42. CASE ReconcilingSave("worker") \/ ReconcilingGuard("worker")
  BY <1>42 DEF ReconcilingSave, ReconcilingGuard
<1>43. CASE FinishSave("confirm") \/ FinishGuard("confirm")
  BY <1>43 DEF FinishSave, FinishGuard
<1>44. CASE ReadySave("confirm") \/ ReadyGuard("confirm") \/
         ReconcilingSave("confirm") \/ ReconcilingGuard("confirm")
  BY <1>44 DEF ReadySave, ReadyGuard, ReconcilingSave, ReconcilingGuard
<1>45. CASE BackToReadyBad("hostd") \/ BackToReadyBad("worker")
  BY <1>45 DEF BackToReadyBad, RaucMarksBad, Unanswered
<1>46. CASE BackToReadyClear("hostd") \/ BackToReadyClear("worker")
  BY <1>46 DEF BackToReadyClear, EnvBatch
<1>47. CASE UNCHANGED vars
  BY <1>47 DEF vars
<1> QED
  BY <1>1, <1>2, <1>3, <1>4, <1>5, <1>6, <1>7, <1>8, <1>9, <1>10, <1>11, <1>12, <1>13,
    <1>14, <1>15, <1>16, <1>17, <1>18, <1>19, <1>20, <1>21, <1>22, <1>23, <1>24, <1>25,
    <1>26, <1>27, <1>28, <1>29, <1>30, <1>31, <1>32, <1>33, <1>34, <1>35, <1>36, <1>37,
    <1>38, <1>39, <1>40, <1>41, <1>42, <1>43, <1>44, <1>45, <1>46, <1>47
  DEF Next, HostdStep, WorkerStep, ConfirmStep, RaucStep, MachineStep, EndJob, BackToReady

-----------------------------------------------------------------------------
(* The theorems.                                                           *)

\* A new card: nothing is pending, no program runs.
LEMMA FallbackInit == Init => FallbackInv
<1> SUFFICES ASSUME Init PROVE FallbackInv
  OBVIOUS
<1>1. /\ env.pending = 0 /\ env.phase = "none" /\ env.floor = 0 /\ env.seq = 0
      /\ journal = NoJob /\ jobs = 0 /\ cancel = 0 /\ power = "loader" /\ rauc.op = "idle"
  BY DEF Init, SeedEnv, RaucIdle
<1>2. \A p \in Programs : proc[p].pc = "off" /\ proc[p].job = NoJob /\ proc[p].ret = "off"
  BY DEF Init, Off
<1> USE <1>1, <1>2, JobsAre DEF At, JobOf, Programs
<1>3. OrderInv /\ WriterInv /\ KeepInv /\ AimInv
  BY DEF OrderInv, WriterInv, KeepInv, AimInv, Installing, InstallPCs, ActivatePCs,
    Resting, Leaving, Settling, HostdReturns,
         Activating, Working, Resumable
<1>4. SlotInv /\ FloorInv
  BY DEF SlotInv, FloorInv, ConfirmedIsFloored
<1>5. Held = {NoJob}
  BY DEF Held, ConfirmHolds
<1>6. AgreeInv
  BY <1>5 DEF AgreeInv
<1> QED BY <1>3, <1>4, <1>6 DEF FallbackInv, TurnInv

\* Each conjunct is preserved by its lemma.
LEMMA FallbackStep == BoxInv /\ FallbackInv /\ [Next]_vars => FallbackInv'
BY TurnStep, SlotStep, AgreeStep, FloorStep DEF FallbackInv, TurnInv

\* While a job is activated, tried or confirmed, the system it would fall
\* back to is whole and in BOOT_ORDER, and nothing writes a slot: however
\* many jobs, killed programs, failing commands, cuts and resets there are.
THEOREM FallbackAlways == Spec => []KnownGoodKept
<1>1. FallbackInv => KnownGoodKept
  BY DEF FallbackInv, TurnInv, WriterInv, SlotInv, InOrder, KnownGoodKept
<1> QED BY <1>1, InitInv, StepInv, FallbackInit, FallbackStep, PTL DEF Spec

\* A job in the journal is called confirmed only with its sequence in the
\* durable floor.
THEOREM ConfirmedAlwaysFloored == Spec => []ConfirmedIsFloored
<1>1. FallbackInv => ConfirmedIsFloored
  BY DEF FallbackInv, FloorInv
<1> QED BY <1>1, InitInv, StepInv, FallbackInit, FallbackStep, PTL DEF Spec

\* The floor only rises, in a trial, to the sequence of the image that runs:
\* a copy of another job, however stale, never gets there.
THEOREM FloorAlwaysEarned == Spec => FloorEarned
<1> DEFINE Earned == env'.floor # env.floor => env'.floor > env.floor /\ image[slot] = env'.floor /\ OnTrial
<1>1. BoxInv /\ FallbackInv /\ [Next]_vars => [Earned]_vars
  <2> SUFFICES ASSUME BoxInv, FallbackInv, [Next]_vars, env'.floor # env.floor
               PROVE  env'.floor > env.floor /\ image[slot] = env'.floor /\ OnTrial
    OBVIOUS
  <2>1. ConfirmPromote /\ env' = Promote(env, JobOf("confirm").seq)
    BY FloorMoves DEF FloorKeptBy
  <2>2. env \in Env /\ env.floor \in Int /\ env.seq \in Int
    BY JobsAssumption DEF BoxInv, TypeOK, Env, Sequences0
  <2>3. env.pending # 0 /\ JobOf("confirm").seq = env.seq /\ At("confirm", "c_promote")
    BY <2>1, ConfirmCopy DEF ConfirmPromote, FallbackInv, TurnInv
  <2>4. env'.floor = env.seq /\ env.seq > env.floor
    BY <2>1, <2>2, <2>3 DEF Promote, Env
  <2>5. power = "up"
    BY <2>3 DEF BoxInv, PowerInv, At, Off, Programs
  <2>6. env.target = slot /\ env.trial = env.pending
    BY <2>3, <2>5 DEF BoxInv, TrialInv, Confirming, InTrial, At
  <2>7. image[slot] = env.seq
    BY <2>3, <2>6 DEF FallbackInv, SlotInv
  <2> QED BY <2>3, <2>4, <2>6, <2>7 DEF OnTrial, IsTrialOf
<1> QED BY <1>1, InitInv, StepInv, FallbackInit, FallbackStep, PTL DEF Spec, FloorEarned

\* A ready job is replaced or overwritten by nothing but its own Restart or
\* Discard, a cancel request on file, or the erasure of DATA.
THEOREM ReadyAlwaysKept == Spec => ReadyKept
<1>1. BoxInv /\ FallbackInv /\ [Next]_vars => [ReadyStays]_vars
  BY ReadyStep DEF FallbackInv, TurnInv
<1> QED BY <1>1, InitInv, StepInv, FallbackInit, FallbackStep, PTL DEF Spec, ReadyKept, ReadyStays

-----------------------------------------------------------------------------
(* The guard, as long as no program was killed and no command failed.      *)

Undisturbed == crashes = 0 /\ ioerrs = 0

\* The worker is between WorkerGuard and its last write of the guard.
Guarded == proc["worker"].pc \in InstallPCs \cup ActivatePCs \cup {"rdy_save", "rdy_guard", "rec_save", "rec_guard"}

\* The worker has read no job yet, or has written its last state.
Ended == proc["worker"].pc \in {"off", "begin", "exit", "fin_guard", "rdy_guard", "rec_guard"}

\* hostd has reconciled the boot.
HostdUp == proc["hostd"].pc \notin {"off", "start"} /\ ~Reconciling

\* hostd ends a job: the one it found no worker for.
HostdEnds == proc["hostd"].pc \in {"fin_save", "fin_guard"} /\ proc["hostd"].ret = "serve"

\* What the guard stands for.
CoverInv ==
  /\ Guarded => guard = "active"
  /\ HostdUp /\ guard = "idle" => journal.state \in Terminal \cup Working \cup {"none"}
  /\ rauc.op # "idle" => At("worker", "rauc")

\* Who can be about to release it: nobody but the last one to write the job.
ReleaseInv ==
  /\ At("worker", "fin_guard") => journal.state \in Terminal \cup Working \cup {"none"}
  /\ At("hostd", "fin_guard") => journal.state \in Terminal
  /\ At("confirm", "fin_guard") => journal.state \in Terminal \cup {"none"}
  /\ proc["hostd"].pc \in {"try_clear", "try_idle"} => journal.state = "confirmed"
  /\ proc["hostd"].pc \in {"rb_bad", "rb_active", "rb_finish"} => journal.state = JobOf("hostd").state
  /\ At("hostd", "rb_clear") => journal.state \in Terminal

\* hostd reconciles before there is a worker or an app, and a worker that is
\* asked for afterwards settles the job it finds.
ResumeInv ==
  /\ ~HostdUp => ~WorkerActive /\ ~wreq /\ ~appUp
  /\ Reconciling /\ ~At("hostd", "start") => journal.state # "installing"
  /\ HostdUp /\ journal.state = "installing" =>
       wreq \/ proc["worker"].pc \notin {"off", "exit", "fin_guard", "rdy_guard", "rec_guard"}

\* A worker that begins after hostd found none sees the cancel request.
CancelInv ==
  /\ At("hostd", "can_check") =>
       /\ cancel = JobOf("hostd").id
       /\ Ended /\ journal.state \in Resumable => journal.state \in Working /\ journal.id = cancel
  /\ HostdEnds =>
       /\ proc["worker"].pc \in {"off", "begin", "exit", "start", "fin_save", "fin_guard"}
       /\ At("worker", "start") => JobOf("worker").state \in Working /\ JobOf("worker").id = cancel
       /\ journal.state \in Resumable => journal.state \in Working /\ journal.id = cancel

\* A trial is guarded until the coordinator has called it confirmed, and is
\* cleared by nobody else.
AwaitInv ==
  /\ InTrial /\ HostdUp /\ ~At("confirm", "c_clear") => guard = "pending"
  /\ ConfirmHolds \/ proc["confirm"].pc \in {"fin_guard", "c_clear"} => env.pending # 0
  /\ At("hostd", "try_idle") => env.pending = 0
  /\ proc["hostd"].pc \in {"fin_save", "fin_guard"} /\ proc["hostd"].ret = "begin" => env.pending = 0

CalmInv == CoverInv /\ ReleaseInv /\ ResumeInv /\ CancelInv /\ AwaitInv

GuardInv == Undisturbed => CalmInv

\* The counters of killed programs and failed commands never fall.
LEMMA CalmStep == BoxInv /\ [Next]_vars /\ Undisturbed' => Undisturbed /\ UNCHANGED <<crashes, ioerrs>>
<1> SUFFICES ASSUME BoxInv, [Next]_vars, Undisturbed' PROVE Undisturbed /\ UNCHANGED <<crashes, ioerrs>>
  OBVIOUS
<1>0. crashes \in Nat /\ ioerrs \in Nat
  BY CrashAssumption DEF BoxInv, TypeOK
<1> USE <1>0 DEF Undisturbed, counts, boot, machine
<1>1. CASE HostdStep
  BY <1>1 DEF HostdStep, Install, Cancel, CancelCheck, Dismiss, View, Restart, Discard,
    ReconcileCarriesOn, ReconcileNoPending, ReconcileJournal, ReconcilePending, TrialClear,
    TrialIdle, TrialSave, TrialGuard, RollbackBad, RollbackActive, RollbackFinish,
    RollbackClear, InterruptedBad, HostdServes, EndJob, FinishSave, FinishGuard, ReadySave,
    ReadyGuard, ReconcilingSave, ReconcilingGuard, BackToReady, BackToReadyBad,
    BackToReadyClear, EnvBatch, RaucMarksBad, Unanswered, StartWorker
<1>2. CASE WorkerStep
  BY <1>2 DEF WorkerStep, WorkerBegin, WorkerReads, WorkerStarts, WorkerLease, WorkerGuard,
    WorkerWork, WorkerDownload, WorkerVerifying, WorkerCheckCancel, WorkerIdentity,
    WorkerInstalling, WorkerCallsRauc, WorkerRaucDone, WorkerCompleteInstall,
    WorkerReconcileInstall, WorkerFailInstall, ActivateBegin, ActivateIntent, ActivateMark,
    ActivateActivated, ActivateSave, ActivateReboot, WorkerExit, EndJob, FinishSave,
    FinishGuard, ReadySave, ReadyGuard, ReconcilingSave, ReconcilingGuard, BackToReady,
    BackToReadyBad, BackToReadyClear, EnvBatch, RaucMarksBad, Unanswered
<1>3. CASE ConfirmStep \/ RaucStep
  BY <1>3 DEF ConfirmStep, RaucStep, ConfirmBegin, ConfirmIntent, ConfirmMarkGood,
    ConfirmPromote, ConfirmJournal, ConfirmClear, RaucMarksTarget, RaucWrites, RaucEnds,
    RaucFails, EndJob, FinishSave, FinishGuard, ReadySave, ReadyGuard, ReconcilingSave,
    ReconcilingGuard, ConfirmBatch, EnvBatch
<1>4. CASE MachineStep
  BY <1>4 DEF MachineStep, AdminReboot, AppStarts, ConfirmKilled, EraseData, FactoryReset,
    HostdKilled, HostdStarts, LoaderBoots, LoaderStops, PhysicalReset, PowerCut,
    RaucKilled, Reboot, RebootGoes, SupConfirmed, SupDeadline, SupHealthy, SupKilled,
    SupMarkGood, SupUnreadable, WorkerKilled, LosePower, Killed
<1>5. CASE UNCHANGED vars
  BY <1>5 DEF vars
<1> QED BY <1>1, <1>2, <1>3, <1>4, <1>5 DEF Next

\* The guard is active while the worker may write a slot or the environment.
LEMMA CoverStep ==
  BoxInv /\ OrderInv /\ KeepInv /\ Undisturbed /\ GuardInv
    /\ UNCHANGED <<crashes, ioerrs>> /\ [Next]_vars => CoverInv'
<1> SUFFICES ASSUME BoxInv, OrderInv, KeepInv, Undisturbed, GuardInv, UNCHANGED <<crashes, ioerrs>>, [Next]_vars
             PROVE  CoverInv'
  OBVIOUS
<1>0. /\ env \in Env /\ proc \in ProcType /\ journal \in Job /\ TypeOK /\ ioerrs \in Nat
      /\ crashes \in Nat /\ rauc \in RaucType
      /\ PlaceInv /\ PowerInv /\ CopyInv /\ TrialInv /\ CoverInv /\ ReleaseInv /\ ResumeInv
      /\ CancelInv /\ AwaitInv
  BY CrashAssumption DEF BoxInv, TypeOK, RaucType, ProcType, GuardInv, CalmInv, KeepInv
<1> USE <1>0 DEF ProcType, PlaceInv, WorkerPCs, HostdPCs, ConfirmPCs, PowerInv, CopyInv,
        Reconciling, TrialInv, Confirming, Quiet, InstallPCs, ActivatePCs, CoverInv,
        ReleaseInv, ResumeInv, CancelInv, AwaitInv, InTrial, ConfirmHolds, RaucType,
        RaucIdle, Guarded, Ended, HostdUp, HostdEnds, SamePending, PhaseOnly, At, Goto,
        Call, JobOf, Programs, Off, files, store, boot, machine, session, WorkerActive,
        JobStates, Working, Terminal, Resumable
<1>1. ASSUME NEW seq \in 1..MaxSeq, Install(seq) PROVE CoverInv'
  BY <1>1 DEF Install, NoOpenJob, Admissible, Healthy, NewJob, StartWorker
<1>2. CASE Cancel \/ CancelCheck
  BY <1>2 DEF Cancel, CancelCheck
<1>3. CASE Dismiss
  BY <1>3, JobsAre DEF Dismiss
<1>4. CASE View
  BY <1>4 DEF View, Serving
<1>5. CASE Restart
  BY <1>5 DEF Restart, StartWorker
<1>6. CASE Discard
  BY <1>6 DEF Discard, RaucMarksBad, Unanswered
<1>7. CASE ReconcileCarriesOn
  BY <1>7 DEF ReconcileCarriesOn, WorkerCarriesOn
<1>8. CASE ReconcileNoPending
  BY <1>8 DEF ReconcileNoPending, ReconcileJournal, GuardFor, StartWorker
<1>9. CASE ReconcilePending \/ TrialClear
  BY <1>9 DEF ReconcilePending, NeverTried, Rebuilt, PendingJob, TrialClear, EnvBatch
<1>10. CASE TrialIdle \/ TrialSave
  BY <1>10 DEF TrialIdle, TrialSave
<1>11. CASE TrialGuard
  BY <1>11 DEF TrialGuard
<1>12. CASE RollbackBad \/ RollbackActive
  BY <1>12 DEF RollbackBad, RollbackActive, RaucMarksBad, Unanswered, EnvBatch
<1>13. CASE RollbackFinish
  BY <1>13 DEF RollbackFinish
<1>14. CASE RollbackClear
  BY <1>14 DEF RollbackClear, EnvBatch
<1>15. CASE InterruptedBad
  BY <1>15 DEF InterruptedBad, RaucMarksBad, Unanswered
<1>16. CASE HostdServes \/ FinishSave("hostd")
  BY <1>16 DEF HostdServes, FinishSave
<1>17. CASE FinishGuard("hostd") \/ ReadySave("hostd") \/ ReadyGuard("hostd")
  BY <1>17 DEF FinishGuard, ReadySave, ReadyGuard
<1>18. CASE ReconcilingSave("hostd") \/ ReconcilingGuard("hostd")
  BY <1>18 DEF ReconcilingSave, ReconcilingGuard
<1>19. CASE BackToReadyBad("hostd") \/ BackToReadyClear("hostd")
  BY <1>19 DEF BackToReadyBad, RaucMarksBad, Unanswered, BackToReadyClear, EnvBatch
<1>20. CASE WorkerBegin \/ WorkerReads
  BY <1>20 DEF WorkerBegin, WorkerReads
<1>21. CASE WorkerStarts
  BY <1>21 DEF WorkerStarts, WorkerFinish, CancelSeen
<1>22. CASE WorkerLease \/ WorkerGuard
  BY <1>22 DEF WorkerLease, WorkerGuard, WorkerFinish
<1>23. CASE WorkerWork
  BY <1>23 DEF WorkerWork, WorkerFinish
<1>24. CASE WorkerDownload
  BY <1>24 DEF WorkerDownload, WorkerFinish, CancelSeen, RebootPromised
<1>25. CASE WorkerVerifying
  BY <1>25 DEF WorkerVerifying
<1>26. CASE WorkerCheckCancel
  BY <1>26 DEF WorkerCheckCancel, WorkerFinish, CancelSeen
<1>27. CASE WorkerIdentity
  BY <1>27 DEF WorkerIdentity, WorkerFinish
<1>28. CASE WorkerInstalling \/ WorkerCallsRauc
  BY <1>28 DEF WorkerInstalling, WorkerCallsRauc
<1>29. CASE WorkerRaucDone
  BY <1>29 DEF WorkerRaucDone
<1>30. CASE WorkerCompleteInstall \/ WorkerReconcileInstall
  BY <1>30 DEF WorkerCompleteInstall, WorkerReconcileInstall
<1>31. CASE WorkerFailInstall
  BY <1>31 DEF WorkerFailInstall, RaucMarksBad, Unanswered, WorkerFinish
<1>32. CASE ActivateBegin
  BY <1>32 DEF ActivateBegin, Admissible, TargetVerified
<1>33. CASE ActivateIntent
  BY <1>33 DEF ActivateIntent, EnvBatch
<1>34. CASE ActivateMark \/ ActivateActivated
  BY <1>34 DEF ActivateMark, EnvBatch, Unanswered, ActivateActivated
<1>35. CASE ActivateSave \/ ActivateReboot \/ WorkerExit \/ FinishSave("worker")
         \/ FinishGuard("worker")
  BY <1>35 DEF ActivateSave, ActivateReboot, WorkerExit, FinishSave, FinishGuard
<1>36. CASE ReadySave("worker") \/ ReadyGuard("worker") \/ ReconcilingSave("worker")
  BY <1>36 DEF ReadySave, ReadyGuard, ReconcilingSave
<1>37. CASE ReconcilingGuard("worker") \/ BackToReadyBad("worker")
  BY <1>37 DEF ReconcilingGuard, BackToReadyBad, RaucMarksBad, Unanswered
<1>38. CASE BackToReadyClear("worker")
  BY <1>38 DEF BackToReadyClear, EnvBatch
<1>39. CASE ConfirmBegin \/ ConfirmIntent \/ ConfirmMarkGood
  BY <1>39 DEF ConfirmBegin, IsTrialOf, ConfirmIntent, ConfirmMarkGood, ConfirmBatch,
    ConfirmErrors, EnvBatch
<1>40. CASE ConfirmPromote
  BY <1>40 DEF ConfirmPromote, ConfirmBatch, ConfirmErrors, EnvBatch
<1>41. CASE ConfirmJournal
  BY <1>41 DEF ConfirmJournal, ConfirmErrors, Rebuilt
<1>42. CASE ConfirmClear \/ FinishSave("confirm") \/ FinishGuard("confirm")
  BY <1>42 DEF ConfirmClear, ConfirmBatch, EnvBatch, FinishSave, FinishGuard
<1>43. CASE ReadySave("confirm") \/ ReadyGuard("confirm")
  BY <1>43 DEF ReadySave, ReadyGuard
<1>44. CASE ReconcilingSave("confirm") \/ ReconcilingGuard("confirm")
  BY <1>44 DEF ReconcilingSave, ReconcilingGuard
<1>45. CASE RaucMarksTarget \/ RaucWrites \/ RaucEnds \/ RaucFails
  BY <1>45 DEF RaucMarksTarget, RaucWrites, RaucEnds, RaucFails
<1>46. CASE PowerCut \/ Reboot \/ LoaderBoots
  BY <1>46 DEF PowerCut, Reboot, LosePower, LoaderBoots
<1>47. CASE LoaderStops \/ EraseData
  BY <1>47 DEF LoaderStops, EraseData
<1>48. CASE PhysicalReset \/ HostdStarts \/ AppStarts \/ AdminReboot \/ FactoryReset
  BY <1>48 DEF PhysicalReset, HostdStarts, AppStarts, AdminReboot, FactoryReset
<1>49. CASE RebootGoes \/ SupHealthy \/ SupUnreadable \/ SupMarkGood \/ SupConfirmed
  BY <1>49 DEF RebootGoes, SupHealthy, SupUnreadable, OnTrial, IsTrialOf, SupMarkGood, SupConfirmed
<1>50. CASE SupDeadline \/ HostdKilled \/ WorkerKilled \/ ConfirmKilled \/ SupKilled
  BY <1>50 DEF SupDeadline, HostdKilled, WorkerKilled, ConfirmKilled, SupKilled, Killed
<1>51. CASE RaucKilled
  BY <1>51 DEF RaucKilled
<1>52. CASE UNCHANGED vars
  BY <1>52 DEF vars
<1> HIDE DEF ProcType, PlaceInv, WorkerPCs, HostdPCs, ConfirmPCs, PowerInv, CopyInv,
        Reconciling, TrialInv, Confirming, Quiet, InstallPCs, ActivatePCs, CoverInv,
        ReleaseInv, ResumeInv, CancelInv, AwaitInv, InTrial, ConfirmHolds, RaucType,
        RaucIdle, Guarded, Ended, HostdUp, HostdEnds, SamePending, PhaseOnly, At, Goto,
        Call, JobOf, Off, files, store, boot, machine, session, WorkerActive, JobStates,
        Working, Terminal, Resumable, CoverInv
<1>53. CASE HostdStep
  BY <1>1, <1>2, <1>3, <1>4, <1>5, <1>6, <1>7, <1>8, <1>9, <1>10, <1>11, <1>12, <1>13, <1>14,
    <1>15, <1>16, <1>17, <1>18, <1>19, <1>53 DEF HostdStep, EndJob, BackToReady
<1>54. CASE WorkerStep
  BY <1>20, <1>21, <1>22, <1>23, <1>24, <1>25, <1>26, <1>27, <1>28, <1>29, <1>30, <1>31,
    <1>32, <1>33, <1>34, <1>35, <1>36, <1>37, <1>38, <1>54 DEF WorkerStep, EndJob,
    BackToReady
<1>55. CASE ConfirmStep
  BY <1>39, <1>40, <1>41, <1>42, <1>43, <1>44, <1>55 DEF ConfirmStep, EndJob
<1>56. CASE RaucStep
  BY <1>45, <1>56 DEF RaucStep
<1>57. CASE MachineStep
  BY <1>46, <1>47, <1>48, <1>49, <1>50, <1>51, <1>57 DEF MachineStep
<1> QED BY <1>52, <1>53, <1>54, <1>55, <1>56, <1>57 DEF Next

\* Whoever is about to release the guard has just written the last state of
\* the job.
LEMMA ReleaseStep ==
  BoxInv /\ OrderInv /\ KeepInv /\ Undisturbed /\ GuardInv
    /\ UNCHANGED <<crashes, ioerrs>> /\ [Next]_vars => ReleaseInv'
<1> SUFFICES ASSUME BoxInv, OrderInv, KeepInv, Undisturbed, GuardInv, UNCHANGED <<crashes, ioerrs>>, [Next]_vars
             PROVE  ReleaseInv'
  OBVIOUS
<1>0. /\ env \in Env /\ proc \in ProcType /\ journal \in Job /\ TypeOK /\ ioerrs \in Nat
      /\ crashes \in Nat /\ rauc \in RaucType
      /\ PlaceInv /\ PowerInv /\ CopyInv /\ TrialInv /\ ReleaseInv /\ ResumeInv /\ CancelInv
  BY CrashAssumption DEF BoxInv, TypeOK, RaucType, ProcType, GuardInv, CalmInv, KeepInv
<1> USE <1>0 DEF ProcType, PlaceInv, WorkerPCs, HostdPCs, ConfirmPCs, PowerInv, CopyInv,
        Reconciling, TrialInv, Confirming, Quiet, ActivatePCs, ReleaseInv, ResumeInv,
        CancelInv, InTrial, TrialPhases, RaucType, RaucIdle, Ended, HostdUp, HostdEnds,
        SamePending, PhaseOnly, At, Goto, Call, JobOf, Programs, Off, files, store, boot,
        machine, session, WorkerActive, JobStates, Working, Terminal, Resumable
<1>1. ASSUME NEW seq \in 1..MaxSeq, Install(seq) PROVE ReleaseInv'
  BY <1>1 DEF Install, NoOpenJob, Admissible, Healthy, NewJob, StartWorker
<1>2. CASE Cancel \/ CancelCheck \/ Dismiss
  BY <1>2, JobsAre DEF Cancel, CancelCheck, Dismiss
<1>3. CASE View \/ Restart \/ Discard
  BY <1>3 DEF View, Serving, Restart, StartWorker, Discard, RaucMarksBad, Unanswered
<1>4. CASE ReconcileCarriesOn
  BY <1>4 DEF ReconcileCarriesOn, WorkerCarriesOn
<1>5. CASE ReconcileNoPending
  BY <1>5 DEF ReconcileNoPending, ReconcileJournal, GuardFor, StartWorker
<1>6. CASE ReconcilePending \/ TrialClear \/ TrialIdle
  BY <1>6 DEF ReconcilePending, NeverTried, Rebuilt, PendingJob, TrialClear, EnvBatch, TrialIdle
<1>7. CASE TrialSave \/ TrialGuard
  BY <1>7 DEF TrialSave, TrialGuard
<1>8. CASE RollbackBad
  BY <1>8 DEF RollbackBad, RaucMarksBad, Unanswered
<1>9. CASE RollbackActive \/ RollbackFinish
  BY <1>9 DEF RollbackActive, Unanswered, EnvBatch, RollbackFinish
<1>10. CASE RollbackClear
  BY <1>10 DEF RollbackClear, EnvBatch
<1>11. CASE InterruptedBad \/ HostdServes \/ FinishSave("hostd")
  BY <1>11 DEF InterruptedBad, RaucMarksBad, Unanswered, HostdServes, FinishSave
<1>12. CASE FinishGuard("hostd") \/ ReadySave("hostd") \/ ReadyGuard("hostd")
  BY <1>12 DEF FinishGuard, ReadySave, ReadyGuard
<1>13. CASE ReconcilingSave("hostd") \/ ReconcilingGuard("hostd") \/ BackToReadyBad("hostd")
  BY <1>13 DEF ReconcilingSave, ReconcilingGuard, BackToReadyBad, RaucMarksBad, Unanswered
<1>14. CASE BackToReadyClear("hostd")
  BY <1>14 DEF BackToReadyClear, EnvBatch
<1>15. CASE WorkerBegin \/ WorkerReads \/ WorkerStarts
  BY <1>15 DEF WorkerBegin, WorkerReads, WorkerStarts, WorkerFinish, CancelSeen
<1>16. CASE WorkerLease \/ WorkerGuard
  BY <1>16 DEF WorkerLease, WorkerGuard, WorkerFinish
<1>17. CASE WorkerWork
  BY <1>17 DEF WorkerWork, WorkerFinish
<1>18. CASE WorkerDownload \/ WorkerVerifying \/ WorkerCheckCancel
  BY <1>18 DEF WorkerDownload, WorkerVerifying, WorkerCheckCancel, WorkerFinish, CancelSeen,
    RebootPromised
<1>19. CASE WorkerIdentity \/ WorkerInstalling \/ WorkerCallsRauc
  BY <1>19 DEF WorkerIdentity, WorkerInstalling, WorkerCallsRauc, WorkerFinish
<1>20. CASE WorkerRaucDone \/ WorkerCompleteInstall \/ WorkerReconcileInstall
  BY <1>20 DEF WorkerRaucDone, WorkerCompleteInstall, WorkerReconcileInstall
<1>21. CASE WorkerFailInstall
  BY <1>21 DEF WorkerFailInstall, RaucMarksBad, Unanswered, WorkerFinish
<1>22. CASE ActivateBegin
  BY <1>22 DEF ActivateBegin, Admissible, TargetVerified
<1>23. CASE ActivateIntent
  BY <1>23 DEF ActivateIntent, EnvBatch
<1>24. CASE ActivateMark \/ ActivateActivated \/ ActivateSave
  BY <1>24 DEF ActivateMark, EnvBatch, Unanswered, ActivateActivated, ActivateSave
<1>25. CASE ActivateReboot
  BY <1>25 DEF ActivateReboot
<1>26. CASE WorkerExit \/ FinishSave("worker") \/ FinishGuard("worker")
  BY <1>26 DEF WorkerExit, FinishSave, FinishGuard
<1>27. CASE ReadySave("worker") \/ ReadyGuard("worker") \/ ReconcilingSave("worker")
  BY <1>27 DEF ReadySave, ReadyGuard, ReconcilingSave
<1>28. CASE ReconcilingGuard("worker") \/ BackToReadyBad("worker")
         \/ BackToReadyClear("worker")
  BY <1>28 DEF ReconcilingGuard, BackToReadyBad, RaucMarksBad, Unanswered, BackToReadyClear,
    EnvBatch
<1>29. CASE ConfirmBegin
  BY <1>29 DEF ConfirmBegin, IsTrialOf
<1>30. CASE ConfirmIntent \/ ConfirmMarkGood \/ ConfirmPromote
  BY <1>30 DEF ConfirmIntent, ConfirmMarkGood, ConfirmBatch, ConfirmErrors, EnvBatch,
    ConfirmPromote
<1>31. CASE ConfirmJournal \/ ConfirmClear \/ FinishSave("confirm")
  BY <1>31 DEF ConfirmJournal, ConfirmErrors, Rebuilt, ConfirmClear, ConfirmBatch, EnvBatch,
    FinishSave
<1>32. CASE FinishGuard("confirm") \/ ReadySave("confirm") \/ ReadyGuard("confirm")
  BY <1>32 DEF FinishGuard, ReadySave, ReadyGuard
<1>33. CASE ReconcilingSave("confirm") \/ ReconcilingGuard("confirm")
  BY <1>33 DEF ReconcilingSave, ReconcilingGuard
<1>34. CASE RaucMarksTarget \/ RaucWrites \/ RaucEnds
  BY <1>34 DEF RaucMarksTarget, RaucWrites, RaucEnds
<1>35. CASE RaucFails
  BY <1>35 DEF RaucFails
<1>36. CASE PowerCut \/ Reboot \/ LoaderBoots
  BY <1>36 DEF PowerCut, Reboot, LosePower, LoaderBoots
<1>37. CASE LoaderStops \/ EraseData \/ PhysicalReset
  BY <1>37 DEF LoaderStops, EraseData, PhysicalReset
<1>38. CASE HostdStarts \/ AppStarts \/ AdminReboot
  BY <1>38 DEF HostdStarts, AppStarts, AdminReboot
<1>39. CASE FactoryReset \/ RebootGoes \/ SupHealthy
  BY <1>39 DEF FactoryReset, RebootGoes, SupHealthy, OnTrial, IsTrialOf
<1>40. CASE SupUnreadable \/ SupMarkGood \/ SupConfirmed
  BY <1>40 DEF SupUnreadable, SupMarkGood, SupConfirmed
<1>41. CASE SupDeadline \/ HostdKilled \/ WorkerKilled
  BY <1>41 DEF SupDeadline, HostdKilled, WorkerKilled, Killed
<1>42. CASE ConfirmKilled \/ SupKilled \/ RaucKilled
  BY <1>42 DEF ConfirmKilled, SupKilled, RaucKilled, Killed
<1>43. CASE UNCHANGED vars
  BY <1>43 DEF vars
<1> HIDE DEF ProcType, PlaceInv, WorkerPCs, HostdPCs, ConfirmPCs, PowerInv, CopyInv,
        Reconciling, TrialInv, Confirming, Quiet, ActivatePCs, ReleaseInv, ResumeInv,
        CancelInv, InTrial, TrialPhases, RaucType, RaucIdle, Ended, HostdUp, HostdEnds,
        SamePending, PhaseOnly, At, Goto, Call, JobOf, Off, files, store, boot, machine,
        session, WorkerActive, JobStates, Working, Terminal, Resumable, ReleaseInv
<1>44. CASE HostdStep
  BY <1>1, <1>2, <1>3, <1>4, <1>5, <1>6, <1>7, <1>8, <1>9, <1>10, <1>11, <1>12, <1>13, <1>14,
    <1>44 DEF HostdStep, EndJob, BackToReady
<1>45. CASE WorkerStep
  BY <1>15, <1>16, <1>17, <1>18, <1>19, <1>20, <1>21, <1>22, <1>23, <1>24, <1>25, <1>26,
    <1>27, <1>28, <1>45 DEF WorkerStep, EndJob, BackToReady
<1>46. CASE ConfirmStep
  BY <1>29, <1>30, <1>31, <1>32, <1>33, <1>46 DEF ConfirmStep, EndJob
<1>47. CASE RaucStep
  BY <1>34, <1>35, <1>47 DEF RaucStep
<1>48. CASE MachineStep
  BY <1>36, <1>37, <1>38, <1>39, <1>40, <1>41, <1>42, <1>48 DEF MachineStep
<1> QED BY <1>43, <1>44, <1>45, <1>46, <1>47, <1>48 DEF Next

\* A job that is being installed has a worker, or one that was asked for.
LEMMA ResumeStep ==
  BoxInv /\ OrderInv /\ KeepInv /\ Undisturbed /\ GuardInv
    /\ UNCHANGED <<crashes, ioerrs>> /\ [Next]_vars => ResumeInv'
<1> SUFFICES ASSUME BoxInv, OrderInv, KeepInv, Undisturbed, GuardInv, UNCHANGED <<crashes, ioerrs>>, [Next]_vars
             PROVE  ResumeInv'
  OBVIOUS
<1>0. /\ env \in Env /\ proc \in ProcType /\ journal \in Job /\ TypeOK /\ ioerrs \in Nat
      /\ crashes \in Nat /\ rauc \in RaucType
      /\ (proc["worker"].pc \in ActivatePCs => journal.state = "restarting")
      /\ PlaceInv /\ PowerInv /\ CopyInv /\ OrderInv /\ ResumeInv /\ CancelInv
  BY CrashAssumption DEF BoxInv, TypeOK, RaucType, ProcType, GuardInv, CalmInv, KeepInv
<1> USE <1>0 DEF ProcType, PlaceInv, WorkerPCs, HostdPCs, ConfirmPCs, PowerInv, CopyInv,
        Reconciling, OrderInv, Installing, InstallPCs, ActivatePCs, Resting, HostdReturns,
        ResumeInv, CancelInv, TrialPhases, RaucType, RaucIdle, Ended, HostdUp, HostdEnds,
        SamePending, PhaseOnly, At, Goto, Call, JobOf, Programs, Off, files, store, boot,
        machine, session, WorkerActive, JobStates, Working, Terminal, Resumable
<1>1. ASSUME NEW seq \in 1..MaxSeq, Install(seq) PROVE ResumeInv'
  BY <1>1 DEF Install, NoOpenJob, Admissible, Healthy, NewJob, StartWorker
<1>2. CASE Cancel \/ CancelCheck \/ Dismiss
  <2>1. CASE Cancel \/ CancelCheck
    BY <2>1, WithStateIs DEF Cancel, CancelCheck
  <2>2. CASE Dismiss
    BY <2>2, JobsAre DEF Dismiss
  <2> QED BY <1>2, <2>1, <2>2
<1>3. CASE View \/ Restart \/ Discard
  BY <1>3, WithStateIs DEF View, Serving, Restart, StartWorker, Discard, RaucMarksBad, Unanswered
<1>4. CASE ReconcileCarriesOn
  BY <1>4 DEF ReconcileCarriesOn, WorkerCarriesOn
<1>5. CASE ReconcileNoPending
  <2>1. ~WorkerActive /\ ~wreq /\ ~appUp /\ ~WorkerActive' /\ ~appUp'
    BY <1>5 DEF ReconcileNoPending, ReconcileJournal
  <2>2. CASE journal.state \in {"restarting", "trying"}
    BY <1>5, <2>1, <2>2 DEF ReconcileNoPending
  <2>3. CASE journal.state \notin {"restarting", "trying"}
    <3>1. guard' = GuardFor(journal.state) /\ (guard' = "active" => StartWorker)
      BY <1>5, <2>3 DEF ReconcileNoPending, ReconcileJournal
    <3>2. StartWorker => wreq' = (wreq \/ ~WorkerActive)
      <4>1. ioerrs' # ioerrs + 1
        OBVIOUS
      <4> QED BY <4>1 DEF StartWorker
    <3>3. journal.state = "installing" => guard' = "active"
      BY <3>1 DEF GuardFor
    <3>4. journal.state = "installing" => wreq'
      BY <2>1, <3>1, <3>2, <3>3, Zenon
    <3> QED BY <1>5, <2>1, <2>3, <3>4 DEF ReconcileNoPending, ReconcileJournal
  <2> QED BY <2>2, <2>3
<1>6. CASE ReconcilePending \/ TrialClear \/ TrialIdle
  BY <1>6 DEF ReconcilePending, NeverTried, Rebuilt, PendingJob, TrialClear, EnvBatch, TrialIdle
<1>7. CASE TrialSave \/ TrialGuard
  BY <1>7, WithStateIs DEF TrialSave, TrialGuard
<1>8. CASE RollbackBad
  BY <1>8 DEF RollbackBad, RaucMarksBad, Unanswered
<1>9. CASE RollbackActive \/ RollbackFinish
  BY <1>9 DEF RollbackActive, Unanswered, EnvBatch, RollbackFinish
<1>10. CASE RollbackClear
  BY <1>10 DEF RollbackClear, EnvBatch
<1>11. CASE InterruptedBad \/ HostdServes
  BY <1>11 DEF InterruptedBad, RaucMarksBad, Unanswered, HostdServes
<1>12. CASE FinishSave("hostd")
  BY <1>12 DEF FinishSave
<1>13. CASE FinishGuard("hostd") \/ ReadySave("hostd") \/ ReadyGuard("hostd")
  BY <1>13, WithStateIs DEF FinishGuard, ReadySave, ReadyGuard
<1>14. CASE ReconcilingSave("hostd") \/ ReconcilingGuard("hostd") \/ BackToReadyBad("hostd")
  <2>1. CASE ReconcilingSave("hostd")
    BY <2>1, WithStateIs DEF ReconcilingSave
  <2>2. CASE ReconcilingGuard("hostd")
    BY <2>2 DEF ReconcilingGuard
  <2>3. CASE BackToReadyBad("hostd")
    BY <2>3 DEF BackToReadyBad, RaucMarksBad, Unanswered
  <2> QED BY <1>14, <2>1, <2>2, <2>3
<1>15. CASE BackToReadyClear("hostd")
  BY <1>15 DEF BackToReadyClear, EnvBatch
<1>16. CASE WorkerBegin \/ WorkerReads
  BY <1>16 DEF WorkerBegin, WorkerReads
<1>17. CASE WorkerStarts
  BY <1>17 DEF WorkerStarts, WorkerFinish, CancelSeen
<1>18. CASE WorkerLease \/ WorkerGuard
  BY <1>18 DEF WorkerLease, WorkerGuard, WorkerFinish
<1>19. CASE WorkerWork
  BY <1>19 DEF WorkerWork, WorkerFinish
<1>20. CASE WorkerDownload \/ WorkerVerifying
  BY <1>20 DEF WorkerDownload, WorkerVerifying, WorkerFinish, CancelSeen, RebootPromised
<1>21. CASE WorkerCheckCancel
  BY <1>21 DEF WorkerCheckCancel, WorkerFinish, CancelSeen
<1>22. CASE WorkerIdentity \/ WorkerInstalling \/ WorkerCallsRauc
  BY <1>22 DEF WorkerIdentity, WorkerInstalling, WorkerCallsRauc, WorkerFinish
<1>23. CASE WorkerRaucDone \/ WorkerCompleteInstall \/ WorkerReconcileInstall
  BY <1>23 DEF WorkerRaucDone, WorkerCompleteInstall, WorkerReconcileInstall
<1>24. CASE WorkerFailInstall
  BY <1>24 DEF WorkerFailInstall, RaucMarksBad, Unanswered, WorkerFinish
<1>25. CASE ActivateBegin
  BY <1>25 DEF ActivateBegin, Admissible, TargetVerified
<1>26. CASE ActivateIntent
  BY <1>26 DEF ActivateIntent, EnvBatch
<1>27. CASE ActivateMark \/ ActivateActivated \/ ActivateSave
  BY <1>27 DEF ActivateMark, EnvBatch, Unanswered, ActivateActivated, ActivateSave
<1>28. CASE ActivateReboot
  BY <1>28 DEF ActivateReboot
<1>29. CASE WorkerExit \/ FinishSave("worker") \/ FinishGuard("worker")
  BY <1>29 DEF WorkerExit, FinishSave, FinishGuard
<1>30. CASE ReadySave("worker") \/ ReadyGuard("worker") \/ ReconcilingSave("worker")
  BY <1>30, WithStateIs DEF ReadySave, ReadyGuard, ReconcilingSave
<1>31. CASE ReconcilingGuard("worker") \/ BackToReadyBad("worker")
         \/ BackToReadyClear("worker")
  BY <1>31 DEF ReconcilingGuard, BackToReadyBad, RaucMarksBad, Unanswered, BackToReadyClear,
    EnvBatch
<1>32. CASE ConfirmBegin
  BY <1>32 DEF ConfirmBegin, IsTrialOf
<1>33. CASE ConfirmIntent \/ ConfirmMarkGood \/ ConfirmPromote
  BY <1>33 DEF ConfirmIntent, ConfirmMarkGood, ConfirmBatch, ConfirmErrors, EnvBatch,
    ConfirmPromote
<1>34. CASE ConfirmJournal
  BY <1>34 DEF ConfirmJournal, ConfirmErrors, Rebuilt
<1>35. CASE ConfirmClear
  BY <1>35 DEF ConfirmClear, ConfirmBatch, EnvBatch
<1>36. CASE FinishSave("confirm")
  BY <1>36 DEF FinishSave
<1>37. CASE FinishGuard("confirm") \/ ReadySave("confirm") \/ ReadyGuard("confirm")
  BY <1>37 DEF FinishGuard, ReadySave, ReadyGuard
<1>38. CASE ReconcilingSave("confirm") \/ ReconcilingGuard("confirm")
  BY <1>38 DEF ReconcilingSave, ReconcilingGuard
<1>39. CASE RaucMarksTarget \/ RaucWrites \/ RaucEnds
  BY <1>39 DEF RaucMarksTarget, RaucWrites, RaucEnds
<1>40. CASE RaucFails
  BY <1>40 DEF RaucFails
<1>41. CASE PowerCut \/ Reboot \/ LoaderBoots
  BY <1>41 DEF PowerCut, Reboot, LosePower, LoaderBoots
<1>42. CASE LoaderStops \/ EraseData \/ PhysicalReset
  BY <1>42 DEF LoaderStops, EraseData, PhysicalReset
<1>43. CASE HostdStarts \/ AppStarts \/ AdminReboot
  BY <1>43 DEF HostdStarts, AppStarts, AdminReboot
<1>44. CASE FactoryReset \/ RebootGoes \/ SupHealthy
  BY <1>44 DEF FactoryReset, RebootGoes, SupHealthy, OnTrial, IsTrialOf
<1>45. CASE SupUnreadable \/ SupMarkGood \/ SupConfirmed
  BY <1>45 DEF SupUnreadable, SupMarkGood, SupConfirmed
<1>46. CASE SupDeadline \/ HostdKilled \/ WorkerKilled
  BY <1>46 DEF SupDeadline, HostdKilled, WorkerKilled, Killed
<1>47. CASE ConfirmKilled \/ SupKilled \/ RaucKilled
  BY <1>47 DEF ConfirmKilled, SupKilled, RaucKilled, Killed
<1>48. CASE UNCHANGED vars
  BY <1>48 DEF vars
<1> HIDE DEF ProcType, PlaceInv, WorkerPCs, HostdPCs, ConfirmPCs, PowerInv, CopyInv,
        Reconciling, OrderInv, Installing, InstallPCs, ActivatePCs, Resting, HostdReturns,
        ResumeInv, CancelInv, TrialPhases, RaucType, RaucIdle, Ended, HostdUp, HostdEnds,
        SamePending, PhaseOnly, At, Goto, Call, JobOf, Off, files, store, boot, machine,
        session, WorkerActive, JobStates, Working, Terminal, Resumable, ResumeInv
<1>49. CASE HostdStep
  BY <1>1, <1>2, <1>3, <1>4, <1>5, <1>6, <1>7, <1>8, <1>9, <1>10, <1>11, <1>12, <1>13, <1>14,
    <1>15, <1>49 DEF HostdStep, EndJob, BackToReady
<1>50. CASE WorkerStep
  BY <1>16, <1>17, <1>18, <1>19, <1>20, <1>21, <1>22, <1>23, <1>24, <1>25, <1>26, <1>27,
    <1>28, <1>29, <1>30, <1>31, <1>50 DEF WorkerStep, EndJob, BackToReady
<1>51. CASE ConfirmStep
  BY <1>32, <1>33, <1>34, <1>35, <1>36, <1>37, <1>38, <1>51 DEF ConfirmStep, EndJob
<1>52. CASE RaucStep
  BY <1>39, <1>40, <1>52 DEF RaucStep
<1>53. CASE MachineStep
  BY <1>41, <1>42, <1>43, <1>44, <1>45, <1>46, <1>47, <1>53 DEF MachineStep
<1> QED BY <1>48, <1>49, <1>50, <1>51, <1>52, <1>53 DEF Next

\* A cancelled job is resumed by nobody.
LEMMA CancelStep ==
  BoxInv /\ OrderInv /\ KeepInv /\ Undisturbed /\ GuardInv
    /\ UNCHANGED <<crashes, ioerrs>> /\ [Next]_vars => CancelInv'
<1> SUFFICES ASSUME BoxInv, OrderInv, KeepInv, Undisturbed, GuardInv, UNCHANGED <<crashes, ioerrs>>, [Next]_vars
             PROVE  CancelInv'
  OBVIOUS
<1>0. /\ env \in Env /\ proc \in ProcType /\ journal \in Job /\ TypeOK /\ ioerrs \in Nat
      /\ crashes \in Nat /\ rauc \in RaucType
      /\ (proc["worker"].pc \in ActivatePCs => journal.state = "restarting")
      /\ PlaceInv /\ PowerInv /\ CopyInv /\ ExclusionInv /\ ResumeInv /\ CancelInv
  BY CrashAssumption DEF BoxInv, TypeOK, RaucType, ProcType, GuardInv, CalmInv, KeepInv
<1> USE <1>0 DEF ProcType, PlaceInv, WorkerPCs, HostdPCs, ConfirmPCs, PowerInv, CopyInv,
        ExclusionInv, Activating, Reconciling, ActivatePCs, ResumeInv, CancelInv,
        TrialPhases, RaucType, RaucIdle, Ended, HostdUp, HostdEnds, SamePending, PhaseOnly,
        At, Goto, Call, JobOf, Programs, Off, files, store, boot, machine, session,
        WorkerActive, JobStates, Working, Terminal, Resumable
<1>1. ASSUME NEW seq \in 1..MaxSeq, Install(seq) PROVE CancelInv'
  BY <1>1 DEF Install, NoOpenJob, Admissible, Healthy, NewJob, StartWorker
<1>2. CASE Cancel \/ CancelCheck \/ Dismiss
  BY <1>2 DEF Cancel, CancelCheck, Dismiss
<1>3. CASE View \/ Restart \/ Discard
  BY <1>3 DEF View, Serving, Restart, StartWorker, Discard, RaucMarksBad, Unanswered
<1>4. CASE ReconcileCarriesOn
  BY <1>4 DEF ReconcileCarriesOn, WorkerCarriesOn
<1>5. CASE ReconcileNoPending
  BY <1>5 DEF ReconcileNoPending, ReconcileJournal, GuardFor, StartWorker
<1>6. CASE ReconcilePending \/ TrialClear \/ TrialIdle
  BY <1>6 DEF ReconcilePending, NeverTried, Rebuilt, PendingJob, TrialClear, EnvBatch, TrialIdle
<1>7. CASE TrialSave \/ TrialGuard \/ RollbackBad
  BY <1>7 DEF TrialSave, TrialGuard, RollbackBad, RaucMarksBad, Unanswered
<1>8. CASE RollbackActive \/ RollbackFinish \/ RollbackClear
  BY <1>8 DEF RollbackActive, Unanswered, EnvBatch, RollbackFinish, RollbackClear
<1>9. CASE InterruptedBad \/ HostdServes \/ FinishSave("hostd")
  BY <1>9 DEF InterruptedBad, RaucMarksBad, Unanswered, HostdServes, FinishSave
<1>10. CASE FinishGuard("hostd") \/ ReadySave("hostd") \/ ReadyGuard("hostd")
  BY <1>10 DEF FinishGuard, ReadySave, ReadyGuard
<1>11. CASE ReconcilingSave("hostd") \/ ReconcilingGuard("hostd") \/ BackToReadyBad("hostd")
  BY <1>11 DEF ReconcilingSave, ReconcilingGuard, BackToReadyBad, RaucMarksBad, Unanswered
<1>12. CASE BackToReadyClear("hostd")
  BY <1>12 DEF BackToReadyClear, EnvBatch
<1>13. CASE WorkerBegin \/ WorkerReads \/ WorkerStarts
  BY <1>13 DEF WorkerBegin, WorkerReads, WorkerStarts, WorkerFinish, CancelSeen
<1>14. CASE WorkerLease \/ WorkerGuard \/ WorkerWork
  BY <1>14 DEF WorkerLease, WorkerGuard, WorkerFinish, WorkerWork
<1>15. CASE WorkerDownload \/ WorkerVerifying \/ WorkerCheckCancel
  BY <1>15 DEF WorkerDownload, WorkerVerifying, WorkerCheckCancel, WorkerFinish, CancelSeen,
    RebootPromised
<1>16. CASE WorkerIdentity \/ WorkerInstalling \/ WorkerCallsRauc
  BY <1>16 DEF WorkerIdentity, WorkerInstalling, WorkerCallsRauc, WorkerFinish
<1>17. CASE WorkerRaucDone \/ WorkerCompleteInstall \/ WorkerReconcileInstall
  BY <1>17 DEF WorkerRaucDone, WorkerCompleteInstall, WorkerReconcileInstall
<1>18. CASE WorkerFailInstall \/ ActivateBegin \/ ActivateIntent
  <2>1. CASE WorkerFailInstall
    BY <2>1 DEF WorkerFailInstall, RaucMarksBad, Unanswered, WorkerFinish
  <2>2. CASE ActivateBegin
    BY <2>2 DEF ActivateBegin, Admissible, TargetVerified, WorkerFinish
  <2>3. CASE ActivateIntent
    BY <2>3 DEF ActivateIntent, EnvBatch, WorkerFinish
  <2> QED BY <1>18, <2>1, <2>2, <2>3
<1>19. CASE ActivateMark \/ ActivateActivated \/ ActivateSave
  BY <1>19 DEF ActivateMark, EnvBatch, Unanswered, ActivateActivated, ActivateSave
<1>20. CASE ActivateReboot
  BY <1>20 DEF ActivateReboot
<1>21. CASE WorkerExit \/ FinishSave("worker") \/ FinishGuard("worker")
  BY <1>21 DEF WorkerExit, FinishSave, FinishGuard
<1>22. CASE ReadySave("worker") \/ ReadyGuard("worker") \/ ReconcilingSave("worker")
  BY <1>22, WithStateIs DEF ReadySave, ReadyGuard, ReconcilingSave
<1>23. CASE ReconcilingGuard("worker") \/ BackToReadyBad("worker")
         \/ BackToReadyClear("worker")
  BY <1>23 DEF ReconcilingGuard, BackToReadyBad, RaucMarksBad, Unanswered, BackToReadyClear,
    EnvBatch
<1>24. CASE ConfirmBegin
  BY <1>24 DEF ConfirmBegin, IsTrialOf
<1>25. CASE ConfirmIntent \/ ConfirmMarkGood \/ ConfirmPromote
  BY <1>25 DEF ConfirmIntent, ConfirmMarkGood, ConfirmBatch, ConfirmErrors, EnvBatch,
    ConfirmPromote
<1>26. CASE ConfirmJournal \/ ConfirmClear \/ FinishSave("confirm")
  <2>1. CASE ConfirmJournal
    BY <2>1 DEF ConfirmJournal, ConfirmErrors, Rebuilt
  <2>2. CASE ConfirmClear
    BY <2>2 DEF ConfirmClear, ConfirmBatch, EnvBatch
  <2>3. CASE FinishSave("confirm")
    BY <2>3 DEF FinishSave
  <2> QED BY <1>26, <2>1, <2>2, <2>3
<1>27. CASE FinishGuard("confirm") \/ ReadySave("confirm") \/ ReadyGuard("confirm")
  BY <1>27 DEF FinishGuard, ReadySave, ReadyGuard
<1>28. CASE ReconcilingSave("confirm") \/ ReconcilingGuard("confirm")
  BY <1>28 DEF ReconcilingSave, ReconcilingGuard
<1>29. CASE RaucMarksTarget \/ RaucWrites \/ RaucEnds
  BY <1>29 DEF RaucMarksTarget, RaucWrites, RaucEnds
<1>30. CASE RaucFails
  BY <1>30 DEF RaucFails
<1>31. CASE PowerCut \/ Reboot \/ LoaderBoots
  BY <1>31 DEF PowerCut, Reboot, LosePower, LoaderBoots
<1>32. CASE LoaderStops \/ EraseData \/ PhysicalReset
  BY <1>32 DEF LoaderStops, EraseData, PhysicalReset
<1>33. CASE HostdStarts \/ AppStarts \/ AdminReboot
  BY <1>33 DEF HostdStarts, AppStarts, AdminReboot
<1>34. CASE FactoryReset \/ RebootGoes \/ SupHealthy
  BY <1>34 DEF FactoryReset, RebootGoes, SupHealthy, OnTrial, IsTrialOf
<1>35. CASE SupUnreadable \/ SupMarkGood \/ SupConfirmed
  BY <1>35 DEF SupUnreadable, SupMarkGood, SupConfirmed
<1>36. CASE SupDeadline \/ HostdKilled \/ WorkerKilled
  BY <1>36 DEF SupDeadline, HostdKilled, WorkerKilled, Killed
<1>37. CASE ConfirmKilled \/ SupKilled \/ RaucKilled
  BY <1>37 DEF ConfirmKilled, SupKilled, RaucKilled, Killed
<1>38. CASE UNCHANGED vars
  BY <1>38 DEF vars
<1> HIDE DEF ProcType, PlaceInv, WorkerPCs, HostdPCs, ConfirmPCs, PowerInv, CopyInv,
        ExclusionInv, Activating, Reconciling, ActivatePCs, ResumeInv, CancelInv,
        TrialPhases, RaucType, RaucIdle, Ended, HostdUp, HostdEnds, SamePending, PhaseOnly,
        At, Goto, Call, JobOf, Off, files, store, boot, machine, session, WorkerActive,
        JobStates, Working, Terminal, Resumable, CancelInv
<1>39. CASE HostdStep
  BY <1>1, <1>2, <1>3, <1>4, <1>5, <1>6, <1>7, <1>8, <1>9, <1>10, <1>11, <1>12,
    <1>39 DEF HostdStep, EndJob, BackToReady
<1>40. CASE WorkerStep
  BY <1>13, <1>14, <1>15, <1>16, <1>17, <1>18, <1>19, <1>20, <1>21, <1>22, <1>23,
    <1>40 DEF WorkerStep, EndJob, BackToReady
<1>41. CASE ConfirmStep
  BY <1>24, <1>25, <1>26, <1>27, <1>28, <1>41 DEF ConfirmStep, EndJob
<1>42. CASE RaucStep
  BY <1>29, <1>30, <1>42 DEF RaucStep
<1>43. CASE MachineStep
  BY <1>31, <1>32, <1>33, <1>34, <1>35, <1>36, <1>37, <1>43 DEF MachineStep
<1> QED BY <1>38, <1>39, <1>40, <1>41, <1>42, <1>43 DEF Next

\* The guard of a trial is kept until the coordinator is done with it.
LEMMA AwaitStep ==
  BoxInv /\ OrderInv /\ KeepInv /\ Undisturbed /\ GuardInv
    /\ UNCHANGED <<crashes, ioerrs>> /\ [Next]_vars => AwaitInv'
<1> SUFFICES ASSUME BoxInv, OrderInv, KeepInv, Undisturbed, GuardInv, UNCHANGED <<crashes, ioerrs>>, [Next]_vars
             PROVE  AwaitInv'
  OBVIOUS
<1>0. /\ env \in Env /\ proc \in ProcType /\ journal \in Job /\ TypeOK /\ ioerrs \in Nat
      /\ crashes \in Nat /\ rauc \in RaucType
      /\ PlaceInv /\ PowerInv /\ ActivationInv /\ TrialInv /\ ResumeInv /\ AwaitInv
  BY CrashAssumption DEF BoxInv, TypeOK, RaucType, ProcType, GuardInv, CalmInv, KeepInv
<1> USE <1>0 DEF ProcType, PlaceInv, WorkerPCs, HostdPCs, ConfirmPCs, PowerInv,
        Reconciling, TrialInv, Confirming, Quiet, ResumeInv, AwaitInv, InTrial,
        ConfirmHolds, RaucType, RaucIdle, HostdUp, ActivationInv, SamePending, PhaseOnly,
        At, Goto, Call, JobOf, Programs, Off, files, store, boot, machine, session,
        WorkerActive, JobStates, Working, Terminal, Resumable
<1>1. ASSUME NEW seq \in 1..MaxSeq, Install(seq) PROVE AwaitInv'
  BY <1>1 DEF Install, NoOpenJob, Admissible, Healthy, NewJob, StartWorker
<1>2. CASE Cancel \/ CancelCheck \/ Dismiss \/ View \/ Restart
  BY <1>2 DEF Cancel, CancelCheck, Dismiss, View, Serving, Restart, StartWorker
<1>3. CASE Discard
  <2>1. env'.pending = env.pending /\ env'.target = env.target
    BY <1>3, MarkSteps DEF SamePending
  <2> QED BY <1>3, <2>1 DEF Discard, RaucMarksBad, Unanswered
<1>4. CASE ReconcileCarriesOn \/ ReconcileNoPending \/ ReconcilePending
  BY <1>4 DEF ReconcileCarriesOn, WorkerCarriesOn, ReconcileNoPending, ReconcileJournal,
    GuardFor, StartWorker, ReconcilePending, NeverTried, Rebuilt, PendingJob
<1>5. CASE TrialClear
  <2>1. env'.pending = 0
    BY <1>5, ClearIs DEF TrialClear, EnvBatch
  <2> QED BY <1>5, <2>1 DEF TrialClear, EnvBatch
<1>6. CASE TrialIdle \/ TrialSave \/ TrialGuard
  BY <1>6 DEF TrialIdle, TrialSave, TrialGuard
<1>7. CASE RollbackBad
  <2>1. env'.pending = env.pending /\ env'.target = env.target
    BY <1>7, MarkSteps DEF SamePending
  <2> QED BY <1>7, <2>1 DEF RollbackBad, RaucMarksBad, Unanswered
<1>8. CASE RollbackActive
  <2>1. env'.pending = env.pending /\ env'.target = env.target
    BY <1>8, MarkSteps DEF SamePending
  <2> QED BY <1>8, <2>1 DEF RollbackActive, Unanswered, EnvBatch
<1>9. CASE RollbackFinish
  BY <1>9 DEF RollbackFinish
<1>10. CASE RollbackClear
  <2>1. env' = env \/ env'.pending = 0
    BY <1>10, BatchSteps
  <2> QED BY <1>10, <2>1 DEF RollbackClear, EnvBatch
<1>11. CASE InterruptedBad
  <2>1. env'.pending = env.pending /\ env'.target = env.target
    BY <1>11, MarkSteps DEF SamePending
  <2> QED BY <1>11, <2>1 DEF InterruptedBad, RaucMarksBad, Unanswered
<1>12. CASE HostdServes \/ FinishSave("hostd") \/ FinishGuard("hostd")
         \/ ReadySave("hostd") \/ ReadyGuard("hostd")
  BY <1>12 DEF HostdServes, FinishSave, FinishGuard, ReadySave, ReadyGuard
<1>13. CASE ReconcilingSave("hostd") \/ ReconcilingGuard("hostd")
  BY <1>13 DEF ReconcilingSave, ReconcilingGuard
<1>14. CASE BackToReadyBad("hostd")
  <2>1. env'.pending = env.pending /\ env'.target = env.target
    BY <1>14, MarkSteps DEF SamePending
  <2> QED BY <1>14, <2>1 DEF BackToReadyBad, RaucMarksBad, Unanswered
<1>15. CASE BackToReadyClear("hostd")
  <2>1. env' = env \/ env'.pending = 0
    BY <1>15, BatchSteps
  <2>2. At("hostd", "rdy_save")' => env'.pending = 0
    BY <1>15, ClearIs DEF BackToReadyClear, EnvBatch
  <2> QED BY <1>15, <2>1, <2>2 DEF BackToReadyClear, EnvBatch
<1>16. CASE WorkerBegin \/ WorkerReads \/ WorkerStarts \/ WorkerLease \/ WorkerGuard
  BY <1>16 DEF WorkerBegin, WorkerReads, WorkerStarts, WorkerLease, WorkerGuard, WorkerFinish,
    CancelSeen
<1>17. CASE WorkerWork \/ WorkerDownload \/ WorkerVerifying
  BY <1>17 DEF WorkerWork, WorkerDownload, WorkerVerifying, WorkerFinish, CancelSeen, RebootPromised
<1>18. CASE WorkerCheckCancel \/ WorkerIdentity
  BY <1>18 DEF WorkerCheckCancel, WorkerFinish, CancelSeen, WorkerIdentity
<1>19. CASE WorkerInstalling \/ WorkerCallsRauc \/ WorkerRaucDone
         \/ WorkerCompleteInstall \/ WorkerReconcileInstall
  BY <1>19 DEF WorkerInstalling, WorkerCallsRauc, WorkerRaucDone, WorkerCompleteInstall,
    WorkerReconcileInstall
<1>20. CASE WorkerFailInstall
  <2>1. env'.pending = env.pending /\ env'.target = env.target
    BY <1>20, MarkSteps DEF SamePending
  <2> QED BY <1>20, <2>1 DEF WorkerFailInstall, RaucMarksBad, Unanswered, WorkerFinish
<1>21. CASE ActivateBegin
  BY <1>21 DEF ActivateBegin, Admissible, TargetVerified
<1>22. CASE ActivateIntent
  <2>1. env' = env \/ (env'.pending = JobOf("worker").id /\ env'.target = JobOf("worker").tgt)
    BY <1>22, BatchSteps
  <2> QED BY <1>22, <2>1 DEF ActivateIntent, EnvBatch
<1>23. CASE ActivateMark
  <2>1. env'.pending = env.pending /\ env'.target = env.target
    BY <1>23, MarkSteps DEF SamePending
  <2> QED BY <1>23, <2>1 DEF ActivateMark, EnvBatch, Unanswered
<1>24. CASE ActivateActivated
  <2>1. env'.pending = env.pending /\ env'.target = env.target
    BY <1>24, BatchSteps DEF PhaseOnly, SamePending
  <2> QED BY <1>24, <2>1 DEF ActivateActivated, EnvBatch
<1>25. CASE ActivateSave \/ ActivateReboot \/ WorkerExit \/ FinishSave("worker")
         \/ FinishGuard("worker")
  BY <1>25 DEF ActivateSave, ActivateReboot, WorkerExit, FinishSave, FinishGuard
<1>26. CASE ReadySave("worker") \/ ReadyGuard("worker") \/ ReconcilingSave("worker")
         \/ ReconcilingGuard("worker")
  BY <1>26 DEF ReadySave, ReadyGuard, ReconcilingSave, ReconcilingGuard
<1>27. CASE BackToReadyBad("worker")
  <2>1. env'.pending = env.pending /\ env'.target = env.target
    BY <1>27, MarkSteps DEF SamePending
  <2> QED BY <1>27, <2>1 DEF BackToReadyBad, RaucMarksBad, Unanswered
<1>28. CASE BackToReadyClear("worker")
  <2>1. env' = env \/ env'.pending = 0
    BY <1>28, BatchSteps
  <2>2. At("worker", "rdy_save")' => env'.pending = 0
    BY <1>28, ClearIs DEF BackToReadyClear, EnvBatch
  <2> QED BY <1>28, <2>1, <2>2 DEF BackToReadyClear, EnvBatch
<1>29. CASE ConfirmBegin
  BY <1>29 DEF ConfirmBegin, IsTrialOf
<1>30. CASE ConfirmIntent
  <2>1. env'.pending = env.pending /\ env'.target = env.target
    BY <1>30, BatchSteps DEF PhaseOnly, SamePending
  <2> QED BY <1>30, <2>1 DEF ConfirmIntent, ConfirmBatch, ConfirmErrors, EnvBatch
<1>31. CASE ConfirmMarkGood
  <2>1. env'.pending = env.pending /\ env'.target = env.target
    BY <1>31, MarkSteps DEF SamePending
  <2> QED BY <1>31, <2>1 DEF ConfirmMarkGood, ConfirmBatch, ConfirmErrors, EnvBatch
<1>32. CASE ConfirmPromote
  <2>1. env'.pending = env.pending /\ env'.target = env.target
    BY <1>32, BatchSteps DEF PhaseOnly, SamePending
  <2> QED BY <1>32, <2>1 DEF ConfirmPromote, ConfirmBatch, ConfirmErrors, EnvBatch
<1>33. CASE ConfirmJournal
  BY <1>33 DEF ConfirmJournal, ConfirmErrors, Rebuilt
<1>34. CASE ConfirmClear
  <2>1. env'.pending = 0
    BY <1>34, ClearIs DEF ConfirmClear, ConfirmBatch, EnvBatch
  <2> QED BY <1>34, <2>1 DEF ConfirmClear, ConfirmBatch, EnvBatch
<1>35. CASE FinishSave("confirm") \/ FinishGuard("confirm") \/ ReadySave("confirm")
         \/ ReadyGuard("confirm") \/ ReconcilingSave("confirm")
  BY <1>35 DEF FinishSave, FinishGuard, ReadySave, ReadyGuard, ReconcilingSave
<1>36. CASE ReconcilingGuard("confirm")
  BY <1>36 DEF ReconcilingGuard
<1>37. CASE RaucMarksTarget
  <2>1. env'.pending = env.pending /\ env'.target = env.target
    BY <1>37, MarkSteps DEF SamePending
  <2> QED BY <1>37, <2>1 DEF RaucMarksTarget
<1>38. CASE RaucWrites \/ RaucEnds \/ RaucFails
  BY <1>38 DEF RaucWrites, RaucEnds, RaucFails
<1>39. CASE PowerCut \/ Reboot \/ LoaderBoots \/ LoaderStops \/ EraseData
  BY <1>39 DEF PowerCut, Reboot, LosePower, LoaderBoots, LoaderStops, EraseData
<1>40. CASE PhysicalReset \/ HostdStarts \/ AppStarts \/ AdminReboot \/ FactoryReset
  BY <1>40 DEF PhysicalReset, HostdStarts, AppStarts, AdminReboot, FactoryReset
<1>41. CASE RebootGoes \/ SupHealthy \/ SupUnreadable
  BY <1>41 DEF RebootGoes, SupHealthy, SupUnreadable, OnTrial, IsTrialOf
<1>42. CASE SupMarkGood
  <2>1. env'.pending = env.pending /\ env'.target = env.target
    BY <1>42, MarkSteps DEF SamePending
  <2> QED BY <1>42, <2>1 DEF SupMarkGood
<1>43. CASE SupConfirmed \/ SupDeadline \/ HostdKilled \/ WorkerKilled \/ ConfirmKilled
  BY <1>43 DEF SupConfirmed, SupDeadline, HostdKilled, WorkerKilled, ConfirmKilled, Killed
<1>44. CASE SupKilled \/ RaucKilled
  BY <1>44 DEF SupKilled, RaucKilled
<1>45. CASE UNCHANGED vars
  BY <1>45 DEF vars
<1> HIDE DEF ProcType, PlaceInv, WorkerPCs, HostdPCs, ConfirmPCs, PowerInv, Reconciling,
        TrialInv, Confirming, Quiet, ResumeInv, AwaitInv, InTrial, ConfirmHolds, RaucType,
        RaucIdle, HostdUp, ActivationInv, SamePending, PhaseOnly, At, Goto, Call, JobOf,
        Off, files, store, boot, machine, session, WorkerActive, JobStates, Working,
        Terminal, Resumable, AwaitInv
<1>46. CASE HostdStep
  BY <1>1, <1>2, <1>3, <1>4, <1>5, <1>6, <1>7, <1>8, <1>9, <1>10, <1>11, <1>12, <1>13, <1>14,
    <1>15, <1>46 DEF HostdStep, EndJob, BackToReady
<1>47. CASE WorkerStep
  BY <1>16, <1>17, <1>18, <1>19, <1>20, <1>21, <1>22, <1>23, <1>24, <1>25, <1>26, <1>27,
    <1>28, <1>47 DEF WorkerStep, EndJob, BackToReady
<1>48. CASE ConfirmStep
  BY <1>29, <1>30, <1>31, <1>32, <1>33, <1>34, <1>35, <1>36, <1>48 DEF ConfirmStep, EndJob
<1>49. CASE RaucStep
  BY <1>37, <1>38, <1>49 DEF RaucStep
<1>50. CASE MachineStep
  BY <1>39, <1>40, <1>41, <1>42, <1>43, <1>44, <1>50 DEF MachineStep
<1> QED BY <1>45, <1>46, <1>47, <1>48, <1>49, <1>50 DEF Next

\* Whoever writes the guard does so with nobody else at work on the job.
LEMMA GuardKept ==
  BoxInv /\ OrderInv /\ KeepInv /\ Undisturbed /\ GuardInv /\ UNCHANGED <<crashes, ioerrs>>
    /\ [Next]_vars => CalmInv'
BY CoverStep, ReleaseStep, ResumeStep, CancelStep, AwaitStep DEF CalmInv

-----------------------------------------------------------------------------

\* No program runs on a new card.
LEMMA GuardInit == Init => GuardInv
<1> SUFFICES ASSUME Init PROVE CalmInv
  BY DEF GuardInv
<1>1. /\ \A p \in Programs : proc[p].pc = "off" /\ proc[p].ret = "off"
      /\ journal.state = "none" /\ guard = "missing" /\ rauc.op = "idle"
      /\ ~wreq /\ ~appUp /\ power = "loader"
  BY DEF Init, Off, NoJob, RaucIdle
<1> QED BY <1>1 DEF CalmInv, CoverInv, ReleaseInv, ResumeInv, CancelInv, AwaitInv,
        Guarded, HostdUp, HostdEnds,
       Reconciling, InTrial, ConfirmHolds, InstallPCs, ActivatePCs, WorkerActive, At, Programs

\* A step after which nothing has been killed and nothing has failed comes
\* from such a state, and preserves each conjunct.
LEMMA GuardStep == BoxInv /\ FallbackInv /\ GuardInv /\ [Next]_vars => GuardInv'
<1> SUFFICES ASSUME BoxInv, FallbackInv, GuardInv, [Next]_vars, Undisturbed'
             PROVE  CalmInv'
  BY DEF GuardInv
<1>1. OrderInv /\ KeepInv
  BY DEF FallbackInv, TurnInv
<1>2. Undisturbed /\ UNCHANGED <<crashes, ioerrs>>
  BY CalmStep
<1> QED BY <1>1, <1>2, GuardKept

\* Until a program is killed or a command fails, and however often the power
\* is cut, nothing but the update touches the box while a slot is written,
\* and the guard covers every job that is past its download.
THEOREM GuardAlwaysSound == Spec => [](Undisturbed => GuardSound)
<1>1. BoxInv /\ GuardInv => (Undisturbed => GuardSound)
  <2> SUFFICES ASSUME BoxInv, GuardInv, Undisturbed PROVE WriterExcludes /\ GuardCoversJob
    BY DEF GuardSound
  <2>1. CoverInv
    BY DEF GuardInv, CalmInv
  <2>2. WriterExcludes
    BY <2>1 DEF CoverInv, Guarded, InstallPCs, At, WriterExcludes, Blocking
  <2>3. GuardCoversJob
    BY <2>1 DEF CoverInv, HostdUp, Reconciling, At, Settled, GuardCoversJob
  <2> QED BY <2>2, <2>3
<1> QED BY <1>1, InitInv, StepInv, FallbackInit, FallbackStep, GuardInit, GuardStep, PTL DEF Spec
=============================================================================
