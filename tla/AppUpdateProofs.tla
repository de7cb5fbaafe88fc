--------------------------- MODULE AppUpdateProofs ---------------------------
(***************************************************************************)
(* Proofs about application updates (AppUpdate), for any number of         *)
(* releases, OS updates, power cuts, killed processes and failing writes.  *)
(***************************************************************************)
EXTENDS AppUpdate, TLAPS

-----------------------------------------------------------------------------
(* The inductive invariant.                                                *)

\* The new slot is tried, confirmed, or was refused its confirmation.
OnTrial == os \in {"trial", "confirming", "refused"}

\* Who runs when: the update thread has the lease, lives in a serving hostd
\* beside a running container, and never together with the coordinator.
ExclusionInv ==
  /\ Running => hostd = "serve" /\ lease = "app" /\ app # 0
  /\ Running \/ request # "none" => ~OnTrial
  /\ request # "none" => hostd = "serve"
  /\ confirm # "off" => os = "confirming"
  /\ lease = "app" => Running
  /\ lease = "os" => os = "active"

\* The slot the box falls back to, while a trial lasts, or runs on.
Home == IF OnTrial THEN Other(slot) ELSE slot

\* On that slot the promoted release, if there is one, is never older than
\* the shipped app: current() ignores it only during a trial.
HomeInv ==
  /\ disk.cur >= ships[Home] \/ (disk.cur = 0 /\ ships[Home] = 1)
  /\ disk.cur = 0 => disk.prev = 0

\* What the images on DATA are needed for.
StorageInv ==
  /\ ImagesKept
  /\ app # 0 \/ confirm # "off" => ships[slot] \in images
  /\ Running => thread.before \in images \cup {0}

Promotes == {"p_prev", "p_old", "p_cur", "p_floor", "p_result", "rmi"}

\* What the thread has established where it is in _run.
ThreadInv ==
  /\ Running => thread.cand \in Releases /\ thread.cand > ships[slot]
  /\ Running /\ thread.before # 0 => disk.cur # 0
  /\ thread.pc \in {"active", "restart", "wait"} \cup Promotes => thread.cand \in images
  /\ thread.pc \in {"restart", "wait"} \cup Promotes => disk.active = thread.cand
  /\ thread.pc = "wait" => app = thread.cand
  /\ thread.pc \in Promotes => thread.cand \in proven
  /\ thread.pc \in {"active", "restart", "wait", "p_prev", "p_old"} /\ thread.before = 0 => disk.prev = 0
  /\ thread.pc \in {"p_cur", "p_floor", "p_result", "rmi"} => disk.prev = thread.before
  /\ thread.pc \in {"p_floor", "p_result", "rmi"} => disk.cur = thread.cand

\* What the coordinator has written where it is in promote_app.
ConfirmInv ==
  /\ confirm \in {"floor", "active", "done"} => disk.cur >= ships[slot]
  /\ confirm \in {"previous", "current"} => disk.cur < ships[slot]
  /\ confirm = "previous" => disk.cur # 0

ProvenInv ==
  /\ PromotedProven
  /\ \A s \in Slots : ships[s] \in proven

AppInv ==
  /\ TypeOK /\ ExclusionInv /\ HomeInv /\ StorageInv /\ ThreadInv /\ ConfirmInv /\ ProvenInv

\* What the run leaves of the budgets, and the thread's job: job.json is
\* there from its start until the thread removes it.
BudgetInv == budget \in [os : 0..MaxOs, cuts : 0..MaxCuts, kills : 0..MaxKills, io : 0..MaxIOErrors]

JobInv ==
  thread.pc \notin {"off", "attempt", "job", "no_job", "fin_verified", "fin_lease"} => disk.job # 0

\* active.env names the promoted release whenever no update is to end or to
\* be recovered; while one is, `before` or the recovery brings it back.
ActiveInv ==
  /\ ~Running /\ disk.job = 0 /\ confirm \notin {"floor", "active"} => disk.active = disk.cur
  /\ hostd \in {"r_result", "r_job"} => disk.active = disk.cur /\ disk.job # 0
  /\ thread.pc \in {"attempt", "job", "no_job", "pull", "active", "f_restart", "f_back", "f_failed",
                     "fin_job", "fin_verified", "fin_lease"}
       => disk.active = disk.cur
  /\ thread.pc \in {"active", "restart", "wait", "p_prev", "p_old", "p_cur", "f_active"}
       => thread.before = disk.cur
  /\ disk.job # 0 => ~OnTrial
  /\ (hostd = "serve" /\ ~Running)
       \/ thread.pc \in {"attempt", "job", "no_job", "fin_verified", "fin_lease"} => disk.job = 0
  /\ confirm # "off" => hostd = "serve"
  /\ os # "refused" /\ (os = "confirming" => confirm # "off")
  /\ confirm \in {"previous", "current"} => disk.active = disk.cur
  /\ confirm \in {"floor", "active"} => disk.cur = ships[slot] /\ disk.active <= disk.cur

\* The container then runs the current release, except from the restart into
\* the candidate to its promotion or the restart out of it.
AppRunsInv ==
  /\ hostd # "serve" /\ disk.job # 0 => app = 0
  /\ thread.pc \in {"attempt", "job", "no_job", "pull", "active", "restart"} => ~thread.started
  /\ thread.pc = "wait" => thread.started
  /\ app # 0 /\ thread.pc \notin {"restart", "wait", "p_prev", "p_old", "p_cur"}
         /\ ~(thread.started /\ thread.pc \in {"f_active", "f_restart"})
       => app = Current
  /\ thread.pc \in {"p_prev", "p_old", "p_cur"} => app = thread.cand
  /\ thread.pc = "f_active" /\ ~thread.started => disk.active = disk.cur

CalmInv == BudgetInv /\ JobInv /\ (~disturbed => ActiveInv /\ AppRunsInv)

-----------------------------------------------------------------------------
LEMMA InitInv == Init => AppInv
<1> SUFFICES ASSUME Init PROVE AppInv
  OBVIOUS
<1>1. disturbed \in BOOLEAN /\ thread.started \in BOOLEAN
  BY Zenon DEF Init, Idle
<1> QED
BY <1>1, AppAssumption
DEF Init, AppInv, TypeOK, ExclusionInv, HomeInv, StorageInv, ThreadInv, ConfirmInv, ProvenInv,
    NewDisk, Idle, Running, OnTrial, Home, Slots, Releases, ImagesKept, PromotedProven, Promotes

\* What epilykos-run starts: always something, and the release in active.env
\* when that is stored and not older than the shipped one.
LEMMA ChoiceIs ==
  ASSUME TypeOK, NEW stored
  PROVE  /\ Choice(slot, stored) \in Releases
         /\ disk.active > ships[slot] /\ disk.active \in stored => Choice(slot, stored) = disk.active
BY AppAssumption DEF TypeOK, Choice, Releases, Slots

LEMMA StepInv == AppInv /\ [Next]_vars => AppInv'
<1> SUFFICES ASSUME AppInv, [Next]_vars PROVE AppInv'
  OBVIOUS
<1> USE AppAssumption
    DEF AppInv, TypeOK, ExclusionInv, HomeInv, StorageInv, ThreadInv, ConfirmInv, ProvenInv,
        Running, OnTrial, Home, Slots, Other, Releases, ImagesKept, PromotedProven, Promotes, platform
<1>1. CASE HostdStarts
  BY <1>1 DEF HostdStarts, Promoted, PromotedOn
<1>2. CASE RecoverResult
  BY <1>2 DEF RecoverResult
<1>3. CASE RecoverJob
  BY <1>3 DEF RecoverJob
<1>4. CASE AppBoots
  <2>0. /\ images' = images \cup {ships[slot]} /\ app' \in Releases /\ ships[slot] \in Releases
        /\ UNCHANGED <<disk, hostd, request, thread, confirm, lease, os, slot, ships, proven, disturbed>>
        /\ disk.active > ships[slot] /\ disk.active \in images => app' = disk.active
    <3>1. /\ images' = images \cup {ships[slot]} /\ app' = Choice(slot, images \cup {ships[slot]})
          /\ UNCHANGED <<disk, hostd, request, thread, confirm, lease, os, slot, ships, proven, disturbed>>
      BY <1>4 DEF AppBoots, AppStarts
    <3> QED BY <3>1, ChoiceIs
  <2>1. TypeOK'
    <3>1. images' \subseteq Releases
      BY <2>0
    <3>2. app' \in 0..MaxSeq
      BY <2>0
    <3> HIDE DEF Releases, Slots
    <3> QED BY <2>0, <3>1, <3>2
  <2>2. ExclusionInv' /\ HomeInv' /\ ConfirmInv' /\ ProvenInv'
    BY <2>0
  <2>3. StorageInv'
    BY <2>0
  <2>4. ThreadInv'
    BY <2>0
  <2> QED BY <2>1, <2>2, <2>3, <2>4
<1>5. CASE AppRespawns
  <2>0. /\ images' = images \cup {ships[slot]} /\ app' \in Releases /\ ships[slot] \in Releases
        /\ UNCHANGED <<disk, hostd, request, thread, confirm, lease, os, slot, ships, proven, disturbed>>
        /\ disk.active > ships[slot] /\ disk.active \in images => app' = disk.active
    <3>1. /\ images' = images \cup {ships[slot]} /\ app' = Choice(slot, images \cup {ships[slot]})
          /\ UNCHANGED <<disk, hostd, request, thread, confirm, lease, os, slot, ships, proven, disturbed>>
      BY <1>5 DEF AppRespawns, AppStarts
    <3> QED BY <3>1, ChoiceIs
  <2>1. TypeOK'
    <3>1. images' \subseteq Releases
      BY <2>0
    <3>2. app' \in 0..MaxSeq
      BY <2>0
    <3> HIDE DEF Releases, Slots
    <3> QED BY <2>0, <3>1, <3>2
  <2>2. ExclusionInv' /\ HomeInv' /\ ConfirmInv' /\ ProvenInv'
    BY <2>0
  <2>3. StorageInv'
    BY <2>0
  <2>4. ThreadInv'
    BY <2>0
  <2> QED BY <2>1, <2>2, <2>3, <2>4
<1>6. CASE ApplyRefused
  BY <1>6 DEF ApplyRefused
<1>7. CASE Pull
  <2>0. /\ Promoted \in 0..MaxSeq /\ Promoted \in images \cup {0}
        /\ Promoted # 0 => disk.cur # 0
        /\ Promoted = 0 => disk.prev = 0
    BY <1>7 DEF Pull, Promoted, PromotedOn
  <2>1. PICK pc \in {"active", "f_active"} :
          /\ thread' = [thread EXCEPT !.pc = pc, !.before = Promoted]
          /\ images' \in {images, images \cup {thread.cand}}
          /\ pc = "active" => images' = images \cup {thread.cand}
          /\ thread.pc = "pull"
          /\ UNCHANGED <<disk, app, hostd, request, confirm, lease, os, slot, ships, proven, disturbed>>
    BY <1>7 DEF Pull
  <2>2. TypeOK'
    <3>1. images' \subseteq Releases
      BY <2>1
    <3> HIDE DEF Releases, Slots
    <3> QED BY <2>0, <2>1, <3>1
  <2>3. ExclusionInv' /\ HomeInv' /\ ConfirmInv' /\ ProvenInv'
    BY <2>1
  <2>4. StorageInv'
    BY <2>0, <2>1
  <2>5. ThreadInv'
    BY <2>0, <2>1
  <2> QED BY <2>2, <2>3, <2>4, <2>5
<1>8. CASE SetActive
  BY <1>8 DEF SetActive, Writes, Goes, Left
<1>9. CASE RestartApp
  <2>0. /\ app' \in Releases /\ app' = thread.cand
        /\ thread' = [thread EXCEPT !.pc = "wait", !.started = TRUE] /\ thread.pc = "restart"
        /\ UNCHANGED <<disk, images, hostd, request, confirm, lease, os, slot, ships, proven, disturbed>>
    BY <1>9, ChoiceIs DEF RestartApp
  <2>1. TypeOK'
    BY <2>0
  <2>2. ExclusionInv' /\ HomeInv' /\ ConfirmInv' /\ ProvenInv'
    BY <2>0
  <2>3. StorageInv'
    BY <2>0
  <2>4. ThreadInv'
    BY <2>0
  <2> QED BY <2>1, <2>2, <2>3, <2>4
<1>10. CASE HealthyOrNot
  BY <1>10 DEF HealthyOrNot, Goes
<1>11. CASE ReadPrevious
  <2>1. TypeOK'
    BY <1>11 DEF ReadPrevious
  <2>2. ExclusionInv' /\ HomeInv' /\ ConfirmInv' /\ ProvenInv'
    BY <1>11 DEF ReadPrevious
  <2>3. StorageInv'
    BY <1>11 DEF ReadPrevious
  <2>4. ThreadInv'
    BY <1>11 DEF ReadPrevious
  <2> QED BY <2>1, <2>2, <2>3, <2>4
<1>12. CASE PromotePrevious
  <2>1. TypeOK'
    BY <1>12 DEF PromotePrevious, Writes, Goes, Left
  <2>2. ExclusionInv' /\ HomeInv' /\ ConfirmInv' /\ ProvenInv'
    BY <1>12 DEF PromotePrevious, Writes, Goes, Left
  <2>3. StorageInv'
    BY <1>12 DEF PromotePrevious, Writes, Goes, Left
  <2>4. ThreadInv'
    BY <1>12 DEF PromotePrevious, Writes, Goes, Left
  <2> QED BY <2>1, <2>2, <2>3, <2>4
<1>13. CASE PromoteCurrent
  BY <1>13 DEF PromoteCurrent, Writes, Goes, Left
<1>14. CASE PromoteFloor
  BY <1>14 DEF PromoteFloor, Writes, Goes, Left
<1>15. CASE PromoteResult
  BY <1>15 DEF PromoteResult, Writes, Goes, Left
<1>16. CASE RemoveOld
  BY <1>16 DEF RemoveOld, Removable, Goes
<1>17. CASE FailActive
  BY <1>17 DEF FailActive, Writes, Goes, Left
<1>18. CASE FailRestart
  BY <1>18 DEF FailRestart, Choice, Goes
<1>19. CASE FailBack
  BY <1>19 DEF FailBack, Writes, Goes, Left
<1>20. CASE FailFailed
  BY <1>20 DEF FailFailed, Writes, Goes, Left
<1>21. CASE FinishJob
  BY <1>21 DEF FinishJob, Writes, Goes, Left
<1>22. CASE FinishVerified
  BY <1>22 DEF FinishVerified, Writes, Goes, Left
<1>23. CASE FinishLease
  BY <1>23 DEF FinishLease, Idle
<1>24. CASE ConfirmBegins
  BY <1>24 DEF ConfirmBegins
<1>25. CASE ConfirmPrevious
  BY <1>25 DEF ConfirmPrevious, ConfirmWrites
<1>26. CASE ConfirmCurrent
  BY <1>26 DEF ConfirmCurrent, ConfirmWrites
<1>27. CASE ConfirmFloor
  BY <1>27 DEF ConfirmFloor, ConfirmWrites, Larger
<1>28. CASE ConfirmActive
  BY <1>28 DEF ConfirmActive, ConfirmWrites
<1>29. CASE ConfirmDone
  BY <1>29 DEF ConfirmDone
<1>30. CASE OsStart
  BY <1>30 DEF OsStart
<1>31. CASE OsEnds
  BY <1>31 DEF OsEnds
<1>32. CASE OsRestart
  BY <1>32 DEF OsRestart, RamLost, Idle
<1>33. CASE TrialFails
  BY <1>33 DEF TrialFails, RamLost, Idle
<1>34. CASE PowerCut
  BY <1>34 DEF PowerCut, RamLost, Idle
<1>35. CASE HostdKilled
  BY <1>35 DEF HostdKilled, Idle
<1>36. CASE ConfirmKilled
  BY <1>36 DEF ConfirmKilled
<1>37. ASSUME NEW who \in {"admin", "auto"}, Request(who) PROVE AppInv'
  BY <1>37 DEF Request
<1>38. ASSUME NEW seq \in Releases, Check(seq) PROVE AppInv'
  BY <1>38 DEF Check
<1>39. ASSUME NEW seq \in Releases, Apply(seq) PROVE AppInv'
  <2>1. TypeOK'
    <3>1. PICK pc \in {"attempt", "job"} :
            thread' = [pc |-> pc, cand |-> seq, before |-> 0, old |-> 0, started |-> FALSE]
      BY <1>39 DEF Apply, Idle
    <3>2. thread'.started \in BOOLEAN
      BY <3>1, Zenon
    <3>3. thread' \in [pc : {"attempt", "job"}, cand : 0..MaxSeq, before : 0..MaxSeq, old : 0..MaxSeq, started : BOOLEAN]
      BY <3>1, <3>2
    <3>4. /\ UNCHANGED <<disk, images, app, hostd, confirm, os, slot, ships, proven, disturbed>>
          /\ request' = "none" /\ lease' = "app"
      BY <1>39 DEF Apply
    <3> QED BY <3>3, <3>4
  <2>2. ExclusionInv' /\ HomeInv' /\ ConfirmInv' /\ ProvenInv'
    BY <1>39 DEF Apply, Admits, Idle
  <2>3. StorageInv'
    BY <1>39 DEF Apply, Admits, Idle
  <2>4. ThreadInv'
    BY <1>39 DEF Apply, Admits, Newer, Floor, Larger, Idle
  <2> QED BY <2>1, <2>2, <2>3, <2>4
<1>40. CASE WriteAttempt
  BY <1>40 DEF WriteAttempt, Writes, Goes, Left
<1>43. CASE WriteJob
  BY <1>43 DEF WriteJob, Writes, Goes, Left
<1>44. CASE RemoveJob
  BY <1>44 DEF RemoveJob, Writes, Goes, Left
<1>41. ASSUME NEW shipped \in Releases, OsReady(shipped) PROVE AppInv'
  BY <1>41 DEF OsReady
<1>42. CASE UNCHANGED vars
  BY <1>42 DEF vars
<1> QED
  BY <1>1, <1>2, <1>3, <1>4, <1>5, <1>6, <1>7, <1>8, <1>9, <1>10, <1>11, <1>12, <1>13, <1>14, <1>15, <1>16, <1>17, <1>18, <1>19, <1>20, <1>21, <1>22, <1>23, <1>24, <1>25, <1>26, <1>27, <1>28, <1>29, <1>30, <1>31, <1>32, <1>33, <1>34, <1>35, <1>36, <1>37, <1>38, <1>39, <1>40, <1>41, <1>42, <1>43, <1>44
  DEF Next, HostdStep, Asks, ThreadStep, ConfirmStep, OsStep, Fault

\* Promotion only after health: current.json and the floor only ever name
\* releases that came with an OS or reported healthy here.
THEOREM PromotionEarned == Spec => []PromotedProven
<1>1. AppInv => PromotedProven
  BY DEF AppInv, ProvenInv
<1> QED BY <1>1, InitInv, StepInv, PTL DEF Spec

\* podman rmi and the failure paths never lose an image that one of the
\* updater's files names.
THEOREM NamedImagesStored == Spec => []ImagesKept
<1>1. AppInv => ImagesKept
  BY DEF AppInv, StorageInv
<1> QED BY <1>1, InitInv, StepInv, PTL DEF Spec

-----------------------------------------------------------------------------
(* What updates that nothing disturbs leave behind.                        *)

LEMMA BudgetStep == AppInv /\ BudgetInv /\ JobInv /\ [Next]_vars => BudgetInv' /\ JobInv' /\ (disturbed => disturbed')
<1> SUFFICES ASSUME AppInv, BudgetInv, JobInv, [Next]_vars PROVE BudgetInv' /\ JobInv' /\ (disturbed => disturbed')
  OBVIOUS
<1> USE AppAssumption DEF AppInv, TypeOK, ExclusionInv, ThreadInv, BudgetInv, JobInv, Releases, platform, Running
<1>1. CASE HostdStarts
  BY <1>1 DEF HostdStarts, Promoted, PromotedOn
<1>2. CASE RecoverResult
  BY <1>2 DEF RecoverResult
<1>3. CASE RecoverJob
  BY <1>3 DEF RecoverJob
<1>4. CASE AppBoots
  BY <1>4 DEF AppBoots, AppStarts
<1>5. CASE AppRespawns
  BY <1>5 DEF AppRespawns, AppStarts
<1>6. CASE ApplyRefused
  BY <1>6 DEF ApplyRefused
<1>7. CASE Pull
  BY <1>7 DEF Pull, Goes
<1>8. CASE SetActive
  BY <1>8 DEF SetActive, Writes, Goes, Left, Spend
<1>9. CASE RestartApp
  BY <1>9 DEF RestartApp
<1>10. CASE HealthyOrNot
  BY <1>10 DEF HealthyOrNot, Goes
<1>11. CASE ReadPrevious
  BY <1>11 DEF ReadPrevious
<1>12. CASE PromotePrevious
  BY <1>12 DEF PromotePrevious, Writes, Goes, Left, Spend
<1>13. CASE PromoteCurrent
  BY <1>13 DEF PromoteCurrent, Writes, Goes, Left, Spend
<1>14. CASE PromoteFloor
  BY <1>14 DEF PromoteFloor, Writes, Goes, Left, Spend
<1>15. CASE PromoteResult
  BY <1>15 DEF PromoteResult, Writes, Goes, Left, Spend
<1>16. CASE RemoveOld
  BY <1>16 DEF RemoveOld, Goes, Spend
<1>17. CASE FailActive
  BY <1>17 DEF FailActive, Writes, Goes, Left, Spend
<1>18. CASE FailRestart
  BY <1>18 DEF FailRestart, Goes
<1>19. CASE FailBack
  BY <1>19 DEF FailBack, Writes, Goes, Left, Spend
<1>20. CASE FailFailed
  BY <1>20 DEF FailFailed, Writes, Goes, Left, Spend
<1>21. CASE FinishJob
  BY <1>21 DEF FinishJob, Writes, Goes, Left, Spend
<1>22. CASE FinishVerified
  BY <1>22 DEF FinishVerified, Writes, Goes, Left, Spend
<1>23. CASE FinishLease
  BY <1>23 DEF FinishLease, Idle
<1>24. CASE ConfirmBegins
  BY <1>24 DEF ConfirmBegins
<1>25. CASE ConfirmPrevious
  BY <1>25 DEF ConfirmPrevious, ConfirmWrites
<1>26. CASE ConfirmCurrent
  BY <1>26 DEF ConfirmCurrent, ConfirmWrites
<1>27. CASE ConfirmFloor
  BY <1>27 DEF ConfirmFloor, ConfirmWrites
<1>28. CASE ConfirmActive
  BY <1>28 DEF ConfirmActive, ConfirmWrites
<1>29. CASE ConfirmDone
  BY <1>29 DEF ConfirmDone
<1>30. CASE OsStart
  BY <1>30 DEF OsStart, Spend
<1>31. CASE OsEnds
  BY <1>31 DEF OsEnds
<1>32. CASE OsRestart
  BY <1>32 DEF OsRestart, RamLost, Idle
<1>33. CASE TrialFails
  BY <1>33 DEF TrialFails, RamLost, Idle
<1>34. CASE PowerCut
  BY <1>34 DEF PowerCut, RamLost, Idle, Spend
<1>35. CASE HostdKilled
  BY <1>35 DEF HostdKilled, Idle, Spend
<1>36. CASE ConfirmKilled
  BY <1>36 DEF ConfirmKilled, Spend
<1>37. ASSUME NEW who \in {"admin", "auto"}, Request(who) PROVE BudgetInv' /\ JobInv' /\ (disturbed => disturbed')
  BY <1>37 DEF Request
<1>38. ASSUME NEW seq \in Releases, Check(seq) PROVE BudgetInv' /\ JobInv' /\ (disturbed => disturbed')
  BY <1>38 DEF Check
<1>39. ASSUME NEW seq \in Releases, Apply(seq) PROVE BudgetInv' /\ JobInv' /\ (disturbed => disturbed')
  BY <1>39 DEF Apply, Admits, Idle
<1>40. CASE WriteAttempt
  BY <1>40 DEF WriteAttempt, Writes, Goes, Left, Spend
<1>43. CASE WriteJob
  BY <1>43 DEF WriteJob, Writes, Goes, Left, Spend
<1>44. CASE RemoveJob
  BY <1>44 DEF RemoveJob, Writes, Goes, Left, Spend
<1>41. ASSUME NEW shipped \in Releases, OsReady(shipped) PROVE BudgetInv' /\ JobInv' /\ (disturbed => disturbed')
  BY <1>41 DEF OsReady
<1>42. CASE UNCHANGED vars
  BY <1>42 DEF vars
<1> QED
  BY <1>1, <1>2, <1>3, <1>4, <1>5, <1>6, <1>7, <1>8, <1>9, <1>10, <1>11, <1>12, <1>13, <1>14, <1>15, <1>16, <1>17, <1>18, <1>19, <1>20, <1>21, <1>22, <1>23, <1>24, <1>25, <1>26, <1>27, <1>28, <1>29, <1>30, <1>31, <1>32, <1>33, <1>34, <1>35, <1>36, <1>37, <1>38, <1>39, <1>40, <1>41, <1>42, <1>43, <1>44
  DEF Next, HostdStep, Asks, ThreadStep, ConfirmStep, OsStep, Fault

\* A step that spends from a budget changes it; a write of a thread that
\* nothing has disturbed has not failed.
LEMMA SpendChanges ==
  ASSUME BudgetInv, NEW what \in {"os", "cuts", "kills", "io"}, Spend(what)
  PROVE  budget' # budget
BY AppAssumption DEF BudgetInv, Spend

LEMMA CalmWrite ==
  ASSUME BudgetInv, ~disturbed', NEW pc, NEW field, NEW value, NEW next, NEW failed,
         Writes(pc, field, value, next, failed)
  PROVE  /\ thread.pc = pc
         /\ disk' = [disk EXCEPT ![field] = value]
         /\ thread' = [thread EXCEPT !.pc = next]
         /\ UNCHANGED <<images, app, hostd, request, confirm, lease, platform, proven>>
BY SpendChanges DEF Writes, Goes

LEMMA CalmStep == AppInv /\ AppInv' /\ CalmInv /\ ~disturbed /\ ~disturbed' /\ [Next]_vars => ActiveInv' /\ AppRunsInv'
<1> SUFFICES ASSUME AppInv, AppInv', CalmInv, ~disturbed, ~disturbed', [Next]_vars PROVE ActiveInv' /\ AppRunsInv'
  OBVIOUS
<1> USE AppAssumption DEF CalmInv, AppInv, TypeOK, ExclusionInv, HomeInv, StorageInv, ThreadInv, ConfirmInv, BudgetInv, JobInv,
        ActiveInv, AppRunsInv, Running, OnTrial, Home, Slots, Other, Releases, ImagesKept, Promotes, platform,
        Current, CurrentOn, PromotedOn, Promoted, Choice
<1>1. CASE HostdStarts
  BY <1>1 DEF HostdStarts, Promoted, PromotedOn
<1>2. CASE RecoverResult
  BY <1>2 DEF RecoverResult
<1>3. CASE RecoverJob
  BY <1>3 DEF RecoverJob
<1>4. CASE AppBoots
  BY <1>4 DEF AppBoots, AppStarts
<1>5. CASE AppRespawns
  BY <1>5 DEF AppRespawns, AppStarts
<1>6. CASE ApplyRefused
  BY <1>6 DEF ApplyRefused
<1>7. CASE Pull
  BY <1>7 DEF Pull, Goes
<1>8. CASE SetActive
  BY <1>8, CalmWrite DEF SetActive, Goes
<1>9. CASE RestartApp
  BY <1>9 DEF RestartApp
<1>10. CASE HealthyOrNot
  BY <1>10 DEF HealthyOrNot, Goes
<1>11. CASE ReadPrevious
  BY <1>11 DEF ReadPrevious
<1>12. CASE PromotePrevious
  BY <1>12, CalmWrite DEF PromotePrevious, Goes
<1>13. CASE PromoteCurrent
  BY <1>13, CalmWrite DEF PromoteCurrent, Goes
<1>14. CASE PromoteFloor
  BY <1>14, CalmWrite DEF PromoteFloor, Goes
<1>15. CASE PromoteResult
  BY <1>15, CalmWrite DEF PromoteResult, Goes
<1>16. CASE RemoveOld
  <2>1. ~Spend("io")
    BY <1>16, SpendChanges DEF RemoveOld
  <2> QED BY <1>16, <2>1 DEF RemoveOld, Goes
<1>17. CASE FailActive
  BY <1>17, CalmWrite DEF FailActive, Goes
<1>18. CASE FailRestart
  BY <1>18 DEF FailRestart, Goes
<1>19. CASE FailBack
  BY <1>19, CalmWrite DEF FailBack, Goes
<1>20. CASE FailFailed
  BY <1>20, CalmWrite DEF FailFailed, Goes
<1>21. CASE FinishJob
  BY <1>21, CalmWrite DEF FinishJob, Goes
<1>22. CASE FinishVerified
  BY <1>22, CalmWrite DEF FinishVerified, Goes
<1>23. CASE FinishLease
  <2>1. ActiveInv'
    BY <1>23 DEF FinishLease, Idle
  <2>2. AppRunsInv'
    BY <1>23 DEF FinishLease, Idle
  <2> QED BY <2>1, <2>2
<1>24. CASE ConfirmBegins
  BY <1>24 DEF ConfirmBegins
<1>25. CASE ConfirmPrevious
  BY <1>25 DEF ConfirmPrevious, ConfirmWrites
<1>26. CASE ConfirmCurrent
  <2>1. ActiveInv'
    BY <1>26 DEF ConfirmCurrent, ConfirmWrites
  <2>2. AppRunsInv'
    BY <1>26 DEF ConfirmCurrent, ConfirmWrites
  <2> QED BY <2>1, <2>2
<1>27. CASE ConfirmFloor
  BY <1>27 DEF ConfirmFloor, ConfirmWrites
<1>28. CASE ConfirmActive
  BY <1>28 DEF ConfirmActive, ConfirmWrites
<1>29. CASE ConfirmDone
  BY <1>29 DEF ConfirmDone
<1>30. CASE OsStart
  BY <1>30 DEF OsStart, Spend
<1>31. CASE OsEnds
  BY <1>31 DEF OsEnds
<1>32. CASE OsRestart
  BY <1>32 DEF OsRestart, RamLost, Idle
<1>33. CASE TrialFails
  BY <1>33 DEF TrialFails, RamLost, Idle
<1>34. CASE PowerCut
  BY <1>34 DEF PowerCut, RamLost, Idle, Spend
<1>35. CASE HostdKilled
  BY <1>35 DEF HostdKilled, Idle, Spend
<1>36. CASE ConfirmKilled
  BY <1>36 DEF ConfirmKilled, Spend
<1>37. ASSUME NEW who \in {"admin", "auto"}, Request(who) PROVE ActiveInv' /\ AppRunsInv'
  BY <1>37 DEF Request
<1>38. ASSUME NEW seq \in Releases, Check(seq) PROVE ActiveInv' /\ AppRunsInv'
  BY <1>38 DEF Check
<1>39. ASSUME NEW seq \in Releases, Apply(seq) PROVE ActiveInv' /\ AppRunsInv'
  BY <1>39 DEF Apply, Admits, Idle
<1>40. CASE WriteAttempt
  BY <1>40, CalmWrite DEF WriteAttempt, Goes
<1>43. CASE WriteJob
  BY <1>43, CalmWrite DEF WriteJob, Goes
<1>44. CASE RemoveJob
  BY <1>44, CalmWrite DEF RemoveJob, Goes
<1>41. ASSUME NEW shipped \in Releases, OsReady(shipped) PROVE ActiveInv' /\ AppRunsInv'
  BY <1>41 DEF OsReady
<1>42. CASE UNCHANGED vars
  BY <1>42 DEF vars
<1> QED
  BY <1>1, <1>2, <1>3, <1>4, <1>5, <1>6, <1>7, <1>8, <1>9, <1>10, <1>11, <1>12, <1>13, <1>14, <1>15, <1>16, <1>17, <1>18, <1>19, <1>20, <1>21, <1>22, <1>23, <1>24, <1>25, <1>26, <1>27, <1>28, <1>29, <1>30, <1>31, <1>32, <1>33, <1>34, <1>35, <1>36, <1>37, <1>38, <1>39, <1>40, <1>41, <1>42, <1>43, <1>44
  DEF Next, HostdStep, Asks, ThreadStep, ConfirmStep, OsStep, Fault

LEMMA CalmInductive ==
  /\ Init => CalmInv
  /\ AppInv /\ AppInv' /\ CalmInv /\ [Next]_vars => CalmInv'
<1>1. Init => CalmInv
  BY AppAssumption
  DEF Init, CalmInv, BudgetInv, JobInv, ActiveInv, AppRunsInv, NewDisk, Idle, Running, OnTrial
<1>2. AppInv /\ AppInv' /\ CalmInv /\ [Next]_vars => CalmInv'
  BY BudgetStep, CalmStep DEF CalmInv
<1> QED BY <1>1, <1>2

\* The app survives a fallback: after an update or a confirmation that was
\* not torn apart, active.env leads epilykos-run on the other slot as well to
\* the release that current() names there.
THEOREM FallbackSafe == Spec => []FallbackKeepsApp
<1>1. AppInv /\ CalmInv => FallbackKeepsApp
  BY AppAssumption
  DEF AppInv, TypeOK, StorageInv, ImagesKept, CalmInv, ActiveInv, FallbackKeepsApp, AtRest, Running,
      Choice, CurrentOn, PromotedOn, Slots, Other, Releases
<1> QED BY <1>1, InitInv, StepInv, CalmInductive, PTL DEF Spec

\* What is promoted is what runs, after any number of updates, failed
\* updates, power cuts and OS updates that were confirmed or fallen back from,
\* as long as nothing of what `disturbed' records came between.
THEOREM PromotedIsRun == Spec => []RunsPromoted
<1>1. AppInv /\ CalmInv => RunsPromoted
  BY DEF CalmInv, AppRunsInv, RunsPromoted, AtRest, Running
<1> QED BY <1>1, InitInv, StepInv, CalmInductive, PTL DEF Spec
=============================================================================
