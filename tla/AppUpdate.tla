------------------------------ MODULE AppUpdate ------------------------------
(***************************************************************************)
(* Application updates (epilykos_update.py): the signed release that was   *)
(* checked is pulled, started as a candidate and promoted once it reports  *)
(* healthy, or the previous one is put back.  epilykos-run decides which   *)
(* image really runs, and the confirmation of an OS update promotes the    *)
(* app that the new OS ships (promote_app).                                *)
(*                                                                         *)
(* A release is its sequence (0: none): digest, image ID and sequence name *)
(* each other in signed manifests.  The OS update is reduced to what the   *)
(* app update sees of it: guard, maintenance lease, booted slot and the    *)
(* app each slot ships.  Every durable write is a step of its own.         *)
(***************************************************************************)
EXTENDS Integers, FiniteSets

CONSTANTS
  MaxSeq,       \* releases are 1..MaxSeq; both slots first ship release 1
  MaxOs,        \* OS updates
  MaxCuts,      \* power cuts
  MaxKills,     \* hostd killed
  MaxIOErrors   \* failing writes and commands

ASSUME AppAssumption ==
  /\ MaxSeq \in Nat \ {0}
  /\ MaxOs \in Nat /\ MaxCuts \in Nat /\ MaxKills \in Nat /\ MaxIOErrors \in Nat

Slots == {"A", "B"}
Other(s) == IF s = "A" THEN "B" ELSE "A"

Releases == 1..MaxSeq

VARIABLES
  disk,      \* the updater's files on DATA; 0 stands for a missing file
  images,    \* the images in Podman's storage on DATA
  app,       \* the release the container runs, 0 for none
  hostd,     \* hostd's main thread
  request,   \* an update_apply request past its look at the OS guard: "none",
             \* or who made it, "admin" or "auto"
  thread,    \* the update thread: where it is and its local variables
  confirm,   \* promote_app in the confirmation coordinator
  lease,     \* the maintenance flock: "free", "app" or "os"
  os,        \* the OS update: "idle", "active", "ready", then in the new slot
             \* "trial", "confirming", or "refused" after a cut in between
  slot,      \* the booted slot
  ships,     \* the app each slot ships (image.env)
  proven,    \* history: releases that reported healthy on this box or came
             \* with an OS
  disturbed, \* history: a program was killed or a power cut came between the
             \* writes of a promotion, or a write or command failed
  budget     \* OS updates, cuts, kills and errors still to come

platform == <<os, slot, ships>>
vars == <<disk, images, app, hostd, request, thread, confirm, lease, platform, proven, disturbed, budget>>

\* current.json, previous.json, floor, active.env, job.json (its release),
\* result.json, verified.json and auto-attempt.json.
NewDisk == [cur |-> 0, prev |-> 0, floor |-> 0, active |-> 0, job |-> 0,
            result |-> "none", verified |-> 0, attempt |-> 0]

Idle == [pc |-> "off", cand |-> 0, before |-> 0, old |-> 0, started |-> FALSE]

Running == thread.pc # "off"
Larger(a, b) == IF a > b THEN a ELSE b

-----------------------------------------------------------------------------
\* current(): the promoted release, or the shipped one when that is newer.
\* As `before` and for _set_active the shipped one is 0: it needs no file.
PromotedOn(s) == IF disk.cur # 0 /\ disk.cur >= ships[s] THEN disk.cur ELSE 0
Promoted == PromotedOn(slot)

CurrentOn(s) == IF PromotedOn(s) # 0 THEN PromotedOn(s) ELSE ships[s]
Current == CurrentOn(slot)

\* floor(): never below what the slot ships.
Floor == Larger(disk.floor, ships[slot])

\* epilykos-run: the image it starts on slot s.
Choice(s, stored) ==
  IF disk.active # 0 /\ disk.active >= ships[s] /\ disk.active \in stored
  THEN disk.active ELSE ships[s]

Init ==
  /\ disk = NewDisk
  /\ images = {}
  /\ app = 0
  /\ hostd = "off" /\ request = "none" /\ thread = Idle /\ confirm = "off"
  /\ lease = "free"
  /\ os = "idle" /\ slot = "A" /\ ships = [s \in Slots |-> 1]
  /\ proven = {1} /\ disturbed = FALSE
  /\ budget = [os |-> MaxOs, cuts |-> MaxCuts, kills |-> MaxKills, io |-> MaxIOErrors]

Spend(what) ==
  /\ budget[what] > 0
  /\ budget' = [budget EXCEPT ![what] = @ - 1]

-----------------------------------------------------------------------------
(* hostd start: recover, then it serves and the app starts.                *)

\* Mutant: what an interrupted update left in active.env stays.
HostdRecoversNothing ==
  /\ hostd = "off"
  /\ hostd' = IF disk.job = 0 THEN "serve" ELSE "r_result"
  /\ UNCHANGED <<disk, images, app, request, thread, confirm, lease, platform, proven, disturbed, budget>>

HostdStarts ==
  /\ hostd = "off"
  /\ IF disk.job = 0 THEN hostd' = "serve" /\ UNCHANGED disk
     ELSE hostd' = "r_result" /\ disk' = [disk EXCEPT !.active = Promoted]
  /\ UNCHANGED <<images, app, request, thread, confirm, lease, platform, proven, disturbed, budget>>

RecoverResult ==
  /\ hostd = "r_result"
  /\ disk' = [disk EXCEPT !.result = "back"]
  /\ hostd' = "r_job"
  /\ UNCHANGED <<images, app, request, thread, confirm, lease, platform, proven, disturbed, budget>>

\* Mutant: the interrupted job is reported but stays.
RecoverJobKept ==
  /\ hostd = "r_job"
  /\ hostd' = "serve"
  /\ UNCHANGED <<disk, images, app, request, thread, confirm, lease, platform, proven, disturbed, budget>>

RecoverJob ==
  /\ hostd = "r_job"
  /\ disk' = [disk EXCEPT !.job = 0]
  /\ hostd' = "serve"
  /\ UNCHANGED <<images, app, request, thread, confirm, lease, platform, proven, disturbed, budget>>

\* epilykos.service: at boot after hostd, and again whenever the container
\* ends.  The image the slot ships is loaded first.
AppStarts ==
  /\ images' = images \cup {ships[slot]}
  /\ app' = Choice(slot, images')
  /\ UNCHANGED <<disk, hostd, request, thread, confirm, lease, platform, proven, disturbed, budget>>

AppBoots == app = 0 /\ hostd = "serve" /\ AppStarts
AppRespawns == app # 0 /\ AppStarts

-----------------------------------------------------------------------------
(* check and apply.                                                        *)

\* Newer than everything promoted, and not the one that is installed.
Newer(seq) == seq > Floor /\ seq # Current

\* check: a signed release of this channel, which the feed may also repeat.
Check(seq) ==
  /\ hostd = "serve"
  /\ Newer(seq)
  /\ disk' = [disk EXCEPT !.verified = seq]
  /\ UNCHANGED <<images, app, hostd, request, thread, confirm, lease, platform, proven, disturbed, budget>>

\* hostd looks at the OS guard and only then calls apply.
Request(who) ==
  /\ hostd = "serve"
  /\ os = "idle"
  /\ request = "none"
  /\ request' = who
  /\ UNCHANGED <<disk, images, app, hostd, thread, confirm, lease, platform, proven, disturbed, budget>>

\* apply: the checked release, or the latest one when nothing was checked.
Admits(seq) ==
  /\ hostd = "serve"
  /\ request # "none"
  /\ ~Running /\ disk.job = 0
  /\ disk.verified \in {0, seq}
  /\ request = "auto" => seq > disk.attempt
  /\ Newer(seq)
  /\ lease = "free"
  /\ app # 0

\* From here the lease is held, by apply and then by the thread it starts.
Apply(seq) ==
  /\ Admits(seq)
  /\ request' = "none"
  /\ lease' = "app"
  /\ thread' = [Idle EXCEPT !.pc = IF request = "auto" THEN "attempt" ELSE "job", !.cand = seq]
  /\ UNCHANGED <<disk, images, app, hostd, confirm, platform, proven, disturbed, budget>>

\* Nothing newer, busy, already attempted, or the app cannot take part.
ApplyRefused ==
  /\ request # "none"
  /\ request' = "none"
  /\ UNCHANGED <<disk, images, app, hostd, thread, confirm, lease, platform, proven, disturbed, budget>>

-----------------------------------------------------------------------------
(* _run: the update thread, holding the maintenance lease.                 *)

Goes(pc) == thread' = [thread EXCEPT !.pc = pc]

\* What a write that raises may leave: it raises before the new file takes the
\* place of the old one, or after that, when the directory cannot be synced.
\* A file that cannot be removed is still there.
Left(field, value) ==
  {disk} \cup IF field \in {"active", "job", "verified"} /\ value = 0 THEN {}
             ELSE {[disk EXCEPT ![field] = value]}

\* One file is written or removed, or that fails.
Writes(pc, field, value, next, failed) ==
  /\ thread.pc = pc
  /\ \/ /\ disk' = [disk EXCEPT ![field] = value]
        /\ Goes(next)
        /\ UNCHANGED budget
     \/ /\ Spend("io")
        /\ Goes(failed)
        /\ disk' \in Left(field, value)
  /\ disturbed' = (disturbed \/ budget' # budget)
  /\ UNCHANGED <<images, app, hostd, request, confirm, lease, platform, proven>>

\* Mutant: a release is never remembered as attempted.
AttemptForgotten == Writes("attempt", "attempt", disk.attempt, "job", "no_job")

\* The end of apply: the attempt of an automatic update, then the job, or none.
WriteAttempt == Writes("attempt", "attempt", thread.cand, "job", "no_job")

WriteJob == Writes("job", "job", thread.cand, "pull", "no_job")
RemoveJob == Writes("no_job", "job", 0, "fin_lease", "fin_lease")

\* The current release is read, the image pulled and checked.  job.json says
\* starting from here on, which no reader tells from downloading.
Pull ==
  /\ thread.pc = "pull"
  /\ \E ok \in BOOLEAN :
       /\ images' \in {images \cup {thread.cand}} \cup IF ok THEN {} ELSE {images}
       /\ thread' = [thread EXCEPT !.pc = IF ok THEN "active" ELSE "f_active", !.before = Promoted]
  /\ UNCHANGED <<disk, app, hostd, request, confirm, lease, platform, proven, disturbed, budget>>

SetActive == Writes("active", "active", thread.cand, "restart", "f_active")

RestartApp ==
  /\ thread.pc = "restart"
  /\ app' = Choice(slot, images)
  /\ thread' = [thread EXCEPT !.pc = "wait", !.started = TRUE]
  /\ UNCHANGED <<disk, images, hostd, request, confirm, lease, platform, proven, disturbed, budget>>

\* Mutant: the candidate is promoted whether or not it became healthy.
HealthyAnyway ==
  /\ thread.pc = "wait"
  /\ Goes("p_prev")
  /\ UNCHANGED <<disk, images, app, hostd, request, confirm, lease, platform, proven, disturbed, budget>>

\* systemctl restart returns once the container is healthy, or fails.
HealthyOrNot ==
  /\ thread.pc = "wait"
  /\ \/ Goes("p_prev") /\ proven' = proven \cup {app}
     \/ Goes("f_active") /\ UNCHANGED proven
  /\ UNCHANGED <<disk, images, app, hostd, request, confirm, lease, platform, disturbed, budget>>

\* Promotion: previous.json is read, then replaced unless the shipped app ran.
ReadPrevious ==
  /\ thread.pc = "p_prev"
  /\ thread' = [thread EXCEPT !.pc = IF thread.before # 0 THEN "p_old" ELSE "p_cur",
                              !.old = disk.prev]
  /\ UNCHANGED <<disk, images, app, hostd, request, confirm, lease, platform, proven, disturbed, budget>>

PromotePrevious == Writes("p_old", "prev", thread.before, "p_cur", "f_active")

PromoteCurrent == Writes("p_cur", "cur", thread.cand, "p_floor", "f_active")

PromoteFloor == Writes("p_floor", "floor", thread.cand, "p_result", "f_active")
PromoteResult == Writes("p_result", "result", "ok", "rmi", "f_active")

\* The release before last, unless something else still needs it.
Removable == {thread.old} \ {thread.cand, thread.before, ships[slot]}

\* podman rmi; past its 120 s it raises like any other failure.
RemoveOld ==
  /\ thread.pc = "rmi"
  /\ \/ images' = images \ Removable /\ Goes("fin_job") /\ UNCHANGED budget
     \/ Removable \ {0} # {} /\ Spend("io") /\ Goes("f_active") /\ UNCHANGED images
  /\ disturbed' = (disturbed \/ budget' # budget)
  /\ UNCHANGED <<disk, app, hostd, request, confirm, lease, platform, proven>>

\* The except block: the previous release is put back and, if the candidate
\* was started, restarted.
FailActive == Writes("f_active", "active", thread.before, "f_restart", "f_failed")

FailRestart ==
  /\ thread.pc = "f_restart"
  /\ app' = IF thread.started THEN Choice(slot, images) ELSE app
  /\ \/ Goes("f_back")
     \/ thread.started /\ Goes("f_failed")
  /\ UNCHANGED <<disk, images, hostd, request, confirm, lease, platform, proven, disturbed, budget>>

FailBack == Writes("f_back", "result", "back", "fin_job", "fin_job")
FailFailed == Writes("f_failed", "result", "failed", "fin_job", "fin_job")

\* finally: job.json and verified.json go, then the lease.
FinishJob == Writes("fin_job", "job", 0, "fin_verified", "fin_lease")
FinishVerified == Writes("fin_verified", "verified", 0, "fin_lease", "fin_lease")

FinishLease ==
  /\ thread.pc = "fin_lease"
  /\ lease' = "free"
  /\ thread' = Idle
  /\ UNCHANGED <<disk, images, app, hostd, request, confirm, platform, proven, disturbed, budget>>

ThreadStep ==
  \/ WriteAttempt \/ WriteJob \/ RemoveJob \/ Pull \/ SetActive \/ RestartApp \/ HealthyOrNot
  \/ ReadPrevious \/ PromotePrevious \/ PromoteCurrent \/ PromoteFloor \/ PromoteResult
  \/ RemoveOld \/ FailActive \/ FailRestart \/ FailBack \/ FailFailed
  \/ FinishJob \/ FinishVerified \/ FinishLease

-----------------------------------------------------------------------------
(* promote_app: the healthy trial's app, if it is newer, becomes the       *)
(* promoted one.  A coordinator that was killed is started again.          *)

ConfirmBegins ==
  /\ os \in {"trial", "confirming"}
  /\ confirm = "off"
  /\ hostd = "serve"
  /\ app # 0
  /\ os' = "confirming"
  /\ confirm' = IF disk.cur >= ships[slot] THEN "done"
                ELSE IF disk.cur # 0 THEN "previous" ELSE "current"
  /\ proven' = proven \cup {app}
  /\ UNCHANGED <<disk, images, app, hostd, request, thread, lease, slot, ships, disturbed, budget>>

ConfirmWrites(pc, field, value, next) ==
  /\ confirm = pc
  /\ disk' = [disk EXCEPT ![field] = value]
  /\ confirm' = next
  /\ UNCHANGED <<images, app, hostd, request, thread, lease, platform, proven, disturbed, budget>>

ConfirmPrevious == ConfirmWrites("previous", "prev", disk.cur, "current")
ConfirmCurrent == ConfirmWrites("current", "cur", ships[slot], "floor")
ConfirmFloor == ConfirmWrites("floor", "floor", Larger(disk.floor, ships[slot]), "active")

\* Mutant: epilykos-run is not told; the running slot does not need it.
ConfirmNotActive == ConfirmWrites("active", "active", disk.active, "done")

ConfirmActive == ConfirmWrites("active", "active", ships[slot], "done")

ConfirmDone ==
  /\ confirm = "done"
  /\ confirm' = "off"
  /\ os' = "idle"
  /\ UNCHANGED <<disk, images, app, hostd, request, thread, lease, slot, ships, proven, disturbed, budget>>

ConfirmStep ==
  \/ ConfirmBegins \/ ConfirmPrevious \/ ConfirmCurrent \/ ConfirmFloor \/ ConfirmActive
  \/ ConfirmDone

-----------------------------------------------------------------------------
(* The OS update as the app update sees it (OsSystem has the whole of it). *)

\* The worker takes the lease, then sets the guard under it.
OsStart ==
  /\ os = "idle" /\ lease = "free" /\ hostd = "serve"
  /\ Spend("os")
  /\ os' = "active" /\ lease' = "os"
  /\ UNCHANGED <<disk, images, app, hostd, request, thread, confirm, slot, ships, proven, disturbed>>

\* The other slot is written; the guard is pending before the lease goes.
OsReady(shipped) ==
  /\ os = "active" /\ lease = "os"
  /\ os' = "ready" /\ lease' = "free"
  /\ ships' = [ships EXCEPT ![Other(slot)] = shipped]
  /\ proven' = proven \cup {shipped}
  /\ UNCHANGED <<disk, images, app, hostd, request, thread, confirm, slot, disturbed, budget>>

\* Failed, cancelled or discarded.
OsEnds ==
  /\ (os = "active" /\ lease # "app") \/ os = "ready"
  /\ os' = "idle"
  /\ lease' = IF lease = "os" THEN "free" ELSE lease
  /\ UNCHANGED <<disk, images, app, hostd, request, thread, confirm, slot, ships, proven, disturbed, budget>>

\* Every process ends, and with them the lease.
RamLost ==
  /\ hostd' = "off" /\ request' = "none" /\ thread' = Idle /\ confirm' = "off"
  /\ lease' = "free"
  /\ app' = 0
  /\ UNCHANGED <<disk, images, ships, proven>>

OsRestart ==
  /\ os = "ready" /\ lease = "free" /\ hostd = "serve"
  /\ os' = "trial" /\ slot' = Other(slot)
  /\ RamLost
  /\ UNCHANGED <<disturbed, budget>>

TrialFails ==
  /\ os \in {"trial", "refused"}
  /\ os' = "idle" /\ slot' = Other(slot)
  /\ RamLost
  /\ UNCHANGED <<disturbed, budget>>

\* An unconfirmed trial falls back at once.  Once it was marked good the slot
\* boots again, but its attempts no longer match and it is not confirmed.
PowerCut ==
  /\ Spend("cuts")
  /\ slot' = IF os = "trial" THEN Other(slot) ELSE slot
  /\ os' = CASE os = "trial" -> "idle" [] os = "confirming" -> "refused" [] OTHER -> os
  /\ disturbed' = (disturbed \/ confirm # "off")
  /\ RamLost

\* Its threads end with it; the container runs on.
HostdKilled ==
  /\ hostd # "off"
  /\ Spend("kills")
  /\ hostd' = "off" /\ request' = "none" /\ thread' = Idle
  /\ lease' = IF lease = "app" THEN "free" ELSE lease
  /\ disturbed' = (disturbed \/ Running \/ confirm # "off")
  /\ UNCHANGED <<disk, images, app, confirm, platform, proven>>

ConfirmKilled ==
  /\ confirm # "off"
  /\ Spend("kills")
  /\ confirm' = "off"
  /\ disturbed' = TRUE
  /\ UNCHANGED <<disk, images, app, hostd, request, thread, lease, platform, proven>>

-----------------------------------------------------------------------------
HostdStep == HostdStarts \/ RecoverResult \/ RecoverJob

Asks ==
  \/ \E who \in {"admin", "auto"} : Request(who)
  \/ ApplyRefused
  \/ \E seq \in Releases : Check(seq) \/ Apply(seq)

OsStep ==
  \/ OsStart \/ OsEnds \/ OsRestart \/ TrialFails
  \/ \E shipped \in Releases : OsReady(shipped)

Fault == PowerCut \/ HostdKilled \/ ConfirmKilled

Next ==
  \/ HostdStep \/ AppBoots \/ AppRespawns \/ Asks \/ ThreadStep \/ ConfirmStep \/ OsStep
  \/ Fault

Spec == Init /\ [][Next]_vars

\* systemd restarts hostd and starts the app after it; the update thread
\* runs, and every command it calls has a timeout.
FairSpec ==
  /\ Spec
  /\ WF_vars(HostdStep)
  /\ WF_vars(AppBoots)
  /\ WF_vars(ThreadStep)

-----------------------------------------------------------------------------
(* Properties.                                                             *)

TypeOK ==
  /\ disk \in [cur : 0..MaxSeq, prev : 0..MaxSeq, floor : 0..MaxSeq, active : 0..MaxSeq,
               job : 0..MaxSeq, result : {"none", "ok", "back", "failed"},
               verified : 0..MaxSeq, attempt : 0..MaxSeq]
  /\ images \subseteq Releases
  /\ app \in 0..MaxSeq
  /\ hostd \in {"off", "r_result", "r_job", "serve"}
  /\ request \in {"none", "admin", "auto"}
  /\ thread \in [pc : {"off", "attempt", "job", "no_job", "pull", "active", "restart", "wait",
                       "p_prev", "p_old", "p_cur", "p_floor", "p_result", "rmi", "f_active",
                       "f_restart", "f_back", "f_failed", "fin_job", "fin_verified", "fin_lease"},
                 cand : 0..MaxSeq, before : 0..MaxSeq, old : 0..MaxSeq, started : BOOLEAN]
  /\ confirm \in {"off", "previous", "current", "floor", "active", "done"}
  /\ lease \in {"free", "app", "os"}
  /\ os \in {"idle", "active", "ready", "trial", "confirming", "refused"}
  /\ slot \in Slots
  /\ ships \in [Slots -> Releases]
  /\ proven \subseteq Releases
  /\ disturbed \in BOOLEAN

\* No update is under way and none is to be recovered.
AtRest == hostd = "serve" /\ ~Running /\ disk.job = 0 /\ confirm = "off"

\* When no update is under way the container runs the current release: the
\* promoted one, or the shipped one where that is newer.  After any updates,
\* failed updates, power cuts and changes of slot, active.env, storage and the
\* slot's image.env lead epilykos-run to what current.json says.  The
\* exceptions are in `disturbed': hostd killed during an update, a coordinator
\* or the power lost during promote_app, a failing write or rmi; and in
\* result.json, when going back failed as well.
RunsPromoted ==
  ~disturbed /\ AtRest /\ app # 0 /\ disk.result # "failed" => app = Current

\* Promotion only after health (C-UPDATE-002): a release in current.json or
\* in the floor (C-UPDATE-004) that no OS brought has itself run and reported
\* healthy on this box, whatever restarted the container or killed hostd
\* while it was waited for.
PromotedProven == {disk.cur, disk.floor} \ {0} \subseteq proven

\* podman rmi never takes the image that current.json or active.env names,
\* nor that of the release before, which stays to go back to.
ImagesKept == {disk.cur, disk.active, disk.prev} \ {0} \subseteq images

\* No downgrade: the promoted release only ever gets newer (C-UPDATE-004).
NoDowngrade == [][disk'.cur # disk.cur => disk'.cur > disk.cur]_vars

\* "so a later fallback keeps this confirmed app" (promote_app): if the box
\* now fell back to its other slot, epilykos-run would start there what
\* current() names there, with the same exceptions.
FallbackKeepsApp ==
  ~disturbed /\ AtRest /\ os = "idle" /\ app # 0
    => Choice(Other(slot), images \cup {ships[Other(slot)]}) = CurrentOn(Other(slot))

\* "Every cooperating admission checks a durable schema-1 guard under that
\* same flock": no app update runs while an OS update has the guard.
GuardRespected == Running => os = "idle"

\* Every app update that was started ends, also when the power is cut or
\* hostd is killed at any point of it.
JobEnds == disk.job # 0 ~> disk.job = 0

\* Automatic updates alone come to rest: a release that does not start is not
\* pulled and started again for ever (auto-attempt.json).
AutoStops == <>[](request # "admin") => <>[]~Running
=============================================================================
