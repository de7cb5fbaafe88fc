----------------------------- MODULE BootHealth -----------------------------
(***************************************************************************)
(* The every-boot supervisor (epilykos_boot_health.py, its unit, and the   *)
(* part of systemd it relies on) over one boot, with time.                 *)
(*                                                                         *)
(* One unit of time is one turn of main()'s loop.  Within a turn step()    *)
(* polls its commands one after the other; location `at' says how far it   *)
(* is.  A command ends when it likes, or is killed past its bound.  The    *)
(* supervisor may stall anywhere (a blocking call on a bad card): the      *)
(* service watchdog kills it and systemd starts it again.                  *)
(***************************************************************************)
EXTENDS Integers

CONSTANTS
  DEADLINE_S,       \* from the start of userspace
  BOUNDS,           \* of each command
  REBOOT_FORCE_S,
  REBOOT_SYSRQ_S,
  WatchdogSec,
  MaxStalls,        \* stalls of the supervisor
  MaxLost,          \* reboot requests without effect
  MaxOver           \* where the count of time undecided past it stops

Commands == {"podman_info", "health", "env", "mark_good", "confirm", "stop_app"}

ASSUME HealthAssumption ==
  /\ DEADLINE_S \in Nat \ {0} /\ BOUNDS \in [Commands -> Nat]
  /\ REBOOT_FORCE_S \in Nat /\ REBOOT_SYSRQ_S \in Nat /\ WatchdogSec \in Nat \ {0}
  /\ MaxStalls \in Nat /\ MaxLost \in Nat /\ MaxOver \in Nat
  /\ BOUNDS["mark_good"] <= BOUNDS["confirm"]

VARIABLES
  left, over,    \* time to the deadline; time undecided past it
  data, app,     \* data.mount; the container's own health
  boot,          \* this boot: a pending job's trial? is there a coordinator?
  sup,           \* the supervisor's state; or "stopped" by systemd, "crashed"
  at,            \* where it is in its turn, "idle" between two
  cmd,           \* the command it polls, and for how long
  has,           \* attributes it has: podman (worked), env (read)
  stage, since,  \* of the reboot; time since the stage began
  stalled,       \* 0, or for how long it has not beaten
  marked,        \* the slot's attempts were refreshed
  recorded,      \* HEALTH_FILE says confirmed
  machine,       \* "up", "shutdown" when systemd stops everything, "reset"
  budget

clock == <<left, over>>
world == <<data, app, boot>>
reboot == <<stage, since>>
outcome == <<marked, recorded>>
vars == <<clock, world, sup, at, cmd, has, reboot, stalled, outcome, machine, budget>>

NoCommand == [what |-> "none", age |-> 0]
Fresh == [podman |-> FALSE, env |-> FALSE]

Init ==
  /\ left = DEADLINE_S /\ over = 0
  /\ data = "waiting" /\ app = FALSE
  /\ boot \in [trial : BOOLEAN, coordinator : BOOLEAN]
  /\ sup = "checking" /\ at = "idle" /\ cmd = NoCommand /\ has = Fresh
  /\ stage = 0 /\ since = 0 /\ stalled = 0
  /\ marked = FALSE /\ recorded = FALSE
  /\ machine = "up"
  /\ budget = [stalls |-> MaxStalls, lost |-> MaxLost]

Spend(what) == budget[what] > 0 /\ budget' = [budget EXCEPT ![what] = @ - 1]

-----------------------------------------------------------------------------
(* The world: DATA mounts or fails once, the app's health comes and goes.  *)

DataMount ==
  /\ data = "waiting"
  /\ data' \in {"mounted", "failed"}
  /\ UNCHANGED <<clock, app, boot, sup, at, cmd, has, reboot, stalled, outcome, machine, budget>>

AppHealth ==
  /\ data = "mounted" /\ sup \in {"checking", "confirming"}
  /\ app' = ~app
  /\ UNCHANGED <<clock, data, boot, sup, at, cmd, has, reboot, stalled, outcome, machine, budget>>

Running == sup \in {"checking", "confirming", "rebooting"}

CountDown == IF left > 0 THEN left - 1 ELSE 0

\* time.sleep(TICK_S), or a stalled supervisor; the next turn begins.
Tick ==
  /\ machine # "reset" /\ Running
  /\ IF stalled > 0 THEN stalled < WatchdogSec ELSE at = "idle"
  /\ left' = CountDown
  /\ over' = IF left > 0 \/ over = MaxOver \/ sup = "rebooting" THEN over ELSE over + 1
  /\ stalled' = IF stalled > 0 THEN stalled + 1 ELSE 0
  /\ at' = IF stalled > 0 THEN at ELSE "step"
  /\ cmd' = IF cmd = NoCommand THEN cmd
            ELSE [cmd EXCEPT !.age = IF @ > BOUNDS[cmd.what] THEN @ ELSE @ + 1]
  /\ since' = IF since > REBOOT_FORCE_S + REBOOT_SYSRQ_S THEN since ELSE since + 1
  /\ UNCHANGED <<world, sup, has, stage, outcome, machine, budget>>

-----------------------------------------------------------------------------
(* step(): one poll after the other.                                       *)

Awake(here) == machine # "reset" /\ stalled = 0 /\ at = here

\* Command and Command.result: None.  Within the bound only.
StillRuns(what) ==
  LET age == IF cmd.what = what THEN cmd.age ELSE 0
  IN  /\ age <= BOUNDS[what]
      /\ cmd' = [what |-> what, age |-> age]
      /\ at' = "idle"

\* It ended, could not be started, or is killed past its bound.
Ends == cmd' = NoCommand

StartReboot ==
  /\ sup' = "rebooting" /\ stage' = 0 /\ since' = 0
  /\ cmd' = [what |-> "stop_app", age |-> 0]
  /\ at' = "idle"

Keep == UNCHANGED <<clock, world, stalled, machine, budget>>

\* data_mount_failed answers True.
DataFailed ==
  /\ Awake("step") /\ sup = "checking" /\ data = "failed"
  /\ StartReboot
  /\ UNCHANGED <<has, outcome>> /\ Keep

\* Mutant: the deadline holds for a boot that has not mounted DATA.
MissedOnlyUnmounted == left = 0 /\ data # "mounted"

Missed == left = 0

\* The deadline; it is not looked at once the boot was found healthy.  The
\* answer about data.mount may come later than its failure.
Deadline ==
  /\ Awake("step") /\ sup = "checking"
  /\ IF Missed THEN StartReboot
     ELSE /\ at' = IF data = "mounted" THEN "check" ELSE "idle"
          /\ UNCHANGED <<sup, cmd, reboot>>
  /\ UNCHANGED <<has, outcome>> /\ Keep

\* check(): podman first, asked again until it works, then kept.
CheckPodman ==
  /\ Awake("check") /\ ~has.podman
  /\ \/ StillRuns("podman_info") /\ UNCHANGED has
     \/ Ends /\ at' = "idle" /\ UNCHANGED has
     \/ Ends /\ at' = "check" /\ has' = [has EXCEPT !.podman = TRUE]
  /\ UNCHANGED <<sup, reboot, outcome>> /\ Keep

CheckHealth ==
  /\ Awake("check") /\ has.podman
  /\ \/ StillRuns("health") /\ UNCHANGED sup
     \/ Ends /\ at' = "idle" /\ UNCHANGED sup
     \/ Ends /\ app /\ sup' = "confirming" /\ at' = "confirm"
  /\ UNCHANGED <<has, reboot, outcome>> /\ Keep

\* A later turn of the state "confirming".
GoOnConfirming ==
  /\ Awake("step") /\ sup = "confirming"
  /\ at' = "confirm"
  /\ UNCHANGED <<sup, cmd, has, reboot, outcome>> /\ Keep

Done == sup' = "done" /\ at' = "idle"

\* confirm(): the environment is read once; unreadable, nothing is confirmed.
ConfirmEnv ==
  /\ Awake("confirm") /\ ~has.env
  /\ \/ StillRuns("env") /\ UNCHANGED <<sup, has>>
     \/ Ends /\ Done /\ UNCHANGED has
     \/ Ends /\ at' = "confirm" /\ has' = [has EXCEPT !.env = TRUE] /\ UNCHANGED sup
  /\ UNCHANGED <<reboot, outcome>> /\ Keep

\* Who confirms: the coordinator a trial, RAUC's mark-good any other boot.
Finish == IF boot.trial THEN "confirm" ELSE "mark_good"

\* Mutant: the health file says the boot was healthy.
RecordAlways(worked) == recorded' = TRUE

\* record_confirmed, after a confirmation that worked; the file may fail.
Record(worked) == recorded' \in {recorded, recorded \/ worked}

ConfirmSlot ==
  /\ Awake("confirm") /\ has.env
  /\ \/ boot.trial /\ ~boot.coordinator /\ Done /\ UNCHANGED <<cmd, outcome>>
     \/ /\ boot.trial => boot.coordinator
        /\ \/ StillRuns(Finish) /\ UNCHANGED <<sup, outcome>>
           \/ \* it worked
              Ends /\ Done /\ marked' = TRUE /\ Record(TRUE)
           \/ \* it failed or was killed, before or after its effect
              Ends /\ Done /\ marked' \in {marked, TRUE} /\ Record(FALSE)
  /\ UNCHANGED <<has, reboot>> /\ Keep

-----------------------------------------------------------------------------
(* continue_reboot(): each request gets its time before the next one.      *)

\* systemd takes the request, or it has no effect.
Request ==
  \/ machine' = "shutdown" /\ UNCHANGED budget
  \/ Spend("lost") /\ UNCHANGED machine

\* The spawn raises OSError: the process ends, and is not restarted.
SpawnRaises == sup' = "crashed" /\ UNCHANGED <<reboot, machine, budget>>

StopApp ==
  /\ Awake("step") /\ sup = "rebooting" /\ stage = 0
  /\ \/ StillRuns("stop_app") /\ UNCHANGED <<sup, reboot, machine, budget>>
     \/ Ends /\ at' = "idle" /\ stage' = 1 /\ since' = 0 /\ Request /\ UNCHANGED sup
     \/ Ends /\ at' = "idle" /\ SpawnRaises
  /\ UNCHANGED <<clock, world, has, stalled, outcome>>

\* Mutant: the forced reboot is the last resort.
ForceGivesUp == stage = 1 /\ since > REBOOT_FORCE_S /\ stage' = 3 /\ since' = 0 /\ Request

ForceReboot == stage = 1 /\ since > REBOOT_FORCE_S /\ stage' = 2 /\ since' = 0 /\ Request

Sysrq ==
  /\ stage = 2 /\ since > REBOOT_SYSRQ_S
  /\ stage' = 3 /\ UNCHANGED since
  /\ \/ machine' = "reset" /\ UNCHANGED budget
     \/ Spend("lost") /\ UNCHANGED machine

ContinueReboot ==
  /\ Awake("step") /\ sup = "rebooting" /\ stage > 0
  /\ \/ ForceReboot /\ UNCHANGED sup
     \/ stage = 1 /\ since > REBOOT_FORCE_S /\ SpawnRaises
     \/ Sysrq /\ UNCHANGED sup
     \/ /\ stage = 1 => since <= REBOOT_FORCE_S
        /\ stage = 2 => since <= REBOOT_SYSRQ_S
        /\ UNCHANGED <<sup, reboot, machine, budget>>
  /\ at' = "idle"
  /\ UNCHANGED <<clock, world, cmd, has, stalled, outcome>>

-----------------------------------------------------------------------------
(* systemd.                                                                *)

Stall ==
  /\ Running /\ stalled = 0 /\ machine # "reset"
  /\ Spend("stalls")
  /\ stalled' = 1
  /\ UNCHANGED <<clock, world, sup, at, cmd, has, reboot, outcome, machine>>

\* WatchdogSec passed without a beat: the service and what it started are
\* killed, and started again unless the system goes down.
WatchdogKills ==
  /\ Running /\ stalled >= WatchdogSec
  /\ sup' = IF machine = "up" THEN "checking" ELSE "stopped"
  /\ at' = "idle" /\ cmd' = NoCommand /\ has' = Fresh /\ stalled' = 0
  /\ stage' = 0 /\ since' = 0
  /\ marked' \in IF cmd.what \in {"mark_good", "confirm"} THEN {marked, TRUE} ELSE {marked}
  /\ UNCHANGED <<clock, world, recorded, machine, budget>>

\* Conflicts=shutdown.target: going down stops the supervisor too.
Stopped ==
  /\ machine = "shutdown" /\ Running
  /\ sup' = "stopped" /\ at' = "idle" /\ cmd' = NoCommand /\ stalled' = 0
  /\ UNCHANGED <<clock, world, has, reboot, outcome, machine, budget>>

\* Stop timeouts and RebootWatchdogSec bound a shutdown that began.
Reset ==
  /\ machine = "shutdown"
  /\ machine' = "reset"
  /\ UNCHANGED <<clock, world, sup, at, cmd, has, reboot, stalled, outcome, budget>>

Step ==
  \/ DataFailed \/ Deadline \/ CheckPodman \/ CheckHealth
  \/ GoOnConfirming \/ ConfirmEnv \/ ConfirmSlot
  \/ StopApp \/ ContinueReboot

Next == DataMount \/ AppHealth \/ Tick \/ Step \/ Stall \/ WatchdogKills \/ Stopped \/ Reset

\* The loop runs, time passes, the watchdog acts and a shutdown ends.
Fairness == WF_vars(Tick) /\ WF_vars(Step) /\ WF_vars(WatchdogKills) /\ WF_vars(Reset)

Spec == Init /\ [][Next]_vars /\ Fairness

-----------------------------------------------------------------------------
FlagsOK ==
  /\ app \in BOOLEAN /\ marked \in BOOLEAN /\ recorded \in BOOLEAN
  /\ boot \in [trial : BOOLEAN, coordinator : BOOLEAN]
  /\ has \in [podman : BOOLEAN, env : BOOLEAN]

TypeOK ==
  /\ left \in 0..DEADLINE_S /\ over \in 0..MaxOver
  /\ data \in {"waiting", "mounted", "failed"}
  /\ sup \in {"checking", "confirming", "rebooting", "done", "stopped", "crashed"}
  /\ at \in {"idle", "step", "check", "confirm"}
  /\ cmd \in [what : Commands \cup {"none"}, age : Nat]
  /\ stage \in 0..3 /\ since \in Nat /\ stalled \in 0..WatchdogSec
  /\ machine \in {"up", "shutdown", "reset"}
  /\ budget \in [stalls : 0..MaxStalls, lost : 0..MaxLost]
  /\ FlagsOK

\* A boot found healthy in the last turn has its environment read and its
\* slot confirmed; every stall costs the watchdog's time.
Grace == BOUNDS["env"] + BOUNDS["confirm"] + 1 + MaxStalls * WatchdogSec

\* "One deadline": however commands hang and however often the supervisor
\* stalls and starts again, it is against the same deadline: the boot is not
\* left undecided longer than one bounded confirmation and the stalls.
DecidedInTime == over <= Grace

\* What os_install takes for a confirmed boot is one: the slot has its
\* attempts back, and the supervisor does not reboot this boot any more.
RecordedStays == recorded => marked /\ sup = "done" /\ machine = "up"

\* Every boot ends with a decision: done, or the machine starts again; also
\* when the first reboot requests have no effect.  (A crash of the supervisor
\* while it starts systemctl is the exception, see README.)
BootEnds == []<>(sup = "crashed" \/ sup = "done" \/ machine = "reset")
=============================================================================
