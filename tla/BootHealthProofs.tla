-------------------------- MODULE BootHealthProofs --------------------------
(***************************************************************************)
(* Proofs about the boot health supervisor (BootHealth), for any deadline, *)
(* bounds, watchdog time and any number of stalls and lost requests.       *)
(***************************************************************************)
EXTENDS BootHealth, TLAPS

-----------------------------------------------------------------------------
(* The inductive invariant.                                                *)

\* Where step() is in its turn agrees with the supervisor's state, and the
\* machine goes down only under a supervisor that decided to reboot.
TurnInv ==
  /\ at = "check" => sup = "checking"
  /\ at = "confirm" => sup = "confirming"
  /\ ~Running => at = "idle"
  /\ stalled > 0 => Running /\ budget.stalls < MaxStalls
  /\ machine # "up" => sup \in {"rebooting", "stopped", "crashed"}

\* What is polled while confirming: the environment, then the confirmation;
\* a poll that ended a turn was within its bound.  Only a turn that began
\* before the deadline finds the app healthy.
PollInv ==
  /\ stalled = 0 /\ at = "check" => left > 0
  /\ stalled = 0 /\ sup = "confirming" =>
       \/ ~has.env /\ cmd.what = "env"
       \/ has.env /\ cmd.what = Finish
       \/ at = "confirm" /\ cmd = NoCommand /\ (has.env \/ left > 0)
  /\ stalled = 0 /\ sup = "confirming" /\ cmd # NoCommand =>
       cmd.age <= BOUNDS[cmd.what] + (IF at = "idle" THEN 0 ELSE 1)

\* The turns that a command may still be polled for.
Rest(what) == BOUNDS[what] + 1 - (IF cmd.what = what THEN cmd.age ELSE 0)

\* The turns the boot may still stay undecided if there is no further stall:
\* a stalled supervisor starts over and looks at the deadline in its first
\* turn; a confirmation has what is left of its commands.
Ahead ==
  IF stalled > 0 THEN WatchdogSec - stalled + 1
  ELSE IF sup = "checking" THEN IF at = "idle" THEN 1 ELSE 0
  ELSE IF sup = "confirming"
       THEN IF has.env THEN Rest(Finish) ELSE Rest("env") + BOUNDS["confirm"] + 1
  ELSE 0

StallCost(k) == k * WatchdogSec

\* Time that passed undecided, is still ahead, and is left to stalls fits.
TimeInv ==
  /\ left > 0 => over = 0
  /\ over <= Grace
  /\ left = 0 /\ Running => over + Ahead + StallCost(budget.stalls) <= Grace

HealthInv == TypeOK /\ TurnInv /\ PollInv /\ TimeInv /\ RecordedStays

-----------------------------------------------------------------------------
\* What a stall costs, without the product that the provers are weak at.
LEMMA StallCostIs ==
  /\ \A k \in Nat : StallCost(k) \in Nat
  /\ \A k \in Nat \ {0} : StallCost(k) = StallCost(k - 1) + WatchdogSec
  /\ Grace = BOUNDS["env"] + BOUNDS["confirm"] + 1 + StallCost(MaxStalls)
<1> USE HealthAssumption
<1>1. \A k \in Nat : StallCost(k) \in Nat
  BY DEF StallCost
<1>2. ASSUME NEW k \in Nat \ {0}
      PROVE  StallCost(k) = StallCost(k - 1) + WatchdogSec
  <2>1. \A i \in Int, w \in Int : i * w = (i - 1) * w + w
    OBVIOUS
  <2> QED BY <2>1 DEF StallCost
<1> QED BY <1>1, <1>2 DEF StallCost, Grace

\* Every stall costs its share of what all stalls may cost together.
LEMMA StallCostMonotone ==
  \A k \in 0..MaxStalls : k < MaxStalls => StallCost(k) + WatchdogSec <= StallCost(MaxStalls)
<1> USE HealthAssumption
<1>1. \A i, m, w \in Nat : i < m => i * w + w <= m * w
  <2> SUFFICES ASSUME NEW i \in Nat, NEW m \in Nat, NEW w \in Nat, i < m
               PROVE  i * w + w <= m * w
    OBVIOUS
  <2>1. (m - (i + 1)) \in Nat
    OBVIOUS
  <2>2. (m - (i + 1)) * w \in Nat
    BY <2>1
  <2>3. m * w = (m - (i + 1)) * w + (i + 1) * w
    OBVIOUS
  <2>4. (i + 1) * w = i * w + w
    OBVIOUS
  <2> QED BY <2>2, <2>3, <2>4
<1> QED BY <1>1 DEF StallCost

LEMMA InitInv == Init => HealthInv
<1> SUFFICES ASSUME Init PROVE HealthInv
  OBVIOUS
<1> USE HealthAssumption DEF Init
<1>1. TypeOK
  <2>1. FlagsOK
    BY Zenon DEF FlagsOK, Fresh
  <2> QED BY <2>1 DEF TypeOK, Commands, NoCommand
<1>2. TurnInv /\ PollInv /\ RecordedStays
  BY DEF TurnInv, PollInv, RecordedStays, Running, NoCommand
<1>3. TimeInv
  BY StallCostIs DEF TimeInv, Commands
<1> QED BY <1>1, <1>2, <1>3 DEF HealthInv

\* The Boolean variables, apart from the rest of the type invariant.
LEMMA FlagsStep == FlagsOK /\ [Next]_vars => FlagsOK'
<1> SUFFICES ASSUME FlagsOK, [Next]_vars PROVE FlagsOK'
  OBVIOUS
<1> USE DEF FlagsOK, world, outcome, Keep
<1>1. CASE DataMount      BY <1>1, Zenon DEF DataMount
<1>2. CASE AppHealth      BY <1>2, Zenon DEF AppHealth
<1>3. CASE Tick           BY <1>3, Zenon DEF Tick
<1>4. CASE DataFailed     BY <1>4, Zenon DEF DataFailed
<1>5. CASE Deadline       BY <1>5, Zenon DEF Deadline
<1>6. CASE CheckPodman    BY <1>6, Zenon DEF CheckPodman
<1>7. CASE CheckHealth    BY <1>7, Zenon DEF CheckHealth
<1>8. CASE GoOnConfirming BY <1>8, Zenon DEF GoOnConfirming
<1>9. CASE ConfirmEnv     BY <1>9, Zenon DEF ConfirmEnv
<1>10. CASE ConfirmSlot   BY <1>10, Zenon DEF ConfirmSlot, Record
<1>11. CASE StopApp       BY <1>11, Zenon DEF StopApp
<1>12. CASE ContinueReboot BY <1>12, Zenon DEF ContinueReboot
<1>13. CASE Stall         BY <1>13, Zenon DEF Stall
<1>14. CASE WatchdogKills BY <1>14, Zenon DEF WatchdogKills, Fresh
<1>15. CASE Stopped       BY <1>15, Zenon DEF Stopped
<1>16. CASE Reset         BY <1>16, Zenon DEF Reset
<1>17. CASE UNCHANGED vars BY <1>17, Zenon DEF vars
<1> QED
  BY <1>1, <1>2, <1>3, <1>4, <1>5, <1>6, <1>7, <1>8, <1>9, <1>10, <1>11, <1>12, <1>13,
     <1>14, <1>15, <1>16, <1>17 DEF Next, Step

\* A turn makes the polled command a turn older.
LEMMA AgeStep ==
  ASSUME cmd \in [what : Commands \cup {"none"}, age : Nat], Tick
  PROVE  cmd' \in [what : Commands \cup {"none"}, age : Nat]
<1>1. \A n \in Nat : [cmd EXCEPT !.age = n] \in [what : Commands \cup {"none"}, age : Nat]
  OBVIOUS
<1>2. cmd.age \in Nat /\ cmd.age + 1 \in Nat
  OBVIOUS
<1>3. \/ cmd' = cmd
      \/ cmd' = [cmd EXCEPT !.age = IF cmd.age > BOUNDS[cmd.what] THEN cmd.age ELSE cmd.age + 1]
  BY DEF Tick
<1> QED BY <1>1, <1>2, <1>3

LEMMA StepInv == HealthInv /\ [Next]_vars => HealthInv'
<1> SUFFICES ASSUME HealthInv, [Next]_vars PROVE HealthInv'
  OBVIOUS
<1>0. FlagsOK'
  BY FlagsStep DEF HealthInv, TypeOK
<1> USE HealthAssumption, StallCostIs
    DEF HealthInv, TypeOK, TurnInv, PollInv, TimeInv, RecordedStays, Running, Ahead, Rest,
        Commands, NoCommand, Fresh, Finish, clock, world, reboot, outcome, Keep, Spend
<1>1. CASE DataMount      BY <1>0, <1>1 DEF DataMount
<1>2. CASE AppHealth      BY <1>0, <1>2 DEF AppHealth
<1>3. CASE Tick
  <2>1. TypeOK'
    BY <1>0, <1>3, AgeStep, StallCostMonotone DEF Tick, CountDown
  <2>2. TurnInv' /\ RecordedStays'
    BY <1>0, <1>3, StallCostMonotone DEF Tick, CountDown
  <2>3. PollInv'
    BY <1>0, <1>3, StallCostMonotone DEF Tick, CountDown
  <2>4. TimeInv'
    BY <1>0, <1>3, StallCostMonotone DEF Tick, CountDown
  <2> QED BY <2>1, <2>2, <2>3, <2>4
<1>4. CASE DataFailed     BY <1>0, <1>4 DEF DataFailed, Awake, StartReboot
<1>5. CASE Deadline       BY <1>0, <1>5 DEF Deadline, Awake, Missed, StartReboot
<1>6. CASE CheckPodman
  <2>1. TypeOK'
    BY <1>0, <1>6 DEF CheckPodman, Awake, StillRuns, Ends
  <2>2. TurnInv' /\ RecordedStays'
    BY <1>0, <1>6 DEF CheckPodman, Awake, StillRuns, Ends
  <2>3. PollInv'
    BY <1>0, <1>6 DEF CheckPodman, Awake, StillRuns, Ends
  <2>4. TimeInv'
    BY <1>0, <1>6 DEF CheckPodman, Awake, StillRuns, Ends
  <2> QED BY <2>1, <2>2, <2>3, <2>4
<1>7. CASE CheckHealth    BY <1>0, <1>7 DEF CheckHealth, Awake, StillRuns, Ends
<1>8. CASE GoOnConfirming BY <1>0, <1>8 DEF GoOnConfirming, Awake
<1>9. CASE ConfirmEnv
  <2>0. /\ sup = "confirming" /\ stalled = 0 /\ ~has.env /\ at = "confirm"
        /\ UNCHANGED <<left, over, data, stalled, machine, budget, stage, since, recorded, boot>>
    BY <1>9 DEF ConfirmEnv, Awake
  <2>1. CASE StillRuns("env") /\ UNCHANGED <<sup, has>>
    BY <1>0, <2>0, <2>1 DEF StillRuns
  <2>2. CASE Ends /\ Done /\ UNCHANGED has
    BY <1>0, <2>0, <2>2 DEF Ends, Done
  <2>3. CASE Ends /\ at' = "confirm" /\ has' = [has EXCEPT !.env = TRUE] /\ UNCHANGED sup
    <3>1. has'.env
      BY <2>3, Zenon DEF FlagsOK
    <3> QED BY <1>0, <2>0, <2>3, <3>1 DEF Ends
  <2> QED BY <1>9, <2>1, <2>2, <2>3 DEF ConfirmEnv
<1>10. CASE ConfirmSlot
  <2>0. /\ sup = "confirming" /\ stalled = 0 /\ has.env /\ at = "confirm" /\ machine = "up"
        /\ UNCHANGED <<left, over, data, stalled, machine, budget, stage, since, has, boot>>
    BY <1>10 DEF ConfirmSlot, Awake
  <2>1. CASE StillRuns(Finish) /\ UNCHANGED <<sup, marked, recorded>>
    BY <1>0, <2>0, <2>1 DEF StillRuns
  <2>2. CASE Done /\ cmd' \in {cmd, NoCommand} /\ (recorded' = recorded \/ marked')
    BY <1>0, <2>0, <2>2 DEF Done
  <2>3. \/ StillRuns(Finish) /\ UNCHANGED <<sup, marked, recorded>>
        \/ Done /\ cmd' \in {cmd, NoCommand} /\ (recorded' = recorded \/ marked')
    BY <1>10, Zenon DEF ConfirmSlot, Record, Ends, FlagsOK
  <2> QED BY <2>1, <2>2, <2>3
<1>11. CASE StopApp       BY <1>0, <1>11 DEF StopApp, Awake, StillRuns, Ends, Request, SpawnRaises
<1>12. CASE ContinueReboot
  <2>1. TypeOK'
    BY <1>0, <1>12 DEF ContinueReboot, Awake, ForceReboot, Sysrq, Request, SpawnRaises
  <2>2. TurnInv' /\ RecordedStays'
    BY <1>0, <1>12 DEF ContinueReboot, Awake, ForceReboot, Sysrq, Request, SpawnRaises
  <2>3. PollInv' /\ TimeInv'
    BY <1>0, <1>12 DEF ContinueReboot, Awake, ForceReboot, Sysrq, Request, SpawnRaises
  <2> QED BY <2>1, <2>2, <2>3
<1>13. CASE Stall         BY <1>0, <1>13 DEF Stall
<1>14. CASE WatchdogKills
  <2>1. TypeOK'
    BY <1>0, <1>14 DEF WatchdogKills
  <2>2. TurnInv' /\ RecordedStays'
    BY <1>0, <1>14 DEF WatchdogKills
  <2>3. PollInv'
    BY <1>0, <1>14 DEF WatchdogKills
  <2>4. TimeInv'
    BY <1>0, <1>14 DEF WatchdogKills
  <2> QED BY <2>1, <2>2, <2>3, <2>4
<1>15. CASE Stopped       BY <1>0, <1>15 DEF Stopped
<1>16. CASE Reset         BY <1>0, <1>16 DEF Reset
<1>17. CASE UNCHANGED vars BY <1>0, <1>17 DEF vars
<1> QED
  BY <1>1, <1>2, <1>3, <1>4, <1>5, <1>6, <1>7, <1>8, <1>9, <1>10, <1>11, <1>12, <1>13,
     <1>14, <1>15, <1>16, <1>17 DEF Next, Step

-----------------------------------------------------------------------------
(* The supervisor decides within Grace turns of the deadline, however its  *)
(* commands hang and however often it stalls and is started again.         *)
THEOREM DecisionInTime == Spec => []DecidedInTime
<1>1. HealthInv => DecidedInTime
  BY DEF HealthInv, TimeInv, DecidedInTime
<1> QED BY InitInv, StepInv, <1>1, PTL DEF Spec

(* A boot recorded as confirmed has its attempts back, and neither the     *)
(* supervisor nor the shutdown it asks for ends it any more.               *)
THEOREM ConfirmedBootStays == Spec => []RecordedStays
<1>1. HealthInv => RecordedStays
  BY DEF HealthInv
<1> QED BY InitInv, StepInv, <1>1, PTL DEF Spec
=============================================================================
