---------------------------- MODULE ImprovProofs ----------------------------
(***************************************************************************)
(* Proofs about Wi-Fi setup over Bluetooth (Improv), for any number of     *)
(* settings packets and any number of failures before a reset.             *)
(***************************************************************************)
EXTENDS Improv, TLAPS

-----------------------------------------------------------------------------
(* The inductive invariant.                                                *)

Changes == {"on", "off", "again"}

Tasks ==
  [at : {"none", "spawned", "joining", "ended"},
   password : {"none", "right", "wrong"}, previous : {"none", "right", "wrong"}]

\* TypeOK with the whole of a task and of bluetoothd.
DataInv ==
  /\ offline_since \in {"none", "short", "long"}
  /\ saved \in {"none", "right", "wrong"} /\ worked \in {"none", "right", "any"}
  /\ state \in {"authorized", "provisioning", "provisioned"}
  /\ queue \in Seq(Changes) /\ step \in {"acquire", "register", "reply"}
  /\ main \in {"sleep", "waits", "failed"}
  /\ adv_failures \in 0..ADV_FAILURES_BEFORE_RESET
  /\ task \in [Writes -> Tasks]
  /\ bluez \in [reg : {"none", "authorized", "provisioning", "provisioned"},
                stuck : BOOLEAN, new : BOOLEAN]

TypeInv == FlagsOK /\ DataInv

\* As long as attempts are told apart, there is one at most and it remembers
\* what worked; between attempts that is what is saved.
AttemptInv ==
  worked # "any" =>
    /\ \A w \in Active : task[w].previous = worked
    /\ \A v, w \in Active : v = w
    /\ Active = {} => saved = worked

\* Only the head of the queue is past adv_lock, with nothing registered yet
\* as far as the program knows.
LockInv == step # "acquire" => queue # <<>> /\ ~advertising

\* The changes that are still to look at the state: the head has passed that
\* point once it holds the lock and has unregistered.
AgainFrom(q, first) == \E i \in first..Len(q) : q[i] = "again"
AgainWaits == AgainFrom(queue, IF step = "acquire" THEN 1 ELSE 2)

\* What bluetoothd has agrees with the program's step, and where it is not
\* the state of now a change is waiting that will put it right.
RegisteredInv ==
  ~bluez.new /\ Answered =>
    /\ step = "acquire" => (advertising <=> bluez.reg # "none")
    /\ step = "register" => bluez.reg = "none"
    /\ step = "reply" => bluez.reg # "none"
    /\ bluez.reg \in {"none", state} \/ AgainWaits

ImprovInv == TypeInv /\ AttemptInv /\ LockInv /\ RegisteredInv

-----------------------------------------------------------------------------
\* What is queued for the lock only grows at its end.
LEMMA AgainGrows ==
  ASSUME NEW q \in Seq(Changes), NEW r \in Seq(Changes), NEW k \in {1, 2}, AgainFrom(q, k)
  PROVE  AgainFrom(q \o r, k)
  BY DEF AgainFrom, Changes

\* A change of the state is queued behind whatever holds the lock.
LEMMA AgainAtEnd ==
  ASSUME NEW q \in Seq(Changes), NEW k \in {1, 2}, k = 2 => q # <<>>
  PROVE  AgainFrom(q \o <<"again">>, k)
<1>1. Len(q \o <<"again">>) = Len(q) + 1 /\ (q \o <<"again">>)[Len(q) + 1] = "again"
  OBVIOUS
<1>2. k <= Len(q) + 1
  OBVIOUS
<1> QED BY <1>1, <1>2 DEF AgainFrom

\* When the head is done, the ones behind it move up.
LEMMA AgainMovesUp ==
  ASSUME NEW q \in Seq(Changes), q # <<>>
  PROVE  /\ Tail(q) \in Seq(Changes)
         /\ AgainFrom(q, 2) => AgainFrom(Tail(q), 1)
         /\ AgainFrom(q, 1) /\ Head(q) # "again" => AgainFrom(q, 2)
<1>1. Tail(q) \in Seq(Changes) /\ Len(Tail(q)) = Len(q) - 1
  OBVIOUS
<1>2. ASSUME NEW i \in 2..Len(q), q[i] = "again" PROVE Tail(q)[i - 1] = "again" /\ i - 1 \in 1..Len(Tail(q))
  BY <1>1, <1>2
<1>3. Head(q) = q[1]
  OBVIOUS
<1>4. AgainFrom(q, 2) => AgainFrom(Tail(q), 1)
  BY <1>2 DEF AgainFrom
<1>5. AgainFrom(q, 1) /\ Head(q) # "again" => AgainFrom(q, 2)
  <2> SUFFICES ASSUME NEW i \in 1..Len(q), q[i] = "again", Head(q) # "again"
               PROVE  i \in 2..Len(q)
    BY DEF AgainFrom
  <2> QED BY <1>3
<1> QED BY <1>1, <1>4, <1>5

\* set_state: what waited still waits, and a change of the state waits behind
\* it.
LEMMA SetStateIs ==
  ASSUME DataInv, NEW s \in {"authorized", "provisioning", "provisioned"},
         NEW first \in {<<>>, <<"on">>}, SetState(s, first)
  PROVE  /\ state' = s /\ queue' \in Seq(Changes)
         /\ queue # <<>> => queue' # <<>>
         /\ \A k \in {1, 2} : AgainFrom(queue, k) => AgainFrom(queue', k)
         /\ state' # state => \A k \in {1, 2} : (k = 2 => queue # <<>>) => AgainFrom(queue', k)
<1> USE DEF DataInv
<1>1. <<>> \in Seq(Changes) /\ <<"again">> \in Seq(Changes) /\ <<"on">> \in Seq(Changes)
  BY DEF Changes
<1>6. first \in Seq(Changes)
  BY <1>1
<1>5. first \in Seq(Changes) /\ queue \o first \in Seq(Changes)
  BY <1>6
<1>2. queue # <<>> => queue \o first # <<>>
  BY DEF Changes
<1>3. CASE s # state
  <2>1. queue' = (queue \o first) \o <<"again">>
    BY <1>3 DEF SetState, Readvertise
  <2>2. queue' \in Seq(Changes) /\ queue' # <<>>
    BY <1>1, <1>5, <2>1
  <2> QED BY <1>1, <1>5, <1>2, <2>1, <2>2, AgainGrows, AgainAtEnd DEF SetState
<1>4. CASE s = state
  <2>1. queue' = (queue \o first) \o <<>>
    BY <1>4 DEF SetState, Readvertise
  <2>2. queue' = queue \o first
    BY <1>1, <1>5, <2>1
  <2> QED BY <1>1, <1>5, <1>2, <1>4, <2>2, AgainGrows DEF SetState
<1> QED BY <1>3, <1>4

\* Every step keeps the flags Boolean ...
LEMMA FlagsStep == TypeInv /\ [Next]_vars => FlagsOK'
<1> SUFFICES ASSUME TypeInv, [Next]_vars PROVE FlagsOK'
  OBVIOUS
<1>1. CASE NetworkChanges
  BY <1>1 DEF TypeInv, FlagsOK, wifi, adv, loop, NetworkChanges
<1>2. CASE WindowOpens
  BY <1>2 DEF TypeInv, FlagsOK, wifi, adv, loop, WindowOpens
<1>3. CASE Expires
  BY <1>3 DEF TypeInv, FlagsOK, wifi, adv, Expires
<1>4. CASE ResetAges
  BY <1>4 DEF TypeInv, FlagsOK, wifi, adv, loop, ResetAges
<1>5. CASE BluezRestarts
  BY <1>5 DEF TypeInv, FlagsOK, Fault, Restarted, net, wifi, adv, loop, BluezRestarts
<1>6. CASE BluezSticks
  BY <1>6 DEF TypeInv, FlagsOK, Fault, net, wifi, adv, loop, BluezSticks
<1>7. ASSUME NEW w \in Writes, NEW p \in Settings, OnRpcWrite(w, p) PROVE FlagsOK'
  BY <1>7 DEF TypeInv, FlagsOK, net, wifi, adv, loop, OnRpcWrite
<1>8. ASSUME NEW w \in Writes, ProvisionBegins(w) PROVE FlagsOK'
  BY <1>8 DEF TypeInv, FlagsOK, SetState, Readvertise, net, loop, ProvisionBegins
<1>9. ASSUME NEW w \in Writes, ProvisionSucceeds(w) PROVE FlagsOK'
  BY <1>9 DEF TypeInv, FlagsOK, SetState, Readvertise, loop, ProvisionSucceeds
<1>10. ASSUME NEW w \in Writes, ProvisionFails(w) PROVE FlagsOK'
  BY <1>10 DEF TypeInv, FlagsOK, SetState, Readvertise, net, loop, ProvisionFails
<1>11. CASE AdvertiseAlready
  BY <1>11 DEF TypeInv, FlagsOK, Release, Same, net, wifi, AdvertiseAlready
<1>12. CASE Unregister
  BY <1>12 DEF TypeInv, FlagsOK, Release, Same, net, wifi, Unregister
<1>13. CASE Register
  BY <1>13 DEF TypeInv, FlagsOK, Same, net, wifi, Register
<1>14. CASE Registered
  BY <1>14 DEF TypeInv, FlagsOK, Release, Same, net, wifi, Registered
<1>15. CASE Refused
  BY <1>15 DEF TypeInv, FlagsOK, Release, Same, net, wifi, Refused
<1>16. CASE TimedOut
  BY <1>16 DEF TypeInv, FlagsOK, Fault, Release, Same, net, wifi, TimedOut
<1>17. CASE Turn
  BY <1>17 DEF TypeInv, FlagsOK, SetState, Readvertise, net, wifi, Turn
<1>18. CASE Recover
  BY <1>18 DEF TypeInv, FlagsOK, Restarted, wifi, adv, Recover
<1>19. CASE Ends
  BY <1>19 DEF TypeInv, FlagsOK, Ends
<1>20. CASE UNCHANGED vars
  BY <1>20 DEF TypeInv, FlagsOK, vars, net, wifi, adv, loop
<1> QED
  BY <1>1, <1>2, <1>3, <1>4, <1>5, <1>6, <1>7, <1>8, <1>9, <1>10, <1>11, <1>12, <1>13,
    <1>14, <1>15, <1>16, <1>17, <1>18, <1>19, <1>20
  DEF Next, Provision, Advertise, Exits, Dies

\* ... and the rest in its types.
LEMMA DataStep == TypeInv /\ [Next]_vars => DataInv'
<1> SUFFICES ASSUME TypeInv, [Next]_vars PROVE DataInv'
  OBVIOUS
<1> USE ImprovAssumption
<1>1. CASE NetworkChanges
  BY <1>1 DEF TypeInv, DataInv, Tasks, Changes, wifi, adv, loop, NetworkChanges
<1>2. CASE WindowOpens
  BY <1>2 DEF TypeInv, DataInv, Tasks, Changes, wifi, adv, loop, WindowOpens
<1>3. CASE Expires
  BY <1>3 DEF TypeInv, DataInv, Tasks, Changes, wifi, adv, Expires
<1>4. CASE ResetAges
  BY <1>4 DEF TypeInv, DataInv, Tasks, Changes, wifi, adv, loop, ResetAges
<1>5. CASE BluezRestarts
  BY <1>5 DEF TypeInv, DataInv, Tasks, Changes, Fault, Restarted, net, wifi, adv, loop,
    BluezRestarts
<1>6. CASE BluezSticks
  BY <1>6 DEF TypeInv, DataInv, Tasks, Changes, Fault, net, wifi, adv, loop,
    BluezSticks
<1>7. ASSUME NEW w \in Writes, NEW p \in Settings, OnRpcWrite(w, p) PROVE DataInv'
  BY <1>7 DEF TypeInv, DataInv, Tasks, Changes, Settings, NoTask, Ended, net, wifi,
    adv, loop, OnRpcWrite
<1>8. ASSUME NEW w \in Writes, ProvisionBegins(w) PROVE DataInv'
  BY <1>8, SetStateIs DEF TypeInv, DataInv, Tasks, Changes, net, loop, ProvisionBegins
<1>9. ASSUME NEW w \in Writes, ProvisionSucceeds(w) PROVE DataInv'
  BY <1>9, SetStateIs DEF TypeInv, DataInv, Tasks, Changes, Joins, NoTask, Ended, loop,
    ProvisionSucceeds
<1>10. ASSUME NEW w \in Writes, ProvisionFails(w) PROVE DataInv'
  BY <1>10, SetStateIs DEF TypeInv, DataInv, Tasks, Changes, Failed, Restore, NoTask,
    Ended, Fault, net, loop, ProvisionFails
<1>11. CASE AdvertiseAlready
  BY <1>11 DEF TypeInv, DataInv, Tasks, Changes, Release, Same, net, wifi,
    AdvertiseAlready
<1>12. CASE Unregister
  <2> USE <1>12 DEF TypeInv, DataInv
  <2>1. bluez' \in [reg : {"none", "authorized", "provisioning", "provisioned"},
                   stuck : BOOLEAN, new : BOOLEAN]
    BY DEF Restarted, Unregister
  <2>2. task' \in [Writes -> Tasks]
    BY DEF Tasks, NoTask, Ended, Same, adv, Unregister
  <2>3. queue' \in Seq(Changes) /\ step' \in {"acquire", "register", "reply"}
    BY AgainMovesUp DEF Release, Unregister
  <2>4. adv_failures' \in 0..ADV_FAILURES_BEFORE_RESET /\ main' \in {"sleep", "waits", "failed"}
    BY DEF Release, Unregister
  <2> QED BY <2>1, <2>2, <2>3, <2>4 DEF Same, wifi, Unregister
<1>13. CASE Register
  BY <1>13 DEF TypeInv, DataInv, Tasks, Changes, Same, net, wifi, Register
<1>14. CASE Registered
  BY <1>14 DEF TypeInv, DataInv, Tasks, Changes, Release, Same, net, wifi, Registered
<1>15. CASE Refused
  BY <1>15 DEF TypeInv, DataInv, Tasks, Changes, Release, Same, net, wifi, Refused
<1>16. CASE TimedOut
  <2> USE <1>16 DEF TypeInv, DataInv
  <2>1. bluez' \in [reg : {"none", "authorized", "provisioning", "provisioned"},
                   stuck : BOOLEAN, new : BOOLEAN]
    BY DEF Restarted, TimedOut
  <2>2. task' \in [Writes -> Tasks]
    BY DEF Tasks, NoTask, Ended, Same, adv, TimedOut
  <2>3. queue' \in Seq(Changes) /\ step' \in {"acquire", "register", "reply"}
    BY AgainMovesUp DEF Release, TimedOut
  <2>4. adv_failures' \in 0..ADV_FAILURES_BEFORE_RESET /\ main' \in {"sleep", "waits", "failed"}
    BY DEF Release, TimedOut
  <2> QED BY <2>1, <2>2, <2>3, <2>4 DEF Same, wifi, TimedOut
<1>17. CASE Turn
  <2> USE <1>17 DEF TypeInv, DataInv
  <2>1. queue' \in Seq(Changes) /\ state' \in {"authorized", "provisioning", "provisioned"}
    <3>1. PICK early \in BOOLEAN :
            \/ SetState("authorized", <<"on">>)
            \/ queue' = Append(queue, IF Want(early) THEN "on" ELSE "off") /\ UNCHANGED state
      BY DEF Turn
    <3>2. (IF Want(early) THEN "on" ELSE "off") \in Changes
      BY DEF Changes
    <3>3. CASE SetState("authorized", <<"on">>)
      <4>1. "authorized" \in {"authorized", "provisioning", "provisioned"} /\ <<"on">> \in {<<>>, <<"on">>}
        OBVIOUS
      <4> QED BY <3>3, <4>1, SetStateIs
    <3>4. CASE queue' = Append(queue, IF Want(early) THEN "on" ELSE "off") /\ UNCHANGED state
      BY <3>2, <3>4
    <3> QED BY <3>1, <3>3, <3>4
  <2>2. offline_since' \in {"none", "short", "long"}
    BY DEF Turn, NextOffline
  <2> QED BY <2>1, <2>2 DEF Turn, wifi
<1>18. CASE Recover
  <2>1. bluez' = bluez \/ bluez' = Restarted
    BY <1>18 DEF Recover
  <2>2. bluez' \in [reg : {"none", "authorized", "provisioning", "provisioned"},
                   stuck : BOOLEAN, new : BOOLEAN]
    <3>1. Restarted \in [reg : {"none", "authorized", "provisioning", "provisioned"},
                        stuck : BOOLEAN, new : BOOLEAN]
      BY DEF Restarted
    <3> QED BY <2>1, <3>1 DEF TypeInv, DataInv
  <2> QED BY <1>18, <2>2 DEF TypeInv, DataInv, Recover, wifi, adv
<1>19. CASE Ends
  <2> USE <1>19 DEF TypeInv, DataInv
  <2>1. bluez' \in [reg : {"none", "authorized", "provisioning", "provisioned"},
                   stuck : BOOLEAN, new : BOOLEAN]
    BY DEF Restarted, Ends
  <2>2. task' \in [Writes -> Tasks]
    BY DEF Tasks, NoTask, Ended, Same, adv, Ends
  <2>3. queue' \in Seq(Changes) /\ step' \in {"acquire", "register", "reply"}
    BY AgainMovesUp DEF Ends
  <2>4. adv_failures' \in 0..ADV_FAILURES_BEFORE_RESET /\ main' \in {"sleep", "waits", "failed"}
    BY DEF Release, Ends
  <2> QED BY <2>1, <2>2, <2>3, <2>4 DEF Same, wifi, Ends
<1>20. CASE UNCHANGED vars
  BY <1>20 DEF TypeInv, DataInv, Tasks, Changes, vars, net, wifi, adv, loop
<1> QED
  BY <1>1, <1>2, <1>3, <1>4, <1>5, <1>6, <1>7, <1>8, <1>9, <1>10, <1>11, <1>12, <1>13,
    <1>14, <1>15, <1>16, <1>17, <1>18, <1>19, <1>20
  DEF Next, Provision, Advertise, Exits, Dies

\* Failed attempts put back what worked.
LEMMA AttemptStep == TypeInv /\ AttemptInv /\ [Next]_vars => AttemptInv'
<1> SUFFICES ASSUME TypeInv, AttemptInv, [Next]_vars PROVE AttemptInv'
  OBVIOUS
<1>1. CASE NetworkChanges
  BY <1>1 DEF TypeInv, FlagsOK, DataInv, Tasks, AttemptInv, Active, wifi, adv, loop,
    NetworkChanges
<1>2. CASE WindowOpens
  BY <1>2 DEF TypeInv, FlagsOK, DataInv, Tasks, AttemptInv, Active, wifi, adv, loop,
    WindowOpens
<1>3. CASE Expires
  BY <1>3 DEF TypeInv, FlagsOK, DataInv, Tasks, AttemptInv, Active, wifi, adv, Expires
<1>4. CASE ResetAges
  BY <1>4 DEF TypeInv, FlagsOK, DataInv, Tasks, AttemptInv, Active, wifi, adv, loop,
    ResetAges
<1>5. CASE BluezRestarts
  BY <1>5 DEF TypeInv, FlagsOK, DataInv, Tasks, AttemptInv, Active, Fault, net, wifi,
    adv, loop, BluezRestarts
<1>6. CASE BluezSticks
  BY <1>6 DEF TypeInv, FlagsOK, DataInv, Tasks, AttemptInv, Active, Fault, net, wifi,
    adv, loop, BluezSticks
<1>7. ASSUME NEW w \in Writes, NEW p \in Settings, OnRpcWrite(w, p) PROVE AttemptInv'
  BY <1>7 DEF TypeInv, FlagsOK, DataInv, Tasks, AttemptInv, Active, NoTask, Ended, net,
    wifi, adv, loop, OnRpcWrite
<1>8. ASSUME NEW w \in Writes, ProvisionBegins(w) PROVE AttemptInv'
  BY <1>8 DEF TypeInv, FlagsOK, DataInv, Tasks, AttemptInv, Active, SetState, net,
    loop, ProvisionBegins
<1>9. ASSUME NEW w \in Writes, ProvisionSucceeds(w) PROVE AttemptInv'
  BY <1>9 DEF TypeInv, FlagsOK, DataInv, Tasks, AttemptInv, Active, SetState, Joins,
    NoTask, Ended, loop, ProvisionSucceeds
<1>10. ASSUME NEW w \in Writes, ProvisionFails(w) PROVE AttemptInv'
  BY <1>10 DEF TypeInv, FlagsOK, DataInv, Tasks, AttemptInv, Active, Fault, SetState,
    Restore, NoTask, Ended, net, loop, ProvisionFails
<1>11. CASE AdvertiseAlready
  BY <1>11 DEF TypeInv, FlagsOK, DataInv, Tasks, AttemptInv, Active, Release, Same,
    net, wifi, AdvertiseAlready
<1>12. CASE Unregister
  BY <1>12 DEF TypeInv, FlagsOK, DataInv, Tasks, AttemptInv, Active, Release, Same,
    net, wifi, Unregister
<1>13. CASE Register
  BY <1>13 DEF TypeInv, FlagsOK, DataInv, Tasks, AttemptInv, Active, Same, net, wifi,
    Register
<1>14. CASE Registered
  BY <1>14 DEF TypeInv, FlagsOK, DataInv, Tasks, AttemptInv, Active, Release, Same,
    net, wifi, Registered
<1>15. CASE Refused
  BY <1>15 DEF TypeInv, FlagsOK, DataInv, Tasks, AttemptInv, Active, Release, Same,
    net, wifi, Refused
<1>16. CASE TimedOut
  BY <1>16 DEF TypeInv, FlagsOK, DataInv, Tasks, AttemptInv, Active, Fault, Release,
    Same, net, wifi, TimedOut
<1>17. CASE Turn
  BY <1>17 DEF TypeInv, FlagsOK, DataInv, Tasks, AttemptInv, Active, SetState, net,
    wifi, Turn
<1>18. CASE Recover
  BY <1>18 DEF TypeInv, FlagsOK, DataInv, Tasks, AttemptInv, Active, wifi, adv, Recover
<1>19. CASE Ends
  BY <1>19 DEF TypeInv, FlagsOK, DataInv, Tasks, AttemptInv, Active, NoTask, Ended,
    Ends
<1>20. CASE UNCHANGED vars
  BY <1>20 DEF TypeInv, FlagsOK, DataInv, Tasks, AttemptInv, Active, vars, net, wifi,
    adv, loop
<1> QED
  BY <1>1, <1>2, <1>3, <1>4, <1>5, <1>6, <1>7, <1>8, <1>9, <1>10, <1>11, <1>12, <1>13,
    <1>14, <1>15, <1>16, <1>17, <1>18, <1>19, <1>20
  DEF Next, Provision, Advertise, Exits, Dies

\* Only the head of the queue is past the lock.
LEMMA LockStep == TypeInv /\ LockInv /\ [Next]_vars => LockInv'
<1> SUFFICES ASSUME TypeInv, LockInv, [Next]_vars PROVE LockInv'
  OBVIOUS
<1>1. CASE NetworkChanges
  BY <1>1 DEF TypeInv, FlagsOK, DataInv, LockInv, wifi, adv, loop, NetworkChanges
<1>2. CASE WindowOpens
  BY <1>2 DEF TypeInv, FlagsOK, DataInv, LockInv, wifi, adv, loop, WindowOpens
<1>3. CASE Expires
  BY <1>3 DEF TypeInv, FlagsOK, DataInv, LockInv, wifi, adv, Expires
<1>4. CASE ResetAges
  BY <1>4 DEF TypeInv, FlagsOK, DataInv, LockInv, wifi, adv, loop, ResetAges
<1>5. CASE BluezRestarts
  BY <1>5 DEF TypeInv, FlagsOK, DataInv, LockInv, Fault, net, wifi, adv, loop,
    BluezRestarts
<1>6. CASE BluezSticks
  BY <1>6 DEF TypeInv, FlagsOK, DataInv, LockInv, Fault, net, wifi, adv, loop,
    BluezSticks
<1>7. ASSUME NEW w \in Writes, NEW p \in Settings, OnRpcWrite(w, p) PROVE LockInv'
  BY <1>7 DEF TypeInv, FlagsOK, DataInv, LockInv, net, wifi, adv, loop, OnRpcWrite
<1>8. ASSUME NEW w \in Writes, ProvisionBegins(w) PROVE LockInv'
  BY <1>8 DEF TypeInv, FlagsOK, DataInv, LockInv, SetState, Readvertise, net, loop,
    ProvisionBegins
<1>9. ASSUME NEW w \in Writes, ProvisionSucceeds(w) PROVE LockInv'
  BY <1>9 DEF TypeInv, FlagsOK, DataInv, LockInv, SetState, Readvertise, loop,
    ProvisionSucceeds
<1>10. ASSUME NEW w \in Writes, ProvisionFails(w) PROVE LockInv'
  BY <1>10 DEF TypeInv, FlagsOK, DataInv, LockInv, SetState, Readvertise, net, loop,
    ProvisionFails
<1>11. CASE AdvertiseAlready
  BY <1>11 DEF TypeInv, FlagsOK, DataInv, LockInv, Release, Same, net, wifi,
    AdvertiseAlready
<1>12. CASE Unregister
  BY <1>12 DEF TypeInv, FlagsOK, DataInv, LockInv, Release, Same, net, wifi, Unregister
<1>13. CASE Register
  BY <1>13 DEF TypeInv, FlagsOK, DataInv, LockInv, Same, net, wifi, Register
<1>14. CASE Registered
  BY <1>14 DEF TypeInv, FlagsOK, DataInv, LockInv, Release, Same, net, wifi, Registered
<1>15. CASE Refused
  BY <1>15 DEF TypeInv, FlagsOK, DataInv, LockInv, Release, Same, net, wifi, Refused
<1>16. CASE TimedOut
  BY <1>16 DEF TypeInv, FlagsOK, DataInv, LockInv, Fault, Release, Same, net, wifi,
    TimedOut
<1>17. CASE Turn
  BY <1>17 DEF TypeInv, FlagsOK, DataInv, LockInv, SetState, Readvertise, net, wifi,
    Turn
<1>18. CASE Recover
  BY <1>18 DEF TypeInv, FlagsOK, DataInv, LockInv, wifi, adv, Recover
<1>19. CASE Ends
  BY <1>19 DEF TypeInv, FlagsOK, DataInv, LockInv, Ends
<1>20. CASE UNCHANGED vars
  BY <1>20 DEF TypeInv, FlagsOK, DataInv, LockInv, vars, net, wifi, adv, loop
<1> QED
  BY <1>1, <1>2, <1>3, <1>4, <1>5, <1>6, <1>7, <1>8, <1>9, <1>10, <1>11, <1>12, <1>13,
    <1>14, <1>15, <1>16, <1>17, <1>18, <1>19, <1>20
  DEF Next, Provision, Advertise, Exits, Dies

\* bluetoothd is never left with an old state and nothing to put it right.
LEMMA RegisteredStep == TypeInv /\ LockInv /\ RegisteredInv /\ [Next]_vars => RegisteredInv'
<1> SUFFICES ASSUME TypeInv, LockInv, RegisteredInv, [Next]_vars PROVE RegisteredInv'
  OBVIOUS
<1>1. CASE NetworkChanges
  BY <1>1, AgainMovesUp, AgainGrows, AgainAtEnd DEF TypeInv, FlagsOK, DataInv, LockInv,
    RegisteredInv, AgainWaits, Changes, Answered, wifi, adv, loop, NetworkChanges
<1>2. CASE WindowOpens
  BY <1>2, AgainMovesUp, AgainGrows, AgainAtEnd DEF TypeInv, FlagsOK, DataInv, LockInv,
    RegisteredInv, AgainWaits, Changes, Answered, wifi, adv, loop, WindowOpens
<1>3. CASE Expires
  BY <1>3, AgainMovesUp, AgainGrows, AgainAtEnd DEF TypeInv, FlagsOK, DataInv, LockInv,
    RegisteredInv, AgainWaits, Changes, Answered, wifi, adv, Expires
<1>4. CASE ResetAges
  BY <1>4, AgainMovesUp, AgainGrows, AgainAtEnd DEF TypeInv, FlagsOK, DataInv, LockInv,
    RegisteredInv, AgainWaits, Changes, Answered, wifi, adv, loop, ResetAges
<1>5. CASE BluezRestarts
  BY <1>5, AgainMovesUp, AgainGrows, AgainAtEnd DEF TypeInv, FlagsOK, DataInv, LockInv,
    RegisteredInv, AgainWaits, Changes, Answered, Fault, Restarted, net, wifi, adv,
    loop, BluezRestarts
<1>6. CASE BluezSticks
  BY <1>6, AgainMovesUp, AgainGrows, AgainAtEnd DEF TypeInv, FlagsOK, DataInv, LockInv,
    RegisteredInv, AgainWaits, Changes, Answered, Fault, net, wifi, adv, loop,
    BluezSticks
<1>7. ASSUME NEW w \in Writes, NEW p \in Settings, OnRpcWrite(w, p) PROVE RegisteredInv'
  BY <1>7, AgainMovesUp, AgainGrows, AgainAtEnd DEF TypeInv, FlagsOK, DataInv, LockInv,
    RegisteredInv, AgainWaits, Changes, Answered, net, wifi, adv, loop, OnRpcWrite
<1>8. ASSUME NEW w \in Writes, ProvisionBegins(w) PROVE RegisteredInv'
  BY <1>8, SetStateIs DEF TypeInv, DataInv, LockInv, RegisteredInv, AgainWaits,
    Answered, ProvisionBegins
<1>9. ASSUME NEW w \in Writes, ProvisionSucceeds(w) PROVE RegisteredInv'
  BY <1>9, SetStateIs DEF TypeInv, DataInv, LockInv, RegisteredInv, AgainWaits,
    Answered, ProvisionSucceeds
<1>10. ASSUME NEW w \in Writes, ProvisionFails(w) PROVE RegisteredInv'
  BY <1>10, SetStateIs DEF TypeInv, DataInv, LockInv, RegisteredInv, AgainWaits,
    Answered, Fault, Restore, Failed, ProvisionFails
<1>11. CASE AdvertiseAlready
  BY <1>11, AgainMovesUp, AgainGrows, AgainAtEnd DEF TypeInv, FlagsOK, DataInv,
    LockInv, RegisteredInv, AgainWaits, Changes, Answered, Release, Same, net, wifi,
    AdvertiseAlready
<1>12. CASE Unregister
  BY <1>12, AgainMovesUp, AgainGrows, AgainAtEnd DEF TypeInv, FlagsOK, DataInv,
    LockInv, RegisteredInv, AgainWaits, Changes, Answered, Release, Same, net, wifi,
    Unregister
<1>13. CASE Register
  BY <1>13, AgainMovesUp, AgainGrows, AgainAtEnd DEF TypeInv, FlagsOK, DataInv,
    LockInv, RegisteredInv, AgainWaits, Changes, Answered, Same, net, wifi, Register
<1>14. CASE Registered
  BY <1>14, AgainMovesUp, AgainGrows, AgainAtEnd DEF TypeInv, FlagsOK, DataInv,
    LockInv, RegisteredInv, AgainWaits, Changes, Answered, Release, Same, net, wifi,
    Registered
<1>15. CASE Refused
  BY <1>15, AgainMovesUp, AgainGrows, AgainAtEnd DEF TypeInv, FlagsOK, DataInv,
    LockInv, RegisteredInv, AgainWaits, Changes, Answered, Release, Same, net, wifi,
    Refused
<1>16. CASE TimedOut
  BY <1>16, AgainMovesUp, AgainGrows, AgainAtEnd DEF TypeInv, FlagsOK, DataInv,
    LockInv, RegisteredInv, AgainWaits, Changes, Answered, Fault, Release, Same, net,
    wifi, TimedOut
<1>17. CASE Turn
  <2> USE <1>17 DEF TypeInv, DataInv, LockInv, RegisteredInv, AgainWaits, Answered
  <2>1. PICK early \in BOOLEAN :
          \/ SetState("authorized", <<"on">>)
          \/ queue' = Append(queue, IF Want(early) THEN "on" ELSE "off") /\ UNCHANGED state
    BY DEF Turn
  <2>2. CASE SetState("authorized", <<"on">>)
    BY <2>2, SetStateIs DEF Turn
  <2>3. CASE queue' = Append(queue, IF Want(early) THEN "on" ELSE "off") /\ UNCHANGED state
    <3> DEFINE want == IF Want(early) THEN "on" ELSE "off"
    <3>1. want \in Changes
      BY DEF Changes
    <3>2. queue' = queue \o <<want>> /\ <<want>> \in Seq(Changes)
      BY <2>3, <3>1
    <3>3. \A k \in {1, 2} : AgainFrom(queue, k) => AgainFrom(queue', k)
      BY <3>2, AgainGrows
    <3> QED BY <2>3, <3>3 DEF Turn
  <2> QED BY <2>1, <2>2, <2>3
<1>18. CASE Recover
  BY <1>18, AgainMovesUp, AgainGrows, AgainAtEnd DEF TypeInv, FlagsOK, DataInv,
    LockInv, RegisteredInv, AgainWaits, Changes, Answered, Restarted, wifi, adv,
    Recover
<1>19. CASE Ends
  BY <1>19, AgainMovesUp, AgainGrows, AgainAtEnd DEF TypeInv, FlagsOK, DataInv,
    LockInv, RegisteredInv, AgainWaits, Changes, Answered, Ends
<1>20. CASE UNCHANGED vars
  BY <1>20, AgainMovesUp, AgainGrows, AgainAtEnd DEF TypeInv, FlagsOK, DataInv,
    LockInv, RegisteredInv, AgainWaits, Changes, Answered, vars, net, wifi, adv, loop
<1> QED
  BY <1>1, <1>2, <1>3, <1>4, <1>5, <1>6, <1>7, <1>8, <1>9, <1>10, <1>11, <1>12, <1>13,
    <1>14, <1>15, <1>16, <1>17, <1>18, <1>19, <1>20
  DEF Next, Provision, Advertise, Exits, Dies

-----------------------------------------------------------------------------
(* The theorems.                                                           *)

LEMMA InitInv == Init => ImprovInv
<1> SUFFICES ASSUME Init PROVE ImprovInv
  OBVIOUS
<1>1. FlagsOK
  BY DEF Init, FlagsOK
<1>2. DataInv
  BY ImprovAssumption DEF Init, DataInv, Tasks, Changes, NoTask
<1>3. AttemptInv
  BY DEF Init, AttemptInv, Active, NoTask
<1>4. LockInv /\ RegisteredInv
  BY DEF Init, LockInv, RegisteredInv
<1> QED BY <1>1, <1>2, <1>3, <1>4 DEF ImprovInv, TypeInv

LEMMA InvStep == ImprovInv /\ [Next]_vars => ImprovInv'
  BY FlagsStep, DataStep, AttemptStep, LockStep, RegisteredStep DEF ImprovInv, TypeInv

LEMMA Invariance == Spec => []ImprovInv
  BY InitInv, InvStep, PTL DEF Spec

\* The type invariant of Improv.
THEOREM SetupTyped == Spec => []TypeOK
<1>1. ImprovInv => TypeOK
  BY DEF ImprovInv, TypeInv, DataInv, TypeOK, Tasks, Changes
<1> QED BY <1>1, Invariance, PTL

\* However the main loop's changes of the advertisement and those of the
\* tasks queue up behind adv_lock, and however often the state changes while
\* BlueZ reads it: once the queue is empty, bluetoothd has the state of now,
\* or nothing if the program advertises nothing.
THEOREM AdvertisementFollows == Spec => []AdvertisementAgrees
<1>1. ImprovInv => AdvertisementAgrees
  <2> SUFFICES ASSUME ImprovInv, queue = <<>>, ~bluez.new, Answered
               PROVE  bluez.reg = IF advertising THEN state ELSE "none"
    BY DEF AdvertisementAgrees
  <2>1. step = "acquire" /\ ~AgainWaits
    BY DEF ImprovInv, LockInv, AgainWaits, AgainFrom, TypeInv, DataInv
  <2> QED BY <2>1 DEF ImprovInv, RegisteredInv
<1> QED BY <1>1, Invariance, PTL

\* With no attempt under way the saved settings are the ones that worked
\* last, unless attempts overlapped, one was cut off or the card refused the
\* write.
THEOREM WorkingSettingsStay == Spec => []WorkingKept
<1>1. ImprovInv => WorkingKept
  BY DEF ImprovInv, AttemptInv, WorkingKept
<1> QED BY <1>1, Invariance, PTL

=============================================================================
