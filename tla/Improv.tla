------------------------------- MODULE Improv -------------------------------
(***************************************************************************)
(* Wi-Fi setup over Bluetooth (bin/epilykos-improv and epilykos_wifi.py):  *)
(* an asyncio program.  Its main loop decides every ten seconds whether    *)
(* setup is offered, each settings packet of a phone runs a `provision'    *)
(* task, each change of the state a `readvertise' task; they interleave    *)
(* at their awaits, and advertising changes queue behind adv_lock.         *)
(*                                                                         *)
(* One Wi-Fi network: what matters is whether its saved password is the    *)
(* router's.  Timers are flags that fall after a while.  D-Bus calls to    *)
(* bluetoothd may be refused, or get no answer in time.                    *)
(***************************************************************************)
EXTENDS Integers, Sequences

CONSTANTS
  MaxWrites,     \* settings packets the phone sends
  ADV_FAILURES_BEFORE_RESET

ASSUME ImprovAssumption ==
  /\ MaxWrites \in Nat
  /\ ADV_FAILURES_BEFORE_RESET \in Nat \ {0}

Writes == 1..MaxWrites

VARIABLES
  online,        \* an interface has an address
  window,        \* the dashboard window is open
  offline_since, \* "none", "short", or "long" past OFFLINE_GRACE_S
  saved,         \* the known-network file: "none", "right", "wrong"
  worked,        \* (history) the settings a failed attempt has to keep; "any" once
                 \* attempts overlapped, one was cut off or the disk refused
  state,         \* "authorized", "provisioning", "provisioned"
  task,          \* the provision task of each packet
  advertising,   \* what the program thinks
  queue,         \* advertising changes: the head holds adv_lock
  step,          \* where the head is: "acquire", "register", "reply"
  main,          \* the main loop: "sleep", "waits" for its change, "failed"
  adv_failures,
  recent,        \* the reset file is younger than BLUEZ_RESET_INTERVAL_S
  bluez,         \* reg: the state it advertises or "none"; stuck; new owner
  fault          \* the fault that happened, at most one

net == <<online, window, recent>>
wifi == <<saved, worked>>
adv == <<advertising, queue, step>>
loop == <<main, adv_failures, offline_since>>
vars == <<net, wifi, state, task, adv, loop, bluez, fault>>

NoTask == [at |-> "none", password |-> "none", previous |-> "none"]
Ended == [NoTask EXCEPT !.at = "ended"]

Init ==
  /\ online \in BOOLEAN /\ window = FALSE /\ recent = FALSE
  /\ saved \in {"none", "right"} /\ worked = saved
  /\ state = "authorized" /\ task = [w \in Writes |-> NoTask]
  /\ advertising = FALSE /\ queue = <<>> /\ step = "acquire"
  /\ main = "sleep" /\ adv_failures = 0 /\ offline_since = "none"
  /\ bluez = [reg |-> "none", stuck |-> FALSE, new |-> FALSE]
  /\ fault = "none"

Fault(what) == fault = "none" /\ fault' = what

Active == {w \in Writes : task[w].at = "joining"}

-----------------------------------------------------------------------------
(* The world.                                                              *)

NetworkChanges ==
  /\ online' = ~online
  /\ UNCHANGED <<window, recent, wifi, state, task, adv, loop, bluez, fault>>

WindowOpens ==
  /\ ~window
  /\ window' = TRUE
  /\ UNCHANGED <<online, recent, wifi, state, task, adv, loop, bluez, fault>>

\* Time passes: a window ends, the network has been gone for long.
Expires ==
  /\ \/ window /\ window' = FALSE /\ UNCHANGED offline_since
     \/ offline_since = "short" /\ offline_since' = "long" /\ UNCHANGED window
  /\ UNCHANGED <<online, recent, wifi, state, task, adv, main, adv_failures, bluez, fault>>

ResetAges ==
  /\ recent
  /\ recent' = FALSE
  /\ UNCHANGED <<online, window, wifi, state, task, adv, loop, bluez, fault>>

\* bluetoothd ends and is started again; its registrations are gone.
Restarted == [reg |-> "none", stuck |-> FALSE, new |-> TRUE]

BluezRestarts ==
  /\ Fault("restart")
  /\ bluez' = Restarted
  /\ UNCHANGED <<net, wifi, state, task, adv, loop>>

\* Its advertising slots are used up, and not given back.
BluezSticks ==
  /\ Fault("stuck")
  /\ bluez' = [bluez EXCEPT !.stuck = TRUE]
  /\ UNCHANGED <<net, wifi, state, task, adv, loop>>

-----------------------------------------------------------------------------
(* Provisioning.                                                           *)

\* Mutant: only a program that advertises has something to re-register.
ReadvertiseIfOn(s) == IF s # state /\ advertising THEN <<"again">> ELSE <<>>

\* set_state's tail: a readvertise task, always queued.
Readvertise(s) == IF s # state THEN <<"again">> ELSE <<>>

\* set_state: the characteristic, the advertisement's data, the task, which
\* gets in line for adv_lock after `first'.
SetState(s, first) == state' = s /\ queue' = queue \o first \o Readvertise(s)

\* The settings of a packet that was put together from its writes and decodes:
\* a password the router accepts, or another one.
Settings == {"right", "wrong"}

\* A complete packet is written.  One with bad framing, or of another
\* command, or settings that do not validate, change nothing; one that comes
\* while provisioning is ignored.
OnRpcWrite(w, p) ==
  /\ task[w].at = "none" /\ \A v \in 1..(w - 1) : task[v].at # "none"
  /\ task' = [task EXCEPT ![w] = IF state = "provisioning" THEN Ended
                                 ELSE [at |-> "spawned", password |-> p, previous |-> "none"]]
  /\ UNCHANGED <<net, wifi, state, adv, loop, bluez, fault>>

\* The task up to its first await: remember the saved file, replace it.
ProvisionBegins(w) ==
  /\ task[w].at = "spawned"
  /\ SetState("provisioning", <<>>)
  /\ task' = [task EXCEPT ![w] = [at |-> "joining", password |-> "none", previous |-> saved]]
  /\ saved' = task[w].password
  /\ worked' = IF Active = {} THEN worked ELSE "any"
  /\ UNCHANGED <<net, advertising, step, loop, bluez, fault>>

\* join() may get an address; whatever the password is, it may also fail (not
\* in range, a busy iwd, slow DHCP) after JOIN_ATTEMPTS.
Joins == saved = "right"

ProvisionSucceeds(w) ==
  /\ task[w].at = "joining" /\ Joins
  /\ task' = [task EXCEPT ![w] = Ended]
  /\ online' = TRUE /\ window' = FALSE
  /\ worked' = IF worked = "any" THEN worked ELSE saved
  /\ SetState("provisioned", <<>>)
  /\ UNCHANGED <<recent, saved, advertising, step, loop, bluez, fault>>

\* Mutant: the new settings stay.
RestoreNothing(w) == UNCHANGED <<saved, worked, fault>>

\* restore_network: remove, then write back; the write may fail.
Restore(w) ==
  \/ saved' = task[w].previous /\ UNCHANGED <<worked, fault>>
  \/ Fault("disk") /\ saved' = "none" /\ worked' = "any"

\* Mutant: an error nobody thought of leaves the state as it is.
FailedStays == state

\* The state the phone sees after a failure.
Failed == "authorized"

\* Not in range, refused, no address, or any other error.
ProvisionFails(w) ==
  /\ task[w].at = "joining"
  /\ task' = [task EXCEPT ![w] = Ended]
  /\ Restore(w)
  /\ SetState(Failed, <<>>)
  /\ UNCHANGED <<net, advertising, step, loop, bluez>>

-----------------------------------------------------------------------------
(* Advertising: one change at a time, in the order of the lock's queue.    *)

\* The head's change is over; the main loop goes on when it was its own.
Release(failed) ==
  /\ queue' = Tail(queue) /\ step' = "acquire"
  /\ IF Head(queue) = "again" THEN UNCHANGED <<main, adv_failures>>
     ELSE /\ main' = IF failed THEN "failed" ELSE "sleep"
          /\ adv_failures' = IF ~failed THEN 0
                             ELSE IF adv_failures = ADV_FAILURES_BEFORE_RESET THEN adv_failures
                             ELSE adv_failures + 1

Same == UNCHANGED <<net, wifi, state, task, offline_since>>

\* Nothing to change.
AdvertiseAlready ==
  /\ queue # <<>> /\ step = "acquire"
  /\ advertising = (Head(queue) = "on")
  /\ Release(FALSE)
  /\ UNCHANGED <<advertising, bluez, fault>> /\ Same

\* _unregister_all, whatever BlueZ answers.
Unregister ==
  /\ queue # <<>> /\ step = "acquire"
  /\ advertising # (Head(queue) = "on")
  /\ bluez' = [bluez EXCEPT !.reg = "none"]
  /\ advertising' = FALSE
  /\ IF Head(queue) = "off" THEN Release(FALSE)
     ELSE step' = "register" /\ UNCHANGED <<queue, main, adv_failures>>
  /\ UNCHANGED fault /\ Same

\* BlueZ reads the advertisement once, while it registers it ...
Register ==
  /\ queue # <<>> /\ step = "register" /\ ~bluez.stuck
  /\ bluez' = [bluez EXCEPT !.reg = state]
  /\ step' = "reply"
  /\ UNCHANGED <<advertising, queue, main, adv_failures, fault>> /\ Same

\* ... and answers.
Registered ==
  /\ queue # <<>> /\ step = "reply"
  /\ advertising' = TRUE
  /\ Release(FALSE)
  /\ UNCHANGED <<bluez, fault>> /\ Same

\* "Maximum advertisements reached".
Refused ==
  /\ queue # <<>> /\ step = "register" /\ bluez.stuck
  /\ Release(TRUE)
  /\ UNCHANGED <<advertising, bluez, fault>> /\ Same

\* No answer: the change is given up, whether or not it happened.
TimedOut ==
  /\ queue # <<>> /\ Fault("timeout")
  /\ \/ /\ step = "acquire" /\ advertising # (Head(queue) = "on")
        /\ bluez' \in {bluez, [bluez EXCEPT !.reg = "none"]}
     \/ /\ step = "register"
        /\ bluez' \in {bluez, [bluez EXCEPT !.reg = state]}
     \/ step = "reply" /\ UNCHANGED bluez
  \* The call for the name, the second one, is made with advertising set.
  /\ advertising' \in IF step = "reply" THEN BOOLEAN ELSE {advertising}
  /\ Release(TRUE)
  /\ Same

-----------------------------------------------------------------------------
(* The main loop.                                                          *)

\* Mutant: a box without an address and without a network has time.
WantGraceAlways(early) ==
  IF state = "provisioning" THEN advertising
  ELSE \/ window
       \/ ~online /\ saved # "none" /\ offline_since = "long"
       \/ online /\ early /\ saved = "none"

\* Mutant: setup stays offered while it is used.
WantWhileOn(early) ==
  IF state = "provisioning" THEN advertising
  ELSE \/ window
       \/ ~online /\ (saved = "none" \/ offline_since = "long")
       \/ online /\ (advertising \/ (early /\ saved = "none"))

\* should_advertise's answer, within or after SETUP_WINDOW_S of the start.
Want(early) ==
  IF state = "provisioning" THEN advertising
  ELSE \/ window
       \/ ~online /\ (saved = "none" \/ offline_since = "long")
       \/ online /\ early /\ saved = "none"

\* Its side effect, which an early return skips.
NextOffline ==
  IF state = "provisioning" \/ window THEN offline_since
  ELSE IF online THEN "none"
  ELSE IF offline_since = "none" THEN "short" ELSE offline_since

Turn ==
  /\ main = "sleep" /\ ~bluez.new
  /\ offline_since' = NextOffline
  /\ \E early \in BOOLEAN :
       IF Want(early) /\ state = "provisioned" /\ (~online \/ window)
       THEN SetState("authorized", <<"on">>)
       ELSE queue' = Append(queue, IF Want(early) THEN "on" ELSE "off") /\ UNCHANGED state
  /\ main' = "waits"
  /\ UNCHANGED <<net, wifi, task, advertising, step, adv_failures, bluez, fault>>

\* update_advertising after a failure.  When BlueZ kept refusing, bluetoothd
\* is restarted, at most once in BLUEZ_RESET_INTERVAL_S.
Recover ==
  /\ main = "failed" /\ main' = "sleep"
  /\ IF adv_failures = ADV_FAILURES_BEFORE_RESET /\ ~recent
     THEN recent' = TRUE /\ bluez' = Restarted
     ELSE UNCHANGED <<recent, bluez>>
  /\ UNCHANGED <<online, window, wifi, state, task, adv, adv_failures,
                 offline_since, fault>>

\* The program ends, its tasks are cancelled where they are, and systemd
\* starts it again; bluetoothd drops what the old one had registered.
Ends ==
  /\ main = "sleep"
  /\ worked' = IF Active = {} THEN worked ELSE "any"
  /\ task' = [w \in Writes |-> IF task[w] = NoTask THEN NoTask ELSE Ended]
  /\ state' = "authorized"
  /\ advertising' = FALSE /\ queue' = <<>> /\ step' = "acquire"
  /\ adv_failures' = 0 /\ offline_since' = "none"
  /\ bluez' = [bluez EXCEPT !.reg = "none", !.new = FALSE]
  /\ UNCHANGED <<online, window, recent, saved, main>>

\* bluetoothd has another owner.
Exits == bluez.new /\ Ends /\ UNCHANGED fault

\* name_owner gets no answer, which main does not catch.
Dies == Fault("timeout") /\ Ends

Provision(w) == ProvisionBegins(w) \/ ProvisionSucceeds(w) \/ ProvisionFails(w)

Advertise == AdvertiseAlready \/ Unregister \/ Register \/ Registered \/ Refused \/ TimedOut

Next ==
  \/ NetworkChanges \/ WindowOpens \/ Expires \/ ResetAges \/ BluezRestarts \/ BluezSticks
  \/ \E w \in Writes, p \in Settings : OnRpcWrite(w, p)
  \/ \E w \in Writes : Provision(w)
  \/ Advertise
  \/ Turn \/ Recover \/ Exits \/ Dies

\* The event loop runs what is ready, every await is bounded, timers end.
Fairness ==
  /\ WF_vars(Turn) /\ WF_vars(Recover) /\ WF_vars(Exits)
  /\ WF_vars(Advertise)
  /\ WF_vars(ResetAges)
  /\ \A w \in Writes : WF_vars(Provision(w))

Spec == Init /\ [][Next]_vars /\ Fairness

-----------------------------------------------------------------------------
FlagsOK == {online, window, recent, advertising} \subseteq BOOLEAN

TypeOK ==
  /\ FlagsOK
  /\ offline_since \in {"none", "short", "long"}
  /\ saved \in {"none", "right", "wrong"} /\ worked \in {"none", "right", "any"}
  /\ state \in {"authorized", "provisioning", "provisioned"}
  /\ \A w \in Writes : task[w].at \in {"none", "spawned", "joining", "ended"}
  /\ queue \in Seq({"on", "off", "again"}) /\ step \in {"acquire", "register", "reply"}
  /\ main \in {"sleep", "waits", "failed"}
  /\ adv_failures \in 0..ADV_FAILURES_BEFORE_RESET
  /\ bluez.reg \in {"none", "authorized", "provisioning", "provisioned"}

Answered == fault # "timeout"

\* With no advertising change queued, bluetoothd holds what the program
\* thinks it holds, with the state of now, although a state may change while
\* BlueZ reads the advertisement and changes of several tasks queue up.
\* (Calls without an answer are the exception, see README.)
AdvertisementAgrees ==
  queue = <<>>  /\ ~bluez.new /\ Answered =>
    bluez.reg = IF advertising THEN state ELSE "none"

\* "A failed attempt with a mistyped password must not lose the settings
\* that worked" (epilykos_wifi.py:154): with no attempt under way the saved
\* settings are the ones that worked last, unless attempts overlapped, one
\* was cut off or the card refused the write.
WorkingKept == Active = {} => worked \in {saved, "any"}

\* "never leave the phone waiting on provisioning".
PhoneAnswered == (state = "provisioning") ~> (state # "provisioning")

\* A box without an address and without a network offers setup, although
\* BlueZ's slots get stuck (C-PROV-002).
SetupOpens ==
  [](Answered) /\ <>[](~online /\ saved = "none") => []<>(bluez.reg # "none")

\* A configured box that stays online stops offering setup once the window
\* of the dashboard has ended (C-PROV-002, "MUST reopen only").
SetupCloses ==
  [](Answered) /\ <>[](online /\ saved # "none" /\ ~window) => <>[](bluez.reg = "none")

\* Setup is offered when it is needed and not when it is not.
SetupFollows == SetupOpens /\ SetupCloses
=============================================================================
