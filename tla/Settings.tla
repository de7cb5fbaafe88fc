------------------------------ MODULE Settings ------------------------------
(***************************************************************************)
(* The settings kept on DATA and the actions of hostd that change them     *)
(* (epilykos_ssh.py, epilykos_port.py, epilykos_system.py, the regulatory  *)
(* country of epilykos_wifi.py), in threads that no lock orders.           *)
(*                                                                         *)
(* A thread is the sequence of writes and commands it has still to carry   *)
(* out; the boot import of module Provision is one of the threads.  A file *)
(* is replaced (a temporary file, fsync, rename), created or removed in    *)
(* one step; the country's is truncated and written in place.  The         *)
(* directory is not synced, so the file system commits the step some time  *)
(* later: disk is what it has committed, a state DATA was in before.       *)
(***************************************************************************)
EXTENDS Naturals, Sequences, FiniteSets

CONSTANTS
  Ssids, Keys, Hashes, Ports, Zones,
  ZoneCountry,    \* zone.tab: the country of a zone, or ""
  Threads,        \* hostd's
  MaxRequests, MaxFaults

Boot == "boot"    \* the import's thread
NoHash == "*"
NoNet == "none"

ASSUME SettingsAssumption ==
  /\ MaxRequests \in Nat /\ MaxFaults \in Nat
  /\ Boot \notin Threads /\ NoHash \notin Hashes
  /\ "UTC" \in Zones /\ "3000" \in Ports
  /\ DOMAIN ZoneCountry = Zones

VARIABLES
  data,       \* what DATA holds as programs see it
  disk,       \* what of it a power cut leaves
  shadow,     \* the epilykos entry of /run/epilykos/shadow
  sshd,       \* sshd runs
  radio,      \* the regulatory country set with iw, "" for the world rules
  app,        \* the port, zone and dashboard password the app was started with
  threads,    \* per thread, what it is about, what it has still to do and
              \* what it has read
  raced,      \* settings that two requests were changing at the same time
  faults, requests

settings == <<data, disk, shadow, sshd, radio, app, threads, raced, faults, requests>>

Fresh ==
  [nets |-> [s \in Ssids |-> NoNet], country |-> "", zone |-> "UTC", port |-> "3000",
   enabled |-> FALSE, hash |-> NoHash, keys |-> {}, password |-> "none", twostep |-> FALSE,
   done |-> "none"]
Idle == [about |-> "none", todo |-> <<>>, keys |-> {}, misread |-> FALSE, hash |-> NoHash]
NoApp == [port |-> "none", zone |-> "none", password |-> "none"]
Started == [port |-> data.port, zone |-> data.zone, password |-> data.password]

-----------------------------------------------------------------------------
(* What there is to do, as a record [do, arg].                             *)

Do(what, arg) == [do |-> what, arg |-> arg]

Saves == {"enabled", "hash", "nohash", "port", "zone", "country", "password", "twostep", "othernet", "net", "done"}
Commands == {"start", "stop", "radio", "restart"}

Write(o) ==
  CASE o.do = "enabled" -> [data EXCEPT !.enabled = o.arg]
    [] o.do = "hash" -> [data EXCEPT !.hash = o.arg]
    [] o.do = "nohash" -> [data EXCEPT !.hash = NoHash]
    [] o.do = "port" -> [data EXCEPT !.port = o.arg]
    [] o.do = "zone" -> [data EXCEPT !.zone = o.arg]
    [] o.do = "password" -> [data EXCEPT !.password = o.arg]
    [] o.do = "twostep" -> [data EXCEPT !.twostep = FALSE]
    [] o.do = "country" -> [data EXCEPT !.country = o.arg]
    \* the known-network file of the other type (open or with a password)
    [] o.do = "othernet" ->
         [data EXCEPT !.nets[o.arg.ssid] = IF (@ = "") = (o.arg.pass = "") THEN @ ELSE NoNet]
    [] o.do = "net" -> [data EXCEPT !.nets[o.arg.ssid] = o.arg.pass]
    [] o.do = "done" -> [data EXCEPT !.done = o.arg]

\* add_key and remove_key, write_shadow.
KeyOps(what, k) == <<Do("read_keys", k), Do(what, k)>>
ShadowOps == <<Do("read_hash", ""), Do("write_shadow", "")>>

\* A country of the Wi-Fi settings wins over the zone's.
effective_country(d) == IF d.country # "" THEN d.country ELSE ZoneCountry[d.zone]

Doing(t) == Head(threads[t].todo)
Busy(t) == threads[t].todo # <<>>
Then(t, rest) == threads' = [threads EXCEPT ![t].todo = rest]
Done1(t) == Then(t, Tail(threads[t].todo))

-----------------------------------------------------------------------------
(* Steps of a thread.                                                      *)

\* What the file system may have committed when DATA has become d: a new
\* country's file without its text, too.
Commits(d) ==
  {disk, d} \cup IF d.country # data.country THEN {[d EXCEPT !.country = ""]} ELSE {}
Becomes(d) == data' = d /\ disk' \in Commits(d)

Save(t) ==
  /\ Busy(t) /\ Doing(t).do \in Saves
  /\ Becomes(Write(Doing(t)))
  /\ Done1(t)
  /\ UNCHANGED <<shadow, sshd, radio, app, raced, faults, requests>>

\* A key that is there is not added again; one that is not there is not
\* removed (SshError).
Read(t, keys) ==
  LET adds == threads[t].todo[2].do = "add_key" IN
  threads' = [threads EXCEPT
    ![t].keys = keys, ![t].misread = keys # data.keys,
    ![t].todo = IF adds = (Doing(t).arg \in keys) THEN SubSeq(@, 3, Len(@)) ELSE Tail(@)]

ReadKeys(t) ==
  /\ Busy(t) /\ Doing(t).do = "read_keys"
  /\ Read(t, data.keys)
  /\ UNCHANGED <<data, disk, shadow, sshd, radio, app, raced, faults, requests>>

\* Mutant: the keys that were read are not written back.
WriteKeysAlone(t) ==
  /\ Busy(t) /\ Doing(t).do \in {"add_key", "remove_key"}
  /\ Becomes([data EXCEPT !.keys = IF Doing(t).do = "add_key" THEN {Doing(t).arg} ELSE threads[t].keys \ {Doing(t).arg}])
  /\ Done1(t)
  /\ UNCHANGED <<shadow, sshd, radio, app, raced, faults, requests>>

\* _write_keys with the keys as they were read.
WriteKeys(t) ==
  /\ Busy(t) /\ Doing(t).do \in {"add_key", "remove_key"}
  /\ Becomes([data EXCEPT !.keys =
       IF Doing(t).do = "add_key" THEN threads[t].keys \cup {Doing(t).arg} ELSE threads[t].keys \ {Doing(t).arg}])
  /\ Done1(t)
  /\ UNCHANGED <<shadow, sshd, radio, app, raced, faults, requests>>

\* write_shadow reads password.hash and then rewrites the file in /run.
ReadHash(t) ==
  /\ Busy(t) /\ Doing(t).do = "read_hash"
  /\ threads' = [threads EXCEPT ![t].hash = data.hash, ![t].todo = Tail(@)]
  /\ UNCHANGED <<data, disk, shadow, sshd, radio, app, raced, faults, requests>>

WriteShadow(t) ==
  /\ Busy(t) /\ Doing(t).do = "write_shadow"
  /\ shadow' = threads[t].hash
  /\ Done1(t)
  /\ UNCHANGED <<data, disk, sshd, radio, app, raced, faults, requests>>

\* systemctl start (ConditionPathExists), stop, restart of the app; iw.
Command(t) ==
  /\ Busy(t) /\ Doing(t).do \in Commands
  /\ sshd' = CASE Doing(t).do = "start" -> sshd \/ data.enabled
               [] Doing(t).do = "stop" -> FALSE
               [] OTHER -> sshd
  /\ radio' = IF Doing(t).do = "radio" /\ effective_country(data) # "" THEN effective_country(data) ELSE radio
  /\ app' = IF Doing(t).do = "restart" THEN Started ELSE app
  /\ Done1(t)
  /\ UNCHANGED <<data, disk, shadow, raced, faults, requests>>

\* What a write that is cut short may leave.
Torn(t) ==
  IF Busy(t) /\ Doing(t).do = "country" THEN {data, [data EXCEPT !.country = ""]} ELSE {data}

Reads == {"read_keys", "read_hash"}

\* A write raises and ends the thread; a command's failure is not looked at.
Fails(t) ==
  /\ Busy(t) /\ Doing(t).do \notin Reads
  /\ faults < MaxFaults /\ faults' = faults + 1
  /\ Then(t, IF Doing(t).do \in Commands THEN Tail(threads[t].todo) ELSE <<>>)
  /\ \E d \in Torn(t) : Becomes(d)
  /\ UNCHANGED <<shadow, sshd, radio, app, raced, requests>>

\* A file that cannot be read passes for an empty one: no keys, no password.
ReadFails(t) ==
  /\ Busy(t)
  /\ faults < MaxFaults /\ faults' = faults + 1
  /\ \/ Doing(t).do = "read_keys" /\ Read(t, {})
     \/ Doing(t).do = "read_hash"
        /\ threads' = [threads EXCEPT ![t].hash = NoHash, ![t].todo = Tail(@)]
  /\ UNCHANGED <<data, disk, shadow, sshd, radio, app, raced, requests>>

\* hostd is killed and restarted: threads and timers are gone.
HostdDies ==
  /\ \E t \in Threads : Busy(t)
  /\ faults < MaxFaults /\ faults' = faults + 1
  /\ threads' = [t \in DOMAIN threads |-> IF t \in Threads THEN Idle ELSE threads[t]]
  /\ UNCHANGED <<data, disk, shadow, sshd, radio, app, raced, requests>>

ThreadStep(t) ==
  Save(t) \/ ReadKeys(t) \/ WriteKeys(t) \/ ReadHash(t) \/ WriteShadow(t) \/ Command(t)

-----------------------------------------------------------------------------
(* Requests of the dashboard.                                              *)

Begin(t, about, todo) ==
  /\ ~Busy(t) /\ requests < MaxRequests
  /\ requests' = requests + 1
  /\ threads' = [threads EXCEPT ![t] = [Idle EXCEPT !.about = about, !.todo = todo]]
  /\ raced' = IF \E u \in Threads : Busy(u) /\ threads[u].about = about THEN raced \cup {about} ELSE raced
  /\ UNCHANGED <<data, disk, shadow, sshd, radio, app, faults>>

ssh_enable(t) == Begin(t, "ssh", <<Do("enabled", TRUE), Do("start", "")>>)

\* Mutant: sshd is stopped before SSH is off.
ssh_disable_stops_first(t) == Begin(t, "ssh", <<Do("stop", ""), Do("enabled", FALSE)>>)

ssh_disable(t) == Begin(t, "ssh", <<Do("enabled", FALSE), Do("stop", "")>>)

ssh_set_password(t, h) == Begin(t, "password", <<Do("hash", h)>> \o ShadowOps)

ssh_clear_password(t) == Begin(t, "password", <<Do("nohash", "")>> \o ShadowOps)

ssh_add_key(t, k) == Begin(t, "keys", KeyOps("add_key", k))

ssh_remove_key(t, k) == Begin(t, "keys", KeyOps("remove_key", k))

\* The port that is set already needs no restart.
set_port(t, p) ==
  /\ p # data.port
  /\ Begin(t, "port", <<Do("port", p), Do("restart", "")>>)

\* With `restart' left at its default.
set_timezone(t, z) ==
  Begin(t, "zone", <<Do("zone", z)>> \o
    IF z # data.zone THEN <<Do("radio", ""), Do("restart", "")>> ELSE <<>>)

\* epilykos-reset-password, a program of its own.
reset_password(t) ==
  Begin(t, "dashboard", <<Do("password", "reset"), Do("twostep", ""), Do("restart", "")>>)

Request(t) ==
  \/ ssh_enable(t) \/ ssh_disable(t) \/ ssh_clear_password(t) \/ reset_password(t)
  \/ \E h \in Hashes : ssh_set_password(t, h)
  \/ \E k \in Keys : ssh_add_key(t, k) \/ ssh_remove_key(t, k)
  \/ \E p \in Ports : set_port(t, p)
  \/ \E z \in Zones : set_timezone(t, z)

=============================================================================
