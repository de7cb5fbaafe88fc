---------------------------- MODULE PairingProofs ----------------------------
(***************************************************************************)
(* Proofs about Bluetooth pairing (Pairing), for any devices and any       *)
(* number of requests, restarts of bluetoothd and lost calls.              *)
(***************************************************************************)
EXTENDS Pairing, TLAPS

-----------------------------------------------------------------------------
(* The inductive invariant.                                                *)

MaybeDevices == Devices \cup {NoDevice}
Places ==
  Closing \cup Opening \cup Looking \cup Starting
    \cup {"idle", "done", "remove", "recover", "given up", "loop"}

PairTask ==
  [at : {"none", "new", "pairing", "trust", "done"}, dev : MaybeDevices,
   reply : {"none", "ok", "failed"}]
Coroutine ==
  [op : {"none", "open", "close", "serve", "abort"}, at : Places, dev : MaybeDevices]

TypeInv ==
  /\ window \in {"shut", "open", "over"}
  /\ selected \in MaybeDevices
  /\ task \in 0..MaxRequests
  /\ tasks \in [Requests -> PairTask]
  /\ proc \in [Procs -> Coroutine]
  /\ pairs \in [Devices -> 0..MaxRequests]

\* Who looks a device up, cancels its pairing or removes it has one.
DeviceInv ==
  \A p \in Procs : proc[p].at \in Looking \cup {"cancelling", "remove"} => proc[p].dev \in Devices

\* A do_pair task that has not ended is the manager's, and its device is the
\* one that is selected.
Unended(r) == tasks[r].at \in {"new", "pairing", "trust"}
TaskInv == \A r \in Requests : Unended(r) => r = task /\ selected # NoDevice

\* Once the window is shut the prompt is gone; a task that is still paired by
\* bluetoothd is about to be cancelled, or its close was given up.
Waits(r) == tasks[r].at \in {"pairing", "trust"}
Cancels(p) == proc[p].at \in {"cancelling", "given up"}
ShutInv ==
  window = "shut" =>
    /\ pending = NoPrompt
    /\ (\E r \in Requests : Waits(r)) => \E p \in Procs : Cancels(p)

PairInv == TypeInv /\ DeviceInv /\ (~replaced => TaskInv /\ ShutInv)

-----------------------------------------------------------------------------
(* What the parts of the methods do to the coroutines and the tasks.       *)

\* A coroutine that goes to another await, or ends, leaves the others alone.
LEMMA GotoIs ==
  ASSUME TypeInv, NEW p \in Procs, NEW where \in Places, Goto(p, where)
  PROVE  /\ proc' \in [Procs -> Coroutine]
         /\ proc'[p].at = where /\ proc'[p].dev = proc[p].dev
         /\ \A q \in Procs \ {p} : proc'[q] = proc[q]
  BY DEF TypeInv, Goto, Coroutine

LEMMA SetProcIs ==
  ASSUME TypeInv, NEW p \in Procs, NEW c \in Coroutine, proc' = [proc EXCEPT ![p] = c]
  PROVE  /\ proc' \in [Procs -> Coroutine] /\ proc'[p] = c
         /\ \A q \in Procs \ {p} : proc'[q] = proc[q]
  BY DEF TypeInv

LEMMA NewProcIs ==
  ASSUME NEW where \in Places
  PROVE  /\ NewProc(where) \in Coroutine
         /\ NewProc(where).at = where
  BY DEF NewProc, Coroutine, MaybeDevices

LEMMA DoneIs ==
  ASSUME TypeInv, NEW p \in Procs, Done(p)
  PROVE  /\ proc' \in [Procs -> Coroutine] /\ proc'[p].at = "done"
         /\ \A q \in Procs \ {p} : proc'[q] = proc[q]
<1>1. "done" \in Places
  BY DEF Places
<1> QED BY <1>1, NewProcIs, SetProcIs DEF Done

\* BlueZ's answer to a Pair call does not move the task by itself.
LEMMA RepliedIs ==
  ASSUME TypeInv, NEW d \in Devices, NEW reply \in {"ok", "failed"}
  PROVE  /\ Replied(d, reply) \in [Requests -> PairTask]
         /\ \A r \in Requests : Replied(d, reply)[r].at = tasks[r].at
<1> DEFINE r == pairs[d]
<1>1. r \in 0..MaxRequests
  BY DEF TypeInv
<1>2. CASE r = 0
  BY <1>2 DEF TypeInv, Replied
<1>3. CASE r # 0
  <2>1. r \in Requests
    BY <1>1, <1>3, PairingAssumption DEF Requests
  <2>2. Replied(d, reply) = [tasks EXCEPT ![r].reply = reply]
    BY <1>3 DEF Replied
  <2> QED BY <2>1, <2>2 DEF TypeInv, PairTask
<1> QED BY <1>2, <1>3

\* cancel: the manager's task has ended, the others are where they were.
LEMMA CancelTaskIs ==
  ASSUME TypeInv, NEW ts \in [Requests -> PairTask], CancelTask(ts),
         \A r \in Requests : ts[r].at = tasks[r].at
  PROVE  /\ selected' = NoDevice /\ tasks' \in [Requests -> PairTask]
         /\ \A r \in Requests :
              tasks'[r].at = IF r = task /\ Unended(r) THEN "done" ELSE tasks[r].at
<1>1. task \in Requests \/ task = 0
  BY PairingAssumption DEF TypeInv, Requests
<1>2. CASE Live(task)
  <2>1. task \in Requests /\ tasks' = [ts EXCEPT ![task].at = "done"]
    BY <1>1, <1>2 DEF Live, CancelTask
  <2>2. tasks' \in [Requests -> PairTask] /\ tasks'[task].at = "done"
    BY <2>1 DEF PairTask
  <2>3. \A r \in Requests \ {task} : tasks'[r] = ts[r]
    BY <2>1
  <2> QED BY <1>2, <2>1, <2>2, <2>3 DEF Live, CancelTask, Unended
<1>3. CASE ~Live(task)
  <2>1. ~(task \in Requests /\ Unended(task))
    BY <1>3, PairingAssumption DEF Live, Unended, Requests
  <2> QED BY <1>3, <2>1 DEF CancelTask
<1> QED BY <1>2, <1>3

\* do_pair's end.
LEMMA EndTaskIs ==
  ASSUME TypeInv, NEW r \in Requests, NEW outcome, EndTask(r, outcome)
  PROVE  /\ selected' = NoDevice /\ pending' = NoPrompt
         /\ tasks' \in [Requests -> PairTask] /\ tasks'[r].at = "done"
         /\ \A s \in Requests \ {r} : tasks'[s] = tasks[s]
  BY DEF TypeInv, EndTask, cancel_pending, PairTask

\* close shuts the window; without a device to cancel it ends the task at
\* once, else it waits for CancelPairing.
LEMMA CloseIs ==
  ASSUME TypeInv, NEW p \in Procs, NEW op \in {"open", "close", "serve", "abort"}, close(p, op)
  PROVE  /\ window' = "shut" /\ pending' = NoPrompt /\ task' = task
         /\ proc' \in [Procs -> Coroutine] /\ tasks' \in [Requests -> PairTask]
         /\ \A q \in Procs \ {p} : proc'[q] = proc[q]
         /\ selected' \in {selected, NoDevice}
         /\ \/ /\ selected = NoDevice /\ selected' = NoDevice /\ proc'[p].at = "unpair"
               /\ \A r \in Requests :
                    tasks'[r].at = IF r = task /\ Unended(r) THEN "done" ELSE tasks[r].at
            \/ /\ selected # NoDevice /\ proc'[p].at = "cancelling" /\ proc'[p].dev = selected
               /\ UNCHANGED <<selected, tasks>>
<1>0. {"unpair", "cancelling"} \subseteq Places
  BY DEF Places, Closing
<1>1. window' = "shut" /\ pending' = NoPrompt /\ task' = task
  BY DEF close, cancel_pending
<1>2. CASE selected = NoDevice
  <2>1. [op |-> op, at |-> "unpair", dev |-> NoDevice] \in Coroutine
    BY <1>0 DEF Coroutine, MaybeDevices
  <2>2. /\ proc' = [proc EXCEPT ![p] = [op |-> op, at |-> "unpair", dev |-> NoDevice]]
        /\ CancelTask(tasks)
    BY <1>2 DEF close
  <2>3. tasks \in [Requests -> PairTask]
    BY DEF TypeInv
  <2>4. /\ proc' \in [Procs -> Coroutine] /\ proc'[p].at = "unpair"
        /\ \A q \in Procs \ {p} : proc'[q] = proc[q]
    BY <2>1, <2>2, SetProcIs
  <2> QED BY <1>1, <1>2, <2>2, <2>3, <2>4, CancelTaskIs
<1>3. CASE selected # NoDevice
  <2>1. [op |-> op, at |-> "cancelling", dev |-> selected] \in Coroutine
    BY <1>0 DEF Coroutine, TypeInv
  <2>2. /\ proc' = [proc EXCEPT ![p] = [op |-> op, at |-> "cancelling", dev |-> selected]]
        /\ UNCHANGED <<selected, tasks>>
    BY <1>3 DEF close
  <2>3. /\ proc' \in [Procs -> Coroutine]
        /\ proc'[p].at = "cancelling" /\ proc'[p].dev = selected
        /\ \A q \in Procs \ {p} : proc'[q] = proc[q]
    BY <2>1, <2>2, SetProcIs
  <2> QED BY <1>1, <1>3, <2>2, <2>3 DEF TypeInv
<1> QED BY <1>2, <1>3

\* bluetoothd's restart fails the Pair calls; the tasks have yet to see it.
LEMMA RestartedIs ==
  ASSUME TypeInv, Restarted
  PROVE  /\ tasks' \in [Requests -> PairTask] /\ pairs' \in [Devices -> 0..MaxRequests]
         /\ \A r \in Requests : tasks'[r].at = tasks[r].at
         /\ pending' \in {pending, NoPrompt}
         /\ UNCHANGED <<window, selected, task>>
<1>1. \A r \in Requests : [tasks[r] EXCEPT !.reply = "failed"] \in PairTask
                          /\ [tasks[r] EXCEPT !.reply = "failed"].at = tasks[r].at
                          /\ tasks[r] \in PairTask
  BY DEF TypeInv, PairTask
<1>2. /\ tasks' \in [Requests -> PairTask]
      /\ \A r \in Requests : tasks'[r].at = tasks[r].at
  BY <1>1 DEF Restarted
<1>3. pairs' \in [Devices -> 0..MaxRequests]
  BY PairingAssumption DEF Restarted
<1> QED BY <1>2, <1>3 DEF Restarted

\* Another manager: nothing is left of what the old one was doing.
LEMMA StartOverIs ==
  ASSUME TypeInv, StartOver
  PROVE  /\ window' = "shut" /\ selected' = NoDevice /\ task' = 0 /\ pending' = NoPrompt
         /\ tasks' \in [Requests -> PairTask] /\ pairs' \in [Devices -> 0..MaxRequests]
         /\ \A r \in Requests : tasks'[r].at = "none"
         /\ proc' \in [Procs -> Coroutine]
         /\ \A p \in Procs : proc'[p].at \in {"idle", "recover", "connect", "done"}
<1>0. {"connect", "done"} \subseteq Places
  BY DEF Places, Starting
<1>1. /\ tasks' \in [Requests -> PairTask]
      /\ \A r \in Requests : tasks'[r].at = "none"
  BY DEF StartOver, NoTask, PairTask, MaybeDevices
<1>2. pairs' \in [Devices -> 0..MaxRequests]
  BY PairingAssumption DEF StartOver
<1>3. ASSUME NEW p \in Procs
      PROVE  proc'[p] \in Coroutine /\ proc'[p].at \in {"idle", "recover", "connect", "done"}
  <2>1. proc[p] \in Coroutine
    BY DEF TypeInv
  <2>2. proc'[p] = IF p = Serve THEN NewProc("connect")
                   ELSE IF proc[p].at \in {"idle", "recover"} THEN proc[p] ELSE NewProc("done")
    BY DEF StartOver
  <2> QED BY <1>0, <2>1, <2>2, NewProcIs
<1>4. proc' \in [Procs -> Coroutine]
  BY <1>3 DEF StartOver
<1> QED BY <1>1, <1>2, <1>3, <1>4 DEF StartOver

-----------------------------------------------------------------------------
(* What the actions with several parts do.                                 *)

LEMMA PlaceNames ==
  Closing \cup Opening \cup Looking \cup Starting
    \cup {"idle", "done", "remove", "recover", "given up", "loop"} \subseteq Places
  BY DEF Places

LEMMA PlaceSets ==
  /\ Closing = {"cancelling", "unpair", "stop"} /\ Opening = {"power", "pairable", "discover"}
  /\ Looking = {"find_pair", "find_remove"} /\ Starting = {"connect", "register", "unpairable"}
  BY DEF Closing, Opening, Looking, Starting

\* The tasks are at the places where they were.
TasksStay == \A r \in Requests : tasks'[r].at = tasks[r].at
\* The manager's task has ended.
TaskEnds ==
  \A r \in Requests : tasks'[r].at = IF r = task /\ Unended(r) THEN "done" ELSE tasks[r].at
OthersStay(p) == \A q \in Procs \ {p} : proc'[q] = proc[q]

\* A pair or remove begins to look its device up.
LEMMA LookupIs ==
  ASSUME TypeInv, NEW r \in Requests, NEW d \in Devices, NEW where \in Looking,
         Lookup(r, d, where)
  PROVE  /\ proc' \in [Procs -> Coroutine] /\ OthersStay(r)
         /\ proc'[r].at = where /\ proc'[r].dev = d
<1>1. [op |-> "none", at |-> where, dev |-> d] \in Coroutine
  BY PlaceNames DEF Coroutine, MaybeDevices
<1>2. r \in Procs
  BY DEF Procs
<1> QED BY <1>1, <1>2, SetProcIs DEF Lookup, OthersStay

\* A request that only goes to another await leaves the manager alone.
LEMMA RecoverIs ==
  ASSUME TypeInv, NEW r \in Requests, Recover(r)
  PROVE  /\ proc' \in [Procs -> Coroutine] /\ r \in Procs /\ OthersStay(r)
         /\ proc[r].at = "idle" /\ proc'[r].at = "recover"
         /\ UNCHANGED <<window, selected, task, pending, tasks, pairs>>
<1>1. r \in Procs /\ "recover" \in Places
  BY PlaceNames DEF Procs
<1>2. Goto(r, "recover") /\ proc[r].at = "idle"
  BY DEF Recover, Next_, At
<1>3. UNCHANGED <<window, selected, task, pending, tasks, pairs>>
  BY DEF Recover, manager, radio
<1> QED BY <1>1, <1>2, <1>3, GotoIs DEF OthersStay

LEMMA GivesUpIs ==
  ASSUME TypeInv, NEW r \in Requests, GivesUp(r)
  PROVE  /\ proc' \in [Procs -> Coroutine] /\ r \in Procs /\ OthersStay(r)
         /\ proc'[r].at = "given up"
         /\ UNCHANGED <<window, selected, task, pending, tasks, pairs>>
<1>1. r \in Procs /\ "given up" \in Places
  BY PlaceNames DEF Procs
<1>2. Goto(r, "given up")
  BY DEF GivesUp
<1>3. UNCHANGED <<window, selected, task, pending, tasks, pairs>>
  BY DEF GivesUp, manager
<1> QED BY <1>1, <1>2, <1>3, GotoIs DEF OthersStay

\* GetManagedObjects is answered: a task is made, the removal goes on, or the
\* device was not found.
LEMMA FindsIs ==
  ASSUME TypeInv, DeviceInv, NEW r \in Requests, Finds(r)
  PROVE  /\ r \in Procs /\ proc[r].at \in Looking /\ proc[r].dev \in Devices
         /\ proc' \in [Procs -> Coroutine] /\ OthersStay(r)
         /\ proc'[r].at \in {"done", "remove"}
         /\ proc'[r].at = "remove" => proc'[r].dev = proc[r].dev
         /\ tasks' \in [Requests -> PairTask]
         /\ \/ /\ selected' = proc[r].dev /\ task' = r /\ tasks'[r].at = "new"
               /\ \A s \in Requests \ {r} : tasks'[s] = tasks[s]
               /\ ~replaced' => ~(task \in Requests /\ Unended(task))
            \/ UNCHANGED <<selected, task, tasks>>
         /\ UNCHANGED <<window, pending, pairs>>
<1>1. r \in Procs /\ proc[r].at \in Looking
  BY DEF Procs, Finds
<1>2. proc[r].dev \in Devices
  BY <1>1 DEF DeviceInv
<1>3. CASE At(r, "find_pair") /\ selected' = proc[r].dev /\ task' = r /\ Done(r)
           /\ replaced' = (replaced \/ Live(task))
           /\ tasks' = [tasks EXCEPT ![r] = [NoTask EXCEPT !.at = "new", !.dev = proc[r].dev]]
  <2>1. [NoTask EXCEPT !.at = "new", !.dev = proc[r].dev] \in PairTask
        /\ [NoTask EXCEPT !.at = "new", !.dev = proc[r].dev].at = "new"
    BY <1>2 DEF NoTask, PairTask, MaybeDevices
  <2>2. /\ tasks' \in [Requests -> PairTask] /\ tasks'[r].at = "new"
        /\ \A s \in Requests \ {r} : tasks'[s] = tasks[s]
    BY <1>3, <2>1 DEF TypeInv
  <2>3. ~replaced' => ~(task \in Requests /\ Unended(task))
    <3>1. ~replaced' => ~Live(task)
      BY <1>3, Zenon
    <3> QED BY <3>1, PairingAssumption DEF Live, Unended, Requests
  <2>4. /\ proc' \in [Procs -> Coroutine] /\ OthersStay(r) /\ proc'[r].at = "done"
    BY <1>1, <1>3, DoneIs DEF OthersStay
  <2>5. UNCHANGED <<window, pending, pairs>>
    BY DEF Finds, radio
  <2> QED BY <1>1, <1>2, <1>3, <2>2, <2>3, <2>4, <2>5
<1>4. CASE At(r, "find_remove") /\ Goto(r, "remove") /\ UNCHANGED <<selected, result, task, tasks>>
  BY <1>1, <1>2, <1>4, GotoIs, PlaceNames DEF OthersStay, Finds, radio, TypeInv
<1>5. CASE Done(r) /\ UNCHANGED <<selected, result, task, tasks>>
  BY <1>1, <1>2, <1>5, DoneIs DEF OthersStay, Finds, radio, TypeInv
<1> QED BY <1>3, <1>4, <1>5 DEF Finds

LEMMA RemovesIs ==
  ASSUME TypeInv, DeviceInv, NEW r \in Requests, Removes(r)
  PROVE  /\ r \in Procs /\ proc' \in [Procs -> Coroutine] /\ OthersStay(r) /\ proc'[r].at = "done"
         /\ tasks' \in [Requests -> PairTask] /\ TasksStay
         /\ pairs' \in [Devices -> 0..MaxRequests]
         /\ proc[r].at = "remove"
         /\ UNCHANGED <<window, selected, task, pending>>
<1>1. r \in Procs /\ proc[r].at = "remove"
  BY DEF Procs, Removes, At
<1>2. proc[r].dev \in Devices
  BY <1>1 DEF DeviceInv
<1>3. tasks' \in [Requests -> PairTask] /\ TasksStay
  BY <1>2, RepliedIs DEF Removes, TasksStay, TypeInv
<1>4. pairs' \in [Devices -> 0..MaxRequests]
  BY PairingAssumption DEF Removes, TypeInv
<1> QED BY <1>1, <1>3, <1>4, DoneIs DEF Removes, OthersStay

LEMMA RecoversIs ==
  ASSUME TypeInv, NEW r \in Requests, Recovers(r)
  PROVE  /\ r \in Procs /\ proc' \in [Procs -> Coroutine] /\ OthersStay(r)
         /\ proc[r].at = "recover" /\ proc'[r].at = "done"
<1>1. r \in Procs
  BY DEF Procs
<1> QED BY <1>1, DoneIs DEF Recovers, At, OthersStay

\* do_pair begins: Pair is sent, or the window is over and the task ends.
LEMMA DoPairIs ==
  ASSUME TypeInv, NEW r \in Requests, DoPair(r)
  PROVE  /\ tasks[r].at = "new" /\ tasks' \in [Requests -> PairTask]
         /\ \A s \in Requests \ {r} : tasks'[s] = tasks[s]
         /\ pairs' \in [Devices -> 0..MaxRequests]
         /\ \/ /\ window = "open" /\ tasks'[r].at = "pairing" /\ UNCHANGED <<selected, pending>>
            \/ tasks'[r].at = "done" /\ selected' = NoDevice /\ pending' = NoPrompt
         /\ UNCHANGED <<window, task, proc>>
<1>1. CASE window = "open"
  <2>1. /\ tasks' \in [Requests -> PairTask] /\ tasks'[r].at = "pairing"
        /\ \A s \in Requests \ {r} : tasks'[s] = tasks[s]
    BY <1>1 DEF DoPair, TypeInv, PairTask
  <2>2. r \in 0..MaxRequests
    BY PairingAssumption DEF Requests
  <2>3. pairs' \in [Devices -> 0..MaxRequests]
    BY <1>1, <2>2 DEF DoPair, TypeInv
  <2> QED BY <1>1, <2>1, <2>3 DEF DoPair
<1>2. CASE window # "open"
  BY <1>2, EndTaskIs DEF DoPair, TypeInv
<1> QED BY <1>1, <1>2

LEMMA PairedIs ==
  ASSUME TypeInv, NEW r \in Requests, Paired(r)
  PROVE  /\ tasks[r].at = "pairing" /\ tasks' \in [Requests -> PairTask]
         /\ \A s \in Requests \ {r} : tasks'[s] = tasks[s]
         /\ \/ tasks'[r].at = "trust" /\ UNCHANGED <<selected, pending>>
            \/ tasks'[r].at = "done" /\ selected' = NoDevice /\ pending' = NoPrompt
         /\ UNCHANGED <<window, task, proc, pairs>>
<1>1. CASE tasks[r].reply = "ok"
  <2>1. /\ tasks' \in [Requests -> PairTask] /\ tasks'[r].at = "trust"
        /\ \A s \in Requests \ {r} : tasks'[s] = tasks[s]
    BY <1>1 DEF Paired, TypeInv, PairTask
  <2> QED BY <1>1, <2>1 DEF Paired, radio
<1>2. CASE tasks[r].reply # "ok"
  BY <1>2, EndTaskIs DEF Paired, radio
<1> QED BY <1>1, <1>2

\* CancelPairing is answered or not: either way the task is cancelled.
LEMMA CancellingIs ==
  ASSUME TypeInv, DeviceInv, NEW p \in Procs, Cancelling(p)
  PROVE  /\ proc' \in [Procs -> Coroutine] /\ OthersStay(p)
         /\ proc[p].at = "cancelling" /\ proc'[p].at = "unpair"
         /\ selected' = NoDevice /\ tasks' \in [Requests -> PairTask] /\ TaskEnds
         /\ pairs' \in [Devices -> 0..MaxRequests]
         /\ pending' \in {pending, NoPrompt}
         /\ UNCHANGED <<window, task>>
<1>1. proc[p].at = "cancelling" /\ proc[p].dev \in Devices
  BY DEF Cancelling, At, DeviceInv
<1>2. /\ proc' \in [Procs -> Coroutine] /\ OthersStay(p) /\ proc'[p].at = "unpair"
  BY GotoIs, PlaceNames, PlaceSets DEF Cancelling, OthersStay
<1>3. PICK ts \in {tasks, Replied(proc[p].dev, "failed")} : CancelTask(ts)
  BY DEF Cancelling
<1>4. ts \in [Requests -> PairTask] /\ \A r \in Requests : ts[r].at = tasks[r].at
  BY <1>1, RepliedIs DEF TypeInv
<1>5. selected' = NoDevice /\ tasks' \in [Requests -> PairTask] /\ TaskEnds
  BY <1>3, <1>4, CancelTaskIs DEF TaskEnds
<1>6. pairs' \in [Devices -> 0..MaxRequests]
  BY PairingAssumption DEF Cancelling, TypeInv
<1>7. pending' \in {pending, NoPrompt}
  BY DEF Cancelling, cancel_pending
<1> QED BY <1>1, <1>2, <1>5, <1>6, <1>7 DEF Cancelling

LEMMA QuietenIs ==
  ASSUME TypeInv, NEW p \in Procs, Quieten(p)
  PROVE  /\ proc' \in [Procs -> Coroutine] /\ OthersStay(p)
         /\ proc[p].at \in {"unpair", "stop"}
         /\ proc'[p].at \in {"stop", "power", "loop", "done"}
         /\ UNCHANGED <<window, selected, task, pending, tasks, pairs>>
<1>1. CASE At(p, "unpair")
  BY <1>1, GotoIs, PlaceNames, PlaceSets DEF Quieten, OthersStay
<1>2. CASE ~At(p, "unpair")
  <2> DEFINE where == AfterClose(proc[p].op)
  <2>1. where \in {"power", "loop", "done"} /\ where \in Places
    BY PlaceNames, PlaceSets DEF AfterClose
  <2>2. proc' = [proc EXCEPT ![p] = NewProc(where)]
    BY <1>2 DEF Quieten
  <2>3. NewProc(where) \in Coroutine /\ NewProc(where).at = where
    BY <2>1, NewProcIs
  <2> QED BY <2>1, <2>2, <2>3, SetProcIs DEF Quieten, OthersStay
<1> QED BY <1>1, <1>2

LEMMA OpensIs ==
  ASSUME TypeInv, NEW p \in Procs, Opens(p)
  PROVE  /\ proc[p].at \in Opening /\ pairs' = pairs
         /\ \/ /\ proc' \in [Procs -> Coroutine] /\ OthersStay(p)
               /\ proc'[p].at \in {"pairable", "discover", "done"}
               /\ window' \in {window, "open"}
               /\ UNCHANGED <<selected, task, pending, tasks>>
            \/ close(p, "abort")
<1>1. CASE close(p, "abort")
  BY <1>1 DEF Opens
<1>2. CASE ~close(p, "abort")
  <2>1. CASE At(p, "discover")
    BY <1>2, <2>1, DoneIs DEF Opens, OthersStay
  <2>2. CASE ~At(p, "discover")
    BY <1>2, <2>2, GotoIs, PlaceNames, PlaceSets DEF Opens, OthersStay
  <2> QED BY <2>1, <2>2
<1> QED BY <1>1, <1>2

LEMMA BluezEndsIs ==
  ASSUME TypeInv, NEW d \in Devices, BluezEnds(d)
  PROVE  /\ tasks' \in [Requests -> PairTask] /\ TasksStay
         /\ pairs' \in [Devices -> 0..MaxRequests]
         /\ pending' \in {pending, NoPrompt}
         /\ UNCHANGED <<window, selected, task, proc>>
<1>1. PICK reply \in {"ok", "failed"} : tasks' = Replied(d, reply)
  BY DEF BluezEnds
<1>2. pairs' \in [Devices -> 0..MaxRequests]
  BY PairingAssumption DEF BluezEnds, TypeInv
<1> QED BY <1>1, <1>2, RepliedIs DEF BluezEnds, TasksStay

LEMMA ServeStartsIs ==
  ASSUME TypeInv, ServeStarts
  PROVE  \/ /\ Serve \in Procs /\ proc' \in [Procs -> Coroutine] /\ OthersStay(Serve)
            /\ proc[Serve].at \in Starting
            /\ proc'[Serve].at \in {"register", "unpairable", "loop"}
            /\ UNCHANGED <<manager, pairs>>
         \/ StartOver
<1>1. Serve \in Procs
  BY DEF Procs
<1> QED BY <1>1, GotoIs, PlaceNames, PlaceSets DEF ServeStarts, OthersStay

LEMMA ServeLoopIs ==
  ASSUME TypeInv, ServeLoop
  PROVE  /\ Serve \in Procs /\ proc[Serve].at = "loop"
         /\ (close(Serve, "serve") /\ UNCHANGED pairs) \/ StartOver
  BY DEF ServeLoop, At, Procs, radio

-----------------------------------------------------------------------------
\* Every step keeps the types.
LEMMA TypeStep == TypeInv /\ DeviceInv /\ [Next]_vars => TypeInv'
<1> SUFFICES ASSUME TypeInv, DeviceInv, [Next]_vars PROVE TypeInv'
  OBVIOUS
<1> USE PairingAssumption
<1>1. ASSUME NEW r \in Requests, Open(r) PROVE TypeInv'
  BY <1>1, CloseIs, PlaceSets DEF Open, Next_, At, TypeInv, MaybeDevices, Procs, radio,
    world
<1>2. ASSUME NEW r \in Requests, Close(r) PROVE TypeInv'
  BY <1>2, CloseIs, PlaceSets DEF Close, Next_, At, TypeInv, MaybeDevices, Procs,
    radio, world
<1>3. ASSUME NEW r \in Requests, NEW d \in Devices, Pair(r, d) PROVE TypeInv'
  BY <1>3, LookupIs, PlaceNames, PlaceSets DEF Pair, Lookup, TypeInv, MaybeDevices,
    OthersStay, Procs, manager, radio, world
<1>4. ASSUME NEW r \in Requests, NEW d \in Devices, Remove(r, d) PROVE TypeInv'
  BY <1>4, LookupIs, PlaceNames, PlaceSets DEF Remove, Lookup, TypeInv, MaybeDevices,
    OthersStay, Procs, manager, radio, world
<1>5. ASSUME NEW r \in Requests, Recover(r) PROVE TypeInv'
  BY <1>5, RecoverIs DEF TypeInv
<1>6. ASSUME NEW r \in Requests, Finds(r) PROVE TypeInv'
  BY <1>6, FindsIs DEF TypeInv, MaybeDevices, Requests
<1>7. ASSUME NEW r \in Requests, Removes(r) PROVE TypeInv'
  BY <1>7, RemovesIs, PlaceSets DEF TypeInv, MaybeDevices, OthersStay, TasksStay, Procs
<1>8. ASSUME NEW r \in Requests, Recovers(r) PROVE TypeInv'
  BY <1>8, RecoversIs, RestartedIs, PlaceSets DEF Recovers, TypeInv, MaybeDevices,
    OthersStay, Procs
<1>9. ASSUME NEW r \in Requests, GivesUp(r) PROVE TypeInv'
  BY <1>9, GivesUpIs DEF TypeInv
<1>10. ASSUME NEW r \in Requests, DoPair(r) PROVE TypeInv'
  BY <1>10, DoPairIs, PlaceSets DEF TypeInv, MaybeDevices, Procs
<1>11. ASSUME NEW r \in Requests, Paired(r) PROVE TypeInv'
  BY <1>11, PairedIs, PlaceSets DEF TypeInv, MaybeDevices, Procs
<1>12. ASSUME NEW r \in Requests, Trusted(r) PROVE TypeInv'
  BY <1>12, EndTaskIs, PlaceSets DEF Trusted, TypeInv, MaybeDevices, Procs, radio,
    world
<1>13. ASSUME NEW p \in Procs, Cancelling(p) PROVE TypeInv'
  BY <1>13, CancellingIs, PlaceSets DEF TypeInv, MaybeDevices, OthersStay, TaskEnds,
    Procs
<1>14. ASSUME NEW p \in Procs, Quieten(p) PROVE TypeInv'
  BY <1>14, QuietenIs, PlaceSets DEF TypeInv, MaybeDevices, OthersStay, Procs
<1>15. ASSUME NEW p \in Procs, Opens(p) PROVE TypeInv'
  BY <1>15, OpensIs, CloseIs, PlaceSets DEF TypeInv, MaybeDevices, OthersStay, Procs
<1>16. ASSUME NEW d \in Devices, AgentAsks(d) PROVE TypeInv'
  BY <1>16 DEF TypeInv, radio, world, AgentAsks
<1>17. ASSUME NEW d \in Devices, AgentDisplays(d) PROVE TypeInv'
  BY <1>17 DEF TypeInv, radio, world, AgentDisplays
<1>18. ASSUME NEW d \in Devices, BluezEnds(d) PROVE TypeInv'
  BY <1>18, BluezEndsIs, PlaceSets DEF TypeInv, MaybeDevices, TasksStay, Procs
<1>19. ASSUME NEW d \in Devices, AnswerDropped(d) PROVE TypeInv'
  BY <1>19 DEF TypeInv, radio, world, AnswerDropped
<1>20. ASSUME NEW d \in Devices, AskExpires(d) PROVE TypeInv'
  BY <1>20 DEF TypeInv, radio, world, AskExpires
<1>21. CASE Reply
  BY <1>21 DEF TypeInv, cancel_pending, radio, world, Reply
<1>22. CASE BluetoothdRestarts
  BY <1>22, RestartedIs, PlaceSets DEF BluetoothdRestarts, TypeInv, MaybeDevices, Procs
<1>23. CASE WindowOver
  BY <1>23 DEF TypeInv, radio, world, WindowOver
<1>24. CASE PairableEnds
  BY <1>24 DEF TypeInv, At, manager, world, PairableEnds
<1>25. CASE RecoverAgain
  BY <1>25 DEF TypeInv, manager, radio, RecoverAgain
<1>26. CASE ServeStarts
  BY <1>26, ServeStartsIs, StartOverIs, PlaceSets DEF TypeInv, MaybeDevices,
    OthersStay, Procs, manager
<1>27. CASE ServeLoop
  BY <1>27, ServeLoopIs, CloseIs, StartOverIs, PlaceSets DEF TypeInv, MaybeDevices,
    Procs
<1>28. CASE UNCHANGED vars
  BY <1>28 DEF TypeInv, vars, manager, radio, world
<1> QED
  BY <1>1, <1>2, <1>3, <1>4, <1>5, <1>6, <1>7, <1>8, <1>9, <1>10, <1>11, <1>12, <1>13,
    <1>14, <1>15, <1>16, <1>17, <1>18, <1>19, <1>20, <1>21, <1>22, <1>23, <1>24, <1>25,
    <1>26, <1>27, <1>28
  DEF Next, Request, Steps, ServeSteps, Answers, TaskSteps, BluezSteps

\* Whoever works on a device has one.
LEMMA DeviceStep == TypeInv /\ DeviceInv /\ [Next]_vars => DeviceInv'
<1> SUFFICES ASSUME TypeInv, DeviceInv, [Next]_vars PROVE DeviceInv'
  OBVIOUS
<1>1. ASSUME NEW r \in Requests, Open(r) PROVE DeviceInv'
  BY <1>1, CloseIs, PlaceSets DEF Open, Next_, At, TypeInv, MaybeDevices, DeviceInv,
    Procs, radio, world
<1>2. ASSUME NEW r \in Requests, Close(r) PROVE DeviceInv'
  BY <1>2, CloseIs, PlaceSets DEF Close, Next_, At, TypeInv, MaybeDevices, DeviceInv,
    Procs, radio, world
<1>3. ASSUME NEW r \in Requests, NEW d \in Devices, Pair(r, d) PROVE DeviceInv'
  BY <1>3, LookupIs, PlaceNames, PlaceSets DEF Pair, Lookup, TypeInv, MaybeDevices,
    DeviceInv, OthersStay, Procs, manager, radio, world
<1>4. ASSUME NEW r \in Requests, NEW d \in Devices, Remove(r, d) PROVE DeviceInv'
  BY <1>4, LookupIs, PlaceNames, PlaceSets DEF Remove, Lookup, TypeInv, MaybeDevices,
    DeviceInv, OthersStay, Procs, manager, radio, world
<1>5. ASSUME NEW r \in Requests, Recover(r) PROVE DeviceInv'
  BY <1>5, RecoverIs, PlaceSets DEF DeviceInv, OthersStay
<1>6. ASSUME NEW r \in Requests, Finds(r) PROVE DeviceInv'
  BY <1>6, FindsIs, PlaceSets DEF TypeInv, MaybeDevices, DeviceInv, OthersStay, Procs
<1>7. ASSUME NEW r \in Requests, Removes(r) PROVE DeviceInv'
  BY <1>7, RemovesIs, PlaceSets DEF TypeInv, MaybeDevices, DeviceInv, OthersStay,
    TasksStay, Procs
<1>8. ASSUME NEW r \in Requests, Recovers(r) PROVE DeviceInv'
  BY <1>8, RecoversIs, RestartedIs, PlaceSets DEF Recovers, TypeInv, MaybeDevices,
    DeviceInv, OthersStay, Procs
<1>9. ASSUME NEW r \in Requests, GivesUp(r) PROVE DeviceInv'
  BY <1>9, GivesUpIs, PlaceSets DEF DeviceInv, OthersStay
<1>10. ASSUME NEW r \in Requests, DoPair(r) PROVE DeviceInv'
  BY <1>10, DoPairIs, PlaceSets DEF TypeInv, MaybeDevices, DeviceInv, Procs
<1>11. ASSUME NEW r \in Requests, Paired(r) PROVE DeviceInv'
  BY <1>11, PairedIs, PlaceSets DEF TypeInv, MaybeDevices, DeviceInv, Procs
<1>12. ASSUME NEW r \in Requests, Trusted(r) PROVE DeviceInv'
  BY <1>12, EndTaskIs, PlaceSets DEF Trusted, TypeInv, MaybeDevices, DeviceInv, Procs,
    radio, world
<1>13. ASSUME NEW p \in Procs, Cancelling(p) PROVE DeviceInv'
  BY <1>13, CancellingIs, PlaceSets DEF TypeInv, MaybeDevices, DeviceInv, OthersStay,
    TaskEnds, Procs
<1>14. ASSUME NEW p \in Procs, Quieten(p) PROVE DeviceInv'
  BY <1>14, QuietenIs, PlaceSets DEF TypeInv, MaybeDevices, DeviceInv, OthersStay,
    Procs
<1>15. ASSUME NEW p \in Procs, Opens(p) PROVE DeviceInv'
  BY <1>15, OpensIs, CloseIs, PlaceSets DEF TypeInv, MaybeDevices, DeviceInv,
    OthersStay, Procs
<1>16. ASSUME NEW d \in Devices, AgentAsks(d) PROVE DeviceInv'
  BY <1>16 DEF DeviceInv, radio, world, AgentAsks
<1>17. ASSUME NEW d \in Devices, AgentDisplays(d) PROVE DeviceInv'
  BY <1>17 DEF DeviceInv, radio, world, AgentDisplays
<1>18. ASSUME NEW d \in Devices, BluezEnds(d) PROVE DeviceInv'
  BY <1>18, BluezEndsIs, PlaceSets DEF TypeInv, MaybeDevices, DeviceInv, TasksStay,
    Procs
<1>19. ASSUME NEW d \in Devices, AnswerDropped(d) PROVE DeviceInv'
  BY <1>19 DEF DeviceInv, radio, world, AnswerDropped
<1>20. ASSUME NEW d \in Devices, AskExpires(d) PROVE DeviceInv'
  BY <1>20 DEF DeviceInv, radio, world, AskExpires
<1>21. CASE Reply
  BY <1>21 DEF DeviceInv, cancel_pending, radio, world, Reply
<1>22. CASE BluetoothdRestarts
  BY <1>22, RestartedIs, PlaceSets DEF BluetoothdRestarts, TypeInv, MaybeDevices,
    DeviceInv, Procs
<1>23. CASE WindowOver
  BY <1>23 DEF DeviceInv, radio, world, WindowOver
<1>24. CASE PairableEnds
  BY <1>24 DEF DeviceInv, At, manager, world, PairableEnds
<1>25. CASE RecoverAgain
  BY <1>25 DEF DeviceInv, manager, radio, RecoverAgain
<1>26. CASE ServeStarts
  BY <1>26, ServeStartsIs, StartOverIs, PlaceSets DEF TypeInv, MaybeDevices, DeviceInv,
    OthersStay, Procs, manager
<1>27. CASE ServeLoop
  BY <1>27, ServeLoopIs, CloseIs, StartOverIs, PlaceSets DEF TypeInv, MaybeDevices,
    DeviceInv, Procs
<1>28. CASE UNCHANGED vars
  BY <1>28 DEF DeviceInv, vars, manager, radio, world
<1> QED
  BY <1>1, <1>2, <1>3, <1>4, <1>5, <1>6, <1>7, <1>8, <1>9, <1>10, <1>11, <1>12, <1>13,
    <1>14, <1>15, <1>16, <1>17, <1>18, <1>19, <1>20, <1>21, <1>22, <1>23, <1>24, <1>25,
    <1>26, <1>27, <1>28
  DEF Next, Request, Steps, ServeSteps, Answers, TaskSteps, BluezSteps

\* A task is only ever replaced by pair; another manager begins with none.
LEMMA ReplacedStep == [Next]_vars => (replaced => replaced') \/ StartOver
<1> SUFFICES ASSUME [Next]_vars, replaced, ~StartOver PROVE replaced'
  OBVIOUS
<1> USE DEF manager
<1>1. ASSUME NEW r \in Requests, Open(r) PROVE replaced'
  BY <1>1 DEF Open, close
<1>2. ASSUME NEW r \in Requests, Close(r) PROVE replaced'
  BY <1>2 DEF Close, close
<1>3. ASSUME NEW r \in Requests, NEW d \in Devices, Pair(r, d) PROVE replaced'
  BY <1>3 DEF Pair, Lookup
<1>4. ASSUME NEW r \in Requests, NEW d \in Devices, Remove(r, d) PROVE replaced'
  BY <1>4 DEF Remove, Lookup
<1>5. ASSUME NEW r \in Requests, Recover(r) PROVE replaced'
  BY <1>5 DEF Recover
<1>6. ASSUME NEW r \in Requests, Finds(r) PROVE replaced'
  BY <1>6 DEF Finds
<1>7. ASSUME NEW r \in Requests, Removes(r) PROVE replaced'
  BY <1>7 DEF Removes
<1>8. ASSUME NEW r \in Requests, Recovers(r) PROVE replaced'
  BY <1>8 DEF Recovers, Restarted
<1>9. ASSUME NEW r \in Requests, GivesUp(r) PROVE replaced'
  BY <1>9 DEF GivesUp
<1>10. ASSUME NEW r \in Requests, DoPair(r) PROVE replaced'
  BY <1>10 DEF DoPair
<1>11. ASSUME NEW r \in Requests, Paired(r) PROVE replaced'
  BY <1>11 DEF Paired
<1>12. ASSUME NEW r \in Requests, Trusted(r) PROVE replaced'
  BY <1>12 DEF Trusted
<1>13. ASSUME NEW p \in Procs, Cancelling(p) PROVE replaced'
  BY <1>13 DEF Cancelling
<1>14. ASSUME NEW p \in Procs, Quieten(p) PROVE replaced'
  BY <1>14 DEF Quieten
<1>15. ASSUME NEW p \in Procs, Opens(p) PROVE replaced'
  BY <1>15 DEF Opens, close
<1>16. ASSUME NEW d \in Devices, AgentAsks(d) PROVE replaced'
  BY <1>16 DEF AgentAsks
<1>17. ASSUME NEW d \in Devices, AgentDisplays(d) PROVE replaced'
  BY <1>17 DEF AgentDisplays
<1>18. ASSUME NEW d \in Devices, BluezEnds(d) PROVE replaced'
  BY <1>18 DEF BluezEnds
<1>19. ASSUME NEW d \in Devices, AnswerDropped(d) PROVE replaced'
  BY <1>19 DEF AnswerDropped
<1>20. ASSUME NEW d \in Devices, AskExpires(d) PROVE replaced'
  BY <1>20 DEF AskExpires
<1>21. CASE Reply
  BY <1>21 DEF Reply
<1>22. CASE BluetoothdRestarts
  BY <1>22 DEF BluetoothdRestarts, Restarted
<1>23. CASE WindowOver
  BY <1>23 DEF WindowOver
<1>24. CASE PairableEnds
  BY <1>24 DEF PairableEnds
<1>25. CASE RecoverAgain
  BY <1>25 DEF RecoverAgain
<1>26. CASE ServeStarts
  BY <1>26 DEF ServeStarts
<1>27. CASE ServeLoop
  BY <1>27 DEF ServeLoop, close
<1>28. CASE UNCHANGED vars
  BY <1>28 DEF vars
<1> QED
  BY <1>1, <1>2, <1>3, <1>4, <1>5, <1>6, <1>7, <1>8, <1>9, <1>10, <1>11, <1>12, <1>13,
    <1>14, <1>15, <1>16, <1>17, <1>18, <1>19, <1>20, <1>21, <1>22, <1>23, <1>24, <1>25,
    <1>26, <1>27, <1>28
  DEF Next, Request, Steps, ServeSteps, Answers, TaskSteps, BluezSteps

\* There is one task at most that has not ended.
LEMMA TaskStep ==
  ASSUME TypeInv, DeviceInv, TaskInv, ~replaced', [Next]_vars
  PROVE  TaskInv'
<1>1. ASSUME NEW r \in Requests, Open(r) PROVE TaskInv'
  BY <1>1, CloseIs, NoDeviceAssumption, PlaceSets DEF Open, Next_, At, TypeInv,
    TaskInv, Unended, Procs, radio, world
<1>2. ASSUME NEW r \in Requests, Close(r) PROVE TaskInv'
  BY <1>2, CloseIs, NoDeviceAssumption, PlaceSets DEF Close, Next_, At, TypeInv,
    TaskInv, Unended, Procs, radio, world
<1>3. ASSUME NEW r \in Requests, NEW d \in Devices, Pair(r, d) PROVE TaskInv'
  BY <1>3, LookupIs, NoDeviceAssumption, PlaceNames, PlaceSets DEF Pair, Lookup,
    TypeInv, TaskInv, Unended, OthersStay, Procs, manager, radio, world
<1>4. ASSUME NEW r \in Requests, NEW d \in Devices, Remove(r, d) PROVE TaskInv'
  BY <1>4, LookupIs, NoDeviceAssumption, PlaceNames, PlaceSets DEF Remove, Lookup,
    TypeInv, TaskInv, Unended, OthersStay, Procs, manager, radio, world
<1>5. ASSUME NEW r \in Requests, Recover(r) PROVE TaskInv'
  BY <1>5, RecoverIs DEF TaskInv, Unended
<1>6. ASSUME NEW r \in Requests, Finds(r) PROVE TaskInv'
  BY <1>6, FindsIs, NoDeviceAssumption, PlaceSets DEF TypeInv, TaskInv,
    Unended, OthersStay, Procs
<1>7. ASSUME NEW r \in Requests, Removes(r) PROVE TaskInv'
  BY <1>7, RemovesIs, NoDeviceAssumption, PlaceSets DEF TypeInv, TaskInv,
    Unended, OthersStay, TasksStay, Procs
<1>8. ASSUME NEW r \in Requests, Recovers(r) PROVE TaskInv'
  BY <1>8, RecoversIs, RestartedIs, NoDeviceAssumption, PlaceSets DEF Recovers,
    TypeInv, TaskInv, Unended, OthersStay, Procs
<1>9. ASSUME NEW r \in Requests, GivesUp(r) PROVE TaskInv'
  BY <1>9, GivesUpIs DEF TaskInv, Unended
<1>10. ASSUME NEW r \in Requests, DoPair(r) PROVE TaskInv'
  BY <1>10, DoPairIs, NoDeviceAssumption, PlaceSets DEF TypeInv, TaskInv,
    Unended, Procs
<1>11. ASSUME NEW r \in Requests, Paired(r) PROVE TaskInv'
  BY <1>11, PairedIs, NoDeviceAssumption, PlaceSets DEF TypeInv, TaskInv,
    Unended, Procs
<1>12. ASSUME NEW r \in Requests, Trusted(r) PROVE TaskInv'
  BY <1>12, EndTaskIs, NoDeviceAssumption, PlaceSets DEF Trusted, TypeInv,
    TaskInv, Unended, Procs, radio, world
<1>13. ASSUME NEW p \in Procs, Cancelling(p) PROVE TaskInv'
  BY <1>13, CancellingIs, NoDeviceAssumption, PlaceSets DEF TypeInv,
    TaskInv, Unended, OthersStay, TaskEnds, Procs
<1>14. ASSUME NEW p \in Procs, Quieten(p) PROVE TaskInv'
  BY <1>14, QuietenIs, NoDeviceAssumption, PlaceSets DEF TypeInv, TaskInv,
    Unended, OthersStay, Procs
<1>15. ASSUME NEW p \in Procs, Opens(p) PROVE TaskInv'
  BY <1>15, OpensIs, CloseIs, NoDeviceAssumption, PlaceSets DEF TypeInv,
    TaskInv, Unended, OthersStay, Procs
<1>16. ASSUME NEW d \in Devices, AgentAsks(d) PROVE TaskInv'
  BY <1>16 DEF TypeInv, TaskInv, Unended, radio, world, AgentAsks
<1>17. ASSUME NEW d \in Devices, AgentDisplays(d) PROVE TaskInv'
  BY <1>17 DEF TypeInv, TaskInv, Unended, radio, world, AgentDisplays
<1>18. ASSUME NEW d \in Devices, BluezEnds(d) PROVE TaskInv'
  BY <1>18, BluezEndsIs, NoDeviceAssumption, PlaceSets DEF TypeInv, TaskInv,
    Unended, TasksStay, Procs
<1>19. ASSUME NEW d \in Devices, AnswerDropped(d) PROVE TaskInv'
  BY <1>19 DEF TypeInv, TaskInv, Unended, radio, world, AnswerDropped
<1>20. ASSUME NEW d \in Devices, AskExpires(d) PROVE TaskInv'
  BY <1>20 DEF TypeInv, TaskInv, Unended, radio, world, AskExpires
<1>21. CASE Reply
  BY <1>21 DEF TypeInv, TaskInv, Unended, cancel_pending, radio, world, Reply
<1>22. CASE BluetoothdRestarts
  BY <1>22, RestartedIs, NoDeviceAssumption, PlaceSets DEF BluetoothdRestarts, TypeInv,
    TaskInv, Unended, Procs
<1>23. CASE WindowOver
  BY <1>23 DEF TypeInv, TaskInv, Unended, radio, world, WindowOver
<1>24. CASE PairableEnds
  BY <1>24 DEF TypeInv, TaskInv, Unended, At, manager, world, PairableEnds
<1>25. CASE RecoverAgain
  BY <1>25 DEF TypeInv, TaskInv, Unended, manager, radio, RecoverAgain
<1>26. CASE ServeStarts
  BY <1>26, ServeStartsIs, StartOverIs, NoDeviceAssumption, PlaceSets DEF TypeInv,
    TaskInv, Unended, OthersStay, Procs, manager
<1>27. CASE ServeLoop
  BY <1>27, ServeLoopIs, CloseIs, StartOverIs, NoDeviceAssumption, PlaceSets DEF
    TypeInv, TaskInv, Unended, Procs
<1>28. CASE UNCHANGED vars
  BY <1>28 DEF TypeInv, TaskInv, Unended, vars, manager, radio, world
<1> QED
  BY <1>1, <1>2, <1>3, <1>4, <1>5, <1>6, <1>7, <1>8, <1>9, <1>10, <1>11, <1>12, <1>13,
    <1>14, <1>15, <1>16, <1>17, <1>18, <1>19, <1>20, <1>21, <1>22, <1>23, <1>24, <1>25,
    <1>26, <1>27, <1>28
  DEF Next, Request, Steps, ServeSteps, Answers, TaskSteps, BluezSteps

\* What a shut window leaves is being cancelled.
LEMMA ShutStep == TypeInv /\ DeviceInv /\ TaskInv /\ ShutInv /\ [Next]_vars => ShutInv'
<1> SUFFICES ASSUME TypeInv, DeviceInv, TaskInv, ShutInv, [Next]_vars PROVE ShutInv'
  OBVIOUS
<1>1. ASSUME NEW r \in Requests, Open(r) PROVE ShutInv'
  BY <1>1, CloseIs, PlaceSets DEF Open, Next_, At, TypeInv, TaskInv, ShutInv, Unended,
    Waits, Cancels, Procs, radio, world
<1>2. ASSUME NEW r \in Requests, Close(r) PROVE ShutInv'
  BY <1>2, CloseIs, PlaceSets DEF Close, Next_, At, TypeInv, TaskInv, ShutInv, Unended,
    Waits, Cancels, Procs, radio, world
<1>3. ASSUME NEW r \in Requests, NEW d \in Devices, Pair(r, d) PROVE ShutInv'
  BY <1>3, LookupIs, PlaceNames, PlaceSets DEF Pair, Lookup, TypeInv, TaskInv, ShutInv,
    Unended, Waits, Cancels, OthersStay, Procs, manager, radio, world
<1>4. ASSUME NEW r \in Requests, NEW d \in Devices, Remove(r, d) PROVE ShutInv'
  BY <1>4, LookupIs, PlaceNames, PlaceSets DEF Remove, Lookup, TypeInv, TaskInv,
    ShutInv, Unended, Waits, Cancels, OthersStay, Procs, manager, radio, world
<1>5. ASSUME NEW r \in Requests, Recover(r) PROVE ShutInv'
  BY <1>5, RecoverIs, PlaceSets DEF ShutInv, Waits, Cancels, OthersStay
<1>6. ASSUME NEW r \in Requests, Finds(r) PROVE ShutInv'
  BY <1>6, FindsIs, PlaceSets DEF TypeInv, TaskInv, ShutInv, Unended, Waits, Cancels,
    OthersStay, Procs
<1>7. ASSUME NEW r \in Requests, Removes(r) PROVE ShutInv'
  BY <1>7, RemovesIs, PlaceSets DEF TypeInv, TaskInv, ShutInv, Unended, Waits, Cancels,
    OthersStay, TasksStay, Procs
<1>8. ASSUME NEW r \in Requests, Recovers(r) PROVE ShutInv'
  BY <1>8, RecoversIs, RestartedIs, PlaceSets DEF Recovers, TypeInv, TaskInv, ShutInv,
    Unended, Waits, Cancels, OthersStay, Procs
<1>9. ASSUME NEW r \in Requests, GivesUp(r) PROVE ShutInv'
  BY <1>9, GivesUpIs, PlaceSets DEF ShutInv, Waits, Cancels, OthersStay
<1>10. ASSUME NEW r \in Requests, DoPair(r) PROVE ShutInv'
  BY <1>10, DoPairIs, PlaceSets DEF TypeInv, TaskInv, ShutInv, Unended, Waits, Cancels,
    Procs
<1>11. ASSUME NEW r \in Requests, Paired(r) PROVE ShutInv'
  BY <1>11, PairedIs, PlaceSets DEF TypeInv, TaskInv, ShutInv, Unended, Waits, Cancels,
    Procs
<1>12. ASSUME NEW r \in Requests, Trusted(r) PROVE ShutInv'
  BY <1>12, EndTaskIs, PlaceSets DEF Trusted, TypeInv, TaskInv, ShutInv, Unended,
    Waits, Cancels, Procs, radio, world
<1>13. ASSUME NEW p \in Procs, Cancelling(p) PROVE ShutInv'
  BY <1>13, CancellingIs, PlaceSets DEF TypeInv, TaskInv, ShutInv, Unended, Waits,
    Cancels, OthersStay, TaskEnds, Procs
<1>14. ASSUME NEW p \in Procs, Quieten(p) PROVE ShutInv'
  BY <1>14, QuietenIs, PlaceSets DEF TypeInv, TaskInv, ShutInv, Unended, Waits,
    Cancels, OthersStay, Procs
<1>15. ASSUME NEW p \in Procs, Opens(p) PROVE ShutInv'
  <2>1. CASE close(p, "abort")
    BY <1>15, <2>1, CloseIs, PlaceSets DEF TypeInv, TaskInv, ShutInv, Unended, Waits,
      Cancels, OthersStay, Procs
  <2>2. CASE ~close(p, "abort")
    BY <1>15, <2>2, OpensIs, PlaceSets DEF TypeInv, ShutInv, Waits, Cancels, OthersStay,
      Procs
  <2> QED BY <2>1, <2>2
<1>16. ASSUME NEW d \in Devices, AgentAsks(d) PROVE ShutInv'
  BY <1>16 DEF TypeInv, ShutInv, Waits, Cancels, guard, radio, world, AgentAsks
<1>17. ASSUME NEW d \in Devices, AgentDisplays(d) PROVE ShutInv'
  BY <1>17 DEF TypeInv, ShutInv, Waits, Cancels, guard, radio, world, AgentDisplays
<1>18. ASSUME NEW d \in Devices, BluezEnds(d) PROVE ShutInv'
  BY <1>18, BluezEndsIs, PlaceSets DEF TypeInv, TaskInv, ShutInv, Unended, Waits,
    Cancels, TasksStay, Procs
<1>19. ASSUME NEW d \in Devices, AnswerDropped(d) PROVE ShutInv'
  BY <1>19 DEF TypeInv, ShutInv, Waits, Cancels, radio, world, AnswerDropped
<1>20. ASSUME NEW d \in Devices, AskExpires(d) PROVE ShutInv'
  BY <1>20 DEF TypeInv, ShutInv, Waits, Cancels, radio, world, AskExpires
<1>21. CASE Reply
  BY <1>21 DEF TypeInv, ShutInv, Waits, Cancels, cancel_pending, radio, world, Reply
<1>22. CASE BluetoothdRestarts
  BY <1>22, RestartedIs, PlaceSets DEF BluetoothdRestarts, TypeInv, TaskInv, ShutInv,
    Unended, Waits, Cancels, Procs
<1>23. CASE WindowOver
  BY <1>23 DEF TypeInv, ShutInv, Waits, Cancels, radio, world, WindowOver
<1>24. CASE PairableEnds
  BY <1>24 DEF TypeInv, ShutInv, Waits, Cancels, At, manager, world, PairableEnds
<1>25. CASE RecoverAgain
  BY <1>25 DEF TypeInv, ShutInv, Waits, Cancels, manager, radio, RecoverAgain
<1>26. CASE ServeStarts
  BY <1>26, ServeStartsIs, StartOverIs, PlaceSets DEF TypeInv, TaskInv, ShutInv,
    Unended, Waits, Cancels, OthersStay, Procs, manager
<1>27. CASE ServeLoop
  BY <1>27, ServeLoopIs, CloseIs, StartOverIs, PlaceSets DEF TypeInv, TaskInv, ShutInv,
    Unended, Waits, Cancels, Procs
<1>28. CASE UNCHANGED vars
  BY <1>28 DEF TypeInv, ShutInv, Waits, Cancels, vars, manager, radio, world
<1> QED
  BY <1>1, <1>2, <1>3, <1>4, <1>5, <1>6, <1>7, <1>8, <1>9, <1>10, <1>11, <1>12, <1>13,
    <1>14, <1>15, <1>16, <1>17, <1>18, <1>19, <1>20, <1>21, <1>22, <1>23, <1>24, <1>25,
    <1>26, <1>27, <1>28
  DEF Next, Request, Steps, ServeSteps, Answers, TaskSteps, BluezSteps

-----------------------------------------------------------------------------
(* The theorem.                                                            *)

LEMMA InitInv == Init => PairInv
<1> SUFFICES ASSUME Init PROVE PairInv
  OBVIOUS
<1>1. tasks \in [Requests -> PairTask] /\ \A r \in Requests : tasks[r].at = "none"
  BY DEF Init, NoTask, PairTask, MaybeDevices
<1>2. /\ proc \in [Procs -> Coroutine]
      /\ \A p \in Procs : proc[p].at \in {"connect", "idle"}
  BY NewProcIs, PlaceNames, PlaceSets DEF Init
<1>3. TypeInv
  BY <1>1, <1>2, PairingAssumption DEF Init, TypeInv, MaybeDevices
<1>4. DeviceInv
  BY <1>2, PlaceSets DEF DeviceInv
<1>5. TaskInv /\ ShutInv
  BY <1>1 DEF Init, TaskInv, Unended, ShutInv, Waits
<1> QED BY <1>3, <1>4, <1>5 DEF PairInv

LEMMA InvStep ==
  ASSUME PairInv, [Next]_vars
  PROVE  PairInv'
<1>1. TypeInv' /\ DeviceInv'
  BY TypeStep, DeviceStep DEF PairInv
<1>2. ASSUME StartOver PROVE TaskInv' /\ ShutInv'
  BY <1>2, StartOverIs DEF PairInv, TaskInv, Unended, ShutInv, Waits
<1>3. ASSUME ~replaced, ~replaced' PROVE TaskInv' /\ ShutInv'
  BY <1>3, TaskStep, ShutStep DEF PairInv
<1> QED BY <1>1, <1>2, <1>3, ReplacedStep DEF PairInv

\* Once close is through, no prompt is shown and no do_pair task of this
\* manager waits for bluetoothd, whatever requests, timeouts, lost calls and
\* restarts come in between, and however many requests look devices up at
\* once: until a second of these makes a task while that of the first goes on,
\* since close only knows the second (epilykos_bluetooth.py:216-220).
THEOREM ClosedStaysQuiet == Spec => []ClosedIsQuiet
<1>1. PairInv /\ [Next]_vars => PairInv'
  BY InvStep
<1>2. PairInv => ClosedIsQuiet
  BY PlaceSets DEF PairInv, ShutInv, Waits, Cancels, ClosedIsQuiet, Quiet
<1> QED BY InitInv, <1>1, <1>2, PTL DEF Spec

==============================================================================
