------------------------------ MODULE Pairing ------------------------------
(***************************************************************************)
(* Bluetooth pairing (epilykos_bluetooth.py): hostd's asyncio loop runs a  *)
(* `serve' coroutine that keeps one agent registered with bluetoothd, one  *)
(* coroutine per request of the dashboard, and one do_pair task per        *)
(* pairing.  They interleave at the awaits that need bluetoothd, the agent *)
(* or the clock; a step goes from one of these to the next (a cancelled    *)
(* task or an answered prompt ends in the step that cancels or answers it).*)
(* BlueZ is external: it carries out a Pair call, calls the agent for it,  *)
(* and may end it at any time.                                             *)
(*                                                                         *)
(* PINs are not modelled, only whether an answer was given.  Timers (300 s *)
(* window, 120 s Pair, 90 s prompt, 600 s between recoveries) run out at   *)
(* any moment.  `faults' counts calls without an answer in 8 s and         *)
(* requests given up after 12 s.                                           *)
(***************************************************************************)
EXTENDS Naturals, FiniteSets

CONSTANTS
  Devices,
  MaxRequests,   \* requests of the dashboard
  MaxRestarts,   \* bluetoothd restarts that nobody asked hostd for
  MaxFaults

ASSUME PairingAssumption ==
  MaxRequests \in Nat /\ MaxRestarts \in Nat /\ MaxFaults \in Nat

NoDevice == "none"
ASSUME NoDeviceAssumption == NoDevice \notin Devices

Requests == 1..MaxRequests
Serve == 0
Procs == Requests \cup {Serve}

VARIABLES
  window,     \* "shut" (deadline 0), "open", "over" when the deadline has passed
  selected,   \* the device being paired
  task,       \* self.task: the request that made it, 0 for none
  replaced,   \* history: pair put its task in the place of one that goes on
  result,     \* of the last pairing
  pending,    \* the prompt or code shown in the dashboard
  ask,        \* per device, BlueZ's question to the agent: "none", "waiting",
              \* or the answer on its way back, "given" or "refused"
  tasks,      \* per request, its do_pair task
  proc,       \* per coroutine, which await it is at and its local variables
  owner,      \* serve's note of bluetoothd's bus name
  recent,     \* RECOVER_FILE is younger than RECOVER_INTERVAL_S
  bluez,      \* bluetoothd: bus name, our agent, the adapter's properties
  pairs,      \* per device, the task whose Pair call BlueZ carries out, or 0
  restarts, faults

manager == <<window, selected, task, replaced, result, pending, ask, tasks>>
radio == <<bluez, pairs>>
world == <<owner, recent, restarts, faults>>
vars == <<manager, proc, radio, world>>

NoPrompt == [dev |-> NoDevice, kind |-> "none"]
NoTask == [at |-> "none", dev |-> NoDevice, reply |-> "none"]
NewProc(at) == [op |-> "none", at |-> at, dev |-> NoDevice]

Closing == {"cancelling", "unpair", "stop"}
Opening == {"power", "pairable", "discover"}
Looking == {"find_pair", "find_remove"}
Starting == {"connect", "register", "unpairable"}   \* serve has no _manager

Init ==
  /\ window = "shut" /\ selected = NoDevice /\ task = 0 /\ replaced = FALSE /\ result = "none"
  /\ pending = NoPrompt /\ ask = [d \in Devices |-> "none"]
  /\ tasks = [r \in Requests |-> NoTask]
  /\ proc = [p \in Procs |-> NewProc(IF p = Serve THEN "connect" ELSE "idle")]
  /\ owner = 0 /\ recent = FALSE /\ restarts = 0 /\ faults = 0
  /\ bluez = [owner |-> 1, agent |-> FALSE, pairable |-> FALSE, discovering |-> FALSE]
  /\ pairs = [d \in Devices |-> 0]

At(p, where) == proc[p].at = where
Goto(p, where) == proc' = [proc EXCEPT ![p].at = where]
Done(p) == proc' = [proc EXCEPT ![p] = NewProc("done")]

\* A call is answered with an error, or not within its 8 s.  bluetoothd
\* fails what it had not answered when it restarted.
CallFails ==
  /\ \/ faults < MaxFaults /\ faults' = faults + 1
     \/ bluez.owner # owner /\ UNCHANGED faults
  /\ UNCHANGED <<owner, recent, restarts>>

Live(r) == r # 0 /\ tasks[r].at \in {"new", "pairing", "trust"}

-----------------------------------------------------------------------------
(* Parts of the manager's methods.                                         *)

\* Mutant: any device may use the agent while the window is open.
guard_window(device) == window = "open"

guard(device) == window = "open" /\ device = selected

\* The prompt's future fails, ask ends and BlueZ gets the error.
cancel_pending ==
  /\ pending' = NoPrompt
  /\ ask' = [d \in Devices |-> IF ask[d] = "waiting" THEN "refused" ELSE ask[d]]

\* The tasks once BlueZ ends d's Pair call with an answer.
Replied(d, reply) ==
  IF pairs[d] = 0 THEN tasks ELSE [tasks EXCEPT ![pairs[d]].reply = reply]

\* do_pair's last lines.
EndTask(r, outcome) ==
  /\ tasks' = [tasks EXCEPT ![r].at = "done"]
  /\ result' = outcome
  /\ cancel_pending
  /\ selected' = NoDevice

\* close's second half: the manager's task is cancelled.  One that has not
\* started never runs, and does not set the result.
CancelTask(ts) ==
  /\ selected' = NoDevice
  /\ tasks' = IF Live(task) THEN [ts EXCEPT ![task].at = "done"] ELSE ts
  /\ result' = IF Live(task) /\ tasks[task].at # "new" THEN "cancelled" ELSE result

\* close up to its first await: CancelPairing if a device is selected.
close(p, op) ==
  /\ window' = "shut"
  /\ cancel_pending
  /\ IF selected = NoDevice
     THEN proc' = [proc EXCEPT ![p] = [op |-> op, at |-> "unpair", dev |-> NoDevice]] /\ CancelTask(tasks)
     ELSE /\ proc' = [proc EXCEPT ![p] = [op |-> op, at |-> "cancelling", dev |-> selected]]
          /\ UNCHANGED <<selected, tasks, result>>
  /\ UNCHANGED <<task, replaced>>

\* What the call a coroutine waits for makes of the adapter.
Effect(at) ==
  CASE at = "pairable" -> [bluez EXCEPT !.pairable = TRUE]
    [] at = "discover" -> [bluez EXCEPT !.discovering = TRUE]
    [] at \in {"unpair", "unpairable"} -> [bluez EXCEPT !.pairable = FALSE]
    [] at = "stop" -> [bluez EXCEPT !.discovering = FALSE]
    [] at = "register" -> [bluez EXCEPT !.agent = TRUE]
    [] OTHER -> bluez

-----------------------------------------------------------------------------
(* Requests of the dashboard, begun in the order of their numbers.         *)

Ready == proc[Serve].at \notin Starting
Next_(r) == At(r, "idle") /\ \A s \in 1..(r - 1) : ~At(s, "idle")

Open(r) ==
  /\ Next_(r) /\ Ready
  /\ close(r, "open")
  /\ UNCHANGED <<radio, world>>

Close(r) ==
  /\ Next_(r) /\ Ready
  /\ close(r, "close")
  /\ UNCHANGED <<radio, world>>

Lookup(r, d, where) ==
  /\ Next_(r) /\ Ready /\ selected = NoDevice
  /\ proc' = [proc EXCEPT ![r] = [op |-> "none", at |-> where, dev |-> d]]
  /\ UNCHANGED <<manager, radio, world>>

Pair(r, d) == window = "open" /\ Lookup(r, d, "find_pair")
Remove(r, d) == Lookup(r, d, "find_remove")

\* hostd runs recover in the request's own thread, without the manager.
Recover(r) ==
  /\ Next_(r) /\ ~recent
  /\ Goto(r, "recover")
  /\ UNCHANGED <<manager, radio, world>>

\* An answer to the prompt shown, or a confirmation declined.
Reply ==
  /\ window = "open" /\ pending # NoPrompt
  /\ \E d \in Devices :
       /\ ask[d] = "waiting"
       /\ \/ ask' = [ask EXCEPT ![d] = "given"] /\ pending' = NoPrompt
          \/ pending.kind = "input" /\ cancel_pending
  /\ UNCHANGED <<window, selected, task, replaced, result, tasks, proc, radio, world>>

-----------------------------------------------------------------------------
(* close, from CancelPairing on.                                           *)

AfterClose(op) ==
  CASE op = "open" -> "power" [] op = "serve" -> "loop" [] OTHER -> "done"

\* CancelPairing is answered or not; then whichever task is the manager's
\* by now is cancelled.
Cancelling(p) ==
  /\ At(p, "cancelling")
  /\ \/ /\ CancelTask(Replied(proc[p].dev, "failed"))
        /\ pairs' = [pairs EXCEPT ![proc[p].dev] = 0]
        /\ UNCHANGED world
     \/ CallFails /\ CancelTask(tasks) /\ UNCHANGED pairs
  /\ IF Live(task) /\ tasks[task].at # "new" THEN cancel_pending ELSE UNCHANGED <<pending, ask>>
  /\ Goto(p, "unpair")
  /\ UNCHANGED <<window, task, replaced, bluez>>

\* Pairable off, then StopDiscovery; errors of either are passed over.
Quieten(p) ==
  /\ proc[p].at \in {"unpair", "stop"}
  /\ \/ bluez' = Effect(proc[p].at) /\ UNCHANGED world
     \/ bluez' = bluez /\ CallFails
  /\ IF At(p, "unpair") THEN Goto(p, "stop") /\ UNCHANGED result
     ELSE /\ proc' = [proc EXCEPT ![p] = NewProc(AfterClose(proc[p].op))]
          /\ result' = IF proc[p].op = "open" THEN "none" ELSE result
  /\ UNCHANGED <<window, selected, task, replaced, pending, ask, tasks, pairs>>

-----------------------------------------------------------------------------
(* The rest of open, pair, remove and recover.                             *)

Opens(p) ==
  /\ proc[p].at \in Opening
  /\ \/ /\ bluez' = Effect(proc[p].at)
        /\ IF At(p, "discover") THEN window' = "open" /\ Done(p)
           ELSE /\ Goto(p, IF At(p, "power") THEN "pairable" ELSE "discover")
                /\ UNCHANGED window
        /\ UNCHANGED <<selected, task, replaced, result, pending, ask, tasks, world>>
     \/ CallFails /\ bluez' \in {bluez, Effect(proc[p].at)} /\ close(p, "abort")
  /\ UNCHANGED pairs

\* pair and remove after GetManagedObjects; the device may be gone.
Finds(r) ==
  /\ proc[r].at \in Looking
  /\ \/ /\ At(r, "find_pair")
        /\ selected' = proc[r].dev /\ result' = "none" /\ task' = r
        /\ replaced' = (replaced \/ Live(task))
        /\ tasks' = [tasks EXCEPT ![r] = [NoTask EXCEPT !.at = "new", !.dev = proc[r].dev]]
        /\ Done(r)
     \/ /\ At(r, "find_remove") /\ Goto(r, "remove")
        /\ UNCHANGED <<selected, result, task, replaced, tasks>>
     \/ Done(r) /\ UNCHANGED <<selected, result, task, replaced, tasks>>
  /\ UNCHANGED <<window, pending, ask, radio, world>>

\* RemoveDevice ends a pairing of the device as well.
Removes(r) ==
  /\ At(r, "remove")
  /\ \/ tasks' = Replied(proc[r].dev, "failed") /\ pairs' = [pairs EXCEPT ![proc[r].dev] = 0]
     \/ UNCHANGED <<tasks, pairs>>
  /\ Done(r)
  /\ UNCHANGED <<window, selected, task, replaced, result, pending, ask, bluez, world>>

\* bluetoothd comes back under another bus name.  The old one may have told
\* the agent that it goes (Release).
Restarted ==
  /\ bluez' = [owner |-> bluez.owner + 1, agent |-> FALSE, pairable |-> FALSE, discovering |-> FALSE]
  /\ tasks' = [r \in Requests |->
       IF \E d \in Devices : pairs[d] = r THEN [tasks[r] EXCEPT !.reply = "failed"] ELSE tasks[r]]
  /\ pairs' = [d \in Devices |-> 0]
  /\ \/ /\ ask' = [d \in Devices |-> IF ask[d] = "waiting" THEN "waiting" ELSE "none"]
        /\ UNCHANGED pending
     \/ ask' = [d \in Devices |-> "none"] /\ pending' = NoPrompt
  /\ UNCHANGED <<window, selected, task, replaced, result>>

Recovers(r) ==
  /\ At(r, "recover")
  /\ recent' = TRUE
  /\ Restarted
  /\ Done(r)
  /\ UNCHANGED <<owner, restarts, faults>>

\* action gives a request up after 12 s.  CancelledError is no Exception:
\* neither open nor close catches it.
GivesUp(r) ==
  /\ proc[r].at \in Closing \cup Opening \cup Looking \cup {"remove"}
  /\ faults < MaxFaults /\ faults' = faults + 1
  /\ bluez' \in {bluez, Effect(proc[r].at)}
  /\ Goto(r, "given up")
  /\ UNCHANGED <<manager, pairs, owner, recent, restarts>>

-----------------------------------------------------------------------------
(* do_pair.                                                                *)

\* Mutant: Pair always gets its 120 s, whatever is left of the window.
DoPairAnyway(r) ==
  /\ tasks[r].at = "new"
  /\ tasks' = [tasks EXCEPT ![r].at = "pairing"]
  /\ pairs' = [pairs EXCEPT ![tasks[r].dev] = r]
  /\ UNCHANGED <<window, selected, task, replaced, result, pending, ask, proc, bluez, world>>

\* Pair is sent unless no time is left; BlueZ refuses a second one.
DoPair(r) ==
  /\ tasks[r].at = "new"
  /\ IF window = "open"
     THEN /\ IF pairs[tasks[r].dev] = 0
             THEN /\ tasks' = [tasks EXCEPT ![r].at = "pairing"]
                  /\ pairs' = [pairs EXCEPT ![tasks[r].dev] = r]
             ELSE tasks' = [tasks EXCEPT ![r].at = "pairing", ![r].reply = "failed"] /\ UNCHANGED pairs
          /\ UNCHANGED <<selected, result, pending, ask>>
     ELSE EndTask(r, "failed") /\ UNCHANGED pairs
  /\ UNCHANGED <<window, task, replaced, proc, bluez, world>>

\* The answer to Pair, or none in time: BlueZ is not told.
Paired(r) ==
  /\ tasks[r].at = "pairing"
  /\ IF tasks[r].reply = "ok"
     THEN tasks' = [tasks EXCEPT ![r].at = "trust"] /\ UNCHANGED <<selected, result, pending, ask>>
     ELSE EndTask(r, "failed")
  /\ UNCHANGED <<window, task, replaced, proc, radio, world>>

Trusted(r) ==
  /\ tasks[r].at = "trust"
  /\ EndTask(r, "ok")
  /\ UNCHANGED <<window, task, replaced, proc, radio, world>>

-----------------------------------------------------------------------------
(* BlueZ and its calls of the agent.                                       *)

AgentCalls(d) == pairs[d] # 0 /\ bluez.agent /\ Ready /\ ask[d] = "none"

\* RequestPinCode, RequestPasskey, RequestConfirmation.
AgentAsks(d) ==
  /\ AgentCalls(d)
  /\ IF guard(d) /\ pending = NoPrompt
     THEN pending' = [dev |-> d, kind |-> "input"] /\ ask' = [ask EXCEPT ![d] = "waiting"]
     ELSE ask' = [ask EXCEPT ![d] = "refused"] /\ UNCHANGED pending
  /\ UNCHANGED <<window, selected, task, replaced, result, tasks, proc, radio, world>>

\* DisplayPinCode and DisplayPasskey; RequestAuthorization and
\* AuthorizeService show nothing.
AgentDisplays(d) ==
  /\ AgentCalls(d)
  /\ IF guard(d)
     THEN /\ pending' \in {pending, [dev |-> d, kind |-> "display"]}
          /\ UNCHANGED ask
     ELSE ask' = [ask EXCEPT ![d] = "refused"] /\ UNCHANGED pending
  /\ UNCHANGED <<window, selected, task, replaced, result, tasks, proc, radio, world>>

\* ask's own timeout.
AskExpires(d) ==
  /\ ask[d] = "waiting"
  /\ ask' = [ask EXCEPT ![d] = "refused"]
  /\ pending' = NoPrompt
  /\ UNCHANGED <<window, selected, task, replaced, result, tasks, proc, radio, world>>

\* BlueZ ends a pairing.  What it was still asking it withdraws (Cancel).
BluezEnds(d) ==
  /\ pairs[d] # 0
  /\ \E reply \in {"ok", "failed"} :
       /\ reply = "ok" => ask[d] \in {"none", "given"}
       /\ tasks' = Replied(d, reply)
  /\ pairs' = [pairs EXCEPT ![d] = 0]
  /\ ask' = [ask EXCEPT ![d] = "none"]
  /\ pending' = IF ask[d] = "waiting" THEN NoPrompt ELSE pending
  /\ UNCHANGED <<window, selected, task, replaced, result, proc, bluez, world>>

\* An answer that comes after the pairing it was for goes nowhere.
AnswerDropped(d) ==
  /\ pairs[d] = 0 /\ ask[d] \in {"given", "refused"}
  /\ ask' = [ask EXCEPT ![d] = "none"]
  /\ UNCHANGED <<window, selected, task, replaced, result, pending, tasks, proc, radio, world>>

BluetoothdRestarts ==
  /\ restarts < MaxRestarts
  /\ restarts' = restarts + 1
  /\ Restarted
  /\ UNCHANGED <<proc, owner, recent, faults>>

-----------------------------------------------------------------------------
(* Time.                                                                   *)

WindowOver ==
  /\ window = "open"
  /\ window' = "over"
  /\ UNCHANGED <<selected, task, replaced, result, pending, ask, tasks, proc, radio, world>>

\* BlueZ's PairableTimeout, as long as the window and counted from before it.
PairableEnds ==
  /\ bluez.pairable /\ window # "open"
  /\ \A p \in Procs : ~At(p, "discover")
  /\ bluez' = [bluez EXCEPT !.pairable = FALSE]
  /\ UNCHANGED <<manager, proc, pairs, world>>

RecoverAgain ==
  /\ recent
  /\ recent' = FALSE
  /\ UNCHANGED <<manager, proc, radio, owner, restarts, faults>>

-----------------------------------------------------------------------------
(* serve.                                                                  *)

\* Another manager on another connection.  bluetoothd drops the agent, the
\* discovery and the pairings of the old connection.
StartOver ==
  /\ window' = "shut" /\ selected' = NoDevice /\ task' = 0 /\ replaced' = FALSE /\ result' = "none"
  /\ pending' = NoPrompt /\ ask' = [d \in Devices |-> "none"]
  /\ tasks' = [r \in Requests |-> NoTask]
  /\ proc' = [p \in Procs |->
       IF p = Serve THEN NewProc("connect")
       ELSE IF proc[p].at \in {"idle", "recover"} THEN proc[p] ELSE NewProc("done")]
  /\ bluez' = [bluez EXCEPT !.agent = FALSE, !.discovering = FALSE]
  /\ pairs' = [d \in Devices |-> 0]

\* Connecting, bluez_owner and init.
ServeStarts ==
  /\ proc[Serve].at \in Starting
  /\ \/ /\ bluez' = Effect(proc[Serve].at)
        /\ IF At(Serve, "connect") THEN Goto(Serve, "register") /\ owner' = bluez.owner
           ELSE /\ Goto(Serve, IF At(Serve, "register") THEN "unpairable" ELSE "loop")
                /\ UNCHANGED owner
        /\ UNCHANGED <<manager, pairs, recent, restarts, faults>>
     \/ CallFails /\ StartOver

\* Mutant: the owner of the bus name is not looked at again.
ServeLoopOnly ==
  /\ At(Serve, "loop") /\ window = "over"
  /\ close(Serve, "serve")
  /\ UNCHANGED <<radio, world>>

\* Mutant: the end of the window only resets the deadline.
ServeLoopForgets ==
  /\ At(Serve, "loop")
  /\ \/ /\ owner = bluez.owner /\ window = "over" /\ window' = "shut" /\ cancel_pending
        /\ UNCHANGED <<selected, task, replaced, result, tasks, proc, radio, world>>
     \/ CallFails /\ StartOver

\* Once a second: bluez_owner (another one, or no answer: start over), then
\* the end of the window.
ServeLoop ==
  /\ At(Serve, "loop")
  /\ \/ owner = bluez.owner /\ window = "over" /\ close(Serve, "serve") /\ UNCHANGED <<radio, world>>
     \/ CallFails /\ StartOver

-----------------------------------------------------------------------------
Request(r) ==
  \/ Open(r) \/ Close(r) \/ Recover(r)
  \/ \E d \in Devices : Pair(r, d) \/ Remove(r, d)

Steps(p) == Cancelling(p) \/ Quieten(p) \/ Opens(p)
ServeSteps == ServeStarts \/ ServeLoop
Answers(r) == Finds(r) \/ Removes(r) \/ Recovers(r)
TaskSteps(r) == DoPair(r) \/ Paired(r) \/ Trusted(r)
BluezSteps(d) == AgentAsks(d) \/ AgentDisplays(d) \/ BluezEnds(d) \/ AnswerDropped(d)

Next ==
  \/ \E r \in Requests : Request(r) \/ Answers(r) \/ GivesUp(r) \/ TaskSteps(r)
  \/ \E p \in Procs : Steps(p)
  \/ \E d \in Devices : BluezSteps(d) \/ AskExpires(d)
  \/ Reply \/ BluetoothdRestarts \/ WindowOver \/ PairableEnds \/ RecoverAgain
  \/ ServeSteps

Spec == Init /\ [][Next]_vars

\* Every call is answered or times out, every timer runs out, and the loop
\* of serve goes round once a second.  Nobody has to answer a prompt, and
\* no fault has to happen.
FairSpec ==
  /\ Spec
  /\ \A p \in Procs : WF_vars(Steps(p) /\ UNCHANGED faults)
  /\ \A r \in Requests : WF_vars(Answers(r)) /\ WF_vars(TaskSteps(r))
  /\ \A d \in Devices : WF_vars(AskExpires(d))
  /\ WF_vars(WindowOver) /\ WF_vars(PairableEnds) /\ WF_vars(ServeSteps /\ UNCHANGED faults)

-----------------------------------------------------------------------------
(* Properties.                                                             *)

\* Closing the window ends what goes on in it: once close is through, no
\* prompt is shown and no do_pair task of this manager waits for bluetoothd,
\* although a pair whose device was still being looked up makes its task
\* after close.  (A close that was given up never gets to cancel the task.)
Quiet ==
  window = "shut" /\ (\A p \in Procs : proc[p].at \notin Closing \cup {"given up"}) =>
    /\ \A r \in Requests : tasks[r].at \notin {"pairing", "trust"}
    /\ pending = NoPrompt

\* That holds until two pairs that looked their devices up at once have both
\* made a task, the second while the first went on: close knows only one.
ClosedIsQuiet == ~replaced => Quiet

\* "Closing/expiry cancels pending requests" (maintenance-and-pairing.md):
\* close leaves no pairing going on, whatever requests came at once.
ClosingCancels == faults = 0 => Quiet

\* An answer from the dashboard goes to the device that was selected, in an
\* open window: not to one whose pairing was given up and which still asks.
\* (Of two pairs at once the later is selected while the earlier one asks.)
AnswerMeant ==
  [][\A d \in Devices : ask[d] = "waiting" /\ ask'[d] = "given"
       => window = "open" /\ (selected = d \/ replaced)]_vars

\* The window ends by itself, and the adapter is then neither pairable nor
\* discovering (no call is lost on the way).
WindowEnds ==
  [](faults = 0) => (window # "shut" ~> window = "shut" /\ ~bluez.pairable /\ ~bluez.discovering)

\* However often bluetoothd restarts, the agent is registered again.
AgentFollows == ~bluez.agent ~> bluez.agent

=============================================================================
