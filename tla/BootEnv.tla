------------------------------- MODULE BootEnv -------------------------------
(***************************************************************************)
(* The boot variables of the platform environment and what the slot loader *)
(* (boot-slot.cmd), the guarded fw_setenv batches of the OS update code    *)
(* (epilykos_os_activate.py) and RAUC's U-Boot backend do to them.         *)
(*                                                                         *)
(* One environment value is a record.  A batch replaces it in one step or  *)
(* not at all: EpkEnv proves that of the two records on the card.          *)
(*                                                                         *)
(* A job is identified by a number (0: none).  epk_os_from is always the   *)
(* slot that epk_os_target is not, and the signed hash belongs to the      *)
(* sequence, so neither has a field of its own.                            *)
(***************************************************************************)
EXTENDS Integers, Sequences

CONSTANTS
  MaxJobs,    \* OS update jobs are numbered 1..MaxJobs
  MaxSeq,     \* signed release sequences are 1..MaxSeq; 0 is the first image
  BadDrops    \* may RAUC's mark-bad also drop the slot from BOOT_ORDER?

ASSUME JobsAssumption == MaxJobs \in Nat /\ MaxSeq \in Nat
ASSUME BadDropsAssumption == BadDrops \subseteq BOOLEAN /\ BadDrops # {}

Slots == {"A", "B"}
Other(s) == IF s = "A" THEN "B" ELSE "A"

JobIds == 0..MaxJobs
Sequences0 == 0..MaxSeq

Orders == {<<"A", "B">>, <<"B", "A">>, <<"A">>, <<"B">>}

Attempts == 3

\* The phases the code writes; the loader also knows ready and trying.
Phases == {"none", "activation_intent", "activated", "confirming", "promoting"}
TrialPhases == {"activated", "confirming", "promoting"}

Env == [order: Orders, left: [Slots -> 0..Attempts], pending: JobIds,
        target: Slots \cup {"none"}, seq: Sequences0, phase: Phases,
        trial: JobIds, floor: Sequences0]

\* tools/os_bootstrap.py: both slots hold the first image.
SeedEnv == [order |-> <<"A", "B">>, left |-> [s \in Slots |-> Attempts],
            pending |-> 0, target |-> "none", seq |-> 0, phase |-> "none",
            trial |-> 0, floor |-> 0]

-----------------------------------------------------------------------------
(* boot-slot.cmd                                                           *)

\* Lines 33-63: a pending job is complete and consistent, or there is none.
PendingConsistent(e) ==
  IF e.pending # 0
  THEN /\ e.target \in Slots
       /\ e.seq # 0
       /\ e.phase # "none"
       /\ e.trial \in {0, e.pending}
  ELSE /\ e.phase = "none"
       /\ e.trial = 0
       /\ e.target = "none"
       /\ e.seq = 0

\* Lines 65-83: the positions of BOOT_ORDER whose slot has attempts left.
Eligible(e) == {i \in DOMAIN e.order : e.left[e.order[i]] # 0}

LoaderHalts(e) == ~PendingConsistent(e) \/ Eligible(e) = {}

\* The first eligible slot.
LoaderSlot(e) ==
  e.order[CHOOSE i \in Eligible(e) : \A j \in Eligible(e) : i <= j]

\* Lines 85-94: the attempt is spent and, on the target of the pending job,
\* the trial marked, in one save before the slot is started.
LoaderSpend(e) ==
  LET s == LoaderSlot(e)
  IN  [e EXCEPT !.left[s] = @ - 1,
                !.trial = IF e.pending # 0 /\ s = e.target THEN e.pending ELSE @]

-----------------------------------------------------------------------------
(* RAUC's U-Boot backend (external), as the code and its tests use it.     *)

MarkActive(e, s) ==
  [e EXCEPT !.order = <<s, Other(s)>>, !.left[s] = Attempts]

\* Mutant: a healthy boot gets no attempts back.
MarkGoodForgets(e, s) == e

MarkGood(e, s) == [e EXCEPT !.left[s] = Attempts]

\* boot-slot.cmd accepts an order of one slot: mark-bad may leave one.
MarkBad(e, s) ==
  {[e EXCEPT !.left[s] = 0,
             !.order = IF drop /\ Len(@) = 2 THEN <<Other(s)>> ELSE @] :
     drop \in BadDrops}

-----------------------------------------------------------------------------
(* The batches of epilykos_os_activate.py.                                 *)

ClearPending(e) ==
  [e EXCEPT !.pending = 0, !.target = "none", !.seq = 0,
            !.phase = "none", !.trial = 0]

\* Mutant: the floor is raised when the new slot is activated.
ActivationIntentFloors(e, job) ==
  [e EXCEPT !.pending = job.id, !.target = job.tgt, !.seq = job.seq,
            !.phase = "activation_intent", !.trial = 0, !.floor = job.seq]

ActivationIntent(e, job) ==
  [e EXCEPT !.pending = job.id, !.target = job.tgt, !.seq = job.seq,
            !.phase = "activation_intent", !.trial = 0]

SetPhase(e, phase) == [e EXCEPT !.phase = phase]

\* Mutant: the batch forgets the floor.
PromoteUnfloored(e, seq) == [e EXCEPT !.phase = "promoting"]

\* Confirmation raises the floor and enters promoting in one batch.
Promote(e, seq) ==
  [e EXCEPT !.floor = IF seq > @ THEN seq ELSE @, !.phase = "promoting"]

\* verify_target, fail_install: slot t cannot boot and s is the default.
NonBootable(e, t) == e.left[t] = 0 /\ Head(e.order) = Other(t)
=============================================================================
