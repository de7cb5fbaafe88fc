------------------------------- MODULE EpkEnv -------------------------------
(***************************************************************************)
(* The redundant platform environment: two 16 KiB records on the SD card,  *)
(* each a CRC, one incremental flag byte and NUL-terminated variables      *)
(* (platform-env/epk_env.c, epk_mmc.c, and the libubootenv/U-Boot patches  *)
(* that route every save through them).                                    *)
(*                                                                         *)
(* A record is abstracted to its CRC verdict, its flag and what the rules  *)
(* tell apart: generation, OS floor, trust epoch, the signed policy, the   *)
(* remaining critical epk_* variables (crit) and every other variable      *)
(* (aux: BOOT_ORDER, BOOT_x_LEFT, ...).                                    *)
(*                                                                         *)
(* A client (the boot loader, or one fw_setenv process under the common    *)
(* lock) imports the selected record, edits the copy and commits it.  The  *)
(* commit writes the other record, reads it back, writes the selected one, *)
(* reads it back, and re-reads both.  Power may go, or the card may report *)
(* an error, between any two of these steps and in the middle of a write;  *)
(* between sessions one of two good records may decay.                     *)
(***************************************************************************)
EXTENDS Integers

CONSTANTS
  FlagMod,    \* values of the flag byte: 256 in the code
  MaxGen,     \* UINT64_MAX in the code: the last generation
  MaxFloor,   \* the largest decimal epk_os_floor
  MaxEpoch,   \* the largest decimal epk_trust_epoch
  Policy,     \* signed policies (epk_trust_policy with its signature)
  Crit,       \* values of the other epk_* variables
  Aux,        \* values of the variables outside epk_*
  Unfit,      \* those of Aux that parse refuses (too large, undecodable)
  Seed        \* the contents os_bootstrap.py seeds both records with

(***************************************************************************)
(* Two flag values cannot order two records: 0 and 1 would each be next to *)
(* the other.  The code has 256.                                           *)
(***************************************************************************)
ASSUME FlagAssumption == FlagMod \in Nat /\ FlagMod > 2

ASSUME BoundsAssumption ==
  MaxGen \in Nat /\ MaxFloor \in Nat /\ MaxEpoch \in Nat

Data == [gen: 0..MaxGen, floor: 0..MaxFloor, epoch: 0..MaxEpoch,
         policy: Policy, crit: Crit, aux: Aux]

ASSUME SeedAssumption == Seed \in Data /\ Seed.aux \notin Unfit /\ Seed.gen = 0

Copies == {0, 1}
Other(i) == 1 - i

Record == [ok: BOOLEAN, flag: 0..(FlagMod - 1), data: Data]

Stages == {"idle", "write0", "torn0", "write1", "torn1", "verify"}

VARIABLES
  rec,    \* the two records on the card
  op,     \* the commit in progress: stage, selected index, flag, new contents
  ready,  \* the client's imported snapshot may be committed
  snap,   \* that snapshot (Seed once it is dropped)
  acked   \* history: the contents of the last acknowledged commit

vars == <<rec, op, ready, snap, acked>>

-----------------------------------------------------------------------------
(* Selection and construction: the pure part of epk_env.c.                 *)

\* parse: every CRC-valid record has to decode and leave the headroom free.
Parses(d) == d.aux \notin Unfit

SameCritical(a, b) ==
  /\ a.floor = b.floor
  /\ a.epoch = b.epoch
  /\ a.policy = b.policy
  /\ a.crit = b.crit

NotOlder(new, old) ==
  /\ new.floor >= old.floor
  /\ new.epoch >= old.epoch
  /\ new.epoch = old.epoch => new.policy = old.policy

\* Mutant: the flag byte never wraps.
FlagPickPlain(a, b) == IF b > a THEN 1 ELSE 0

\* Line 244: the native incremental flag, including the wrap to 0.
FlagPick(a, b) ==
  IF a = FlagMod - 1 /\ b = 0 THEN 1
  ELSE IF a = 0 /\ b = FlagMod - 1 THEN 0
  ELSE IF b > a THEN 1 ELSE 0

SelectIndex(r) ==
  IF ~(r[0].ok /\ r[1].ok) THEN IF r[0].ok THEN 0 ELSE 1
  ELSE IF r[0].data.gen # r[1].data.gen
       THEN IF r[1].data.gen > r[0].data.gen THEN 1 ELSE 0
       ELSE FlagPick(r[0].flag, r[1].flag)

\* The verdict of epk_env_select: OK, or why no record is chosen.
Undecodable(r) == \E i \in Copies : r[i].ok /\ ~Parses(r[i].data)

Conflicting(r) ==
  LET new == r[SelectIndex(r)].data
      old == r[Other(SelectIndex(r))].data
  IN  /\ \A i \in Copies : r[i].ok
      /\ \/ new.gen # old.gen /\ ~NotOlder(new, old)
         \/ new.gen = old.gen /\ ~SameCritical(new, old)

SelectStatus(r) ==
  IF Undecodable(r) \/ \A i \in Copies : ~r[i].ok THEN "INVALID"
  ELSE IF Conflicting(r) THEN "CONFLICT"
  ELSE "OK"

Selected(r) == r[SelectIndex(r)]

\* Mutant: a critical change keeps the generation.
BuildSameGeneration(old, desired) == [desired EXCEPT !.gen = old.gen]

\* build: the new contents carry the next generation iff a critical variable
\* changes (changed_critical), whatever the client asked for.
Build(old, desired) ==
  [desired EXCEPT !.gen = IF SameCritical(old, desired) THEN old.gen
                                                        ELSE old.gen + 1]

\* Mutant: a lower floor or epoch is not refused.
CommitStatusRollsBack(r, desired) ==
  LET old == Selected(r).data
  IN  IF ~Parses(desired) THEN "INVALID"
      ELSE IF SelectStatus(r) # "OK" THEN SelectStatus(r)
      ELSE IF desired.gen # old.gen THEN "CONFLICT"
      ELSE IF ~SameCritical(old, desired) /\ old.gen = MaxGen THEN "OVERFLOW"
      ELSE "OK"

\* Why commit_snapshot refuses desired contents before it writes anything.
CommitStatus(r, desired) ==
  LET old == Selected(r).data
  IN  IF ~Parses(desired) THEN "INVALID"
      ELSE IF SelectStatus(r) # "OK" THEN SelectStatus(r)
      ELSE IF desired.gen # old.gen THEN "CONFLICT"
      ELSE IF ~SameCritical(old, desired) /\ old.gen = MaxGen THEN "OVERFLOW"
      ELSE IF ~NotOlder(desired, old) THEN "CONFLICT"
      ELSE "OK"

NextFlag(f) == (f + 1) % FlagMod

-----------------------------------------------------------------------------
Idle == [stage |-> "idle", chosen |-> 0, flag |-> 0, next |-> Seed]

\* os_bootstrap.py seeds record 0 with flag 1 and record 1 with flag 2.
Init ==
  /\ rec = [i \in Copies |-> [ok |-> TRUE, flag |-> i + 1, data |-> Seed]]
  /\ op = Idle
  /\ ready = FALSE
  /\ snap = Seed
  /\ acked = Seed

\* Importing the environment: at loader start, or when fw_setenv opens it.
Load ==
  /\ op.stage = "idle"
  /\ ready' = (SelectStatus(rec) = "OK")
  /\ snap' = IF ready' THEN Selected(rec).data ELSE snap
  /\ UNCHANGED <<rec, op, acked>>

\* epk_mmc_save up to the first write: the edited snapshot is checked against
\* the record selected now.
Save(desired) ==
  /\ op.stage = "idle"
  /\ ready
  /\ CommitStatus(rec, desired) = "OK"
  /\ op' = [stage  |-> "write0",
            chosen |-> SelectIndex(rec),
            flag   |-> Selected(rec).flag,
            next   |-> Build(Selected(rec).data, desired)]
  /\ snap' = desired
  /\ UNCHANGED <<rec, ready, acked>>

\* A refused commit writes nothing and the snapshot is never used again.
Refuse(desired) ==
  /\ op.stage = "idle"
  /\ ready
  /\ CommitStatus(rec, desired) # "OK"
  /\ ready' = FALSE
  /\ snap' = Seed
  /\ UNCHANGED <<rec, op, acked>>

\* Pass 0 overwrites the record that is not selected, pass 1 the selected one.
PassIndex == IF op.stage \in {"write0", "torn0"} THEN Other(op.chosen)
                                                 ELSE op.chosen

\* The first sectors of the record are overwritten: its CRC no longer holds.
WriteBegin ==
  /\ op.stage \in {"write0", "write1"}
  /\ rec' = [rec EXCEPT ![PassIndex].ok = FALSE]
  /\ op' = [op EXCEPT !.stage = IF op.stage = "write0" THEN "torn0" ELSE "torn1"]
  /\ UNCHANGED <<ready, snap, acked>>

\* Mutant: the commit is done after its first pass.
WriteEndOnce ==
  /\ op.stage \in {"torn0", "torn1"}
  /\ rec' = [rec EXCEPT ![PassIndex] =
               [ok |-> TRUE, flag |-> NextFlag(op.flag), data |-> op.next]]
  /\ op' = [op EXCEPT !.stage = "verify", !.flag = NextFlag(op.flag)]
  /\ UNCHANGED <<ready, snap, acked>>

\* The record is complete, flushed and read back.
WriteEnd ==
  /\ op.stage \in {"torn0", "torn1"}
  /\ rec' = [rec EXCEPT ![PassIndex] =
               [ok |-> TRUE, flag |-> NextFlag(op.flag), data |-> op.next]]
  /\ op' = [op EXCEPT !.stage = IF op.stage = "torn0" THEN "write1" ELSE "verify",
                      !.flag  = NextFlag(op.flag)]
  /\ UNCHANGED <<ready, snap, acked>>

\* Both records are re-read and selected again; only now is the commit
\* acknowledged.  The loader puts the new generation into its snapshot.
Acknowledge ==
  /\ op.stage = "verify"
  /\ op' = Idle
  /\ acked' = op.next
  /\ snap' = [snap EXCEPT !.gen = op.next.gen]
  /\ UNCHANGED <<rec, ready>>

\* Mutant: the loader goes on with its snapshot after a failed save.
IOErrorIgnored ==
  /\ op.stage # "idle"
  /\ op' = Idle
  /\ UNCHANGED <<rec, ready, snap, acked>>

\* A read or write callback fails, or a read-back differs: the commit returns
\* EPK_ENV_IO, with whatever has reached the card, and the snapshot is dropped.
IOError ==
  /\ op.stage # "idle"
  /\ op' = Idle
  /\ ready' = FALSE
  /\ snap' = Seed
  /\ UNCHANGED <<rec, acked>>

\* Power is cut: RAM is lost, the card keeps what it has.
PowerCut ==
  /\ op' = Idle
  /\ ready' = FALSE
  /\ snap' = Seed
  /\ UNCHANGED <<rec, acked>>

\* Between sessions one of two good records decays.
Decay(i) ==
  /\ op.stage = "idle"
  /\ ~ready
  /\ \A c \in Copies : rec[c].ok
  /\ rec' = [rec EXCEPT ![i].ok = FALSE]
  /\ UNCHANGED <<op, ready, snap, acked>>

Next ==
  \/ Load
  \/ \E d \in Data : Save(d) \/ Refuse(d)
  \/ WriteBegin
  \/ WriteEnd
  \/ Acknowledge
  \/ IOError
  \/ PowerCut
  \/ \E i \in Copies : Decay(i)

Spec == Init /\ [][Next]_vars
-----------------------------------------------------------------------------
\* Records, commit in progress and snapshot have their types: generation,
\* flag, floor and epoch stay within the widths of the code.
TypeOK ==
  /\ rec \in [Copies -> Record]
  /\ op \in [stage: Stages, chosen: Copies, flag: 0..(FlagMod - 1), next: Data]
  /\ ready \in BOOLEAN
  /\ snap \in Data
  /\ acked \in Data

(***************************************************************************)
(* Whatever was interrupted and wherever, the two records on the card      *)
(* never make epk_env_select refuse: the loader can always start.          *)
(***************************************************************************)
AlwaysSelectable == SelectStatus(rec) = "OK"

\* Contents n carry on from contents o: same critical state, or a later
\* generation that rolls nothing back.
Extends(n, o) ==
  \/ n.gen = o.gen /\ SameCritical(n, o)
  \/ n.gen > o.gen /\ NotOlder(n, o)

(***************************************************************************)
(* What a caller was told is stored stays stored: after any number of      *)
(* failed commits, power cuts and the decay of one record, the selected    *)
(* contents are the acknowledged ones or carry on from them, so neither    *)
(* the OS floor, the trust epoch nor a policy of the same epoch goes back. *)
(***************************************************************************)
AckedDurable == Extends(Selected(rec).data, acked)

(***************************************************************************)
(* A snapshot that may still be committed is the selected state itself:    *)
(* no commit can silently undo another one ("never retry from their stale  *)
(* snapshot", epk_env.h).                                                  *)
(***************************************************************************)
SnapshotFresh ==
  ready /\ op.stage = "idle" => snap = Selected(rec).data

(***************************************************************************)
(* Except when a record decays, the selected contents change in one step   *)
(* only: to the complete new contents of the commit in progress, never to  *)
(* an older or a mixed state.  In particular floor and epoch never fall.   *)
(***************************************************************************)
SelectionStep ==
  \/ Selected(rec').data = Selected(rec).data
  \/ /\ op.stage = "torn0"
     /\ Selected(rec').data = op.next
     /\ Extends(op.next, Selected(rec).data)
  \/ op.stage = "idle" /\ \E i \in Copies : Decay(i)

SelectionMovesForward == [][SelectionStep]_vars

(***************************************************************************)
(* The two records implement the register of EnvRegister: its value is the *)
(* selected contents, and a commit lands when its pass 0 completes.        *)
(***************************************************************************)
Register == INSTANCE EnvRegister WITH
  Values <- Data,
  value  <- Selected(rec).data,
  pend   <- IF op.stage = "idle" THEN {} ELSE {op.next}

IsRegister == Register!Spec
=============================================================================
