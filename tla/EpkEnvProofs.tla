---------------------------- MODULE EpkEnvProofs ----------------------------
(***************************************************************************)
(* Proofs about the redundant environment (EpkEnv), for every number of    *)
(* flag values above two, every generation limit and every set of policies *)
(* and variable values.                                                    *)
(***************************************************************************)
EXTENDS EpkEnv, TLAPS

-----------------------------------------------------------------------------
(* The inductive invariant.                                                *)

\* Record c of the pair r is the newest: it is good, and a good other record
\* is the one it was written after.
Newest(r, c) ==
  /\ r[c].ok
  /\ Parses(r[c].data)
  /\ r[Other(c)].ok =>
       /\ Parses(r[Other(c)].data)
       /\ r[c].flag = NextFlag(r[Other(c)].flag)
       /\ Extends(r[c].data, r[Other(c)].data)

NewestAt(c) == Newest(rec, c)

\* What each stage of a commit knows about the two records.
StageInv ==
  /\ op.stage = "idle" => \E c \in Copies : NewestAt(c)
  /\ op.stage \in {"write0", "torn0"} =>
       /\ NewestAt(op.chosen)
       /\ op.flag = rec[op.chosen].flag
       /\ Parses(op.next)
       /\ Extends(op.next, rec[op.chosen].data)
  /\ op.stage = "torn0" => ~rec[Other(op.chosen)].ok
  /\ op.stage \in {"write1", "torn1", "verify"} =>
       /\ Parses(op.next)
       /\ rec[Other(op.chosen)].data = op.next
       /\ rec[Other(op.chosen)].ok
  /\ op.stage \in {"write1", "torn1"} =>
       /\ NewestAt(Other(op.chosen))
       /\ op.flag = rec[Other(op.chosen)].flag
  /\ op.stage = "torn1" => ~rec[op.chosen].ok
  /\ op.stage = "verify" =>
       /\ NewestAt(op.chosen)
       /\ rec[op.chosen].data = op.next

\* Both records, where good, carry on from the acknowledged contents: that is
\* why losing either of them loses nothing that was acknowledged.
AckInv == \A i \in Copies : rec[i].ok => Extends(rec[i].data, acked)

\* While a commit runs its snapshot is the new contents but for the generation.
SnapInv ==
  ready => IF op.stage = "idle"
           THEN \E c \in Copies : NewestAt(c) /\ snap = rec[c].data
           ELSE op.next = [snap EXCEPT !.gen = op.next.gen]

EnvInv == TypeOK /\ StageInv /\ AckInv /\ SnapInv

-----------------------------------------------------------------------------
(* Facts about the pure operators.                                         *)

LEMMA ExtendsReflexive == \A d \in Data : Extends(d, d)
BY DEF Extends, SameCritical, Data

LEMMA ExtendsTransitive ==
  \A a, b, c \in Data : Extends(a, b) /\ Extends(b, c) => Extends(a, c)
BY BoundsAssumption DEF Extends, SameCritical, NotOlder, Data

(* A commit that is not refused builds contents of the right shape that    *)
(* parse and carry on from the selected ones.                              *)
LEMMA BuildExtends ==
  ASSUME NEW old \in Data, NEW d \in Data, d.gen = old.gen,
         SameCritical(old, d) \/ old.gen # MaxGen, NotOlder(d, old)
  PROVE  /\ Build(old, d) \in Data
         /\ Extends(Build(old, d), old)
         /\ Build(old, d).aux = d.aux
         /\ Build(old, d) = [d EXCEPT !.gen = Build(old, d).gen]
BY BoundsAssumption DEF Build, Extends, SameCritical, NotOlder, Data

LEMMA NextFlagType ==
  \A f \in 0..(FlagMod - 1) : NextFlag(f) \in 0..(FlagMod - 1)
BY FlagAssumption DEF NextFlag

LEMMA NextFlagIs ==
  ASSUME NEW f \in 0..(FlagMod - 1)
  PROVE  NextFlag(f) = IF f = FlagMod - 1 THEN 0 ELSE f + 1
BY FlagAssumption DEF NextFlag

(* The flag comparison finds the record written last, across the wrap too. *)
LEMMA FlagPickNewest ==
  ASSUME NEW f \in 0..(FlagMod - 1)
  PROVE  FlagPick(f, NextFlag(f)) = 1 /\ FlagPick(NextFlag(f), f) = 0
BY FlagAssumption, NextFlagIs DEF FlagPick

(* epk_env_select accepts the records and chooses the newest one.          *)
LEMMA SelectsNewest ==
  ASSUME NEW r, NEW c \in Copies, r \in [Copies -> Record], Newest(r, c)
  PROVE  SelectStatus(r) = "OK" /\ SelectIndex(r) = c
<1> DEFINE o == Other(c)
<1>0. /\ o \in Copies /\ c # o /\ Copies = {c, o} /\ Other(o) = c
      /\ r[c] \in Record /\ r[o] \in Record
      /\ r[0] \in Record /\ r[1] \in Record
      /\ r[c].flag \in 0..(FlagMod - 1) /\ r[o].flag \in 0..(FlagMod - 1)
      /\ r[c].data.gen \in Nat /\ r[o].data.gen \in Nat
  BY BoundsAssumption DEF Copies, Other, Record, Data
<1>1. CASE ~r[o].ok
  <2>1. SelectIndex(r) = c
    BY <1>0, <1>1 DEF SelectIndex, Copies, Other, Newest
  <2> QED BY <1>0, <1>1, <2>1 DEF SelectStatus, Undecodable, Conflicting, Newest
<1>2. CASE r[o].ok
  <2>1. SelectIndex(r) = c
    <3>1. CASE r[c].data.gen # r[o].data.gen
      BY <1>0, <1>2, <3>1 DEF SelectIndex, Copies, Other, Newest, Extends
    <3>2. CASE r[c].data.gen = r[o].data.gen
      <4>1. SelectIndex(r) = FlagPick(r[0].flag, r[1].flag)
        BY <1>0, <1>2, <3>2 DEF SelectIndex, Newest, Copies, Other
      <4>2. r[c].flag = NextFlag(r[o].flag)
        BY <1>2 DEF Newest
      <4>3. CASE c = 1
        <5>1. FlagPick(r[o].flag, r[c].flag) = 1
          BY <1>0, <4>2, FlagPickNewest
        <5> QED BY <4>1, <4>3, <5>1 DEF Other
      <4>4. CASE c = 0
        <5>1. FlagPick(r[c].flag, r[o].flag) = 0
          BY <1>0, <4>2, FlagPickNewest
        <5> QED BY <4>1, <4>4, <5>1 DEF Other
      <4> QED BY <4>3, <4>4 DEF Copies
    <3> QED BY <3>1, <3>2
  <2>2. Extends(r[c].data, r[o].data) /\ Parses(r[c].data) /\ Parses(r[o].data)
    BY <1>2 DEF Newest
  <2>3. r[c].ok BY DEF Newest
  <2> QED
    BY <1>0, <1>2, <2>1, <2>2, <2>3 DEF SelectStatus, Undecodable, Conflicting, Extends
<1> QED BY <1>1, <1>2

(* Some record is the newest at every stage, so selection never refuses.   *)
LEMMA SomeNewest ==
  ASSUME TypeOK, StageInv
  PROVE  \E c \in Copies : NewestAt(c)
<1>1. op.stage \in Stages /\ op.chosen \in Copies /\ Other(op.chosen) \in Copies
  BY DEF TypeOK, Copies, Other
<1> QED BY <1>1 DEF StageInv, Stages

-----------------------------------------------------------------------------
(* Invariance, one lemma per action that changes the records or the stage. *)

LEMMA InitInv == Init => EnvInv
<1> SUFFICES ASSUME Init PROVE EnvInv
  OBVIOUS
<1>1. TypeOK
  <2>1. Idle \in [stage: Stages, chosen: Copies, flag: 0..(FlagMod - 1), next: Data]
    BY FlagAssumption, SeedAssumption DEF Idle, Copies, Stages
  <2>2. rec \in [Copies -> Record]
    BY FlagAssumption, SeedAssumption DEF Init, Record, Copies
  <2>3. ready \in BOOLEAN
    BY Zenon DEF Init
  <2> QED BY <2>1, <2>2, <2>3, SeedAssumption DEF Init, TypeOK
<1>2. NewestAt(1)
  BY FlagAssumption, SeedAssumption, ExtendsReflexive
     DEF Init, NewestAt, Newest, Other, Copies, Parses, NextFlag
<1>3. StageInv
  BY <1>2 DEF StageInv, Init, Idle, Copies
<1>4. AckInv
  BY SeedAssumption, ExtendsReflexive DEF AckInv, Init, Copies
<1>5. SnapInv
  BY DEF SnapInv, Init
<1> QED BY <1>1, <1>3, <1>4, <1>5 DEF EnvInv

LEMMA LoadInv == EnvInv /\ Load => EnvInv'
<1> SUFFICES ASSUME EnvInv, Load PROVE EnvInv'
  OBVIOUS
<1> USE DEF EnvInv
<1>1. PICK c \in Copies : NewestAt(c)
  BY SomeNewest
<1>2. SelectIndex(rec) = c /\ SelectStatus(rec) = "OK"
  BY <1>1, SelectsNewest DEF TypeOK, NewestAt
<1>3. rec' = rec /\ op' = op /\ acked' = acked /\ op.stage = "idle"
      /\ snap' = rec[c].data /\ ready'
  BY <1>2 DEF Load, Selected
<1>4. TypeOK'
  BY <1>3 DEF TypeOK, Record, Load
<1>5. StageInv' /\ AckInv' /\ NewestAt(c)'
  BY <1>1, <1>3 DEF StageInv, AckInv, NewestAt, Newest
<1>6. SnapInv'
  BY <1>3, <1>5 DEF SnapInv
<1> QED BY <1>4, <1>5, <1>6

LEMMA SaveInv == ASSUME NEW d \in Data, EnvInv, Save(d) PROVE EnvInv'
<1> USE DEF EnvInv
<1>1. PICK c \in Copies : NewestAt(c)
  BY SomeNewest
<1>2. SelectIndex(rec) = c /\ SelectStatus(rec) = "OK"
  BY <1>1, SelectsNewest DEF TypeOK, NewestAt
<1> DEFINE old == rec[c].data
           new == Build(old, d)
<1>3. rec[c] \in Record /\ old \in Data /\ rec[c].flag \in 0..(FlagMod - 1)
  BY DEF TypeOK, Record
<1>4. /\ Parses(d) /\ d.gen = old.gen
      /\ SameCritical(old, d) \/ old.gen # MaxGen
      /\ NotOlder(d, old)
  BY <1>2 DEF Save, CommitStatus, Selected
<1>5. /\ new \in Data /\ Extends(new, old) /\ new.aux = d.aux
      /\ new = [d EXCEPT !.gen = new.gen]
  BY <1>3, <1>4, BuildExtends
<1>6. /\ op' = [stage |-> "write0", chosen |-> c, flag |-> rec[c].flag, next |-> new]
      /\ rec' = rec /\ ready' = ready /\ acked' = acked /\ snap' = d
  BY <1>2 DEF Save, Selected
<1>7. TypeOK'
  BY <1>3, <1>5, <1>6 DEF TypeOK, Stages
<1>8. StageInv'
  BY <1>1, <1>4, <1>5, <1>6 DEF StageInv, NewestAt, Newest, Parses
<1>9. AckInv' /\ SnapInv'
  BY <1>5, <1>6 DEF AckInv, SnapInv
<1> QED BY <1>7, <1>8, <1>9

LEMMA DropInv ==
  ASSUME EnvInv, rec' = rec, op' = Idle, ready' = FALSE, snap' = Seed, acked' = acked
  PROVE  EnvInv'
<1> USE DEF EnvInv
<1>1. TypeOK'
  <2>1. Idle \in [stage: Stages, chosen: Copies, flag: 0..(FlagMod - 1), next: Data]
    BY FlagAssumption, SeedAssumption DEF Idle, Copies, Stages
  <2>2. ready' \in BOOLEAN
    BY Zenon
  <2> QED BY <2>1, <2>2, SeedAssumption DEF TypeOK
<1>2. PICK c \in Copies : NewestAt(c)
  BY SomeNewest
<1>3. StageInv'
  BY <1>2 DEF StageInv, NewestAt, Newest, Idle
<1>4. AckInv' /\ SnapInv'
  BY DEF AckInv, SnapInv
<1> QED BY <1>1, <1>3, <1>4

LEMMA WriteBeginInv == EnvInv /\ WriteBegin => EnvInv'
<1> SUFFICES ASSUME EnvInv, WriteBegin PROVE EnvInv'
  OBVIOUS
<1> USE DEF EnvInv
<1> DEFINE c == op.chosen
           o == Other(op.chosen)
<1>0. c \in Copies /\ o \in Copies /\ c # o /\ Other(o) = c /\ Copies = {c, o}
      /\ rec[c] \in Record /\ rec[o] \in Record
  BY DEF TypeOK, Copies, Other
<1>1. CASE op.stage = "write0"
  <2>1. /\ rec' = [rec EXCEPT ![o].ok = FALSE]
        /\ op' = [op EXCEPT !.stage = "torn0"]
        /\ UNCHANGED <<ready, snap, acked>>
    BY <1>1 DEF WriteBegin, PassIndex
  <2>2. TypeOK'
    BY <1>0, <2>1 DEF TypeOK, Record, Stages
  <2>3. rec'[c] = rec[c] /\ ~rec'[o].ok
    BY <1>0, <2>1 DEF TypeOK, Record
  <2>3a. op'.stage = "torn0" /\ op'.chosen = c /\ op'.flag = op.flag /\ op'.next = op.next
    BY <2>1 DEF TypeOK
  <2>4. StageInv'
    BY <1>0, <1>1, <2>3, <2>3a DEF StageInv, NewestAt, Newest, TypeOK
  <2>5. AckInv'
    BY <1>0, <2>1, <2>3 DEF AckInv
  <2>6. SnapInv'
    BY <1>1, <2>1, <2>3a DEF SnapInv
  <2> QED BY <2>2, <2>4, <2>5, <2>6
<1>2. CASE op.stage = "write1"
  <2>1. /\ rec' = [rec EXCEPT ![c].ok = FALSE]
        /\ op' = [op EXCEPT !.stage = "torn1"]
        /\ UNCHANGED <<ready, snap, acked>>
    BY <1>2 DEF WriteBegin, PassIndex
  <2>2. TypeOK'
    BY <1>0, <2>1 DEF TypeOK, Record, Stages
  <2>3. rec'[o] = rec[o] /\ ~rec'[c].ok
    BY <1>0, <2>1 DEF TypeOK, Record
  <2>3a. op'.stage = "torn1" /\ op'.chosen = c /\ op'.flag = op.flag /\ op'.next = op.next
    BY <2>1 DEF TypeOK
  <2>4. StageInv'
    BY <1>0, <1>2, <2>3, <2>3a DEF StageInv, NewestAt, Newest, TypeOK
  <2>5. AckInv'
    BY <1>0, <2>1, <2>3 DEF AckInv
  <2>6. SnapInv'
    BY <1>2, <2>1, <2>3a DEF SnapInv
  <2> QED BY <2>2, <2>4, <2>5, <2>6
<1> QED BY <1>1, <1>2 DEF WriteBegin

LEMMA WriteEndInv == EnvInv /\ WriteEnd => EnvInv'
<1> SUFFICES ASSUME EnvInv, WriteEnd PROVE EnvInv'
  OBVIOUS
<1> USE DEF EnvInv
<1> DEFINE c == op.chosen
           o == Other(op.chosen)
           r == [ok |-> TRUE, flag |-> NextFlag(op.flag), data |-> op.next]
<1>0. c \in Copies /\ o \in Copies /\ c # o /\ Other(o) = c /\ Copies = {c, o}
      /\ rec[c] \in Record /\ rec[o] \in Record
      /\ op.flag \in 0..(FlagMod - 1) /\ op.next \in Data /\ acked \in Data
  BY DEF TypeOK, Copies, Other
<1>0a. r \in Record /\ NextFlag(op.flag) \in 0..(FlagMod - 1)
  BY <1>0, NextFlagType DEF Record
<1>1. CASE op.stage = "torn0"
  <2>1. /\ rec' = [rec EXCEPT ![o] = r]
        /\ op' = [op EXCEPT !.stage = "write1", !.flag = NextFlag(op.flag)]
        /\ UNCHANGED <<ready, snap, acked>>
    BY <1>1 DEF WriteEnd, PassIndex
  <2>2. TypeOK'
    BY <1>0, <1>0a, <2>1 DEF TypeOK, Stages
  <2>3. rec'[c] = rec[c] /\ rec'[o] = r
    BY <1>0, <2>1 DEF TypeOK
  <2>4. op'.stage = "write1" /\ op'.chosen = c /\ op'.flag = r.flag /\ op'.next = op.next
    BY <2>1 DEF TypeOK
  <2>5. /\ NewestAt(c) /\ rec[c].flag = op.flag /\ Extends(op.next, rec[c].data)
        /\ Parses(op.next) /\ Parses(rec[c].data) /\ rec[c].ok
    BY <1>1 DEF StageInv, NewestAt, Newest
  <2>6. NewestAt(o)'
    BY <1>0, <2>3, <2>4, <2>5 DEF NewestAt, Newest
  <2>7. StageInv'
    BY <1>0, <2>3, <2>4, <2>5, <2>6 DEF StageInv
  <2>8. AckInv'
    <3>1. Extends(rec[c].data, acked) /\ rec[c].data \in Data
      BY <1>0, <2>5 DEF AckInv, Record
    <3>2. Extends(op.next, acked)
      BY <1>0, <2>5, <3>1, ExtendsTransitive
    <3> QED BY <1>0, <2>1, <2>3, <3>1, <3>2 DEF AckInv
  <2>9. SnapInv'
    BY <1>1, <2>1, <2>4 DEF SnapInv
  <2> QED BY <2>2, <2>7, <2>8, <2>9
<1>2. CASE op.stage = "torn1"
  <2>1. /\ rec' = [rec EXCEPT ![c] = r]
        /\ op' = [op EXCEPT !.stage = "verify", !.flag = NextFlag(op.flag)]
        /\ UNCHANGED <<ready, snap, acked>>
    BY <1>2 DEF WriteEnd, PassIndex
  <2>2. TypeOK'
    BY <1>0, <1>0a, <2>1 DEF TypeOK, Stages
  <2>3. rec'[o] = rec[o] /\ rec'[c] = r
    BY <1>0, <2>1 DEF TypeOK
  <2>4. op'.stage = "verify" /\ op'.chosen = c /\ op'.next = op.next
    BY <2>1 DEF TypeOK
  <2>5. /\ rec[o].flag = op.flag /\ rec[o].data = op.next
        /\ Parses(op.next) /\ rec[o].ok
    BY <1>2 DEF StageInv
  <2>6. NewestAt(c)'
    BY <1>0, <2>3, <2>4, <2>5, ExtendsReflexive DEF NewestAt, Newest
  <2>7. StageInv'
    BY <1>0, <2>3, <2>4, <2>5, <2>6 DEF StageInv
  <2>8. AckInv'
    BY <1>0, <2>1, <2>3, <2>5 DEF AckInv
  <2>9. SnapInv'
    BY <1>2, <2>1, <2>4 DEF SnapInv
  <2> QED BY <2>2, <2>7, <2>8, <2>9
<1> QED BY <1>1, <1>2 DEF WriteEnd

LEMMA AcknowledgeInv == EnvInv /\ Acknowledge => EnvInv'
<1> SUFFICES ASSUME EnvInv, Acknowledge PROVE EnvInv'
  OBVIOUS
<1> USE DEF EnvInv
<1>a. PICK c \in Copies : c = op.chosen
  BY DEF TypeOK
<1>b. PICK o \in Copies : o = Other(c)
  BY DEF Copies, Other
<1>0. Copies = {c, o} /\ op.next \in Data /\ op.stage = "verify"
  BY <1>a, <1>b DEF TypeOK, Copies, Other, Acknowledge
<1>1. NewestAt(c) /\ rec[c].data = op.next /\ rec[o].data = op.next
  BY <1>0, <1>a, <1>b DEF StageInv
<1>2. rec' = rec /\ ready' = ready /\ acked' = op.next /\ op' = Idle
      /\ snap' = [snap EXCEPT !.gen = op.next.gen]
  BY DEF Acknowledge
<1>3. ready => snap' = op.next
  BY <1>0, <1>2 DEF SnapInv
<1>4. TypeOK'
  <2>1. Idle \in [stage: Stages, chosen: Copies, flag: 0..(FlagMod - 1), next: Data]
    BY FlagAssumption, SeedAssumption DEF Idle, Copies, Stages
  <2>2. snap' \in Data
    BY <1>0, <1>2 DEF TypeOK, Data
  <2> QED BY <1>0, <1>2, <2>1, <2>2 DEF TypeOK
<1>5. NewestAt(c)' /\ op'.stage = "idle"
  BY <1>1, <1>2 DEF NewestAt, Newest, Idle
<1>6. StageInv'
  BY <1>0, <1>5 DEF StageInv
<1>7. AckInv'
  BY <1>0, <1>1, <1>2, ExtendsReflexive DEF AckInv
<1>8. SnapInv'
  BY <1>0, <1>1, <1>2, <1>3, <1>5 DEF SnapInv
<1> QED BY <1>4, <1>6, <1>7, <1>8

LEMMA DecayInv == ASSUME NEW i \in Copies, EnvInv, Decay(i) PROVE EnvInv'
<1> USE DEF EnvInv
<1> DEFINE o == Other(i)
<1>0. o \in Copies /\ i # o /\ Other(o) = i /\ Copies = {i, o}
      /\ rec[i] \in Record /\ rec[o] \in Record
  BY DEF TypeOK, Copies, Other
<1>1. /\ rec' = [rec EXCEPT ![i].ok = FALSE] /\ op.stage = "idle" /\ ~ready
      /\ UNCHANGED <<op, ready, snap, acked>> /\ rec[o].ok /\ rec[i].ok
  BY <1>0 DEF Decay
<1>2. TypeOK'
  BY <1>0, <1>1 DEF TypeOK, Record
<1>3. rec'[o] = rec[o] /\ ~rec'[i].ok
  BY <1>0, <1>1 DEF TypeOK, Record
<1>4. Parses(rec[o].data)
  <2>1. PICK c \in Copies : NewestAt(c)
    BY SomeNewest
  <2>2. c = o \/ Other(c) = o
    BY <1>0, <2>1 DEF Copies, Other
  <2> QED BY <1>1, <2>1, <2>2 DEF NewestAt, Newest
<1>5. NewestAt(o)'
  BY <1>0, <1>1, <1>3, <1>4 DEF NewestAt, Newest
<1>6. StageInv' /\ AckInv' /\ SnapInv'
  BY <1>0, <1>1, <1>3, <1>5 DEF StageInv, AckInv, SnapInv
<1> QED BY <1>2, <1>6

(* Every step of the environment preserves the inductive invariant.        *)
LEMMA StepInv == EnvInv /\ [Next]_vars => EnvInv'
<1> SUFFICES ASSUME EnvInv, [Next]_vars PROVE EnvInv'
  OBVIOUS
<1>1. CASE Load                            BY <1>1, LoadInv
<1>2. ASSUME NEW d \in Data, Save(d)       PROVE EnvInv'  BY <1>2, SaveInv
<1>3. ASSUME NEW d \in Data, Refuse(d)     PROVE EnvInv'
  <2>1. op.stage = "idle" /\ UNCHANGED <<rec, op, acked>> /\ ready' = FALSE /\ snap' = Seed
    BY <1>3 DEF Refuse
  <2>2. TypeOK'
    <3>1. ready' \in BOOLEAN
      BY <2>1, Zenon
    <3> QED BY <2>1, <3>1, SeedAssumption DEF EnvInv, TypeOK
  <2>3. StageInv' /\ AckInv' /\ SnapInv'
    BY <2>1 DEF EnvInv, StageInv, AckInv, SnapInv, NewestAt, Newest
  <2> QED BY <2>2, <2>3 DEF EnvInv
<1>4. CASE WriteBegin                      BY <1>4, WriteBeginInv
<1>5. CASE WriteEnd                        BY <1>5, WriteEndInv
<1>6. CASE Acknowledge                     BY <1>6, AcknowledgeInv
<1>7. CASE IOError                         BY <1>7, DropInv DEF IOError
<1>8. CASE PowerCut                        BY <1>8, DropInv DEF PowerCut
<1>9. ASSUME NEW i \in Copies, Decay(i)    PROVE EnvInv'  BY <1>9, DecayInv
<1>10. CASE UNCHANGED vars
  BY <1>10 DEF EnvInv, vars, TypeOK, StageInv, AckInv, SnapInv, NewestAt, Newest
<1> QED BY <1>1, <1>2, <1>3, <1>4, <1>5, <1>6, <1>7, <1>8, <1>9, <1>10 DEF Next

(* What the inductive invariant says about selection.                      *)
LEMMA InvSelects ==
  ASSUME EnvInv
  PROVE  AlwaysSelectable /\ AckedDurable /\ SnapshotFresh
<1> USE DEF EnvInv
<1>1. PICK c \in Copies : NewestAt(c)
  BY SomeNewest
<1>2. SelectIndex(rec) = c /\ SelectStatus(rec) = "OK"
  BY <1>1, SelectsNewest DEF TypeOK, NewestAt
<1>3. AckedDurable
  BY <1>1, <1>2 DEF AckedDurable, Selected, AckInv, NewestAt, Newest
<1>4. SnapshotFresh
  <2> SUFFICES ASSUME ready, op.stage = "idle" PROVE snap = Selected(rec).data
    BY DEF SnapshotFresh
  <2>1. PICK n \in Copies : NewestAt(n) /\ snap = rec[n].data
    BY DEF SnapInv
  <2> QED BY <2>1, SelectsNewest DEF Selected, TypeOK, NewestAt
<1> QED BY <1>2, <1>3, <1>4 DEF AlwaysSelectable

(***************************************************************************)
(* Type correctness of the environment store.                              *)
(***************************************************************************)
THEOREM TypeCorrect == Spec => []TypeOK
<1>1. EnvInv => TypeOK
  BY DEF EnvInv
<1> QED BY InitInv, StepInv, <1>1, PTL DEF Spec

(***************************************************************************)
(* epk_env_select never refuses the records that commits, cuts, errors and *)
(* the decay of one copy leave behind.                                     *)
(***************************************************************************)
THEOREM NeverRefused == Spec => []AlwaysSelectable
<1>1. EnvInv => AlwaysSelectable
  BY InvSelects
<1> QED BY InitInv, StepInv, <1>1, PTL DEF Spec

(***************************************************************************)
(* An acknowledged commit is never rolled back.                            *)
(***************************************************************************)
THEOREM AcknowledgedStays == Spec => []AckedDurable
<1>1. EnvInv => AckedDurable
  BY InvSelects
<1> QED BY InitInv, StepInv, <1>1, PTL DEF Spec

(***************************************************************************)
(* A snapshot that may be committed is never stale.                        *)
(***************************************************************************)
THEOREM SnapshotsAreFresh == Spec => []SnapshotFresh
<1>1. EnvInv => SnapshotFresh
  BY InvSelects
<1> QED BY InitInv, StepInv, <1>1, PTL DEF Spec

-----------------------------------------------------------------------------
(* The refinement.                                                         *)

(* The contents a reader gets, in terms of the newest record.              *)
LEMMA NewestIsSelected ==
  ASSUME EnvInv, NEW c \in Copies, NewestAt(c)
  PROVE  Selected(rec) = rec[c]
BY SelectsNewest DEF EnvInv, TypeOK, Selected, NewestAt

LEMMA NewestIsSelectedNext ==
  ASSUME EnvInv', NEW c \in Copies, NewestAt(c)'
  PROVE  Selected(rec') = rec'[c]
BY SelectsNewest DEF EnvInv, TypeOK, Selected, NewestAt

(* The selected contents before and after each step that touches a record. *)
LEMMA WriteBeginSelected ==
  EnvInv /\ WriteBegin => Selected(rec') = Selected(rec)
<1> SUFFICES ASSUME EnvInv, WriteBegin PROVE Selected(rec') = Selected(rec)
  OBVIOUS
<1> USE DEF EnvInv
<1>a. PICK c \in Copies : c = op.chosen
  BY DEF TypeOK
<1>b. PICK o \in Copies : o = Other(c) /\ c = Other(o) /\ o # c
  BY DEF Copies, Other
<1>0. EnvInv'
  BY WriteBeginInv
<1>1. CASE op.stage = "write0"
  <2>1. NewestAt(c)
    BY <1>a, <1>1 DEF StageInv
  <2>2. NewestAt(c)'
    BY <1>a, <1>0, <1>1 DEF StageInv, WriteBegin, TypeOK
  <2>3. rec'[c] = rec[c]
    BY <1>a, <1>b, <1>1 DEF WriteBegin, PassIndex, TypeOK
  <2> QED BY <1>0, <2>1, <2>2, <2>3, NewestIsSelected, NewestIsSelectedNext
<1>2. CASE op.stage = "write1"
  <2>1. NewestAt(o)
    BY <1>a, <1>b, <1>2 DEF StageInv
  <2>2. NewestAt(o)'
    BY <1>a, <1>b, <1>0, <1>2 DEF StageInv, WriteBegin, TypeOK
  <2>3. rec'[o] = rec[o]
    BY <1>a, <1>b, <1>2 DEF WriteBegin, PassIndex, TypeOK
  <2> QED BY <1>0, <2>1, <2>2, <2>3, NewestIsSelected, NewestIsSelectedNext
<1> QED BY <1>1, <1>2 DEF WriteBegin

LEMMA WriteEndSelected ==
  ASSUME EnvInv, WriteEnd
  PROVE  /\ Selected(rec').data = op.next
         /\ op.stage = "torn0" => Extends(op.next, Selected(rec).data)
         /\ op.stage = "torn1" => Selected(rec).data = op.next
<1> USE DEF EnvInv
<1>a. PICK c \in Copies : c = op.chosen
  BY DEF TypeOK
<1>b. PICK o \in Copies : o = Other(c) /\ c = Other(o) /\ o # c
  BY DEF Copies, Other
<1>0. EnvInv' /\ op'.chosen = c
  BY <1>a, WriteEndInv DEF WriteEnd, TypeOK
<1>1. CASE op.stage = "torn0"
  <2>1. NewestAt(c) /\ Extends(op.next, rec[c].data)
    BY <1>a, <1>1 DEF StageInv
  <2>2. NewestAt(o)' /\ rec'[o].data = op.next
    BY <1>a, <1>b, <1>0, <1>1 DEF StageInv, WriteEnd, PassIndex, TypeOK
  <2> QED BY <1>0, <1>1, <2>1, <2>2, NewestIsSelected, NewestIsSelectedNext
<1>2. CASE op.stage = "torn1"
  <2>1. NewestAt(o) /\ rec[o].data = op.next
    BY <1>a, <1>b, <1>2 DEF StageInv
  <2>2. NewestAt(c)' /\ rec'[c].data = op.next
    BY <1>a, <1>b, <1>0, <1>2 DEF StageInv, WriteEnd, PassIndex, TypeOK
  <2> QED BY <1>0, <1>2, <2>1, <2>2, NewestIsSelected, NewestIsSelectedNext
<1> QED BY <1>1, <1>2 DEF WriteEnd

(***************************************************************************)
(* Apart from the decay of a record, what a reader gets changes only to    *)
(* the complete contents of the commit in progress.                        *)
(***************************************************************************)
THEOREM OnlyForward == Spec => SelectionMovesForward
<1>1. EnvInv /\ [Next]_vars => [SelectionStep]_vars
  <2> SUFFICES ASSUME EnvInv, [Next]_vars PROVE [SelectionStep]_vars
    OBVIOUS
  <2>1. CASE WriteBegin
    BY <2>1, WriteBeginSelected DEF SelectionStep
  <2>2. CASE WriteEnd
    BY <2>2, WriteEndSelected DEF SelectionStep, WriteEnd
  <2>3. ASSUME NEW i \in Copies, Decay(i) PROVE [SelectionStep]_vars
    BY <2>3 DEF SelectionStep, Decay
  <2>4. CASE rec' = rec
    BY <2>4 DEF SelectionStep
  <2> QED BY <2>1, <2>2, <2>3, <2>4
       DEF Next, Load, Save, Refuse, Acknowledge, IOError, PowerCut, vars
<1> QED BY InitInv, StepInv, <1>1, PTL DEF Spec, SelectionMovesForward

(***************************************************************************)
(* The two records implement the atomic register: reading, committing and  *)
(* being interrupted look like the steps of EnvRegister.                   *)
(***************************************************************************)
THEOREM Refinement == Spec => IsRegister
<1>1. Init => Register!Init
  <2> SUFFICES ASSUME Init PROVE Register!Init
    OBVIOUS
  <2>1. EnvInv
    BY InitInv
  <2>2. PICK c \in Copies : NewestAt(c)
    BY <2>1, SomeNewest DEF EnvInv
  <2>3. Selected(rec).data = Seed
    BY <2>1, <2>2, NewestIsSelected DEF Init
  <2> QED BY <2>3 DEF Init, Idle, Register!Init
<1>2. EnvInv /\ [Next]_vars => [Register!Next]_Register!vars
  <2> SUFFICES ASSUME EnvInv, [Next]_vars PROVE [Register!Next]_Register!vars
    OBVIOUS
  <2> USE DEF Register!vars
  <2>1. CASE Load \/ UNCHANGED vars
    BY <2>1 DEF Load, vars
  <2>2. ASSUME NEW d \in Data, Save(d) PROVE Register!Next
    <3>1. EnvInv' /\ op'.stage = "write0" /\ op.stage = "idle" /\ rec' = rec /\ acked' = acked
      BY <2>2, SaveInv DEF Save
    <3>2. op'.next \in Data /\ op'.chosen \in Copies
      BY <3>1 DEF EnvInv, TypeOK
    <3>3. NewestAt(op'.chosen) /\ Extends(op'.next, rec[op'.chosen].data)
      BY <3>1 DEF EnvInv, StageInv, NewestAt, Newest
    <3>4. Extends(op'.next, Selected(rec).data)
      BY <3>2, <3>3, NewestIsSelected
    <3>5. Register!Attempt(op'.next)
      BY <3>1, <3>4 DEF Register!Attempt
    <3> QED BY <3>2, <3>5 DEF Register!Next
  <2>3. ASSUME NEW d \in Data, Refuse(d) PROVE UNCHANGED Register!vars
    BY <2>3 DEF Refuse
  <2>4. CASE WriteBegin
    BY <2>4, WriteBeginSelected DEF WriteBegin, EnvInv, TypeOK
  <2>5. CASE WriteEnd
    <3>1. op'.next = op.next /\ op.stage # "idle" /\ op'.stage # "idle" /\ acked' = acked
      BY <2>5 DEF WriteEnd, EnvInv, TypeOK
    <3>2. Selected(rec').data = op.next
      BY <2>5, WriteEndSelected
    <3>3. Register!Land
      BY <3>1, <3>2 DEF Register!Land
    <3> QED BY <3>3 DEF Register!Next
  <2>6. CASE Acknowledge
    <3>1. PICK c \in Copies : c = op.chosen /\ NewestAt(c) /\ rec[c].data = op.next
      BY <2>6 DEF Acknowledge, EnvInv, StageInv, TypeOK
    <3>2. Selected(rec).data = op.next
      BY <3>1, NewestIsSelected
    <3>3. Register!Acknowledge
      BY <2>6, <3>2 DEF Acknowledge, Idle, Register!Acknowledge
    <3> QED BY <3>3 DEF Register!Next
  <2>7. CASE IOError \/ PowerCut
    <3>1. Register!Abort
      BY <2>7 DEF IOError, PowerCut, Idle, Register!Abort
    <3> QED BY <3>1 DEF Register!Next
  <2>8. ASSUME NEW i \in Copies, Decay(i) PROVE Register!Next
    <3>1. EnvInv' /\ op' = op /\ op.stage = "idle" /\ acked' = acked
      BY <2>8, DecayInv DEF Decay
    <3>2. PICK c \in Copies : NewestAt(c)'
      BY <3>1 DEF EnvInv, StageInv
    <3>3. Selected(rec') = rec'[c] /\ rec'[c].ok
      BY <3>1, <3>2, NewestIsSelectedNext DEF NewestAt, Newest
    <3>4. Extends(rec'[c].data, acked) /\ rec'[c].data \in Data
      BY <3>1, <3>2, <3>3 DEF EnvInv, AckInv, TypeOK, Record
    <3>5. Register!Lose
      BY <3>1, <3>3, <3>4 DEF Register!Lose
    <3> QED BY <3>5 DEF Register!Next
  <2> QED BY <2>1, <2>2, <2>3, <2>4, <2>5, <2>6, <2>7, <2>8 DEF Next
<1> QED BY InitInv, StepInv, <1>1, <1>2, PTL DEF Spec, IsRegister, Register!Spec

=============================================================================
