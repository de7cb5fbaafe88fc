---------------------------- MODULE EnvRegister ----------------------------
(***************************************************************************)
(* What the platform environment promises its callers: one register that   *)
(* holds complete contents only.  A write in progress lands in one step or *)
(* not at all; a call that returned an error, or was cut off, may or may   *)
(* not have landed; what was acknowledged is never undone.                 *)
(* (The comments of epk_env_commit and epk_env_commit_snapshot, epk_env.h, *)
(* as an abstract specification.)                                          *)
(***************************************************************************)
CONSTANTS
  Values,         \* complete contents of the environment
  Seed,           \* the first contents
  Extends(_, _)   \* Extends(n, o): contents n roll nothing of o back

VARIABLES
  value,   \* what a reader gets
  pend,    \* {} or {the contents being written}
  acked    \* the last contents acknowledged to a caller

vars == <<value, pend, acked>>

Init == value = Seed /\ pend = {} /\ acked = Seed

Attempt(v) ==
  /\ pend = {}
  /\ Extends(v, value)
  /\ pend' = {v}
  /\ UNCHANGED <<value, acked>>

Land ==
  /\ value' \in pend
  /\ UNCHANGED <<pend, acked>>

Acknowledge ==
  /\ value \in pend
  /\ pend' = {}
  /\ acked' = value
  /\ UNCHANGED value

Abort ==
  /\ pend' = {}
  /\ UNCHANGED <<value, acked>>

\* Damage to the card may take back what was never acknowledged.
Lose ==
  /\ pend = {}
  /\ value' \in Values
  /\ Extends(value', acked)
  /\ UNCHANGED <<pend, acked>>

Next ==
  \/ \E v \in Values : Attempt(v)
  \/ Land
  \/ Acknowledge
  \/ Abort
  \/ Lose

Spec == Init /\ [][Next]_vars
=============================================================================
