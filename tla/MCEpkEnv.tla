------------------------------ MODULE MCEpkEnv ------------------------------
(* Instance of EpkEnv for TLC: one seed record. *)
EXTENDS EpkEnv

CONSTANTS p1, p2, idle

SeedData == [gen |-> 0, floor |-> 0, epoch |-> 0,
             policy |-> p1, crit |-> idle, aux |-> 0]
=============================================================================
