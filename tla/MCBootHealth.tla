---------------------------- MODULE MCBootHealth ----------------------------
(* BootHealth with the commands' bounds in their order, in turns.          *)
EXTENDS BootHealth

Bounds ==
  [podman_info |-> 2, health |-> 1, env |-> 1, mark_good |-> 2, confirm |-> 4, stop_app |-> 2]
=============================================================================
