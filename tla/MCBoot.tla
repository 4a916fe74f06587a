------------------------------- MODULE MCBoot -------------------------------
(* Boot with the sizes of the configuration MCBoot.cfg: queues of 3 and 2   *)
(* messages instead of 10 and 16.  More messages behave like the third.     *)
EXTENDS Boot
=============================================================================
