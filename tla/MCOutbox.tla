-------------------------------- MODULE MCOutbox --------------------------------
(* Outbox for TLC.  A user who goes on writing is not obliged to: the model    *)
(* stops when the bounds are reached, which is why its runs allow deadlock.    *)
EXTENDS Outbox
===============================================================================
