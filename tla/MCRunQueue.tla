---------------------------- MODULE MCRunQueue ----------------------------
(* RunQueue with three owners: enough for one to run while two wait, for    *)
(* the backlog threshold to be crossed in both directions, and for a crash  *)
(* to find an owner popped, one queued and one already done.                *)
EXTENDS RunQueue
=============================================================================
