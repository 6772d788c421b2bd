---------------------------- MODULE MCLoginGuard ----------------------------
(* One account and one identifier without an account, two handlers, room    *)
(* for one tracked identifier.                                              *)
EXTENDS LoginGuard

CONSTANTS alice, ghost
=============================================================================
