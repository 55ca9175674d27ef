---------------------------- MODULE MCFfiSession ----------------------------
(***************************************************************************)
(* FfiSession with three threads of one call each and two transactions:    *)
(* a transaction used by two threads and ended by a third, and one that    *)
(* begins while calls on its predecessor are still under way.              *)
(***************************************************************************)
EXTENDS FfiSession

=============================================================================
