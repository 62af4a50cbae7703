---------------------------- MODULE MCThrowaway ----------------------------
(* Two processes on one server: the first runs the scripts whose sessions  *)
(* end at a timeout, the second the others and the first's rival.          *)
EXTENDS Throwaway, TLC

CONSTANTS r1, r2

TwoRepertoires ==
  (r1 :> {"rehearse", "score"}) @@ (r2 :> {"rehearse", "probe", "walk", "e2e"})
=============================================================================
