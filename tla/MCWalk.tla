------------------------------- MODULE MCWalk -------------------------------
(* Two entries, two extensions, two walks of one day. *)
EXTENDS Sweep

MCLandings == {{}, Names}
=============================================================================
