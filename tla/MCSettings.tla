----------------------------- MODULE MCSettings -----------------------------
(* Two leads' tabs on a project whose client overlay takes the rule of the base away. *)
EXTENDS Settings, Walkthrough, TLC

CONSTANTS t1, t2

MCGuidelines == [r \in {"base", "client"} |-> IF r = "base" THEN {"a"} ELSE {}]

\* What the proofs about the walk through these screens take of its script.
ASSUME ScriptIsDisciplined == Disciplined(main)

TabsAlike == Permutations({t1, t2})
=============================================================================
