----------------------------- MODULE MCReviews -----------------------------
(***************************************************************************)
(* Small instances of Reviews.  alice is a lead with two keys, bob a       *)
(* developer with one; f1 blocks and f2 does not.                          *)
(***************************************************************************)
EXTENDS Reviews

OwnerOf == [k \in Keys |-> IF k = "bob1" THEN "bob" ELSE "alice"]
PlaceOf == [f \in Fp |-> IF f = "f3" THEN "f2" ELSE f]

Agent(f, in) == [fp |-> f, inDiff |-> in]
Resp(f, d, note) == [fp |-> f, disp |-> d, note |-> note]

BothSeeded == <<[user |-> "alice", fps |-> {"f1", "f2"}],
                [user |-> "bob", fps |-> {"f1", "f2"}]>>
AliceSeeded == <<[user |-> "alice", fps |-> {"f1", "f2"}]>>
NoneSeeded == <<>>

\* The agent reports nothing; one finding; the deterministic f2 again, a
\* duplicate of it, and f1 off the diff, past what the cap of two keeps.
AllSubmissions == {<<>>, <<Agent("f1", TRUE)>>,
                   <<Agent("f3", TRUE), Agent("f2", TRUE), Agent("f1", FALSE)>>,
                   <<Agent("f1", FALSE), Agent("f3", TRUE)>>}
TwoSubmissions == {<<Agent("f1", TRUE)>>, <<Agent("f1", FALSE), Agent("f3", TRUE)>>}
NoSubmissions == {<<>>}

\* Each answer, one without the reason it needs, and batches of two that fail
\* or succeed at the second answer.
AllBatches == {<<>>,
               <<Resp("f1", "fixed", FALSE)>>,
               <<Resp("f1", "dismissed", TRUE)>>,
               <<Resp("f2", "fixed", FALSE), Resp("f1", "accepted", TRUE)>>,
               <<Resp("f2", "dismissed", TRUE), Resp("f1", "dismissed", FALSE)>>}
MutingBatches == {<<Resp("f2", "dismissed", TRUE), Resp("f1", "accepted", TRUE)>>,
                  <<Resp("f1", "fixed", FALSE)>>}
CrossedBatches == {<<Resp("f1", "fixed", FALSE), Resp("f2", "fixed", FALSE)>>,
                   <<Resp("f2", "fixed", FALSE), Resp("f1", "dismissed", TRUE)>>,
                   <<Resp("f1", "fixed", FALSE), Resp("f2", "accepted", TRUE)>>}
============================================================================
