------------------------------- MODULE Trails -------------------------------
(* What a review is to whoever reads it later: whose it is, its verdict, and   *)
(* a trail that only grows.  Each call that writes a review is one step here;  *)
(* reviewer/service.py promises no less where _own_review holds the row "for   *)
(* the rest of the transaction" (service.py:635).                              *)
EXTENDS Integers, Sequences

CONSTANTS Users

VARIABLE record   \* the reviews, in the order they were opened

Verdicts == {"pass", "block"}

Entry(n, kind, flag, verdict) == [seq |-> n, kind |-> kind, flag |-> flag, blocking |-> verdict]

Planned == Entry(1, "plan", FALSE, "none")

\* A submission adds what was found and the verdict on it, and says whether the
\* review had been ruled on before.
Submission(n, again, v) == <<Entry(n + 1, "findings", again, "none"),
                             Entry(n + 2, "verdict", FALSE, v)>>

Answered(n) == <<Entry(n + 1, "responses", FALSE, "none")>>

Opened(u, v, trail) == [user |-> u, blocking |-> v, trail |-> trail]

Created(u, v) == Opened(u, v, <<Planned>> \o Submission(1, FALSE, v))

\* The verdict of a review is that of its last ruling, and nothing on its
\* trail is ever rewritten.
Extended(r, v, steps) == Opened(r.user, v, r.trail \o steps)

Init == \A i \in DOMAIN record : \E u \in Users, v \in Verdicts : record[i] = Created(u, v)

Plan == \E u \in Users : record' = Append(record, Opened(u, "none", <<Planned>>))

Create == \E u \in Users, v \in Verdicts : record' = Append(record, Created(u, v))

Submit ==
  \E i \in DOMAIN record, v \in Verdicts :
    LET n == Len(record[i].trail)
    IN record' = [record EXCEPT ![i] = Extended(@, v, Submission(n, n > 1, v))]

Respond ==
  \E i \in DOMAIN record, v \in Verdicts :
    record' = [record EXCEPT ![i] = Extended(@, v, Answered(Len(@.trail)))]

Spec == Init /\ [][Plan \/ Create \/ Submit \/ Respond]_record
=============================================================================
