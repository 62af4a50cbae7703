------------------------------ MODULE Session ------------------------------
(* One headless editor session of scripts/lib/review_session.mjs on a case,  *)
(* and the reviews it makes on the server. What the model writes is open:    *)
(* it reports what it likes, but proves a planted defect only with a name it *)
(* has met in the repository.                                                *)
EXTENDS ReviewCases, Naturals

CONSTANTS MaxReviews  \* bound: submits of one session

ASSUME SessionAssumption == MaxReviews \in Nat

VARIABLES
  session,  \* the nested session
  reviews   \* the reviews of the case's project, as the server holds them
sessionVars == <<session, reviews>>

\* Where a finding points: a line of the diff, another line of the changed
\* file (the server suppresses it, and the developer never sees it), or
\* another file (the server keeps it).
Places == {"added line", "untouched line", "other file"}

Findings(c) ==
  [source : {"agent"}, says : {{d} : d \in Planted(c)}, place : Places, quiet : {FALSE}, critical : {FALSE}]

Noise == [source |-> "agent", says |-> {}, place |-> "added line", quiet |-> FALSE, critical |-> FALSE]
NonDefect == [Noise EXCEPT !.quiet = TRUE, !.critical = TRUE]
Deterministic == [Noise EXCEPT !.source = "deterministic", !.critical = TRUE]

suppressed(f) == f.place = "untouched line"

\* The verdict of a review: a critical finding that is shown blocks it.
Blocks(review) == \E f \in review : f.critical /\ ~suppressed(f)

Extras(c) == {Noise, Deterministic} \cup (IF c.quiet THEN {NonDefect} ELSE {})

\* What a session that met these proofs may send with one submit.
Reports(c, known) ==
  {s \cup e : s \in {t \in SUBSET {f \in Findings(c) : f.says \subseteq known} :
                       \A f, g \in t : f.says = g.says => f = g},
              e \in SUBSET Extras(c)}

\* What was sent is remembered: each defect said, with the place it was put in.
NoSession == [at |-> "none", ran |-> FALSE, looked |-> FALSE, known |-> {}, sent |-> {}]

SessionTypeOK ==
  /\ session.at \in {"none", "running", "orphan", "ended"}
  /\ Len(reviews) <= MaxReviews

-----------------------------------------------------------------------------

\* The session starts on the diff, of which it needs to look for nothing.
buildPlainRepo(c) == c.files[c.changed].text

runSession(c) ==
  /\ session' = [NoSession EXCEPT !.at = "running", !.known = Proves(c, buildPlainRepo(c))]
  /\ reviews' = <<>>

\* A search of what is inside files, or reading one.
searchesOf(c) ==
  /\ session.at = "running"
  /\ \E f \in DOMAIN c.files \ {c.changed} :
       session' = [session EXCEPT !.looked = TRUE,
                     !.known = @ \cup Proves(c, c.files[f].path \cup c.files[f].text)]
  /\ UNCHANGED reviews

\* Listing names is not a search, and tells the paths all the same.
ListFiles(c) ==
  /\ session.at = "running"
  /\ session' = [session EXCEPT !.looked = TRUE,
                   !.known = @ \cup Proves(c, UNION {c.files[f].path : f \in DOMAIN c.files})]
  /\ UNCHANGED reviews

\* `smith submit`: against this server each one is a review of its own. A
\* command that outlives its session still submits.
submit(c) ==
  /\ session.at \in {"running", "orphan"}
  /\ Len(reviews) < MaxReviews
  /\ \E r \in Reports(c, session.known) :
       /\ reviews' = Append(reviews, r)
       /\ session' = [session EXCEPT !.sent = @ \cup UNION {f.says \X {f.place} : f \in r}]

\* The session ends, by itself or not at all well: without a message in its
\* stream it did not run.
SessionEnds ==
  /\ session.at = "running"
  /\ \E ran \in BOOLEAN :
       /\ ~ran => reviews = <<>> /\ ~session.looked
       /\ session' = [session EXCEPT !.at = "ended", !.ran = ran]
  /\ UNCHANGED reviews

\* execFileSync kills the session at its timeout, not what the session runs.
TimesOut ==
  /\ session.at = "running"
  /\ \E ran \in BOOLEAN :
       /\ ~ran => reviews = <<>> /\ ~session.looked
       /\ session' = [session EXCEPT !.at = "orphan", !.ran = ran]
  /\ UNCHANGED reviews

Works(c) == searchesOf(c) \/ ListFiles(c) \/ submit(c) \/ SessionEnds \/ TimesOut
=============================================================================
