------------------------------- MODULE Probe -------------------------------
(* scripts/guideline_probe.mjs: review ordinary changes and count how often  *)
(* a guideline is cited, after a self-check on a change built to trip one.   *)
(* A review of the project is reduced to whether it cites the guideline.     *)
EXTENDS Naturals, Sequences, SequencesExt

CONSTANTS Wanted,    \* --cases
          MaxPlans   \* bound: reviews in a project

ASSUME ProbeAssumption == Wanted \in Nat \ {0} /\ MaxPlans \in Nat

VARIABLES
  contract,   \* the server's: "v1" opens a review to plan it, "v2" to judge it
  phase,      \* where the process stands
  selfCheck,  \* is this the run with --self-check?
  selfPassed, \* did an earlier one exit 0?
  trail,      \* the reviews of the project
  named,      \* the ids the session's `submit` commands named
  opened,     \* the reviews there were before the session's own
  cites,      \* what the session's last submit reported of the guideline
  tally       \* offered, fired and skipped; and citing, the sessions that did
probeVars == <<contract, phase, selfCheck, selfPassed, trail, named, opened, cites, tally>>

NoTally == [cases |-> 0, offered |-> 0, fired |-> 0, skipped |-> 0, citing |-> 0]
One(b) == IF b THEN 1 ELSE 0

\* An invocation: with --self-check on the one trap, then without it.
invocation(self) ==
  /\ selfCheck' = self /\ phase' = "case"
  /\ trail' = <<>> /\ named' = <<>> /\ opened' = 0 /\ cites' = FALSE /\ tally' = NoTally

caseCount == IF selfCheck THEN 1 ELSE Wanted

\* The probe's own plan of the change: not worth a review, or what is offered.
plan ==
  /\ phase = "case" /\ tally.cases < caseCount
  /\ \/ /\ tally' = [tally EXCEPT !.cases = @ + 1, !.skipped = @ + 1]
        /\ UNCHANGED <<phase, trail, opened>>
     \/ /\ \E offered \in BOOLEAN : tally' = [tally EXCEPT !.cases = @ + 1, !.offered = @ + One(offered)]
        /\ trail' = IF contract = "v1" THEN Append(trail, FALSE) ELSE trail
        /\ opened' = Len(trail')
        /\ phase' = "session"
  /\ named' = <<>> /\ cites' = FALSE
  /\ UNCHANGED <<contract, selfCheck, selfPassed>>

\* The session's own `plan`, of a server that opens a review for it.
SessionPlans ==
  /\ phase = "session" /\ contract = "v1" /\ Len(trail) < MaxPlans
  /\ trail' = Append(trail, FALSE)
  /\ UNCHANGED <<contract, phase, selfCheck, selfPassed, named, opened, cites, tally>>

\* Its `submit <id>`, which replaces what the review held of the agent.
SubmitTo ==
  /\ phase = "session" /\ contract = "v1" /\ Len(named) < MaxPlans
  /\ \E n \in opened + 1 .. Len(trail), b \in BOOLEAN :
       trail' = [trail EXCEPT ![n] = b] /\ named' = Append(named, n) /\ cites' = b
  /\ UNCHANGED <<contract, phase, selfCheck, selfPassed, opened, tally>>

\* Its `submit`, without an id, of a server that opens the review with it.
Submit ==
  /\ phase = "session" /\ contract = "v2" /\ Len(trail) < MaxPlans
  /\ \E b \in BOOLEAN : trail' = Append(trail, b) /\ cites' = b
  /\ UNCHANGED <<contract, phase, selfCheck, selfPassed, named, opened, tally>>

submittedFirst(ids) == ids[1]
submitted(ids) == Last(ids)

cited == named # <<>> /\ trail[submitted(named)]

\* The session ended well: the review its last `submit` named is read back.
review ==
  /\ phase = "session"
  /\ tally' = [tally EXCEPT !.fired = @ + One(cited), !.citing = @ + One(cites)]
  /\ phase' = "case"
  /\ UNCHANGED <<contract, selfCheck, selfPassed, trail, named, opened, cites>>

\* A session that ended non-zero, a failing command: the process ends.
ProbeThrows ==
  /\ \/ phase = "session"
     \/ phase = "case" /\ tally.cases < caseCount
  /\ phase' = "failed"
  /\ UNCHANGED <<contract, selfCheck, selfPassed, trail, named, opened, cites, tally>>

\* The self-check's exit code, then somebody runs the probe for its reading.
SelfCheckEnds ==
  /\ phase = "case" /\ selfCheck /\ tally.cases = caseCount
  /\ selfPassed' = (tally.fired = 1)
  /\ invocation(FALSE)
  /\ UNCHANGED contract

\* The rate over the changes the guideline was offered on, or over one.
quiet == tally.fired = 0

Report ==
  /\ phase = "case" /\ ~selfCheck /\ tally.cases = caseCount
  /\ phase' = IF quiet THEN "quiet" ELSE "fires"
  /\ UNCHANGED <<contract, selfCheck, selfPassed, trail, named, opened, cites, tally>>

ProbeInit ==
  /\ contract \in {"v1", "v2"}
  /\ phase = "case" /\ selfCheck = TRUE /\ selfPassed = FALSE
  /\ trail = <<>> /\ named = <<>> /\ opened = 0 /\ cites = FALSE /\ tally = NoTally

ProbeNext == plan \/ SessionPlans \/ SubmitTo \/ Submit \/ review \/ ProbeThrows \/ SelfCheckEnds \/ Report

ProbeSpec == ProbeInit /\ [][ProbeNext]_probeVars

-----------------------------------------------------------------------------

\* Once the self-check has passed on this server a reading can be believed: a
\* guideline is quiet when no session's last submit cited it, whatever else was
\* planned and submitted ("Its zeroes mean something",
\* scripts/guideline_probe.mjs:327). Before it has, they mean nothing: against
\* "v2" no submit names an id and the probe never sees a citation.
ZeroesMeanSomething ==
  selfPassed /\ phase \in {"quiet", "fires"} => ((phase = "quiet") <=> (tally.citing = 0))
=============================================================================
