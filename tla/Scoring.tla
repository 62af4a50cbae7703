------------------------------ MODULE Scoring ------------------------------
(* scripts/review_score.mjs: run every case of the command line as often as  *)
(* it asks, score each run by what reached the server, sum up the worst runs *)
(* and record the reading.                                                   *)
EXTENDS Session, FiniteSetsExt, Functions

CONSTANTS Argvs  \* the command lines: names, runs, control, record

ASSUME ScoringAssumption ==
  \A a \in Argvs : /\ a.runs \in Nat \ {0}
                   /\ a.names \in Seq(STRING) \ {<<>>}
                   /\ IsInjective(a.names)

VARIABLES
  argv,     \* the command line of this process
  at,       \* where the process stands
  cases,    \* the scores, in the order the runs were made
  reading,  \* what summarise made of them
  file      \* scripts/review_score.json
scoringVars == <<argv, at, cases, reading, file>>

None == [runCount |-> 0]
Names == Range(argv.names)
RunsOf(name) == {i \in DOMAIN cases : cases[i].name = name}
Finished == Len(cases) = Len(argv.names) * argv.runs

\* The case whose turn it is: every run of one name, then the next name.
Current == argv.names[(Len(cases) \div argv.runs) + 1]
theCase == EVERY_CASE[Current]

-----------------------------------------------------------------------------
(* Scoring. *)

said(f, d) == d \in f.says
agentOf(review) == {f \in review : f.source = "agent"}

\* It landed: the file alone is compared, never the line.
landed(f) == f.place # "other file"

\* Why this run is no reading: no review was opened.
refuseToScoreNothing(rs) == FALSE
refuseToScore(rs) == rs = <<>>

reportedInLast(c, rs) ==
  {d \in Planted(c) : rs # <<>> /\ \E f \in agentOf(rs[Len(rs)]) : said(f, d) /\ landed(f)}
reported(c, rs) ==
  {d \in Planted(c) : \E i \in DOMAIN rs : \E f \in agentOf(rs[i]) : said(f, d) /\ landed(f)}

seen(c, rs) == {d \in Planted(c) : \E i \in DOMAIN rs : \E f \in agentOf(rs[i]) : said(f, d)}
seenButMisplaced(c, rs) == seen(c, rs) \ reported(c, rs)

noise(rs) == SumFunction([i \in DOMAIN rs |-> Cardinality({f \in agentOf(rs[i]) : f.says = {}})])

scoreRun(c, rs) ==
  [reported  |-> reported(c, rs),
   misplaced |-> seenButMisplaced(c, rs),
   recall    |-> Cardinality(reported(c, rs)),
   missed    |-> Cardinality(Planted(c)) - Cardinality(reported(c, rs)),
   noise     |-> noise(rs),
   quiet     |-> \E i \in DOMAIN rs : \E f \in agentOf(rs[i]) : f.quiet,
   blocking  |-> \E i \in DOMAIN rs : Blocks(rs[i])]

\* The scoring on findings nobody had to run a session for (--self-check).
scoreSelfCheck ==
  LET c == CASES.first_reading
      At(place) == {f \in Findings(c) : f.place = place}
      full    == scoreRun(c, <<At("added line")>>)
      empty   == scoreRun(c, <<{}>>)
      offLine == scoreRun(c, <<At("other file")>>)
      noisy   == scoreRun(c, <<At("added line") \cup {Noise, Deterministic}>>)
      falsePositive == scoreRun(c, <<{NonDefect}>>)
  IN /\ full.recall = 3 /\ full.missed = 0 /\ full.noise = 0
     /\ empty.recall = 0 /\ empty.missed = 3 /\ empty.noise = 0
     /\ offLine.recall = 0 /\ offLine.misplaced = Planted(c)
     /\ noisy.recall = 3 /\ noisy.noise = 1
     /\ falsePositive.quiet /\ falsePositive.blocking /\ falsePositive.noise = 1 /\ falsePositive.missed = 3
     /\ refuseToScore(<<>>) /\ ~refuseToScore(<<{}>>)

-----------------------------------------------------------------------------
(* The process. *)

Exit(how) == at' = how /\ UNCHANGED <<argv, cases, reading, file>>

\* An unknown case, or a server that does not answer, ends the process.
Begin ==
  /\ at = "start"
  /\ \/ Names \subseteq DOMAIN EVERY_CASE /\ Exit("cases")
     \/ Exit("failed")
  /\ UNCHANGED sessionVars

\* A project of its own, its repository and a home, then the session.
runCase ==
  /\ at = "cases" /\ ~Finished
  /\ runSession(theCase)
  /\ Exit("session")

\* Whatever breaks before the session, or while the reviews are read, ends
\* the process: no score of an earlier run survives it.
Throws ==
  /\ at \in {"cases", "session"} /\ ~Finished
  /\ session.at # "running"
  /\ Exit("failed")
  /\ session' = NoSession /\ reviews' = <<>>

\* The finally of runCase: the project goes, and an orphan finds none.
discardProject == session' = NoSession /\ reviews' = <<>>

Score ==
  /\ at = "session" /\ session.at \in {"ended", "orphan"}
  /\ IF ~session.ran \/ refuseToScore(reviews)
       THEN Exit("failed")
       ELSE /\ at' = "cases"
            /\ cases' = Append(cases,
                 [name |-> Current, score |-> scoreRun(theCase, reviews), opened |-> Len(reviews),
                  looked |-> session.looked, sent |-> session.sent])
            /\ UNCHANGED <<argv, reading, file>>
  /\ discardProject

Over(name, field(_), pick(_)) == pick({field(cases[i].score) : i \in RunsOf(name)})
OverCases(field(_), pick(_)) == SumFunction([name \in Names |-> Over(name, field, pick)])
missed(score) == score.missed
noiseOf(score) == score.noise

summariseBest ==
  [missed |-> OverCases(missed, Min), noise |-> OverCases(noiseOf, Min), runCount |-> Len(cases)]
summarise ==
  [missed |-> OverCases(missed, Max), noise |-> OverCases(noiseOf, Max), runCount |-> Len(cases)]

Summarise ==
  /\ at = "cases" /\ Finished
  /\ reading' = summarise
  /\ at' = "read"
  /\ UNCHANGED <<argv, cases, file, sessionVars>>

\* A control reading is not the score, and a held-out case is never recorded.
ofTheScoredSet == ~argv.control
recordable == ~argv.control /\ Names \cap DOMAIN HELD_OUT = {}

Record ==
  /\ at = "read"
  /\ IF ~argv.record THEN Exit("done")
     ELSE IF recordable
       THEN at' = "done" /\ file' = reading /\ UNCHANGED <<argv, cases, reading>>
       ELSE Exit("failed")
  /\ UNCHANGED sessionVars

ScoringInit ==
  /\ argv \in Argvs
  /\ at = "start" /\ cases = <<>> /\ reading = None /\ file = None
  /\ session = NoSession /\ reviews = <<>>

Working == at = "session" /\ Works(theCase) /\ UNCHANGED scoringVars

ScoringNext == Begin \/ runCase \/ Working \/ Throws \/ Score \/ Summarise \/ Record

ScoringSpec == ScoringInit /\ [][ScoringNext]_<<scoringVars, sessionVars>>

-----------------------------------------------------------------------------
(* What a score is worth. *)

\* The counters stay within what a case and its runs can reach.
ScoringTypeOK ==
  /\ SessionTypeOK
  /\ at \in {"start", "cases", "session", "read", "done", "failed"}
  /\ \A i \in DOMAIN cases :
       LET run == cases[i] IN
       /\ run.score.recall + run.score.missed = Cardinality(Planted(EVERY_CASE[run.name]))
       /\ Cardinality(run.score.misplaced) <= run.score.missed
       /\ run.opened <= MaxReviews

\* A defect is counted as found only for a session that looked at more than
\* the diff: "a string the session could not have written without going to
\* look" (scripts/lib/review_cases.mjs:17).
RecallTakesLooking == \A i \in DOMAIN cases : cases[i].score.recall > 0 => cases[i].looked

\* The defects of a scored run that were said in one of these places.
SaidAt(run, places) == {s[1] : s \in {t \in run.sent : t[2] \in places}}

\* However a session spread its findings over submits, and whatever it sent
\* before it ended or after it was cut off: a defect said on a line of the diff
\* is credited, and a defect said anywhere is credited or told apart as seen but
\* misplaced (scoreRun, scripts/review_score.mjs:158).
NothingSaidIsLost ==
  \A i \in DOMAIN cases :
    LET score == cases[i].score IN
    /\ SaidAt(cases[i], {"added line"}) \subseteq score.reported
    /\ score.reported \cup score.misplaced = SaidAt(cases[i], Places)
    /\ score.reported \cap score.misplaced = {}

\* "Reported means it reached the developer, which means it landed where the
\* server keeps it" (scripts/review_score.mjs:167). The code compares the file
\* alone (164), and the server suppresses what is off the diff's lines.
ReportedReachedTheDeveloper ==
  \A i \in DOMAIN cases :
    cases[i].score.reported \subseteq SaidAt(cases[i], {"added line", "other file"})

\* A budget set to the reading is kept by any choice of one run per case, and
\* by some choice it is used up: "a budget set to the best run is a budget
\* that fails randomly" (scripts/review_score.mjs:308).
WorstRunBudget ==
  reading # None =>
    LET choices == {f \in [Names -> DOMAIN cases] : \A name \in Names : f[name] \in RunsOf(name)}
        cost(f) == SumFunction([name \in Names |-> cases[f[name]].score.missed])
    IN /\ \A f \in choices : cost(f) <= reading.missed
       /\ \E f \in choices : cost(f) = reading.missed

\* What is recorded is a reading of the shipped command on the scored set
\* alone, every case of it run in full by a session that reviewed.
RecordedIsShipped ==
  file # None =>
    /\ ~argv.control /\ Names \subseteq DOMAIN CASES
    /\ \A name \in Names : Cardinality(RunsOf(name)) = argv.runs
    /\ \A i \in DOMAIN cases : cases[i].opened > 0
=============================================================================
