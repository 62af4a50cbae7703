----------------------------- MODULE Throwaway -----------------------------
(***************************************************************************)
(* The projects the evaluation scripts make, use and throw away on one     *)
(* server: rehearse.mjs, review_score.mjs, guideline_probe.mjs,            *)
(* walk_skill.mjs and e2e_browser.mjs, with the sweep of                   *)
(* lib/throwaway_project.mjs that clears what a killed run left behind.    *)
(*                                                                         *)
(* A slug carries the time it was made, so a project is a kind and an age; *)
(* the age stops counting at MaxAge, where every sweep takes it.           *)
(***************************************************************************)
EXTENDS Integers, FiniteSets

CONSTANTS
  Runs,        \* processes of the scripts; each runs one script after another
  Slugs,       \* names of projects, used again once the project is gone
  Repertoire,  \* the scripts each process may run
  MaxAge,      \* DEFAULT_MAX_AGE_MS, in ticks
  Patience,    \* ticks one session of a bounded script takes at most (its timeout)
  Thresholds,  \* what SMITH_THROWAWAY_MAX_AGE_MINUTES makes of MaxAge
  Cases,       \* bound: cases or sessions of one run of review_score or the probe
  MaxOrphans,  \* bound: projects left behind at one time
  Watched      \* names whose end is followed; names are interchangeable, so one is enough

AllKinds == {"rehearse", "score", "probe", "walk", "e2e"}
NoSlug == "none"

ASSUME ThrowawayAssumption ==
  /\ Repertoire \in [Runs -> SUBSET AllKinds]
  /\ MaxAge \in Nat /\ Patience \in Nat /\ Patience < MaxAge
  /\ Thresholds \subseteq 0..MaxAge
  /\ Cases \in Nat \ {0}
  /\ Watched \subseteq Slugs
  /\ NoSlug \notin Slugs
  /\ MaxOrphans + Cardinality(Runs) = Cardinality(Slugs)

NoProject == [kind |-> "none", age |-> 0]

VARIABLES
  projects,  \* the server's projects, by slug
  run        \* what each process is doing

vars == <<projects, run>>

Steps == {"idle", "list", "sweep", "make", "setup", "work", "discard"}

Run == [step : Steps, kind : AllKinds \cup {"none"}, slug : Slugs \cup {NoSlug},
        limit : 0..MaxAge, queue : SUBSET Slugs, left : 0..Cases, spent : 0..Patience]

Idle == [step |-> "idle", kind |-> "none", slug |-> NoSlug, limit |-> 0, queue |-> {},
         left |-> 0, spent |-> 0]

Init ==
  /\ projects = [s \in Slugs |-> NoProject]
  /\ run = [r \in Runs |-> Idle]
----------------------------------------------------------------------------
(* The scripts                                                             *)

\* rehearse and walk sign in as the same lead.
LeadOf(kind) == CASE kind \in {"rehearse", "walk"} -> "rehearsal@smith.test"
                  [] kind = "score" -> "score@smith.test"
                  [] kind = "probe" -> "lead@example.com"
                  [] OTHER -> "lead@acme.com"

\* Whose slug is THROWAWAY_PREFIX, a kind and a stamp: a walk's is walk-..., a
\* browser run's e2e-..., and the shape of those is not recognised.
Stamped(kind) == kind \in {"rehearse", "score", "probe"}

\* The first step once the server has answered /health, and the one after each
\* step that succeeds.  A rehearsal makes its project before it sweeps, because
\* bootstrap.py also makes the lead it signs in as.
First(kind) == IF kind \in {"score", "probe"} THEN "list" ELSE "make"

Then(kind, step) ==
  CASE step = "make" -> CASE kind = "rehearse" -> "list" [] kind = "e2e" -> "work" [] OTHER -> "setup"
    [] step = "sweep" -> IF kind = "rehearse" THEN "setup" ELSE "make"
    [] step = "setup" -> "work"
    [] OTHER -> IF kind = "probe" THEN "idle" ELSE "discard"

\* Where an error goes: to the finally that discards the project when the try
\* around the step has one, and out of the script otherwise.
Caught(kind, step) ==
  \/ step = "work" /\ kind \in {"rehearse", "score", "walk", "e2e"}
  \/ step = "setup" /\ kind = "walk"
  \/ step = "make" /\ kind = "e2e"

Started(r) == run[r].step # "idle"
Uses(r, s) == Started(r) /\ run[r].slug = s

\* The projects no live process knows of.
Orphans == {s \in Slugs : projects[s] # NoProject /\ ~\E r \in Runs : Uses(r, s)}

Becomes(r, step) == run' = [run EXCEPT ![r].step = step, ![r].spent = 0]
End(r) == run' = [run EXCEPT ![r] = Idle]

\* The error of a step.
Throw(r) ==
  IF Caught(run[r].kind, run[r].step) THEN Becomes(r, "discard") ELSE End(r)

\* The project s is in the table no more.
Gone(s) == projects' = [projects EXCEPT ![s] = NoProject]

Start(r, kind) ==
  /\ run[r].step = "idle"
  /\ run' = [run EXCEPT ![r] = [Idle EXCEPT !.step = First(kind), !.kind = kind,
                                            !.left = IF kind \in {"score", "probe"} THEN Cases ELSE 1]]
  /\ UNCHANGED projects

\* bootstrap.py, or the form of the projects page, and a rehearsal's sign-in: an
\* error may come before or after the project is there.
Make(r) ==
  /\ run[r].step = "make"
  /\ \E s \in Slugs :
       /\ projects[s] = NoProject
       /\ ~\E other \in Runs : Uses(other, s) \/ s \in run[other].queue  \* a stamp is not used twice
       /\ \/ /\ run' = [run EXCEPT ![r].step = Then(run[r].kind, "make"), ![r].slug = s]
             /\ projects' = [projects EXCEPT ![s] = [kind |-> run[r].kind, age |-> 0]]
          \/ /\ IF Caught(run[r].kind, "make")
                  THEN run' = [run EXCEPT ![r].step = "discard", ![r].slug = s]
                  ELSE End(r)
             /\ projects' \in {projects, [projects EXCEPT ![s] = [kind |-> run[r].kind, age |-> 0]]}

\* A rehearsal's developer and key, the repository, the home directory, the copy
\* of the plugin.
Prepare(r) ==
  /\ run[r].step = "setup"
  /\ Becomes(r, "work") \/ Throw(r)
  /\ UNCHANGED projects

\* The body: sessions, commands and checks.  A score goes on to the discard of
\* its project, a probe to its next change under the same project.
Work(r) ==
  /\ run[r].step = "work"
  /\ \/ IF run[r].kind = "probe" /\ run[r].left > 1
          THEN run' = [run EXCEPT ![r].step = "setup", ![r].left = @ - 1, ![r].spent = 0]
          ELSE IF Then(run[r].kind, "work") = "idle" THEN End(r) ELSE Becomes(r, "discard")
     \/ Throw(r)
  /\ UNCHANGED projects

\* The last checks of the browser run delete its project through the screen.
DeleteOnScreen(r) ==
  /\ run[r].step = "work" /\ run[r].kind = "e2e"
  /\ Gone(run[r].slug)
  /\ Becomes(r, "discard")
----------------------------------------------------------------------------
(* The sweep                                                               *)

abandonedEarly(limit) == {s \in Slugs : Stamped(projects[s].kind) /\ projects[s].age + 1 >= limit}
abandonedLate(limit) == {s \in Slugs : Stamped(projects[s].kind) /\ projects[s].age > limit}

\* createdAt answers null for a name that is no run's, and abandoned keeps the
\* names whose age is at least the limit.
abandoned(limit) == {s \in Slugs : Stamped(projects[s].kind) /\ projects[s].age >= limit}

\* Only a rehearsal has a project to keep: the others sweep before they make one.
Keep(r) == {run[r].slug}

\* The projects one sweep sets out to remove: led by its lead, old enough, not kept.
Sweepable(r, limit) ==
  {s \in abandoned(limit) \ Keep(r) : LeadOf(projects[s].kind) = LeadOf(run[r].kind)}

\* The list is read once; what could not be read is not swept.
List(r) ==
  /\ run[r].step = "list"
  /\ \E limit \in Thresholds : \E queue \in {{}, Sweepable(r, limit)} :
       run' = [run EXCEPT ![r].step = "sweep", ![r].limit = limit, ![r].queue = queue]
  /\ UNCHANGED projects

\* One DELETE, answered or refused; a project that is gone by now is a refusal.
SweepOne(r, s) ==
  /\ run[r].step = "sweep" /\ s \in run[r].queue
  /\ run' = [run EXCEPT ![r].queue = @ \ {s}]
  /\ Gone(s) \/ UNCHANGED projects

Swept(r) ==
  /\ run[r].step = "sweep" /\ run[r].queue = {}
  /\ run' = [run EXCEPT ![r].step = Then(run[r].kind, "sweep"), ![r].limit = 0]
  /\ UNCHANGED projects
----------------------------------------------------------------------------
(* Ends of a run                                                           *)

\* Whether the farewell of a DELETE that was refused says all the same that the
\* project is removed: a score and a walk read the status, a rehearsal does not,
\* and a browser run takes any refusal for "already gone".
Overclaims(r) == run[r].kind \in {"rehearse", "e2e"}

\* A score goes on with its next case unless an error is on its way out.
Finish(r) ==
  \/ End(r)
  \/ /\ run[r].kind = "score" /\ run[r].left > 1
     /\ run' = [run EXCEPT ![r].step = "make", ![r].slug = NoSlug, ![r].left = @ - 1]

SaysRemoved(r) ==
  /\ \/ projects[run[r].slug] # NoProject /\ Gone(run[r].slug)
     \/ Overclaims(r) /\ UNCHANGED projects
  /\ Finish(r)

\* Refused, or nobody answered.
SaysLeft(r) == UNCHANGED projects /\ Finish(r)

discardProject(r) == run[r].step = "discard" /\ (SaysRemoved(r) \/ SaysLeft(r))

\* SIGKILL: nothing of the script runs any more.
Kill(r) == Started(r) /\ End(r) /\ UNCHANGED projects

Bounded(kind) == kind \in {"rehearse", "score"}

\* What a stamp says a tick later; past MaxAge every sweep takes the project.
Older(age) == IF age < MaxAge THEN age + 1 ELSE MaxAge

\* A tick is long beside every step but a session; the sessions of a bounded
\* script end at their timeout, those of a probe when they end.
Tick ==
  /\ \A r \in Runs : Bounded(run[r].kind) => run[r].step = "work" /\ run[r].spent < Patience
  /\ projects' = [s \in Slugs |->
       IF projects[s] = NoProject THEN NoProject
       ELSE [projects[s] EXCEPT !.age = Older(@)]]
  /\ run' = [r \in Runs |-> IF Bounded(run[r].kind) THEN [run[r] EXCEPT !.spent = @ + 1] ELSE run[r]]

Room == Cardinality(Orphans) <= MaxOrphans

Script(r) ==
  /\ \/ Make(r) \/ Prepare(r) \/ Work(r) \/ DeleteOnScreen(r) \/ List(r)
     \/ (\E s \in Slugs : SweepOne(r, s)) \/ Swept(r) \/ discardProject(r)
  /\ Room'

Next ==
  \/ \E r \in Runs : Script(r) \/ (Kill(r) /\ Room') \/ \E kind \in Repertoire[r] : Start(r, kind)
  \/ Tick

Spec == Init /\ [][Next]_vars
----------------------------------------------------------------------------
(* Fairness: a sweep that is tried again and again is answered in the end,  *)
(* although any one DELETE may be refused.  That sweeps are run again and   *)
(* again is the premise of AbandonedGo, not an assumption on a single run.  *)

ListsFor(kind) ==
  \E r \in Runs : /\ run[r].kind = kind /\ List(r)
                 /\ run'[r].queue = Sweepable(r, MaxAge)
Removes(r, s) == SweepOne(r, s) /\ projects'[s] = NoProject /\ Room'

Fairness == \A r \in Runs, s \in Slugs : SF_vars(Removes(r, s))

FairSpec == Spec /\ Fairness
----------------------------------------------------------------------------
\* Every field of a process and of the table has its type.
ThrowawayTypeOK ==
  /\ projects \in [Slugs -> [kind : AllKinds \cup {"none"}, age : 0..MaxAge]]
  /\ run \in [Runs -> Run]

\* "Nothing live is ever this old" (throwaway_project.mjs:37), for the scripts
\* whose sessions end at a timeout: a sweep at the default age removes no project
\* such a run is still working on, however the two interleave.
NeverSweepsLive ==
  [][\A r \in Runs, s \in Slugs :
       SweepOne(r, s) /\ projects'[s] # projects[s] /\ run[r].limit = MaxAge
         => ~\E other \in Runs : Uses(other, s) /\ Bounded(run[other].kind)]_vars

\* "The next run removes the ones an earlier run abandoned": while time passes and
\* a kind of script keeps reading its list, every project it abandoned goes.
AbandonedGo ==
  \A kind \in {k \in UNION {Repertoire[r] : r \in Runs} : Stamped(k)} :
    []<><<Tick>>_vars /\ []<><<ListsFor(kind)>>_vars =>
      \A s \in Watched : (s \in Orphans /\ projects[s].kind = kind) ~> (projects[s] = NoProject)
=============================================================================
