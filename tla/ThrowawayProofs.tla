-------------------------- MODULE ThrowawayProofs --------------------------
(***************************************************************************)
(* No sweep at the default age takes a project a bounded run works on, for *)
(* any number of processes and projects and any ages and timeouts.         *)
(***************************************************************************)
EXTENDS Throwaway, TLAPS

Project == [kind : AllKinds \cup {"none"}, age : 0..MaxAge]

\* The project of a bounded run is as old as its session, and new before it: no
\* tick passes between the steps of such a run.
YoungWhileUsed ==
  \A r \in Runs, s \in Slugs : Uses(r, s) /\ Bounded(run[r].kind) =>
    /\ run[r].step \notin {"work", "discard"} => projects[s].age = 0
    /\ run[r].step = "work" => projects[s].age <= run[r].spent
    /\ projects[s].age <= Patience

\* What is in the list of a sweep is as old as it was when the list was read, or
\* gone: its name is not used again before the sweep is through.
OldWhileListed ==
  \A r \in Runs : \A s \in run[r].queue :
    run[r].limit = MaxAge => projects[s] = NoProject \/ projects[s].age >= MaxAge

\* The inductive invariant.
AgesInv == ThrowawayTypeOK /\ YoungWhileUsed /\ OldWhileListed

\* The fields of a process, one by one.
LEMMA RunRead ==
  ASSUME NEW x \in Run
  PROVE  /\ x.step \in Steps /\ x.kind \in AllKinds \cup {"none"} /\ x.slug \in Slugs \cup {NoSlug}
         /\ x.limit \in 0..MaxAge /\ x.queue \in SUBSET Slugs /\ x.left \in 0..Cases
         /\ x.spent \in 0..Patience
BY DEF Run

LEMMA OneLess == ASSUME NEW left \in 0..Cases, left > 1 PROVE left - 1 \in 0..Cases
BY ThrowawayAssumption

LEMMA NoTime == 0 \in 0..Patience /\ 0 \in 0..MaxAge
BY ThrowawayAssumption

LEMMA IdleTyped == Idle \in Run
BY ThrowawayAssumption DEF Idle, Run, Steps

LEMMA NoProjectTyped == NoProject \in Project
BY ThrowawayAssumption DEF NoProject, Project
-----------------------------------------------------------------------------
(* How a process changes.                                                  *)

\* The other processes are where they were.
OthersAlone(r) == \A o \in Runs \ {r} : run'[o] = run[o]

LEMMA BecomesKeeps ==
  ASSUME ThrowawayTypeOK, NEW r \in Runs, NEW step \in Steps, Becomes(r, step)
  PROVE  /\ run' \in [Runs -> Run] /\ OthersAlone(r)
         /\ run'[r] = [run[r] EXCEPT !.step = step, !.spent = 0]
<1>1. [run[r] EXCEPT !.step = step, !.spent = 0] \in Run
  BY NoTime DEF ThrowawayTypeOK, Run
<1>2. QED
  BY <1>1 DEF ThrowawayTypeOK, Becomes, OthersAlone

LEMMA EndForgets ==
  ASSUME ThrowawayTypeOK, NEW r \in Runs, End(r)
  PROVE  run' \in [Runs -> Run] /\ OthersAlone(r) /\ run'[r] = Idle
BY IdleTyped DEF ThrowawayTypeOK, End, OthersAlone

\* A step of one process that makes no project keeps the invariant when what the
\* process becomes is a later step of the same run, or no run of that project,
\* and what it has listed is old.
Follows(r) ==
  Started(r)' /\ run'[r].slug \in Slugs /\ Bounded(run'[r].kind) =>
    /\ Started(r) /\ run'[r].slug = run[r].slug /\ run'[r].kind = run[r].kind
    /\ run'[r].step # "discard" => run[r].step \notin {"work", "discard"}

ListsOld(r) ==
  \A s \in run'[r].queue : run'[r].limit = MaxAge =>
    \/ s \in run[r].queue /\ run[r].limit = MaxAge
    \/ projects[s].age >= MaxAge

OnlyRemoves == \A s \in Slugs : projects'[s] \in {projects[s], NoProject}

LEMMA OneProcess ==
  ASSUME AgesInv, NEW r \in Runs, run' \in [Runs -> Run], OthersAlone(r),
         projects' \in [Slugs -> Project], OnlyRemoves, Follows(r), ListsOld(r)
  PROVE  AgesInv'
<1>1. ThrowawayTypeOK'
  BY DEF ThrowawayTypeOK, Project
<1>2. YoungWhileUsed'
  <2> SUFFICES ASSUME NEW o \in Runs, NEW s \in Slugs, Uses(o, s)', Bounded(run'[o].kind)
               PROVE  /\ run'[o].step \notin {"work", "discard"} => projects'[s].age = 0
                      /\ run'[o].step = "work" => projects'[s].age <= run'[o].spent
                      /\ projects'[s].age <= Patience
    BY DEF YoungWhileUsed
  <2>1. run'[o] \in Run
    OBVIOUS
  <2>2. run'[o].spent \in Nat
    BY <2>1, ThrowawayAssumption DEF Run
  <2>3. CASE projects'[s] = NoProject
    BY <2>2, <2>3, ThrowawayAssumption DEF NoProject
  <2>4. CASE projects'[s] = projects[s] /\ o # r
    BY <2>4 DEF AgesInv, YoungWhileUsed, OthersAlone, Uses, Started
  <2>5. CASE projects'[s] = projects[s] /\ o = r
    <3>1. Started(r)' /\ run'[r].slug = s
      BY <2>5 DEF Uses
    <3>2. Uses(r, s) /\ Bounded(run[r].kind) /\ (run'[r].step # "discard" => run[r].step \notin {"work", "discard"})
      BY <2>5, <3>1 DEF Follows, Uses
    <3>3. /\ run[r].step \notin {"work", "discard"} => projects[s].age = 0
          /\ projects[s].age <= Patience
      BY <3>2 DEF AgesInv, YoungWhileUsed
    <3>4. QED
      BY <2>2, <2>5, <3>2, <3>3
  <2>6. QED
    BY <2>3, <2>4, <2>5 DEF OnlyRemoves
<1>3. OldWhileListed'
  <2> SUFFICES ASSUME NEW o \in Runs, NEW s \in run'[o].queue, run'[o].limit = MaxAge
               PROVE  projects'[s] = NoProject \/ projects'[s].age >= MaxAge
    BY DEF OldWhileListed
  <2>1. s \in Slugs
    BY DEF Run
  <2>2. projects[s] = NoProject \/ projects[s].age >= MaxAge
    BY DEF AgesInv, OldWhileListed, OthersAlone, ListsOld
  <2>3. QED
    BY <2>1, <2>2 DEF OnlyRemoves
<1>4. QED
  BY <1>1, <1>2, <1>3 DEF AgesInv
-----------------------------------------------------------------------------
(* Steps that make no project.                                             *)

\* A project that goes leaves the others.
LEMMA GoneOnlyRemoves ==
  ASSUME ThrowawayTypeOK, NEW s \in Slugs, Gone(s) \/ UNCHANGED projects
  PROVE  projects' \in [Slugs -> Project] /\ OnlyRemoves
BY NoProjectTyped DEF ThrowawayTypeOK, Project, Gone, OnlyRemoves

LEMMA KeptOnlyRemoves ==
  ASSUME ThrowawayTypeOK, UNCHANGED projects
  PROVE  projects' \in [Slugs -> Project] /\ OnlyRemoves
BY DEF ThrowawayTypeOK, Project, OnlyRemoves

\* A process that ended uses and lists nothing.
LEMMA EndKeeps ==
  ASSUME AgesInv, NEW r \in Runs, End(r), projects' \in [Slugs -> Project], OnlyRemoves
  PROVE  AgesInv'
<1>1. run' \in [Runs -> Run] /\ OthersAlone(r) /\ run'[r] = Idle
  BY EndForgets DEF AgesInv
<1>2. Follows(r) /\ ListsOld(r)
  BY <1>1 DEF Follows, ListsOld, Started, Idle
<1>3. QED
  BY <1>1, <1>2, OneProcess

\* On its way to the discard a process has the project it had.
LEMMA DiscardKeeps ==
  ASSUME AgesInv, NEW r \in Runs, Started(r), Becomes(r, "discard"),
         projects' \in [Slugs -> Project], OnlyRemoves
  PROVE  AgesInv'
<1>1. "discard" \in Steps
  BY DEF Steps
<1>2. /\ run' \in [Runs -> Run] /\ OthersAlone(r)
      /\ run'[r] = [run[r] EXCEPT !.step = "discard", !.spent = 0]
  BY <1>1, BecomesKeeps DEF AgesInv
<1>3. run[r] \in Run
  BY DEF AgesInv, ThrowawayTypeOK
<1>4. Follows(r) /\ ListsOld(r)
  BY <1>2, <1>3 DEF Follows, ListsOld, Started, Run
<1>5. QED
  BY <1>2, <1>4, OneProcess

\* An error goes to the discard or out of the script.
LEMMA ThrowKeeps ==
  ASSUME AgesInv, NEW r \in Runs, Started(r), Throw(r), UNCHANGED projects
  PROVE  AgesInv'
BY EndKeeps, DiscardKeeps, KeptOnlyRemoves DEF Throw, AgesInv

\* A script that starts has no project yet and no list.
LEMMA StartKeeps ==
  ASSUME AgesInv, NEW r \in Runs, NEW kind \in AllKinds, Start(r, kind)
  PROVE  AgesInv'
<1> DEFINE new == [Idle EXCEPT !.step = First(kind), !.kind = kind,
                               !.left = IF kind \in {"score", "probe"} THEN Cases ELSE 1]
<1>1. new \in Run
  <2> DEFINE left == IF kind \in {"score", "probe"} THEN Cases ELSE 1
  <2>1. First(kind) \in Steps
    BY DEF First, Steps
  <2>2. left \in 0..Cases
    BY ThrowawayAssumption
  <2> HIDE DEF left
  <2>3. [Idle EXCEPT !.step = First(kind), !.kind = kind, !.left = left] \in Run
    BY <2>1, <2>2, IdleTyped DEF Run
  <2>4. QED
    BY <2>3 DEF left
<1>2. new.slug = NoSlug /\ new.queue = {}
  BY DEF Idle
<1>3. run' = [run EXCEPT ![r] = new] /\ UNCHANGED projects
  BY DEF Start
<1> HIDE DEF new
<1>4. run' \in [Runs -> Run] /\ OthersAlone(r) /\ run'[r] = new
  BY <1>1, <1>3 DEF AgesInv, ThrowawayTypeOK, OthersAlone
<1>5. Follows(r) /\ ListsOld(r)
  BY <1>2, <1>4, ThrowawayAssumption DEF Follows, ListsOld
<1>6. QED
  BY <1>3, <1>4, <1>5, OneProcess, KeptOnlyRemoves DEF AgesInv

\* The session begins with a project as new as before.
LEMMA PrepareKeeps ==
  ASSUME AgesInv, NEW r \in Runs, Prepare(r)
  PROVE  AgesInv'
<1>1. Started(r) /\ UNCHANGED projects /\ run[r].step = "setup"
  BY DEF Prepare, Started
<1>2. CASE Becomes(r, "work")
  <2>1. "work" \in Steps
    BY DEF Steps
  <2>2. /\ run' \in [Runs -> Run] /\ OthersAlone(r)
        /\ run'[r] = [run[r] EXCEPT !.step = "work", !.spent = 0]
    BY <1>2, <2>1, BecomesKeeps DEF AgesInv
  <2>3. run[r] \in Run
    BY DEF AgesInv, ThrowawayTypeOK
  <2>4. Follows(r) /\ ListsOld(r)
    BY <1>1, <2>2, <2>3 DEF Follows, ListsOld, Run
  <2>5. QED
    BY <1>1, <2>2, <2>4, OneProcess, KeptOnlyRemoves DEF AgesInv
<1>3. CASE Throw(r)
  BY <1>1, <1>3, ThrowKeeps
<1>4. QED
  BY <1>2, <1>3 DEF Prepare

\* A session that ends is followed by the discard, or by a probe's next change.
LEMMA WorkKeeps ==
  ASSUME AgesInv, NEW r \in Runs, Work(r)
  PROVE  AgesInv'
<1> USE DEF Bounded
<1>1. Started(r) /\ UNCHANGED projects /\ run[r].step = "work"
  BY DEF Work, Started
<1>2. CASE Throw(r) \/ End(r) \/ Becomes(r, "discard")
  BY <1>1, <1>2, ThrowKeeps, EndKeeps, DiscardKeeps, KeptOnlyRemoves DEF AgesInv
<1>3. CASE /\ run[r].kind = "probe" /\ run[r].left > 1
           /\ run' = [run EXCEPT ![r].step = "setup", ![r].left = @ - 1, ![r].spent = 0]
  <2> DEFINE new == [run[r] EXCEPT !.step = "setup", !.left = @ - 1, !.spent = 0]
  <2>1. run[r] \in Run
    BY DEF AgesInv, ThrowawayTypeOK
  <2>2. new \in Run
    <3>1. "setup" \in Steps /\ "make" \in Steps
      BY DEF Steps
    <3>2. run[r].left - 1 \in 0..Cases
      BY <1>3, <2>1, RunRead, OneLess
    <3>3. QED
      BY <2>1, <3>1, <3>2, NoTime DEF Run
  <2>3. new.kind = "probe" /\ new.queue = run[r].queue /\ new.limit = run[r].limit
    BY <1>3, <2>1 DEF Run
  <2>4. run' = [run EXCEPT ![r] = new]
    BY <1>3
  <2> HIDE DEF new
  <2>5. run' \in [Runs -> Run] /\ OthersAlone(r) /\ run'[r] = new
    BY <2>2, <2>4 DEF AgesInv, ThrowawayTypeOK, OthersAlone
  <2>6. Follows(r) /\ ListsOld(r)
    BY <2>3, <2>5 DEF Follows, ListsOld
  <2>7. QED
    BY <1>1, <2>5, <2>6, OneProcess, KeptOnlyRemoves DEF AgesInv
<1>4. QED
  BY <1>2, <1>3 DEF Work

\* The browser run deletes its own project and no bounded one's.
LEMMA DeleteOnScreenKeeps ==
  ASSUME AgesInv, NEW r \in Runs, DeleteOnScreen(r)
  PROVE  AgesInv'
<1>1. Started(r) /\ Becomes(r, "discard") /\ Gone(run[r].slug)
  BY DEF DeleteOnScreen, Started
<1>2. projects' \in [Slugs -> Project] /\ OnlyRemoves
  BY <1>1, NoProjectTyped DEF AgesInv, ThrowawayTypeOK, Project, Gone, OnlyRemoves
<1>3. QED
  BY <1>1, <1>2, DiscardKeeps

\* What a sweep lists at the default age is that old.
LEMMA ListKeeps ==
  ASSUME AgesInv, NEW r \in Runs, List(r)
  PROVE  AgesInv'
<1>1. PICK limit \in Thresholds : \E queue \in {{}, Sweepable(r, limit)} :
        run' = [run EXCEPT ![r].step = "sweep", ![r].limit = limit, ![r].queue = queue]
  BY DEF List
<1>2. PICK queue \in {{}, Sweepable(r, limit)} :
        run' = [run EXCEPT ![r].step = "sweep", ![r].limit = limit, ![r].queue = queue]
  BY <1>1
<1>3. queue \subseteq Slugs /\ \A s \in queue : projects[s].age >= limit
  BY DEF Sweepable, abandoned
<1> DEFINE new == [run[r] EXCEPT !.step = "sweep", !.limit = limit, !.queue = queue]
<1>4. run[r] \in Run
  BY DEF AgesInv, ThrowawayTypeOK
<1>5. new \in Run
  BY <1>3, <1>4, ThrowawayAssumption DEF Run, Steps
<1>6. /\ new.queue = queue /\ new.limit = limit /\ new.step = "sweep"
      /\ new.slug = run[r].slug /\ new.kind = run[r].kind
  BY <1>4 DEF Run
<1>7. run' = [run EXCEPT ![r] = new]
  BY <1>2
<1> HIDE DEF new
<1>8. run' \in [Runs -> Run] /\ OthersAlone(r) /\ run'[r] = new
  BY <1>5, <1>7 DEF AgesInv, ThrowawayTypeOK, OthersAlone
<1>9. Follows(r) /\ ListsOld(r)
  BY <1>3, <1>6, <1>8 DEF Follows, ListsOld, List, Started
<1>10. QED
  BY <1>8, <1>9, OneProcess, KeptOnlyRemoves DEF AgesInv, List

\* A sweep goes through its list.
LEMMA SweepOneKeeps ==
  ASSUME AgesInv, NEW r \in Runs, NEW s \in Slugs, SweepOne(r, s)
  PROVE  AgesInv'
<1> DEFINE new == [run[r] EXCEPT !.queue = @ \ {s}]
<1>1. run[r] \in Run
  BY DEF AgesInv, ThrowawayTypeOK
<1>2. new \in Run
  BY <1>1 DEF Run
<1>3. /\ new.queue \subseteq run[r].queue /\ new.limit = run[r].limit /\ new.step = run[r].step
      /\ new.slug = run[r].slug /\ new.kind = run[r].kind
  BY <1>1 DEF Run
<1>4. run' = [run EXCEPT ![r] = new] /\ run[r].step = "sweep"
  BY DEF SweepOne
<1> HIDE DEF new
<1>5. run' \in [Runs -> Run] /\ OthersAlone(r) /\ run'[r] = new
  BY <1>2, <1>4 DEF AgesInv, ThrowawayTypeOK, OthersAlone
<1>6. Follows(r) /\ ListsOld(r)
  BY <1>3, <1>4, <1>5 DEF Follows, ListsOld, Started
<1>7. projects' \in [Slugs -> Project] /\ OnlyRemoves
  BY GoneOnlyRemoves DEF AgesInv, SweepOne
<1>8. QED
  BY <1>5, <1>6, <1>7, OneProcess

\* And goes on to what follows, not to a session.
LEMMA SweptKeeps ==
  ASSUME AgesInv, NEW r \in Runs, Swept(r)
  PROVE  AgesInv'
<1> DEFINE next == IF run[r].kind = "rehearse" THEN "setup" ELSE "make"
<1> DEFINE new == [run[r] EXCEPT !.step = next, !.limit = 0]
<1>1. run[r] \in Run
  BY DEF AgesInv, ThrowawayTypeOK
<1>2. new \in Run
  <2>1. next \in Steps
    BY DEF Steps
  <2>2. QED
    BY <1>1, <2>1, NoTime DEF Run
<1>3. /\ new.queue = run[r].queue /\ new.step # "discard"
      /\ new.slug = run[r].slug /\ new.kind = run[r].kind
  BY <1>1 DEF Run
<1>4. Then(run[r].kind, "sweep") = next
  BY DEF Then
<1>5. run' = [run EXCEPT ![r] = new] /\ run[r].step = "sweep" /\ run[r].queue = {} /\ UNCHANGED projects
  BY <1>4 DEF Swept
<1> HIDE DEF new
<1>6. run' \in [Runs -> Run] /\ OthersAlone(r) /\ run'[r] = new
  BY <1>2, <1>5 DEF AgesInv, ThrowawayTypeOK, OthersAlone
<1>7. Follows(r) /\ ListsOld(r)
  BY <1>3, <1>5, <1>6 DEF Follows, ListsOld, Started
<1>8. QED
  BY <1>5, <1>6, <1>7, OneProcess, KeptOnlyRemoves DEF AgesInv

\* A score that goes on lets go of the project it discarded.
LEMMA DiscardProjectKeeps ==
  ASSUME AgesInv, NEW r \in Runs, discardProject(r)
  PROVE  AgesInv'
<1>1. projects' \in [Slugs -> Project] /\ OnlyRemoves
  BY NoProjectTyped DEF AgesInv, ThrowawayTypeOK, Project, Gone, OnlyRemoves,
                        discardProject, SaysRemoved, SaysLeft
<1>2. CASE End(r)
  BY <1>1, <1>2, EndKeeps
<1>3. CASE /\ run[r].left > 1
           /\ run' = [run EXCEPT ![r].step = "make", ![r].slug = NoSlug, ![r].left = @ - 1]
  <2> DEFINE new == [run[r] EXCEPT !.step = "make", !.slug = NoSlug, !.left = @ - 1]
  <2>1. run[r] \in Run
    BY DEF AgesInv, ThrowawayTypeOK
  <2>2. new \in Run
    <3>1. "setup" \in Steps /\ "make" \in Steps
      BY DEF Steps
    <3>2. run[r].left - 1 \in 0..Cases
      BY <1>3, <2>1, RunRead, OneLess
    <3>3. QED
      BY <2>1, <3>1, <3>2, NoTime DEF Run
  <2>3. new.slug = NoSlug /\ new.queue = run[r].queue /\ new.limit = run[r].limit
    BY <2>1 DEF Run
  <2>4. run' = [run EXCEPT ![r] = new]
    BY <1>3
  <2> HIDE DEF new
  <2>5. run' \in [Runs -> Run] /\ OthersAlone(r) /\ run'[r] = new
    BY <2>2, <2>4 DEF AgesInv, ThrowawayTypeOK, OthersAlone
  <2>6. Follows(r) /\ ListsOld(r)
    BY <2>3, <2>5, ThrowawayAssumption DEF Follows, ListsOld
  <2>7. QED
    BY <1>1, <2>5, <2>6, OneProcess
<1>4. QED
  BY <1>2, <1>3 DEF discardProject, SaysRemoved, SaysLeft, Finish
-----------------------------------------------------------------------------
(* The two steps that touch ages.                                          *)

\* A name is used for a new project only when no live process has it, in its
\* hands or on its list.
LEMMA MakeKeeps ==
  ASSUME AgesInv, NEW r \in Runs, Make(r)
  PROVE  AgesInv'
<1> DEFINE fresh(s) == [projects EXCEPT ![s] = [kind |-> run[r].kind, age |-> 0]]
<1>1. PICK s \in Slugs :
        /\ projects[s] = NoProject
        /\ \A other \in Runs : ~Uses(other, s) /\ s \notin run[other].queue
        /\ \/ /\ run' = [run EXCEPT ![r].step = Then(run[r].kind, "make"), ![r].slug = s]
              /\ projects' = fresh(s)
           \/ /\ \/ run' = [run EXCEPT ![r].step = "discard", ![r].slug = s]
                    /\ Caught(run[r].kind, "make")
                 \/ End(r)
              /\ projects' \in {projects, fresh(s)}
  BY Zenon DEF Make
<1>2. run[r] \in Run /\ run[r].step = "make" /\ Started(r)
  BY DEF AgesInv, ThrowawayTypeOK, Make, Started
<1>3. projects' \in [Slugs -> Project] /\ \A x \in Slugs \ {s} : projects'[x] = projects[x]
  <2>1. [kind |-> run[r].kind, age |-> 0] \in Project
    BY <1>2, NoTime DEF Project, Run
  <2>2. projects' = projects \/ projects' = fresh(s)
    BY <1>1
  <2>3. QED
    BY <2>1, <2>2 DEF AgesInv, ThrowawayTypeOK, Project
<1>4. projects'[s].age = 0
  BY <1>1, <1>2 DEF AgesInv, ThrowawayTypeOK, NoProject
<1>5. /\ run' \in [Runs -> Run] /\ OthersAlone(r)
      /\ Started(r)' => /\ run'[r].slug = s /\ run'[r].queue = run[r].queue /\ run'[r].limit = run[r].limit
                        /\ run'[r].spent = run[r].spent
      /\ ~Started(r)' => run'[r] = Idle
  <2>1. Then(run[r].kind, "make") \in Steps
    BY DEF Then, Steps
  <2>2. CASE run' = [run EXCEPT ![r].step = Then(run[r].kind, "make"), ![r].slug = s]
    <3> DEFINE step == Then(run[r].kind, "make")
    <3> DEFINE new == [run[r] EXCEPT !.step = step, !.slug = s]
    <3> HIDE DEF step
    <3>1. new \in Run
      BY <1>2, <2>1 DEF Run, step
    <3>2. /\ new.slug = s /\ new.queue = run[r].queue /\ new.limit = run[r].limit
          /\ new.spent = run[r].spent /\ new.step = step
      BY <1>2 DEF Run
    <3>3. run' = [run EXCEPT ![r] = new]
      BY <2>2 DEF step
    <3>4. step # "idle"
      BY DEF step, Then
    <3> HIDE DEF new
    <3>5. run' \in [Runs -> Run] /\ OthersAlone(r) /\ run'[r] = new
      BY <3>1, <3>3 DEF AgesInv, ThrowawayTypeOK, OthersAlone
    <3>6. QED
      BY <3>2, <3>4, <3>5 DEF Started
  <2>3. CASE run' = [run EXCEPT ![r].step = "discard", ![r].slug = s]
    <3> DEFINE new == [run[r] EXCEPT !.step = "discard", !.slug = s]
    <3>1. new \in Run
      BY <1>2 DEF Run, Steps
    <3>2. /\ new.slug = s /\ new.queue = run[r].queue /\ new.limit = run[r].limit
          /\ new.spent = run[r].spent /\ new.step = "discard"
      BY <1>2 DEF Run
    <3>3. run' = [run EXCEPT ![r] = new]
      BY <2>3
    <3> HIDE DEF new
    <3>4. run' \in [Runs -> Run] /\ OthersAlone(r) /\ run'[r] = new
      BY <3>1, <3>3 DEF AgesInv, ThrowawayTypeOK, OthersAlone
    <3>5. QED
      BY <3>2, <3>4 DEF Started
  <2>4. CASE End(r)
    <3>1. run' \in [Runs -> Run] /\ OthersAlone(r) /\ run'[r] = Idle
      BY <2>4, EndForgets DEF AgesInv
    <3>2. QED
      BY <3>1 DEF Started, Idle
  <2>5. QED
    BY <1>1, <2>2, <2>3, <2>4, Zenon
<1>6. ThrowawayTypeOK'
  BY <1>3, <1>5 DEF ThrowawayTypeOK, Project
<1>7. YoungWhileUsed'
  <2> SUFFICES ASSUME NEW o \in Runs, NEW x \in Slugs, Uses(o, x)', Bounded(run'[o].kind)
               PROVE  /\ run'[o].step \notin {"work", "discard"} => projects'[x].age = 0
                      /\ run'[o].step = "work" => projects'[x].age <= run'[o].spent
                      /\ projects'[x].age <= Patience
    BY DEF YoungWhileUsed
  <2>1. run'[o].spent \in Nat
    BY <1>5, ThrowawayAssumption DEF Run
  <2>2. CASE x = s
    BY <1>4, <2>1, <2>2, ThrowawayAssumption
  <2>3. CASE x # s
    <3>1. o # r
      BY <1>5, <2>3 DEF Uses
    <3>2. run'[o] = run[o] /\ projects'[x] = projects[x]
      BY <1>3, <1>5, <2>3, <3>1 DEF OthersAlone
    <3>3. QED
      BY <3>2 DEF AgesInv, YoungWhileUsed, Uses, Started
  <2>4. QED
    BY <2>2, <2>3
<1>8. OldWhileListed'
  <2> SUFFICES ASSUME NEW o \in Runs, NEW x \in run'[o].queue, run'[o].limit = MaxAge
               PROVE  projects'[x] = NoProject \/ projects'[x].age >= MaxAge
    BY DEF OldWhileListed
  <2>1. x \in run[o].queue /\ run[o].limit = MaxAge
    BY <1>5 DEF OthersAlone, Idle
  <2>2. x \in Slugs \ {s}
    BY <1>1, <2>1 DEF AgesInv, ThrowawayTypeOK, Run
  <2>3. QED
    BY <1>3, <2>1, <2>2 DEF AgesInv, OldWhileListed
<1>9. QED
  BY <1>6, <1>7, <1>8 DEF AgesInv

\* A tick finds a bounded run in a session its timeout has not ended, or in none.
LEMMA TickKeeps ==
  ASSUME AgesInv, Tick
  PROVE  AgesInv'
<1>1. ASSUME NEW s \in Slugs
      PROVE  /\ projects'[s] \in Project
             /\ projects[s] = NoProject => projects'[s] = NoProject
             /\ projects'[s].age <= projects[s].age + 1
             /\ projects[s].age >= MaxAge => projects'[s].age >= MaxAge
  <2>1. projects[s] \in Project
    BY DEF AgesInv, ThrowawayTypeOK, Project
  <2>2. CASE projects[s] = NoProject
    <3>1. projects'[s] = NoProject
      BY <2>2 DEF Tick
    <3>2. QED
      BY <2>2, <3>1, NoProjectTyped, ThrowawayAssumption DEF NoProject
  <2>3. CASE projects[s] # NoProject
    <3>1. projects'[s] = [projects[s] EXCEPT !.age = Older(@)]
      BY <2>3 DEF Tick
    <3>2. Older(projects[s].age) \in 0..MaxAge
      BY <2>1, ThrowawayAssumption DEF Older, Project
    <3>3. QED
      BY <2>1, <2>3, <3>1, <3>2, ThrowawayAssumption DEF Older, Project
  <2>4. QED
    BY <2>2, <2>3
<1>2. projects' \in [Slugs -> Project]
  <2>1. projects' = [s \in Slugs |-> projects'[s]]
    BY DEF Tick
  <2>2. QED
    BY <1>1, <2>1
<1>3. ASSUME NEW r \in Runs
      PROVE  /\ run'[r] \in Run
             /\ run'[r].step = run[r].step /\ run'[r].slug = run[r].slug /\ run'[r].kind = run[r].kind
             /\ run'[r].queue = run[r].queue /\ run'[r].limit = run[r].limit
             /\ Bounded(run[r].kind) => /\ run[r].step = "work" /\ run[r].spent < Patience
                                        /\ run'[r].spent = run[r].spent + 1
  <2>1. run[r] \in Run
    BY DEF AgesInv, ThrowawayTypeOK
  <2>2. CASE ~Bounded(run[r].kind)
    BY <2>1, <2>2 DEF Tick
  <2>3. CASE Bounded(run[r].kind)
    <3>1. run'[r] = [run[r] EXCEPT !.spent = @ + 1] /\ run[r].step = "work" /\ run[r].spent < Patience
      BY <2>3 DEF Tick
    <3>2. QED
      BY <2>1, <3>1, ThrowawayAssumption DEF Run
  <2>4. QED
    BY <2>2, <2>3
<1>4. run' \in [Runs -> Run]
  <2>1. run' = [r \in Runs |-> run'[r]]
    BY DEF Tick
  <2>2. QED
    BY <1>3, <2>1
<1>5. ThrowawayTypeOK'
  BY <1>2, <1>4 DEF ThrowawayTypeOK, Project
<1>6. YoungWhileUsed'
  <2> SUFFICES ASSUME NEW o \in Runs, NEW s \in Slugs, Uses(o, s)', Bounded(run'[o].kind)
               PROVE  /\ run'[o].step \notin {"work", "discard"} => projects'[s].age = 0
                      /\ run'[o].step = "work" => projects'[s].age <= run'[o].spent
                      /\ projects'[s].age <= Patience
    BY DEF YoungWhileUsed
  <2>1. Uses(o, s) /\ Bounded(run[o].kind) /\ run[o].step = "work"
    BY <1>3 DEF Uses, Started
  <2>2. projects[s].age <= run[o].spent /\ run[o].spent < Patience
    BY <1>3, <2>1 DEF AgesInv, YoungWhileUsed
  <2>3. projects[s].age \in Nat /\ projects'[s].age \in Nat /\ run[o].spent \in Nat
    BY <1>1, ThrowawayAssumption DEF AgesInv, ThrowawayTypeOK, Project, Run
  <2>4. QED
    BY <1>1, <1>3, <2>1, <2>2, <2>3, ThrowawayAssumption
<1>7. OldWhileListed'
  <2> SUFFICES ASSUME NEW o \in Runs, NEW s \in run'[o].queue, run'[o].limit = MaxAge
               PROVE  projects'[s] = NoProject \/ projects'[s].age >= MaxAge
    BY DEF OldWhileListed
  <2>1. s \in Slugs /\ s \in run[o].queue /\ run[o].limit = MaxAge
    BY <1>3, <1>4 DEF Run
  <2>2. QED
    BY <1>1, <2>1 DEF AgesInv, OldWhileListed
<1>8. QED
  BY <1>5, <1>6, <1>7 DEF AgesInv
-----------------------------------------------------------------------------
(* The theorems.                                                           *)

\* Every step keeps the invariant.
LEMMA AgesStep == AgesInv /\ [Next]_vars => AgesInv'
<1> SUFFICES ASSUME AgesInv, [Next]_vars PROVE AgesInv'
  OBVIOUS
<1>1. CASE UNCHANGED vars
  BY <1>1 DEF vars, AgesInv, ThrowawayTypeOK, YoungWhileUsed, OldWhileListed, Uses, Started
<1>2. CASE Tick
  BY <1>2, TickKeeps
<1>3. ASSUME NEW r \in Runs, Script(r) PROVE AgesInv'
  BY <1>3, MakeKeeps, PrepareKeeps, WorkKeeps, DeleteOnScreenKeeps, ListKeeps, SweepOneKeeps,
     SweptKeeps, DiscardProjectKeeps DEF Script
<1>4. ASSUME NEW r \in Runs, Kill(r) PROVE AgesInv'
  BY <1>4, EndKeeps, KeptOnlyRemoves DEF Kill, AgesInv
<1>5. ASSUME NEW r \in Runs, NEW kind \in Repertoire[r], Start(r, kind) PROVE AgesInv'
  BY <1>5, StartKeeps, ThrowawayAssumption
<1>6. QED
  BY <1>1, <1>2, <1>3, <1>4, <1>5 DEF Next

\* At first there is no project and no process runs.
LEMMA AgesBegin == Init => AgesInv
<1> SUFFICES ASSUME Init PROVE AgesInv
  OBVIOUS
<1>1. ThrowawayTypeOK
  BY IdleTyped, NoProjectTyped DEF Init, ThrowawayTypeOK, Project
<1>2. YoungWhileUsed /\ OldWhileListed
  BY DEF Init, YoungWhileUsed, OldWhileListed, Uses, Started, Idle
<1>3. QED
  BY <1>1, <1>2 DEF AgesInv

\* The ages of the projects and of the sessions that use them fit, whatever the
\* processes do and whenever they are killed.
THEOREM AgesInvariance == Spec => []AgesInv
BY AgesBegin, AgesStep, PTL DEF Spec

\* "Nothing live is ever this old": for every number of processes and projects, a
\* sweep at the default age takes no project a bounded run works on, as long as
\* one session is shorter than that age.
THEOREM LiveProjectsStay == Spec => NeverSweepsLive
<1> DEFINE Spared ==
      \A r \in Runs, s \in Slugs :
        SweepOne(r, s) /\ projects'[s] # projects[s] /\ run[r].limit = MaxAge
          => ~\E other \in Runs : Uses(other, s) /\ Bounded(run[other].kind)
<1>1. ASSUME AgesInv PROVE Spared
  <2> SUFFICES ASSUME NEW r \in Runs, NEW s \in Slugs, NEW other \in Runs,
                      SweepOne(r, s), projects'[s] # projects[s], run[r].limit = MaxAge,
                      Uses(other, s), Bounded(run[other].kind)
               PROVE  FALSE
    OBVIOUS
  <2>1. projects[s].age \in Nat /\ projects[s].age <= Patience
    BY <1>1 DEF AgesInv, YoungWhileUsed, ThrowawayTypeOK
  <2>2. projects[s] # NoProject
    BY <1>1 DEF SweepOne, Gone, AgesInv, ThrowawayTypeOK
  <2>3. projects[s].age >= MaxAge
    BY <1>1, <2>2 DEF SweepOne, AgesInv, OldWhileListed
  <2>4. QED
    BY <2>1, <2>3, ThrowawayAssumption
<1>2. QED
  BY <1>1, AgesInvariance, PTL DEF NeverSweepsLive
=============================================================================
