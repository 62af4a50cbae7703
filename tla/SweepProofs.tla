---------------------------- MODULE SweepProofs ----------------------------
(* The walks for every set of entries and of extensions and every number of *)
(* runs: what ends well was measured, only whole sessions are measurements,  *)
(* and the check of the build inside a walk is the one Registration is.      *)
EXTENDS Sweep, TLAPS

-----------------------------------------------------------------------------
(* The registration check, for every set of extensions and every graph of   *)
(* requirements between them: what holds between two turns of its worklist, *)
(* and that the answer it returns is the one Loading promises.              *)

\* A call that has not begun knows of nothing.
LEMMA NothingKnown == NotCalled => WorklistInv
BY DEF NotCalled, WorklistInv, RegistrationTypeOK, registeredExtensions

\* What the file registers is loaded from the start, and all of it is pending.
LEMMA CallKeeps == WorklistInv /\ Call => WorklistInv'
<1> SUFFICES ASSUME WorklistInv, Call PROVE WorklistInv'
  OBVIOUS
<1>1. RegistrationTypeOK'
  BY RegistrationAssumption DEF Call, RegistrationTypeOK, registeredExtensions
<1>2. loaded' = registeredExtensions' /\ pending' = loaded' /\ phase' = "working"
  BY DEF Call
<1>3. QED
  BY <1>1, <1>2 DEF WorklistInv

\* A turn adds what its extension requires, which every closed set that holds
\* the extension holds too, and keeps the new ones pending.
LEMMA PopKeeps == WorklistInv /\ Pop => WorklistInv'
<1> SUFFICES ASSUME WorklistInv, Pop PROVE WorklistInv'
  OBVIOUS
<1>1. PICK x \in pending :
        /\ loaded' = loaded \cup needed(x)
        /\ pending' = (pending \ {x}) \cup needed(x)
  BY DEF Pop
<1>2. /\ phase = "working" /\ phase' = "working"
      /\ tag' = tag /\ requires' = requires /\ landed' = landed
      /\ registeredExtensions' = registeredExtensions
  BY DEF Pop, registeredExtensions
<1>3. x \in Names /\ x \in loaded /\ requires[x] \in SUBSET Names
  BY DEF WorklistInv, RegistrationTypeOK
<1>4. RegistrationTypeOK'
  BY <1>1, <1>2, <1>3 DEF WorklistInv, RegistrationTypeOK, needed
<1>5. registeredExtensions \subseteq loaded'
  BY <1>1, <1>2 DEF WorklistInv
<1>6. ASSUME NEW y \in loaded' \ pending' PROVE requires[y] \subseteq loaded'
  <2>1. CASE y = x
    BY <1>1, <2>1 DEF needed
  <2>2. CASE y # x
    <3>1. y \in loaded \ pending
      BY <1>1, <2>2
    <3>2. QED
      BY <1>1, <3>1 DEF WorklistInv
  <2>3. QED
    BY <2>1, <2>2
<1>7. ASSUME NEW S \in SUBSET Names, registeredExtensions \subseteq S,
             \A y \in S : requires[y] \subseteq S
      PROVE  loaded' \subseteq S
  <2>1. loaded \subseteq S
    BY <1>7 DEF WorklistInv
  <2>2. requires[x] \subseteq S
    BY <1>3, <1>7, <2>1
  <2>3. QED
    BY <1>1, <2>1, <2>2 DEF needed
<1>8. QED
  BY <1>2, <1>4, <1>5, <1>6, <1>7 DEF WorklistInv

\* The worklist only ends when nothing is pending.
LEMMA ReturnKeeps == WorklistInv /\ Return => WorklistInv'
BY DEF WorklistInv, RegistrationTypeOK, Return, registeredExtensions

\* Leaving forgets everything.
LEMMA LeaveKeeps == Leave => WorklistInv'
BY DEF Leave, WorklistInv, RegistrationTypeOK, registeredExtensions

\* Every step keeps the invariant of the worklist.
LEMMA StepKeeps == WorklistInv /\ [RegistrationNext]_registrationVars => WorklistInv'
<1>1. CASE RegistrationNext
  BY <1>1, CallKeeps, PopKeeps, ReturnKeeps, LeaveKeeps DEF RegistrationNext
<1>2. CASE UNCHANGED registrationVars
  BY <1>2 DEF registrationVars, WorklistInv, RegistrationTypeOK, registeredExtensions
<1>3. QED
  BY <1>1, <1>2

\* Between two turns nothing is loaded that the platform would not load, and
\* nothing a loaded extension requires is forgotten.
THEOREM WorklistSound == RegistrationSpec => []WorklistInv
BY NothingKnown, StepKeeps, PTL DEF RegistrationSpec

-----------------------------------------------------------------------------
(* The answer. *)

\* With nothing pending, what is known to be loaded is the least closed set.
LEMMA LeastClosed ==
  ASSUME WorklistInv, phase = "working", pending = {}, NEW x \in Names
  PROVE  x \in loaded <=> AbstractLoading!Loads(x)
<1>1. loaded \in SUBSET Names /\ AbstractLoading!Closed(loaded)
  BY DEF WorklistInv, RegistrationTypeOK, AbstractLoading!Closed
<1>2. ASSUME x \in loaded PROVE AbstractLoading!Loads(x)
  BY <1>2 DEF WorklistInv, AbstractLoading!Loads, AbstractLoading!Closed
<1>3. ASSUME AbstractLoading!Loads(x) PROVE x \in loaded
  BY <1>1, <1>3 DEF AbstractLoading!Loads
<1>4. QED
  BY <1>2, <1>3

\* The worklist returns the answer Loading gives.
LEMMA ReturnAnswers == WorklistInv /\ Return => AbstractLoading!Answer
<1> SUFFICES ASSUME WorklistInv, Return PROVE AbstractLoading!Answer
  OBVIOUS
<1>1. /\ phase = "working" /\ pending = {} /\ phase' = "done"
      /\ UNCHANGED <<tag, requires, landed, loaded, registeredExtensions>>
  BY DEF Return, registeredExtensions
<1>2. unregistered' = {x \in landed : ~AbstractLoading!Loads(x)}
  BY <1>1, LeastClosed DEF WorklistInv, RegistrationTypeOK, unregistered
<1>3. QED
  BY <1>1, <1>2 DEF AbstractLoading!Answer

\* Every step is one of Loading, or changes nothing it can see.
LEMMA StepImplements ==
  WorklistInv /\ [RegistrationNext]_registrationVars
    => [AbstractLoading!Ask \/ AbstractLoading!Answer \/ AbstractLoading!Forget]_AbstractLoading!vars
<1> SUFFICES ASSUME WorklistInv, [RegistrationNext]_registrationVars
             PROVE  \/ AbstractLoading!Ask \/ AbstractLoading!Answer \/ AbstractLoading!Forget
                    \/ UNCHANGED AbstractLoading!vars
  OBVIOUS
<1>1. CASE Call
  BY <1>1 DEF Call, AbstractLoading!Ask
<1>2. CASE Pop
  BY <1>2 DEF Pop, registeredExtensions, AbstractLoading!vars
<1>3. CASE Return
  BY <1>3, ReturnAnswers
<1>4. CASE Leave
  BY <1>4 DEF Leave, AbstractLoading!Forget
<1>5. CASE UNCHANGED registrationVars
  BY <1>5 DEF registrationVars, registeredExtensions, unregistered, AbstractLoading!vars
<1>6. QED
  BY <1>1, <1>2, <1>3, <1>4, <1>5 DEF RegistrationNext

\* The check answers what Loading promises: exactly the extensions landed in
\* that the least set closed under requirements leaves out, whatever requires
\* what, cycles and shared requirements included.
THEOREM RegistrationImplements == RegistrationSpec => ImplementsLoading
<1>1. NotCalled => AbstractLoading!Init
  BY DEF NotCalled, AbstractLoading!Init
<1>2. QED
  BY <1>1, WorklistSound, StepImplements, PTL DEF RegistrationSpec, ImplementsLoading, AbstractLoading!Spec

-----------------------------------------------------------------------------
(* The walks *)

Measuring == {"diff", "store", "md", "verdict"}
Reviewed == {"review"} \cup Measuring
InHand == {"session", "registration", "checks"} \cup Reviewed
InLoop == {"next"} \cup InHand

\* The entry was measured by this walk and nothing objected.
Measured(e) ==
  /\ e \in good
  /\ store[e].run = run /\ store[e].verdict = "clear" /\ md[e] = store[e]

\* What holds in the loop over the entries.
LoopFits ==
  /\ at \in {"begin"} \cup InLoop => exit = 0
  /\ at \in InLoop => asked # {} /\ asked \subseteq Requests /\ todo \subseteq Requests
  /\ at \in InHand => entry \in Requests
  /\ at \in InHand \ {"session"} => (session.whole <=> session.read)

\* What holds of the entry in hand.
EntryFits ==
  /\ at \in Reviewed => walk = "apply" \/ session.whole
  /\ at \in Reviewed /\ ~failed => entry \in good
  /\ at \in Measuring => verdict \in {"nothing", "skipped", "clear", "blocks"}
  /\ at \in {"md", "verdict"} => store[entry].run = run /\ store[entry].verdict = verdict
  /\ at = "verdict" => md[entry] = store[entry]

\* What holds of the entries the walk is done with.
DoneFits ==
  /\ at \in InLoop /\ ~failed => \A e \in asked \ todo : (at \in InHand /\ e = entry) \/ Measured(e)
  /\ at = "discard" /\ exit = 0 => \A e \in entries : Measured(e)

\* The inductive invariant: the entries already out of the list are measured,
\* or a failure is on record that no later step takes back.
WalkInv ==
  /\ WorklistInv /\ failed \in BOOLEAN
  /\ LoopFits /\ EntryFits /\ DoneFits
  /\ OnlyMeasurements /\ GreenMeansMeasured

-----------------------------------------------------------------------------
(* The check of the build is Registration. *)

\* A step of a walk is a step of Registration or leaves it alone.
LEMMA StepOfRegistration == [SweepNext]_sweepVars => [RegistrationNext]_registrationVars
BY DEF SweepNext, WalkStep, Start, Begin, Prepare, Finished, TimedOut, limited, NotRun, TranscriptFails,
       LookAtTheBuild, Work, Checks, reviewWhatWasWritten, ReviewFails, KeepDiff, RewriteStore,
       writeReviewReading, Judge, Last, discardProject, Killed, sweepVars, RegistrationNext

\* So the check of the build, as the walks call it and are killed in it, behaves
\* as Registration says.
THEOREM WalkRegisters == SweepSpec => RegistrationSpec
<1>1. SweepInit => NotCalled
  BY DEF SweepInit
<1>2. QED
  BY <1>1, StepOfRegistration, PTL DEF SweepSpec, RegistrationSpec

\* The answers a walk acts on are those Loading promises.
THEOREM WalkImplementsLoading == SweepSpec => ImplementsLoading
BY WalkRegisters, RegistrationImplements, PTL

\* And its worklist is sound whenever a walk looks at it.
THEOREM WalkWorklistSound == SweepSpec => []WorklistInv
BY WalkRegisters, WorklistSound, PTL

-----------------------------------------------------------------------------
(* The invariant, action by action. *)

\* Before the first walk nothing is measured and nothing claimed.
LEMMA WalkBegins == SweepInit => WalkInv
<1> SUFFICES ASSUME SweepInit PROVE WalkInv
  OBVIOUS
<1>1. WorklistInv
  BY NothingKnown DEF SweepInit
<1>2. LoopFits /\ EntryFits /\ DoneFits
  BY DEF SweepInit, LoopFits, EntryFits, DoneFits, InLoop, InHand, Reviewed, Measuring
<1>3. OnlyMeasurements /\ GreenMeansMeasured
  BY DEF SweepInit, OnlyMeasurements, GreenMeansMeasured, None
<1>4. QED
  BY <1>1, <1>2, <1>3 DEF SweepInit, WalkInv

\* A new walk starts outside its loop.
LEMMA StartFits == WalkInv /\ WorklistInv' /\ Start => WalkInv'
<1> SUFFICES ASSUME WalkInv, WorklistInv', Start PROVE WalkInv'
  OBVIOUS
<1> USE DEF WalkInv, InLoop, InHand, Reviewed, Measuring, files, process,
            Start
<1>1. LoopFits'
  BY DEF LoopFits
<1>2. EntryFits'
  BY DEF LoopFits, EntryFits
<1>3. DoneFits'
  BY DEF LoopFits, EntryFits, DoneFits, Measured, entries
<1>4. OnlyMeasurements'
  BY DEF LoopFits, EntryFits, OnlyMeasurements
<1>5. GreenMeansMeasured'
  BY DEF DoneFits, Measured, GreenMeansMeasured, entries
<1>6. QED
  BY <1>1, <1>2, <1>3, <1>4, <1>5

\* Once its list is accepted nothing is out of it yet.
LEMMA BeginFits == WalkInv /\ WorklistInv' /\ Begin => WalkInv'
<1> SUFFICES ASSUME WalkInv, WorklistInv', Begin PROVE WalkInv'
  OBVIOUS
<1> USE DEF WalkInv, InLoop, InHand, Reviewed, Measuring, files, process,
            Begin, Throw, entries
<1>1. LoopFits'
  <2>1. CASE at' = "next"
    <3>1. PICK held : ~refused(held)
      BY <2>1
    <3>2. entries # {} /\ entries \subseteq Requests
      BY <3>1, SweepAssumption DEF refused
    <3>3. /\ todo' = entries /\ asked' = entries
          /\ exit' = exit
      BY <2>1
    <3>4. exit = 0
      BY DEF LoopFits
    <3>5. QED
      BY <2>1, <3>2, <3>3, <3>4 DEF LoopFits
  <2>2. CASE at' = "discard"
    BY <2>2 DEF LoopFits
  <2>3. QED
    BY <2>1, <2>2
<1>2. EntryFits'
  BY DEF LoopFits, EntryFits
<1>3. DoneFits'
  BY DEF LoopFits, EntryFits, DoneFits, Measured, entries
<1>4. OnlyMeasurements'
  BY DEF LoopFits, EntryFits, OnlyMeasurements
<1>5. GreenMeansMeasured'
  BY DEF DoneFits, Measured, GreenMeansMeasured, entries
<1>6. QED
  BY <1>1, <1>2, <1>3, <1>4, <1>5

\* The entry that leaves the list is the one in hand.
LEMMA PrepareFits == WalkInv /\ WorklistInv' /\ Prepare => WalkInv'
<1> SUFFICES ASSUME WalkInv, WorklistInv', Prepare PROVE WalkInv'
  OBVIOUS
<1> USE DEF WalkInv, InLoop, InHand, Reviewed, Measuring, files, process,
            Prepare, Throw, entries, Blank
<1>1. LoopFits'
  BY DEF LoopFits
<1>2. EntryFits'
  BY DEF LoopFits, EntryFits
<1>3. DoneFits'
  <2>1. CASE at' = "session"
    <3>1. ASSUME NEW e \in asked \ todo', ~failed PROVE e = entry' \/ Measured(e)'
      <4>1. at = "next" /\ UNCHANGED <<good, store, run, md>>
        OBVIOUS
      <4>2. e = entry' \/ e \in asked \ todo
        OBVIOUS
      <4>3. QED
        BY <3>1, <4>1, <4>2 DEF DoneFits, Measured
    <3>2. UNCHANGED <<asked, failed>>
      OBVIOUS
    <3>3. QED
      BY <2>1, <3>1, <3>2 DEF DoneFits
  <2>2. CASE at' = "discard" /\ exit' = 1
    BY <2>2 DEF DoneFits
  <2>3. QED
    BY <2>1, <2>2
<1>4. OnlyMeasurements'
  BY DEF LoopFits, EntryFits, OnlyMeasurements
<1>5. GreenMeansMeasured'
  BY DEF DoneFits, Measured, GreenMeansMeasured, entries
<1>6. QED
  BY <1>1, <1>2, <1>3, <1>4, <1>5

\* What a session does to its checkout disturbs no other entry.
LEMMA FinishedFits == WalkInv /\ WorklistInv' /\ Finished => WalkInv'
<1> SUFFICES ASSUME WalkInv, WorklistInv', Finished PROVE WalkInv'
  OBVIOUS
<1> USE DEF WalkInv, InLoop, InHand, Reviewed, Measuring, files, process,
            Finished
<1>1. LoopFits'
  BY DEF LoopFits
<1>2. EntryFits'
  BY DEF LoopFits, EntryFits
<1>3. DoneFits'
  <2>1. ASSUME NEW e \in asked \ todo, ~failed' PROVE e = entry \/ Measured(e)'
    <3>1. at = "session" /\ UNCHANGED <<good, store, run, md>>
      OBVIOUS
    <3>2. failed' = failed \/ failed' = TRUE
      OBVIOUS
    <3>3. ~failed
      BY <2>1, <3>2, Zenon
    <3>4. QED
      BY <2>1, <3>1, <3>3 DEF DoneFits, Measured
  <2>2. at' = "registration" /\ UNCHANGED <<asked, todo, entry>>
    OBVIOUS
  <2>3. QED
    BY <2>1, <2>2 DEF DoneFits
<1>4. OnlyMeasurements'
  BY DEF LoopFits, EntryFits, OnlyMeasurements
<1>5. GreenMeansMeasured'
  BY DEF DoneFits, Measured, GreenMeansMeasured, entries
<1>6. QED
  BY <1>1, <1>2, <1>3, <1>4, <1>5

\* A session cut off leaves a failure on record.
LEMMA TimedOutFits == WalkInv /\ WorklistInv' /\ TimedOut => WalkInv'
<1> SUFFICES ASSUME WalkInv, WorklistInv', TimedOut PROVE WalkInv'
  OBVIOUS
<1> USE DEF WalkInv, InLoop, InHand, Reviewed, Measuring, files, process,
            TimedOut, Throw
<1>1. LoopFits'
  BY DEF LoopFits
<1>2. EntryFits'
  BY DEF LoopFits, EntryFits
<1>3. DoneFits'
  BY DEF LoopFits, EntryFits, DoneFits, Measured, entries
<1>4. OnlyMeasurements'
  BY DEF LoopFits, EntryFits, OnlyMeasurements
<1>5. GreenMeansMeasured'
  BY DEF DoneFits, Measured, GreenMeansMeasured, entries
<1>6. QED
  BY <1>1, <1>2, <1>3, <1>4, <1>5

\* A session cut off for usage ends the walk.
LEMMA LimitedFits == WalkInv /\ WorklistInv' /\ limited => WalkInv'
<1> SUFFICES ASSUME WalkInv, WorklistInv', limited PROVE WalkInv'
  OBVIOUS
<1> USE DEF WalkInv, InLoop, InHand, Reviewed, Measuring, files, process,
            limited, Throw
<1>1. LoopFits'
  BY DEF LoopFits
<1>2. EntryFits'
  BY DEF LoopFits, EntryFits
<1>3. DoneFits'
  BY DEF LoopFits, EntryFits, DoneFits, Measured, entries
<1>4. OnlyMeasurements'
  BY DEF LoopFits, EntryFits, OnlyMeasurements
<1>5. GreenMeansMeasured'
  BY DEF DoneFits, Measured, GreenMeansMeasured, entries
<1>6. QED
  BY <1>1, <1>2, <1>3, <1>4, <1>5

\* So does one that never ran.
LEMMA NotRunFits == WalkInv /\ WorklistInv' /\ NotRun => WalkInv'
<1> SUFFICES ASSUME WalkInv, WorklistInv', NotRun PROVE WalkInv'
  OBVIOUS
<1> USE DEF WalkInv, InLoop, InHand, Reviewed, Measuring, files, process,
            NotRun, Throw
<1>1. LoopFits'
  BY DEF LoopFits
<1>2. EntryFits'
  BY DEF LoopFits, EntryFits
<1>3. DoneFits'
  BY DEF LoopFits, EntryFits, DoneFits, Measured, entries
<1>4. OnlyMeasurements'
  BY DEF LoopFits, EntryFits, OnlyMeasurements
<1>5. GreenMeansMeasured'
  BY DEF DoneFits, Measured, GreenMeansMeasured, entries
<1>6. QED
  BY <1>1, <1>2, <1>3, <1>4, <1>5

\* And one whose transcript is not written.
LEMMA TranscriptFailsFits == WalkInv /\ WorklistInv' /\ TranscriptFails => WalkInv'
<1> SUFFICES ASSUME WalkInv, WorklistInv', TranscriptFails PROVE WalkInv'
  OBVIOUS
<1> USE DEF WalkInv, InLoop, InHand, Reviewed, Measuring, files, process,
            TranscriptFails, Throw
<1>1. LoopFits'
  BY DEF LoopFits
<1>2. EntryFits'
  BY DEF LoopFits, EntryFits
<1>3. DoneFits'
  BY DEF LoopFits, EntryFits, DoneFits, Measured, entries
<1>4. OnlyMeasurements'
  BY DEF LoopFits, EntryFits, OnlyMeasurements
<1>5. GreenMeansMeasured'
  BY DEF DoneFits, Measured, GreenMeansMeasured, entries
<1>6. QED
  BY <1>1, <1>2, <1>3, <1>4, <1>5

\* Nor does looking at the build.
LEMMA LookAtTheBuildFits == WalkInv /\ WorklistInv' /\ LookAtTheBuild => WalkInv'
<1> SUFFICES ASSUME WalkInv, WorklistInv', LookAtTheBuild PROVE WalkInv'
  OBVIOUS
<1> USE DEF WalkInv, InLoop, InHand, Reviewed, Measuring, files, process,
            LookAtTheBuild
<1>1. LoopFits'
  BY DEF LoopFits
<1>2. EntryFits'
  BY DEF LoopFits, EntryFits
<1>3. DoneFits'
  BY DEF LoopFits, EntryFits, DoneFits, Measured, entries
<1>4. OnlyMeasurements'
  BY DEF LoopFits, EntryFits, OnlyMeasurements
<1>5. GreenMeansMeasured'
  BY DEF DoneFits, Measured, GreenMeansMeasured, entries
<1>6. QED
  BY <1>1, <1>2, <1>3, <1>4, <1>5

\* Nor does a turn of the worklist.
LEMMA WorkFits == WalkInv /\ WorklistInv' /\ Work => WalkInv'
<1> SUFFICES ASSUME WalkInv, WorklistInv', Work PROVE WalkInv'
  OBVIOUS
<1> USE DEF WalkInv, InLoop, InHand, Reviewed, Measuring, files, process,
            Work
<1>1. LoopFits'
  BY DEF LoopFits
<1>2. EntryFits'
  BY DEF LoopFits, EntryFits
<1>3. DoneFits'
  BY DEF LoopFits, EntryFits, DoneFits, Measured, entries
<1>4. OnlyMeasurements'
  BY DEF LoopFits, EntryFits, OnlyMeasurements
<1>5. GreenMeansMeasured'
  BY DEF DoneFits, Measured, GreenMeansMeasured, entries
<1>6. QED
  BY <1>1, <1>2, <1>3, <1>4, <1>5

\* The review gives one of its four answers.
LEMMA ReviewWhatWasWrittenFits == WalkInv /\ WorklistInv' /\ reviewWhatWasWritten => WalkInv'
<1> SUFFICES ASSUME WalkInv, WorklistInv', reviewWhatWasWritten PROVE WalkInv'
  OBVIOUS
<1> USE DEF WalkInv, InLoop, InHand, Reviewed, Measuring, files, process,
            reviewWhatWasWritten
<1>1. LoopFits'
  BY DEF LoopFits
<1>2. EntryFits'
  BY DEF LoopFits, EntryFits
<1>3. DoneFits'
  BY DEF LoopFits, EntryFits, DoneFits, Measured, entries
<1>4. OnlyMeasurements'
  BY DEF LoopFits, EntryFits, OnlyMeasurements
<1>5. GreenMeansMeasured'
  BY DEF DoneFits, Measured, GreenMeansMeasured, entries
<1>6. QED
  BY <1>1, <1>2, <1>3, <1>4, <1>5

\* A review that fails ends the walk.
LEMMA ReviewFailsFits == WalkInv /\ WorklistInv' /\ ReviewFails => WalkInv'
<1> SUFFICES ASSUME WalkInv, WorklistInv', ReviewFails PROVE WalkInv'
  OBVIOUS
<1> USE DEF WalkInv, InLoop, InHand, Reviewed, Measuring, files, process,
            ReviewFails, Throw
<1>1. LoopFits'
  BY DEF LoopFits
<1>2. EntryFits'
  BY DEF LoopFits, EntryFits
<1>3. DoneFits'
  BY DEF LoopFits, EntryFits, DoneFits, Measured, entries
<1>4. OnlyMeasurements'
  BY DEF LoopFits, EntryFits, OnlyMeasurements
<1>5. GreenMeansMeasured'
  BY DEF DoneFits, Measured, GreenMeansMeasured, entries
<1>6. QED
  BY <1>1, <1>2, <1>3, <1>4, <1>5

\* The code kept beside a measurement is not part of it.
LEMMA KeepDiffFits == WalkInv /\ WorklistInv' /\ KeepDiff => WalkInv'
<1> SUFFICES ASSUME WalkInv, WorklistInv', KeepDiff PROVE WalkInv'
  OBVIOUS
<1> USE DEF WalkInv, InLoop, InHand, Reviewed, Measuring, files, process,
            KeepDiff
<1>1. LoopFits'
  BY DEF LoopFits
<1>2. EntryFits'
  BY DEF LoopFits, EntryFits
<1>3. DoneFits'
  BY DEF LoopFits, EntryFits, DoneFits, Measured, entries
<1>4. OnlyMeasurements'
  BY DEF LoopFits, EntryFits, OnlyMeasurements
<1>5. GreenMeansMeasured'
  BY DEF DoneFits, Measured, GreenMeansMeasured, entries
<1>6. QED
  BY <1>1, <1>2, <1>3, <1>4, <1>5

\* The store changes in the entry in hand only.
LEMMA RewriteStoreFits == WalkInv /\ WorklistInv' /\ RewriteStore => WalkInv'
<1> SUFFICES ASSUME WalkInv, WorklistInv', RewriteStore PROVE WalkInv'
  OBVIOUS
<1> USE DEF WalkInv, InLoop, InHand, Reviewed, Measuring, files, process,
            RewriteStore, Throw, kept, measurement
<1>1. LoopFits'
  BY DEF LoopFits
<1>2. EntryFits'
  BY DEF LoopFits, EntryFits
<1>3. DoneFits'
  BY DEF LoopFits, EntryFits, DoneFits, Measured, entries
<1>4. OnlyMeasurements'
  <2>1. CASE torn
    BY <2>1 DEF OnlyMeasurements
  <2>2. CASE ~torn
    <3>1. measurement.whole
      BY Zenon DEF EntryFits
    <3>2. ASSUME NEW e \in Requests PROVE store'[e] = measurement \/ store'[e] = store[e]
      BY <2>2
    <3>3. QED
      BY <3>1, <3>2, Zenon DEF OnlyMeasurements
  <2>3. QED
    BY <2>1, <2>2
<1>5. GreenMeansMeasured'
  BY DEF DoneFits, Measured, GreenMeansMeasured, entries
<1>6. QED
  BY <1>1, <1>2, <1>3, <1>4, <1>5

\* The reading catches up with the store.
LEMMA WriteReviewReadingFits == WalkInv /\ WorklistInv' /\ writeReviewReading => WalkInv'
<1> SUFFICES ASSUME WalkInv, WorklistInv', writeReviewReading PROVE WalkInv'
  OBVIOUS
<1> USE DEF WalkInv, InLoop, InHand, Reviewed, Measuring, files, process,
            writeReviewReading, rendered
<1>1. LoopFits'
  BY DEF LoopFits
<1>2. EntryFits'
  BY DEF LoopFits, EntryFits
<1>3. DoneFits'
  BY DEF LoopFits, EntryFits, DoneFits, Measured, entries
<1>4. OnlyMeasurements'
  BY DEF LoopFits, EntryFits, OnlyMeasurements
<1>5. GreenMeansMeasured'
  BY DEF DoneFits, Measured, GreenMeansMeasured, entries
<1>6. QED
  BY <1>1, <1>2, <1>3, <1>4, <1>5

\* The entry in hand is done with: measured, or a failure.
LEMMA JudgeFits == WalkInv /\ WorklistInv' /\ Judge => WalkInv'
<1> SUFFICES ASSUME WalkInv, WorklistInv', Judge PROVE WalkInv'
  OBVIOUS
<1> USE DEF WalkInv, InLoop, InHand, Reviewed, Measuring, files, process,
            Judge, objections
<1>1. LoopFits'
  BY DEF LoopFits
<1>2. EntryFits'
  BY DEF LoopFits, EntryFits
<1>3. DoneFits'
  BY DEF LoopFits, EntryFits, DoneFits, Measured, entries
<1>4. OnlyMeasurements'
  BY DEF LoopFits, EntryFits, OnlyMeasurements
<1>5. GreenMeansMeasured'
  BY DEF DoneFits, Measured, GreenMeansMeasured, entries
<1>6. QED
  BY <1>1, <1>2, <1>3, <1>4, <1>5

\* Without a failure every entry is done with and measured.
LEMMA LastFits == WalkInv /\ WorklistInv' /\ Last => WalkInv'
<1> SUFFICES ASSUME WalkInv, WorklistInv', Last PROVE WalkInv'
  OBVIOUS
<1> USE DEF WalkInv, InLoop, InHand, Reviewed, Measuring, files, process,
            Last, entries
<1>1. LoopFits'
  BY DEF LoopFits
<1>2. EntryFits'
  BY DEF LoopFits, EntryFits
<1>3. DoneFits'
  BY DEF LoopFits, EntryFits, DoneFits, Measured, entries
<1>4. OnlyMeasurements'
  BY DEF LoopFits, EntryFits, OnlyMeasurements
<1>5. GreenMeansMeasured'
  BY DEF DoneFits, Measured, GreenMeansMeasured, entries
<1>6. QED
  BY <1>1, <1>2, <1>3, <1>4, <1>5

\* Discarding the project changes no exit code.
LEMMA DiscardProjectFits == WalkInv /\ WorklistInv' /\ discardProject => WalkInv'
<1> SUFFICES ASSUME WalkInv, WorklistInv', discardProject PROVE WalkInv'
  OBVIOUS
<1> USE DEF WalkInv, InLoop, InHand, Reviewed, Measuring, files, process,
            discardProject, entries
<1>1. LoopFits'
  BY DEF LoopFits
<1>2. EntryFits'
  BY DEF LoopFits, EntryFits
<1>3. DoneFits'
  BY DEF LoopFits, EntryFits, DoneFits, Measured, entries
<1>4. OnlyMeasurements'
  BY DEF LoopFits, EntryFits, OnlyMeasurements
<1>5. GreenMeansMeasured'
  BY DEF DoneFits, Measured, GreenMeansMeasured, entries
<1>6. QED
  BY <1>1, <1>2, <1>3, <1>4, <1>5

\* A killed walk did not end well.
LEMMA KilledFits == WalkInv /\ WorklistInv' /\ Killed => WalkInv'
<1> SUFFICES ASSUME WalkInv, WorklistInv', Killed PROVE WalkInv'
  OBVIOUS
<1> USE DEF WalkInv, InLoop, InHand, Reviewed, Measuring, files, process,
            Killed, None
<1>1. LoopFits'
  BY DEF LoopFits
<1>2. EntryFits'
  BY DEF LoopFits, EntryFits
<1>3. DoneFits'
  BY DEF LoopFits, EntryFits, DoneFits, Measured, entries
<1>4. OnlyMeasurements'
  BY DEF LoopFits, EntryFits, OnlyMeasurements
<1>5. GreenMeansMeasured'
  BY DEF DoneFits, Measured, GreenMeansMeasured, entries
<1>6. QED
  BY <1>1, <1>2, <1>3, <1>4, <1>5

\* Without a failure on record the session was whole and what it landed in is
\* loaded, so the entry in hand is among the good ones.
LEMMA ChecksFits == WalkInv /\ WorklistInv' /\ Checks => WalkInv'
<1> SUFFICES ASSUME WalkInv, WorklistInv', Checks PROVE WalkInv'
  OBVIOUS
<1> USE DEF WalkInv, InLoop, InHand, Reviewed, Measuring, files, process
<1>1. ASSUME unregistered = {}, NEW x \in landed PROVE AbstractLoading!Loads(x)
  BY <1>1 DEF WorklistInv, unregistered, AbstractLoading!Loads, AbstractLoading!Closed
<1>2. ~failed' => session.read /\ good' = good \cup {entry}
  BY <1>1 DEF Checks, LoopFits
<1>3. LoopFits'
  BY DEF LoopFits, Checks
<1>4. EntryFits'
  BY <1>2 DEF LoopFits, EntryFits, Checks, measured
<1>5. DoneFits'
  BY <1>2 DEF LoopFits, EntryFits, DoneFits, Measured, entries, Checks, measured
<1>6. OnlyMeasurements' /\ GreenMeansMeasured'
  BY DEF OnlyMeasurements, GreenMeansMeasured, entries, Checks
<1>7. QED
  BY <1>2, <1>3, <1>4, <1>5, <1>6 DEF Checks

\* Every step of a walk keeps the invariant.
LEMMA WalkStepFits == WalkInv /\ [SweepNext]_sweepVars => WalkInv'
<1> SUFFICES ASSUME WalkInv, [SweepNext]_sweepVars PROVE WalkInv'
  OBVIOUS
<1>1. WorklistInv'
  BY StepOfRegistration, StepKeeps DEF WalkInv
<1>2. CASE UNCHANGED sweepVars
  BY <1>1, <1>2 DEF WalkInv, LoopFits, EntryFits, DoneFits, OnlyMeasurements, GreenMeansMeasured,
                    Measured, entries, sweepVars, files, process
<1>3. CASE SweepNext
  BY <1>1, <1>3, StartFits, BeginFits, PrepareFits, FinishedFits, TimedOutFits, LimitedFits,
     NotRunFits, TranscriptFailsFits, LookAtTheBuildFits, WorkFits, ReviewWhatWasWrittenFits, ReviewFailsFits,
     KeepDiffFits, RewriteStoreFits, WriteReviewReadingFits, JudgeFits, LastFits,
     DiscardProjectFits, KilledFits, ChecksFits
     DEF SweepNext, WalkStep
<1>4. QED
  BY <1>2, <1>3

\* The entries a walk is done with are measured, or it has failed.
THEOREM WalkInvariance == SweepSpec => []WalkInv
BY WalkBegins, WalkStepFits, PTL DEF SweepSpec

\* No session that was cut off or never read its entry is on record as a
\* measurement of a sweep.
THEOREM OnlyWholeSessions == SweepSpec => []OnlyMeasurements
<1>1. WalkInv => OnlyMeasurements
  BY DEF WalkInv
<1>2. QED
  BY <1>1, WalkInvariance, PTL

\* Exit code 0 means every entry asked for was measured by this very walk, in
\* both files, without an objection and in extensions that are loaded.
THEOREM GreenIsMeasured == SweepSpec => []GreenMeansMeasured
<1>1. WalkInv => GreenMeansMeasured
  BY DEF WalkInv
<1>2. QED
  BY <1>1, WalkInvariance, PTL

-----------------------------------------------------------------------------
(* What a walk keeps beside its measurements. *)

\* The files count walks of this day, and the code of the entry in hand is kept
\* before its measurement is: a review that answered had code to read.
FilesInv ==
  /\ run \in Nat
  /\ diffs \in [Requests -> 0..run]
  /\ \A e \in Requests : store[e].run \in 0..run
  /\ at \in {"diff", "store"} /\ verdict # "nothing" => session.wrote
  /\ at = "store" /\ session.wrote => diffs[entry] = run
  /\ DiffOfMeasurement

\* Steps that touch neither the files nor the entry the loop has in hand.
LEMMA FilesAlone ==
  ASSUME FilesInv, UNCHANGED <<store, diffs, run>>, at' \notin {"diff", "store"}
  PROVE  FilesInv'
BY DEF FilesInv, DiffOfMeasurement

\* A new walk is younger than everything on file.
LEMMA StartKeepsFiles == FilesInv /\ Start => FilesInv'
<1> SUFFICES ASSUME FilesInv, Start PROVE FilesInv'
  OBVIOUS
<1>1. run' = run + 1 /\ run \in Nat /\ 0..run \subseteq 0..run'
  BY DEF Start, FilesInv
<1>2. UNCHANGED <<store, diffs>> /\ at' = "begin"
  BY DEF Start, files
<1>3. diffs' \in [Requests -> 0..run'] /\ \A e \in Requests : store'[e].run \in 0..run'
  BY <1>1, <1>2 DEF FilesInv
<1>4. DiffOfMeasurement'
  BY <1>2 DEF FilesInv, DiffOfMeasurement
<1>5. QED
  BY <1>1, <1>2, <1>3, <1>4 DEF FilesInv

\* Whatever the review said but nothing, it said of code that was written.
LEMMA ReviewKeepsFiles == FilesInv /\ reviewWhatWasWritten => FilesInv'
BY DEF FilesInv, DiffOfMeasurement, reviewWhatWasWritten, files, process

\* The code of the entry in hand is of this walk from here on.
LEMMA KeepDiffKeepsFiles == WalkInv /\ FilesInv /\ KeepDiff => FilesInv'
<1> SUFFICES ASSUME WalkInv, FilesInv, KeepDiff PROVE FilesInv'
  OBVIOUS
<1>1. entry \in Requests
  BY DEF KeepDiff, WalkInv, LoopFits, InHand, Reviewed, Measuring
<1>2. /\ at = "diff" /\ at' = "store"
      /\ UNCHANGED <<store, run, entry, session, verdict>>
      /\ diffs' = IF session.wrote THEN [diffs EXCEPT ![entry] = run] ELSE diffs
  BY DEF KeepDiff, diffTaken, process
<1>3. run \in 0..run
  BY DEF FilesInv
<1>4. /\ diffs' \in [Requests -> 0..run']
      /\ session.wrote => diffs'[entry] = run
      /\ \A e \in Requests : diffs'[e] = diffs[e] \/ diffs'[e] = run
  BY <1>1, <1>2, <1>3 DEF FilesInv
<1>5. ASSUME NEW e \in Requests, store[e].run > 0, store[e].verdict # "nothing"
      PROVE  diffs'[e] >= store[e].run
  <2>1. diffs[e] >= store[e].run /\ store[e].run \in 0..run /\ diffs[e] \in 0..run
    BY <1>5 DEF FilesInv, DiffOfMeasurement
  <2>2. QED
    BY <1>4, <2>1 DEF FilesInv
<1>6. DiffOfMeasurement'
  BY <1>2, <1>5 DEF DiffOfMeasurement
<1>7. QED
  BY <1>2, <1>4, <1>6 DEF FilesInv

\* What is stored of an entry is of this walk, or what was there before.
LEMMA StoredIsOfThisWalk ==
  ASSUME RewriteStore, NEW e \in Requests
  PROVE  \/ store'[e] = store[e]
         \/ at = "store" /\ e = entry /\ store'[e].run = run /\ store'[e].verdict = verdict
BY DEF RewriteStore, kept, measurement

\* The measurement goes beside the code it was taken on.
LEMMA RewriteStoreKeepsFiles == FilesInv /\ RewriteStore => FilesInv'
<1> SUFFICES ASSUME FilesInv, RewriteStore PROVE FilesInv'
  OBVIOUS
<1>1. /\ at = "store" /\ at' \notin {"diff", "store"}
      /\ UNCHANGED <<diffs, run, entry, session, verdict>>
  BY DEF RewriteStore, Throw, process
<1>2. ASSUME NEW e \in Requests
      PROVE  /\ store'[e].run \in 0..run
             /\ store'[e].run > 0 /\ store'[e].verdict # "nothing" => diffs[e] >= store'[e].run
  <2>1. CASE store'[e] = store[e]
    BY <2>1 DEF FilesInv, DiffOfMeasurement
  <2>2. CASE e = entry /\ store'[e].run = run /\ store'[e].verdict = verdict
    BY <1>1, <2>2 DEF FilesInv
  <2>3. QED
    BY <2>1, <2>2, StoredIsOfThisWalk
<1>3. DiffOfMeasurement'
  BY <1>1, <1>2 DEF DiffOfMeasurement
<1>4. QED
  BY <1>1, <1>2, <1>3 DEF FilesInv

\* A kill takes the whole store or nothing.
LEMMA KilledKeepsFiles == FilesInv /\ Killed => FilesInv'
<1> SUFFICES ASSUME FilesInv, Killed PROVE FilesInv'
  OBVIOUS
<1>1. at' = "ended" /\ UNCHANGED <<diffs, run>>
  BY DEF Killed, process
<1>2. ASSUME NEW e \in Requests PROVE store'[e] = None \/ store'[e] = store[e]
  BY DEF Killed
<1>3. \A e \in Requests : store'[e].run \in 0..run
  BY <1>2 DEF FilesInv, None
<1>4. DiffOfMeasurement'
  BY <1>1, <1>2 DEF FilesInv, DiffOfMeasurement, None
<1>5. QED
  BY <1>1, <1>3, <1>4 DEF FilesInv

\* Every step of a walk keeps the files as they must be.
LEMMA FilesStep == WalkInv /\ FilesInv /\ [SweepNext]_sweepVars => FilesInv'
<1> SUFFICES ASSUME WalkInv, FilesInv, [SweepNext]_sweepVars PROVE FilesInv'
  OBVIOUS
<1>1. CASE UNCHANGED sweepVars
  BY <1>1 DEF sweepVars, files, process, FilesInv, DiffOfMeasurement
<1>2. CASE Begin \/ Prepare \/ Finished \/ TimedOut \/ limited \/ NotRun \/ TranscriptFails
  BY <1>2, FilesAlone DEF Begin, Prepare, Finished, TimedOut, limited, NotRun, TranscriptFails, Throw,
     files, process
<1>3. CASE LookAtTheBuild \/ Work \/ Checks
  BY <1>3, FilesAlone DEF LookAtTheBuild, Work, Checks, files, process
<1>4. CASE ReviewFails \/ writeReviewReading \/ Judge \/ Last \/ discardProject
  BY <1>4, FilesAlone DEF ReviewFails, writeReviewReading, Judge, Last, discardProject, Throw,
     files, process
<1>5. QED
  BY <1>1, <1>2, <1>3, <1>4, StartKeepsFiles, ReviewKeepsFiles, KeepDiffKeepsFiles,
     RewriteStoreKeepsFiles, KilledKeepsFiles DEF SweepNext, WalkStep

\* Before the first walk the files are empty.
LEMMA FilesBegin == SweepInit => FilesInv
BY DEF SweepInit, FilesInv, DiffOfMeasurement, None

\* The files and the walks that wrote them fit, at every step of every walk.
THEOREM FilesInvariance == SweepSpec => []FilesInv
BY FilesBegin, FilesStep, WalkInvariance, PTL DEF SweepSpec

\* The code kept beside a measurement is never older than the measurement: no
\* walk, whatever kills it, leaves code of an earlier one under its verdict.
THEOREM DiffIsOfMeasurement == SweepSpec => []DiffOfMeasurement
<1>1. FilesInv => DiffOfMeasurement
  BY DEF FilesInv
<1>2. QED
  BY <1>1, FilesInvariance, PTL

\* A measurement is replaced by a later walk's or goes with the whole store: no
\* step puts an older one back, and no other entry's is lost on the way.
THEOREM MeasurementsStay == SweepSpec => MeasurementsKept
<1> DEFINE Kept == \A e \in Requests : store'[e].run < store[e].run => torn'
<1>1. ASSUME FilesInv, [SweepNext]_sweepVars PROVE [Kept]_sweepVars
  <2>1. CASE UNCHANGED sweepVars
    BY <2>1
  <2>2. CASE RewriteStore
    <3>1. ASSUME NEW e \in Requests PROVE ~(store'[e].run < store[e].run)
      BY <1>1, <2>2, StoredIsOfThisWalk DEF FilesInv
    <3>2. QED
      BY <3>1
  <2>3. CASE Killed
    <3>1. ASSUME NEW e \in Requests, ~torn' PROVE ~(store'[e].run < store[e].run)
      BY <1>1, <2>3, <3>1 DEF Killed, FilesInv
    <3>2. QED
      BY <3>1
  <2>4. CASE UNCHANGED store
    <3>1. ASSUME NEW e \in Requests PROVE ~(store'[e].run < store[e].run)
      BY <1>1, <2>4 DEF FilesInv
    <3>2. QED
      BY <3>1
  <2>5. SweepNext => RewriteStore \/ Killed \/ UNCHANGED store
    BY DEF SweepNext, WalkStep, Start, Begin, Prepare, Finished, TimedOut, limited, NotRun, TranscriptFails,
       LookAtTheBuild, Work, Checks, reviewWhatWasWritten, ReviewFails, KeepDiff,
       writeReviewReading, Judge, Last, discardProject, files
  <2>6. QED
    BY <1>1, <2>1, <2>2, <2>3, <2>4, <2>5
<1>2. QED
  BY <1>1, FilesInvariance, PTL DEF SweepSpec, MeasurementsKept

-----------------------------------------------------------------------------
(* What a walk leaves behind. *)

\* The checkout is there while an entry is in hand, the home while its session
\* runs; only a kill leaves either behind. What no try covers ends the walk.
LeftInv ==
  /\ at \in {"begin", "next", "discard"} => left \cap {"repo", "home"} = {}
  /\ at \in InHand \ {"session"} => "home" \notin left
  /\ at = "ended" /\ exit # 137 => left \cap {"repo", "home"} = {}
  /\ "leaked" \in left => at \in {"discard", "ended"} /\ exit \in {1, 137}

\* Every way out of an entry removes what was made for it.
LEMMA LeftStep == LeftInv /\ [SweepNext]_sweepVars => LeftInv'
<1> SUFFICES ASSUME LeftInv, [SweepNext]_sweepVars PROVE LeftInv'
  OBVIOUS
<1> USE DEF LeftInv, InHand, Reviewed, Measuring
<1>1. CASE UNCHANGED sweepVars
  BY <1>1 DEF sweepVars
<1>2. CASE Start \/ Begin
  BY <1>2 DEF Start, Begin, Throw
<1>3. CASE Prepare
  BY <1>3 DEF Prepare, Throw
<1>4. CASE Finished
  BY <1>4 DEF Finished
<1>5. CASE TimedOut \/ limited \/ NotRun \/ TranscriptFails
  BY <1>5 DEF TimedOut, limited, NotRun, TranscriptFails, Throw, removed
<1>6. CASE LookAtTheBuild \/ Work \/ reviewWhatWasWritten \/ KeepDiff \/ writeReviewReading
  BY <1>6 DEF LookAtTheBuild, Work, reviewWhatWasWritten, KeepDiff, writeReviewReading
<1>7. CASE Checks
  BY <1>7 DEF Checks
<1>8. CASE ReviewFails \/ RewriteStore
  BY <1>8 DEF ReviewFails, RewriteStore, Throw
<1>9. CASE Judge \/ Last
  BY <1>9 DEF Judge, Last
<1>10. CASE discardProject
  BY <1>10 DEF discardProject
<1>11. CASE Killed
  BY <1>11 DEF Killed
<1>12. QED
  BY <1>1, <1>2, <1>3, <1>4, <1>5, <1>6, <1>7, <1>8, <1>9, <1>10, <1>11 DEF SweepNext, WalkStep

\* A walk that was not killed leaves no checkout and no home behind, however its
\* sessions and its reviews ended; the two places no try covers end the walk.
THEOREM WalkCleansUp == SweepSpec => []NothingLeft
<1>1. SweepInit => LeftInv
  BY DEF SweepInit, LeftInv, InHand, Reviewed, Measuring
<1>2. LeftInv => NothingLeft
  BY DEF LeftInv, NothingLeft
<1>3. QED
  BY <1>1, <1>2, LeftStep, PTL DEF SweepSpec
=============================================================================
