------------------------------- MODULE Sweep -------------------------------
(* The walks of scripts/walk_skill.mjs that measure what the catalog writes: *)
(* `apply-catalog`, an editor's session per catalog entry, and `apply`, one  *)
(* session for one entry. Each session lands in a fresh checkout, is checked *)
(* there (with Registration for what the build would load) and is sent       *)
(* through the review; its measurement goes to the day's reading, which      *)
(* outlives the process: running an entry again replaces its measurement.    *)
(* A process may be killed at any step and a later one finishes the list.    *)
EXTENDS Registration, Naturals

CONSTANTS
  Requests,    \* the entries a request is written for (CATALOG_REQUESTS)
  ApplyEntry,  \* the entry the `apply` walk asks for
  Unwritten,   \* an entry of the catalog nobody wrote a request for
  MaxRuns      \* bound: walks started on one day

ASSUME SweepAssumption == ApplyEntry \in Requests /\ Unwritten \notin Requests /\ MaxRuns \in Nat

VARIABLES
  store,    \* <stem>.json: the measurements, by entry
  torn,     \* <stem>.json was cut off while it was written
  md,       \* <stem>.md: the measurements it was last rendered from
  diffs,    \* <stem>-<entry>.diff: the walk it was written by, 0 when absent
  run,      \* which walk of the day this is
  walk,     \* "sweep" or "apply"
  asked,    \* the entries asked for; none means all of them
  todo,     \* the entries of the loop still to come
  entry,    \* the one in hand
  session,  \* how its session went
  verdict,  \* what the review of it said
  at,       \* where the process is
  failed,   \* `failures` holds something
  exit,     \* how the process ended
  left,     \* what is on disk or on the server because of this walk
  lost,     \* a kill fell between the store and the reading
  good      \* entries of this walk whose session was whole and would be loaded
files == <<store, torn, md, diffs, lost>>
process == <<run, walk, asked, todo, entry>>
sweepVars == <<files, process, session, verdict, at, failed, exit, left, good, registrationVars>>

None == [run |-> 0, verdict |-> "nothing", whole |-> TRUE]
Blank == [read |-> FALSE, wrote |-> FALSE, whole |-> FALSE]

entries == IF asked = {} THEN Requests ELSE asked

SweepInit ==
  /\ store = [e \in Requests |-> None] /\ md = store
  /\ torn = FALSE /\ lost = FALSE
  /\ diffs = [e \in Requests |-> 0]
  /\ run = 0 /\ walk = "sweep" /\ asked = {} /\ todo = {} /\ entry = ApplyEntry
  /\ session = Blank /\ verdict = "nothing"
  /\ at = "ended" /\ failed = FALSE /\ exit = 0 /\ left = {} /\ good = {}
  /\ NotCalled

-----------------------------------------------------------------------------
(* main: a project of its own, then the walk. *)

Start ==
  /\ at = "ended" /\ run < MaxRuns
  /\ run' = run + 1
  /\ \/ walk' = "sweep" /\ asked' \in SUBSET (Requests \cup {Unwritten})
     \/ walk' = "apply" /\ asked' = {ApplyEntry}
  /\ at' = "begin" /\ failed' = FALSE /\ exit' = 0 /\ left' = {"project"} /\ good' = {}
  /\ todo' = {}
  /\ entry' = ApplyEntry /\ session' = Blank /\ verdict' = "nothing"
  /\ UNCHANGED <<files, registrationVars>>

\* A throw below main: `finally` discards the project, then exit 1.
Throw == at' = "discard" /\ exit' = 1

\* An entry without a request, one the catalog does not hold, and, when all are
\* asked for, one it holds that nobody wrote a request for.
refused(held) ==
  \/ ~(asked \subseteq Requests)
  \/ ~(entries \subseteq held)
  \/ asked = {} /\ ~(held \subseteq Requests)

Begin ==
  /\ at = "begin"
  /\ \E held \in SUBSET (Requests \cup {Unwritten}) :
       IF refused(held) THEN Throw /\ UNCHANGED <<asked, todo>>
       ELSE at' = "next" /\ todo' = entries /\ asked' = entries /\ UNCHANGED exit
  /\ UNCHANGED <<files, run, walk, entry, session, verdict, failed, left, good, registrationVars>>

-----------------------------------------------------------------------------
(* walkOnce: one session. *)

\* The checkout and the throwaway home. A failure on the way, which no `try`
\* covers yet, leaves what there was.
Prepare ==
  /\ at = "next"
  /\ \E e \in todo :
       /\ entry' = e
       /\ todo' = todo \ {e}
       /\ \/ at' = "session" /\ left' = left \cup {"repo", "home"} /\ UNCHANGED exit
          \/ Throw /\ left' \in {left \cup {"leaked"}, left}
  /\ session' = Blank /\ verdict' = "nothing"
  /\ UNCHANGED <<files, run, walk, asked, failed, good, registrationVars>>

\* A session the editor ended by itself. It may have read another entry than
\* the one described, or none, and written nothing; the checks of its text and
\* of each file it wrote may find fault with it.
Finished ==
  /\ at = "session"
  /\ \E read, wrote \in BOOLEAN : session' = [read |-> read, wrote |-> wrote, whole |-> read]
  /\ failed' \in {failed, TRUE}
  /\ at' = "registration"
  /\ left' = left \ {"home"}
  /\ UNCHANGED <<files, process, verdict, exit, good, registrationVars>>

\* The catch of walkOnce removes the checkout, its finally the home.
removedHome == {"home"}
removed == {"repo", "home"}

\* Stopped at sessionTimeoutMs: the sweep goes on to the next entry.
TimedOut ==
  /\ at = "session"
  /\ left' = left \ removed
  /\ IF walk = "sweep" THEN at' = "next" /\ failed' = TRUE /\ UNCHANGED exit
     ELSE Throw /\ UNCHANGED failed
  /\ UNCHANGED <<files, process, session, verdict, good, registrationVars>>

\* The editor stopped it for usage, after it wrote anything or nothing.
limitedMissed ==
  /\ at = "session"
  /\ session' = [read |-> TRUE, wrote |-> FALSE, whole |-> FALSE]
  /\ at' = "registration" /\ left' = left \ {"home"}
  /\ UNCHANGED <<files, process, verdict, failed, exit, good, registrationVars>>
limited ==
  /\ at = "session"
  /\ Throw
  /\ left' = left \ removed
  /\ UNCHANGED <<files, process, session, verdict, failed, good, registrationVars>>

\* It did not run at all.
NotRun ==
  /\ at = "session"
  /\ Throw
  /\ left' = left \ removed
  /\ UNCHANGED <<files, process, session, verdict, failed, good, registrationVars>>

\* Its tool calls could not be read or its transcript not be written: that
\* comes after the finally and before the caller's try, and the checkout stays.
TranscriptFails ==
  /\ at = "session"
  /\ Throw
  /\ left' = (left \ removed) \cup {"leaked"}
  /\ UNCHANGED <<files, process, session, verdict, failed, good, registrationVars>>

-----------------------------------------------------------------------------
(* The checks of one session, and the review of what it wrote. *)

\* Extensions nothing was written into are as SKELETON left them.
LookAtTheBuild ==
  /\ at = "registration" /\ Call
  /\ ~session.wrote => landed' = {}
  /\ landed' = {} => tag' = [x \in Names |-> "registered"] /\ requires' = [x \in Names |-> {}]
  /\ at' = "checks"
  /\ UNCHANGED <<files, process, session, verdict, failed, exit, left, good>>

Work == at = "checks" /\ (Pop \/ Return) /\ UNCHANGED <<files, process, session, verdict, at, failed, exit, left, good>>

\* Without having read the entry, a sweep's session measured nothing; the apply
\* walk records what its session did either way.
measured == session.read \/ walk = "apply"

Checks ==
  /\ at = "checks" /\ phase = "done"
  /\ failed' = (failed \/ ~session.read \/ ~session.wrote \/ unregistered # {})
  /\ good' = IF session.whole /\ \A x \in landed : AbstractLoading!Loads(x)
             THEN good \cup {entry} ELSE good
  /\ Leave
  /\ IF measured THEN at' = "review" /\ UNCHANGED left
     ELSE at' = "next" /\ left' = left \ {"repo"}
  /\ UNCHANGED <<files, process, session, verdict, exit>>

\* No diff means no plan; a plan may be skipped by the server. "blocks" is also
\* a review that blocks nothing and holds a critical finding.
reviewWhatWasWritten ==
  /\ at = "review"
  /\ verdict' \in IF session.wrote THEN {"skipped", "clear", "blocks"} ELSE {"nothing"}
  /\ at' = "diff"
  /\ UNCHANGED <<files, process, session, failed, exit, left, good, registrationVars>>

ReviewFails ==
  /\ at = "review"
  /\ Throw
  /\ left' = left \ {"repo"}
  /\ UNCHANGED <<files, process, session, verdict, failed, good, registrationVars>>

-----------------------------------------------------------------------------
(* recordReading: three files, one after the other. *)

\* The cached diff is read before the return on a plan that was skipped.
diffOfAVerdict == verdict \notin {"nothing", "skipped"}
diffTaken == session.wrote

KeepDiff ==
  /\ at = "diff"
  /\ diffs' = IF diffTaken THEN [diffs EXCEPT ![entry] = run] ELSE diffs
  /\ at' = "store"
  /\ UNCHANGED <<store, torn, md, lost, process, session, verdict, failed, exit, left, good, registrationVars>>

measurement == [run |-> run, verdict |-> verdict, whole |-> walk = "apply" \/ session.whole]
keptOne == [e \in Requests |-> IF e = entry THEN measurement ELSE None]
kept == [e \in Requests |-> IF e = entry THEN measurement ELSE store[e]]

RewriteStore ==
  /\ at = "store"
  /\ IF torn THEN Throw /\ left' = left \ {"repo"} /\ UNCHANGED store  \* JSON.parse
     ELSE store' = kept /\ at' = "md" /\ UNCHANGED <<exit, left>>
  /\ UNCHANGED <<torn, md, diffs, lost, process, session, verdict, failed, good, registrationVars>>

\* Rendered from every measurement that was kept, not from this one alone.
rendered == store

writeReviewReading ==
  /\ at = "md"
  /\ md' = rendered /\ lost' = FALSE
  /\ at' = "verdict"
  /\ UNCHANGED <<store, torn, diffs, process, session, verdict, failed, exit, left, good, registrationVars>>

\* `Boolean(verdict)`, then blocking, then the critical findings.
objectionsOfAVerdict(v) == v \in {"blocks"}
objections(v) == v \in {"nothing", "skipped", "blocks"}

Judge ==
  /\ at = "verdict"
  /\ failed' = (failed \/ objections(verdict))
  /\ left' = left \ {"repo"}
  /\ at' = "next"
  /\ UNCHANGED <<files, process, session, verdict, exit, good, registrationVars>>

-----------------------------------------------------------------------------
(* The end of a walk. *)

Last ==
  /\ at = "next" /\ todo = {}
  /\ at' = "discard"
  /\ exit' = IF failed THEN 1 ELSE 0
  /\ UNCHANGED <<files, process, session, verdict, failed, left, good, registrationVars>>

\* The last words of it are printed; they change no exit code.
discardProject ==
  /\ at = "discard"
  /\ left' \in {left, left \ {"project"}}
  /\ at' = "ended"
  /\ UNCHANGED <<files, process, session, verdict, failed, exit, good, registrationVars>>

\* SIGKILL. The store, while it is written, is lost with what it held.
Killed ==
  /\ at # "ended"
  /\ at' = "ended" /\ exit' = 137
  /\ torn' \in {torn, torn \/ at = "store"}
  /\ store' = IF torn' THEN [e \in Requests |-> None] ELSE store
  /\ lost' = (lost \/ at = "md")
  /\ Leave
  /\ UNCHANGED <<md, diffs, process, session, verdict, failed, left, good>>

WalkStep ==
  \/ Begin \/ Prepare \/ Finished \/ TimedOut \/ limited \/ NotRun \/ TranscriptFails
  \/ LookAtTheBuild \/ Work \/ Checks \/ reviewWhatWasWritten \/ ReviewFails
  \/ KeepDiff \/ RewriteStore \/ writeReviewReading \/ Judge \/ Last \/ discardProject

SweepNext == Start \/ WalkStep \/ Killed

\* A process that runs goes on: every session ends, by sessionTimeoutMs if not
\* by itself, and nothing else waits.
SweepSpec == SweepInit /\ [][SweepNext]_sweepVars /\ WF_sweepVars(WalkStep)

-----------------------------------------------------------------------------
(* What a walk is worth. *)

\* The files, the cursor of the walk and the worklist have their types.
SweepTypeOK ==
  /\ RegistrationTypeOK
  /\ \A e \in Requests : {store[e].run, md[e].run, diffs[e]} \subseteq 0..run
  /\ todo \subseteq Requests /\ entry \in Requests /\ good \subseteq Requests
  /\ exit \in {0, 1, 137} /\ left \subseteq {"project", "repo", "home", "leaked"}
  /\ at # "checks" => NotCalled

\* What a sweep stored for an entry was measured on a session that ended by
\* itself and had read that entry: neither one that never reached the catalog
\* nor one cut off for usage passes for an entry that "wrote nothing"
\* (scripts/walk_skill.mjs:1749 and :3168).
OnlyMeasurements ==
  \A e \in Requests : store[e].whole

\* A walk that ends well measured every entry asked for, itself, in the store
\* and in the reading, let nothing pass that its review objects to, and left
\* no code in an extension the platform would not load.
GreenMeansMeasured ==
  at = "ended" /\ exit = 0 /\ run > 0 =>
    /\ entries \subseteq good
    /\ \A e \in entries : store[e].run = run /\ store[e].verdict = "clear" /\ md[e] = store[e]

\* The code kept beside a measurement is the code it was taken on, when the
\* session wrote any and no later walk was stopped after writing its own.
DiffOfMeasurement ==
  \A e \in Requests :
    store[e].run > 0 /\ store[e].verdict # "nothing" => diffs[e] >= store[e].run

\* A measurement another walk paid for is lost only with the whole store, when
\* a kill cuts its rewriting short; otherwise it is replaced by a later one.
MeasurementsKept ==
  [][\A e \in Requests : store'[e].run < store[e].run => torn']_sweepVars

\* A walk that was not killed leaves no checkout and no home behind when an
\* entry is done with; where no try covers them, while an entry is prepared and
\* while its transcript is written, what stays ends the walk with exit code 1.
NothingLeft ==
  at \in {"next", "discard", "ended"} /\ exit # 137 =>
    /\ left \cap {"repo", "home"} = {}
    /\ "leaked" \in left => exit = 1

\* Every walk comes to an end, whatever its sessions do and whatever the
\* extensions they write require of each other.
WalkEnds == at # "ended" ~> at = "ended"
=============================================================================
