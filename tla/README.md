# smith: a verification development

TLA+ models of the code review server in `src/src/smith` (FastAPI, SQLAlchemy,
PostgreSQL), of its reading of a git diff, of its settings screen, and of the
scripts that measure it against a live server (a browser walkthrough, scored
reviews, a probe of guidelines, sweeps of the catalog), with the TLC instances
that check them, refinements, and TLAPS proofs about most of it.
Paths below are relative to the repository; `R/` stands for
`src/src/smith/reviewer/`, `A/` for `src/src/smith/auth/`.

## 1. Inventory

### Parts, their state and their operations

| part | state | operations | modelled by |
| --- | --- | --- | --- |
| review protocol (`R/service.py`, `R/adapters/postgres.py`) | `reviews`, `findings`, `review_steps`, `finding_dispositions` | `/v2` plan (writes nothing), `/v1` plan (opens a review), create_review, submit, respond | `Reviews`, `Trails` |
| transaction per request (`db.py`) | the session of a request | commit on return, rollback on any exception | ends of a request in `Reviews`, `Membership` |
| key authentication (`A/service.py`) | `api_keys.last_used_at` | authenticate_key touches the key | `Reviews`, `Membership` |
| projects and membership (`A/service.py`, `A/postgres.py`) | `users`, `projects`, `memberships`, `api_keys` | create, add, change role, remove, delete project, issue and revoke key | `Membership` |
| diff reading (`R/domain/diff.py`) | none: a function of the diff | parse, number the lines, scope findings to the change | `Diff` |
| findings domain (`R/domain/findings.py`, `dedup.py`, `verdict.py`) | none | merge, apply answers, rule | operators of `Reviews` |
| login throttle (`A/postgres.py`) | `login_attempts` | blocked, record_failure, clear | planned |
| configuration and its screen (`R/service.py`, `src/web/app/actions.ts`, `config-form.tsx`) | `projects.config`, one JSON column; the fields of a tab | render, type, save whole, adopt a convention | `Settings` |
| rules, rulesets, suppression, analyzers | none, or a temporary directory | select the rules, run them, hide what the source acknowledges | partly planned |
| pergamon catalog | `catalog_entries` | seed, list, read | planned |
| plugin (`src/plugin/bin/smith`) | a notes file, a configuration | plan, review, respond, fallback to `/v1` | planned |
| throwaway projects (`src/scripts/lib/throwaway_project.mjs` and the scripts that use it) | projects of a live server, named by script and time | make, use, discard, sweep | `Throwaway` |
| browser walkthrough (`src/scripts/cdp.mjs`, `e2e_browser.mjs`) | one page, one connection, what was recorded of a visit | navigate, click, fill, wait, audit | `Browser`, `Walkthrough` |
| review measurement (`review_score.mjs`, `lib/review_cases.mjs`, `lib/review_session.mjs`) | reviews of a throwaway project, the record of a reading | run a session, score, summarise, record | `ReviewCases`, `Session`, `Scoring` |
| guideline probe (`guideline_probe.mjs`) | what was offered and cited | plan, session, read back | `Probe` |
| catalog walks (`walk_skill.mjs`) | a checkout per entry, three files per day | session, checks, review, record | `Sweep`, `Registration`, `Loading` |
| operations scripts | dumps on disk, the database | backup with pruning, restore, deploy | planned |

### How they interact

Every request is one thread and one database transaction. Requests share
nothing but tables, so all interaction is through committed rows and locks:
READ COMMITTED visibility, row locks of UPDATE and SELECT FOR UPDATE, unique
indexes and foreign keys with cascades. The plugin's sequence is
plan, then the agent's findings, then the developer's answers; the answers of
one review feed the next review of the same project through
`finding_dispositions`.

### What is hard, and what makes each part correct

* Reviews: two sessions of one developer on one review; two developers on one
  project answering the same finding; a review that settles `fixed` claims
  while they are answered again; a batch that fails half way; lock waits in
  opposite orders. Correct means: a trail without holes, agent rows that are
  those of one submission, a verdict that fits the rows, one standing answer
  per finding and review, answers that are appended and revoked and never lost,
  mutes that last, claims settled once and only by a review.
* Membership: check-then-act on counts and roles, a deletion that cascades
  under requests in progress. Correct means: nothing outlives its project, one
  role per person, a last lead lost to nothing but the one race the code has.
* Diff: numbers must be git's numbers. They decide which findings count.
* Settings: a form holds what was rendered, at one time or another, and what was
  typed, and writes the whole value back. Correct means: a save does not put back
  what the lead has not touched, an adopted convention is appended, and the page
  shows what was written.
* Scripts: they are killed, time out, run into a usage limit or lose their
  browser, and what they print is read as evidence. Correct means: what a session
  said is counted, once and however late it was said, what is not
  a measurement is not recorded as one, exit code 0 means what it seems to,
  zeroes mean something, a sweep never takes the project of a live run and in
  the end takes every abandoned one.

`PROJECT.json` lists each hazard at its line, with the properties aimed at it
or the reason none is yet.

## 2. The modules and the code

### `Reviews` and `Trails` (with `MCReviews`, `ReviewsProofs`)

A process is an API key. authenticate_key updates `last_used_at`, the update
is flushed by the next query, and the key's row stays locked until the
transaction ends; so a key serves one request at a time, and concurrency is
between keys of the same developer or of two. `pc[k]` is the next statement
that reads or writes a shared row:

| action | code |
| --- | --- |
| `plan`, `create_review`, `submit`, `respond` | the arrival of a request at its route |
| `_examine` | the deterministic findings and the answers read for them |
| `_reconcile_fixed` | `active_fixed`: the claims of the project |
| `confirm_fixed`, `revoke` | `_settle`'s two UPDATE statements, whose snapshot fixes the rows they visit |
| `_settle` | one row of a running UPDATE: wait for another writer, test the WHERE again on what it left, write |
| `_own_review` | `owner_of(for_update=True)` and the ownership test |
| `set`, `insert` | the checks of one answer, the UPDATE that revokes, the INSERT |
| `Rule` | the second reading of the answers, merge, the verdict, the rows to write |
| `Commit`, `Abort`, `DeadlockVictim` | the ends of `unit_of_work` |

The rows a request writes under a review row it holds (or has just created)
are seen by nobody before commit, so they are gathered in `draft` and appear
at `Commit`. Rows of `finding_dispositions` are shared before that, through
their locks, so they are written one at a time into `mine`.

A finding is its fingerprint; `Place` is what dedup compares, `Blockers` the
severities that block, `Analyses` what the rules can find. The cap on submitted
findings (`max_agent_findings`) is applied; the one on deterministic findings
is not (the analyses are small). One project is enough: `_own_review` refuses a
review of another, and every statement names its project. What its deletion
does to requests in progress is in `Membership`.

`Trails` is what a review is to whoever reads it later: an owner, a verdict, a
trail. There a call is one step: `Plan` and `Create` open a review, `Submit`
and `Respond` put a group of numbered entries at the end of one trail together
with the verdict they end in, and a submission says whether the review had been
ruled on before. `Reviews` implements it, its rows, locks, drafts and rollbacks
being the detail that is left out. The entries carry the number, the kind, the
"resubmit" flag and the verdict of a step; its counts are `AgentRowsMatchTrail`'s.

### `Membership` (with `MembershipProofs`)

The same construction for `A/service.py`: a process is a request, `pc[w]` its
next statement, `writes[w]` its uncommitted row versions, `Holders(w)` the
transactions its statement waits for. One slug is enough, because requests to
two projects meet only in `users`. The cascade of a deletion is one step after
the deletion of the row, which keeps the lock order: first the project, then
everything under it. `set_member_role` has no route that calls it; it is an
operation of the service and is modelled as one. Only people who registered
can act: `login` refuses the accounts that `add_member` creates.

### `Diff` (with `MCDiff`, `DiffProofs`)

The writer is git and external: it emits files, hunks and lines in the order
git does, and keeps the truth about them. `read` is one iteration of
`parse_unified_diff`, `count` one of `iter_hunk_lines`. A raw line is what the
patterns see: `Contents` says whether a changed line is plain, opens with `++`
or `--` (and then looks like a file header), or holds a form feed (and
`splitlines` cuts it). `Spaced` and `Quoted` are the paths git writes with a
tab or in quotes. Content that spells a complete header (`++ b/x`) is left out.

### `Settings` (with `MCSettings`, `WebProofs`)

`config` is the stored value, a tab is what one lead has rendered and typed.
`Type` is typing or ticking, `saveConfig` and `addConvention` the two server
actions; `run` renders again, possibly before `Commit`, since the transaction
ends after the reply. `deleteProject` and `createProject` put a new
configuration under the same slug.

The inputs of `config-form.tsx` are uncontrolled, so what a field holds after a
new render depends on its kind, and `Rendered` has a case for each. A textarea
nobody typed in takes the new text; the code makes it so (lines 59-66). The
selects (26, 33, 41) get a new `defaultValue`, which React does not apply to a
mounted select: they keep their option, and the reset of a form whose action
ended puts them back to the option they were *mounted* with (`first`). A box
(96-99) may keep its tick or take the new default, and takes it on a reset:
`follow` is that choice, left open. The boxes listed are those of the ruleset
that is shown (`Listed`), and the list sent with them (`all_rules`) is the list
of that page. `opened` says that no action has rendered the page anew since it
was mounted.

### `Throwaway` (with `MCThrowaway`, `ThrowawayProofs`)

A process is a run of one of the five scripts, with the steps it takes: list
and sweep, make, work, discard. `Kill` ends it anywhere. A project is its kind
and its age, capped at `MaxAge`. Runs whose sessions have a timeout (`Bounded`)
are never older than the sweep's age; the probe's have none.

### `Walkthrough` and `Browser` (with `WebProofs`)

`Walkthrough` is the script (`main`) as a sequence of calls over the screens
and texts of the application; `Browser` executes any such sequence (`Calls`):
`send` and `onMessage` are the two ends of the connection, `wire` what Chrome has sent, `page` the document with
what it shows and whether it is hydrated, `effect` an action on its way.
`ChromeDies` may happen anywhere; `EventLoopEmpty` is node ending because
nothing is left to wait for. `Disciplined` is what the promises of the driver
take of a script, and `MCSettings`, the instance of the screens most of the
script is about, has TLC evaluate it on `main` (`ScriptIsDisciplined`).

### `ReviewCases`, `Session`, `Scoring`, `Probe` (with `MCScoring`, `MeasurementProofs`)

A case is what its files hold, as tokens: what the diff shows, what a search
for a name finds, and the name that proves a defect was found. A session looks,
submits what it can know, and ends, is cut off or fails. `Scoring` is
`review_score.mjs` from the arguments to the record; `Probe` is
`guideline_probe.mjs` against a server of either contract. `MCScoring` runs the
self-check of the score as an assumption. `session.sent` remembers every defect
a session said with the place it was put in: a line of the diff, another line of
the changed file, or another file. The score looks at the file alone (`landed`).

### `Loading`, `Registration`, `Sweep` (with `MCWalk`, `SweepProofs`)

`Registration` is the worklist over `requires-extension`; `Loading` states its
promise, the least closed set, and `Registration` implements it. `Sweep` is a
process of `apply-catalog` or `apply`: `Prepare`, the ends of a session,
`Checks` (which calls Registration), the review, then the three writes of
`recordReading` one by one, with `Killed` between any two steps and another
walk on the same files after it. `TranscriptFails` is what no `try` of a walk
covers between the session and its checks (3204-3208). Sessions are reduced to whether the entry was
read, whether anything was written and whether a check of the text or of a
single file failed. The order in which entries come is left open. An extension
nothing was written into is as the skeleton left it.

## 3. The runs

| run | instance | shows |
| --- | --- | --- |
| `same_review` | two keys of one developer, three requests of every kind | `TypeOK`, `AgentRowsMatchTrail`, `BlockingIsJustified`, `PassIsExplained`, `ImplementsTrails`, `AppendAndRevoke`, `MutedStaysMuted` |
| `crossed_answers` | two developers, batches in opposite order, claims, three requests, fairness | `EveryAnswerOnTheTrail`, `OneAnswerPerReview`, `SettledOnTheTrail`, `RequestsEnd` |
| `overwrite` | two keys, a review and an answer | violation: an answer with its argument confirmed as a claim |
| `membership_race` | two requests at a time, three in all, three people, fairness | `NoOrphans`, `OneRole`, `LastLeadLostToARace`, `MembershipRequestsEnd` |
| `last_lead` | two at a time, three in all | violation: a project without a lead |
| `diff_true` | two files, seven pieces of diff, all contents and markers | `FilesTrue`, `NumbersTrue`, `ScopeTrue` |
| `settings` | two tabs, a rule one ruleset lists and the other does not, two commits, one edit a tab | `OwnWriteShown`, `SaveKeepsTheRest`, `AdoptOnlyAppends` |
| `throwaway` | two processes, three slugs, ages to 2, fairness | `NeverSweepsLive`, `AbandonedGo` |
| `browser` | the script of the walkthrough, two misses to a deadline, fairness | `WaitsSynchronise`, `AuditIsComplete`, `GreenMeansDone`, `RunEnds` |
| `scoring` | sessions on every case but `first-reading`, whose fixture an `ASSUME` checks and whose findings the self-check scores; two reviews a session; a probe of two changes and four plans | `RecallTakesLooking`, `NothingSaidIsLost`, `WorstRunBudget`, `RecordedIsShipped`, `ZeroesMeanSomething` |
| `misplaced` | the same | violation: a defect counted as reported that no developer saw |
| `walk` | two entries, two extensions with any requirements, two walks of a day, fairness | `WorklistInv`, `OnlyMeasurements`, `GreenMeansMeasured`, `DiffOfMeasurement`, `NothingLeft`, `MeasurementsKept`, `ImplementsLoading`, `WalkEnds` |

Of the type invariants two are in the list: `TypeOK` of `Reviews`, and that of
`Registration` inside `WorklistInv`. `MembershipTypeOK`,
`DiffTypeOK`, `SettingsTypeOK`, `ThrowawayTypeOK`, `BrowserTypeOK`,
`ScoringTypeOK` and `SweepTypeOK` say what the variables of their modules hold;
they are true on the same instances, and an INVARIANT line more checks them.
`TrailInOrder` (the trail of a review counts 1, 2, 3) has no run of its own
either: it is part of what `Trails` numbers, and a theorem.

The answers are checked under interleavings only. What two requests at once do
break (section below) is in none of the properties: `OneAnswerPerReview` is
about the answers one review was given, because the lock of respond is on the
review; `PassIsExplained` asks for an argument on record, which an overwritten or
revoked row still carries; `MutedStaysMuted` is about a mute nobody changes while
the review is made; `LastLeadLostToARace` names the race.

Bounds, and why they suffice. `MaxRequests` = 3 lets two requests overlap after
a first one set the scene (an answer on record, a second lead), and a third
overtake them; reviews with findings to answer are on record from the start
(`Seeded`), so a claim, the review that settles it and a request beside them are
within three. Two fingerprints suffice for crossed lock orders, three where merge must drop one
as a duplicate. `MaxAgent` = 2 so that a third submitted finding is cut.
`MaxWritten` = 7 gives two hunks with several lines, or two files with a hunk
each. In `settings` two commits let one tab act on what the other replaced; the
one rule is listed by one ruleset only, so a change of ruleset mounts and
unmounts its box. In
`throwaway` a process can sweep while another works and a third project is
abandoned. In `walk` the second walk finds whatever a first one left: a torn
file, half of the three writes, entries measured and not; two extensions have
every graph of requirements with cycles, and the proofs cover the rest. Only
`settings` declares a symmetry, of its two tabs, and checks no liveness.

Fairness. `RequestsEnd` and `MembershipRequestsEnd` assume weak fairness of
each request's own next statement (a worker thread keeps running the request
it took) and of `DeadlockVictim` (PostgreSQL's detector aborts one transaction
of a cycle of waits). Nothing is assumed about arrivals or failures. Without
the detector both properties fail: the code takes locks in no global order.
`AbandonedGo` takes as its premise that time passes and that a script of the
kind is run again and again; its only fairness is that a DELETE tried again and
again is answered in the end. `RunEnds` assumes that node runs the script on
and that a living Chrome answers; Chrome may die. `WalkEnds` assumes that a
running process goes on, which its 45-minute timeout on sessions justifies.

### Where the code does not keep what it says

Three runs expect a violation: `overwrite`, `last_lead` and `misplaced`. Six more
configurations are kept beside them, for a reader to run (`tlc -config X.cfg M`);
each ends in a counterexample:

| configuration | module | property |
| --- | --- | --- |
| `MCReviewsTwoAnswers.cfg` | `MCReviews` | `OneStandingAnswer` |
| `MCReviewsConfirmed.cfg` | `MCReviews` | `ConfirmedNotReported` |
| `MCDiffMarker.cfg` | `MCDiff` | `AddedTrue` |
| `MCDiffPaths.cfg` | `MCDiff` | `FilesTrue` |
| `MCSettingsPutBack.cfg` | `MCSettings` | `RulesetIsNotPutBack` |
| `MCSettingsDropped.cfg` | `MCSettings` | `SwitchedOffStaysOff` |

* Two answers: `set` says uniqueness of the standing answer is kept in the
  method rather than by an index. Its UPDATE cannot see an uncommitted insert,
  and the row lock taken by respond is on the review, not on the project.
* Overwritten argument: `_settle` names project, fingerprint and
  `revoked_at` and not the disposition, so an answer committed between the
  read of the claims and the UPDATE is settled in their place.
* Confirmed while reported: claims are compared with the deterministic
  findings only.
* Last lead: `count_leads` is an unlocked count; two removals each see two.
* Marker: `\ No newline at end of file` is counted as a context line, so the
  lines added after a removed last line are numbered one too high.
* Paths: a quoted path is not matched and its hunks join the file before; a
  path with a blank keeps git's trailing tab. `++` content (`diff.py:85`) and
  form feeds break the numbering of their own file too; `NumbersTrue` is
  stated for files of plain lines for that reason.

* Ruleset put back: after a save that changes the ruleset the form is reset, and
  a reset select shows the option it was mounted with. The next save writes that
  option back, though nobody touched it. (`e2e_browser.mjs:421` says it of the
  conventions: "Uncontrolled inputs keep what they first rendered with", which
  the page works around for the two textareas.)
* Rules dropped: a save stores the difference against the rules the page lists
  (`actions.ts:158`), so a rule that was switched off while another ruleset was
  in force is forgotten. A check of `e2e_browser.mjs` (496) is named "a rule
  switched off stays off"; it reads the stored list after the save that made it.
* Misplaced findings: `scoreRun` compares the file of a finding and not its line
  (`review_score.mjs:164`). The server suppresses a finding of a changed file off
  its added lines, lists it in the review all the same, and so a defect nobody
  was shown counts as reported, against the comment at 167, the one over the
  cases (`review_cases.mjs:555-557`) and the name of the check at 370, which tries
  another file instead of another line. Conversely a finding in a file outside
  the diff is kept and shown by the server, and the score calls it misplaced.

Several properties of the scripts are stated with the exception the code has;
the hazards in `PROJECT.json` name them: a kill while the measurements are
rewritten loses them all and stops every later walk of the day; the `apply`
walk records without the guard of the sweep; a dying Chrome ends the run with
exit code 0; a page may overtake the commit it follows.

## 4. What is proved

Eight modules hold the proofs. Every theorem is about a specification its
module extends (those of `FoldFacts`: about any operator), for all values of the
constants that satisfy the module's assumption; what else a theorem assumes is said here. In each module the
properties are not inductive as they stand; the invariant that is, and why it
takes more than the property, is what is worth reading. All of these invariants
were also checked by TLC, on the instances of section 3 or, for the two of
`Browser` and `Diff`, on a shorter script and fewer pieces.

| module | theorems |
| --- | --- |
| `ReviewsProofs` | `Invariance`, `Typing`, `MutualExclusion`, `TrailsNumbered`, `AgentRowsAccounted`, `BlocksJustified`, `ReviewsImplementTrails`; `RowsInvariance`, `AnswersListed`; `AnswersInvariance`, `OneAnswerOfAReview`, `PassesExplained`, `SettledAreListed`, `AnswersKept`, `MutedFindingsStay` |
| `MembershipProofs` | `MembershipInvariance`, `MembershipTyping`, `NoOrphansHold`, `OneRoleHolds`, `LastLeadIsLostToARace` |
| `DiffProofs` | `DiffInvariance`, `DiffWellTyped`, `FilesAreTrue`, `NumbersAreTrue`, `ScopeIsTrue` |
| `WebProofs` | `SettingsInvariance`, `OwnWritesShow`, `SavesKeepTheRest`, `AdoptionsAppend`; `WalkthroughInvariance`, `WaitsAreEnough`, `AuditsAreComplete`, `GreenRunsAreDone` |
| `ThrowawayProofs` | `AgesInvariance`, `LiveProjectsStay` |
| `MeasurementProofs` | `ProbeInvariance`, `ZeroesMean`, `ScoringInvariance`, `FoundByLooking`, `WhatWasSaidIsScored`, `RecordIsShipped`, `BudgetIsTheWorst` |
| `SweepProofs` | `WorklistSound`, `RegistrationImplements`; `WalkImplementsLoading`, `WalkInvariance`, `OnlyWholeSessions`, `GreenIsMeasured`, `FilesInvariance`, `DiffIsOfMeasurement`, `MeasurementsStay`, `WalkCleansUp` |
| `FoldFacts` | `FoldLeftEmpty`, `FoldLeftFew`, `FoldLeftAppend`; `FoldEmpty`, `FoldStep`, `FoldType`, `FoldRelated`, `FoldTakesOut` |

### Reviews

For every set of keys, users, fingerprints, inputs and bounds that satisfies
`ConstantsAssumption` (finitely many fingerprints, the rest are types). A
request computes the steps and rows it will add in `Rule` and adds them in
`Commit`; in between, others run. `Inv` therefore says of every draft that what
it would make of the review *as the database stands now* is a good review
(`DraftFits`), and of every request where it may be and that it holds the
review it will rewrite (`RequestFits`, `HeldFits`). The step that needs it is
another request's `Commit`: it leaves the draft good because it rewrites
another review (`Exclusive`) or appends one. `CreateGood`, `SubmitGood` and
`RespondGood` show that the three kinds of draft are good, from `MaxSeqIsLen`
(max(seq) of a gapless trail is its length) and `TrailExtended`; one lemma per
action and one per kind of arrival then give `InvStep`.

`ReviewsImplementTrails` is the refinement. `TrailsInv` adds to `Inv` what a
reader would see of each draft (`DraftReads`: the numbers, the "resubmit" flag,
the verdict, over the length its review's trail has *now*) and that a review is
completed once its trail goes on after the plan (`Ruled`). `RuleReads` shows
that a draft starts out so, `OneDrafts` that nobody else touches it, and
`CommitReads` that a commit is then a call of `Trails`; every other step is a
stutter.

### Answers

All of it holds for any number of keys at once. `RowsInv` says that a
transaction has put in as many rows of its own as answers it is past
(`InsertedFits`), that nobody else writes a row it writes (`Apart`, which the
row locks make so) and that the steps it is about to commit say as many
(`StepsTell`). What a commit adds to the sums over all trails is then a matter
of one more entry in a fold (`SumOfOneMore`, `CommitOnTrails`), and
`AnswersListed` follows.

`AnswersInv` adds what the rows say. Every version a transaction holds is a
successor of the committed row, which is not revoked (`VersionsFit`): rows only
go forward (`Successor`), so what a request read when it began is still there in
some later form (`BeforeFits`). From the row locks and the lock on the review
follows that one answer of a review stands in what each transaction sees
(`StandFits`, `AnsweringFits`: the insert comes after every standing answer of
that review is revoked, and nobody else can add one to it). `SettlingFits` says
which rows an UPDATE may still settle, so that what is settled never outruns
what the trails and the open drafts confirm; `VerdictFits` that a pass about to
be committed has its argument among the rows its transaction sees, which other
commits replace by successors only (`VerdictForOthers`); `MuteFits` that a
finding muted since the request began is suppressed wherever the request has
looked. `OthersAnswers` is the step that carries all of this through the commit
of another key, `CommitAnswers` the one that brings it from the transaction to
the tables.

### Membership

`MembershipInv` is about what open transactions keep from each other: a
transaction that has inserted under a project holds it against deletion, one
that is deleting is alone with it, a role somebody is about to get is not being
given by anybody else (`WritesFit`, `LocksFit`), and a statement that reads or inserts
under a project has looked one up (`ReadingFits`). From it `NoOrphansHold` and
`OneRoleHolds` follow for any number of requests at once. `LastLeadIsLostToARace` takes
that a membership has an id of its own (`IdsFit`), that what an open request is
about to change is the row of its person (`TargetFits`) and that past its reads
a request has seen a target that is no lead or more leads than one
(`ReadsFit`). A commit that leaves no lead then took the role of the last one:
either its target was no lead when it was read, or there were two to be counted,
and in both cases somebody overtook it. That the race does happen is `last_lead`.

### Diff

The writer goes on writing and the reader is a fold over what is written, so
the invariant is about the fold's value after each piece. `DiffInv` says that
every file but the last has been appended under its name and status and the
last is in hand (`FilesFit`), that the lines read so far have git's numbers and
that in the hunk in hand each of the three counts stands where git stands
(`NumbersFit`), over a truth that writes no path twice and no line on a side
that a file lacks (`TruthFits`). The properties read a diff as it would be
handed over at that moment: one flush more (`ParsedSoFar`).

All theorems assume `PlainPaths`: no path with a blank, a quote or an accent.
That is not a convenience: for the others the code does misread the diff
(`MCDiffPaths.cfg`). `ScopeIsTrue` also assumes `PathsApart`, that no path of
the repository is the end of another one's name under another root; the lookup
by suffix cannot tell two such paths apart. The instance of section 3 satisfies
both. The contents of the lines, the markers at the end of a file, the gaps
between hunks and the number of everything are left open; a file with a line
the patterns mistake is not `plain`, and `NumbersTrue` says nothing of it.

### Settings

`SettingsInv` says of each tab what its page, its last read and its open write
are worth: a version no later than the stored one, and, while no commit came in
between, the stored value itself (`PageFits`, `ReadFits`), a value that keeps
what nobody touched (`SavedOver`) or one with one line more (`AppendsTo`). What a
form holds of an untouched field is `Untouched`: the text that is shown always,
the ruleset and the listed boxes as long as the page is as it was mounted. That is what
the two action properties need at the commit. `OwnFits` tracks which pages may
have overtaken the commit they follow. `SettingsAssumption` names that there is
a ruleset at all, which the start-up of the server makes so.

### Walkthrough

The theorems are about any script that keeps a discipline, `Disciplined`: a
click is followed by a wait for a text that no screen of that moment can show
(`ClicksAreAwaited`), a page is asked for right after the complaints are
forgotten (`VisitsBeginClean`), audits find the window at its own size
(`AuditsAtFullSize`), and one click deletes the project (`EndsInDeletion`).
`main` keeps it, and the comment over `CreateUnderFixedName` quotes what happens
to a script that does not. `BrowserInv` says that the page is the one the last
finished call left (`ScreenFits`), that an action is on its way only from its click to
the end of the wait (`EffectFits`), since until it shows, the text waited for is
not there (`TextIsNew`); that once an answer is on the wire only messages of
the same document follow it (`WireFits`), that complaints are recorded or on
their way ahead of the answer that asks for them (`RecordFits`), and that every
click before the page's place in the script has had its effect (`ExitFits`).

### Throwaway projects

`AgesInv` is what `NeverSweepsLive` takes: a project in use by a run with a
timeout is as old as its session, so at most `Patience` (`YoungWhileUsed`), and
one that a sweep of old projects has on its list is gone or as old as it was
when the list was read (`OldWhileListed`), its name not being used again before
the sweep is through. That no project has the name of none (`NoSlug`) is part
of `ThrowawayAssumption`.

### Measurement

`ScoringInv` says that the runs scored are the first of the list of arguments,
each of its case (`TurnsAreCases`, from the quotient the code's nested loops
amount to), with a score that fits what was said (`SaidFits`), and that nothing
is on file before the last one; `SessionFits` says that what was sent is what the
reviews say, each in its place, and where a session's knowledge comes from.
`ScoreOfWhatWasSaid` then reads the score off the places. `RunsOfAName` counts: the runs of one name are an interval
of the list, of as many as were asked for. `ScoringAssumption` lets the
arguments be any sequence of different names, as the code's parser leaves them.
That no diff shows what proves its defect, as the comment over the cases says, is
a fact about the cases as they are and proved of them (`EveryCase`).
`ProbeInv` says that against the server that opens a review with its plan the
review the last submit named holds what that submit said, so that what fired is
what cited; against the other no submit names a review, nothing is counted and
the self-check does not pass (`CitationsFit`).

`BudgetFits` says that the reading of a budget is the sum, over the cases, of
what each one's worst run missed, and that no run is scored after it.
`BudgetIsTheWorst` then takes that a sum of maxima bounds the sum over any
choice of one run per case and that some choice reaches it, by taking one case
out of the fold at a time (`FoldTakesOut`).

### Folds

The sums and the parser are folds, and induction over data is not something the
provers can be asked for directly. `FoldFacts` argues by least counterexamples
instead: over the naturals, and over the subsets of a finite set. What it
proves of an operator that is its constant, the other modules instantiate
(`INSTANCE FoldFacts WITH op <- ...`): a fold over one element more is the fold
over the others and then that element (`FoldLeftAppend`, for sequences from the
left; `FoldTakesOut`, for finite sets when the order does not matter).

### Catalog walks

`SweepProofs` proves, for every set of extensions, every file that
registers them and every graph of requirements, `WorklistSound`
(`RegistrationSpec => []WorklistInv`) and `RegistrationImplements`, the
refinement of `Loading`. `WorklistInv` says that between two turns the loaded
set lies within every closed set, and that it is closed but for the pending
ones; with nothing pending it is the least closed set (`LeastClosed`), so
`Return` gives the answer of `Loading` and every other step a question, a
withdrawal or a stutter.

It proves for every set of entries and number of walks that the
calls inside a walk are behaviours of Registration (`WalkRegisters`, hence
`WalkImplementsLoading`), that a sweep records whole sessions only
(`OnlyWholeSessions`) and that exit code 0 means measured (`GreenIsMeasured`).
Exit code 0 is given at the end for things done many entries before: `WalkInv`
says that every entry out of the list but the one in hand is measured in both
files, or a failure is on record (`DoneFits`), and what is known of the entry in
hand at each step (`EntryFits`). `ChecksFits` is where the answer of the
worklist counts: nothing unregistered means everything landed in is loaded.
`FilesInv` orders the writes: the code of the entry in hand is kept before its
measurement, and both carry the number of a walk that has begun, so a kill
between them leaves code that is newer and never older. `LeftInv` says which
steps own a checkout and a home, and that what no `try` covers is left only by a
walk that ends with exit code 1; only a kill leaves anything else behind.

### What stays with TLC

* Liveness: `RequestsEnd`, `MembershipRequestsEnd`, `AbandonedGo`, `RunEnds`,
  `WalkEnds`.
* That `main` keeps to its discipline: the script is a sequence of a few hundred
  calls, and TLC evaluates `Disciplined` on it (`ScriptIsDisciplined`).

## 5. Not modelled

The regular expressions of the built-in rules, the external analyzers and the
rendering hold no state and appear as the sets they produce. Reading routes do
not change anything. Middleware, logging and migrations are plumbing. Of
`walk_skill.mjs` the walks of one session (`review`, `review-argue`, `scope`,
`prior-art`, `update` and their like) are pattern matches over the text of one
transcript; they keep no state and nothing interleaves with them. What a single
check of the browser walkthrough reads on a screen is left open for the same
reason: `Checks` may fail or pass. The plugin, the login throttle, the catalog
seed and the backup are not modelled yet.

## 6. Plan

In order:

1. `Findings`: `_cap`, `drop_unactionable` with override twins, merge and the
   verdict as pure functions against reference definitions (the cap never
   hides a blocker that the verdict should have seen).
2. `Plugin`: the client of one change, its timeout, repetition and fallback to
   `/v1`, over an abstract server that `Reviews` refines: one review per change
   asked for, answers by number against a list that moves.
3. `Throttle`: fixed windows of two keys with time, against the abstract
   promise of at most ten failures per window.
4. `Rulesets`: overlays, disabled rules, version ranges.
5. `Catalog` and `Backup`: seed against readers, prune and restore with a crash
   between steps.
6. Two walks on one day's files at once, and the writes of `recordReading` as
   they would have to be for both to be kept.

Proofs still worth making: the promises of `Throttle`, `Plugin` and `Backup`
once they are modelled.
