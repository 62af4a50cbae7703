------------------------------ MODULE Reviews ------------------------------
(***************************************************************************)
(* The review protocol of the server: the requests a plugin sends          *)
(* (reviewer/service.py), each one a database transaction                  *)
(* (db.py unit_of_work) over the tables of reviewer/adapters/postgres.py,  *)
(* interleaved statement by statement under READ COMMITTED.                *)
(*                                                                         *)
(* One project.  A process is an API key: authenticate_key touches the     *)
(* key's row, the update is flushed by the next query, and the row stays   *)
(* locked until the request's transaction ends, so one key runs one        *)
(* request at a time while two keys (of one developer or of two) overlap.  *)
(*                                                                         *)
(* A finding is its fingerprint.  Place stands for the (file, line bucket, *)
(* rule) that dedup.py compares, Blockers for the severities at or above   *)
(* the policy's block_on.                                                  *)
(***************************************************************************)
EXTENDS Integers, Sequences, FiniteSets, FiniteSetsExt, Functions

CONSTANTS
  Keys,          \* API keys
  Users,         \* members of the project
  Owner,         \* [Keys -> Users], the member a key is bound to
  Leads,         \* the members whose role is lead
  Fp,            \* fingerprints
  Blockers,      \* those whose severity reaches the policy's block_on
  Place,         \* [Fp -> places], what merge() compares
  Analyses,      \* what the deterministic half can find: sets of fingerprints
  Submissions,   \* agent findings of one call: sequences of [fp, inDiff]
  Batches,       \* responses of one call: sequences of [fp, disp, note]
  MaxAgent,      \* policy.max_agent_findings
  Seeded,        \* reviews already on record: sequence of [user, fps]
  MaxRequests    \* bound: requests served in one behaviour

Answer == {"fixed", "dismissed", "accepted"}
Disposition == Answer \cup {"confirmed_fixed"}
MUTING_DISPOSITIONS == {"dismissed", "accepted"}
Blocking == {"none", "pass", "block"}       \* reviews.blocking: NULL, false, true

AgentFinding == [fp : Fp, inDiff : BOOLEAN]
Response == [fp : Fp, disp : Answer, note : BOOLEAN]

ASSUME ConstantsAssumption ==
  /\ Owner \in [Keys -> Users]
  /\ Leads \subseteq Users
  /\ Blockers \subseteq Fp
  /\ Analyses \subseteq SUBSET Fp
  /\ Submissions \subseteq Seq(AgentFinding)
  /\ Batches \subseteq Seq(Response)
  /\ Seeded \in Seq([user : Users, fps : SUBSET Fp])
  /\ MaxAgent \in Nat
  /\ MaxRequests \in Nat
  /\ IsFiniteSet(Fp)

VARIABLES
  reviews,   \* committed reviews, with their findings and steps
  disp,      \* committed rows of finding_dispositions
  nextRow,   \* the id sequence of finding_dispositions; a rollback leaves gaps
  served,    \* requests begun so far
  pc,        \* where each key's request is
  req,       \* the request: kind, target review, inputs
  held,      \* the review row locked FOR UPDATE, 0 for none
  mine,      \* uncommitted row versions of finding_dispositions
  todo,      \* rows the running UPDATE matched and has not reached yet
  found,     \* the deterministic findings after _examine
  claims,    \* what active_fixed returned
  at,        \* the response being recorded
  draft      \* rows written to the review, visible at commit

db == <<reviews, disp, nextRow>>
locals == <<req, held, mine, todo, found, claims, at, draft>>
vars == <<db, served, pc, locals>>
----------------------------------------------------------------------------
(* Rows                                                                    *)

Row == [fp : Fp, sup : BOOLEAN]
\* note: the row has its argument (the column `reason`).  on is auxiliary, no
\* column and read by no action: the review whose respond put the row in.
DispRow == [id : Nat, fp : Fp, disp : Disposition, revoked : BOOLEAN, by : Users,
            note : BOOLEAN, on : Nat]

\* A step of the trail.  n and m are the numbers of its payload: fixed_confirmed
\* and regressed (plan), kept and suppressed agent findings (findings), answers
\* and muted findings (responses).  flag is "resubmit".
Step == [seq : Nat, kind : {"plan", "findings", "verdict", "responses"},
         n : Nat, m : Nat, flag : BOOLEAN, blocking : Blocking]

Review == [user : Users, status : {"planned", "completed"}, blocking : Blocking,
           det : SUBSET Row, agent : SUBSET Row, steps : Seq(Step)]

\* before is auxiliary: the answers on record when the request began.
Request == [kind : {"none", "plan", "plan_v1", "create", "submit", "respond"},
            review : Nat, fps : SUBSET Fp,
            sub : Seq(AgentFinding), batch : Seq(Response), before : SUBSET DispRow]

Draft == [det : SUBSET Row, gone : SUBSET Row, agent : SUBSET Row,
          steps : Seq(Step), status : {"planned", "completed"}, blocking : Blocking]

NoRequest == [kind |-> "none", review |-> 0, fps |-> {}, sub |-> <<>>, batch |-> <<>>,
              before |-> {}]
NoDraft == [det |-> {}, gone |-> {}, agent |-> {}, steps |-> <<>>,
            status |-> "planned", blocking |-> "none"]

PlanStep(seq, confirmed, regressed) ==
  [seq |-> seq, kind |-> "plan", n |-> confirmed, m |-> regressed,
   flag |-> FALSE, blocking |-> "none"]

_findings_step(seq, agent_final, resubmit) ==
  [seq |-> seq, kind |-> "findings",
   n |-> Cardinality({r \in agent_final : ~r.sup}),
   m |-> Cardinality({r \in agent_final : r.sup}),
   flag |-> resubmit, blocking |-> "none"]

VerdictStep(seq, blocking) ==
  [seq |-> seq, kind |-> "verdict", n |-> 0, m |-> 0, flag |-> FALSE,
   blocking |-> blocking]

ResponsesStep(seq, recorded, muted) ==
  [seq |-> seq, kind |-> "responses", n |-> recorded, m |-> muted,
   flag |-> FALSE, blocking |-> "none"]
----------------------------------------------------------------------------
(* The domain                                                              *)

VerdictOfAllRows(rows) ==                   \* mutant: suppressed findings count
  IF \E r \in rows : r.fp \in Blockers THEN "block" ELSE "pass"

compute_verdict(rows) ==
  IF \E r \in rows : ~r.sup /\ r.fp \in Blockers THEN "block" ELSE "pass"

apply_dispositions(rows, muted) ==
  {[r EXCEPT !.sup = r.sup \/ r.fp \in muted] : r \in rows}

_overlaps(f, det) == \E d \in det : ~d.sup /\ Place[d.fp] = Place[f]

\* The agent's rows after merge(): off the diff, restating a deterministic
\* finding, or restating an earlier one of the same submission is suppressed.
merge(det, list) ==
  {[fp |-> list[i].fp,
    sup |-> \/ ~list[i].inDiff
            \/ _overlaps(list[i].fp, det)
            \/ \E j \in 1..(i - 1) :
                 /\ list[j].inDiff
                 /\ ~_overlaps(list[j].fp, det)
                 /\ Place[list[j].fp] = Place[list[i].fp]] : i \in 1..Len(list)}

capped(list) == SubSeq(list, 1, IF Len(list) < MaxAgent THEN Len(list) ELSE MaxAgent)

_shown(r) == {row.fp : row \in {x \in r.det \cup r.agent : ~x.sup}}

FpsOf(rows) == {r.fp : r \in rows}
----------------------------------------------------------------------------
(* What a statement of key k sees: committed rows and its own writes.      *)

Visible(k) == mine[k] \cup {d \in disp : \A x \in mine[k] : x.id # d.id}

_standing(k) == {d \in Visible(k) : ~d.revoked}

ClaimsMute(k, fps) ==                       \* mutant: a `fixed` claim mutes
  {{f \in fps : \E d \in _standing(k) : d.fp = f /\ d.disp # "confirmed_fixed"}}

\* active() builds a dictionary keyed by fingerprint out of an unordered
\* SELECT: when two rows stand for one fingerprint either may be the one kept.
active(k, fps) ==
  {muted \in SUBSET fps : \A f \in fps :
     IF f \in muted
       THEN \E d \in _standing(k) : d.fp = f /\ d.disp \in MUTING_DISPOSITIONS
       ELSE \A d \in _standing(k) : d.fp = f =>
              \/ d.disp \notin MUTING_DISPOSITIONS
              \/ \E e \in _standing(k) : e.fp = f /\ e.disp \notin MUTING_DISPOSITIONS}

active_fixed(k) == {d.fp : d \in {x \in _standing(k) : x.disp = "fixed"}}

RowHolders(k, id) == {j \in Keys \ {k} : \E x \in mine[j] : x.id = id}

NoReviewLock(k) == {}                       \* mutant: SELECT without FOR UPDATE

ReviewHolders(k) == {j \in Keys \ {k} : held[j] = req[k].review}

\* select max(seq) of the review's steps, 0 when it has none
max_seq(steps) ==
  IF steps = <<>> THEN 0 ELSE Max({steps[i].seq : i \in DOMAIN steps})
----------------------------------------------------------------------------
SeededReview(s) ==
  LET det == {[fp |-> f, sup |-> FALSE] : f \in s.fps}
  IN [user |-> s.user, status |-> "completed", blocking |-> compute_verdict(det),
      det |-> det, agent |-> {},
      steps |-> <<PlanStep(1, 0, 0), _findings_step(2, {}, FALSE),
                  VerdictStep(3, compute_verdict(det))>>]

Init ==
  /\ reviews = [i \in 1..Len(Seeded) |-> SeededReview(Seeded[i])]
  /\ disp = {}
  /\ nextRow = 1
  /\ served = 0
  /\ pc = [k \in Keys |-> "idle"]
  /\ req = [k \in Keys |-> NoRequest]
  /\ held = [k \in Keys |-> 0]
  /\ mine = [k \in Keys |-> {}]
  /\ todo = [k \in Keys |-> {}]
  /\ found = [k \in Keys |-> {}]
  /\ claims = [k \in Keys |-> {}]
  /\ at = [k \in Keys |-> 0]
  /\ draft = [k \in Keys |-> NoDraft]

LockKept(k) ==                              \* mutant: the review stays locked
  /\ pc' = [pc EXCEPT ![k] = "idle"]
  /\ req' = [req EXCEPT ![k] = NoRequest]
  /\ mine' = [mine EXCEPT ![k] = {}]
  /\ todo' = [todo EXCEPT ![k] = {}]
  /\ found' = [found EXCEPT ![k] = {}]
  /\ claims' = [claims EXCEPT ![k] = {}]
  /\ at' = [at EXCEPT ![k] = 0]
  /\ draft' = [draft EXCEPT ![k] = NoDraft]
  /\ UNCHANGED held

\* The transaction of k ends: its locks go, its private state goes.
Release(k) ==
  /\ pc' = [pc EXCEPT ![k] = "idle"]
  /\ req' = [req EXCEPT ![k] = NoRequest]
  /\ held' = [held EXCEPT ![k] = 0]
  /\ mine' = [mine EXCEPT ![k] = {}]
  /\ todo' = [todo EXCEPT ![k] = {}]
  /\ found' = [found EXCEPT ![k] = {}]
  /\ claims' = [claims EXCEPT ![k] = {}]
  /\ at' = [at EXCEPT ![k] = 0]
  /\ draft' = [draft EXCEPT ![k] = NoDraft]

\* session.rollback(): nothing the request wrote survives.
Rollback(k) == Release(k) /\ UNCHANGED <<db, served>>
----------------------------------------------------------------------------
(* A request arrives and authenticates                                     *)

Begin(k, r, where) ==
  /\ pc[k] = "idle"
  /\ served < MaxRequests
  /\ served' = served + 1
  /\ req' = [req EXCEPT ![k] = [r EXCEPT !.before = disp]]
  /\ pc' = [pc EXCEPT ![k] = where]
  /\ UNCHANGED <<db, held, mine, todo, found, claims, at, draft>>

plan(k) ==
  \E kind \in {"plan", "plan_v1"}, fps \in Analyses :
    Begin(k, [NoRequest EXCEPT !.kind = kind, !.fps = fps], "examine")

create_review(k) ==
  \E fps \in Analyses, sub \in Submissions :
    Begin(k, [NoRequest EXCEPT !.kind = "create", !.fps = fps, !.sub = sub], "examine")

submit(k) ==
  \E i \in DOMAIN reviews, sub \in Submissions :
    Begin(k, [NoRequest EXCEPT !.kind = "submit", !.review = i, !.sub = sub], "lock")

respond(k) ==
  \E i \in DOMAIN reviews, batch \in Batches :
    Begin(k, [NoRequest EXCEPT !.kind = "respond", !.review = i, !.batch = batch], "lock")
----------------------------------------------------------------------------
(* plan, plan_v1 and create_review: the deterministic half                 *)

\* _examine reads the answers that stand for what the rules found.
_examine(k) ==
  /\ pc[k] = "examine"
  /\ \E muted \in active(k, req[k].fps) :
       found' = [found EXCEPT ![k] = {[fp |-> f, sup |-> f \in muted] : f \in req[k].fps}]
  /\ pc' = [pc EXCEPT ![k] = "reconcile"]
  /\ UNCHANGED <<db, served, req, held, mine, todo, claims, at, draft>>

PlanSettles(kind) == kind # "none"          \* mutant: a /v2 plan settles too

settle_fixed(kind) == kind \in {"plan_v1", "create"}

\* _reconcile_fixed reads the claims; a /v2 plan only reports what it saw.
_reconcile_fixed(k) ==
  /\ pc[k] = "reconcile"
  /\ claims' = [claims EXCEPT ![k] = active_fixed(k)]
  /\ pc' = [pc EXCEPT ![k] = IF settle_fixed(req[k].kind) THEN "confirm" ELSE "commit"]
  /\ UNCHANGED <<db, served, req, held, mine, todo, found, at, draft>>

confirmed(k) == claims[k] \ req[k].fps
regressed(k) == claims[k] \cap req[k].fps

\* An UPDATE of the standing rows of fps: its snapshot fixes the rows it visits.
Targets(k, fps) == {d.id : d \in {x \in _standing(k) : x.fp \in fps}}

Update(k, fps, waiting, after) ==
  /\ todo' = [todo EXCEPT ![k] = Targets(k, fps)]
  /\ pc' = [pc EXCEPT ![k] = IF Targets(k, fps) = {} THEN after ELSE waiting]
  /\ UNCHANGED <<db, served, req, held, mine, found, claims, at, draft>>

confirm_fixed(k) == pc[k] = "confirm" /\ Update(k, confirmed(k), "confirming", "revoke")

revoke(k) == pc[k] = "revoke" /\ Update(k, regressed(k), "revoking", "rule")

BackToOpen(k, d) == [d EXCEPT !.disp = "open"]  \* mutant: stores the absence of an answer

\* What the running UPDATE writes: confirm_fixed settles in place, revoke and
\* set() stamp revoked_at.
NewVersion(k, d) ==
  IF pc[k] = "confirming" THEN [d EXCEPT !.disp = "confirmed_fixed"]
                          ELSE [d EXCEPT !.revoked = TRUE]

AfterUpdate(k) ==
  CASE pc[k] = "confirming" -> "revoke"
    [] pc[k] = "revoking"   -> "rule"
    [] OTHER                -> "insert"

SettleUnchecked(k) ==                       \* mutant: the WHERE is not evaluated again
  /\ pc[k] \in {"confirming", "revoking", "answering"}
  /\ \E d \in Visible(k) :
       /\ d.id \in todo[k]
       /\ RowHolders(k, d.id) = {}
       /\ todo' = [todo EXCEPT ![k] = @ \ {d.id}]
       /\ mine' = [mine EXCEPT ![k] = {x \in @ : x.id # d.id} \cup {NewVersion(k, d)}]
       /\ pc' = [pc EXCEPT ![k] = IF todo[k] = {d.id} THEN AfterUpdate(k) ELSE @]
  /\ UNCHANGED <<db, served, req, held, found, claims, at, draft>>

\* One row of the UPDATE.  A row another transaction wrote is waited for, and
\* the WHERE clause is evaluated again on the version that transaction left.
_settle(k) ==
  /\ pc[k] \in {"confirming", "revoking", "answering"}
  /\ \E d \in Visible(k) :
       /\ d.id \in todo[k]
       /\ RowHolders(k, d.id) = {}
       /\ todo' = [todo EXCEPT ![k] = @ \ {d.id}]
       /\ mine' = [mine EXCEPT ![k] =
            IF d.revoked THEN @ ELSE {x \in @ : x.id # d.id} \cup {NewVersion(k, d)}]
       /\ pc' = [pc EXCEPT ![k] = IF todo[k] = {d.id} THEN AfterUpdate(k) ELSE @]
  /\ UNCHANGED <<db, served, req, held, found, claims, at, draft>>
----------------------------------------------------------------------------
(* submit and respond: the review is held for the rest of the transaction  *)

_own_review(k) ==
  /\ pc[k] = "lock"
  /\ ReviewHolders(k) = {}
  /\ IF reviews[req[k].review].user = Owner[k]
       THEN /\ held' = [held EXCEPT ![k] = req[k].review]
            /\ at' = [at EXCEPT ![k] = 1]
            /\ pc' = [pc EXCEPT ![k] = IF req[k].batch = <<>> THEN "rule" ELSE "answer"]
            /\ UNCHANGED <<db, served, req, mine, todo, found, claims, draft>>
       ELSE Rollback(k)

\* The checks respond makes before it records one answer, _resolve included.
Answerable(k, r) ==
  /\ r.disp \in MUTING_DISPOSITIONS => r.note
  /\ r.disp = "accepted" => Owner[k] \in Leads
  /\ r.fp \in _shown(reviews[req[k].review])

SetWithoutRevoking(k) ==                    \* mutant: the old answer is left standing
  /\ pc[k] = "answer"
  /\ IF Answerable(k, req[k].batch[at[k]]) THEN Update(k, {}, "answering", "insert")
                                           ELSE Rollback(k)

SetStopsEarly(k) ==                         \* mutant: a refused answer ends the loop
  /\ pc[k] = "answer"
  /\ LET r == req[k].batch[at[k]]
     IN IF Answerable(k, r) THEN Update(k, {r.fp}, "answering", "insert")
                            ELSE Update(k, {}, "answering", "rule")

set(k) ==
  /\ pc[k] = "answer"
  /\ LET r == req[k].batch[at[k]]
     IN IF Answerable(k, r) THEN Update(k, {r.fp}, "answering", "insert")
                            ELSE Rollback(k)

insert(k) ==
  /\ pc[k] = "insert"
  /\ LET r == req[k].batch[at[k]]
     IN mine' = [mine EXCEPT ![k] = @ \cup
          {[id |-> nextRow, fp |-> r.fp, disp |-> r.disp, revoked |-> FALSE, by |-> Owner[k],
            note |-> r.note, on |-> held[k]]}]
  /\ nextRow' = nextRow + 1
  /\ at' = [at EXCEPT ![k] = @ + 1]
  /\ pc' = [pc EXCEPT ![k] = IF at[k] = Len(req[k].batch) THEN "rule" ELSE "answer"]
  /\ UNCHANGED <<reviews, disp, served, req, held, todo, found, claims, draft>>
----------------------------------------------------------------------------
(* The verdict, and what the request writes to its review                  *)

\* plan_v1 opens the review with the plan alone.
PlanDraft(k) ==
  [NoDraft EXCEPT !.det = found[k],
     !.steps = <<PlanStep(1, Cardinality(confirmed(k)), Cardinality(regressed(k)))>>]

AgentNeverMuted(k, muted) ==                \* mutant: answers not applied at submit
  LET agent == merge(found[k], capped(req[k].sub))
  IN [det |-> found[k], gone |-> {}, agent |-> agent, status |-> "completed",
      blocking |-> compute_verdict(found[k] \cup agent),
      steps |-> <<PlanStep(1, Cardinality(confirmed(k)), Cardinality(regressed(k))),
                  _findings_step(2, agent, FALSE),
                  VerdictStep(3, compute_verdict(found[k] \cup agent))>>]

\* create_review: the rows keep what _examine decided for the deterministic
\* findings and what the second reading of the answers decided for the agent's.
CreateDraft(k, muted) ==
  LET agent == merge(found[k], capped(req[k].sub))
      final == apply_dispositions(agent, muted)
      verdict == compute_verdict(apply_dispositions(found[k], muted) \cup final)
  IN [det |-> found[k], gone |-> {}, agent |-> final, status |-> "completed",
      blocking |-> verdict,
      steps |-> <<PlanStep(1, Cardinality(confirmed(k)), Cardinality(regressed(k))),
                  _findings_step(2, final, FALSE), VerdictStep(3, verdict)>>]

SubmitDraft(k, muted) ==
  LET r == reviews[req[k].review]
      agent == merge(r.det, capped(req[k].sub))
      final == apply_dispositions(agent, muted)
      verdict == compute_verdict(apply_dispositions(r.det, muted) \cup final)
      seq == max_seq(r.steps)
  IN [det |-> {}, gone |-> r.agent, agent |-> final, status |-> "completed",
      blocking |-> verdict,
      steps |-> <<_findings_step(seq + 1, final, r.status = "completed"),
                  VerdictStep(seq + 2, verdict)>>]

\* respond rules again over the stored findings and leaves their rows alone.
RespondDraft(k, muted) ==
  LET r == reviews[req[k].review]
      final == apply_dispositions(r.det \cup r.agent, muted)
  IN [det |-> {}, gone |-> {}, agent |-> {}, status |-> "completed",
      blocking |-> compute_verdict(final),
      steps |-> <<ResponsesStep(max_seq(r.steps) + 1, Len(req[k].batch),
                                Cardinality({x \in final : x.sup}))>>]

SubmittedFps(k) == {req[k].sub[i].fp : i \in DOMAIN req[k].sub}

\* The fingerprints the verdict's reading of active() asks about.
Asked(k) ==
  CASE req[k].kind = "create" -> req[k].fps \cup SubmittedFps(k)
    [] req[k].kind = "submit" -> FpsOf(reviews[req[k].review].det) \cup SubmittedFps(k)
    [] req[k].kind = "respond" -> FpsOf(reviews[req[k].review].det \cup reviews[req[k].review].agent)
    [] OTHER -> {}

Rule(k) ==
  /\ pc[k] = "rule"
  /\ \E muted \in active(k, Asked(k)) :
       draft' = [draft EXCEPT ![k] =
         CASE req[k].kind = "create"  -> CreateDraft(k, muted)
           [] req[k].kind = "submit"  -> SubmitDraft(k, muted)
           [] req[k].kind = "respond" -> RespondDraft(k, muted)
           [] OTHER                   -> PlanDraft(k)]
  /\ pc' = [pc EXCEPT ![k] = "commit"]
  /\ UNCHANGED <<db, served, req, held, mine, todo, found, claims, at>>

AgentRowsAppended(k, r) ==                  \* mutant: a resubmit adds, never replaces
  [r EXCEPT !.agent = @ \cup draft[k].agent,
            !.steps = @ \o draft[k].steps,
            !.status = draft[k].status, !.blocking = draft[k].blocking]

Opened(k) ==
  [user |-> Owner[k], status |-> draft[k].status, blocking |-> draft[k].blocking,
   det |-> draft[k].det, agent |-> draft[k].agent, steps |-> draft[k].steps]

Rewritten(k, r) ==
  [r EXCEPT !.agent = (@ \ draft[k].gone) \cup draft[k].agent,
            !.steps = @ \o draft[k].steps,
            !.status = draft[k].status, !.blocking = draft[k].blocking]

Commit(k) ==
  /\ pc[k] = "commit"
  /\ disp' = Visible(k)
  /\ reviews' = CASE req[k].kind \in {"plan_v1", "create"} -> Append(reviews, Opened(k))
                  [] req[k].kind \in {"submit", "respond"} ->
                       [reviews EXCEPT ![req[k].review] = Rewritten(k, @)]
                  [] OTHER -> reviews
  /\ Release(k)
  /\ UNCHANGED <<nextRow, served>>
----------------------------------------------------------------------------
(* Failures                                                                *)

\* The process dies, the connection drops or a statement fails.
Abort(k) == pc[k] # "idle" /\ Rollback(k)

WaitsFor(k) ==
  CASE pc[k] = "lock" -> ReviewHolders(k)
    [] pc[k] \in {"confirming", "revoking", "answering"} ->
         IF \A id \in todo[k] : RowHolders(k, id) # {}
           THEN UNION {RowHolders(k, id) : id \in todo[k]} ELSE {}
    [] OTHER -> {}

WaitCycle(S) == S # {} /\ \A j \in S : WaitsFor(j) \cap S # {}

\* Postgres breaks a cycle of waiting transactions by aborting one of them.
DeadlockVictim(k) ==
  /\ \E S \in SUBSET Keys : k \in S /\ WaitCycle(S) /\ \A T \in SUBSET S : WaitCycle(T) => T = S
  /\ Rollback(k)

\* One statement of the request of k, or its commit.
Work(k) ==
  \/ _examine(k) \/ _reconcile_fixed(k) \/ confirm_fixed(k) \/ revoke(k) \/ _settle(k)
  \/ _own_review(k) \/ set(k) \/ insert(k) \/ Rule(k) \/ Commit(k)

Idle == \A k \in Keys : pc[k] = "idle"

\* The budget of requests is spent and all of them ended.
Finished == served = MaxRequests /\ Idle /\ UNCHANGED vars

Next ==
  \/ \E k \in Keys : plan(k) \/ create_review(k) \/ submit(k) \/ respond(k)
  \/ \E k \in Keys : Work(k)
  \/ \E k \in Keys : Abort(k)
  \/ \E k \in Keys : DeadlockVictim(k)
  \/ Finished

\* A worker thread keeps executing the request it took, and the database's
\* deadlock detector runs; no request has to arrive and nothing has to fail.
Fairness == /\ \A k \in Keys : WF_vars(Work(k))
            /\ \A k \in Keys : WF_vars(DeadlockVictim(k))

Spec == Init /\ [][Next]_vars

FairSpec == Spec /\ Fairness
----------------------------------------------------------------------------
(* Properties                                                              *)

PC == {"idle", "examine", "reconcile", "confirm", "confirming", "revoke", "revoking",
       "lock", "answer", "answering", "insert", "rule", "commit"}

\* Every table and every request's private state holds rows of its type.
TypeOK ==
  /\ reviews \in Seq(Review)
  /\ disp \in SUBSET DispRow
  /\ nextRow \in Nat \ {0}
  /\ served \in 0..MaxRequests
  /\ pc \in [Keys -> PC]
  /\ req \in [Keys -> Request]
  /\ held \in [Keys -> Nat]
  /\ mine \in [Keys -> SUBSET DispRow]
  /\ todo \in [Keys -> SUBSET Nat]
  /\ found \in [Keys -> SUBSET Row]
  /\ claims \in [Keys -> SUBSET Fp]
  /\ at \in [Keys -> Nat]
  /\ draft \in [Keys -> Draft]

Numbered(r) == \A s \in DOMAIN r.steps : r.steps[s].seq = s

\* The trail of a review counts 1, 2, 3: no two steps share a number and none is
\* skipped, although add_step only reads max(seq) and the table has no unique
\* constraint.  It is the row lock of owner_of(for_update=True) that buys this.
TrailInOrder == \A i \in DOMAIN reviews : Numbered(reviews[i])

FindingsSteps(r) == {s \in DOMAIN r.steps : r.steps[s].kind = "findings"}

Accounted(r) ==
  /\ FindingsSteps(r) = {} => r.agent = {}
  /\ \A s \in FindingsSteps(r) :
       (\A t \in FindingsSteps(r) : t <= s) =>
         /\ r.steps[s].n = Cardinality({x \in r.agent : ~x.sup})
         /\ r.steps[s].m = Cardinality({x \in r.agent : x.sup})

\* The agent findings on record are those of one submission, the last one: the
\* newest "findings" step of the trail accounts for every row
\* (replace_agent_findings means replace, whatever runs beside it).
AgentRowsMatchTrail == \A i \in DOMAIN reviews : Accounted(reviews[i])

Justified(r) ==
  r.blocking = "block" => \E x \in r.det \cup r.agent : ~x.sup /\ x.fp \in Blockers

\* A review blocks only over a finding it holds and shows: the stored verdict is
\* never computed from rows another request has replaced since.
BlockingIsJustified == \A i \in DOMAIN reviews : Justified(reviews[i])

\* The numbers of the steps of one kind, summed up over every trail.
OnTrail(r, kind) ==
  SumFunction([s \in {t \in DOMAIN r.steps : r.steps[t].kind = kind} |-> r.steps[s].n])
OnTrails(kind) == SumFunction([i \in DOMAIN reviews |-> OnTrail(reviews[i], kind)])

\* Every answer row belongs to a respond whose "responses" step lists it, and
\* every listed answer has its row: a batch that fails in the middle leaves
\* neither.
EveryAnswerOnTheTrail == Cardinality(disp) = OnTrails("responses")

TrailOf(steps) ==
  [s \in DOMAIN steps |-> [seq |-> steps[s].seq, kind |-> steps[s].kind,
                           flag |-> steps[s].flag, blocking |-> steps[s].blocking]]

\* A review without its rows.
ReviewRead(r) == [user |-> r.user, blocking |-> r.blocking, trail |-> TrailOf(r.steps)]

OnRecord == INSTANCE Trails WITH record <- [i \in DOMAIN reviews |-> ReviewRead(reviews[i])]

\* To a reader the calls on reviews happen one at a time: each adds its whole
\* group of steps to the end of one trail, numbered on from the last, together
\* with the verdict those steps end in, and says truly whether the review had
\* been ruled on before.  (_own_review: "two of either running at once would
\* each read the state before the other wrote".)
ImplementsTrails == OnRecord!Spec

\* Each request ends, with a reply or with a rollback, however the requests
\* interleave: a cycle of waiting transactions does not last.
RequestsEnd == \A k \in Keys : pc[k] # "idle" ~> pc[k] = "idle"
----------------------------------------------------------------------------
(* What the answers on record promise                                      *)

\* e is d as a later statement may leave it: stamped revoked, or a claim settled.
Successor(d, e) ==
  /\ e.id = d.id /\ e.fp = d.fp /\ e.by = d.by /\ e.note = d.note /\ e.on = d.on
  /\ d.revoked => e = d
  /\ e.disp # d.disp => e.disp = "confirmed_fixed"

\* finding_dispositions is append-and-revoke: whoever commits, a row on record
\* stays, with its finding, its author and its argument; what was revoked is not
\* touched again, not even by an UPDATE that chose the row before it was revoked;
\* and what an answer says changes only by being confirmed.  (That a confirmation
\* may fall on an answer that was no claim is NeverOverwritten.)
AppendAndRevoke == [][\A d \in disp : \E e \in disp' : Successor(d, e)]_vars

\* A review that passes the gate while it shows a finding at or above block_on
\* has an answer with an argument on record for it, standing or revoked since,
\* which is no `fixed` claim: however the answers were rewritten or revoked
\* between the reading of the verdict and the commit, the argument is there.
PassIsExplained ==
  \A i \in DOMAIN reviews : reviews[i].blocking = "pass" =>
    \A x \in reviews[i].det \cup reviews[i].agent :
      ~x.sup /\ x.fp \in Blockers =>
        \E d \in disp : d.fp = x.fp /\ d.note /\ d.disp # "fixed"

\* Of the answers one review was given to a finding at most one stands, however
\* they race each other and the reviews that settle or revoke them.
OneAnswerPerReview ==
  \A d, e \in disp : ~d.revoked /\ ~e.revoked /\ d.fp = e.fp /\ d.on = e.on => d = e

Settled(S) == {d.fp : d \in {x \in S : x.disp = "confirmed_fixed"}}

\* Only a review settles a fixed claim, and its plan step says so: no more
\* findings are settled than the trails confirm, whatever /v2 plans and other
\* requests run beside the review.
SettledOnTheTrail == Cardinality(Settled(disp)) <= OnTrails("plan")

About(S, f) == {d \in S : d.fp = f}

\* One answer mutes f, and those about f are as they were when k began.
MuteKept(k, f) ==
  /\ About(disp, f) = About(req[k].before, f)
  /\ \E d \in disp : /\ {e \in About(disp, f) : ~e.revoked} = {d}
                     /\ d.disp \in MUTING_DISPOSITIONS

Opens(k) == pc[k] = "commit" /\ req[k].kind \in {"plan_v1", "create"}

\* A finding somebody muted stays muted in a review opened later, by whichever
\* key and reported by whichever half, unless the answers about it changed while
\* that review was made: the answers are read twice, for the deterministic half
\* and for the agent's, and a claim settled or revoked in between is no mute.
MutedStaysMuted ==
  [][\A k \in Keys : Opens(k) /\ Commit(k) =>
       \A i \in DOMAIN reviews' \ DOMAIN reviews :
         \A x \in reviews'[i].det \cup reviews'[i].agent : MuteKept(k, x.fp) => x.sup]_vars
----------------------------------------------------------------------------
(* What the source says of the answers and the code does not keep          *)

\* FindingDispositionRow is append-and-revoke, "never overwritten": the argument
\* behind a muted finding is not replaced by something else.
NeverOverwritten ==
  [][\A d \in disp : d.disp \in MUTING_DISPOSITIONS =>
       \E e \in disp' : e.id = d.id /\ e.disp = d.disp /\ e.by = d.by]_vars

\* SqlDispositionStore.set keeps the uniqueness of the active row: at most one
\* answer stands for a fingerprint.
OneStandingAnswer ==
  \A d, e \in disp : ~d.revoked /\ ~e.revoked /\ d.fp = e.fp => d = e

\* confirmed_fixed is "a fixed claim the next review did not contradict": the
\* review that settles a claim does not itself report the finding.
ConfirmedNotReported ==
  [][\A d \in disp, e \in disp' :
       d.id = e.id /\ d.disp = "fixed" /\ e.disp = "confirmed_fixed" =>
         \A i \in DOMAIN reviews' : i \notin DOMAIN reviews =>
           e.fp \notin _shown(reviews'[i])]_vars
============================================================================
