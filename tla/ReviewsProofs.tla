--------------------------- MODULE ReviewsProofs ---------------------------
(***************************************************************************)
(* Reviews for every set of keys, users, fingerprints and inputs, however  *)
(* the statements of their requests interleave.                            *)
(*                                                                         *)
(*   Inv         the row lock excludes, the trail of a review is numbered  *)
(*               without gaps, the agent findings are those of the last    *)
(*               submission, a review blocks only over a finding it holds  *)
(*   TrailsInv   every step implements a call of Trails, or none           *)
(*   RowsInv     the answers on record are the ones the trails list        *)
(*   AnswersInv  answers are appended, revoked once and kept; a pass has   *)
(*               its argument; a mute nobody touched is not lost           *)
(***************************************************************************)
EXTENDS Reviews, FiniteSetTheorems, SequenceTheorems, TLAPS

Opening == {"plan_v1", "create"}
Rewriting == {"submit", "respond"}

\* The request of k is where its kind can be, and what it targets exists.
RequestFits(k) ==
  /\ pc[k] = "idle" <=> req[k].kind = "none"
  /\ pc[k] \in {"examine", "reconcile"} => req[k].kind \in Opening \cup {"plan"}
  /\ pc[k] \in {"confirm", "confirming", "revoke", "revoking"} => req[k].kind \in Opening
  /\ pc[k] \in {"lock", "answer", "answering", "insert"} => req[k].kind \in Rewriting
  /\ pc[k] = "rule" => req[k].kind \in Opening \cup Rewriting
  /\ req[k].kind \in Rewriting => req[k].review \in 1..Len(reviews)
  /\ pc[k] \in {"answer", "answering", "insert"} => at[k] \in 1..Len(req[k].batch)

\* A request that rewrites a review holds its row from _own_review to its end.
HeldFits(k) ==
  held[k] = IF req[k].kind \in Rewriting /\ pc[k] # "lock" THEN req[k].review ELSE 0

\* No two requests hold one review (SELECT ... FOR UPDATE).
Exclusive ==
  \A j, k \in Keys : j # k /\ held[j] = held[k] => held[j] = 0

\* What a review on record is: numbered, accounted for, its verdict justified.
Good(r) == r \in Review /\ Numbered(r) /\ Accounted(r) /\ Justified(r)

ReviewsGood == \A i \in 1..Len(reviews) : Good(reviews[i])

\* The review that k is about to commit is good, as the database stands now.
DraftFits(k) ==
  pc[k] = "commit" =>
    /\ req[k].kind \in Opening => Good(Opened(k))
    /\ req[k].kind \in Rewriting => Good(Rewritten(k, reviews[req[k].review]))

\* The inductive invariant.  TypeOK alone does not carry the trail: a request
\* computes its steps in one statement and commits them in a later one, so the
\* draft has to stay good while others commit, which is what the lock is for.
Inv ==
  /\ TypeOK
  /\ \A k \in Keys : RequestFits(k) /\ HeldFits(k) /\ DraftFits(k)
  /\ Exclusive
  /\ ReviewsGood
----------------------------------------------------------------------------
(* Finite rows                                                             *)

\* A table of findings over finitely many fingerprints is finite.
LEMMA RowsFinite ==
  ASSUME NEW R \in SUBSET Row
  PROVE  IsFiniteSet(R) /\ Cardinality(R) \in Nat
<1> DEFINE P == Fp \X BOOLEAN
           f == [x \in P |-> [fp |-> x[1], sup |-> x[2]]]
<1>1. IsFiniteSet(BOOLEAN)
  <2>1. BOOLEAN = {TRUE} \cup {FALSE}
    OBVIOUS
  <2>2. IsFiniteSet({TRUE}) /\ IsFiniteSet({FALSE})
    BY FS_Singleton
  <2>3. IsFiniteSet({TRUE} \cup {FALSE})
    BY <2>2, FS_Union
  <2>4. QED
    BY <2>1, <2>3
<1>2. IsFiniteSet(P)
  BY <1>1, FS_Product, ConstantsAssumption
<1>3. f \in Surjection(P, Row)
  <2>1. f \in [P -> Row]
    BY DEF Row
  <2>2. ASSUME NEW r \in Row PROVE \E x \in P : f[x] = r
    <3>1. <<r.fp, r.sup>> \in P /\ r = [fp |-> r.fp, sup |-> r.sup]
      BY DEF Row
    <3>2. f[<<r.fp, r.sup>>] = r
      BY <3>1
    <3>3. QED
      BY <3>1, <3>2
  <2>3. QED
    BY <2>1, <2>2 DEF Surjection
<1>4. IsFiniteSet(Row)
  <2> HIDE DEF P, f
  <2> QED BY <1>2, <1>3, FS_Surjection
<1>5. QED
  BY <1>4, FS_Subset, FS_CardinalityType

\* The claims a review reads are finitely many.
LEMMA FpsFinite ==
  ASSUME NEW F \in SUBSET Fp
  PROVE  Cardinality(F) \in Nat
BY FS_Subset, FS_CardinalityType, ConstantsAssumption

\* add_step's max(seq) is the length of a trail that counts 1, 2, 3.
LEMMA MaxSeqIsLen ==
  ASSUME NEW steps \in Seq(Step), \A s \in 1..Len(steps) : steps[s].seq = s
  PROVE  max_seq(steps) = Len(steps)
<1>1. CASE steps = <<>>
  BY <1>1 DEF max_seq
<1>2. CASE steps # <<>>
  <2> DEFINE S == {steps[i].seq : i \in DOMAIN steps}
  <2>1. Len(steps) \in Nat \ {0} /\ DOMAIN steps = 1..Len(steps)
    BY <1>2, EmptySeq, LenProperties
  <2>2. S = 1..Len(steps)
    BY <2>1
  <2> HIDE DEF S
  <2>3. Max(S) = Len(steps)
    <3>1. Len(steps) \in S /\ \A y \in S : Len(steps) >= y
      BY <2>1, <2>2
    <3>2. ASSUME NEW x \in S, \A y \in S : x >= y PROVE x = Len(steps)
      <4> DEFINE n == Len(steps)
      <4>1. x \in 1..n /\ x >= n /\ n \in Nat
        BY <3>1, <3>2, <2>1, <2>2
      <4> HIDE DEF n
      <4>2. x = n
        BY <4>1
      <4>3. QED
        BY <4>2 DEF n
    <3>3. Max(S) \in S /\ \A y \in S : Max(S) >= y
      BY <3>1, Zenon DEF Max
    <3>4. QED
      BY <3>2, <3>3
  <2>4. QED
    BY <1>2, <2>3 DEF max_seq, S
<1>3. QED
  BY <1>1, <1>2
----------------------------------------------------------------------------
(* The drafts a request writes are well typed                              *)

\* Applying answers keeps rows rows.
LEMMA ApplyType ==
  ASSUME NEW R \in SUBSET Row, NEW muted
  PROVE  apply_dispositions(R, muted) \in SUBSET Row
BY DEF apply_dispositions, Row

\* The agent's findings become rows, whatever merge() suppresses.
LEMMA MergeType ==
  ASSUME NEW R, NEW list \in Seq(AgentFinding)
  PROVE  merge(R, list) \in SUBSET Row
<1>1. \A i \in 1..Len(list) : list[i] \in AgentFinding
  BY ElementOfSeq
<1>2. \A i \in 1..Len(list) : list[i].fp \in Fp
  BY <1>1 DEF AgentFinding
<1> DEFINE Dup(i) == \/ ~list[i].inDiff
                     \/ _overlaps(list[i].fp, R)
                     \/ \E j \in 1..(i - 1) :
                          /\ list[j].inDiff
                          /\ ~_overlaps(list[j].fp, R)
                          /\ Place[list[j].fp] = Place[list[i].fp]
<1>3. merge(R, list) = {[fp |-> list[i].fp, sup |-> Dup(i)] : i \in 1..Len(list)}
  BY Zenon DEF merge
<1>4. \A i \in 1..Len(list) : Dup(i) \in BOOLEAN
  BY Zenon
<1> HIDE DEF Dup
<1>5. ASSUME NEW i \in 1..Len(list) PROVE [fp |-> list[i].fp, sup |-> Dup(i)] \in Row
  BY <1>2, <1>4 DEF Row
<1>6. QED
  BY <1>3, <1>5

\* The cap keeps a list of agent findings a list of agent findings.
LEMMA CappedType ==
  ASSUME NEW list \in Seq(AgentFinding)
  PROVE  capped(list) \in Seq(AgentFinding)
<1> DEFINE n == IF Len(list) < MaxAgent THEN Len(list) ELSE MaxAgent
<1>1. Len(list) \in Nat /\ n \in Nat /\ n <= Len(list)
  BY LenProperties, ConstantsAssumption
<1>2. \A i \in 1..n : list[i] \in AgentFinding
  BY <1>1, ElementOfSeq
<1>3. QED
  BY <1>1, <1>2, SubSeqProperties DEF capped

\* The gate says block or pass.
LEMMA VerdictType ==
  ASSUME NEW R
  PROVE  compute_verdict(R) \in Blocking
BY DEF compute_verdict, Blocking

\* Each step constructor builds a step with the number it is given.
LEMMA StepTypes ==
  ASSUME NEW seq \in Nat, NEW a \in Nat, NEW b \in Nat, NEW R \in SUBSET Row,
         NEW flag \in BOOLEAN, NEW blocking \in Blocking
  PROVE  /\ PlanStep(seq, a, b) \in Step /\ PlanStep(seq, a, b).seq = seq
         /\ _findings_step(seq, R, flag) \in Step /\ _findings_step(seq, R, flag).seq = seq
         /\ VerdictStep(seq, blocking) \in Step /\ VerdictStep(seq, blocking).seq = seq
         /\ ResponsesStep(seq, a, b) \in Step /\ ResponsesStep(seq, a, b).seq = seq
<1>1. Cardinality({r \in R : ~r.sup}) \in Nat /\ Cardinality({r \in R : r.sup}) \in Nat
  <2>1. {r \in R : ~r.sup} \in SUBSET Row /\ {r \in R : r.sup} \in SUBSET Row
    OBVIOUS
  <2>2. QED
    BY <2>1, RowsFinite
<1>2. QED
  BY <1>1 DEF PlanStep, _findings_step, VerdictStep, ResponsesStep, Step, Blocking
----------------------------------------------------------------------------
(* The verdict and the trail of a draft                                    *)

\* A gate that blocks after the answers are applied blocks over a row that was
\* shown before they were: answers only hide.
LEMMA BlockIsShown ==
  ASSUME NEW R \in SUBSET Row, NEW muted,
         NEW x \in apply_dispositions(R, muted), ~x.sup, x.fp \in Blockers
  PROVE  \E r \in R : ~r.sup /\ r.fp \in Blockers
<1>1. PICK r \in R : x = [r EXCEPT !.sup = r.sup \/ r.fp \in muted]
  BY DEF apply_dispositions
<1>2. r \in Row
  BY <1>1
<1>3. x.fp = r.fp /\ (x.sup = (r.sup \/ r.fp \in muted))
  BY <1>1, <1>2 DEF Row
<1>4. QED
  BY <1>3

\* The same for the rows a request keeps and the rows it answers.
LEMMA VerdictJustified ==
  ASSUME NEW R \in SUBSET Row, NEW A, NEW muted,
         compute_verdict(apply_dispositions(R, muted) \cup A) = "block"
  PROVE  \E x \in R \cup A : ~x.sup /\ x.fp \in Blockers
<1>1. PICK x \in apply_dispositions(R, muted) \cup A : ~x.sup /\ x.fp \in Blockers
  BY DEF compute_verdict
<1>2. CASE x \in A
  BY <1>1, <1>2
<1>3. CASE x \in apply_dispositions(R, muted)
  BY <1>1, <1>3, BlockIsShown
<1>4. QED
  BY <1>1, <1>2, <1>3

\* A trail that is extended by steps which continue its count stays numbered.
LEMMA TrailExtended ==
  ASSUME NEW s \in Seq(Step), NEW t \in Seq(Step),
         \A i \in DOMAIN s : s[i].seq = i,
         \A i \in 1..Len(t) : t[i].seq = Len(s) + i
  PROVE  /\ s \o t \in Seq(Step)
         /\ DOMAIN (s \o t) = 1..(Len(s) + Len(t))
         /\ \A i \in 1..Len(s) : (s \o t)[i] = s[i]
         /\ \A i \in 1..Len(t) : (s \o t)[Len(s) + i] = t[i]
         /\ \A i \in DOMAIN (s \o t) : (s \o t)[i].seq = i
<1> DEFINE u == s \o t
<1>1. /\ u \in Seq(Step) /\ Len(u) = Len(s) + Len(t) /\ DOMAIN u = 1..Len(u)
      /\ Len(s) \in Nat /\ Len(t) \in Nat /\ DOMAIN s = 1..Len(s)
  BY ConcatProperties, LenProperties
<1>2. \A i \in 1..Len(u) : u[i] = IF i <= Len(s) THEN s[i] ELSE t[i - Len(s)]
  BY ConcatProperties
<1> HIDE DEF u
<1>3. \A i \in 1..Len(s) : u[i] = s[i]
  BY <1>1, <1>2
<1>4. ASSUME NEW i \in 1..Len(t) PROVE u[Len(s) + i] = t[i]
  <2>1. Len(s) + i \in 1..Len(u) /\ ~(Len(s) + i <= Len(s)) /\ (Len(s) + i) - Len(s) = i
    BY <1>1
  <2>2. QED
    BY <2>1, <1>2
<1>5. ASSUME NEW i \in 1..Len(u) PROVE u[i].seq = i
  <2>1. CASE i <= Len(s)
    BY <2>1, <1>1, <1>3
  <2>2. CASE i > Len(s)
    <3>1. i - Len(s) \in 1..Len(t) /\ Len(s) + (i - Len(s)) = i
      BY <2>2, <1>1
    <3>2. u[i] = t[i - Len(s)] /\ t[i - Len(s)].seq = Len(s) + (i - Len(s))
      BY <3>1, <1>4
    <3>3. QED
      BY <3>1, <3>2
  <2>3. QED
    BY <2>1, <2>2, <1>1
<1>6. QED
  BY <1>1, <1>3, <1>4, <1>5 DEF u
----------------------------------------------------------------------------
(* Rule: the review that each kind of request would commit is good         *)

\* plan_v1 opens a review with its plan step alone.
LEMMA PlanGood ==
  ASSUME TypeOK, NEW k \in Keys, draft'[k] = PlanDraft(k)
  PROVE  draft'[k] \in Draft /\ Good(Opened(k)')
<1> DEFINE p == PlanStep(1, Cardinality(confirmed(k)), Cardinality(regressed(k)))
           r == [user |-> Owner[k], status |-> "planned", blocking |-> "none",
                 det |-> found[k], agent |-> {}, steps |-> <<p>>]
<1>1. Cardinality(confirmed(k)) \in Nat /\ Cardinality(regressed(k)) \in Nat
  <2>1. confirmed(k) \in SUBSET Fp /\ regressed(k) \in SUBSET Fp
    BY DEF TypeOK, confirmed, regressed
  <2>2. QED
    BY <2>1, FpsFinite
<1>2. p \in Step /\ p.seq = 1 /\ p.kind = "plan"
  BY <1>1 DEF PlanStep, Step, Blocking
<1> HIDE DEF p
<1>3. <<p>> \in Seq(Step) /\ DOMAIN <<p>> = {1} /\ <<p>>[1] = p
  BY <1>2
<1>4. Owner[k] \in Users /\ found[k] \in SUBSET Row
  BY ConstantsAssumption DEF TypeOK
<1>5. PlanDraft(k) = [det |-> found[k], gone |-> {}, agent |-> {}, steps |-> <<p>>,
                      status |-> "planned", blocking |-> "none"]
  BY DEF PlanDraft, NoDraft, p
<1>6. PlanDraft(k) \in Draft
  BY <1>3, <1>4, <1>5 DEF Draft, Blocking
<1>7. Opened(k)' = r
  BY <1>5 DEF Opened
<1>8. r \in Review
  BY <1>3, <1>4 DEF Review, Blocking
<1>9. Numbered(r) /\ FindingsSteps(r) = {}
  BY <1>2, <1>3 DEF Numbered, FindingsSteps
<1>10. Accounted(r) /\ Justified(r)
  BY <1>9 DEF Accounted, Justified
<1>11. QED
  BY <1>6, <1>7, <1>8, <1>9, <1>10 DEF Good

\* What a submission leaves for the agent is typed, and so is its verdict.
LEMMA FinalType ==
  ASSUME NEW R \in SUBSET Row, NEW list \in Seq(AgentFinding), NEW muted
  PROVE  apply_dispositions(merge(R, capped(list)), muted) \in SUBSET Row
BY CappedType, MergeType, ApplyType

\* create_review opens a review with three steps, the second its submission.
LEMMA CreateGood ==
  ASSUME TypeOK, NEW k \in Keys, NEW muted, draft'[k] = CreateDraft(k, muted)
  PROVE  draft'[k] \in Draft /\ Good(Opened(k)')
<1> DEFINE a == apply_dispositions(merge(found[k], capped(req[k].sub)), muted)
           v == compute_verdict(apply_dispositions(found[k], muted) \cup a)
           p == PlanStep(1, Cardinality(confirmed(k)), Cardinality(regressed(k)))
           f == _findings_step(2, a, FALSE)
           w == VerdictStep(3, v)
           r == [user |-> Owner[k], status |-> "completed", blocking |-> v,
                 det |-> found[k], agent |-> a, steps |-> <<p, f, w>>]
<1>1. /\ Owner[k] \in Users /\ found[k] \in SUBSET Row /\ req[k].sub \in Seq(AgentFinding)
      /\ confirmed(k) \in SUBSET Fp /\ regressed(k) \in SUBSET Fp
  BY ConstantsAssumption DEF TypeOK, Request, confirmed, regressed
<1>2. a \in SUBSET Row /\ v \in Blocking
  BY <1>1, FinalType, VerdictType
<1>3. v = "block" => \E x \in found[k] \cup a : ~x.sup /\ x.fp \in Blockers
  BY <1>1, VerdictJustified
<1>4. CreateDraft(k, muted) = [det |-> found[k], gone |-> {}, agent |-> a,
        status |-> "completed", blocking |-> v, steps |-> <<p, f, w>>]
  BY DEF CreateDraft
<1> HIDE DEF a, v
<1>5. /\ p \in Step /\ p.seq = 1 /\ p.kind = "plan"
      /\ f \in Step /\ f.seq = 2 /\ f.kind = "findings"
      /\ w \in Step /\ w.seq = 3 /\ w.kind = "verdict"
  <2>1. Cardinality(confirmed(k)) \in Nat /\ Cardinality(regressed(k)) \in Nat
    BY <1>1, FpsFinite
  <2>2. p \in Step /\ f \in Step /\ w \in Step
    BY <1>2, <2>1, StepTypes
  <2>3. QED
    BY <2>2 DEF PlanStep, _findings_step, VerdictStep
<1>6. /\ f.n = Cardinality({x \in a : ~x.sup})
      /\ f.m = Cardinality({x \in a : x.sup})
  BY DEF _findings_step
<1> HIDE DEF p, f, w
<1>7. <<p, f, w>> \in Seq(Step) /\ DOMAIN <<p, f, w>> = 1..3
  BY <1>5
<1>8. CreateDraft(k, muted) \in Draft
  BY <1>1, <1>2, <1>4, <1>7 DEF Draft
<1>9. Opened(k)' = r
  BY <1>4 DEF Opened
<1>10. r \in Review
  BY <1>1, <1>2, <1>7 DEF Review
<1>11. Numbered(r)
  BY <1>5, <1>7 DEF Numbered
<1>12. FindingsSteps(r) = {2}
  BY <1>5, <1>7 DEF FindingsSteps
<1>13. Accounted(r)
  <2>1. r.agent = a /\ r.steps[2] = f
    BY <1>7
  <2>2. r.steps[2].n = Cardinality({x \in r.agent : ~x.sup})
    BY <2>1, <1>6, Zenon
  <2>3. r.steps[2].m = Cardinality({x \in r.agent : x.sup})
    BY <2>1, <1>6, Zenon
  <2> HIDE DEF r
  <2>4. QED
    BY <2>2, <2>3, <1>12 DEF Accounted
<1>14. Justified(r)
  BY <1>3 DEF Justified
<1>15. QED
  BY <1>8, <1>9, <1>10, <1>11, <1>13, <1>14 DEF Good

\* submit replaces the agent's rows and adds two steps to the trail: whatever the
\* trail held, its newest "findings" step is the one of this submission.
LEMMA SubmitGood ==
  ASSUME TypeOK, NEW k \in Keys, NEW muted, draft'[k] = SubmitDraft(k, muted),
         NEW s, s = reviews[req[k].review], Good(s)
  PROVE  draft'[k] \in Draft /\ Good(Rewritten(k, s)')
<1> DEFINE a == apply_dispositions(merge(s.det, capped(req[k].sub)), muted)
           v == compute_verdict(apply_dispositions(s.det, muted) \cup a)
           n == Len(s.steps)
           again == s.status = "completed"
           f == _findings_step(n + 1, a, again)
           w == VerdictStep(n + 2, v)
           t == <<f, w>>
           r == [user |-> s.user, status |-> "completed", blocking |-> v,
                 det |-> s.det, agent |-> a, steps |-> s.steps \o t]
<1>1. /\ s \in Review /\ s.det \in SUBSET Row /\ s.agent \in SUBSET Row
      /\ s.steps \in Seq(Step) /\ s.user \in Users /\ req[k].sub \in Seq(AgentFinding)
  BY DEF TypeOK, Request, Good, Review
<1>2. a \in SUBSET Row /\ v \in Blocking
  BY <1>1, FinalType, VerdictType
<1>3. v = "block" => \E x \in s.det \cup a : ~x.sup /\ x.fp \in Blockers
  BY <1>1, VerdictJustified
<1>4. n \in Nat /\ DOMAIN s.steps = 1..n /\ \A i \in DOMAIN s.steps : s.steps[i].seq = i
  BY <1>1, LenProperties DEF Good, Numbered
<1>5. max_seq(s.steps) = n
  BY <1>1, <1>4, MaxSeqIsLen
<1>6. SubmitDraft(k, muted) = [det |-> {}, gone |-> s.agent, agent |-> a,
        status |-> "completed", blocking |-> v, steps |-> t]
  BY <1>5 DEF SubmitDraft
<1> HIDE DEF a, v, n
<1>7. /\ f \in Step /\ f.seq = n + 1 /\ f.kind = "findings"
      /\ w \in Step /\ w.seq = n + 2 /\ w.kind = "verdict"
  <2>1. again \in BOOLEAN /\ n + 1 \in Nat /\ n + 2 \in Nat
    BY <1>4
  <2> HIDE DEF again
  <2>2. f \in Step /\ w \in Step
    BY <1>2, <2>1, StepTypes
  <2>3. QED
    BY <2>2 DEF _findings_step, VerdictStep
<1>8. /\ f.n = Cardinality({x \in a : ~x.sup})
      /\ f.m = Cardinality({x \in a : x.sup})
  BY DEF _findings_step
<1> HIDE DEF f, w
<1>9. t \in Seq(Step) /\ Len(t) = 2 /\ t[1] = f /\ t[2] = w
  BY <1>7
<1>10. SubmitDraft(k, muted) \in Draft
  BY <1>1, <1>2, <1>6, <1>9 DEF Draft
<1>11. Rewritten(k, s)' = r
  <2>1. s = [user |-> s.user, status |-> s.status, blocking |-> s.blocking,
             det |-> s.det, agent |-> s.agent, steps |-> s.steps]
    BY <1>1 DEF Review
  <2>2. /\ draft'[k].gone = s.agent /\ draft'[k].agent = a /\ draft'[k].steps = t
        /\ draft'[k].status = "completed" /\ draft'[k].blocking = v
    BY <1>6
  <2>3. (s.agent \ s.agent) \cup a = a
    OBVIOUS
  <2>4. Rewritten(k, s)' = [s EXCEPT !.agent = a, !.steps = s.steps \o t,
                                     !.status = "completed", !.blocking = v]
    BY <2>1, <2>2, <2>3 DEF Rewritten
  <2>5. QED
    BY <2>1, <2>4
<1>12. /\ s.steps \o t \in Seq(Step)
       /\ DOMAIN (s.steps \o t) = 1..(n + 2)
       /\ (s.steps \o t)[n + 1] = f /\ (s.steps \o t)[n + 2] = w
       /\ \A i \in DOMAIN (s.steps \o t) : (s.steps \o t)[i].seq = i
  <2>1. \A i \in 1..Len(t) : t[i].seq = n + i
    BY <1>4, <1>7, <1>9
  <2>2. Len(t) = 2 /\ t[1] = f /\ t[2] = w /\ t \in Seq(Step)
    BY <1>9
  <2> HIDE DEF t
  <2>3. /\ s.steps \o t \in Seq(Step)
        /\ DOMAIN (s.steps \o t) = 1..(n + Len(t))
        /\ \A i \in 1..Len(t) : (s.steps \o t)[n + i] = t[i]
        /\ \A i \in DOMAIN (s.steps \o t) : (s.steps \o t)[i].seq = i
    BY <2>1, <2>2, <1>1, <1>4, TrailExtended DEF n
  <2>4. 1 \in 1..Len(t) /\ 2 \in 1..Len(t)
    BY <2>2
  <2>5. (s.steps \o t)[n + 1] = t[1] /\ (s.steps \o t)[n + 2] = t[2]
    BY <2>3, <2>4, Zenon
  <2>6. QED
    BY <2>2, <2>3, <2>5
<1>13. r \in Review
  BY <1>1, <1>2, <1>12 DEF Review
<1>14. Numbered(r)
  BY <1>12 DEF Numbered
<1>15. r.agent = a /\ r.steps[n + 1] = f /\ r.steps[n + 2] = w /\ DOMAIN r.steps = 1..(n + 2)
  BY <1>12
<1>16. Justified(r)
  BY <1>3 DEF Justified
<1>17. Accounted(r)
  <2>1. /\ r.steps[n + 1].n = Cardinality({x \in r.agent : ~x.sup})
        /\ r.steps[n + 1].m = Cardinality({x \in r.agent : x.sup})
    <3>1. r.steps[n + 1].n = Cardinality({x \in r.agent : ~x.sup})
      BY <1>15, <1>8, Zenon
    <3>2. r.steps[n + 1].m = Cardinality({x \in r.agent : x.sup})
      BY <1>15, <1>8, Zenon
    <3>3. QED
      BY <3>1, <3>2
  <2> HIDE DEF r
  <2>2. n + 1 \in FindingsSteps(r)
    BY <1>15, <1>7, <1>4 DEF FindingsSteps
  <2>3. ASSUME NEW i \in FindingsSteps(r), \A j \in FindingsSteps(r) : j <= i
        PROVE  i = n + 1
    <3>1. i \in 1..(n + 2) /\ n + 1 <= i /\ i # n + 2
      BY <2>2, <2>3, <1>15, <1>7, <1>4 DEF FindingsSteps
    <3>2. QED
      BY <3>1, <1>4
  <2>4. QED
    BY <2>1, <2>2, <2>3 DEF Accounted
<1>18. QED
  BY <1>6, <1>10, <1>11, <1>13, <1>14, <1>16, <1>17 DEF Good

\* respond adds one step, which is not a submission, and keeps the rows.
LEMMA RespondGood ==
  ASSUME TypeOK, NEW k \in Keys, NEW muted, draft'[k] = RespondDraft(k, muted),
         NEW s, s = reviews[req[k].review], Good(s)
  PROVE  draft'[k] \in Draft /\ Good(Rewritten(k, s)')
<1> DEFINE a == apply_dispositions(s.det \cup s.agent, muted)
           v == compute_verdict(a)
           n == Len(s.steps)
           m == Cardinality({x \in a : x.sup})
           p == ResponsesStep(n + 1, Len(req[k].batch), m)
           t == <<p>>
           r == [user |-> s.user, status |-> "completed", blocking |-> v,
                 det |-> s.det, agent |-> s.agent, steps |-> s.steps \o t]
<1>1. /\ s \in Review /\ s.det \in SUBSET Row /\ s.agent \in SUBSET Row
      /\ s.steps \in Seq(Step) /\ s.user \in Users /\ req[k].batch \in Seq(Response)
  BY DEF TypeOK, Request, Good, Review
<1>2. a \in SUBSET Row /\ v \in Blocking
  BY <1>1, ApplyType, VerdictType
<1>3. v = "block" => \E x \in s.det \cup s.agent : ~x.sup /\ x.fp \in Blockers
  <2>1. s.det \cup s.agent \in SUBSET Row /\ a \cup {} = a
    BY <1>1
  <2>2. v = "block" => \E x \in (s.det \cup s.agent) \cup {} : ~x.sup /\ x.fp \in Blockers
    BY <2>1, VerdictJustified
  <2>3. QED
    BY <2>2
<1>4. n \in Nat /\ DOMAIN s.steps = 1..n /\ \A i \in DOMAIN s.steps : s.steps[i].seq = i
  BY <1>1, LenProperties DEF Good, Numbered
<1>5. max_seq(s.steps) = n
  BY <1>1, <1>4, MaxSeqIsLen
<1>6. RespondDraft(k, muted) = [det |-> {}, gone |-> {}, agent |-> {},
        status |-> "completed", blocking |-> v, steps |-> t]
  BY <1>5 DEF RespondDraft
<1>7. p \in Step /\ p.seq = n + 1 /\ p.kind = "responses"
  <2>1. Len(req[k].batch) \in Nat /\ n + 1 \in Nat
    BY <1>1, <1>4, LenProperties
  <2>2. {x \in a : x.sup} \in SUBSET Row
    BY <1>2
  <2>3. m \in Nat
    BY <2>2, RowsFinite
  <2> HIDE DEF m
  <2>4. QED
    BY <2>1, <2>3 DEF ResponsesStep, Step, Blocking
<1> HIDE DEF a, v, n, p
<1>8. t \in Seq(Step) /\ Len(t) = 1 /\ t[1] = p
  BY <1>7
<1>9. RespondDraft(k, muted) \in Draft
  BY <1>2, <1>6, <1>8 DEF Draft
<1>10. Rewritten(k, s)' = r
  <2>1. s = [user |-> s.user, status |-> s.status, blocking |-> s.blocking,
             det |-> s.det, agent |-> s.agent, steps |-> s.steps]
    BY <1>1 DEF Review
  <2>2. /\ draft'[k].gone = {} /\ draft'[k].agent = {} /\ draft'[k].steps = t
        /\ draft'[k].status = "completed" /\ draft'[k].blocking = v
    BY <1>6
  <2>3. (s.agent \ {}) \cup {} = s.agent
    OBVIOUS
  <2>4. Rewritten(k, s)' = [s EXCEPT !.agent = s.agent, !.steps = s.steps \o t,
                                     !.status = "completed", !.blocking = v]
    BY <2>1, <2>2, <2>3 DEF Rewritten
  <2>5. QED
    BY <2>1, <2>4
<1>11. /\ s.steps \o t \in Seq(Step)
       /\ DOMAIN (s.steps \o t) = 1..(n + 1)
       /\ (s.steps \o t)[n + 1] = p
       /\ \A i \in 1..n : (s.steps \o t)[i] = s.steps[i]
       /\ \A i \in DOMAIN (s.steps \o t) : (s.steps \o t)[i].seq = i
  <2>1. \A i \in 1..Len(t) : t[i].seq = n + i
    BY <1>4, <1>7, <1>8
  <2>2. Len(t) = 1 /\ t[1] = p /\ t \in Seq(Step) /\ 1 \in 1..Len(t)
    BY <1>8
  <2> HIDE DEF t
  <2>3. /\ s.steps \o t \in Seq(Step)
        /\ DOMAIN (s.steps \o t) = 1..(n + Len(t))
        /\ \A i \in 1..n : (s.steps \o t)[i] = s.steps[i]
        /\ \A i \in 1..Len(t) : (s.steps \o t)[n + i] = t[i]
        /\ \A i \in DOMAIN (s.steps \o t) : (s.steps \o t)[i].seq = i
    BY <2>1, <2>2, <1>1, <1>4, TrailExtended DEF n
  <2>4. (s.steps \o t)[n + 1] = t[1]
    BY <2>2, <2>3, Zenon
  <2>5. QED
    BY <2>2, <2>3, <2>4
<1>12. r \in Review
  BY <1>1, <1>2, <1>11 DEF Review
<1>13. Numbered(r)
  BY <1>11 DEF Numbered
<1>14. Justified(r)
  BY <1>3 DEF Justified
<1>15. Accounted(r)
  <2>1. r.agent = s.agent /\ \A i \in 1..n : r.steps[i] = s.steps[i]
    BY <1>11
  <2>2. DOMAIN r.steps = 1..(n + 1) /\ r.steps[n + 1].kind = "responses"
    BY <1>11, <1>7
  <2> HIDE DEF r
  <2>3. FindingsSteps(r) = FindingsSteps(s)
    <3>1. \A i \in FindingsSteps(r) : i \in 1..(n + 1) /\ i # n + 1
      BY <2>2 DEF FindingsSteps
    <3>2. \A i \in FindingsSteps(r) : i \in 1..n
      BY <3>1, <1>4
    <3>3. 1..n \subseteq 1..(n + 1)
      BY <1>4
    <3>4. QED
      BY <2>1, <2>2, <3>2, <3>3, <1>4 DEF FindingsSteps
  <2>4. \A i \in FindingsSteps(r) : r.steps[i] = s.steps[i]
    BY <2>1, <2>3, <1>4 DEF FindingsSteps
  <2>5. Accounted(s)
    BY DEF Good
  <2>6. QED
    BY <2>1, <2>3, <2>4, <2>5, Zenon DEF Accounted
<1>16. QED
  BY <1>6, <1>9, <1>10, <1>12, <1>13, <1>14, <1>15 DEF Good
----------------------------------------------------------------------------
(* Each action keeps the invariant                                         *)

Others(k) ==
  \A j \in Keys \ {k} : /\ pc'[j] = pc[j] /\ req'[j] = req[j] /\ held'[j] = held[j]
                        /\ at'[j] = at[j] /\ draft'[j] = draft[j]

\* A step of k that leaves the reviews and the other keys alone is safe when k
\* itself stays where its request can be and takes no lock another key has.
LEMMA KeyStep ==
  ASSUME Inv, TypeOK', NEW k \in Keys, reviews' = reviews, Others(k),
         held'[k] = 0 \/ \A j \in Keys \ {k} : held[j] # held'[k],
         RequestFits(k)', HeldFits(k)', DraftFits(k)'
  PROVE  Inv'
<1>1. ASSUME NEW j \in Keys PROVE RequestFits(j)' /\ HeldFits(j)' /\ DraftFits(j)'
  <2>1. CASE j = k
    BY <2>1
  <2>2. CASE j # k
    <3>1. pc'[j] = pc[j] /\ req'[j] = req[j] /\ held'[j] = held[j] /\ at'[j] = at[j] /\ draft'[j] = draft[j]
      BY <2>2 DEF Others
    <3>2. RequestFits(j) /\ HeldFits(j) /\ DraftFits(j)
      BY DEF Inv
    <3>3. RequestFits(j)' /\ HeldFits(j)'
      BY <3>1, <3>2 DEF RequestFits, HeldFits
    <3>4. Opened(j)' = Opened(j)
      BY <3>1 DEF Opened
    <3>5. Rewritten(j, reviews[req[j].review])' = Rewritten(j, reviews[req[j].review])
      BY <3>1 DEF Rewritten
    <3>6. DraftFits(j)'
      BY <3>1, <3>2, <3>4, <3>5 DEF DraftFits
    <3>7. QED
      BY <3>3, <3>6
  <2>3. QED
    BY <2>1, <2>2
<1>2. ASSUME NEW i \in Keys, NEW j \in Keys, i # j, held'[i] = held'[j] PROVE held'[i] = 0
  <2>1. CASE i # k /\ j # k
    BY <1>2, <2>1 DEF Others, Inv, Exclusive
  <2>2. CASE i = k \/ j = k
    BY <1>2, <2>2 DEF Others
  <2>3. QED
    BY <2>1, <2>2
<1>3. Exclusive'
  BY <1>2 DEF Exclusive
<1>4. ReviewsGood'
  BY DEF Inv, ReviewsGood
<1>5. QED
  BY <1>1, <1>3, <1>4 DEF Inv

\* A request arrives: any key that is idle holds nothing.
LEMMA BeginInv ==
  ASSUME Inv, NEW k \in Keys, NEW r \in Request, NEW where, Begin(k, r, where),
         \/ where = "examine" /\ r.kind \in Opening \cup {"plan"}
         \/ where = "lock" /\ r.kind \in Rewriting /\ r.review \in 1..Len(reviews)
  PROVE  Inv'
<1>1. TypeOK /\ RequestFits(k) /\ HeldFits(k) /\ pc[k] = "idle" /\ req[k].kind = "none"
  BY DEF Inv, RequestFits, Begin
<1>2. held[k] = 0
  BY <1>1 DEF HeldFits, Rewriting
<1>3. where \in {"examine", "lock"}
  OBVIOUS
<1> DEFINE s == [r EXCEPT !.before = disp]
<1>3a. s \in Request /\ s.kind = r.kind /\ s.review = r.review /\ req' = [req EXCEPT ![k] = s]
  BY <1>1 DEF Begin, TypeOK, Request
<1> HIDE DEF s
<1>4. TypeOK'
  <2>1. served' \in 0..MaxRequests
    BY <1>1, ConstantsAssumption DEF TypeOK, Begin
  <2>2. pc' \in [Keys -> PC] /\ req' \in [Keys -> Request]
    BY <1>1, <1>3, <1>3a DEF TypeOK, Begin, PC
  <2>3. QED
    BY <1>1, <2>1, <2>2 DEF TypeOK, Begin, db
<1>5. /\ pc'[k] = where /\ req'[k] = s /\ held'[k] = 0 /\ reviews' = reviews
      /\ Others(k)
  BY <1>1, <1>2, <1>3a DEF TypeOK, Begin, db, Others
<1>6. RequestFits(k)' /\ HeldFits(k)' /\ DraftFits(k)'
  BY <1>3a, <1>5 DEF RequestFits, HeldFits, DraftFits, Opening, Rewriting
<1>7. QED
  BY <1>4, <1>5, <1>6, KeyStep

\* What a transaction leaves behind when it ends, committed or not.
LEMMA ReleaseFacts ==
  ASSUME TypeOK, NEW k \in Keys, Release(k)
  PROVE  /\ pc' \in [Keys -> PC] /\ req' \in [Keys -> Request] /\ held' \in [Keys -> Nat]
         /\ mine' \in [Keys -> SUBSET DispRow] /\ todo' \in [Keys -> SUBSET Nat]
         /\ found' \in [Keys -> SUBSET Row] /\ claims' \in [Keys -> SUBSET Fp]
         /\ at' \in [Keys -> Nat] /\ draft' \in [Keys -> Draft]
         /\ pc'[k] = "idle" /\ req'[k] = NoRequest /\ held'[k] = 0
         /\ Others(k)
<1>1. NoRequest \in Request /\ NoDraft \in Draft
  BY EmptySeq DEF NoRequest, NoDraft, Request, Draft, Blocking
<1>2. QED
  BY <1>1 DEF TypeOK, Release, PC, Others

\* A rollback gives the locks back and changes nothing else.
LEMMA RollbackInv ==
  ASSUME Inv, NEW k \in Keys, Rollback(k)
  PROVE  Inv'
<1>1. TypeOK /\ Release(k) /\ UNCHANGED <<reviews, disp, nextRow, served>>
  BY DEF Inv, Rollback, db
<1>2. TypeOK'
  BY <1>1, ReleaseFacts DEF TypeOK
<1>3. RequestFits(k)' /\ HeldFits(k)' /\ DraftFits(k)'
  BY <1>1, ReleaseFacts DEF RequestFits, HeldFits, DraftFits, NoRequest, Opening, Rewriting
<1>4. QED
  BY <1>1, <1>2, <1>3, ReleaseFacts, KeyStep

\* The rows a statement sees are rows.
LEMMA VisibleType ==
  ASSUME TypeOK, NEW k \in Keys
  PROVE  /\ Visible(k) \in SUBSET DispRow
         /\ _standing(k) \in SUBSET DispRow
         /\ active_fixed(k) \in SUBSET Fp
         /\ \A fps : Targets(k, fps) \in SUBSET Nat
<1>1. Visible(k) \in SUBSET DispRow
  BY DEF TypeOK, Visible
<1>2. _standing(k) \in SUBSET DispRow
  BY <1>1 DEF _standing
<1>3. QED
  BY <1>1, <1>2 DEF active_fixed, Targets, DispRow

\* An UPDATE that starts takes its request to where its kind may be.
LEMMA UpdateInv ==
  ASSUME Inv, NEW k \in Keys, NEW fps, NEW waiting, NEW after,
         Update(k, fps, waiting, after),
         \/ pc[k] = "confirm" /\ waiting = "confirming" /\ after = "revoke"
         \/ pc[k] = "revoke" /\ waiting = "revoking" /\ after = "rule"
         \/ pc[k] = "answer" /\ waiting = "answering" /\ after = "insert"
  PROVE  Inv'
<1>1. TypeOK /\ RequestFits(k) /\ HeldFits(k)
  BY DEF Inv
<1>2. /\ todo' \in [Keys -> SUBSET Nat] /\ pc' \in [Keys -> PC]
      /\ pc'[k] \in {waiting, after}
      /\ \A j \in Keys \ {k} : pc'[j] = pc[j]
      /\ UNCHANGED <<reviews, disp, nextRow, served, req, held, mine, found, claims, at, draft>>
  BY <1>1, VisibleType DEF TypeOK, Update, PC, db
<1>3. TypeOK'
  BY <1>1, <1>2 DEF TypeOK
<1>4. Others(k)
  BY <1>2 DEF Others
<1>5. RequestFits(k)' /\ HeldFits(k)' /\ DraftFits(k)'
  BY <1>1, <1>2 DEF RequestFits, HeldFits, DraftFits
<1>6. held'[k] = 0 \/ \A j \in Keys \ {k} : held[j] # held'[k]
  BY <1>2 DEF Inv, Exclusive
<1>7. QED
  BY <1>2, <1>3, <1>4, <1>5, <1>6, KeyStep

\* What the rules found becomes rows, marked by the answers that stand.
LEMMA MarkedType ==
  ASSUME NEW F \in SUBSET Fp, NEW muted
  PROVE  {[fp |-> f, sup |-> f \in muted] : f \in F} \in SUBSET Row
<1>1. ASSUME NEW f \in F PROVE [fp |-> f, sup |-> f \in muted] \in Row
  <2> DEFINE b == f \in muted
  <2>1. b \in BOOLEAN
    OBVIOUS
  <2> HIDE DEF b
  <2>2. [fp |-> f, sup |-> b] \in Row
    BY <2>1 DEF Row
  <2>3. QED
    BY <2>2 DEF b
<1>2. QED
  BY <1>1

\* The deterministic half keeps the invariant: rows of the right type, and a
\* plan that settles nothing goes straight to its commit.
LEMMA ExamineInv ==
  ASSUME Inv, NEW k \in Keys, _examine(k) \/ _reconcile_fixed(k)
  PROVE  Inv'
<1>1. TypeOK /\ RequestFits(k) /\ HeldFits(k)
  BY DEF Inv
<1>2. UNCHANGED <<reviews, disp, nextRow, served, req, held, mine, todo, at, draft>>
  BY DEF _examine, _reconcile_fixed, db
<1>3. /\ found' \in [Keys -> SUBSET Row] /\ claims' \in [Keys -> SUBSET Fp]
      /\ pc' \in [Keys -> PC]
  <2>1. CASE _examine(k)
    <3>1. PICK muted \in active(k, req[k].fps) :
            found' = [found EXCEPT ![k] =
              {[fp |-> f, sup |-> f \in muted] : f \in req[k].fps}]
      BY <2>1 DEF _examine
    <3>2. req[k].fps \in SUBSET Fp
      BY <1>1 DEF TypeOK, Request
    <3>3. {[fp |-> f, sup |-> f \in muted] : f \in req[k].fps} \in SUBSET Row
      BY <3>2, MarkedType
    <3>4. found' \in [Keys -> SUBSET Row]
      BY <3>1, <3>3, <1>1 DEF TypeOK
    <3>5. QED
      BY <2>1, <3>4, <1>1 DEF TypeOK, _examine, PC
  <2>2. CASE _reconcile_fixed(k)
    BY <2>2, <1>1, VisibleType DEF TypeOK, _reconcile_fixed, PC
  <2>3. QED
    BY <2>1, <2>2
<1>4. TypeOK'
  BY <1>1, <1>2, <1>3 DEF TypeOK
<1>5. Others(k) /\ pc'[k] \in {"reconcile", "confirm", "commit"}
  BY <1>1, <1>2 DEF Others, TypeOK, _examine, _reconcile_fixed
<1>6. RequestFits(k)' /\ HeldFits(k)' /\ DraftFits(k)'
  <2>1. CASE _examine(k)
    <3>1. pc[k] = "examine" /\ pc'[k] = "reconcile"
      BY <2>1, <1>1 DEF TypeOK, _examine
    <3>2. QED
      BY <3>1, <1>1, <1>2 DEF RequestFits, HeldFits, DraftFits, Opening, Rewriting
  <2>2. CASE _reconcile_fixed(k)
    <3>1. /\ pc[k] = "reconcile"
          /\ pc'[k] = IF req[k].kind \in Opening THEN "confirm" ELSE "commit"
      BY <2>2, <1>1 DEF TypeOK, _reconcile_fixed, settle_fixed, Opening
    <3>2. QED
      BY <3>1, <1>1, <1>2 DEF RequestFits, HeldFits, DraftFits, Opening, Rewriting
  <2>3. QED
    BY <2>1, <2>2
<1>7. held'[k] = 0 \/ \A j \in Keys \ {k} : held[j] # held'[k]
  BY <1>2 DEF Inv, Exclusive
<1>8. QED
  BY <1>2, <1>4, <1>5, <1>6, <1>7, KeyStep

\* An UPDATE goes on row by row and ends where its request continues.
LEMMA SettleInv ==
  ASSUME Inv, NEW k \in Keys, _settle(k)
  PROVE  Inv'
<1>1. TypeOK /\ RequestFits(k) /\ HeldFits(k)
  BY DEF Inv
<1>2. UNCHANGED <<reviews, disp, nextRow, served, req, held, found, claims, at, draft>>
  BY DEF _settle, db
<1>3. PICK d \in Visible(k) :
        /\ todo' = [todo EXCEPT ![k] = @ \ {d.id}]
        /\ mine' = [mine EXCEPT ![k] =
             IF d.revoked THEN @ ELSE {x \in @ : x.id # d.id} \cup {NewVersion(k, d)}]
        /\ pc' = [pc EXCEPT ![k] = IF todo[k] = {d.id} THEN AfterUpdate(k) ELSE @]
  BY DEF _settle
<1>4. d \in DispRow /\ NewVersion(k, d) \in DispRow
  <2>1. d \in DispRow
    BY <1>1, VisibleType
  <2>2. QED
    BY <2>1 DEF NewVersion, DispRow, Disposition
<1>5. mine' \in [Keys -> SUBSET DispRow] /\ todo' \in [Keys -> SUBSET Nat]
  <2>1. mine[k] \in SUBSET DispRow /\ todo[k] \in SUBSET Nat
    BY <1>1 DEF TypeOK
  <2>2. (IF d.revoked THEN mine[k] ELSE {x \in mine[k] : x.id # d.id} \cup {NewVersion(k, d)})
          \in SUBSET DispRow
    BY <2>1, <1>4
  <2> HIDE DEF NewVersion
  <2>3. QED
    BY <1>1, <1>3, <2>1, <2>2 DEF TypeOK
<1>6. /\ pc[k] \in {"confirming", "revoking", "answering"}
      /\ pc'[k] \in {pc[k], AfterUpdate(k)}
      /\ AfterUpdate(k) = IF pc[k] = "confirming" THEN "revoke"
                          ELSE IF pc[k] = "revoking" THEN "rule" ELSE "insert"
  BY <1>1, <1>3 DEF TypeOK, _settle, AfterUpdate
<1>7. pc' \in [Keys -> PC]
  BY <1>1, <1>3, <1>6 DEF TypeOK, PC
<1>8. TypeOK'
  BY <1>1, <1>2, <1>5, <1>7 DEF TypeOK
<1>9. Others(k)
  BY <1>1, <1>2, <1>3 DEF Others, TypeOK
<1>10. RequestFits(k)' /\ HeldFits(k)' /\ DraftFits(k)'
  BY <1>1, <1>2, <1>6 DEF RequestFits, HeldFits, DraftFits, Opening, Rewriting
<1>11. held'[k] = 0 \/ \A j \in Keys \ {k} : held[j] # held'[k]
  BY <1>2 DEF Inv, Exclusive
<1>12. QED
  BY <1>2, <1>8, <1>9, <1>10, <1>11, KeyStep

\* owner_of(for_update=True): the lock is taken when nobody else has it, and
\* whoever is not the owner gets nothing.
LEMMA OwnReviewInv ==
  ASSUME Inv, NEW k \in Keys, _own_review(k)
  PROVE  Inv'
<1>1. TypeOK /\ RequestFits(k) /\ HeldFits(k)
  BY DEF Inv
<1>2. CASE reviews[req[k].review].user # Owner[k]
  BY <1>2, RollbackInv DEF _own_review
<1>3. CASE reviews[req[k].review].user = Owner[k]
  <2>1. /\ pc[k] = "lock" /\ ReviewHolders(k) = {}
        /\ held' = [held EXCEPT ![k] = req[k].review]
        /\ at' = [at EXCEPT ![k] = 1]
        /\ pc' = [pc EXCEPT ![k] = IF req[k].batch = <<>> THEN "rule" ELSE "answer"]
        /\ UNCHANGED <<reviews, disp, nextRow, served, req, mine, todo, found, claims, draft>>
    BY <1>3 DEF _own_review, db
  <2>2. req[k].kind \in Rewriting /\ req[k].review \in Nat /\ req[k].batch \in Seq(Response)
    BY <1>1, <2>1 DEF RequestFits, TypeOK, Request
  <2>3. held' \in [Keys -> Nat] /\ at' \in [Keys -> Nat] /\ pc' \in [Keys -> PC]
    BY <1>1, <2>1, <2>2 DEF TypeOK, PC
  <2>4. TypeOK'
    BY <1>1, <2>1, <2>3 DEF TypeOK
  <2>5. Others(k)
    BY <1>1, <2>1 DEF Others, TypeOK
  <2>6. /\ pc'[k] = IF req[k].batch = <<>> THEN "rule" ELSE "answer"
        /\ at'[k] = 1 /\ held'[k] = req[k].review
    BY <1>1, <2>1 DEF TypeOK
  <2>7. req[k].batch # <<>> => 1 \in 1..Len(req[k].batch)
    BY <2>2, EmptySeq, LenProperties
  <2>8. RequestFits(k)' /\ HeldFits(k)' /\ DraftFits(k)'
    BY <1>1, <2>1, <2>2, <2>6, <2>7 DEF RequestFits, HeldFits, DraftFits, Opening, Rewriting
  <2>9. \A j \in Keys \ {k} : held[j] # held'[k]
    BY <2>1, <2>6 DEF ReviewHolders
  <2>10. QED
    BY <2>1, <2>4, <2>5, <2>8, <2>9, KeyStep
<1>4. QED
  BY <1>2, <1>3

\* The INSERT of one answer: a row with a new id, and on to the next response.
LEMMA InsertInv ==
  ASSUME Inv, NEW k \in Keys, insert(k)
  PROVE  Inv'
<1>1. TypeOK /\ RequestFits(k) /\ HeldFits(k)
  BY DEF Inv
<1> DEFINE r == req[k].batch[at[k]]
           row == [id |-> nextRow, fp |-> r.fp, disp |-> r.disp, revoked |-> FALSE, by |-> Owner[k],
                   note |-> r.note, on |-> held[k]]
<1>2. /\ pc[k] = "insert"
      /\ mine' = [mine EXCEPT ![k] = @ \cup {row}]
      /\ nextRow' = nextRow + 1
      /\ at' = [at EXCEPT ![k] = @ + 1]
      /\ pc' = [pc EXCEPT ![k] = IF at[k] = Len(req[k].batch) THEN "rule" ELSE "answer"]
      /\ UNCHANGED <<reviews, disp, served, req, held, todo, found, claims, draft>>
  BY DEF insert
<1>3. /\ req[k].batch \in Seq(Response) /\ at[k] \in 1..Len(req[k].batch)
      /\ Len(req[k].batch) \in Nat /\ req[k].kind \in Rewriting
  BY <1>1, <1>2, LenProperties DEF RequestFits, TypeOK, Request
<1>4. row \in DispRow
  <2>1. r \in Response
    BY <1>3, ElementOfSeq
  <2>2. QED
    BY <2>1, <1>1, ConstantsAssumption DEF TypeOK, Response, DispRow, Disposition
<1> HIDE DEF r, row
<1>5. /\ mine' \in [Keys -> SUBSET DispRow] /\ nextRow' \in Nat \ {0}
      /\ at' \in [Keys -> Nat] /\ pc' \in [Keys -> PC]
  BY <1>1, <1>2, <1>4 DEF TypeOK, PC
<1>6. TypeOK'
  BY <1>1, <1>2, <1>5 DEF TypeOK
<1>7. Others(k)
  BY <1>1, <1>2 DEF Others, TypeOK
<1>8. /\ pc'[k] = IF at[k] = Len(req[k].batch) THEN "rule" ELSE "answer"
      /\ at'[k] = at[k] + 1
  BY <1>1, <1>2 DEF TypeOK
<1>9. RequestFits(k)' /\ HeldFits(k)' /\ DraftFits(k)'
  BY <1>1, <1>2, <1>3, <1>8 DEF RequestFits, HeldFits, DraftFits, Opening, Rewriting
<1>10. held'[k] = 0 \/ \A j \in Keys \ {k} : held[j] # held'[k]
  BY <1>2 DEF Inv, Exclusive
<1>11. QED
  BY <1>2, <1>6, <1>7, <1>9, <1>10, KeyStep

\* The verdict: each kind of request drafts a good review.
LEMMA RuleInv ==
  ASSUME Inv, NEW k \in Keys, Rule(k)
  PROVE  Inv'
<1>1. TypeOK /\ RequestFits(k) /\ HeldFits(k) /\ ReviewsGood
  BY DEF Inv
<1> PICK muted \in active(k, Asked(k)) :
      draft' = [draft EXCEPT ![k] =
        CASE req[k].kind = "create"  -> CreateDraft(k, muted)
          [] req[k].kind = "submit"  -> SubmitDraft(k, muted)
          [] req[k].kind = "respond" -> RespondDraft(k, muted)
          [] OTHER                   -> PlanDraft(k)]
  BY Zenon DEF Rule
<1>2. /\ pc[k] = "rule" /\ pc' = [pc EXCEPT ![k] = "commit"]
      /\ UNCHANGED <<reviews, disp, nextRow, served, req, held, mine, todo, found, claims, at>>
  BY DEF Rule, db
<1>3. req[k].kind \in {"plan_v1", "create", "submit", "respond"}
  BY <1>1, <1>2 DEF RequestFits, Opening, Rewriting
<1>4. req[k].kind = "plan_v1" => draft'[k] = PlanDraft(k)
  BY <1>1, Zenon DEF TypeOK
<1>5. req[k].kind = "create" => draft'[k] = CreateDraft(k, muted)
  BY <1>1, Zenon DEF TypeOK
<1>6. req[k].kind = "submit" => draft'[k] = SubmitDraft(k, muted)
  BY <1>1, Zenon DEF TypeOK
<1>7. req[k].kind = "respond" => draft'[k] = RespondDraft(k, muted)
  BY <1>1, Zenon DEF TypeOK
<1>8. req[k].kind \in Rewriting => Good(reviews[req[k].review])
  BY <1>1 DEF RequestFits, ReviewsGood
<1>9. /\ draft'[k] \in Draft
      /\ req[k].kind \in Opening => Good(Opened(k)')
      /\ req[k].kind \in Rewriting => Good(Rewritten(k, reviews[req[k].review])')
  <2>1. CASE req[k].kind = "plan_v1"
    BY <2>1, <1>1, <1>4, PlanGood DEF Rewriting
  <2>2. CASE req[k].kind = "create"
    BY <2>2, <1>1, <1>5, CreateGood DEF Rewriting
  <2>3. CASE req[k].kind \in Rewriting
    <3>1. PICK s : s = reviews[req[k].review]
      OBVIOUS
    <3>2. Good(s)
      BY <2>3, <3>1, <1>8
    <3>3. draft'[k] = SubmitDraft(k, muted) \/ draft'[k] = RespondDraft(k, muted)
      BY <2>3, <1>6, <1>7 DEF Rewriting
    <3>4. draft'[k] \in Draft /\ Good(Rewritten(k, s)')
      <4>1. CASE draft'[k] = SubmitDraft(k, muted)
        BY <4>1, <3>1, <3>2, <1>1, SubmitGood
      <4>2. CASE draft'[k] = RespondDraft(k, muted)
        BY <4>2, <3>1, <3>2, <1>1, RespondGood
      <4>3. QED
        BY <3>3, <4>1, <4>2
    <3>5. Rewritten(k, reviews[req[k].review])' = Rewritten(k, s)'
      BY <3>1, <1>2 DEF Rewritten
    <3>6. QED
      BY <2>3, <3>4, <3>5 DEF Opening, Rewriting
  <2>4. QED
    BY <2>1, <2>2, <2>3, <1>3 DEF Rewriting
<1>10. draft' \in [Keys -> Draft] /\ pc' \in [Keys -> PC] /\ pc'[k] = "commit"
  <2> DEFINE d == draft'[k]
  <2>1. \E x : draft' = [draft EXCEPT ![k] = x]
    OBVIOUS
  <2>2. draft' = [draft EXCEPT ![k] = d]
    BY <2>1, <1>1 DEF TypeOK
  <2>3. d \in Draft
    BY <1>9
  <2> HIDE DEF d
  <2>4. QED
    BY <2>2, <2>3, <1>1, <1>2 DEF TypeOK, PC
<1>11. TypeOK'
  BY <1>1, <1>2, <1>10 DEF TypeOK
<1>12. Others(k)
  BY <1>1, <1>2 DEF Others, TypeOK
<1>13. RequestFits(k)' /\ HeldFits(k)'
  BY <1>1, <1>2, <1>10 DEF RequestFits, HeldFits
<1>14. DraftFits(k)'
  BY <1>2, <1>9 DEF DraftFits
<1>15. held'[k] = 0 \/ \A j \in Keys \ {k} : held[j] # held'[k]
  BY <1>2 DEF Inv, Exclusive
<1>16. QED
  BY <1>2, <1>11, <1>12, <1>13, <1>14, <1>15, KeyStep

\* The commit: what k drafted becomes a review, and what the other keys have
\* drafted stays good because none of them holds the review k rewrites.
LEMMA CommitInv ==
  ASSUME Inv, NEW k \in Keys, Commit(k)
  PROVE  Inv'
<1>1. TypeOK /\ RequestFits(k) /\ HeldFits(k) /\ DraftFits(k) /\ Exclusive /\ ReviewsGood
  BY DEF Inv
<1> DEFINE t == req[k].review
<1>2. /\ pc[k] = "commit" /\ Release(k) /\ disp' = Visible(k)
      /\ UNCHANGED <<nextRow, served>>
      /\ req[k].kind \in Opening => reviews' = Append(reviews, Opened(k))
      /\ req[k].kind \in Rewriting => reviews' = [reviews EXCEPT ![t] = Rewritten(k, reviews[t])]
      /\ req[k].kind \notin Opening \cup Rewriting => reviews' = reviews
  BY DEF Commit, Opening, Rewriting
<1>3. /\ pc' \in [Keys -> PC] /\ req' \in [Keys -> Request] /\ held' \in [Keys -> Nat]
      /\ mine' \in [Keys -> SUBSET DispRow] /\ todo' \in [Keys -> SUBSET Nat]
      /\ found' \in [Keys -> SUBSET Row] /\ claims' \in [Keys -> SUBSET Fp]
      /\ at' \in [Keys -> Nat] /\ draft' \in [Keys -> Draft]
      /\ pc'[k] = "idle" /\ req'[k] = NoRequest /\ held'[k] = 0
      /\ Others(k)
  BY <1>1, <1>2, ReleaseFacts
<1>4. reviews \in Seq(Review) /\ Len(reviews) \in Nat /\ DOMAIN reviews = 1..Len(reviews)
  BY <1>1, LenProperties DEF TypeOK
\* The sequence grows at its end or changes at t, to something good.
<1>5. /\ reviews' \in Seq(Review) /\ Len(reviews') >= Len(reviews) /\ Len(reviews') \in Nat
      /\ \A i \in 1..Len(reviews) : ~(req[k].kind \in Rewriting /\ i = t) => reviews'[i] = reviews[i]
      /\ \A i \in 1..Len(reviews') : Good(reviews'[i])
  <2>1. CASE req[k].kind \in Opening
    <3> DEFINE o == Opened(k)
    <3>1. Good(o) /\ o \in Review
      BY <2>1, <1>1, <1>2 DEF DraftFits, Good
    <3> HIDE DEF o
    <3>2. /\ reviews' \in Seq(Review) /\ Len(reviews') = Len(reviews) + 1
          /\ \A i \in 1..Len(reviews) : reviews'[i] = reviews[i]
          /\ reviews'[Len(reviews) + 1] = o
      BY <2>1, <3>1, <1>2, <1>4, AppendProperties DEF o
    <3>3. \A i \in 1..Len(reviews') : i \in 1..Len(reviews) \/ i = Len(reviews) + 1
      BY <3>2, <1>4
    <3>4. \A i \in 1..Len(reviews') : Good(reviews'[i])
      BY <3>1, <3>2, <3>3, <1>1 DEF ReviewsGood
    <3>5. QED
      BY <3>2, <3>4, <1>4
  <2>2. CASE req[k].kind \in Rewriting
    <3> DEFINE o == Rewritten(k, reviews[t])
    <3>1. Good(o) /\ o \in Review /\ t \in 1..Len(reviews)
      BY <2>2, <1>1, <1>2 DEF DraftFits, Good, RequestFits
    <3> HIDE DEF o
    <3>2. reviews' = [reviews EXCEPT ![t] = o]
      BY <2>2, <1>2 DEF o
    <3>3. /\ reviews' \in Seq(Review) /\ Len(reviews') = Len(reviews)
          /\ \A i \in 1..Len(reviews) : reviews'[i] = IF i = t THEN o ELSE reviews[i]
      BY <3>1, <3>2, <1>4, ExceptSeq
    <3>4. \A i \in 1..Len(reviews') : Good(reviews'[i])
      BY <3>1, <3>3, <1>1 DEF ReviewsGood
    <3>5. QED
      BY <2>2, <3>3, <3>4, <1>4
  <2>3. CASE req[k].kind \notin Opening \cup Rewriting
    <3>1. reviews' = reviews
      BY <2>3, <1>2
    <3>2. \A i \in 1..Len(reviews) : Good(reviews[i])
      BY <1>1 DEF ReviewsGood
    <3>3. QED
      BY <3>1, <3>2, <1>4
  <2>4. QED
    BY <2>1, <2>2, <2>3
<1>6. TypeOK'
  <2>1. disp' \in SUBSET DispRow
    BY <1>1, <1>2, VisibleType
  <2>2. QED
    BY <2>1, <1>1, <1>2, <1>3, <1>5 DEF TypeOK
<1>7. ASSUME NEW j \in Keys PROVE RequestFits(j)' /\ HeldFits(j)' /\ DraftFits(j)'
  <2>1. CASE j = k
    BY <2>1, <1>3 DEF RequestFits, HeldFits, DraftFits, NoRequest, Opening, Rewriting
  <2>2. CASE j # k
    <3>1. /\ pc'[j] = pc[j] /\ req'[j] = req[j] /\ held'[j] = held[j]
          /\ at'[j] = at[j] /\ draft'[j] = draft[j]
      BY <2>2, <1>3 DEF Others
    <3>2. RequestFits(j) /\ HeldFits(j) /\ DraftFits(j)
      BY DEF Inv
    <3>3. RequestFits(j)' /\ HeldFits(j)'
      <4>1. 1..Len(reviews) \subseteq 1..Len(reviews')
        BY <1>4, <1>5
      <4>2. QED
        BY <3>1, <3>2, <4>1 DEF RequestFits, HeldFits
    <3>4. Opened(j)' = Opened(j)
      BY <3>1 DEF Opened
    <3>5. ASSUME req[j].kind \in Rewriting, pc[j] = "commit"
          PROVE  reviews'[req[j].review] = reviews[req[j].review]
      <4>1. req[j].review \in 1..Len(reviews) /\ held[j] = req[j].review
        BY <3>2, <3>5 DEF RequestFits, HeldFits
      <4>2. ~(req[k].kind \in Rewriting /\ req[j].review = t)
        <5>1. req[k].kind \in Rewriting => held[k] = t
          BY <1>1, <1>2 DEF HeldFits
        <5>2. held[j] # 0
          BY <4>1, <1>4
        <5>3. QED
          BY <5>1, <5>2, <4>1, <2>2, <1>1 DEF Exclusive
      <4>3. QED
        BY <4>1, <4>2, <1>5
    <3>6. ASSUME req[j].kind \in Rewriting, pc[j] = "commit"
          PROVE  Rewritten(j, reviews[req[j].review])' = Rewritten(j, reviews[req[j].review])
      BY <3>1, <3>5, <3>6 DEF Rewritten
    <3>7. DraftFits(j)'
      BY <3>1, <3>2, <3>4, <3>6 DEF DraftFits
    <3>8. QED
      BY <3>3, <3>7
  <2>3. QED
    BY <2>1, <2>2
<1>8. Exclusive'
  <2>1. ASSUME NEW i \in Keys, NEW j \in Keys, i # j, held'[i] = held'[j] PROVE held'[i] = 0
    <3>1. CASE i # k /\ j # k
      BY <2>1, <3>1, <1>1, <1>3 DEF Others, Exclusive
    <3>2. CASE i = k \/ j = k
      BY <2>1, <3>2, <1>3
    <3>3. QED
      BY <3>1, <3>2
  <2>2. QED
    BY <2>1 DEF Exclusive
<1>9. ReviewsGood'
  BY <1>5 DEF ReviewsGood
<1>10. QED
  BY <1>6, <1>7, <1>8, <1>9 DEF Inv
----------------------------------------------------------------------------
(* The theorems                                                            *)

\* A review already on record when the behaviour starts is a good one.
LEMMA SeededGood ==
  ASSUME NEW s \in [user : Users, fps : SUBSET Fp]
  PROVE  Good(SeededReview(s))
<1> DEFINE det == {[fp |-> a, sup |-> FALSE] : a \in s.fps}
           v == compute_verdict(det)
           p == PlanStep(1, 0, 0)
           f == _findings_step(2, {}, FALSE)
           w == VerdictStep(3, v)
           r == [user |-> s.user, status |-> "completed", blocking |-> v,
                 det |-> det, agent |-> {}, steps |-> <<p, f, w>>]
<1>1. det \in SUBSET Row /\ v \in Blocking /\ s.user \in Users
  <2>1. s.fps \in SUBSET Fp /\ s.user \in Users
    OBVIOUS
  <2>2. \A a \in s.fps : [fp |-> a, sup |-> FALSE] \in Row
    BY <2>1 DEF Row
  <2>3. det \in SUBSET Row
    BY <2>2
  <2> HIDE DEF det
  <2>4. QED
    BY <2>1, <2>3, VerdictType
<1>2. v = "block" => \E x \in det \cup {} : ~x.sup /\ x.fp \in Blockers
  BY Zenon DEF compute_verdict
<1>3. SeededReview(s) = r
  BY DEF SeededReview
<1> HIDE DEF det, v
<1>4. /\ p \in Step /\ p.seq = 1 /\ p.kind = "plan"
      /\ f \in Step /\ f.seq = 2 /\ f.kind = "findings"
      /\ w \in Step /\ w.seq = 3 /\ w.kind = "verdict"
  <2>1. p \in Step /\ f \in Step /\ w \in Step
    BY <1>1, StepTypes
  <2>2. QED
    BY <2>1 DEF PlanStep, _findings_step, VerdictStep
<1>5. /\ f.n = Cardinality({x \in {} : ~x.sup})
      /\ f.m = Cardinality({x \in {} : x.sup})
  BY DEF _findings_step
<1> HIDE DEF p, f, w
<1>6. <<p, f, w>> \in Seq(Step) /\ DOMAIN <<p, f, w>> = 1..3
  BY <1>4
<1>7. r \in Review
  BY <1>1, <1>6 DEF Review
<1>8. Numbered(r) /\ FindingsSteps(r) = {2}
  BY <1>4, <1>6 DEF Numbered, FindingsSteps
<1>9. Accounted(r)
  <2>1. r.agent = {} /\ r.steps[2] = f
    BY <1>6
  <2>2. r.steps[2].n = Cardinality({x \in r.agent : ~x.sup})
    BY <2>1, <1>5, Zenon
  <2>3. r.steps[2].m = Cardinality({x \in r.agent : x.sup})
    BY <2>1, <1>5, Zenon
  <2> HIDE DEF r
  <2>4. QED
    BY <2>2, <2>3, <1>8 DEF Accounted
<1>10. Justified(r)
  BY <1>2 DEF Justified
<1>11. QED
  BY <1>3, <1>7, <1>8, <1>9, <1>10 DEF Good

\* The invariant holds before any request.
LEMMA InitInv ==
  ASSUME Init
  PROVE  Inv
<1>1. /\ Seeded \in Seq([user : Users, fps : SUBSET Fp]) /\ Len(Seeded) \in Nat
      /\ \A i \in 1..Len(Seeded) : Seeded[i] \in [user : Users, fps : SUBSET Fp]
  BY ConstantsAssumption, LenProperties, ElementOfSeq
<1>2. \A i \in 1..Len(Seeded) : Good(SeededReview(Seeded[i]))
  BY <1>1, SeededGood
<1>3. reviews = [i \in 1..Len(Seeded) |-> SeededReview(Seeded[i])]
  BY DEF Init
<1>4. reviews \in [1..Len(Seeded) -> Review]
  BY <1>2, <1>3 DEF Good
<1>5. reviews \in Seq(Review) /\ Len(reviews) = Len(Seeded)
  <2>1. Seq(Review) = UNION {[1..n -> Review] : n \in Nat}
    BY SeqDef
  <2>2. reviews \in Seq(Review)
    BY <2>1, <1>1, <1>4
  <2>3. DOMAIN reviews = 1..Len(reviews) /\ Len(reviews) \in Nat /\ DOMAIN reviews = 1..Len(Seeded)
    BY <2>2, <1>4, LenProperties
  <2> HIDE <1>4
  <2>4. QED
    BY <2>2, <2>3, <1>1
<1>6. ReviewsGood
  BY <1>2, <1>3, <1>5 DEF ReviewsGood
<1>7. TypeOK
  <2>1. NoRequest \in Request /\ NoDraft \in Draft
    BY EmptySeq DEF NoRequest, NoDraft, Request, Draft, Blocking
  <2>2. served \in 0..MaxRequests
    BY ConstantsAssumption DEF Init
  <2>3. QED
    BY <1>5, <2>1, <2>2 DEF Init, TypeOK, PC
<1>8. ASSUME NEW k \in Keys PROVE RequestFits(k) /\ HeldFits(k) /\ DraftFits(k)
  BY DEF Init, RequestFits, HeldFits, DraftFits, NoRequest, Opening, Rewriting
<1>9. Exclusive
  BY DEF Init, Exclusive
<1>10. QED
  BY <1>6, <1>7, <1>8, <1>9 DEF Inv

\* A request that arrives with inputs of the model is a request.
LEMMA ArrivalInv ==
  ASSUME Inv, NEW k \in Keys, plan(k) \/ create_review(k) \/ submit(k) \/ respond(k)
  PROVE  Inv'
<1>1. /\ Analyses \subseteq SUBSET Fp /\ Submissions \subseteq Seq(AgentFinding)
      /\ Batches \subseteq Seq(Response)
  BY ConstantsAssumption
<1>2. <<>> \in Seq(AgentFinding) /\ <<>> \in Seq(Response)
  BY EmptySeq
<1>3. reviews \in Seq(Review) /\ DOMAIN reviews = 1..Len(reviews) /\ Len(reviews) \in Nat
  BY LenProperties DEF Inv, TypeOK
<1>4. CASE plan(k)
  <2>1. PICK kind \in {"plan", "plan_v1"}, fps \in Analyses :
          Begin(k, [NoRequest EXCEPT !.kind = kind, !.fps = fps], "examine")
    BY <1>4, Zenon DEF plan
  <2> DEFINE r == [NoRequest EXCEPT !.kind = kind, !.fps = fps]
  <2>2. r \in Request /\ r.kind = kind
    BY <1>1, <1>2 DEF NoRequest, Request
  <2>3. r.kind \in Opening \cup {"plan"}
    BY <2>2 DEF Opening
  <2>4. Begin(k, r, "examine")
    BY <2>1
  <2> HIDE DEF r
  <2>5. QED
    BY <2>2, <2>3, <2>4, BeginInv
<1>5. CASE create_review(k)
  <2>1. PICK fps \in Analyses, sub \in Submissions :
          Begin(k, [NoRequest EXCEPT !.kind = "create", !.fps = fps, !.sub = sub], "examine")
    BY <1>5, Zenon DEF create_review
  <2> DEFINE r == [NoRequest EXCEPT !.kind = "create", !.fps = fps, !.sub = sub]
  <2>2. r \in Request /\ r.kind = "create"
    BY <1>1, <1>2 DEF NoRequest, Request
  <2>3. r.kind \in Opening \cup {"plan"}
    BY <2>2 DEF Opening
  <2>4. Begin(k, r, "examine")
    BY <2>1
  <2> HIDE DEF r
  <2>5. QED
    BY <2>2, <2>3, <2>4, BeginInv
<1>6. CASE submit(k)
  <2>1. PICK i \in DOMAIN reviews, sub \in Submissions :
          Begin(k, [NoRequest EXCEPT !.kind = "submit", !.review = i, !.sub = sub], "lock")
    BY <1>6, Zenon DEF submit
  <2> DEFINE r == [NoRequest EXCEPT !.kind = "submit", !.review = i, !.sub = sub]
  <2>2. r \in Request /\ r.kind \in Rewriting /\ r.review \in 1..Len(reviews)
    <3>1. NoRequest \in Request
      BY <1>2 DEF NoRequest, Request
    <3>2. i \in 1..Len(reviews) /\ i \in Nat /\ sub \in Seq(AgentFinding)
      BY <1>1, <1>3
    <3>3. r \in Request /\ r.kind = "submit" /\ r.review = i
      BY <3>1, <3>2 DEF Request
    <3> HIDE DEF r
    <3>4. QED
      BY <3>2, <3>3 DEF Rewriting
  <2>3. Begin(k, r, "lock")
    BY <2>1
  <2> HIDE DEF r
  <2>4. QED
    BY <2>2, <2>3, BeginInv
<1>7. CASE respond(k)
  <2>1. PICK i \in DOMAIN reviews, batch \in Batches :
          Begin(k, [NoRequest EXCEPT !.kind = "respond", !.review = i, !.batch = batch], "lock")
    BY <1>7, Zenon DEF respond
  <2> DEFINE r == [NoRequest EXCEPT !.kind = "respond", !.review = i, !.batch = batch]
  <2>2. r \in Request /\ r.kind \in Rewriting /\ r.review \in 1..Len(reviews)
    <3>1. NoRequest \in Request
      BY <1>2 DEF NoRequest, Request
    <3>2. i \in 1..Len(reviews) /\ i \in Nat /\ batch \in Seq(Response)
      BY <1>1, <1>3
    <3>3. r \in Request /\ r.kind = "respond" /\ r.review = i
      BY <3>1, <3>2 DEF Request
    <3> HIDE DEF r
    <3>4. QED
      BY <3>2, <3>3 DEF Rewriting
  <2>3. Begin(k, r, "lock")
    BY <2>1
  <2> HIDE DEF r
  <2>4. QED
    BY <2>2, <2>3, BeginInv
<1>8. QED
  BY <1>4, <1>5, <1>6, <1>7

\* Every statement and every commit keeps the invariant.
LEMMA WorkInv ==
  ASSUME Inv, NEW k \in Keys, Work(k)
  PROVE  Inv'
<1>1. CASE _examine(k) \/ _reconcile_fixed(k)
  BY <1>1, ExamineInv
<1>2. CASE confirm_fixed(k)
  BY <1>2, UpdateInv DEF confirm_fixed
<1>3. CASE revoke(k)
  BY <1>3, UpdateInv DEF revoke
<1>4. CASE _settle(k)
  BY <1>4, SettleInv
<1>5. CASE _own_review(k)
  BY <1>5, OwnReviewInv
<1>6. CASE set(k)
  <2> DEFINE r == req[k].batch[at[k]]
  <2>1. CASE Answerable(k, r)
    <3>1. pc[k] = "answer" /\ Update(k, {r.fp}, "answering", "insert")
      BY <1>6, <2>1 DEF set
    <3>2. QED
      BY <3>1, UpdateInv
  <2>2. CASE ~Answerable(k, r)
    BY <1>6, <2>2, RollbackInv DEF set
  <2>3. QED
    BY <2>1, <2>2
<1>7. CASE insert(k)
  BY <1>7, InsertInv
<1>8. CASE Rule(k)
  BY <1>8, RuleInv
<1>9. CASE Commit(k)
  BY <1>9, CommitInv
<1>10. QED
  BY <1>1, <1>2, <1>3, <1>4, <1>5, <1>6, <1>7, <1>8, <1>9 DEF Work

\* A step that changes nothing keeps the invariant.
LEMMA StutterInv ==
  ASSUME Inv, UNCHANGED vars
  PROVE  Inv'
<1>1. /\ UNCHANGED <<reviews, disp, nextRow, served, pc, req, held>>
      /\ UNCHANGED <<mine, todo, found, claims, at, draft>>
  BY DEF vars, db, locals
<1>2. TypeOK'
  BY <1>1 DEF Inv, TypeOK
<1>3. ASSUME NEW k \in Keys PROVE RequestFits(k)' /\ HeldFits(k)' /\ DraftFits(k)'
  <2>1. RequestFits(k) /\ HeldFits(k) /\ DraftFits(k)
    BY DEF Inv
  <2>2. Opened(k)' = Opened(k)
    BY <1>1 DEF Opened
  <2>3. Rewritten(k, reviews[req[k].review])' = Rewritten(k, reviews[req[k].review])
    BY <1>1 DEF Rewritten
  <2>4. QED
    BY <1>1, <2>1, <2>2, <2>3 DEF RequestFits, HeldFits, DraftFits
<1>4. Exclusive' /\ ReviewsGood'
  BY <1>1 DEF Inv, Exclusive, ReviewsGood
<1>5. QED
  BY <1>2, <1>3, <1>4 DEF Inv

\* The invariant is inductive.
LEMMA InvStep ==
  ASSUME Inv, [Next]_vars
  PROVE  Inv'
<1>1. ASSUME NEW k \in Keys, plan(k) \/ create_review(k) \/ submit(k) \/ respond(k)
      PROVE  Inv'
  BY <1>1, ArrivalInv
<1>2. ASSUME NEW k \in Keys, Work(k) PROVE Inv'
  BY <1>2, WorkInv
<1>3. ASSUME NEW k \in Keys, Abort(k) PROVE Inv'
  BY <1>3, RollbackInv DEF Abort
<1>4. ASSUME NEW k \in Keys, DeadlockVictim(k) PROVE Inv'
  BY <1>4, RollbackInv DEF DeadlockVictim
<1>5. CASE Finished
  BY <1>5, StutterInv DEF Finished
<1>6. CASE UNCHANGED vars
  BY <1>6, StutterInv
<1>7. QED
  BY <1>1, <1>2, <1>3, <1>4, <1>5, <1>6 DEF Next

\* The inductive invariant holds of every behaviour, for any number of keys,
\* users, fingerprints and requests.
THEOREM Invariance == Spec => []Inv
<1>1. Init => Inv
  BY InitInv
<1>2. Inv /\ [Next]_vars => Inv'
  BY InvStep
<1>3. QED
  BY <1>1, <1>2, PTL DEF Spec

\* Tables and private state keep their types.
THEOREM Typing == Spec => []TypeOK
<1>1. Inv => TypeOK
  BY DEF Inv
<1>2. QED
  BY <1>1, Invariance, PTL

\* SELECT ... FOR UPDATE on the review excludes: no two requests work on one.
THEOREM MutualExclusion == Spec => []Exclusive
<1>1. Inv => Exclusive
  BY DEF Inv
<1>2. QED
  BY <1>1, Invariance, PTL

\* The domain of the reviews is their positions.
LEMMA ReviewPositions ==
  ASSUME Inv
  PROVE  DOMAIN reviews = 1..Len(reviews) /\ ReviewsGood
BY LenProperties DEF Inv, TypeOK

\* Every trail counts 1, 2, 3: two submissions to one review never write the
\* same step number, although nothing but the row lock prevents it.
THEOREM TrailsNumbered == Spec => []TrailInOrder
<1>1. Inv => TrailInOrder
  BY ReviewPositions DEF ReviewsGood, Good, TrailInOrder
<1>2. QED
  BY <1>1, Invariance, PTL

\* The agent findings of a review are those its newest submission counted.
THEOREM AgentRowsAccounted == Spec => []AgentRowsMatchTrail
<1>1. Inv => AgentRowsMatchTrail
  BY ReviewPositions DEF ReviewsGood, Good, AgentRowsMatchTrail
<1>2. QED
  BY <1>1, Invariance, PTL

\* A review blocks only over a finding it holds and shows.
THEOREM BlocksJustified == Spec => []BlockingIsJustified
<1>1. Inv => BlockingIsJustified
  BY ReviewPositions DEF ReviewsGood, Good, BlockingIsJustified
<1>2. QED
  BY <1>1, Invariance, PTL
----------------------------------------------------------------------------
(* Reviews implements Trails                                               *)

Planned == OnRecord!Planned
Submission(n, again, v) == OnRecord!Submission(n, again, v)
Replied(n) == OnRecord!Answered(n)

\* What a reader would see of the draft of k, as the database stands now.
DraftReads(k) ==
  LET n == Len(reviews[req[k].review].steps)
      v == draft[k].blocking
      trail == TrailOf(draft[k].steps)
  IN pc[k] = "commit" =>
       /\ req[k].kind = "plan_v1" => /\ v = "none" /\ draft[k].status = "planned"
                                     /\ trail = <<Planned>>
       /\ req[k].kind \in Rewriting \cup {"create"} =>
            v \in {"pass", "block"} /\ draft[k].status = "completed"
       /\ req[k].kind = "create" => trail = <<Planned>> \o Submission(1, FALSE, v)
       /\ req[k].kind = "submit" => trail = Submission(n, n > 1, v)
       /\ req[k].kind = "respond" => trail = Replied(n)

\* A review is completed once its trail goes on after the plan.
Ruled(r) == Len(r.steps) >= 1 /\ (r.status = "completed" <=> Len(r.steps) > 1)

\* The inductive invariant of the refinement.  The "resubmit" of a draft was
\* read from the status of the review in one statement and is written in a later
\* one; only the lock makes it true of the trail it lands on.
TrailsInv ==
  /\ Inv
  /\ \A k \in Keys : DraftReads(k)
  /\ \A i \in 1..Len(reviews) : Ruled(reviews[i])

\* A trail is read step by step.
LEMMA ReadConcat ==
  ASSUME NEW s \in Seq(Step), NEW t \in Seq(Step)
  PROVE  TrailOf(s \o t) = TrailOf(s) \o TrailOf(t) /\ Len(TrailOf(s)) = Len(s)
<1> DEFINE Read(x) == [seq |-> x.seq, kind |-> x.kind, flag |-> x.flag, blocking |-> x.blocking]
           S == {Read(x) : x \in Step}
<1>1. ASSUME NEW q \in Seq(Step)
      PROVE  /\ TrailOf(q) \in Seq(S) /\ Len(TrailOf(q)) = Len(q)
             /\ Len(q) \in Nat /\ \A i \in 1..Len(q) : TrailOf(q)[i] = Read(q[i])
  <2>1. Len(q) \in Nat /\ DOMAIN q = 1..Len(q) /\ \A i \in 1..Len(q) : q[i] \in Step
    BY LenProperties, ElementOfSeq
  <2>2. TrailOf(q) = [i \in 1..Len(q) |-> Read(q[i])]
    BY <2>1 DEF TrailOf
  <2>3. \A i \in 1..Len(q) : Read(q[i]) \in S
    BY <2>1
  <2> HIDE DEF Read, S
  <2>4. TrailOf(q) \in [1..Len(q) -> S]
    BY <2>2, <2>3
  <2>5. TrailOf(q) \in Seq(S)
    BY <2>1, <2>4, SeqDef
  <2>6. Len(TrailOf(q)) = Len(q)
    BY <2>1, <2>2, <2>5, LenProperties
  <2>7. QED
    BY <2>1, <2>2, <2>5, <2>6
<1> HIDE DEF Read, S
<1> DEFINE u == TrailOf(s \o t)
           w == TrailOf(s) \o TrailOf(t)
<1>2. /\ s \o t \in Seq(Step) /\ Len(s \o t) = Len(s) + Len(t)
      /\ \A i \in 1..Len(s) + Len(t) : (s \o t)[i] = IF i <= Len(s) THEN s[i] ELSE t[i - Len(s)]
  BY ConcatProperties
<1>3. /\ w \in Seq(S) /\ Len(w) = Len(s) + Len(t)
      /\ \A i \in 1..Len(s) + Len(t) : w[i] = IF i <= Len(s) THEN TrailOf(s)[i] ELSE TrailOf(t)[i - Len(s)]
  <2>1. /\ TrailOf(s) \in Seq(S) /\ Len(TrailOf(s)) = Len(s)
        /\ TrailOf(t) \in Seq(S) /\ Len(TrailOf(t)) = Len(t)
    BY <1>1
  <2> DEFINE p == TrailOf(s)
             q == TrailOf(t)
  <2>2. p \in Seq(S) /\ q \in Seq(S) /\ Len(p) = Len(s) /\ Len(q) = Len(t)
    BY <2>1
  <2> HIDE DEF p, q
  <2>3. /\ p \o q \in Seq(S) /\ Len(p \o q) = Len(p) + Len(q)
        /\ \A i \in 1..Len(p) + Len(q) : (p \o q)[i] = IF i <= Len(p) THEN p[i] ELSE q[i - Len(p)]
    BY <2>2, ConcatProperties
  <2>4. QED
    BY <2>2, <2>3 DEF p, q
<1>4. u \in Seq(S) /\ Len(u) = Len(s) + Len(t)
  BY <1>1, <1>2
<1>5. ASSUME NEW i \in 1..Len(s) + Len(t) PROVE u[i] = w[i]
  <2>0. Len(s) \in Nat /\ Len(t) \in Nat
    BY <1>1
  <2>1. u[i] = Read((s \o t)[i])
    BY <1>1, <1>2
  <2>2. CASE i <= Len(s)
    <3>1. i \in 1..Len(s)
      BY <2>0, <2>2
    <3>2. QED
      BY <2>1, <2>2, <3>1, <1>1, <1>2, <1>3
  <2>3. CASE ~(i <= Len(s))
    <3>1. i - Len(s) \in 1..Len(t)
      BY <2>0, <2>3
    <3>2. QED
      BY <2>1, <2>3, <3>1, <1>1, <1>2, <1>3
  <2>4. QED
    BY <2>2, <2>3
<1> HIDE DEF u, w
<1>6. u = w
  BY <1>3, <1>4, <1>5, SeqEqual
<1>7. QED
  BY <1>1, <1>6 DEF u, w

\* A trail is read whole: none of its steps is left out.
LEMMA ReadLen ==
  ASSUME NEW s \in Seq(Step)
  PROVE  Len(TrailOf(s)) = Len(s) /\ Len(s) \in Nat
BY ReadConcat, LenProperties

\* A statement of k leaves the drafts of the others alone, and only Rule drafts
\* something for k to commit.
LEMMA OneDrafts ==
  ASSUME TypeOK, NEW k \in Keys, RequestFits(k),
         \/ plan(k) \/ create_review(k) \/ submit(k) \/ respond(k)
         \/ Work(k) \/ Abort(k) \/ DeadlockVictim(k)
  PROVE  /\ Others(k)
         /\ Rule(k) \/ pc'[k] # "commit" \/ req'[k].kind = "plan"
         /\ Commit(k) \/ reviews' = reviews
<1>1. ASSUME NEW r, NEW where, Begin(k, r, where), where # "commit"
      PROVE  Others(k) /\ pc'[k] # "commit" /\ reviews' = reviews
  BY <1>1 DEF TypeOK, Begin, db, Others
<1>2. ASSUME Release(k)
      PROVE  Others(k) /\ pc'[k] # "commit"
  BY <1>2 DEF TypeOK, Release, Others
<1>3. ASSUME Rollback(k)
      PROVE  Others(k) /\ pc'[k] # "commit" /\ reviews' = reviews
  BY <1>2, <1>3 DEF Rollback, db
<1>4. ASSUME NEW fps, NEW waiting, NEW after, Update(k, fps, waiting, after),
             waiting # "commit", after # "commit"
      PROVE  Others(k) /\ pc'[k] # "commit" /\ reviews' = reviews
  BY <1>4 DEF TypeOK, Update, db, Others
<1>5. CASE plan(k) \/ create_review(k) \/ submit(k) \/ respond(k)
  BY <1>1, <1>5, Zenon DEF plan, create_review, submit, respond
<1>6. CASE _examine(k)
  BY <1>6 DEF TypeOK, _examine, db, Others
<1>7. CASE _reconcile_fixed(k)
  BY <1>7 DEF TypeOK, _reconcile_fixed, db, Others, RequestFits, settle_fixed, Opening
<1>8. CASE confirm_fixed(k) \/ revoke(k)
  BY <1>4, <1>8 DEF confirm_fixed, revoke
<1>9. CASE _settle(k)
  <2>1. /\ pc[k] \in {"confirming", "revoking", "answering"}
        /\ UNCHANGED <<db, served, req, held, found, claims, at, draft>>
        /\ \E x : x \in {"revoke", "rule", "insert", pc[k]} /\ pc' = [pc EXCEPT ![k] = x]
    BY <1>9 DEF _settle, AfterUpdate
  <2>2. QED
    BY <2>1 DEF TypeOK, db, Others
<1>10. CASE _own_review(k)
  BY <1>3, <1>10 DEF TypeOK, _own_review, db, Others
<1>11. CASE set(k)
  BY <1>3, <1>4, <1>11 DEF set
<1>12. CASE insert(k)
  BY <1>12 DEF TypeOK, insert, Others
<1>13. CASE Rule(k)
  <2>1. /\ \E x : draft' = [draft EXCEPT ![k] = x]
        /\ pc' = [pc EXCEPT ![k] = "commit"]
        /\ UNCHANGED <<db, req, held, at>>
    BY <1>13, Zenon DEF Rule
  <2>2. QED
    BY <1>13, <2>1 DEF TypeOK, db, Others
<1>14. CASE Commit(k)
  BY <1>2, <1>14 DEF Commit
<1>15. CASE Abort(k) \/ DeadlockVictim(k)
  BY <1>3, <1>15 DEF Abort, DeadlockVictim
<1>16. QED
  BY <1>5, <1>6, <1>7, <1>8, <1>9, <1>10, <1>11, <1>12, <1>13, <1>14, <1>15 DEF Work

\* A reader's trail opened with one step, extended by one or two, or opened with
\* three.
LEMMA ReadOne ==
  ASSUME NEW p
  PROVE  TrailOf(<<p>>) = <<[seq |-> p.seq, kind |-> p.kind, flag |-> p.flag, blocking |-> p.blocking]>>
BY DEF TrailOf

LEMMA ReadTwo ==
  ASSUME NEW p, NEW q
  PROVE  TrailOf(<<p, q>>) = <<[seq |-> p.seq, kind |-> p.kind, flag |-> p.flag, blocking |-> p.blocking],
                               [seq |-> q.seq, kind |-> q.kind, flag |-> q.flag, blocking |-> q.blocking]>>
BY DEF TrailOf

\* create_review writes what a plan and a submission would have written.
LEMMA ReadThree ==
  ASSUME NEW p \in Step, NEW f \in Step, NEW w \in Step
  PROVE  TrailOf(<<p, f, w>>) = TrailOf(<<p>>) \o TrailOf(<<f, w>>)
<1>1. <<p>> \in Seq(Step) /\ <<f, w>> \in Seq(Step)
  OBVIOUS
<1>2. <<p>> \o <<f, w>> = <<p, f, w>>
  <2> DEFINE a == <<p>>
             b == <<f, w>>
             c == <<p, f, w>>
  <2>1. /\ a \in Seq(Step) /\ Len(a) = 1 /\ a[1] = p
        /\ b \in Seq(Step) /\ Len(b) = 2 /\ b[1] = f /\ b[2] = w
        /\ c \in Seq(Step) /\ Len(c) = 3 /\ c[1] = p /\ c[2] = f /\ c[3] = w
    OBVIOUS
  <2> HIDE DEF a, b, c
  <2>2. /\ a \o b \in Seq(Step) /\ Len(a \o b) = Len(a) + Len(b)
        /\ \A i \in 1..Len(a) + Len(b) : (a \o b)[i] = IF i <= Len(a) THEN a[i] ELSE b[i - Len(a)]
    BY <2>1, ConcatProperties
  <2>3. \A i \in 1..3 : (a \o b)[i] = c[i]
    BY <2>1, <2>2
  <2>4. a \o b = c
    BY <2>1, <2>2, <2>3, SeqEqual
  <2>5. QED
    BY <2>4 DEF a, b, c
<1>3. QED
  BY <1>1, <1>2, ReadConcat

\* What compute_verdict answers is a verdict.
LEMMA VerdictGiven ==
  ASSUME NEW R
  PROVE  compute_verdict(R) \in {"pass", "block"}
BY Zenon DEF compute_verdict

\* The four drafts, as a reader would see them.
LEMMA PlanReads ==
  ASSUME NEW k \in Keys, NEW d, d = PlanDraft(k)
  PROVE  d.blocking = "none" /\ d.status = "planned" /\ TrailOf(d.steps) = <<Planned>>
<1> DEFINE p == PlanStep(1, Cardinality(confirmed(k)), Cardinality(regressed(k)))
<1>1. d.blocking = "none" /\ d.status = "planned" /\ d.steps = <<p>>
  BY DEF PlanDraft, NoDraft
<1>2. p.seq = 1 /\ p.kind = "plan" /\ p.flag = FALSE /\ p.blocking = "none"
  BY DEF PlanStep
<1> HIDE DEF p
<1>3. TrailOf(<<p>>) = <<Planned>>
  BY <1>2, ReadOne DEF Planned, OnRecord!Planned, OnRecord!Entry
<1>4. QED
  BY <1>1, <1>3

LEMMA SubmissionReads ==
  ASSUME NEW n \in Nat, NEW R, NEW again, NEW v
  PROVE  TrailOf(<<_findings_step(n + 1, R, again), VerdictStep(n + 2, v)>>) = Submission(n, again, v)
<1> DEFINE f == _findings_step(n + 1, R, again)
           w == VerdictStep(n + 2, v)
<1>1. /\ f.seq = n + 1 /\ f.kind = "findings" /\ f.flag = again /\ f.blocking = "none"
      /\ w.seq = n + 2 /\ w.kind = "verdict" /\ w.flag = FALSE /\ w.blocking = v
  BY DEF _findings_step, VerdictStep
<1> HIDE DEF f, w
<1>2. TrailOf(<<f, w>>) = Submission(n, again, v)
  BY <1>1, ReadTwo DEF Submission, OnRecord!Submission, OnRecord!Entry
<1>3. QED
  BY <1>2 DEF f, w

LEMMA CreateReads ==
  ASSUME TypeOK, NEW k \in Keys, NEW muted, NEW d, d = CreateDraft(k, muted)
  PROVE  /\ d.blocking \in {"pass", "block"} /\ d.status = "completed"
         /\ TrailOf(d.steps) = <<Planned>> \o Submission(1, FALSE, d.blocking)
<1> DEFINE a == apply_dispositions(merge(found[k], capped(req[k].sub)), muted)
           v == compute_verdict(apply_dispositions(found[k], muted) \cup a)
           p == PlanStep(1, Cardinality(confirmed(k)), Cardinality(regressed(k)))
           f == _findings_step(2, a, FALSE)
           w == VerdictStep(3, v)
<1>1. /\ found[k] \in SUBSET Row /\ req[k].sub \in Seq(AgentFinding)
      /\ confirmed(k) \in SUBSET Fp /\ regressed(k) \in SUBSET Fp
  BY DEF TypeOK, Request, confirmed, regressed
<1>2. a \in SUBSET Row /\ v \in Blocking /\ v \in {"pass", "block"}
  BY <1>1, FinalType, VerdictType, VerdictGiven
<1>3. d.blocking = v /\ d.status = "completed" /\ d.steps = <<p, f, w>>
  BY DEF CreateDraft
<1> HIDE DEF a, v
<1>4. Cardinality(confirmed(k)) \in Nat /\ Cardinality(regressed(k)) \in Nat
  BY <1>1, FpsFinite
<1>5. p \in Step /\ f \in Step /\ w \in Step
  BY <1>2, <1>4, StepTypes
<1>6. TrailOf(<<p>>) = <<Planned>>
  <2>1. p.seq = 1 /\ p.kind = "plan" /\ p.flag = FALSE /\ p.blocking = "none"
    BY DEF PlanStep
  <2> HIDE DEF p
  <2>2. QED
    BY <2>1, ReadOne DEF Planned, OnRecord!Planned, OnRecord!Entry
<1>7. TrailOf(<<f, w>>) = Submission(1, FALSE, v)
  <2>1. f = _findings_step(1 + 1, a, FALSE) /\ w = VerdictStep(1 + 2, v) /\ 1 \in Nat
    OBVIOUS
  <2> HIDE DEF f, w
  <2>2. QED
    BY <2>1, SubmissionReads
<1> HIDE DEF p, f, w
<1>8. TrailOf(<<p, f, w>>) = <<Planned>> \o Submission(1, FALSE, v)
  <2>1. TrailOf(<<p, f, w>>) = TrailOf(<<p>>) \o TrailOf(<<f, w>>)
    BY <1>5, ReadThree, Zenon
  <2>2. QED
    BY <1>6, <1>7, <2>1, Zenon
<1>9. QED
  BY <1>2, <1>3, <1>8

LEMMA SubmitReads ==
  ASSUME TypeOK, NEW k \in Keys, NEW muted, NEW d, d = SubmitDraft(k, muted),
         NEW s, s = reviews[req[k].review], Good(s), Ruled(s)
  PROVE  /\ d.blocking \in {"pass", "block"} /\ d.status = "completed"
         /\ TrailOf(d.steps) = Submission(Len(s.steps), Len(s.steps) > 1, d.blocking)
<1> DEFINE a == apply_dispositions(merge(s.det, capped(req[k].sub)), muted)
           v == compute_verdict(apply_dispositions(s.det, muted) \cup a)
           n == Len(s.steps)
           again == s.status = "completed"
<1>1. n \in Nat /\ max_seq(s.steps) = n
  <2>1. s.steps \in Seq(Step)
    BY DEF Good, Review
  <2>2. n \in Nat /\ DOMAIN s.steps = 1..n
    BY <2>1, LenProperties
  <2>3. \A i \in 1..n : s.steps[i].seq = i
    BY <2>2 DEF Good, Numbered
  <2>4. QED
    BY <2>1, <2>2, <2>3, MaxSeqIsLen
<1>2. /\ d.blocking = v /\ d.status = "completed"
      /\ d.steps = <<_findings_step(n + 1, a, again), VerdictStep(n + 2, v)>>
  BY <1>1 DEF SubmitDraft
<1>3. v \in {"pass", "block"}
  BY VerdictGiven
<1>4. again = (n > 1)
  BY DEF Ruled
<1> HIDE DEF a, v, n, again
<1>5. TrailOf(d.steps) = Submission(n, again, v)
  BY <1>1, <1>2, SubmissionReads
<1>6. Submission(n, again, v) = Submission(n, n > 1, v)
  BY <1>4
<1>7. QED
  BY <1>2, <1>3, <1>5, <1>6 DEF n

LEMMA RespondReads ==
  ASSUME TypeOK, NEW k \in Keys, NEW muted, NEW d, d = RespondDraft(k, muted),
         NEW s, s = reviews[req[k].review], Good(s)
  PROVE  /\ d.blocking \in {"pass", "block"} /\ d.status = "completed"
         /\ TrailOf(d.steps) = Replied(Len(s.steps))
<1> DEFINE a == apply_dispositions(s.det \cup s.agent, muted)
           n == Len(s.steps)
           p == ResponsesStep(n + 1, Len(req[k].batch), Cardinality({x \in a : x.sup}))
<1>1. n \in Nat /\ max_seq(s.steps) = n
  <2>1. s.steps \in Seq(Step)
    BY DEF Good, Review
  <2>2. n \in Nat /\ DOMAIN s.steps = 1..n
    BY <2>1, LenProperties
  <2>3. \A i \in 1..n : s.steps[i].seq = i
    BY <2>2 DEF Good, Numbered
  <2>4. QED
    BY <2>1, <2>2, <2>3, MaxSeqIsLen
<1>2. d.blocking = compute_verdict(a) /\ d.status = "completed" /\ d.steps = <<p>>
  BY <1>1 DEF RespondDraft
<1>3. p.seq = n + 1 /\ p.kind = "responses" /\ p.flag = FALSE /\ p.blocking = "none"
  BY DEF ResponsesStep
<1> HIDE DEF p, a
<1>4. TrailOf(<<p>>) = Replied(n)
  BY <1>3, ReadOne DEF Replied, OnRecord!Answered, OnRecord!Entry
<1>5. QED
  BY <1>2, <1>4, VerdictGiven

\* Rule drafts what the abstract call would add.
LEMMA RuleReads ==
  ASSUME TrailsInv, NEW k \in Keys, Rule(k)
  PROVE  DraftReads(k)'
<1>1. TypeOK /\ RequestFits(k) /\ ReviewsGood
  BY DEF TrailsInv, Inv
<1> PICK muted \in active(k, Asked(k)) :
      draft' = [draft EXCEPT ![k] =
        CASE req[k].kind = "create"  -> CreateDraft(k, muted)
          [] req[k].kind = "submit"  -> SubmitDraft(k, muted)
          [] req[k].kind = "respond" -> RespondDraft(k, muted)
          [] OTHER                   -> PlanDraft(k)]
  BY Zenon DEF Rule
<1>2. pc[k] = "rule" /\ reviews' = reviews /\ req' = req
  BY DEF Rule, db
<1>3. req[k].kind \in {"plan_v1", "create", "submit", "respond"}
  BY <1>1, <1>2 DEF RequestFits, Opening, Rewriting
<1>4. /\ req[k].kind = "plan_v1" => draft'[k] = PlanDraft(k)
      /\ req[k].kind = "create" => draft'[k] = CreateDraft(k, muted)
      /\ req[k].kind = "submit" => draft'[k] = SubmitDraft(k, muted)
      /\ req[k].kind = "respond" => draft'[k] = RespondDraft(k, muted)
  BY <1>1, Zenon DEF TypeOK
<1> PICK s : s = reviews[req[k].review]
  OBVIOUS
<1>5. req[k].kind \in Rewriting => Good(s) /\ Ruled(s)
  BY <1>1 DEF RequestFits, ReviewsGood, TrailsInv
<1> PICK d : d = draft'[k]
  OBVIOUS
<1> DEFINE n == Len(s.steps)
<1>6. CASE req[k].kind = "plan_v1"
  BY <1>2, <1>4, <1>6, PlanReads DEF DraftReads, Rewriting
<1>7. CASE req[k].kind = "create"
  <2>1. /\ d.blocking \in {"pass", "block"} /\ d.status = "completed"
        /\ TrailOf(d.steps) = <<Planned>> \o Submission(1, FALSE, d.blocking)
    <3>1. TypeOK /\ d = CreateDraft(k, muted)
      BY <1>1, <1>4, <1>7
    <3>2. QED
      BY <3>1, CreateReads, Zenon
  <2>2. QED
    BY <1>2, <1>7, <2>1 DEF DraftReads, Rewriting
<1>8. CASE req[k].kind = "submit"
  <2>1. /\ d.blocking \in {"pass", "block"} /\ d.status = "completed"
        /\ TrailOf(d.steps) = Submission(n, n > 1, d.blocking)
    BY <1>1, <1>4, <1>5, <1>8, SubmitReads DEF Rewriting
  <2>2. QED
    BY <1>2, <1>8, <2>1 DEF DraftReads, Rewriting
<1>9. CASE req[k].kind = "respond"
  <2>1. /\ d.blocking \in {"pass", "block"} /\ d.status = "completed"
        /\ TrailOf(d.steps) = Replied(n)
    BY <1>1, <1>4, <1>5, <1>9, RespondReads DEF Rewriting
  <2>2. QED
    BY <1>2, <1>9, <2>1 DEF DraftReads, Rewriting
<1>10. QED
  BY <1>3, <1>6, <1>7, <1>8, <1>9

\* What the reader has of all reviews.
readings == [i \in DOMAIN reviews |-> ReviewRead(reviews[i])]

LEMMA ReadAppend ==
  ASSUME reviews \in Seq(Review), NEW o \in Review, reviews' = Append(reviews, o)
  PROVE  readings' = Append(readings, ReviewRead(o))
<1> DEFINE S == {ReviewRead(r) : r \in Review}
           x == ReviewRead(o)
           n == Len(reviews)
<1>1. /\ n \in Nat /\ DOMAIN reviews = 1..n /\ \A i \in 1..n : reviews[i] \in Review
      /\ reviews' \in Seq(Review) /\ Len(reviews') = n + 1
      /\ \A i \in 1..n : reviews'[i] = reviews[i]
      /\ reviews'[n + 1] = o
  BY LenProperties, ElementOfSeq, AppendProperties
<1>2. DOMAIN reviews' = 1..(n + 1)
  BY <1>1, LenProperties
<1>3. readings = [i \in 1..n |-> ReviewRead(reviews[i])]
  BY <1>1 DEF readings
<1>4. readings' = [i \in 1..(n + 1) |-> ReviewRead(reviews'[i])]
  BY <1>2 DEF readings
<1>5. (\A i \in 1..n : ReviewRead(reviews[i]) \in S) /\ x \in S
  BY <1>1
<1> HIDE DEF S, n
<1>6. readings \in Seq(S) /\ Len(readings) = n
  <2>1. readings \in [1..n -> S]
    BY <1>3, <1>5
  <2>2. readings \in Seq(S)
    BY <2>1, <1>1, SeqDef
  <2>3. QED
    BY <2>2, <1>1, <1>3, LenProperties
<1>7. /\ Append(readings, x) \in Seq(S) /\ Len(Append(readings, x)) = n + 1
      /\ \A i \in 1..n : Append(readings, x)[i] = readings[i]
      /\ Append(readings, x)[n + 1] = x
  BY <1>5, <1>6, AppendProperties
<1>8. readings' \in Seq(S) /\ Len(readings') = n + 1
  <2>1. \A i \in 1..(n + 1) : ReviewRead(reviews'[i]) \in S
    <3>1. \A i \in 1..(n + 1) : i \in 1..n \/ i = n + 1
      BY <1>1
    <3>2. QED
      BY <3>1, <1>1, <1>5
  <2> DEFINE q == [i \in 1..(n + 1) |-> ReviewRead(reviews'[i])]
  <2>2. q \in [1..(n + 1) -> S] /\ DOMAIN q = 1..(n + 1)
    BY <2>1
  <2>3. n + 1 \in Nat
    BY <1>1
  <2> HIDE DEF q
  <2>4. q \in Seq(S)
    BY <2>2, <2>3, SeqDef
  <2>5. Len(q) \in Nat /\ DOMAIN q = 1..Len(q)
    BY <2>4, LenProperties
  <2>6. Len(q) = n + 1
    <3>1. 1..Len(q) = 1..(n + 1)
      BY <2>2, <2>5
    <3>2. \A a, b \in Nat : 1..a = 1..b => a = b
      OBVIOUS
    <3>3. QED
      BY <2>3, <2>5, <3>1, <3>2
  <2>7. readings' = q
    BY <1>4 DEF q
  <2>8. QED
    BY <2>4, <2>6, <2>7
<1>9. ASSUME NEW i \in 1..(n + 1) PROVE (readings')[i] = Append(readings, x)[i]
  <2>1. (readings')[i] = ReviewRead(reviews'[i])
    BY <1>4
  <2>2. CASE i \in 1..n
    BY <2>1, <2>2, <1>1, <1>3, <1>7
  <2>3. CASE i = n + 1
    BY <2>1, <2>3, <1>1, <1>7
  <2>4. i \in 1..n \/ i = n + 1
    <3>1. n \in Nat
      BY <1>1
    <3>2. QED
      BY <3>1
  <2>5. QED
    BY <2>2, <2>3, <2>4
<1>10. QED
  BY <1>7, <1>8, <1>9, SeqEqual DEF x

LEMMA ReadExcept ==
  ASSUME reviews \in Seq(Review), NEW o, NEW t \in DOMAIN reviews,
         reviews' = [reviews EXCEPT ![t] = o]
  PROVE  readings' = [readings EXCEPT ![t] = ReviewRead(o)]
<1>1. DOMAIN reviews' = DOMAIN reviews
  OBVIOUS
<1>2. \A i \in DOMAIN reviews : reviews'[i] = IF i = t THEN o ELSE reviews[i]
  OBVIOUS
<1>3. readings' = [i \in DOMAIN reviews |-> ReviewRead(reviews'[i])]
  BY <1>1 DEF readings
<1>4. [readings EXCEPT ![t] = ReviewRead(o)]
        = [i \in DOMAIN reviews |-> IF i = t THEN ReviewRead(o) ELSE ReviewRead(reviews[i])]
  BY DEF readings
<1>5. \A i \in DOMAIN reviews : ReviewRead(reviews'[i]) = IF i = t THEN ReviewRead(o) ELSE ReviewRead(reviews[i])
  BY <1>2
<1>6. QED
  BY <1>3, <1>4, <1>5

\* The lengths of what is added.
LEMMA AddedLengths ==
  ASSUME NEW n, NEW again, NEW v
  PROVE  Len(Submission(n, again, v)) = 2 /\ Len(Replied(n)) = 1 /\ Len(<<Planned>>) = 1
BY DEF Submission, OnRecord!Submission, Replied, OnRecord!Answered

\* A review that is rewritten reads as the one before, extended.
LEMMA RewrittenReads ==
  ASSUME NEW k \in Keys, NEW s \in Review, draft[k] \in Draft
  PROVE  ReviewRead(Rewritten(k, s))
           = OnRecord!Extended(ReviewRead(s), draft[k].blocking, TrailOf(draft[k].steps))
<1> DEFINE d == draft[k]
<1>1. /\ s = [user |-> s.user, status |-> s.status, blocking |-> s.blocking,
              det |-> s.det, agent |-> s.agent, steps |-> s.steps]
      /\ s.steps \in Seq(Step) /\ d.steps \in Seq(Step)
  BY DEF Review, Draft
<1>2. /\ Rewritten(k, s).user = s.user /\ Rewritten(k, s).blocking = d.blocking
      /\ Rewritten(k, s).steps = s.steps \o d.steps
  BY <1>1 DEF Rewritten
<1>3. TrailOf(s.steps \o d.steps) = TrailOf(s.steps) \o TrailOf(d.steps)
  BY <1>1, ReadConcat
<1> HIDE DEF d
<1>4. ReviewRead(Rewritten(k, s))
        = [user |-> s.user, blocking |-> d.blocking, trail |-> TrailOf(s.steps) \o TrailOf(d.steps)]
  BY <1>2, <1>3 DEF ReviewRead
<1>5. OnRecord!Extended(ReviewRead(s), d.blocking, TrailOf(d.steps))
        = [user |-> s.user, blocking |-> d.blocking, trail |-> TrailOf(s.steps) \o TrailOf(d.steps)]
  <2>1. ReviewRead(s).user = s.user /\ ReviewRead(s).trail = TrailOf(s.steps)
    BY DEF ReviewRead
  <2>2. QED
    BY <2>1, Zenon DEF OnRecord!Extended, OnRecord!Opened
<1>6. QED
  BY <1>4, <1>5 DEF d

\* A commit is the call its request made, or changes nothing on record.
LEMMA CommitReads ==
  ASSUME TrailsInv, NEW k \in Keys, Commit(k)
  PROVE  /\ OnRecord!Plan \/ OnRecord!Create \/ OnRecord!Submit \/ OnRecord!Respond \/ UNCHANGED readings
         /\ \A i \in 1..Len(reviews') : Ruled(reviews'[i])
<1> DEFINE t == req[k].review
           d == draft[k]
           v == d.blocking
           o == Opened(k)
           w == Rewritten(k, reviews[t])
<1>1. TypeOK /\ RequestFits(k) /\ DraftFits(k) /\ DraftReads(k) /\ pc[k] = "commit"
  BY DEF TrailsInv, Inv, Commit
<1>2. /\ reviews \in Seq(Review) /\ Len(reviews) \in Nat /\ DOMAIN reviews = 1..Len(reviews)
      /\ \A i \in 1..Len(reviews) : reviews[i] \in Review
      /\ d \in Draft /\ d.steps \in Seq(Step) /\ Owner[k] \in Users
  BY <1>1, LenProperties, ElementOfSeq, ConstantsAssumption DEF TypeOK, Draft
<1>3. /\ req[k].kind \in Opening => reviews' = Append(reviews, o)
      /\ req[k].kind \in Rewriting => reviews' = [reviews EXCEPT ![t] = w]
      /\ req[k].kind \notin Opening \cup Rewriting => reviews' = reviews
  BY DEF Commit, Opening, Rewriting
<1>4. Len(TrailOf(d.steps)) = Len(d.steps) /\ Len(d.steps) \in Nat
  BY <1>2, ReadLen
<1>5. \A i \in 1..Len(reviews) : Ruled(reviews[i])
  BY DEF TrailsInv
<1>6. CASE req[k].kind \in Opening
  <2>1. o \in Review
    BY <1>1, <1>6 DEF DraftFits, Good
  <2>2. /\ o.user = Owner[k] /\ o.blocking = v /\ o.steps = d.steps /\ o.status = d.status
    BY DEF Opened
  <2>3. ReviewRead(o) = OnRecord!Opened(Owner[k], v, TrailOf(d.steps))
    BY <2>2 DEF ReviewRead, OnRecord!Opened
  <2>4. reviews' = Append(reviews, o)
    BY <1>3, <1>6
  <2> HIDE DEF o, d, v
  <2>5. readings' = Append(readings, ReviewRead(o))
    BY <1>2, <2>1, <2>4, ReadAppend
  <2>6. (OnRecord!Plan \/ OnRecord!Create) /\ Ruled(o)
    <3>1. CASE req[k].kind = "plan_v1"
      <4>1. v = "none" /\ d.status = "planned" /\ TrailOf(d.steps) = <<Planned>>
        BY <1>1, <3>1 DEF DraftReads, d, v
      <4>2. readings' = Append(readings, OnRecord!Opened(Owner[k], "none", <<OnRecord!Planned>>))
        BY <2>3, <2>5, <4>1 DEF Planned
      <4>3. OnRecord!Plan
        BY <1>2, <4>2 DEF OnRecord!Plan, readings
      <4>4. Len(d.steps) = 1
        BY <4>1, <1>4, AddedLengths
      <4>5. Ruled(o)
        <5>1. Len(o.steps) = 1 /\ o.status = "planned"
          BY <4>1, <4>4, <2>2, Zenon
        <5>2. QED
          BY <5>1 DEF Ruled
      <4>6. QED
        BY <4>3, <4>5
    <3>2. CASE req[k].kind = "create"
      <4>1. /\ v \in {"pass", "block"} /\ d.status = "completed"
            /\ TrailOf(d.steps) = <<Planned>> \o Submission(1, FALSE, v)
        BY <1>1, <3>2 DEF DraftReads, d, v
      <4>2. readings' = Append(readings, OnRecord!Created(Owner[k], v))
        BY <2>3, <2>5, <4>1 DEF Planned, Submission, OnRecord!Created
      <4>3. OnRecord!Create
        BY <1>2, <4>1, <4>2 DEF OnRecord!Create, OnRecord!Verdicts, readings
      <4>4. Len(d.steps) > 1
        BY <4>1, <1>4 DEF Submission, OnRecord!Submission
      <4>5. Ruled(o)
        BY <4>1, <4>4, <2>2, <1>4 DEF Ruled
      <4>6. QED
        BY <4>3, <4>5
    <3>3. QED
      BY <3>1, <3>2, <1>6 DEF Opening
  <2>7. \A i \in 1..Len(reviews') : Ruled(reviews'[i])
    <3>1. /\ Len(reviews') = Len(reviews) + 1 /\ reviews'[Len(reviews) + 1] = o
          /\ \A i \in 1..Len(reviews) : reviews'[i] = reviews[i]
      BY <1>2, <2>1, <2>4, AppendProperties
    <3>2. \A i \in 1..Len(reviews') : i \in 1..Len(reviews) \/ i = Len(reviews) + 1
      BY <3>1, <1>2
    <3>3. QED
      BY <3>1, <3>2, <2>6, <1>5
  <2>8. QED
    BY <2>6, <2>7
<1>7. CASE req[k].kind \in Rewriting
  <2>1. t \in 1..Len(reviews) /\ w \in Review
    BY <1>1, <1>7 DEF DraftFits, RequestFits, Good
  <2> DEFINE s == reviews[t]
             n == Len(s.steps)
  <2>2. s \in Review /\ Ruled(s) /\ s.steps \in Seq(Step) /\ n \in Nat /\ n >= 1
    <3>1. s \in Review /\ Ruled(s)
      BY <2>1, <1>2, <1>5
    <3> HIDE DEF s
    <3>2. s.steps \in Seq(Step)
      BY <3>1 DEF Review
    <3>3. QED
      BY <3>1, <3>2, LenProperties DEF Ruled
  <2>3. /\ w.status = d.status /\ w.steps = s.steps \o d.steps
        /\ ReviewRead(w) = OnRecord!Extended(ReviewRead(s), v, TrailOf(d.steps))
    <3>1. s = [user |-> s.user, status |-> s.status, blocking |-> s.blocking,
               det |-> s.det, agent |-> s.agent, steps |-> s.steps]
      BY <2>2 DEF Review
    <3>2. w.status = d.status /\ w.steps = s.steps \o d.steps
      BY <3>1 DEF Rewritten
    <3>3. QED
      BY <3>2, <2>2, <1>2, RewrittenReads
  <2>4. v \in {"pass", "block"} /\ d.status = "completed"
    BY <1>1, <1>7 DEF DraftReads
  <2>5. /\ req[k].kind = "submit" => TrailOf(d.steps) = Submission(n, n > 1, v)
        /\ req[k].kind = "respond" => TrailOf(d.steps) = Replied(n)
    BY <1>1 DEF DraftReads
  <2>6. reviews' = [reviews EXCEPT ![t] = w]
    BY <1>3, <1>7
  <2> HIDE DEF w, d, v
  <2>7. readings' = [readings EXCEPT ![t] = ReviewRead(w)]
    BY <1>2, <2>1, <2>6, ReadExcept
  <2>8. /\ t \in DOMAIN readings /\ DOMAIN readings = DOMAIN reviews
        /\ readings[t] = ReviewRead(s) /\ Len(readings[t].trail) = n
    <3>1. t \in DOMAIN readings /\ DOMAIN readings = DOMAIN reviews /\ readings[t] = ReviewRead(s)
      BY <1>2, <2>1 DEF readings
    <3>2. ReviewRead(s).trail = TrailOf(s.steps)
      BY DEF ReviewRead
    <3>3. Len(TrailOf(s.steps)) = n
      BY <2>2, ReadLen
    <3>4. QED
      BY <3>1, <3>2, <3>3
  <2> HIDE DEF s, n
  <2>9. Len(d.steps) >= 1
    <3>1. CASE req[k].kind = "submit"
      <4>1. Len(TrailOf(d.steps)) = 2
        BY <3>1, <2>5, AddedLengths, Zenon
      <4>2. Len(d.steps) = 2
        BY <4>1, <1>4, Zenon
      <4>3. QED
        BY <4>2
    <3>2. CASE req[k].kind = "respond"
      <4>1. Len(TrailOf(d.steps)) = 1
        BY <3>2, <2>5, AddedLengths, Zenon
      <4>2. Len(d.steps) = 1
        BY <4>1, <1>4, Zenon
      <4>3. QED
        BY <4>2
    <3>3. QED
      BY <3>1, <3>2, <1>7 DEF Rewriting
  <2>10. Ruled(w)
    <3>1. Len(s.steps \o d.steps) = Len(s.steps) + Len(d.steps)
      BY <2>2, <1>2, ConcatProperties
    <3>2. Len(w.steps) = n + Len(d.steps)
      BY <3>1, <2>3, Zenon DEF n
    <3>3. n + Len(d.steps) >= 1 /\ n + Len(d.steps) > 1
      BY <2>2, <2>9, <1>4
    <3>4. w.status = "completed"
      BY <2>3, <2>4
    <3>5. QED
      BY <3>2, <3>3, <3>4 DEF Ruled
  <2>11. \A i \in 1..Len(reviews') : Ruled(reviews'[i])
    <3>1. /\ Len(reviews') = Len(reviews)
          /\ \A i \in 1..Len(reviews) : reviews'[i] = IF i = t THEN w ELSE reviews[i]
      BY <1>2, <2>1, <2>6, ExceptSeq
    <3>2. QED
      BY <3>1, <2>10, <1>5
  <2>12. OnRecord!Submit \/ OnRecord!Respond
    <3>1. CASE req[k].kind = "submit"
      <4>1. readings' = [readings EXCEPT ![t] = OnRecord!Extended(readings[t], v, OnRecord!Submission(n, n > 1, v))]
        BY <3>1, <2>3, <2>5, <2>7, <2>8 DEF Submission
      <4>2. OnRecord!Submit
        BY <4>1, <2>4, <2>8 DEF OnRecord!Submit, OnRecord!Verdicts, readings
      <4>3. QED
        BY <4>2
    <3>2. CASE req[k].kind = "respond"
      <4>1. readings' = [readings EXCEPT ![t] =
              OnRecord!Extended(readings[t], v, OnRecord!Answered(Len(readings[t].trail)))]
        BY <3>2, <2>3, <2>5, <2>7, <2>8 DEF Replied
      <4>2. OnRecord!Respond
        BY <4>1, <2>4, <2>8 DEF OnRecord!Respond, OnRecord!Verdicts, readings
      <4>3. QED
        BY <4>2
    <3>3. QED
      BY <3>1, <3>2, <1>7 DEF Rewriting
  <2>13. QED
    BY <2>11, <2>12
<1>8. CASE req[k].kind \notin Opening \cup Rewriting
  <2>1. reviews' = reviews
    BY <1>3, <1>8
  <2>2. QED
    BY <2>1, <1>5 DEF readings
<1>9. QED
  BY <1>6, <1>7, <1>8

\* Every step keeps what a draft will add to its trail.
LEMMA TrailsStep ==
  ASSUME TrailsInv, [Next]_vars
  PROVE  /\ TrailsInv'
         /\ OnRecord!Plan \/ OnRecord!Create \/ OnRecord!Submit \/ OnRecord!Respond \/ UNCHANGED readings
<1>1. TypeOK /\ Inv' /\ \A i \in 1..Len(reviews) : Ruled(reviews[i])
  BY InvStep DEF TrailsInv, Inv
<1>2. CASE Finished \/ UNCHANGED vars
  <2>1. reviews' = reviews /\ pc' = pc /\ req' = req /\ draft' = draft
    BY <1>2 DEF Finished, vars, db, locals
  <2>2. ASSUME NEW k \in Keys PROVE DraftReads(k)'
    <3>1. DraftReads(k)
      BY DEF TrailsInv
    <3>2. QED
      BY <2>1, <3>1 DEF DraftReads
  <2>3. UNCHANGED readings /\ \A i \in 1..Len(reviews') : Ruled(reviews'[i])
    BY <1>1, <2>1 DEF readings
  <2>4. TrailsInv'
    BY <1>1, <2>2, <2>3 DEF TrailsInv
  <2>5. QED
    BY <2>3, <2>4
<1>3. ASSUME NEW k \in Keys,
             \/ plan(k) \/ create_review(k) \/ submit(k) \/ respond(k)
             \/ Work(k) \/ Abort(k) \/ DeadlockVictim(k)
      PROVE  /\ TrailsInv'
             /\ OnRecord!Plan \/ OnRecord!Create \/ OnRecord!Submit \/ OnRecord!Respond \/ UNCHANGED readings
  <2>1. RequestFits(k) /\ HeldFits(k) /\ Exclusive
    BY DEF TrailsInv, Inv
  <2>2. /\ Others(k)
        /\ Rule(k) \/ pc'[k] # "commit" \/ req'[k].kind = "plan"
        /\ Commit(k) \/ reviews' = reviews
    BY <1>1, <1>3, <2>1, OneDrafts
  <2>3. /\ OnRecord!Plan \/ OnRecord!Create \/ OnRecord!Submit \/ OnRecord!Respond \/ UNCHANGED readings
        /\ \A i \in 1..Len(reviews') : Ruled(reviews'[i])
    <3>1. CASE Commit(k)
      BY <3>1, CommitReads
    <3>2. CASE reviews' = reviews
      <4>1. UNCHANGED readings /\ \A i \in 1..Len(reviews') : Ruled(reviews'[i])
        BY <3>2, <1>1 DEF readings
      <4>2. QED
        BY <4>1
    <3>3. QED
      BY <2>2, <3>1, <3>2
  <2>4. ASSUME NEW j \in Keys PROVE DraftReads(j)'
    <3>1. CASE j = k
      <4>1. CASE Rule(k)
        BY <3>1, <4>1, RuleReads
      <4>2. CASE pc'[k] # "commit" \/ req'[k].kind = "plan"
        BY <3>1, <4>2 DEF DraftReads, Rewriting
      <4>3. QED
        BY <2>2, <4>1, <4>2
    <3>2. CASE j # k
      <4>1. pc'[j] = pc[j] /\ req'[j] = req[j] /\ draft'[j] = draft[j]
        BY <2>2, <3>2 DEF Others
      <4>2. DraftReads(j) /\ RequestFits(j) /\ HeldFits(j)
        BY DEF TrailsInv, Inv
      <4>3. ASSUME req[j].kind = "submit" \/ req[j].kind = "respond", pc[j] = "commit"
            PROVE  reviews'[req[j].review] = reviews[req[j].review]
        <5>1. /\ req[j].review \in 1..Len(reviews) /\ held[j] = req[j].review
              /\ reviews \in Seq(Review)
          BY <4>2, <4>3, <1>1 DEF RequestFits, HeldFits, Rewriting, TypeOK
        <5>2. held[j] # 0 /\ req[j].review \in DOMAIN reviews /\ Len(reviews) \in Nat
          BY <5>1, LenProperties
        <5>3. CASE Commit(k)
          <6>1. /\ req[k].kind \in Opening => reviews' = Append(reviews, Opened(k))
                /\ req[k].kind \in Rewriting =>
                     reviews' = [reviews EXCEPT ![req[k].review] = Rewritten(k, reviews[req[k].review])]
                /\ req[k].kind \notin Opening \cup Rewriting => reviews' = reviews
                /\ pc[k] = "commit"
            BY <5>3 DEF Commit, Opening, Rewriting
          <6>2. CASE req[k].kind \in Opening
            <7>1. Opened(k) \in Review
              BY <6>1, <6>2 DEF TrailsInv, Inv, DraftFits, Good
            <7>2. reviews' = Append(reviews, Opened(k))
              BY <6>1, <6>2
            <7>3. QED
              BY <5>1, <7>1, <7>2, AppendProperties
          <6>3. CASE req[k].kind \in Rewriting
            <7>1. held[k] = req[k].review
              BY <2>1, <6>1, <6>3 DEF HeldFits
            <7>2. req[k].review # req[j].review
              BY <7>1, <5>1, <5>2, <2>1, <3>2 DEF Exclusive
            <7>3. QED
              BY <6>1, <6>3, <7>2, <5>2
          <6>4. QED
            BY <6>1, <6>2, <6>3
        <5>4. QED
          BY <5>3, <2>2
      <4>4. QED
        BY <4>1, <4>2, <4>3 DEF DraftReads
    <3>3. QED
      BY <3>1, <3>2
  <2>5. TrailsInv'
    BY <1>1, <2>3, <2>4 DEF TrailsInv
  <2>6. QED
    BY <2>3, <2>5
<1>4. QED
  BY <1>2, <1>3 DEF Next

\* The reviews on record at first are ruled on, and read as created.
LEMMA TrailsInit ==
  ASSUME Init
  PROVE  TrailsInv /\ OnRecord!Init
<1>1. Inv /\ reviews \in Seq(Review) /\ DOMAIN reviews = 1..Len(reviews)
  BY InitInv, LenProperties DEF Inv, TypeOK
<1>2. ASSUME NEW k \in Keys PROVE DraftReads(k)
  BY DEF Init, DraftReads
<1>3. ASSUME NEW i \in 1..Len(reviews)
      PROVE  /\ Ruled(reviews[i])
             /\ \E u \in Users, v \in {"pass", "block"} : ReviewRead(reviews[i]) = OnRecord!Created(u, v)
  <2>1. /\ i \in 1..Len(Seeded) /\ reviews[i] = SeededReview(Seeded[i])
    <3>1. DOMAIN reviews = 1..Len(Seeded)
      BY DEF Init
    <3>2. QED
      BY <3>1, <1>1 DEF Init
  <2>2. Seeded[i] \in [user : Users, fps : SUBSET Fp]
    BY <2>1, ConstantsAssumption, ElementOfSeq
  <2> DEFINE x == Seeded[i]
             det == {[fp |-> f, sup |-> FALSE] : f \in x.fps}
             v == compute_verdict(det)
             p == PlanStep(1, 0, 0)
             f2 == _findings_step(2, {}, FALSE)
             w == VerdictStep(3, v)
  <2>3. v \in {"pass", "block"} /\ x.user \in Users
    BY <2>2, VerdictGiven
  <2>4. SeededReview(x) = [user |-> x.user, status |-> "completed", blocking |-> v,
          det |-> det, agent |-> {}, steps |-> <<p, f2, w>>]
    BY DEF SeededReview
  <2> HIDE DEF v, det
  <2>5. p \in Step /\ f2 \in Step /\ w \in Step
    <3>1. v \in Blocking
      BY <2>3 DEF Blocking
    <3>2. QED
      BY <3>1, StepTypes
  <2>6. TrailOf(<<p>>) = <<Planned>>
    <3>1. p.seq = 1 /\ p.kind = "plan" /\ p.flag = FALSE /\ p.blocking = "none"
      BY DEF PlanStep
    <3> HIDE DEF p
    <3>2. QED
      BY <3>1, ReadOne DEF Planned, OnRecord!Planned, OnRecord!Entry
  <2>7. TrailOf(<<f2, w>>) = Submission(1, FALSE, v)
    <3>1. f2 = _findings_step(1 + 1, {}, FALSE) /\ w = VerdictStep(1 + 2, v) /\ 1 \in Nat
      OBVIOUS
    <3> HIDE DEF f2, w
    <3>2. QED
      BY <3>1, SubmissionReads
  <2> HIDE DEF p, f2, w
  <2>8. TrailOf(<<p, f2, w>>) = <<Planned>> \o Submission(1, FALSE, v)
    <3>1. TrailOf(<<p, f2, w>>) = TrailOf(<<p>>) \o TrailOf(<<f2, w>>)
      BY <2>5, ReadThree, Zenon
    <3>2. QED
      BY <2>6, <2>7, <3>1, Zenon
  <2>9. /\ reviews[i].user = x.user /\ reviews[i].blocking = v
        /\ reviews[i].steps = <<p, f2, w>> /\ reviews[i].status = "completed"
    BY <2>1, <2>4
  <2>10. ReviewRead(reviews[i]) = OnRecord!Created(x.user, v)
    BY <2>8, <2>9, Zenon DEF ReviewRead, OnRecord!Created, OnRecord!Opened, Planned, Submission
  <2>11. Ruled(reviews[i])
    BY <2>9 DEF Ruled
  <2>12. QED
    BY <2>3, <2>10, <2>11
<1>4. OnRecord!Init
  BY <1>1, <1>3 DEF OnRecord!Init, OnRecord!Verdicts
<1>5. QED
  BY <1>1, <1>2, <1>3, <1>4 DEF TrailsInv

\* To whoever reads the reviews, the calls happen one at a time: Reviews
\* implements Trails, for any number of keys, developers and requests.
THEOREM ReviewsImplementTrails == Spec => ImplementsTrails
<1>1. Init => TrailsInv /\ OnRecord!Init
  BY TrailsInit
<1>2. TrailsInv /\ [Next]_vars => TrailsInv'
  BY TrailsStep
<1>3. TrailsInv /\ [Next]_vars =>
        [OnRecord!Plan \/ OnRecord!Create \/ OnRecord!Submit \/ OnRecord!Respond]_readings
  BY TrailsStep
<1>4. QED
  BY <1>1, <1>2, <1>3, PTL DEF Spec, ImplementsTrails, OnRecord!Spec, readings

-----------------------------------------------------------------------------
(* The tables                                                              *)

UniqueIds(rows) ==
  /\ \A d \in rows : d.id < nextRow
  /\ \A d, e \in rows : d.id = e.id => d = e

\* What a commit does to the list of reviews: it opens one, rewrites one or
\* leaves them, and it makes what k saw the table.
LEMMA CommitFacts ==
  ASSUME Inv, NEW k \in Keys, Commit(k)
  PROVE  /\ disp' = Visible(k) /\ nextRow' = nextRow /\ pc'[k] = "idle" /\ mine'[k] = {}
         /\ req'[k] = NoRequest /\ pc[k] = "commit" /\ Len(reviews) \in Nat
         /\ DOMAIN reviews = 1..Len(reviews) /\ DOMAIN reviews' = 1..Len(reviews')
         /\ \/ /\ req[k].kind \in Opening
               /\ Len(reviews') = Len(reviews) + 1
               /\ reviews'[Len(reviews) + 1] = Opened(k)
               /\ \A i \in 1..Len(reviews) : reviews'[i] = reviews[i]
            \/ /\ req[k].kind \in Rewriting
               /\ Len(reviews') = Len(reviews)
               /\ reviews'[req[k].review] = Rewritten(k, reviews[req[k].review])
               /\ \A i \in 1..Len(reviews) : i # req[k].review => reviews'[i] = reviews[i]
            \/ req[k].kind \notin Opening \cup Rewriting /\ reviews' = reviews
<1>1. TypeOK /\ RequestFits(k) /\ reviews \in Seq(Review) /\ DOMAIN reviews = 1..Len(reviews)
      /\ Len(reviews) \in Nat
  BY LenProperties DEF Inv, TypeOK
<1>2. Inv' /\ reviews' \in Seq(Review) /\ DOMAIN reviews' = 1..Len(reviews')
  BY CommitInv, LenProperties DEF Inv, TypeOK
<1>3. /\ disp' = Visible(k) /\ nextRow' = nextRow /\ pc'[k] = "idle" /\ mine'[k] = {}
      /\ req'[k] = NoRequest /\ pc[k] = "commit"
  BY <1>1 DEF Commit, Release, TypeOK
<1>4. CASE req[k].kind \in Opening
  <2> DEFINE o == Opened(k)
  <2>1. reviews' = Append(reviews, o)
    BY <1>4 DEF Commit, Opening
  <2>2. o \in Review
    BY <1>3, <1>4 DEF Inv, DraftFits, Good
  <2> HIDE DEF o
  <2>3. /\ Len(reviews') = Len(reviews) + 1
        /\ \A i \in 1..Len(reviews) : reviews'[i] = reviews[i]
        /\ reviews'[Len(reviews) + 1] = o
    BY <1>1, <2>1, <2>2, AppendProperties
  <2>4. QED
    BY <1>1, <1>2, <1>3, <1>4, <2>3 DEF o
<1>5. CASE req[k].kind \in Rewriting
  <2> DEFINE o == Rewritten(k, reviews[req[k].review])
  <2>1. o \in Review /\ req[k].review \in 1..Len(reviews)
    BY <1>1, <1>3, <1>5 DEF Inv, DraftFits, Good, RequestFits
  <2> HIDE DEF o
  <2>2. reviews' = [reviews EXCEPT ![req[k].review] = o]
    BY <1>5 DEF Commit, Rewriting, o
  <2>3. /\ Len(reviews') = Len(reviews)
        /\ \A i \in 1..Len(reviews) :
             reviews'[i] = IF i = req[k].review THEN o ELSE reviews[i]
    BY <1>1, <2>1, <2>2, ExceptSeq
  <2>4. QED
    BY <1>1, <1>2, <1>3, <1>5, <2>1, <2>3 DEF o
<1>6. CASE req[k].kind \notin Opening \cup Rewriting
  <2>1. reviews' = reviews
    BY <1>6 DEF Commit, Opening, Rewriting
  <2>2. QED
    BY <1>1, <1>2, <1>3, <1>6, <2>1
<1>7. QED
  BY <1>4, <1>5, <1>6

\* Nothing but a commit changes a table that others see.
LEMMA OnlyCommits ==
  ASSUME [Next]_vars
  PROVE  (reviews' = reviews /\ disp' = disp) \/ \E k \in Keys : Commit(k)
<1>1. CASE UNCHANGED vars \/ Finished
  BY <1>1 DEF vars, db, Finished
<1>2. ASSUME NEW k \in Keys, plan(k) \/ create_review(k) \/ submit(k) \/ respond(k)
      PROVE  reviews' = reviews /\ disp' = disp
  BY <1>2, Zenon DEF plan, create_review, submit, respond, Begin, db
<1>3. ASSUME NEW k \in Keys, Abort(k) \/ DeadlockVictim(k) PROVE reviews' = reviews /\ disp' = disp
  BY <1>3 DEF Abort, DeadlockVictim, Rollback, db
<1>4. ASSUME NEW k \in Keys, Work(k) PROVE (reviews' = reviews /\ disp' = disp) \/ Commit(k)
  BY <1>4 DEF Work, _examine, _reconcile_fixed, confirm_fixed, revoke, Update, _settle, _own_review,
              set, insert, Rule, Rollback, db
<1>5. QED
  BY <1>1, <1>2, <1>3, <1>4 DEF Next
-----------------------------------------------------------------------------
(* Sums over the trails                                                    *)

\* A sum is a fold with +.
Adding == INSTANCE FoldFacts WITH op <- +

LEMMA SumIsFold == \A f, S : SumFunctionOnSet(f, S) = Adding!Fold(0, f, S)
BY DEF SumFunctionOnSet, FoldFunctionOnSet, MapThenFoldSet,
       Adding!Fold, Adding!FoldFunctionOnSet, Adding!MapThenFoldSet

LEMMA SumOfNone == ASSUME NEW f, DOMAIN f = {} PROVE SumFunction(f) = 0
<1>1. SumFunction(f) = Adding!Fold(0, f, {})
  BY SumIsFold DEF SumFunction
<1>2. QED
  BY <1>1, Adding!FoldEmpty

\* A sum is a number, and any of its terms can be taken out.
LEMMA SumTakesOut ==
  ASSUME NEW S, IsFiniteSet(S), NEW f \in [S -> Nat]
  PROVE  /\ SumFunction(f) \in Nat
         /\ \A y \in S : SumFunction(f) = f[y] + SumFunction([s \in S \ {y} |-> f[s]])
<1> DEFINE D == {<<a, a>> : a \in Nat}
<1>1. /\ Adding!Abelian(Nat) /\ 0 \in Nat
      /\ \A a, b \in Nat : a + b \in Nat
  BY DEF Adding!Abelian
<1>2. \A a, b : <<a, b>> \in D <=> a \in Nat /\ a = b
  OBVIOUS
<1>3. \A a, c \in Nat, b, d \in Nat : <<a, b>> \in D /\ <<c, d>> \in D => <<a + c, b + d>> \in D
  BY <1>1, <1>2
<1>4. <<0, 0>> \in D
  BY <1>2
<1>5. Adding!IsFiniteSet(S)
  BY DEF IsFiniteSet, Adding!IsFiniteSet
<1>6. SumFunction(f) = Adding!Fold(0, f, S)
  BY SumIsFold DEF SumFunction
<1>7. SumFunction(f) \in Nat
  <2>1. \A i \in S : f[i] \in Nat
    OBVIOUS
  <2> HIDE DEF D
  <2>2. Adding!Fold(0, f, S) \in Nat
    BY <1>1, <1>5, <2>1, Adding!FoldType
  <2>3. QED
    BY <1>6, <2>2
<1>8. ASSUME NEW y \in S PROVE SumFunction(f) = f[y] + SumFunction([s \in S \ {y} |-> f[s]])
  <2> DEFINE T == S \ {y}
             g == [s \in T |-> f[s]]
  <2>1. Adding!Fold(0, f, S) = f[y] + Adding!Fold(0, f, T)
    <3>1. \A i \in S : f[i] \in Nat
      OBVIOUS
    <3> HIDE DEF D
    <3>2. QED
      BY <1>1, <1>5, <3>1, Adding!FoldTakesOut
  <2>2. IsFiniteSet(T)
    BY FS_Subset
  <2>3. Adding!IsFiniteSet(T)
    BY <2>2 DEF IsFiniteSet, Adding!IsFiniteSet
  <2>4. \A i \in T : f[i] \in Nat /\ g[i] \in Nat /\ <<f[i], g[i]>> \in D
    BY <1>2
  <2>5. DOMAIN g = T
    OBVIOUS
  <2> HIDE DEF D, T, g
  <2>6. <<Adding!Fold(0, f, T), Adding!Fold(0, g, T)>> \in D
    BY <1>1, <1>3, <1>4, <2>3, <2>4, Adding!FoldRelated
  <2>7. SumFunction(g) = Adding!Fold(0, f, T)
    BY <1>2, <2>5, <2>6, SumIsFold DEF SumFunction
  <2>8. QED
    BY <1>6, <2>1, <2>7 DEF g, T
<1>9. QED
  BY <1>7, <1>8

\* The terms of g are those of f and one more, at y.
OneMoreTerm(S, y, f, g) ==
  /\ IsFiniteSet(S) /\ y \notin S /\ f \in [S -> Nat] /\ g \in [S \cup {y} -> Nat]
  /\ \A s \in S : g[s] = f[s]

LEMMA SumOfOneMore ==
  ASSUME NEW S, NEW y, NEW f, NEW g, OneMoreTerm(S, y, f, g)
  PROVE  SumFunction(g) = SumFunction(f) + g[y]
<1>0. /\ IsFiniteSet(S) /\ y \notin S /\ f \in [S -> Nat] /\ g \in [S \cup {y} -> Nat]
      /\ \A s \in S : g[s] = f[s]
  BY DEF OneMoreTerm
<1> DEFINE T == S \cup {y}
<1>1. IsFiniteSet(T)
  BY <1>0, FS_AddElement
<1>2. SumFunction(g) = g[y] + SumFunction([s \in T \ {y} |-> g[s]])
  <2>1. g \in [T -> Nat] /\ y \in T
    BY <1>0
  <2> HIDE DEF T
  <2>2. QED
    BY <1>1, <2>1, SumTakesOut
<1>3. [s \in T \ {y} |-> g[s]] = f
  <2>1. T \ {y} = S
    BY <1>0
  <2>2. [s \in S |-> g[s]] = f
    BY <1>0
  <2>3. QED
    BY <2>1, <2>2
<1>4. SumFunction(f) \in Nat /\ g[y] \in Nat
  BY <1>0, SumTakesOut
<1>5. QED
  BY <1>2, <1>3, <1>4

\* One term changed.
LEMMA SumOfOneChanged ==
  ASSUME NEW S, IsFiniteSet(S), NEW y \in S, NEW f \in [S -> Nat], NEW g \in [S -> Nat],
         \A s \in S \ {y} : g[s] = f[s]
  PROVE  SumFunction(g) + f[y] = SumFunction(f) + g[y]
<1> DEFINE rest == [s \in S \ {y} |-> f[s]]
<1>1. [s \in S \ {y} |-> g[s]] = rest
  OBVIOUS
<1>2. SumFunction(f) = f[y] + SumFunction(rest) /\ SumFunction(g) = g[y] + SumFunction(rest)
  BY <1>1, SumTakesOut
<1>3. SumFunction(rest) \in Nat
  <2>1. IsFiniteSet(S \ {y}) /\ rest \in [S \ {y} -> Nat]
    BY FS_Subset
  <2> HIDE DEF rest
  <2>2. QED
    BY <2>1, SumTakesOut
<1> HIDE DEF rest
<1>4. f[y] \in Nat /\ g[y] \in Nat
  OBVIOUS
<1>5. QED
  BY <1>2, <1>3, <1>4

\* The steps of a trail that count for a kind.
Positions(r, kind) == {t \in DOMAIN r.steps : r.steps[t].kind = kind}

LEMMA OnTrailType ==
  ASSUME NEW r, r.steps \in Seq(Step), NEW kind
  PROVE  /\ IsFiniteSet(Positions(r, kind))
         /\ [s \in Positions(r, kind) |-> r.steps[s].n] \in [Positions(r, kind) -> Nat]
         /\ OnTrail(r, kind) = SumFunction([s \in Positions(r, kind) |-> r.steps[s].n])
         /\ OnTrail(r, kind) \in Nat
<1>1. DOMAIN r.steps = 1..Len(r.steps) /\ Len(r.steps) \in Nat
  BY LenProperties
<1>2. IsFiniteSet(DOMAIN r.steps)
  <2>1. 1 \in Int /\ Len(r.steps) \in Int
    BY <1>1
  <2>2. QED
    BY <1>1, <2>1, FS_Interval
<1>3. IsFiniteSet(Positions(r, kind))
  BY <1>2, FS_Subset DEF Positions
<1>4. \A s \in DOMAIN r.steps : r.steps[s] \in Step
  BY <1>1, ElementOfSeq
<1>5. \A s \in DOMAIN r.steps : r.steps[s].n \in Nat
  BY <1>4 DEF Step
<1> DEFINE f == [s \in Positions(r, kind) |-> r.steps[s].n]
<1>6. f \in [Positions(r, kind) -> Nat]
  BY <1>5 DEF Positions
<1>7. OnTrail(r, kind) = SumFunction(f)
  BY DEF OnTrail, Positions
<1> HIDE DEF f
<1>8. SumFunction(f) \in Nat
  BY <1>3, <1>6, SumTakesOut
<1>9. QED
  BY <1>3, <1>6, <1>7, <1>8 DEF f

\* A request adds n to what the trails hold of a kind, with one step or with none.
Gives(steps, kind, n) ==
  \/ n = 0 /\ \A s \in DOMAIN steps : steps[s].kind # kind
  \/ \E s \in DOMAIN steps : /\ steps[s].kind = kind /\ steps[s].n = n
                             /\ \A t \in DOMAIN steps : steps[t].kind = kind => t = s

\* The trail of q is the trail of r and more.
Lengthened(r, more, q) ==
  r.steps \in Seq(Step) /\ more \in Seq(Step) /\ q.steps = r.steps \o more

\* A trail that grows by such steps.
LEMMA LongerTrail ==
  ASSUME NEW r, NEW more, NEW q, Lengthened(r, more, q), NEW kind, NEW n, Gives(more, kind, n)
  PROVE  OnTrail(q, kind) = OnTrail(r, kind) + n
<1>0. r.steps \in Seq(Step) /\ more \in Seq(Step) /\ q.steps = r.steps \o more
  BY DEF Lengthened
<1> DEFINE P == Positions(r, kind)
           Q == Positions(q, kind)
           f == [s \in P |-> r.steps[s].n]
           g == [s \in Q |-> q.steps[s].n]
           L == Len(r.steps)
           M == Len(more)
<1>1. /\ q.steps \in Seq(Step) /\ Len(q.steps) = L + M /\ L \in Nat /\ M \in Nat
      /\ DOMAIN r.steps = 1..L /\ DOMAIN more = 1..M /\ DOMAIN q.steps = 1..(L + M)
      /\ \A i \in 1..L : q.steps[i] = r.steps[i]
      /\ \A i \in 1..M : q.steps[L + i] = more[i]
  BY <1>0, LenProperties, ConcatProperties
<1>2. /\ IsFiniteSet(P) /\ f \in [P -> Nat] /\ OnTrail(r, kind) = SumFunction(f) /\ SumFunction(f) \in Nat
      /\ g \in [Q -> Nat] /\ OnTrail(q, kind) = SumFunction(g)
  BY <1>0, <1>1, OnTrailType
<1>3. P \subseteq 1..L
  BY <1>1 DEF Positions
<1>4. \A i \in Q : i \in P \/ \E s \in 1..M : i = L + s /\ more[s].kind = kind
  <2>1. ASSUME NEW i \in 1..(L + M), q.steps[i].kind = kind, i \notin 1..L
        PROVE  \E s \in 1..M : i = L + s /\ more[s].kind = kind
    <3>1. i - L \in 1..M /\ i = L + (i - L)
      BY <1>1, <2>1
    <3>2. q.steps[L + (i - L)] = more[i - L]
      BY <1>1, <3>1
    <3>3. QED
      BY <2>1, <3>1, <3>2
  <2>2. QED
    BY <1>1, <2>1 DEF Positions
<1>5. P \subseteq Q /\ \A s \in P : g[s] = f[s]
  <2>1. 1..L \subseteq 1..(L + M)
    BY <1>1
  <2>2. QED
    BY <1>1, <2>1 DEF Positions
<1>6. CASE n = 0 /\ \A s \in DOMAIN more : more[s].kind # kind
  <2>1. Q = P
    BY <1>1, <1>4, <1>5, <1>6
  <2>2. g = f
    BY <1>5, <2>1
  <2> HIDE DEF f, g
  <2>3. QED
    BY <1>2, <1>6, <2>2
<1>7. CASE \E s \in DOMAIN more : /\ more[s].kind = kind /\ more[s].n = n
                                  /\ \A t \in DOMAIN more : more[t].kind = kind => t = s
  <2>1. PICK s \in 1..M : /\ more[s].kind = kind /\ more[s].n = n
                          /\ \A t \in 1..M : more[t].kind = kind => t = s
    BY <1>1, <1>7
  <2> DEFINE y == L + s
  <2>2. y \in 1..(L + M) /\ y \notin 1..L /\ q.steps[y] = more[s]
    BY <1>1, <2>1
  <2>3. y \in Q /\ y \notin P
    BY <1>1, <1>3, <2>1, <2>2 DEF Positions
  <2>4. Q = P \cup {y}
    BY <1>4, <1>5, <2>1, <2>3
  <2>5. g[y] = n
    BY <2>1, <2>2, <2>3
  <2> HIDE DEF y, P, Q, f, g
  <2>5a. OneMoreTerm(P, y, f, g)
    BY <1>2, <1>5, <2>3, <2>4 DEF OneMoreTerm
  <2>6. SumFunction(g) = SumFunction(f) + g[y]
    BY <2>5a, SumOfOneMore
  <2>7. QED
    BY <1>2, <2>5, <2>6
<1>8. QED
  BY <1>6, <1>7 DEF Gives

\* A trail that begins with such steps.
LEMMA FirstTrail ==
  ASSUME NEW q, q.steps \in Seq(Step), NEW kind, NEW n, Gives(q.steps, kind, n)
  PROVE  OnTrail(q, kind) = n
<1> DEFINE r == [steps |-> <<>>]
<1>1. r.steps = <<>> /\ r.steps \in Seq(Step) /\ DOMAIN r.steps = {}
  BY EmptySeq
<1>2. q.steps = r.steps \o q.steps
  BY <1>1, ConcatEmptySeq
<1>3. OnTrail(r, kind) = 0
  <2> DEFINE f == [s \in {t \in DOMAIN r.steps : r.steps[t].kind = kind} |-> r.steps[s].n]
  <2>1. DOMAIN f = {}
    BY <1>1
  <2>2. OnTrail(r, kind) = SumFunction(f)
    BY DEF OnTrail
  <2> HIDE DEF f
  <2>3. QED
    BY <2>1, <2>2, SumOfNone
<1> HIDE DEF r
<1>4. OnTrail(q, kind) = OnTrail(r, kind) + n
  <2>1. Lengthened(r, q.steps, q)
    BY <1>1, <1>2 DEF Lengthened
  <2>2. QED
    BY <2>1, LongerTrail
<1>5. n \in Nat
  <2>1. CASE n = 0
    BY <2>1
  <2>2. CASE \E s \in DOMAIN q.steps : q.steps[s].n = n
    <3>1. \A s \in DOMAIN q.steps : q.steps[s] \in Step
      BY LenProperties, ElementOfSeq
    <3>2. QED
      BY <2>2, <3>1 DEF Step
  <2>3. QED
    BY <2>1, <2>2 DEF Gives
<1>6. QED
  BY <1>3, <1>4, <1>5

\* What a commit adds to the trails is what its own steps give.
LEMMA CommitOnTrails ==
  ASSUME Inv, NEW k \in Keys, Commit(k), NEW kind, NEW n \in Nat,
         req[k].kind \in Opening \cup Rewriting => Gives(draft[k].steps, kind, n),
         req[k].kind \notin Opening \cup Rewriting => n = 0
  PROVE  OnTrails(kind)' = OnTrails(kind) + n /\ OnTrails(kind) \in Nat
<1> DEFINE N == Len(reviews)
           f == [i \in 1..N |-> OnTrail(reviews[i], kind)]
           g == [i \in 1..Len(reviews') |-> OnTrail(reviews'[i], kind)]
<1>1. /\ N \in Nat /\ DOMAIN reviews = 1..N /\ DOMAIN reviews' = 1..Len(reviews')
  BY CommitFacts
<1>2. OnTrails(kind) = SumFunction(f) /\ OnTrails(kind)' = SumFunction(g)
  BY <1>1 DEF OnTrails, OnTrail
<1>3. IsFiniteSet(1..N)
  <2>1. 1 \in Int /\ N \in Int
    BY <1>1
  <2>2. QED
    BY <2>1, FS_Interval
<1>4. reviews \in Seq(Review) /\ reviews' \in Seq(Review) /\ draft[k].steps \in Seq(Step)
  BY CommitInv DEF Inv, TypeOK, Draft
<1>5. \A i \in 1..N : reviews[i] \in Review /\ reviews[i].steps \in Seq(Step)
  <2>1. \A i \in 1..N : reviews[i] \in Review
    BY <1>4, ElementOfSeq
  <2>2. QED
    BY <2>1 DEF Review
<1>6. \A i \in 1..Len(reviews') : reviews'[i].steps \in Seq(Step)
  <2>1. \A i \in 1..Len(reviews') : reviews'[i] \in Review
    BY <1>4, ElementOfSeq
  <2>2. QED
    BY <2>1 DEF Review
<1>7. f \in [1..N -> Nat] /\ g \in [1..Len(reviews') -> Nat]
  BY <1>5, <1>6, OnTrailType
<1>8. SumFunction(f) \in Nat
  <2> HIDE DEF f
  <2>1. QED
    BY <1>3, <1>7, SumTakesOut
<1>9. CASE req[k].kind \in Opening
  <2>1. /\ Len(reviews') = N + 1 /\ reviews'[N + 1] = Opened(k)
        /\ \A i \in 1..N : reviews'[i] = reviews[i]
    BY <1>9, CommitFacts DEF Opening, Rewriting
  <2>2. Opened(k).steps = draft[k].steps
    BY DEF Opened
  <2>3. OnTrail(Opened(k), kind) = n
    BY <1>4, <1>9, <2>2, FirstTrail
  <2>4. 1..Len(reviews') = 1..N \cup {N + 1} /\ N + 1 \notin 1..N
    BY <1>1, <2>1
  <2>5. g[N + 1] = n /\ \A i \in 1..N : g[i] = f[i]
    BY <2>1, <2>3, <2>4
  <2> DEFINE S == 1..N
             y == N + 1
  <2> HIDE DEF f, g
  <2>6. OneMoreTerm(S, y, f, g)
    BY <1>3, <1>7, <2>4, <2>5 DEF OneMoreTerm
  <2> HIDE DEF S, y
  <2>7. SumFunction(g) = SumFunction(f) + g[y]
    BY <2>6, SumOfOneMore
  <2> USE DEF y
  <2>8. QED
    BY <1>2, <1>8, <2>5, <2>7
<1>10. CASE req[k].kind \in Rewriting
  <2> DEFINE y == req[k].review
             o == Rewritten(k, reviews[y])
  <2>1. y \in 1..N
    BY <1>10 DEF Inv, RequestFits
  <2>2. /\ Len(reviews') = N /\ reviews'[y] = o
        /\ \A i \in 1..N \ {y} : reviews'[i] = reviews[i]
    BY <1>1, <1>10, CommitFacts DEF Opening, Rewriting
  <2>3. o.steps = reviews[y].steps \o draft[k].steps
    <3>1. reviews[y] \in Review
      BY <1>5, <2>1
    <3>2. QED
      BY <3>1 DEF Rewritten, Review
  <2>4. OnTrail(o, kind) = OnTrail(reviews[y], kind) + n
    <3>1. Lengthened(reviews[y], draft[k].steps, o)
      BY <1>4, <1>5, <2>1, <2>3 DEF Lengthened
    <3> HIDE DEF o, y
    <3>2. QED
      BY <1>10, <3>1, LongerTrail
  <2>5. g \in [1..N -> Nat] /\ g[y] = f[y] + n /\ \A i \in 1..N \ {y} : g[i] = f[i]
    BY <1>7, <2>1, <2>2, <2>4
  <2> DEFINE S == 1..N
  <2> HIDE DEF f, g, y
  <2>5a. /\ IsFiniteSet(S) /\ y \in S /\ f \in [S -> Nat] /\ g \in [S -> Nat]
        /\ \A s \in S \ {y} : g[s] = f[s]
    BY <1>3, <1>7, <2>1, <2>5
  <2> HIDE DEF S
  <2>6. SumFunction(g) + f[y] = SumFunction(f) + g[y]
    BY <2>5a, SumOfOneChanged
  <2>7. SumFunction(g) \in Nat /\ f[y] \in Nat
    BY <2>5a, SumTakesOut
  <2>8. g[y] = f[y] + n
    BY <2>5
  <2>9. SumFunction(g) = SumFunction(f) + n
    <3> SUFFICES ASSUME NEW a \in Nat, NEW b \in Nat, NEW c \in Nat, NEW d \in Nat,
                        d = c + n, a + c = b + d
                 PROVE  a = b + n
      BY <1>8, <2>6, <2>7, <2>8
    <3> QED
      OBVIOUS
  <2>10. QED
    BY <1>2, <1>8, <2>9
<1>11. CASE req[k].kind \notin Opening \cup Rewriting
  <2>1. reviews' = reviews
    BY <1>11, CommitFacts
  <2>2. QED
    BY <1>2, <1>8, <1>11, <2>1
<1>12. QED
  BY <1>9, <1>10, <1>11
-----------------------------------------------------------------------------
(* The answers on the trail, however many keys write at once               *)

Ids(rows) == {d.id : d \in rows}

\* The rows a transaction has inserted; the rest of mine[k] are versions of
\* committed rows.
Inserted(k) == Ids(mine[k]) \ Ids(disp)

\* A respond has inserted an answer for each response it is past.
InsertedFits(k) ==
  /\ IsFiniteSet(Inserted(k))
  /\ Cardinality(Inserted(k)) = IF at[k] = 0 THEN 0 ELSE at[k] - 1
  /\ pc[k] \notin {"answer", "answering", "insert", "rule", "commit"} => at[k] = 0
  /\ req[k].kind \notin Rewriting => at[k] = 0
  /\ req[k].kind # "respond" => req[k].batch = <<>> /\ at[k] \in {0, 1}
  /\ req[k].kind = "respond" /\ pc[k] \in {"rule", "commit"} => at[k] = Len(req[k].batch) + 1
  /\ pc[k] = "idle" => mine[k] = {}

\* What the request will have answered, and confirmed, when it commits.
Answers(k) == IF req[k].kind = "respond" THEN Len(req[k].batch) ELSE 0
Confirms(k) == IF req[k].kind \in Opening THEN Cardinality(confirmed(k)) ELSE 0

\* The steps about to be committed say both.
StepsTell(k) ==
  pc[k] = "commit" /\ req[k].kind \in Opening \cup Rewriting =>
    /\ Gives(draft[k].steps, "responses", Answers(k))
    /\ Gives(draft[k].steps, "plan", Confirms(k))

\* No row is written by two transactions at once.
Apart == \A j, k \in Keys : j # k => Ids(mine[j]) \cap Ids(mine[k]) = {}

\* The inductive invariant: a transaction has as many rows of its own as answers
\* it is past, and nobody else commits or rewrites them meanwhile.
RowsInv ==
  /\ Inv
  /\ IsFiniteSet(Ids(disp)) /\ UniqueIds(disp)
  /\ \A k \in Keys : UniqueIds(mine[k]) /\ InsertedFits(k) /\ StepsTell(k)
  /\ Apart
  /\ EveryAnswerOnTheTrail

\* Rows with ids of their own are as many as the ids.
LEMMA RowsByIds ==
  ASSUME NEW rows, UniqueIds(rows), IsFiniteSet(Ids(rows))
  PROVE  IsFiniteSet(rows) /\ Cardinality(rows) = Cardinality(Ids(rows))
<1> DEFINE S == Ids(rows)
           f == [i \in S |-> CHOOSE d \in rows : d.id = i]
<1>1. ASSUME NEW i \in S PROVE f[i] \in rows /\ f[i].id = i
  BY DEF Ids
<1>2. ASSUME NEW d \in rows PROVE d.id \in S /\ f[d.id] = d
  <2>1. d.id \in S
    BY DEF Ids
  <2>2. f[d.id] \in rows /\ f[d.id].id = d.id
    BY <1>1, <2>1
  <2>3. QED
    BY <2>1, <2>2 DEF UniqueIds
<1>3. f \in [S -> rows]
  BY <1>1
<1> HIDE DEF f, S
<1>4. f \in Surjection(S, rows) /\ f \in Injection(S, rows)
  BY <1>1, <1>2, <1>3 DEF Surjection, Injection, IsInjective
<1>5. IsFiniteSet(S)
  BY DEF S
<1>6. IsFiniteSet(rows) /\ Cardinality(rows) = Cardinality(S)
  BY <1>4, <1>5, FS_Surjection
<1>7. QED
  BY <1>6 DEF S

\* What k sees has ids of its own: the committed ones and the inserted ones.
LEMMA VisibleIds ==
  ASSUME RowsInv, NEW k \in Keys
  PROVE  /\ UniqueIds(Visible(k)) /\ Ids(Visible(k)) = Ids(disp) \cup Inserted(k)
         /\ Ids(Visible(k)) = Ids(disp) \cup Ids(mine[k])
<1>1. UniqueIds(disp) /\ UniqueIds(mine[k])
  BY DEF RowsInv
<1>2. UniqueIds(Visible(k))
  BY <1>1 DEF UniqueIds, Visible
<1>3. Ids(Visible(k)) = Ids(disp) \cup Ids(mine[k])
  BY DEF Ids, Visible
<1>4. QED
  BY <1>2, <1>3 DEF Inserted

\* The other keys keep their rows and claims.
OthersRows(k) == \A j \in Keys \ {k} : mine'[j] = mine[j] /\ claims'[j] = claims[j]

\* A step of k that commits nothing, and takes no row another key has written.
LEMMA RowsFrame ==
  ASSUME RowsInv, NEW k \in Keys, Inv', reviews' = reviews, disp' = disp, nextRow <= nextRow',
         Others(k), OthersRows(k), UniqueIds(mine[k])', InsertedFits(k)', StepsTell(k)',
         \A i \in Ids(mine'[k]) : i \in Ids(mine[k]) \/ \A j \in Keys \ {k} : i \notin Ids(mine[j])
  PROVE  RowsInv'
<1>1. nextRow \in Nat /\ nextRow' \in Nat /\ disp \in SUBSET DispRow /\ mine \in [Keys -> SUBSET DispRow]
  BY DEF RowsInv, Inv, TypeOK
<1>2. ASSUME NEW rows \in SUBSET DispRow, UniqueIds(rows) PROVE \A d \in rows : d.id < nextRow'
  BY <1>1, <1>2 DEF UniqueIds, DispRow
<1>3. UniqueIds(disp)'
  BY <1>1, <1>2 DEF RowsInv, UniqueIds
<1>4. ASSUME NEW j \in Keys PROVE UniqueIds(mine[j])' /\ InsertedFits(j)' /\ StepsTell(j)'
  <2>1. CASE j = k
    BY <2>1
  <2>2. CASE j # k
    <3>1. /\ pc'[j] = pc[j] /\ req'[j] = req[j] /\ at'[j] = at[j] /\ draft'[j] = draft[j]
          /\ mine'[j] = mine[j] /\ claims'[j] = claims[j]
      BY <2>2 DEF Others, OthersRows
    <3>2. UniqueIds(mine[j]) /\ InsertedFits(j) /\ StepsTell(j)
      BY DEF RowsInv
    <3>3. UniqueIds(mine[j])'
      BY <1>1, <1>2, <3>1, <3>2 DEF UniqueIds
    <3>4. Inserted(j)' = Inserted(j)
      BY <3>1 DEF Inserted, Ids
    <3>5. InsertedFits(j)'
      BY <3>1, <3>2, <3>4 DEF InsertedFits
    <3>6. Answers(j)' = Answers(j) /\ Confirms(j)' = Confirms(j)
      BY <3>1 DEF Answers, Confirms, confirmed
    <3>7. StepsTell(j)'
      BY <3>1, <3>2, <3>6 DEF StepsTell
    <3>8. QED
      BY <3>3, <3>5, <3>7
  <2>3. QED
    BY <2>1, <2>2
<1>5. ASSUME NEW i \in Keys, NEW j \in Keys, i # j PROVE Ids(mine'[i]) \cap Ids(mine'[j]) = {}
  <2>1. Ids(mine[i]) \cap Ids(mine[j]) = {}
    BY <1>5 DEF RowsInv, Apart
  <2>2. CASE i # k /\ j # k
    BY <2>1, <2>2 DEF OthersRows
  <2>3. CASE i = k
    BY <1>5, <2>1, <2>3 DEF OthersRows
  <2>4. CASE j = k
    BY <1>5, <2>1, <2>4 DEF OthersRows
  <2>5. QED
    BY <2>2, <2>3, <2>4
<1>6. Apart'
  BY <1>5 DEF Apart, Ids
<1>7. EveryAnswerOnTheTrail'
  BY DEF RowsInv, EveryAnswerOnTheTrail, OnTrails, OnTrail
<1>8. IsFiniteSet(Ids(disp))'
  BY DEF RowsInv, Ids
<1>9. QED
  BY <1>3, <1>4, <1>6, <1>7, <1>8 DEF RowsInv

\* A transaction that rolls back takes its rows with it.
LEMMA RollbackRows ==
  ASSUME RowsInv, NEW k \in Keys, Rollback(k)
  PROVE  RowsInv'
<1>1. Inv' /\ TypeOK
  BY RollbackInv DEF RowsInv, Inv
<1>2. /\ reviews' = reviews /\ disp' = disp /\ nextRow' = nextRow /\ nextRow \in Nat
      /\ pc'[k] = "idle" /\ req'[k] = NoRequest /\ mine'[k] = {} /\ at'[k] = 0
      /\ Others(k) /\ OthersRows(k)
  BY <1>1, ReleaseFacts DEF Rollback, Release, TypeOK, db, OthersRows
<1>3. Inserted(k)' = {}
  BY <1>2 DEF Inserted, Ids
<1>4. InsertedFits(k)'
  BY <1>2, <1>3, FS_EmptySet DEF InsertedFits, NoRequest, Rewriting
<1>5. UniqueIds(mine[k])' /\ StepsTell(k)' /\ Ids(mine'[k]) = {}
  BY <1>2 DEF UniqueIds, StepsTell, Ids
<1>6. nextRow <= nextRow' /\ \A i \in Ids(mine'[k]) : i \in Ids(mine[k])
  BY <1>2, <1>5
<1>7. QED
  BY <1>1, <1>2, <1>4, <1>5, <1>6, RowsFrame

\* A step that writes no row and is not the verdict.
LEMMA ReadRows ==
  ASSUME RowsInv, NEW k \in Keys, Inv', UNCHANGED <<reviews, disp, nextRow, mine>>,
         Others(k), OthersRows(k), InsertedFits(k)', StepsTell(k)'
  PROVE  RowsInv'
<1>1. UniqueIds(mine[k])' /\ nextRow \in Nat
  BY DEF RowsInv, UniqueIds, Inv, TypeOK
<1>2. QED
  BY <1>1, RowsFrame

\* A request begins with no row of its own.
LEMMA BeginRows ==
  ASSUME RowsInv, NEW k \in Keys, Inv', NEW r, NEW where \in {"examine", "lock"},
         r.kind # "respond" => r.batch = <<>>, Begin(k, r, where)
  PROVE  RowsInv'
<1>1. TypeOK
  BY DEF RowsInv, Inv
<1> DEFINE s == [r EXCEPT !.before = disp]
<1>2. /\ UNCHANGED <<reviews, disp, nextRow, mine, at, claims, held, draft>>
      /\ pc[k] = "idle" /\ pc'[k] = where /\ req'[k] = s /\ Others(k) /\ OthersRows(k)
  BY <1>1 DEF Begin, db, TypeOK, Others, OthersRows
<1>2a. s.kind = "respond" \/ s.batch = <<>>
  BY DEF s
<1> HIDE DEF s
<1>3. Inserted(k)' = Inserted(k) /\ at[k] = 0 /\ InsertedFits(k)
  BY <1>2 DEF Inserted, Ids, RowsInv, InsertedFits
<1>4. InsertedFits(k)'
  BY <1>2, <1>2a, <1>3 DEF InsertedFits
<1>5. StepsTell(k)'
  BY <1>2 DEF StepsTell
<1>6. QED
  BY <1>2, <1>4, <1>5, ReadRows

LEMMA ArrivalRows ==
  ASSUME RowsInv, NEW k \in Keys, plan(k) \/ create_review(k) \/ submit(k) \/ respond(k)
  PROVE  RowsInv'
<1>1. Inv'
  BY ArrivalInv DEF RowsInv
<1>2. CASE plan(k)
  <2>1. PICK kind \in {"plan", "plan_v1"}, fps \in Analyses :
          Begin(k, [NoRequest EXCEPT !.kind = kind, !.fps = fps], "examine")
    BY <1>2, Zenon DEF plan
  <2> DEFINE r == [NoRequest EXCEPT !.kind = kind, !.fps = fps]
  <2>2. r.batch = <<>>
    BY DEF NoRequest
  <2> HIDE DEF r
  <2>3. QED
    BY <1>1, <2>1, <2>2, BeginRows DEF r
<1>3. CASE create_review(k)
  <2>1. PICK fps \in Analyses, sub \in Submissions :
          Begin(k, [NoRequest EXCEPT !.kind = "create", !.fps = fps, !.sub = sub], "examine")
    BY <1>3, Zenon DEF create_review
  <2> DEFINE r == [NoRequest EXCEPT !.kind = "create", !.fps = fps, !.sub = sub]
  <2>2. r.batch = <<>>
    BY DEF NoRequest
  <2> HIDE DEF r
  <2>3. QED
    BY <1>1, <2>1, <2>2, BeginRows DEF r
<1>4. CASE submit(k)
  <2>1. PICK i \in DOMAIN reviews, sub \in Submissions :
          Begin(k, [NoRequest EXCEPT !.kind = "submit", !.review = i, !.sub = sub], "lock")
    BY <1>4, Zenon DEF submit
  <2> DEFINE r == [NoRequest EXCEPT !.kind = "submit", !.review = i, !.sub = sub]
  <2>2. r.batch = <<>>
    BY DEF NoRequest
  <2> HIDE DEF r
  <2>3. QED
    BY <1>1, <2>1, <2>2, BeginRows DEF r
<1>5. CASE respond(k)
  <2>1. PICK i \in DOMAIN reviews, batch \in Batches :
          Begin(k, [NoRequest EXCEPT !.kind = "respond", !.review = i, !.batch = batch], "lock")
    BY <1>5, Zenon DEF respond
  <2> DEFINE r == [NoRequest EXCEPT !.kind = "respond", !.review = i, !.batch = batch]
  <2>2. r.kind = "respond"
    BY DEF NoRequest
  <2> HIDE DEF r
  <2>3. QED
    BY <1>1, <2>1, <2>2, BeginRows DEF r
<1>6. QED
  BY <1>2, <1>3, <1>4, <1>5

\* A statement that only reads, or the first half of an UPDATE.
LEMMA QuietRows ==
  ASSUME RowsInv, NEW k \in Keys,
         \/ _examine(k) \/ _reconcile_fixed(k) \/ confirm_fixed(k) \/ revoke(k)
         \/ set(k) /\ ~Rollback(k)
  PROVE  RowsInv'
<1>1. TypeOK /\ RequestFits(k) /\ InsertedFits(k)
  BY DEF RowsInv, Inv
<1>2. Inv'
  <2>1. Work(k)
    BY Zenon DEF Work
  <2>2. QED
    BY <2>1, WorkInv DEF RowsInv
<1>3. /\ UNCHANGED <<reviews, disp, nextRow, mine, at, req, held, draft>>
      /\ Others(k) /\ OthersRows(k)
      /\ \/ pc[k] \in {"examine", "reconcile", "confirm", "revoke"}
            /\ (pc'[k] = "commit" => req[k].kind \notin Opening)
            /\ pc'[k] # "idle"
         \/ pc[k] = "answer" /\ pc'[k] \in {"answering", "insert"}
  BY <1>1 DEF _examine, _reconcile_fixed, confirm_fixed, revoke, set, Update, db, TypeOK, Others, OthersRows,
              settle_fixed, Opening
<1>4. Inserted(k)' = Inserted(k)
  BY <1>3 DEF Inserted, Ids
<1>5. at[k] = 0 \/ pc[k] = "answer"
  BY <1>1, <1>3 DEF InsertedFits
<1>6. pc'[k] \in {"rule", "commit"} => req[k].kind \notin Rewriting
  BY <1>1, <1>3 DEF RequestFits, Opening, Rewriting
<1>7. InsertedFits(k)'
  BY <1>1, <1>3, <1>4, <1>5, <1>6 DEF InsertedFits, Rewriting
<1>8. StepsTell(k)'
  BY <1>1, <1>3, <1>6 DEF StepsTell, RequestFits, Opening, Rewriting
<1>9. QED
  BY <1>2, <1>3, <1>7, <1>8, ReadRows

\* One row of an UPDATE: a row nobody else has written gets a new version, and
\* no id is new.
LEMMA SettleRows ==
  ASSUME RowsInv, NEW k \in Keys, _settle(k)
  PROVE  RowsInv'
<1>1. Inv' /\ TypeOK /\ RequestFits(k) /\ InsertedFits(k) /\ UniqueIds(mine[k])
  BY SettleInv DEF RowsInv, Inv
<1>2. PICK d \in Visible(k) :
        /\ RowHolders(k, d.id) = {}
        /\ todo' = [todo EXCEPT ![k] = @ \ {d.id}]
        /\ mine' = [mine EXCEPT ![k] =
             IF d.revoked THEN @ ELSE {x \in @ : x.id # d.id} \cup {NewVersion(k, d)}]
        /\ pc' = [pc EXCEPT ![k] = IF todo[k] = {d.id} THEN AfterUpdate(k) ELSE @]
  BY DEF _settle
<1> DEFINE e == NewVersion(k, d)
<1>3. /\ UNCHANGED <<reviews, disp, nextRow, req, held, found, claims, at, draft>> /\ nextRow \in Nat
      /\ pc[k] \in {"confirming", "revoking", "answering"}
      /\ mine'[k] = IF d.revoked THEN mine[k] ELSE {x \in mine[k] : x.id # d.id} \cup {e}
      /\ pc'[k] \in {pc[k], AfterUpdate(k)}
  BY <1>1, <1>2 DEF _settle, db, TypeOK
<1>4. d \in DispRow
  BY <1>1, VisibleType
<1>5. e.id = d.id
  BY <1>4 DEF NewVersion, DispRow
<1> HIDE DEF e
<1>6. Others(k) /\ OthersRows(k)
  BY <1>1, <1>2, <1>3 DEF Others, OthersRows, TypeOK
<1>7. UniqueIds(Visible(k)) /\ Ids(Visible(k)) = Ids(disp) \cup Ids(mine[k])
  BY VisibleIds
<1>8. UniqueIds(mine[k])'
  BY <1>1, <1>2, <1>3, <1>5, <1>7 DEF UniqueIds
<1>9. Ids(mine[k]) \subseteq Ids(mine'[k]) /\ Ids(mine'[k]) \subseteq Ids(mine[k]) \cup {d.id}
  BY <1>3, <1>5 DEF Ids
<1>10. d.id \in Ids(disp) \cup Ids(mine[k])
  BY <1>2, <1>7 DEF Ids
<1>11. Inserted(k)' = Inserted(k)
  BY <1>3, <1>9, <1>10 DEF Inserted, Ids
<1>12. AfterUpdate(k) = IF pc[k] = "confirming" THEN "revoke"
                        ELSE IF pc[k] = "revoking" THEN "rule" ELSE "insert"
  BY <1>3 DEF AfterUpdate
<1>13. pc[k] = "answering" \/ (req[k].kind \in Opening /\ at[k] = 0)
  BY <1>1, <1>3 DEF RequestFits, InsertedFits, Opening, Rewriting
<1>14. InsertedFits(k)'
  BY <1>1, <1>3, <1>11, <1>12, <1>13 DEF InsertedFits, Opening
<1>15. StepsTell(k)'
  BY <1>3, <1>12 DEF StepsTell
<1>16. ASSUME NEW j \in Keys \ {k} PROVE d.id \notin Ids(mine[j])
  BY <1>2 DEF RowHolders, Ids
<1>17. nextRow <= nextRow'
  BY <1>3
<1>18. \A i \in Ids(mine'[k]) : i \in Ids(mine[k]) \/ \A j \in Keys \ {k} : i \notin Ids(mine[j])
  BY <1>9, <1>16
<1>19. QED
  BY <1>1, <1>3, <1>6, <1>8, <1>14, <1>15, <1>17, <1>18, RowsFrame

\* A respond that has its review is at its first response.
LEMMA OwnReviewRows ==
  ASSUME RowsInv, NEW k \in Keys, _own_review(k)
  PROVE  RowsInv'
<1>1. Inv' /\ TypeOK /\ RequestFits(k) /\ InsertedFits(k)
  BY OwnReviewInv DEF RowsInv, Inv
<1>2. CASE Rollback(k)
  BY <1>2, RollbackRows
<1>3. CASE ~Rollback(k)
  <2>1. /\ UNCHANGED <<reviews, disp, nextRow, mine, req, draft, claims>>
        /\ pc[k] = "lock" /\ at'[k] = 1
        /\ pc'[k] = IF req[k].batch = <<>> THEN "rule" ELSE "answer"
        /\ \A j \in Keys \ {k} : pc'[j] = pc[j] /\ held'[j] = held[j] /\ at'[j] = at[j]
    BY <1>1, <1>3 DEF _own_review, db, TypeOK
  <2>2. Others(k) /\ OthersRows(k)
    BY <2>1 DEF Others, OthersRows
  <2>3. Inserted(k)' = Inserted(k)
    BY <2>1 DEF Inserted, Ids
  <2>4. at[k] = 0 /\ req[k].kind \in Rewriting
    BY <1>1, <2>1 DEF InsertedFits, RequestFits
  <2>5. req[k].batch = <<>> => Len(req[k].batch) = 0
    BY EmptySeq
  <2>6. InsertedFits(k)'
    BY <1>1, <2>1, <2>3, <2>4, <2>5 DEF InsertedFits
  <2>7. StepsTell(k)'
    BY <2>1 DEF StepsTell
  <2>8. QED
    BY <1>1, <2>1, <2>2, <2>6, <2>7, ReadRows
<1>4. QED
  BY <1>2, <1>3

\* The INSERT takes an id nobody has, and the respond is past one more answer.
LEMMA InsertRows ==
  ASSUME RowsInv, NEW k \in Keys, insert(k)
  PROVE  RowsInv'
<1>1. Inv' /\ TypeOK /\ RequestFits(k) /\ InsertedFits(k) /\ UniqueIds(mine[k]) /\ UniqueIds(disp)
  BY InsertInv DEF RowsInv, Inv
<1> DEFINE e == [id |-> nextRow, fp |-> req[k].batch[at[k]].fp, disp |-> req[k].batch[at[k]].disp,
                 revoked |-> FALSE, by |-> Owner[k], note |-> req[k].batch[at[k]].note,
                 on |-> held[k]]
<1>2. /\ UNCHANGED <<reviews, disp, req, held, found, claims, draft>>
      /\ nextRow \in Nat /\ nextRow' = nextRow + 1
      /\ pc[k] = "insert" /\ pc'[k] = IF at[k] = Len(req[k].batch) THEN "rule" ELSE "answer"
      /\ mine'[k] = mine[k] \cup {e} /\ at'[k] = at[k] + 1
  BY <1>1 DEF insert, TypeOK
<1>3. e.id = nextRow
  OBVIOUS
<1> HIDE DEF e
<1>4. Others(k) /\ OthersRows(k)
  BY <1>1 DEF insert, Others, OthersRows, TypeOK
<1>5. ASSUME NEW rows \in SUBSET DispRow, UniqueIds(rows) PROVE nextRow \notin Ids(rows)
  BY <1>2, <1>5 DEF UniqueIds, Ids, DispRow
<1>6. nextRow \notin Ids(disp) /\ \A j \in Keys : nextRow \notin Ids(mine[j])
  BY <1>1, <1>5 DEF RowsInv, TypeOK
<1>7. \A d \in mine[k] : d.id < nextRow /\ d.id \in Nat
  BY <1>1 DEF UniqueIds, TypeOK, DispRow
<1>8. UniqueIds(mine[k])'
  BY <1>1, <1>2, <1>3, <1>7 DEF UniqueIds
<1>9. Ids(mine'[k]) = Ids(mine[k]) \cup {nextRow}
  BY <1>2, <1>3 DEF Ids
<1>10. Inserted(k)' = Inserted(k) \cup {nextRow} /\ nextRow \notin Inserted(k)
  BY <1>2, <1>6, <1>9 DEF Inserted, Ids
<1>11. /\ at[k] \in 1..Len(req[k].batch) /\ Len(req[k].batch) \in Nat
       /\ IsFiniteSet(Inserted(k)) /\ Cardinality(Inserted(k)) = at[k] - 1
  <2>1. req[k].batch \in Seq(Response)
    BY <1>1 DEF TypeOK, Request
  <2>2. at[k] \in 1..Len(req[k].batch) /\ Len(req[k].batch) \in Nat
    BY <1>1, <1>2, <2>1, LenProperties DEF RequestFits
  <2>3. QED
    BY <1>1, <2>2 DEF InsertedFits
<1>12. IsFiniteSet(Inserted(k)') /\ Cardinality(Inserted(k)') = at[k]
  <2>1. IsFiniteSet(Inserted(k) \cup {nextRow})
        /\ Cardinality(Inserted(k) \cup {nextRow}) = Cardinality(Inserted(k)) + 1
    BY <1>10, <1>11, FS_AddElement
  <2>2. QED
    BY <1>10, <1>11, <2>1
<1>13. req[k].kind = "respond"
  <2>1. req[k].batch = <<>> => Len(req[k].batch) = 0
    BY EmptySeq
  <2>2. QED
    BY <1>1, <1>11, <2>1 DEF InsertedFits
<1>14. InsertedFits(k)'
  BY <1>2, <1>11, <1>12, <1>13 DEF InsertedFits, Rewriting
<1>15. StepsTell(k)'
  BY <1>2 DEF StepsTell
<1>16. nextRow <= nextRow'
  BY <1>2
<1>17. \A i \in Ids(mine'[k]) : i \in Ids(mine[k]) \/ \A j \in Keys \ {k} : i \notin Ids(mine[j])
  BY <1>6, <1>9
<1>18. QED
  BY <1>1, <1>2, <1>4, <1>8, <1>14, <1>15, <1>16, <1>17, RowsFrame

\* What the steps of each kind of request give.
LEMMA PlanGives ==
  ASSUME NEW k
  PROVE  /\ Gives(PlanDraft(k).steps, "responses", 0)
         /\ Gives(PlanDraft(k).steps, "plan", Cardinality(confirmed(k)))
<1> DEFINE p == PlanStep(1, Cardinality(confirmed(k)), Cardinality(regressed(k)))
           steps == <<p>>
<1>1. PlanDraft(k).steps = steps
  BY DEF PlanDraft, NoDraft
<1>2. p.kind = "plan" /\ p.n = Cardinality(confirmed(k))
  BY DEF PlanStep
<1> HIDE DEF p
<1>3. DOMAIN steps = {1} /\ steps[1] = p
  OBVIOUS
<1> HIDE DEF steps
<1>4. QED
  BY <1>1, <1>2, <1>3 DEF Gives

LEMMA CreateGives ==
  ASSUME NEW k, NEW muted
  PROVE  /\ Gives(CreateDraft(k, muted).steps, "responses", 0)
         /\ Gives(CreateDraft(k, muted).steps, "plan", Cardinality(confirmed(k)))
<1> DEFINE p == PlanStep(1, Cardinality(confirmed(k)), Cardinality(regressed(k)))
<1>1. PICK f, v : /\ CreateDraft(k, muted).steps = <<p, f, v>>
                  /\ f.kind = "findings" /\ v.kind = "verdict"
  <2> DEFINE agent == merge(found[k], capped(req[k].sub))
             final == apply_dispositions(agent, muted)
             verdict == compute_verdict(apply_dispositions(found[k], muted) \cup final)
             f == _findings_step(2, final, FALSE)
             v == VerdictStep(3, verdict)
  <2>1. CreateDraft(k, muted).steps = <<p, f, v>>
    BY DEF CreateDraft
  <2>2. f.kind = "findings" /\ v.kind = "verdict"
    BY DEF _findings_step, VerdictStep
  <2> HIDE DEF f, v, p
  <2>3. QED
    BY <2>1, <2>2
<1> DEFINE steps == <<p, f, v>>
<1>2. p.kind = "plan" /\ p.n = Cardinality(confirmed(k))
  BY DEF PlanStep
<1> HIDE DEF p
<1>3. DOMAIN steps = {1, 2, 3} /\ steps[1] = p /\ steps[2] = f /\ steps[3] = v
  OBVIOUS
<1>4. CreateDraft(k, muted).steps = steps
  BY <1>1
<1> HIDE DEF steps
<1>5. QED
  BY <1>1, <1>2, <1>3, <1>4 DEF Gives

LEMMA SubmitGives ==
  ASSUME NEW k, NEW muted, NEW kind \in {"responses", "plan"}
  PROVE  Gives(SubmitDraft(k, muted).steps, kind, 0)
<1>1. PICK f, v : /\ SubmitDraft(k, muted).steps = <<f, v>>
                  /\ f.kind = "findings" /\ v.kind = "verdict"
  <2> DEFINE r == reviews[req[k].review]
             agent == merge(r.det, capped(req[k].sub))
             final == apply_dispositions(agent, muted)
             verdict == compute_verdict(apply_dispositions(r.det, muted) \cup final)
             f == _findings_step(max_seq(r.steps) + 1, final, r.status = "completed")
             v == VerdictStep(max_seq(r.steps) + 2, verdict)
  <2>1. SubmitDraft(k, muted).steps = <<f, v>>
    BY DEF SubmitDraft
  <2>2. f.kind = "findings" /\ v.kind = "verdict"
    BY DEF _findings_step, VerdictStep
  <2> HIDE DEF f, v
  <2>3. QED
    BY <2>1, <2>2
<1> DEFINE steps == <<f, v>>
<1>2. DOMAIN steps = {1, 2} /\ steps[1] = f /\ steps[2] = v
  OBVIOUS
<1>3. SubmitDraft(k, muted).steps = steps
  BY <1>1
<1> HIDE DEF steps
<1>4. QED
  BY <1>1, <1>2, <1>3 DEF Gives

LEMMA RespondGives ==
  ASSUME NEW k, NEW muted
  PROVE  /\ Gives(RespondDraft(k, muted).steps, "responses", Len(req[k].batch))
         /\ Gives(RespondDraft(k, muted).steps, "plan", 0)
<1>1. PICK a : /\ RespondDraft(k, muted).steps = <<a>>
               /\ a.kind = "responses" /\ a.n = Len(req[k].batch)
  <2> DEFINE r == reviews[req[k].review]
             final == apply_dispositions(r.det \cup r.agent, muted)
             a == ResponsesStep(max_seq(r.steps) + 1, Len(req[k].batch), Cardinality({x \in final : x.sup}))
  <2>1. RespondDraft(k, muted).steps = <<a>>
    BY DEF RespondDraft
  <2>2. a.kind = "responses" /\ a.n = Len(req[k].batch)
    BY DEF ResponsesStep
  <2> HIDE DEF a
  <2>3. QED
    BY <2>1, <2>2
<1> DEFINE steps == <<a>>
<1>2. DOMAIN steps = {1} /\ steps[1] = a
  OBVIOUS
<1>3. RespondDraft(k, muted).steps = steps
  BY <1>1
<1> HIDE DEF steps
<1>4. QED
  BY <1>1, <1>2, <1>3 DEF Gives

\* The verdict writes the steps that say so.
LEMMA RuleRows ==
  ASSUME RowsInv, NEW k \in Keys, Rule(k)
  PROVE  RowsInv'
<1>1. Inv' /\ TypeOK /\ RequestFits(k) /\ InsertedFits(k)
  BY RuleInv DEF RowsInv, Inv
<1>2. PICK muted \in active(k, Asked(k)) :
      draft' = [draft EXCEPT ![k] =
        CASE req[k].kind = "create"  -> CreateDraft(k, muted)
          [] req[k].kind = "submit"  -> SubmitDraft(k, muted)
          [] req[k].kind = "respond" -> RespondDraft(k, muted)
          [] OTHER                   -> PlanDraft(k)]
  BY Zenon DEF Rule
<1>3. /\ pc[k] = "rule" /\ pc'[k] = "commit"
      /\ UNCHANGED <<reviews, disp, nextRow, req, held, mine, found, claims, at>>
      /\ \A j \in Keys \ {k} : pc'[j] = pc[j]
  BY <1>1 DEF Rule, db, TypeOK
<1>4. \A j \in Keys \ {k} : draft'[j] = draft[j]
  BY <1>1, <1>2, Zenon DEF TypeOK
<1>5. Others(k) /\ OthersRows(k)
  BY <1>3, <1>4 DEF Others, OthersRows
<1>6. Inserted(k)' = Inserted(k)
  BY <1>3 DEF Inserted, Ids
<1>7. InsertedFits(k)'
  BY <1>1, <1>3, <1>6 DEF InsertedFits
<1>8. req[k].kind \in {"plan_v1", "create", "submit", "respond"}
  BY <1>1, <1>3 DEF RequestFits, Opening, Rewriting
<1>9. req[k].kind = "plan_v1" => draft'[k] = PlanDraft(k)
  BY <1>1, <1>2, Zenon DEF TypeOK
<1>10. req[k].kind = "create" => draft'[k] = CreateDraft(k, muted)
  BY <1>1, <1>2, Zenon DEF TypeOK
<1>11. req[k].kind = "submit" => draft'[k] = SubmitDraft(k, muted)
  BY <1>1, <1>2, Zenon DEF TypeOK
<1>12. req[k].kind = "respond" => draft'[k] = RespondDraft(k, muted)
  BY <1>1, <1>2, Zenon DEF TypeOK
<1>13. Gives(draft'[k].steps, "responses", Answers(k)) /\ Gives(draft'[k].steps, "plan", Confirms(k))
  <2>1. CASE req[k].kind = "plan_v1"
    BY <1>9, <2>1, PlanGives DEF Answers, Confirms, Opening
  <2>2. CASE req[k].kind = "create"
    BY <1>10, <2>2, CreateGives DEF Answers, Confirms, Opening
  <2>3. CASE req[k].kind = "submit"
    BY <1>11, <2>3, SubmitGives DEF Answers, Confirms, Opening
  <2>4. CASE req[k].kind = "respond"
    BY <1>12, <2>4, RespondGives DEF Answers, Confirms, Opening
  <2>5. QED
    BY <1>8, <2>1, <2>2, <2>3, <2>4
<1>14. Answers(k)' = Answers(k) /\ Confirms(k)' = Confirms(k)
  BY <1>3 DEF Answers, Confirms, confirmed
<1>15. StepsTell(k)'
  BY <1>13, <1>14 DEF StepsTell
<1>16. QED
  BY <1>1, <1>3, <1>5, <1>7, <1>15, ReadRows

\* The commit brings in the inserted rows, and its steps count them.
LEMMA CommitRows ==
  ASSUME RowsInv, NEW k \in Keys, Commit(k)
  PROVE  RowsInv'
<1>1. Inv /\ Inv' /\ TypeOK /\ InsertedFits(k) /\ StepsTell(k) /\ RequestFits(k)
  BY CommitInv DEF RowsInv, Inv
<1>2. /\ disp' = Visible(k) /\ nextRow' = nextRow /\ pc'[k] = "idle" /\ mine'[k] = {}
      /\ req'[k] = NoRequest /\ pc[k] = "commit"
  BY <1>1, CommitFacts
<1>3. at'[k] = 0 /\ Others(k) /\ OthersRows(k)
  BY <1>1, ReleaseFacts DEF Commit, Release, TypeOK, OthersRows
<1>4. /\ UniqueIds(Visible(k)) /\ Ids(Visible(k)) = Ids(disp) \cup Inserted(k)
      /\ Ids(Visible(k)) = Ids(disp) \cup Ids(mine[k])
  BY VisibleIds
<1>5. UniqueIds(disp)'
  BY <1>2, <1>4 DEF UniqueIds
<1>6. /\ IsFiniteSet(Ids(disp)') /\ Ids(disp)' = Ids(disp) \cup Inserted(k)
      /\ Cardinality(Ids(disp)') = Cardinality(Ids(disp)) + Cardinality(Inserted(k))
  <2> DEFINE A == Ids(disp)
             B == Inserted(k)
  <2>1. Ids(disp)' = A \cup B
    BY <1>2, <1>4 DEF Ids
  <2>2. IsFiniteSet(A) /\ IsFiniteSet(B) /\ A \cap B = {}
    BY <1>1 DEF RowsInv, InsertedFits, Inserted
  <2> HIDE DEF A, B
  <2>3. IsFiniteSet(A \cup B) /\ Cardinality(A \cup B) = Cardinality(A) + Cardinality(B) - Cardinality(A \cap B)
    BY <2>2, FS_Union
  <2>4. Cardinality(A \cap B) = 0 /\ Cardinality(A) \in Nat /\ Cardinality(B) \in Nat
    BY <2>2, FS_EmptySet, FS_CardinalityType
  <2>5. Cardinality(A \cup B) = Cardinality(A) + Cardinality(B)
    BY <2>3, <2>4
  <2>6. QED
    BY <2>1, <2>3, <2>5 DEF A, B
<1>7. Cardinality(Inserted(k)) = Answers(k)
  <2>1. req[k].kind = "respond" => at[k] = Len(req[k].batch) + 1 /\ Len(req[k].batch) \in Nat
    <3>1. req[k].batch \in Seq(Response)
      BY <1>1 DEF TypeOK, Request
    <3>2. QED
      BY <1>1, <1>2, <3>1, LenProperties DEF InsertedFits
  <2>2. req[k].kind # "respond" => at[k] \in {0, 1}
    BY <1>1 DEF InsertedFits
  <2>3. QED
    BY <1>1, <2>1, <2>2 DEF InsertedFits, Answers
<1>8. Answers(k) \in Nat
  BY <1>1, <1>7, FS_CardinalityType DEF InsertedFits
<1>9. OnTrails("responses")' = OnTrails("responses") + Answers(k) /\ OnTrails("responses") \in Nat
  <2>1. req[k].kind \in Opening \cup Rewriting => Gives(draft[k].steps, "responses", Answers(k))
    BY <1>1, <1>2 DEF StepsTell
  <2>2. req[k].kind \notin Opening \cup Rewriting => Answers(k) = 0
    BY DEF Answers, Rewriting
  <2>3. QED
    BY <1>1, <1>8, <2>1, <2>2, CommitOnTrails
<1>10. EveryAnswerOnTheTrail'
  <2>1. Cardinality(disp) = Cardinality(Ids(disp))
    BY RowsByIds DEF RowsInv
  <2>2. Cardinality(disp') = Cardinality(Ids(disp)')
    <3>1. UniqueIds(Visible(k)) /\ IsFiniteSet(Ids(Visible(k)))
      BY <1>2, <1>4, <1>6 DEF Ids
    <3>2. Cardinality(Visible(k)) = Cardinality(Ids(Visible(k)))
      BY <3>1, RowsByIds
    <3>3. QED
      BY <1>2, <3>2 DEF Ids
  <2>3. Cardinality(disp) = OnTrails("responses")
    BY DEF RowsInv, EveryAnswerOnTheTrail
  <2>4. Cardinality(disp') = OnTrails("responses")'
    BY <1>6, <1>7, <1>9, <2>1, <2>2, <2>3
  <2>5. QED
    BY <2>4 DEF EveryAnswerOnTheTrail
<1>11. ASSUME NEW j \in Keys PROVE UniqueIds(mine[j])' /\ InsertedFits(j)' /\ StepsTell(j)'
  <2>1. CASE j = k
    <3>1. Inserted(k)' = {}
      BY <1>2 DEF Inserted, Ids
    <3>2. InsertedFits(k)'
      BY <1>2, <1>3, <3>1, FS_EmptySet DEF InsertedFits, NoRequest, Rewriting
    <3>3. UniqueIds(mine[k])' /\ StepsTell(k)'
      BY <1>2 DEF UniqueIds, StepsTell
    <3>4. QED
      BY <2>1, <3>2, <3>3
  <2>2. CASE j # k
    <3>1. /\ pc'[j] = pc[j] /\ req'[j] = req[j] /\ at'[j] = at[j] /\ draft'[j] = draft[j]
          /\ mine'[j] = mine[j] /\ claims'[j] = claims[j]
      BY <1>3, <2>2 DEF Others, OthersRows
    <3>2. UniqueIds(mine[j]) /\ InsertedFits(j) /\ StepsTell(j)
      BY DEF RowsInv
    <3>3. UniqueIds(mine[j])'
      BY <1>2, <3>1, <3>2 DEF UniqueIds
    <3>4. Ids(mine[j]) \cap Ids(mine[k]) = {}
      BY <2>2 DEF RowsInv, Apart
    <3>5. Ids(disp)' = Ids(disp) \cup Ids(mine[k])
      BY <1>4, <1>6
    <3>6. Inserted(j)' = Inserted(j)
      BY <3>1, <3>4, <3>5 DEF Inserted, Ids
    <3>7. InsertedFits(j)'
      BY <3>1, <3>2, <3>6 DEF InsertedFits
    <3>8. Answers(j)' = Answers(j) /\ Confirms(j)' = Confirms(j)
      BY <3>1 DEF Answers, Confirms, confirmed
    <3>9. StepsTell(j)'
      BY <3>1, <3>2, <3>8 DEF StepsTell
    <3>10. QED
      BY <3>3, <3>7, <3>9
  <2>3. QED
    BY <2>1, <2>2
<1>12. ASSUME NEW i \in Keys, NEW j \in Keys, i # j PROVE Ids(mine'[i]) \cap Ids(mine'[j]) = {}
  <2>1. Ids(mine[i]) \cap Ids(mine[j]) = {}
    BY <1>12 DEF RowsInv, Apart
  <2>2. CASE i # k /\ j # k
    BY <1>3, <2>1, <2>2 DEF OthersRows
  <2>3. CASE i = k \/ j = k
    BY <1>2, <2>3 DEF Ids
  <2>4. QED
    BY <2>2, <2>3
<1>13. Apart'
  BY <1>12 DEF Apart, Ids
<1>14. QED
  BY <1>1, <1>5, <1>6, <1>10, <1>11, <1>13 DEF RowsInv

LEMMA WorkRows ==
  ASSUME RowsInv, NEW k \in Keys, Work(k)
  PROVE  RowsInv'
<1>1. CASE set(k) /\ Rollback(k)
  BY <1>1, RollbackRows
<1>2. CASE \/ _examine(k) \/ _reconcile_fixed(k) \/ confirm_fixed(k) \/ revoke(k)
           \/ set(k) /\ ~Rollback(k)
  BY <1>2, QuietRows
<1>3. CASE _settle(k) \/ _own_review(k) \/ insert(k)
  BY <1>3, SettleRows, OwnReviewRows, InsertRows
<1>4. CASE Rule(k) \/ Commit(k)
  BY <1>4, RuleRows, CommitRows
<1>5. QED
  BY <1>1, <1>2, <1>3, <1>4 DEF Work

LEMMA RowsStep == ASSUME RowsInv, [Next]_vars PROVE RowsInv'
<1>1. ASSUME NEW k \in Keys, plan(k) \/ create_review(k) \/ submit(k) \/ respond(k)
      PROVE  RowsInv'
  BY <1>1, ArrivalRows
<1>2. ASSUME NEW k \in Keys, Work(k) PROVE RowsInv'
  BY <1>2, WorkRows
<1>3. ASSUME NEW k \in Keys, Abort(k) \/ DeadlockVictim(k) PROVE RowsInv'
  BY <1>3, RollbackRows DEF Abort, DeadlockVictim
<1>4. CASE UNCHANGED vars
  <2>1. Inv'
    BY <1>4, StutterInv DEF RowsInv
  <2>2. UNCHANGED <<reviews, disp, nextRow, pc, req, held, mine, claims, at, draft>>
    BY <1>4 DEF vars, db, locals
  <2>3. UniqueIds(disp)' /\ IsFiniteSet(Ids(disp))'
    BY <2>2 DEF RowsInv, UniqueIds, Ids
  <2>4. ASSUME NEW k \in Keys PROVE UniqueIds(mine[k])' /\ InsertedFits(k)' /\ StepsTell(k)'
    <3>1. UniqueIds(mine[k]) /\ InsertedFits(k) /\ StepsTell(k)
      BY DEF RowsInv
    <3>2. UniqueIds(mine[k])'
      BY <2>2, <3>1 DEF UniqueIds
    <3>3. Inserted(k)' = Inserted(k) /\ Answers(k)' = Answers(k) /\ Confirms(k)' = Confirms(k)
      BY <2>2 DEF Inserted, Ids, Answers, Confirms, confirmed
    <3>4. InsertedFits(k)' /\ StepsTell(k)'
      BY <2>2, <3>1, <3>3 DEF InsertedFits, StepsTell
    <3>5. QED
      BY <3>2, <3>4
  <2>5. Apart'
    BY <2>2 DEF RowsInv, Apart, Ids
  <2>6. EveryAnswerOnTheTrail'
    BY <2>2 DEF RowsInv, EveryAnswerOnTheTrail, OnTrails, OnTrail
  <2>7. QED
    BY <2>1, <2>3, <2>4, <2>5, <2>6 DEF RowsInv
<1>5. QED
  BY <1>1, <1>2, <1>3, <1>4 DEF Next, Finished

\* Terms that are all zero add up to zero.
LEMMA SumOfZeros ==
  ASSUME NEW S, IsFiniteSet(S), NEW f, DOMAIN f = S, \A s \in S : f[s] = 0
  PROVE  SumFunction(f) = 0
<1> DEFINE Z == {0}
<1>1. 0 \in Z /\ (\A a, b \in Z : a + b \in Z) /\ \A i \in S : f[i] \in Z
  OBVIOUS
<1>2. Adding!IsFiniteSet(S)
  BY DEF IsFiniteSet, Adding!IsFiniteSet
<1> HIDE DEF Z
<1>3. Adding!Fold(0, f, S) \in Z
  BY <1>1, <1>2, Adding!FoldType
<1>4. QED
  BY <1>3, SumIsFold DEF SumFunction, Z

\* The reviews already on record list no answer and confirm no claim.
LEMMA SeededTrails ==
  ASSUME Init, NEW kind \in {"responses", "plan"}
  PROVE  OnTrails(kind) = 0
<1>1. Inv /\ reviews \in Seq(Review) /\ DOMAIN reviews = 1..Len(reviews) /\ Len(reviews) \in Nat
  BY InitInv, LenProperties DEF Inv, TypeOK
<1>2. reviews = [i \in 1..Len(Seeded) |-> SeededReview(Seeded[i])]
  BY DEF Init
<1>3. ASSUME NEW i \in 1..Len(reviews) PROVE OnTrail(reviews[i], kind) = 0
  <2>1. reviews[i] \in Review /\ reviews[i].steps \in Seq(Step)
    <3>1. reviews[i] \in Review
      BY <1>1, ElementOfSeq
    <3>2. QED
      BY <3>1 DEF Review
  <2>2. reviews[i] = SeededReview(Seeded[i])
    BY <1>1, <1>2
  <2>3. PICK p, f, v : /\ SeededReview(Seeded[i]).steps = <<p, f, v>>
                       /\ p.kind = "plan" /\ p.n = 0 /\ f.kind = "findings" /\ v.kind = "verdict"
    <3> DEFINE det == {[fp |-> x, sup |-> FALSE] : x \in Seeded[i].fps}
               p == PlanStep(1, 0, 0)
               f == _findings_step(2, {}, FALSE)
               v == VerdictStep(3, compute_verdict(det))
    <3>1. SeededReview(Seeded[i]).steps = <<p, f, v>>
      BY DEF SeededReview
    <3>2. p.kind = "plan" /\ p.n = 0 /\ f.kind = "findings" /\ v.kind = "verdict"
      BY DEF PlanStep, _findings_step, VerdictStep
    <3> HIDE DEF p, f, v
    <3>3. QED
      BY <3>1, <3>2
  <2> DEFINE steps == <<p, f, v>>
  <2>4. DOMAIN steps = {1, 2, 3} /\ steps[1] = p /\ steps[2] = f /\ steps[3] = v
    OBVIOUS
  <2>5. reviews[i].steps = steps
    BY <2>2, <2>3
  <2> HIDE DEF steps
  <2>6. Gives(reviews[i].steps, kind, 0)
    BY <2>3, <2>4, <2>5 DEF Gives
  <2>7. QED
    BY <2>1, <2>6, FirstTrail
<1> DEFINE f == [i \in 1..Len(reviews) |-> OnTrail(reviews[i], kind)]
<1>4. OnTrails(kind) = SumFunction(f) /\ DOMAIN f = 1..Len(reviews)
  BY <1>1 DEF OnTrails
<1>5. \A i \in 1..Len(reviews) : f[i] = 0
  BY <1>3
<1>6. IsFiniteSet(1..Len(reviews))
  <2>1. 1 \in Int /\ Len(reviews) \in Int
    BY <1>1
  <2>2. QED
    BY <2>1, FS_Interval
<1> HIDE DEF f
<1>7. QED
  BY <1>4, <1>5, <1>6, SumOfZeros

LEMMA RowsStart == ASSUME Init PROVE RowsInv
<1>1. Inv /\ OnTrails("responses") = 0
  BY InitInv, SeededTrails
<1>2. /\ disp = {} /\ nextRow = 1
      /\ \A k \in Keys : pc[k] = "idle" /\ mine[k] = {} /\ req[k] = NoRequest /\ at[k] = 0
  BY DEF Init
<1>3. Ids(disp) = {} /\ \A k \in Keys : Ids(mine[k]) = {} /\ Inserted(k) = {}
  BY <1>2 DEF Ids, Inserted
<1>4. UniqueIds(disp) /\ IsFiniteSet(Ids(disp)) /\ Apart
  BY <1>2, <1>3, FS_EmptySet DEF UniqueIds, Apart
<1>5. EveryAnswerOnTheTrail
  BY <1>1, <1>2, FS_EmptySet DEF EveryAnswerOnTheTrail
<1>6. ASSUME NEW k \in Keys PROVE UniqueIds(mine[k]) /\ InsertedFits(k) /\ StepsTell(k)
  <2>1. IsFiniteSet(Inserted(k)) /\ Cardinality(Inserted(k)) = 0
    BY <1>3, FS_EmptySet
  <2>2. InsertedFits(k)
    BY <1>2, <2>1 DEF InsertedFits, NoRequest, Rewriting
  <2>3. QED
    BY <1>2, <2>2 DEF UniqueIds, StepsTell
<1>7. QED
  BY <1>1, <1>4, <1>5, <1>6 DEF RowsInv

\* The inductive invariant holds of every behaviour, for any number of keys.
THEOREM RowsInvariance == Spec => []RowsInv
<1>1. Init => RowsInv
  BY RowsStart
<1>2. RowsInv /\ [Next]_vars => RowsInv'
  BY RowsStep
<1>3. QED
  BY <1>1, <1>2, PTL DEF Spec

\* However many keys answer at once, and whichever batch fails in the middle,
\* the rows of the answers are as many as the answers the trails list: the row
\* and the "responses" step of an answer are committed together or not at all.
THEOREM AnswersListed == Spec => []EveryAnswerOnTheTrail
<1>1. RowsInv => EveryAnswerOnTheTrail
  BY DEF RowsInv
<1>2. QED
  BY <1>1, RowsInvariance, PTL
-----------------------------------------------------------------------------
(***************************************************************************)
(* The answers developers give, however many requests overlap: rows are    *)
(* appended, revoked once and kept; one review has one standing answer to  *)
(* a finding; what is settled is on a trail; a pass has its argument; and  *)
(* a mute that nobody touched meanwhile reaches the next review.           *)
(***************************************************************************)

\* A row version a transaction holds is a successor of the row on record, and
\* that row is not revoked: nobody else can have revoked it since.  The rows it
\* put in answer the review it holds.
VersionsFit(k) ==
  /\ \A d \in disp, e \in mine[k] : d.id = e.id => ~d.revoked /\ Successor(d, e)
  /\ \A e \in mine[k] : e.id \notin Ids(disp) => held[k] # 0 /\ e.on = held[k]

\* Of the answers one review was given to a finding one stands for k too.
StandFits(k) ==
  \A d, e \in _standing(k) : d.fp = e.fp /\ d.on = e.on => d = e

\* A muting answer has its argument.
Noted(rows) == \A d \in rows : d.disp \in MUTING_DISPOSITIONS => d.note

\* The response being recorded.
Responding(k) == req[k].batch[at[k]]

\* The UPDATE of set has yet to reach every standing answer this review was given
\* to the finding; none is left when the new one is put in.
AnsweringFits(k) ==
  /\ pc[k] \in {"answering", "insert"} =>
       /\ held[k] # 0
       /\ Responding(k).disp \in MUTING_DISPOSITIONS => Responding(k).note
  /\ pc[k] = "answering" =>
       \A d \in _standing(k) : d.fp = Responding(k).fp /\ d.on = held[k] => d.id \in todo[k]
  /\ pc[k] = "insert" =>
       \A d \in _standing(k) : d.fp = Responding(k).fp => d.on # held[k]

\* The UPDATEs of a review reach rows about the claims it read, and settle only
\* those it confirms.
SettlingFits(k) ==
  /\ todo[k] \subseteq Ids(Visible(k))
  /\ pc[k] \in {"confirming", "revoking"} =>
       \A d \in Visible(k) : d.id \in todo[k] => d.fp \in claims[k]
  /\ pc[k] = "confirming" =>
       \A d \in Visible(k) : d.id \in todo[k] => d.fp \in confirmed(k)
  /\ pc[k] \in {"examine", "reconcile"} => mine[k] = {}
  /\ Settled(mine[k]) \subseteq
       Settled(disp) \cup (IF req[k].kind \in Opening THEN confirmed(k) ELSE {})

\* A pass over a finding that blocks has its argument among rows.
Explained(r, rows) ==
  r.blocking = "pass" =>
    \A x \in r.det \cup r.agent :
      ~x.sup /\ x.fp \in Blockers => \E d \in rows : d.fp = x.fp /\ d.note /\ d.disp # "fixed"

\* The verdict about to be committed is explained by what k sees, and stays so
\* while others commit.
VerdictFits(k) ==
  pc[k] = "commit" =>
    /\ req[k].kind \in Opening => Explained(Opened(k), Visible(k))
    /\ req[k].kind \in Rewriting => Explained(Rewritten(k, reviews[req[k].review]), Visible(k))

\* What was on record when the request began still is, as itself or as a successor.
BeforeFits(k) == \A d \in req[k].before : \E e \in disp : Successor(d, e)

\* While a finding is muted as it was when k began, k has suppressed it wherever
\* it has looked and writes no row about it.
MuteFits(k) ==
  req[k].kind \in Opening =>
    \A f \in Fp : MuteKept(k, f) =>
      /\ \A e \in mine[k] : e.fp # f
      /\ pc[k] # "examine" => \A x \in found[k] : x.fp = f => x.sup
      /\ pc[k] \notin {"examine", "reconcile"} => f \notin claims[k]
      /\ pc[k] = "commit" => \A x \in draft[k].det \cup draft[k].agent : x.fp = f => x.sup

\* What a request in flight keeps.
RequestAnswers(k) ==
  /\ VersionsFit(k) /\ StandFits(k) /\ Noted(mine[k]) /\ AnsweringFits(k)
  /\ SettlingFits(k) /\ VerdictFits(k) /\ BeforeFits(k) /\ MuteFits(k)

\* What the tables keep.
TableAnswers ==
  /\ OneAnswerPerReview /\ Noted(disp) /\ SettledOnTheTrail
  /\ \A i \in 1..Len(reviews) : Explained(reviews[i], disp)

\* The inductive invariant.  The properties speak of the tables alone; what
\* carries them through the commits of others is that row locks keep the rows
\* two transactions write apart (RowsInv) and that a row never goes back.
AnswersInv == RowsInv /\ TableAnswers /\ \A k \in Keys : RequestAnswers(k)
-----------------------------------------------------------------------------
(* What a transaction sees                                                 *)

\* A row that has become another and that one this again is the same row.
LEMMA SuccessorsMeet ==
  ASSUME NEW d \in DispRow, NEW e \in DispRow, Successor(d, e), Successor(e, d)
  PROVE  d = e
<1>1. d.disp = e.disp /\ d.revoked = e.revoked
  BY DEF Successor, DispRow
<1>2. QED
  BY <1>1 DEF Successor, DispRow

LEMMA SuccessorOfSuccessor ==
  ASSUME NEW d, NEW e, NEW f, Successor(d, e), Successor(e, f)
  PROVE  Successor(d, f)
BY DEF Successor

\* The rows k sees have ids of their own, and every row on record has its
\* successor among them.
LEMMA VisibleFacts ==
  ASSUME AnswersInv, NEW k \in Keys
  PROVE  /\ UniqueIds(Visible(k)) /\ UniqueIds(disp)
         /\ Visible(k) \in SUBSET DispRow /\ disp \in SUBSET DispRow
         /\ Noted(Visible(k))
         /\ \A d \in disp : \E e \in Visible(k) : Successor(d, e)
<1>1. TypeOK /\ UniqueIds(disp) /\ VersionsFit(k) /\ Noted(disp) /\ Noted(mine[k])
  BY DEF AnswersInv, RowsInv, Inv, RequestAnswers, TableAnswers
<1>2. ASSUME NEW d \in disp PROVE \E e \in Visible(k) : Successor(d, e)
  <2>1. CASE \E e \in mine[k] : e.id = d.id
    BY <1>1, <2>1 DEF VersionsFit, Visible
  <2>2. CASE \A e \in mine[k] : e.id # d.id
    BY <2>2 DEF Visible, Successor
  <2>3. QED
    BY <2>1, <2>2
<1>3. UniqueIds(Visible(k))
  BY VisibleIds DEF AnswersInv
<1>4. Noted(Visible(k))
  BY <1>1 DEF Noted, Visible
<1>5. Visible(k) \in SUBSET DispRow /\ disp \in SUBSET DispRow
  BY <1>1, VisibleType DEF TypeOK
<1>6. QED
  BY <1>1, <1>2, <1>3, <1>4, <1>5

\* A row k may write and has not put in itself answers to one on record, which
\* still stands.
LEMMA VersionOf ==
  ASSUME AnswersInv, NEW k \in Keys, NEW e \in mine[k]
  PROVE  \/ \E d \in disp : d.id = e.id /\ ~d.revoked /\ Successor(d, e)
         \/ e.id \notin Ids(disp) /\ held[k] # 0 /\ e.on = held[k]
<1>1. VersionsFit(k)
  BY DEF AnswersInv, RequestAnswers
<1>2. CASE e.id \in Ids(disp)
  <2>1. PICK d \in disp : d.id = e.id
    BY <1>2 DEF Ids
  <2>2. QED
    BY <1>1, <2>1 DEF VersionsFit
<1>3. CASE e.id \notin Ids(disp)
  BY <1>1, <1>3 DEF VersionsFit
<1>4. QED
  BY <1>2, <1>3

\* While a finding is muted as it was when k began, nothing else stands for it
\* in what k sees.
LEMMA MuteSeen ==
  ASSUME AnswersInv, NEW k \in Keys, req[k].kind \in Opening, NEW f \in Fp, MuteKept(k, f)
  PROVE  /\ \E d \in _standing(k) : d.fp = f /\ d.disp \in MUTING_DISPOSITIONS
         /\ \A d \in _standing(k) : d.fp = f => d.disp \in MUTING_DISPOSITIONS
<1>1. \A e \in mine[k] : e.fp # f
  BY DEF AnswersInv, RequestAnswers, MuteFits
<1>2. PICK d \in disp : {e \in About(disp, f) : ~e.revoked} = {d} /\ d.disp \in MUTING_DISPOSITIONS
  BY DEF MuteKept
<1>3. d \in About(disp, f) /\ ~d.revoked
  BY <1>2
<1>4. \A e \in mine[k] : e.id # d.id
  BY <1>1, <1>3 DEF AnswersInv, RequestAnswers, VersionsFit, Successor, About
<1>5. d \in _standing(k) /\ d.fp = f
  BY <1>3, <1>4 DEF _standing, Visible, About
<1>6. ASSUME NEW e \in _standing(k), e.fp = f PROVE e = d
  <2>1. e \in disp /\ ~e.revoked
    BY <1>1, <1>6 DEF _standing, Visible
  <2>2. e \in {x \in About(disp, f) : ~x.revoked}
    BY <1>6, <2>1 DEF About
  <2>3. QED
    BY <1>2, <2>2
<1>7. QED
  BY <1>2, <1>5, <1>6

\* So active(), whichever row it keeps for the finding, reports it muted.
LEMMA ActiveMutes ==
  ASSUME AnswersInv, NEW k \in Keys, req[k].kind \in Opening, NEW fps, NEW muted \in active(k, fps),
         NEW f \in fps, f \in Fp, MuteKept(k, f)
  PROVE  f \in muted
<1>1. /\ \E d \in _standing(k) : d.fp = f /\ d.disp \in MUTING_DISPOSITIONS
      /\ \A d \in _standing(k) : d.fp = f => d.disp \in MUTING_DISPOSITIONS
  BY MuteSeen
<1>2. f \notin muted => \A d \in _standing(k) : d.fp = f =>
              \/ d.disp \notin MUTING_DISPOSITIONS
              \/ \E e \in _standing(k) : e.fp = f /\ e.disp \notin MUTING_DISPOSITIONS
  BY DEF active
<1>3. QED
  BY <1>1, <1>2

\* What active() returns are findings an answer with an argument stands for.
LEMMA ActiveExplains ==
  ASSUME AnswersInv, NEW k \in Keys, NEW fps, NEW muted \in active(k, fps), NEW f \in muted
  PROVE  \E d \in Visible(k) : d.fp = f /\ d.note /\ d.disp # "fixed"
<1>1. muted \in SUBSET fps /\ \E d \in _standing(k) : d.fp = f /\ d.disp \in MUTING_DISPOSITIONS
  BY DEF active
<1>2. Noted(Visible(k))
  BY VisibleFacts
<1>3. QED
  BY <1>1, <1>2 DEF _standing, Noted, MUTING_DISPOSITIONS

\* An argument on record stays: rows with a successor explain no less.
LEMMA ExplainedLater ==
  ASSUME NEW r, NEW old, NEW new, \A d \in old : \E e \in new : Successor(d, e), Explained(r, old)
  PROVE  Explained(r, new)
<1>1. ASSUME NEW f, \E d \in old : d.fp = f /\ d.note /\ d.disp # "fixed"
      PROVE  \E e \in new : e.fp = f /\ e.note /\ e.disp # "fixed"
  BY <1>1 DEF Successor
<1>2. QED
  BY <1>1 DEF Explained
-----------------------------------------------------------------------------
(* Statements                                                              *)

\* The private state of the other keys is left alone.
Rest(k) ==
  \A j \in Keys \ {k} :
    /\ pc'[j] = pc[j] /\ req'[j] = req[j] /\ held'[j] = held[j] /\ mine'[j] = mine[j]
    /\ todo'[j] = todo[j] /\ found'[j] = found[j] /\ claims'[j] = claims[j]
    /\ at'[j] = at[j] /\ draft'[j] = draft[j]

\* What k keeps depends on its own state and the tables.
LEMMA AnswersAlone ==
  ASSUME NEW j, RequestAnswers(j), reviews' = reviews, disp' = disp,
         pc'[j] = pc[j], req'[j] = req[j], held'[j] = held[j], mine'[j] = mine[j],
         todo'[j] = todo[j], found'[j] = found[j], claims'[j] = claims[j],
         at'[j] = at[j], draft'[j] = draft[j]
  PROVE  RequestAnswers(j)'
<1>1. /\ Visible(j)' = Visible(j) /\ confirmed(j)' = confirmed(j) /\ Responding(j)' = Responding(j)
      /\ Opened(j)' = Opened(j)
      /\ Rewritten(j, reviews[req[j].review])' = Rewritten(j, reviews[req[j].review])
  BY DEF Visible, confirmed, Responding, Opened, Rewritten
<1>2. _standing(j)' = _standing(j) /\ \A f : MuteKept(j, f)' = MuteKept(j, f)
  BY <1>1 DEF _standing, MuteKept, About
<1>3. VersionsFit(j)' /\ StandFits(j)' /\ Noted(mine[j])'
  BY <1>2 DEF RequestAnswers, VersionsFit, StandFits, Noted, Ids
<1>4. AnsweringFits(j)'
  BY <1>1, <1>2 DEF RequestAnswers, AnsweringFits
<1>5. SettlingFits(j)'
  BY <1>1 DEF RequestAnswers, SettlingFits, Ids, Settled
<1>6. VerdictFits(j)'
  BY <1>1 DEF RequestAnswers, VerdictFits
<1>7. BeforeFits(j)' /\ MuteFits(j)'
  BY <1>2 DEF RequestAnswers, BeforeFits, MuteFits
<1>8. QED
  BY <1>3, <1>4, <1>5, <1>6, <1>7 DEF RequestAnswers

\* A step that commits nothing is a matter of the key that takes it.
LEMMA AnswersFrame ==
  ASSUME AnswersInv, RowsInv', NEW k \in Keys, reviews' = reviews, disp' = disp, Rest(k),
         RequestAnswers(k)'
  PROVE  AnswersInv'
<1>1. ASSUME NEW j \in Keys PROVE RequestAnswers(j)'
  <2>1. CASE j = k
    BY <2>1
  <2>2. CASE j # k
    <3>1. RequestAnswers(j)
      BY DEF AnswersInv
    <3>2. /\ pc'[j] = pc[j] /\ req'[j] = req[j] /\ held'[j] = held[j] /\ mine'[j] = mine[j]
          /\ todo'[j] = todo[j] /\ found'[j] = found[j] /\ claims'[j] = claims[j]
          /\ at'[j] = at[j] /\ draft'[j] = draft[j]
      BY <2>2 DEF Rest
    <3>3. QED
      BY <3>1, <3>2, AnswersAlone
  <2>3. QED
    BY <2>1, <2>2
<1>2. TableAnswers'
  BY DEF AnswersInv, TableAnswers, OneAnswerPerReview, Noted, SettledOnTheTrail, Settled,
         OnTrails, OnTrail
<1>3. QED
  BY <1>1, <1>2 DEF AnswersInv

\* A key at rest has nothing left to keep.
LEMMA AtRest ==
  ASSUME NEW k, pc'[k] = "idle", req'[k] = NoRequest, mine'[k] = {}, todo'[k] = {},
         OneAnswerPerReview'
  PROVE  RequestAnswers(k)'
<1>1. Visible(k)' = disp'
  BY DEF Visible
<1>2. VersionsFit(k)' /\ Noted(mine[k])' /\ StandFits(k)'
  BY <1>1 DEF VersionsFit, Noted, StandFits, _standing, OneAnswerPerReview
<1>3. AnsweringFits(k)' /\ VerdictFits(k)'
  BY DEF AnsweringFits, VerdictFits
<1>4. SettlingFits(k)'
  BY DEF SettlingFits, Settled
<1>5. BeforeFits(k)' /\ MuteFits(k)'
  BY DEF BeforeFits, MuteFits, NoRequest, Opening
<1>6. QED
  BY <1>2, <1>3, <1>4, <1>5 DEF RequestAnswers

\* A transaction that rolls back leaves the committed rows.
LEMMA RollbackAnswers ==
  ASSUME AnswersInv, NEW k \in Keys, Rollback(k)
  PROVE  AnswersInv'
<1>1. RowsInv' /\ TypeOK
  BY RollbackRows DEF AnswersInv, RowsInv, Inv
<1>2. /\ reviews' = reviews /\ disp' = disp
      /\ pc'[k] = "idle" /\ req'[k] = NoRequest /\ mine'[k] = {} /\ todo'[k] = {}
  BY <1>1 DEF Rollback, Release, TypeOK, db
<1>3. Rest(k)
  BY <1>1 DEF Rollback, Release, TypeOK, Rest
<1>4. OneAnswerPerReview'
  BY <1>2 DEF AnswersInv, TableAnswers, OneAnswerPerReview
<1>5. RequestAnswers(k)'
  BY <1>2, <1>4, AtRest
<1>6. QED
  BY <1>1, <1>2, <1>3, <1>5, AnswersFrame

\* A statement that writes no row leaves what the transaction sees and what it
\* has seen.
LEMMA ReadAnswers ==
  ASSUME AnswersInv, RowsInv', NEW k \in Keys, reviews' = reviews, disp' = disp, Rest(k),
         req'[k] = req[k], mine'[k] = mine[k], held'[k] = held[k],
         AnsweringFits(k)', SettlingFits(k)', VerdictFits(k)', MuteFits(k)'
  PROVE  AnswersInv'
<1>1. RequestAnswers(k) /\ Visible(k)' = Visible(k)
  BY DEF AnswersInv, Visible
<1>2. VersionsFit(k)' /\ StandFits(k)' /\ Noted(mine[k])' /\ BeforeFits(k)'
  BY <1>1 DEF RequestAnswers, VersionsFit, StandFits, _standing, Noted, BeforeFits, Ids
<1>3. RequestAnswers(k)'
  BY <1>2 DEF RequestAnswers
<1>4. QED
  BY <1>3, AnswersFrame

\* The request notes what is on record as it begins.
LEMMA BeginAnswers ==
  ASSUME AnswersInv, RowsInv', NEW k \in Keys, NEW r \in Request, NEW where \in {"examine", "lock"},
         where = "lock" => r.kind \notin Opening, Begin(k, r, where)
  PROVE  AnswersInv'
<1>1. TypeOK /\ InsertedFits(k) /\ RequestAnswers(k) /\ HeldFits(k)
  BY DEF AnswersInv, RowsInv, Inv
<1> DEFINE s == [r EXCEPT !.before = disp]
<1>2. /\ UNCHANGED <<reviews, disp, held, mine, todo, found, claims, at, draft>>
      /\ pc[k] = "idle" /\ pc'[k] = where /\ req'[k] = s /\ Rest(k)
  BY <1>1 DEF Begin, db, TypeOK, Rest
<1>3. s.before = disp /\ s.kind = r.kind
  BY DEF Request
<1> HIDE DEF s
<1>4. mine[k] = {} /\ Visible(k)' = Visible(k)
  BY <1>1, <1>2 DEF InsertedFits, Visible
<1>5. VersionsFit(k)' /\ StandFits(k)' /\ Noted(mine[k])'
  BY <1>1, <1>2, <1>4 DEF RequestAnswers, VersionsFit, StandFits, _standing, Noted
<1>6. AnsweringFits(k)' /\ VerdictFits(k)'
  BY <1>2 DEF AnsweringFits, VerdictFits
<1>7. SettlingFits(k)'
  BY <1>1, <1>2, <1>4 DEF RequestAnswers, SettlingFits, Settled, Ids
<1>8. BeforeFits(k)'
  BY <1>2, <1>3 DEF BeforeFits, Successor
<1>9. MuteFits(k)'
  BY <1>2, <1>3, <1>4 DEF MuteFits
<1>10. RequestAnswers(k)'
  BY <1>5, <1>6, <1>7, <1>8, <1>9 DEF RequestAnswers
<1>11. QED
  BY <1>2, <1>10, AnswersFrame

LEMMA ArrivalAnswers ==
  ASSUME AnswersInv, NEW k \in Keys, plan(k) \/ create_review(k) \/ submit(k) \/ respond(k)
  PROVE  AnswersInv'
<1>1. RowsInv' /\ reviews \in Seq(Review) /\ DOMAIN reviews = 1..Len(reviews) /\ Len(reviews) \in Nat
  BY ArrivalRows, LenProperties DEF AnswersInv, RowsInv, Inv, TypeOK
<1>2. /\ Analyses \subseteq SUBSET Fp /\ Submissions \subseteq Seq(AgentFinding)
      /\ Batches \subseteq Seq(Response)
  BY ConstantsAssumption
<1>3. NoRequest \in Request /\ \A i \in DOMAIN reviews : i \in Nat
  BY <1>1, EmptySeq DEF NoRequest, Request
<1>4. CASE plan(k)
  <2>1. PICK kind \in {"plan", "plan_v1"}, fps \in Analyses :
          Begin(k, [NoRequest EXCEPT !.kind = kind, !.fps = fps], "examine")
    BY <1>4, Zenon DEF plan
  <2> DEFINE r == [NoRequest EXCEPT !.kind = kind, !.fps = fps]
  <2>2. r \in Request
    BY <1>2, <1>3 DEF Request
  <2> HIDE DEF r
  <2>3. QED
    BY <1>1, <2>1, <2>2, BeginAnswers DEF r
<1>5. CASE create_review(k)
  <2>1. PICK fps \in Analyses, sub \in Submissions :
          Begin(k, [NoRequest EXCEPT !.kind = "create", !.fps = fps, !.sub = sub], "examine")
    BY <1>5, Zenon DEF create_review
  <2> DEFINE r == [NoRequest EXCEPT !.kind = "create", !.fps = fps, !.sub = sub]
  <2>2. r \in Request
    BY <1>2, <1>3 DEF Request
  <2> HIDE DEF r
  <2>3. QED
    BY <1>1, <2>1, <2>2, BeginAnswers DEF r
<1>6. CASE submit(k)
  <2>1. PICK i \in DOMAIN reviews, sub \in Submissions :
          Begin(k, [NoRequest EXCEPT !.kind = "submit", !.review = i, !.sub = sub], "lock")
    BY <1>6, Zenon DEF submit
  <2> DEFINE r == [NoRequest EXCEPT !.kind = "submit", !.review = i, !.sub = sub]
  <2>2. r \in Request /\ r.kind \notin Opening
    BY <1>2, <1>3 DEF NoRequest, Request, Opening
  <2> HIDE DEF r
  <2>3. QED
    BY <1>1, <2>1, <2>2, BeginAnswers DEF r
<1>7. CASE respond(k)
  <2>1. PICK i \in DOMAIN reviews, batch \in Batches :
          Begin(k, [NoRequest EXCEPT !.kind = "respond", !.review = i, !.batch = batch], "lock")
    BY <1>7, Zenon DEF respond
  <2> DEFINE r == [NoRequest EXCEPT !.kind = "respond", !.review = i, !.batch = batch]
  <2>2. r \in Request /\ r.kind \notin Opening
    BY <1>2, <1>3 DEF NoRequest, Request, Opening
  <2> HIDE DEF r
  <2>3. QED
    BY <1>1, <2>1, <2>2, BeginAnswers DEF r
<1>8. QED
  BY <1>4, <1>5, <1>6, <1>7

\* _examine mutes what is muted.
LEMMA ExamineAnswers ==
  ASSUME AnswersInv, NEW k \in Keys, _examine(k)
  PROVE  AnswersInv'
<1>1. RowsInv' /\ TypeOK /\ RequestAnswers(k)
  BY QuietRows DEF AnswersInv, RowsInv, Inv
<1>2. PICK muted \in active(k, req[k].fps) :
        found' = [found EXCEPT ![k] = {[fp |-> f, sup |-> f \in muted] : f \in req[k].fps}]
  BY DEF _examine
<1>3. /\ UNCHANGED <<reviews, disp, req, mine, held, todo, claims, draft, at>>
      /\ pc[k] = "examine" /\ pc'[k] = "reconcile" /\ Rest(k)
      /\ found'[k] = {[fp |-> f, sup |-> f \in muted] : f \in req[k].fps}
  BY <1>1, <1>2 DEF _examine, db, TypeOK, Rest
<1>4. ASSUME req[k].kind \in Opening, NEW x \in found'[k], x.fp \in Fp, MuteKept(k, x.fp) PROVE x.sup
  <2>1. PICK f \in req[k].fps : x = [fp |-> f, sup |-> f \in muted]
    BY <1>3, <1>4
  <2>2. f \in muted
    BY <1>4, <2>1, ActiveMutes
  <2>3. QED
    BY <2>1, <2>2
<1>5. Visible(k)' = Visible(k) /\ confirmed(k)' = confirmed(k)
  BY <1>3 DEF Visible, confirmed
<1>6. AnsweringFits(k)' /\ VerdictFits(k)'
  BY <1>3 DEF AnsweringFits, VerdictFits
<1>7. SettlingFits(k)'
  BY <1>1, <1>3, <1>5 DEF RequestAnswers, SettlingFits, Ids, Settled
<1>8. MuteFits(k)'
  BY <1>1, <1>3, <1>4 DEF RequestAnswers, MuteFits, MuteKept, About
<1>9. QED
  BY <1>1, <1>3, <1>6, <1>7, <1>8, ReadAnswers

\* _reconcile_fixed takes no muting answer for a claim.
LEMMA ReconcileAnswers ==
  ASSUME AnswersInv, NEW k \in Keys, _reconcile_fixed(k)
  PROVE  AnswersInv'
<1>1. RowsInv' /\ TypeOK /\ RequestAnswers(k) /\ RequestFits(k)
  BY QuietRows DEF AnswersInv, RowsInv, Inv
<1>2. /\ UNCHANGED <<reviews, disp, req, mine, held, todo, found, draft, at>>
      /\ pc[k] = "reconcile" /\ claims'[k] = active_fixed(k) /\ Rest(k)
      /\ pc'[k] = "confirm" \/ (pc'[k] = "commit" /\ req[k].kind = "plan")
  BY <1>1 DEF _reconcile_fixed, db, TypeOK, settle_fixed, RequestFits, Opening, Rest
<1>3. Visible(k)' = Visible(k) /\ mine[k] = {}
  BY <1>1, <1>2 DEF Visible, RequestAnswers, SettlingFits
<1>4. ASSUME req[k].kind \in Opening, NEW f \in Fp, MuteKept(k, f) PROVE f \notin active_fixed(k)
  <2>1. \A d \in _standing(k) : d.fp = f => d.disp \in MUTING_DISPOSITIONS
    BY <1>4, MuteSeen
  <2>2. QED
    BY <2>1 DEF active_fixed, MUTING_DISPOSITIONS
<1>5. AnsweringFits(k)' /\ VerdictFits(k)'
  BY <1>2 DEF AnsweringFits, VerdictFits, Opening, Rewriting
<1>6. SettlingFits(k)'
  BY <1>1, <1>2, <1>3 DEF RequestAnswers, SettlingFits, Ids, Settled
<1>7. MuteFits(k)'
  BY <1>1, <1>2, <1>4 DEF RequestAnswers, MuteFits, MuteKept, About, Opening
<1>8. QED
  BY <1>1, <1>2, <1>5, <1>6, <1>7, ReadAnswers

\* An UPDATE starts with the ids of the rows that stand for its findings.
LEMMA UpdateAnswers ==
  ASSUME AnswersInv, RowsInv', NEW k \in Keys,
         NEW fps, NEW waiting, NEW after, Update(k, fps, waiting, after),
         \/ /\ pc[k] = "confirm" /\ waiting = "confirming" /\ after = "revoke"
            /\ fps = confirmed(k)
         \/ /\ pc[k] = "revoke" /\ waiting = "revoking" /\ after = "rule"
            /\ fps = regressed(k)
         \/ /\ pc[k] = "answer" /\ waiting = "answering" /\ after = "insert"
            /\ fps = {Responding(k).fp} /\ Answerable(k, Responding(k))
  PROVE  AnswersInv'
<1>1. TypeOK /\ RequestFits(k) /\ HeldFits(k) /\ RequestAnswers(k)
  BY DEF AnswersInv, RowsInv, Inv
<1>2. /\ UNCHANGED <<reviews, disp, req, mine, held, found, claims, at, draft>>
      /\ todo'[k] = Targets(k, fps) /\ Rest(k)
      /\ pc'[k] = IF Targets(k, fps) = {} THEN after ELSE waiting
  BY <1>1 DEF Update, db, TypeOK, Rest
<1>3. /\ Visible(k)' = Visible(k) /\ _standing(k)' = _standing(k) /\ confirmed(k)' = confirmed(k)
      /\ Responding(k)' = Responding(k)
  BY <1>2 DEF Visible, _standing, confirmed, Responding
<1>4. ASSUME NEW d \in Visible(k), d.id \in Targets(k, fps) PROVE d.fp \in fps
  <2>1. PICK x \in _standing(k) : x.fp \in fps /\ x.id = d.id
    BY <1>4 DEF Targets
  <2>2. x = d
    BY <2>1, VisibleFacts DEF UniqueIds, _standing
  <2>3. QED
    BY <2>1, <2>2
<1>5. \A d \in _standing(k) : d.fp \in fps => d.id \in Targets(k, fps)
  BY DEF Targets
<1>6. Targets(k, fps) \subseteq Ids(Visible(k))
  BY DEF Targets, Ids, _standing
<1>7. VerdictFits(k)'
  BY <1>2 DEF VerdictFits
<1>8. AnsweringFits(k)'
  <2>1. CASE pc[k] # "answer"
    BY <1>2, <2>1 DEF AnsweringFits
  <2>2. CASE pc[k] = "answer"
    <3>1. held[k] # 0
      <4>1. req[k].kind \in Rewriting /\ req[k].review \in 1..Len(reviews) /\ held[k] = req[k].review
        BY <1>1, <2>2 DEF RequestFits, HeldFits
      <4>2. Len(reviews) \in Nat
        BY <1>1, LenProperties DEF TypeOK
      <4>3. QED
        BY <4>1, <4>2
    <3>2. Responding(k).disp \in MUTING_DISPOSITIONS => Responding(k).note
      BY <2>2 DEF Answerable
    <3>3. fps = {Responding(k).fp} /\ waiting = "answering" /\ after = "insert"
      BY <2>2
    <3>4. pc'[k] = "answering" \/ (pc'[k] = "insert" /\ Targets(k, fps) = {})
      BY <1>2, <3>3
    <3>5. QED
      BY <1>2, <1>3, <1>5, <3>1, <3>2, <3>3, <3>4 DEF AnsweringFits
  <2>3. QED
    BY <2>1, <2>2
<1>9. SettlingFits(k)'
  <2>1. pc'[k] \in {"confirming", "revoking"} => fps \subseteq claims[k]
    BY <1>2 DEF confirmed, regressed
  <2>2. pc'[k] = "confirming" => fps = confirmed(k)
    BY <1>2
  <2>3. pc'[k] \notin {"examine", "reconcile"}
    BY <1>2
  <2>4. Settled(mine[k])' \subseteq
          Settled(disp)' \cup (IF req'[k].kind \in Opening THEN confirmed(k)' ELSE {})
    BY <1>1, <1>2, <1>3 DEF RequestAnswers, SettlingFits, Settled
  <2>5. QED
    BY <1>2, <1>3, <1>4, <1>6, <2>1, <2>2, <2>3, <2>4 DEF SettlingFits, Ids
<1>10. MuteFits(k)'
  BY <1>1, <1>2 DEF RequestAnswers, MuteFits, MuteKept, About
<1>11. QED
  BY <1>2, <1>7, <1>8, <1>9, <1>10, ReadAnswers

\* One row of an UPDATE: a claim settled, an answer revoked.  A row revoked since
\* the UPDATE chose it is passed over.
LEMMA SettleAnswers ==
  ASSUME AnswersInv, NEW k \in Keys, _settle(k)
  PROVE  AnswersInv'
<1>1. /\ RowsInv' /\ TypeOK /\ RequestFits(k) /\ RequestAnswers(k) /\ UniqueIds(mine[k])
      /\ Noted(disp)
  BY SettleRows DEF AnswersInv, TableAnswers, RowsInv, Inv
<1>2. PICK d \in Visible(k) :
        /\ d.id \in todo[k]
        /\ todo' = [todo EXCEPT ![k] = @ \ {d.id}]
        /\ mine' = [mine EXCEPT ![k] =
             IF d.revoked THEN @ ELSE {x \in @ : x.id # d.id} \cup {NewVersion(k, d)}]
        /\ pc' = [pc EXCEPT ![k] = IF todo[k] = {d.id} THEN AfterUpdate(k) ELSE @]
  BY DEF _settle
<1> DEFINE e == NewVersion(k, d)
<1>3. /\ UNCHANGED <<reviews, disp, req, held, found, claims, at, draft>>
      /\ pc[k] \in {"confirming", "revoking", "answering"}
      /\ todo'[k] = todo[k] \ {d.id}
      /\ mine'[k] = IF d.revoked THEN mine[k] ELSE {x \in mine[k] : x.id # d.id} \cup {e}
      /\ pc'[k] = IF todo[k] = {d.id} THEN AfterUpdate(k) ELSE pc[k]
      /\ Rest(k)
  BY <1>1, <1>2 DEF _settle, db, TypeOK, Rest
<1>4. /\ d \in DispRow /\ UniqueIds(Visible(k)) /\ UniqueIds(disp) /\ Noted(Visible(k))
      /\ Visible(k) \in SUBSET DispRow
  BY VisibleFacts
<1>5. /\ e.id = d.id /\ e.fp = d.fp /\ e.on = d.on /\ e.note = d.note /\ e.by = d.by
      /\ pc[k] = "confirming" => e.revoked = d.revoked /\ e.disp = "confirmed_fixed"
      /\ pc[k] # "confirming" => e.revoked /\ e.disp = d.disp
  BY <1>4 DEF NewVersion, DispRow
<1> HIDE DEF e
<1>6. Visible(k)' = IF d.revoked THEN Visible(k) ELSE {x \in Visible(k) : x.id # d.id} \cup {e}
  BY <1>3, <1>5 DEF Visible
<1>7. Responding(k)' = Responding(k) /\ confirmed(k)' = confirmed(k)
  BY <1>3 DEF Responding, confirmed
<1>8. AfterUpdate(k) = IF pc[k] = "confirming" THEN "revoke"
                        ELSE IF pc[k] = "revoking" THEN "rule" ELSE "insert"
  BY <1>3 DEF AfterUpdate
<1>9. VersionsFit(k)'
  <2>1. VersionsFit(k)
    BY <1>1 DEF RequestAnswers
  <2>2. CASE d.revoked
    BY <1>3, <2>1, <2>2 DEF VersionsFit, Ids
  <2>3. CASE ~d.revoked
    <3>1. ASSUME NEW c \in disp, c.id = e.id PROVE ~c.revoked /\ Successor(c, e)
      <4>1. CASE d \in mine[k]
        <5>1. ~c.revoked /\ Successor(c, d)
          BY <1>5, <2>1, <3>1, <4>1 DEF VersionsFit
        <5>2. QED
          BY <1>5, <5>1 DEF Successor
      <4>2. CASE d \in disp
        <5>1. c = d
          BY <1>4, <1>5, <3>1, <4>2 DEF UniqueIds
        <5>2. QED
          BY <1>5, <2>3, <5>1 DEF Successor
      <4>3. QED
        BY <4>1, <4>2 DEF Visible
    <3>2. ASSUME e.id \notin Ids(disp) PROVE held[k] # 0 /\ e.on = held[k]
      <4>1. d \in mine[k]
        BY <1>5, <3>2 DEF Visible, Ids
      <4>2. QED
        BY <1>5, <2>1, <3>2, <4>1 DEF VersionsFit
    <3>3. mine'[k] = {x \in mine[k] : x.id # d.id} \cup {e}
      BY <1>3, <2>3
    <3>4. QED
      BY <1>3, <2>1, <3>1, <3>2, <3>3 DEF VersionsFit, Ids
  <2>4. QED
    BY <2>2, <2>3
<1>10. StandFits(k)'
  <2>1. StandFits(k)
    BY <1>1 DEF RequestAnswers
  <2>2. QED
    BY <1>5, <1>6, <2>1 DEF StandFits, _standing
<1>11. Noted(mine[k])'
  <2>1. Noted(mine[k])
    BY <1>1 DEF RequestAnswers
  <2>2. QED
    BY <1>3, <1>4, <1>5, <2>1 DEF Noted, MUTING_DISPOSITIONS
<1>12. AnsweringFits(k)'
  <2>1. CASE pc[k] = "answering"
    <3>1. /\ held[k] # 0 /\ (Responding(k).disp \in MUTING_DISPOSITIONS => Responding(k).note)
          /\ \A x \in _standing(k) : x.fp = Responding(k).fp /\ x.on = held[k] => x.id \in todo[k]
      BY <1>1, <2>1 DEF RequestAnswers, AnsweringFits
    <3>2. ASSUME NEW x \in _standing(k)', x.fp = Responding(k).fp, x.on = held[k]
          PROVE  x.id \in todo'[k]
      <4>1. x \in _standing(k) /\ x # d
        <5>1. CASE d.revoked
          BY <1>6, <3>2, <5>1 DEF _standing
        <5>2. CASE ~d.revoked
          BY <1>5, <1>6, <2>1, <3>2, <5>2 DEF _standing
        <5>3. QED
          BY <5>1, <5>2
      <4>2. x.id # d.id
        BY <1>4, <4>1 DEF UniqueIds, _standing
      <4>3. QED
        BY <1>3, <3>1, <3>2, <4>1, <4>2
    <3>3. pc'[k] = "answering" \/ (pc'[k] = "insert" /\ todo'[k] = {})
      BY <1>3, <1>8, <2>1
    <3>4. QED
      BY <1>3, <1>7, <3>1, <3>2, <3>3 DEF AnsweringFits
  <2>2. CASE pc[k] # "answering"
    BY <1>3, <1>8, <2>2 DEF AnsweringFits
  <2>3. QED
    BY <2>1, <2>2
<1>13. SettlingFits(k)'
  <2>1. SettlingFits(k)
    BY <1>1 DEF RequestAnswers
  <2>2. Ids(Visible(k)') = Ids(Visible(k))
    BY <1>5, <1>6 DEF Ids
  <2>3. \A x \in Visible(k)' : x.id \in todo'[k] => x \in Visible(k) /\ x.id \in todo[k]
    BY <1>3, <1>5, <1>6
  <2>4. pc'[k] \in {"confirming", "revoking"} => pc[k] = pc'[k]
    BY <1>3, <1>8
  <2>5. pc'[k] \notin {"examine", "reconcile"}
    BY <1>3, <1>8
  <2>6. Settled(mine[k])' \subseteq
          Settled(disp)' \cup (IF req'[k].kind \in Opening THEN confirmed(k)' ELSE {})
    <3> DEFINE C == IF req[k].kind \in Opening THEN confirmed(k) ELSE {}
    <3>1. Settled(mine[k]) \subseteq Settled(disp) \cup C
      BY <2>1 DEF SettlingFits
    <3>2. ASSUME e.disp = "confirmed_fixed" PROVE e.fp \in Settled(disp) \cup C
      <4>1. CASE pc[k] = "confirming"
        <5>1. req[k].kind \in Opening
          BY <1>1, <4>1 DEF RequestFits
        <5>2. d.fp \in confirmed(k)
          BY <1>2, <2>1, <4>1 DEF SettlingFits
        <5>3. QED
          BY <1>5, <5>1, <5>2
      <4>2. CASE pc[k] # "confirming"
        <5>1. d.disp = "confirmed_fixed"
          BY <1>5, <3>2, <4>2
        <5>2. d.fp \in Settled(disp) \cup Settled(mine[k])
          BY <5>1 DEF Settled, Visible
        <5>3. QED
          BY <1>5, <3>1, <5>2
      <4>3. QED
        BY <4>1, <4>2
    <3>3. \A x \in mine'[k] : x \in mine[k] \/ x = e
      BY <1>3
    <3>4. \A x \in mine'[k] : x.disp = "confirmed_fixed" => x.fp \in Settled(disp) \cup C
      BY <3>1, <3>2, <3>3 DEF Settled
    <3>5. Settled(mine[k])' \subseteq Settled(disp) \cup C
      BY <3>4 DEF Settled
    <3>6. Settled(disp)' = Settled(disp)
      BY <1>3 DEF Settled
    <3>7. QED
      BY <1>3, <1>7, <3>5, <3>6
  <2>7. todo'[k] \subseteq Ids(Visible(k)')
    BY <1>3, <2>1, <2>2 DEF SettlingFits
  <2>8. QED
    BY <1>3, <1>7, <2>1, <2>3, <2>4, <2>5, <2>6, <2>7 DEF SettlingFits, Ids
<1>14. VerdictFits(k)'
  BY <1>3, <1>8 DEF VerdictFits
<1>15. BeforeFits(k)'
  BY <1>1, <1>3 DEF RequestAnswers, BeforeFits
<1>16. MuteFits(k)'
  <2>1. SUFFICES ASSUME req[k].kind \in Opening PROVE MuteFits(k)'
    BY <1>3 DEF MuteFits
  <2>2. pc[k] \in {"confirming", "revoking"}
    BY <1>1, <1>3, <2>1 DEF RequestFits, Opening, Rewriting
  <2>3. d.fp \in claims[k]
    BY <1>1, <1>2, <2>2 DEF RequestAnswers, SettlingFits
  <2>4. pc'[k] \notin {"examine", "reconcile", "commit"}
    BY <1>3, <1>8
  <2>5. ASSUME NEW f \in Fp, MuteKept(k, f)
        PROVE  /\ \A x \in mine'[k] : x.fp # f
               /\ \A x \in found[k] : x.fp = f => x.sup
               /\ f \notin claims[k]
    BY <1>1, <1>3, <1>5, <2>1, <2>2, <2>3, <2>5 DEF RequestAnswers, MuteFits
  <2>6. \A f : MuteKept(k, f)' = MuteKept(k, f)
    BY <1>3 DEF MuteKept, About
  <2>7. QED
    BY <1>3, <2>4, <2>5, <2>6 DEF MuteFits
<1>17. RequestAnswers(k)'
  BY <1>9, <1>10, <1>11, <1>12, <1>13, <1>14, <1>15, <1>16 DEF RequestAnswers
<1>18. QED
  BY <1>1, <1>3, <1>17, AnswersFrame

\* The review is held before any row is put in.
LEMMA OwnReviewAnswers ==
  ASSUME AnswersInv, NEW k \in Keys, _own_review(k)
  PROVE  AnswersInv'
<1>1. RowsInv' /\ TypeOK /\ RequestFits(k) /\ HeldFits(k) /\ RequestAnswers(k)
  BY OwnReviewRows DEF AnswersInv, RowsInv, Inv
<1>2. CASE Rollback(k)
  BY <1>2, RollbackAnswers
<1>3. CASE ~Rollback(k)
  <2>1. /\ UNCHANGED <<reviews, disp, req, mine, todo, found, claims, draft>>
        /\ pc[k] = "lock" /\ pc'[k] \in {"rule", "answer"} /\ Rest(k)
    BY <1>1, <1>3 DEF _own_review, db, TypeOK, Rest
  <2>2. req[k].kind \in Rewriting /\ held[k] = 0
    BY <1>1, <2>1 DEF RequestFits, HeldFits
  <2>3. Visible(k)' = Visible(k) /\ confirmed(k)' = confirmed(k)
    BY <2>1 DEF Visible, confirmed
  <2>4. VersionsFit(k)'
    BY <1>1, <2>1, <2>2 DEF RequestAnswers, VersionsFit, Ids
  <2>5. StandFits(k)' /\ Noted(mine[k])' /\ BeforeFits(k)'
    BY <1>1, <2>1, <2>3 DEF RequestAnswers, StandFits, _standing, Noted, BeforeFits
  <2>6. AnsweringFits(k)' /\ VerdictFits(k)' /\ MuteFits(k)'
    BY <2>1, <2>2 DEF AnsweringFits, VerdictFits, MuteFits, Opening, Rewriting
  <2>7. SettlingFits(k)'
    BY <1>1, <2>1, <2>3 DEF RequestAnswers, SettlingFits, Ids, Settled
  <2>8. RequestAnswers(k)'
    BY <2>4, <2>5, <2>6, <2>7 DEF RequestAnswers
  <2>9. QED
    BY <1>1, <2>1, <2>8, AnswersFrame
<1>4. QED
  BY <1>2, <1>3

\* The answer is put in once none this review was given stands for its finding.
LEMMA InsertAnswers ==
  ASSUME AnswersInv, NEW k \in Keys, insert(k)
  PROVE  AnswersInv'
<1>1. /\ RowsInv' /\ TypeOK /\ RequestFits(k) /\ RequestAnswers(k) /\ UniqueIds(mine[k])
      /\ UniqueIds(disp)
  BY InsertRows DEF AnswersInv, RowsInv, Inv
<1> DEFINE e == [id |-> nextRow, fp |-> req[k].batch[at[k]].fp, disp |-> req[k].batch[at[k]].disp,
                 revoked |-> FALSE, by |-> Owner[k], note |-> req[k].batch[at[k]].note,
                 on |-> held[k]]
<1>2. /\ UNCHANGED <<reviews, disp, req, held, todo, found, claims, draft>> /\ nextRow \in Nat
      /\ pc[k] = "insert" /\ pc'[k] \in {"rule", "answer"} /\ mine'[k] = mine[k] \cup {e} /\ Rest(k)
  BY <1>1 DEF insert, TypeOK, Rest
<1>3. /\ e.id = nextRow /\ e.fp = Responding(k).fp /\ e.disp = Responding(k).disp
      /\ e.note = Responding(k).note /\ e.on = held[k]
  BY DEF Responding
<1>4. Responding(k) \in Response
  <2>1. req[k].batch \in Seq(Response) /\ at[k] \in 1..Len(req[k].batch)
    BY <1>1, <1>2 DEF TypeOK, Request, RequestFits
  <2>2. QED
    BY <2>1, ElementOfSeq DEF Responding
<1> HIDE DEF e
<1>5. \A d \in disp : d.id < nextRow /\ d.id \in Nat
  BY <1>1 DEF UniqueIds, TypeOK, DispRow
<1>6. nextRow \notin Ids(disp)
  BY <1>2, <1>5 DEF Ids
<1>7. Visible(k)' = Visible(k) \cup {e}
  BY <1>2, <1>3, <1>5 DEF Visible
<1>8. /\ held[k] # 0 /\ (Responding(k).disp \in MUTING_DISPOSITIONS => Responding(k).note)
      /\ \A d \in _standing(k) : d.fp = Responding(k).fp => d.on # held[k]
  BY <1>1, <1>2 DEF RequestAnswers, AnsweringFits
<1>9. VersionsFit(k)'
  BY <1>1, <1>2, <1>3, <1>6, <1>8 DEF RequestAnswers, VersionsFit, Ids
<1>10. StandFits(k)'
  BY <1>1, <1>3, <1>7, <1>8 DEF RequestAnswers, StandFits, _standing
<1>11. Noted(mine[k])'
  BY <1>1, <1>2, <1>3, <1>8 DEF RequestAnswers, Noted
<1>12. AnsweringFits(k)' /\ VerdictFits(k)'
  BY <1>2 DEF AnsweringFits, VerdictFits
<1>13. SettlingFits(k)'
  <2>1. e.disp # "confirmed_fixed"
    BY <1>3, <1>4 DEF Response, Answer
  <2>2. Settled(mine[k])' = Settled(mine[k]) /\ Settled(disp)' = Settled(disp)
        /\ confirmed(k)' = confirmed(k)
    BY <1>2, <2>1 DEF Settled, confirmed
  <2>3. todo'[k] \subseteq Ids(Visible(k)')
    BY <1>1, <1>2, <1>7 DEF RequestAnswers, SettlingFits, Ids
  <2>4. Settled(mine[k]) \subseteq Settled(disp) \cup (IF req[k].kind \in Opening THEN confirmed(k) ELSE {})
    BY <1>1 DEF RequestAnswers, SettlingFits
  <2>5. QED
    BY <1>2, <2>2, <2>3, <2>4 DEF SettlingFits, Ids
<1>14. BeforeFits(k)'
  BY <1>1, <1>2 DEF RequestAnswers, BeforeFits
<1>15. MuteFits(k)'
  BY <1>1, <1>2 DEF RequestFits, MuteFits, Opening, Rewriting
<1>16. RequestAnswers(k)'
  BY <1>9, <1>10, <1>11, <1>12, <1>13, <1>14, <1>15 DEF RequestAnswers
<1>17. QED
  BY <1>1, <1>2, <1>16, AnswersFrame
-----------------------------------------------------------------------------
(* The verdict                                                             *)

\* A gate that passes shows nothing that blocks but what was answered.
LEMMA PassClears ==
  ASSUME NEW R \in SUBSET Row, NEW A, NEW muted,
         compute_verdict(apply_dispositions(R, muted) \cup A) = "pass"
  PROVE  /\ \A x \in R : ~x.sup /\ x.fp \in Blockers => x.fp \in muted
         /\ \A x \in A : ~x.sup => x.fp \notin Blockers
<1>1. \A x \in apply_dispositions(R, muted) \cup A : ~x.sup => x.fp \notin Blockers
  BY DEF compute_verdict
<1>2. ASSUME NEW x \in R, ~x.sup, x.fp \in Blockers PROVE x.fp \in muted
  <2> DEFINE y == [x EXCEPT !.sup = x.sup \/ x.fp \in muted]
  <2>1. y \in apply_dispositions(R, muted)
    BY DEF apply_dispositions
  <2>2. x \in Row
    OBVIOUS
  <2>3. y.fp = x.fp /\ (y.sup = (x.sup \/ x.fp \in muted))
    BY <2>2 DEF Row
  <2> HIDE DEF y
  <2>4. QED
    BY <1>1, <1>2, <2>1, <2>3
<1>3. QED
  BY <1>1, <1>2

\* Explained, for a review whose verdict comes from answers that k sees.
LEMMA PassExplained ==
  ASSUME AnswersInv, NEW k \in Keys, NEW fps, NEW muted \in active(k, fps), NEW R \in SUBSET Row,
         NEW A, NEW r, r.det \cup r.agent \subseteq R \cup A,
         r.blocking = compute_verdict(apply_dispositions(R, muted) \cup A)
  PROVE  Explained(r, Visible(k))
<1>1. SUFFICES ASSUME r.blocking = "pass", NEW x \in r.det \cup r.agent, ~x.sup, x.fp \in Blockers
               PROVE  \E d \in Visible(k) : d.fp = x.fp /\ d.note /\ d.disp # "fixed"
  BY DEF Explained
<1>2. /\ \A y \in R : ~y.sup /\ y.fp \in Blockers => y.fp \in muted
      /\ \A y \in A : ~y.sup => y.fp \notin Blockers
  BY <1>1, PassClears
<1>3. x.fp \in muted
  BY <1>1, <1>2
<1>4. QED
  BY <1>3, ActiveExplains

\* What merge() leaves of a submission are findings of the submission.
LEMMA MergeFps ==
  ASSUME NEW R, NEW list \in Seq(AgentFinding), NEW r \in merge(R, capped(list))
  PROVE  r.fp \in {list[i].fp : i \in DOMAIN list}
<1> DEFINE n == IF Len(list) < MaxAgent THEN Len(list) ELSE MaxAgent
<1>1. Len(list) \in Nat /\ n \in Nat /\ n <= Len(list) /\ DOMAIN list = 1..Len(list)
  BY LenProperties, ConstantsAssumption
<1>2. Len(capped(list)) = n /\ \A i \in 1..n : capped(list)[i] = list[i]
  BY <1>1, SubSeqProperties DEF capped
<1> DEFINE c == capped(list)
           Dup(i) == \/ ~c[i].inDiff
                     \/ _overlaps(c[i].fp, R)
                     \/ \E j \in 1..(i - 1) : /\ c[j].inDiff
                                              /\ ~_overlaps(c[j].fp, R)
                                              /\ Place[c[j].fp] = Place[c[i].fp]
<1>3. PICK i \in 1..Len(c) : r.fp = c[i].fp
  <2>1. merge(R, c) = {[fp |-> c[i].fp, sup |-> Dup(i)] : i \in 1..Len(c)}
    BY Zenon DEF merge
  <2> HIDE DEF Dup, c
  <2>2. r \in {[fp |-> c[i].fp, sup |-> Dup(i)] : i \in 1..Len(c)}
    BY <2>1 DEF c
  <2>3. QED
    BY <2>2
<1>4. QED
  BY <1>1, <1>2, <1>3

\* A row that answers were applied to is suppressed when its finding is among them.
LEMMA AppliedMuted ==
  ASSUME NEW R \in SUBSET Row, NEW muted, NEW x \in apply_dispositions(R, muted)
  PROVE  \E r \in R : x.fp = r.fp /\ (r.fp \in muted => x.sup)
<1>1. PICK r \in R : x = [r EXCEPT !.sup = r.sup \/ r.fp \in muted]
  BY DEF apply_dispositions
<1>2. r \in Row
  BY <1>1
<1>3. x.fp = r.fp /\ (x.sup = (r.sup \/ r.fp \in muted))
  BY <1>1, <1>2 DEF Row
<1>4. QED
  BY <1>3

\* The draft of a review carries what was muted and explains its verdict.
LEMMA RuleAnswers ==
  ASSUME AnswersInv, NEW k \in Keys, Rule(k)
  PROVE  AnswersInv'
<1>1. RowsInv' /\ TypeOK /\ RequestFits(k) /\ ReviewsGood /\ RequestAnswers(k)
  BY RuleRows DEF AnswersInv, RowsInv, Inv
<1>2. PICK muted \in active(k, Asked(k)) :
        draft' = [draft EXCEPT ![k] =
          CASE req[k].kind = "create"  -> CreateDraft(k, muted)
            [] req[k].kind = "submit"  -> SubmitDraft(k, muted)
            [] req[k].kind = "respond" -> RespondDraft(k, muted)
            [] OTHER                   -> PlanDraft(k)]
  BY Zenon DEF Rule
<1>3. /\ UNCHANGED <<reviews, disp, req, held, mine, todo, found, claims, at>>
      /\ pc[k] = "rule" /\ pc' = [pc EXCEPT ![k] = "commit"] /\ pc'[k] = "commit"
      /\ req[k].kind \in Opening \cup Rewriting
      /\ found[k] \in SUBSET Row /\ req[k].sub \in Seq(AgentFinding)
  BY <1>1 DEF Rule, db, TypeOK, RequestFits, Request
<1>4. Rest(k)
  <2>1. \A j \in Keys \ {k} : draft'[j] = draft[j] /\ pc'[j] = pc[j]
    BY <1>1, <1>2, <1>3, Zenon DEF TypeOK
  <2>2. QED
    BY <1>3, <2>1 DEF Rest
<1>5. Visible(k)' = Visible(k) /\ confirmed(k)' = confirmed(k)
      /\ \A f : MuteKept(k, f)' = MuteKept(k, f)
  BY <1>3 DEF Visible, confirmed, MuteKept, About
<1>6. AnsweringFits(k)'
  BY <1>3 DEF AnsweringFits
<1>7. SettlingFits(k)'
  BY <1>1, <1>3, <1>5 DEF RequestAnswers, SettlingFits, Ids, Settled
<1>8. Explained(Opened(k)', Visible(k)) /\ req[k].kind \in Opening => VerdictFits(k)'
  BY <1>3, <1>5 DEF VerdictFits, Opening, Rewriting
<1>9. Explained(Rewritten(k, reviews[req[k].review])', Visible(k)) /\ req[k].kind \in Rewriting
        => VerdictFits(k)'
  BY <1>3, <1>5 DEF VerdictFits, Opening, Rewriting
<1>10. ASSUME req[k].kind \in Opening,
              \A x \in draft'[k].det \cup draft'[k].agent :
                x.fp \in Fp /\ MuteKept(k, x.fp) => x \in found[k] \/ x.sup
       PROVE  MuteFits(k)'
  <2>1. ASSUME NEW f \in Fp, MuteKept(k, f)
        PROVE  /\ \A x \in mine[k] : x.fp # f
               /\ \A x \in found[k] : x.fp = f => x.sup
               /\ f \notin claims[k]
    BY <1>1, <1>3, <1>10, <2>1 DEF RequestAnswers, MuteFits
  <2>2. ASSUME NEW f \in Fp, MuteKept(k, f), NEW x \in draft'[k].det \cup draft'[k].agent, x.fp = f
        PROVE  x.sup
    BY <1>10, <2>1, <2>2
  <2>3. QED
    BY <1>3, <1>5, <2>1, <2>2 DEF MuteFits
<1> DEFINE a == apply_dispositions(merge(found[k], capped(req[k].sub)), muted)
           s == reviews[req[k].review]
           b == apply_dispositions(merge(s.det, capped(req[k].sub)), muted)
<1>11. CASE req[k].kind = "create"
  <2>1. draft'[k] = CreateDraft(k, muted)
    BY <1>1, <1>2, <1>11, Zenon DEF TypeOK
  <2>2. /\ draft'[k].det = found[k] /\ draft'[k].agent = a
        /\ draft'[k].blocking = compute_verdict(apply_dispositions(found[k], muted) \cup a)
    BY <2>1 DEF CreateDraft
  <2>3. ASSUME NEW x \in a, x.fp \in Fp, MuteKept(k, x.fp) PROVE x.sup
    <3>1. merge(found[k], capped(req[k].sub)) \in SUBSET Row
      BY <1>3, MergeType, CappedType
    <3>2. PICK r \in merge(found[k], capped(req[k].sub)) : x.fp = r.fp /\ (r.fp \in muted => x.sup)
      BY <3>1, AppliedMuted
    <3>3. r.fp \in Asked(k)
      BY <1>3, <1>11, MergeFps DEF Asked, SubmittedFps
    <3>4. x.fp \in Asked(k) /\ req[k].kind \in Opening
      BY <1>11, <3>2, <3>3 DEF Opening
    <3>5. x.fp \in muted
      BY <2>3, <3>4, ActiveMutes
    <3>6. QED
      BY <3>2, <3>5
  <2> HIDE DEF a
  <2>4. MuteFits(k)'
    BY <1>10, <1>11, <2>2, <2>3 DEF Opening
  <2>5. /\ Opened(k)'.det = found[k] /\ Opened(k)'.agent = a
        /\ Opened(k)'.blocking = compute_verdict(apply_dispositions(found[k], muted) \cup a)
    BY <2>2 DEF Opened
  <2>6. Explained(Opened(k)', Visible(k))
    BY <1>3, <2>5, PassExplained
  <2>7. VerdictFits(k)'
    BY <1>8, <1>11, <2>6 DEF Opening
  <2>8. QED
    BY <1>1, <1>3, <1>4, <1>6, <1>7, <2>4, <2>7, ReadAnswers
<1>12. CASE req[k].kind = "plan_v1"
  <2>1. draft'[k] = PlanDraft(k)
    BY <1>1, <1>2, <1>12, Zenon DEF TypeOK
  <2>2. draft'[k].det = found[k] /\ draft'[k].agent = {} /\ draft'[k].blocking = "none"
    BY <2>1 DEF PlanDraft, NoDraft
  <2>3. MuteFits(k)'
    BY <1>10, <1>12, <2>2 DEF Opening
  <2>4. Explained(Opened(k)', Visible(k))
    BY <2>2 DEF Opened, Explained
  <2>5. VerdictFits(k)'
    BY <1>8, <1>12, <2>4 DEF Opening
  <2>6. QED
    BY <1>1, <1>3, <1>4, <1>6, <1>7, <2>3, <2>5, ReadAnswers
<1>13. CASE req[k].kind \in Rewriting
  <2>1. s \in Review
    BY <1>1, <1>13 DEF RequestFits, ReviewsGood, Good
  <2>2. s.det \in SUBSET Row /\ s.agent \in SUBSET Row
    BY <2>1 DEF Review
  <2>3. /\ Rewritten(k, s)'.det = s.det
        /\ Rewritten(k, s)'.agent = (s.agent \ draft'[k].gone) \cup draft'[k].agent
        /\ Rewritten(k, s)'.blocking = draft'[k].blocking
    BY <1>3, <2>1 DEF Rewritten, Review
  <2>4. Explained(Rewritten(k, s)', Visible(k))
    <3>1. CASE req[k].kind = "submit"
      <4>1. draft'[k] = SubmitDraft(k, muted)
        BY <1>1, <1>2, <3>1, Zenon DEF TypeOK
      <4>2. /\ draft'[k].gone = s.agent /\ draft'[k].agent = b
            /\ draft'[k].blocking = compute_verdict(apply_dispositions(s.det, muted) \cup b)
        BY <4>1 DEF SubmitDraft
      <4> HIDE DEF b
      <4>3. Rewritten(k, s)'.det \cup Rewritten(k, s)'.agent \subseteq s.det \cup b
        BY <2>3, <4>2
      <4>4. Rewritten(k, s)'.blocking = compute_verdict(apply_dispositions(s.det, muted) \cup b)
        BY <2>3, <4>2
      <4> HIDE DEF s
      <4>5. QED
        BY <2>2, <4>3, <4>4, PassExplained
    <3>2. CASE req[k].kind = "respond"
      <4> DEFINE all == s.det \cup s.agent
      <4>1. draft'[k] = RespondDraft(k, muted)
        BY <1>1, <1>2, <3>2, Zenon DEF TypeOK
      <4>2. /\ draft'[k].gone = {} /\ draft'[k].agent = {}
            /\ draft'[k].blocking = compute_verdict(apply_dispositions(all, muted))
        BY <4>1 DEF RespondDraft
      <4>3. Rewritten(k, s)'.det \cup Rewritten(k, s)'.agent \subseteq all \cup {}
        BY <2>3, <4>2
      <4>4. Rewritten(k, s)'.blocking = compute_verdict(apply_dispositions(all, muted) \cup {})
        BY <2>3, <4>2
      <4>5. all \in SUBSET Row
        BY <2>2
      <4> HIDE DEF s, all
      <4>6. QED
        BY <4>3, <4>4, <4>5, PassExplained
    <3>3. QED
      BY <1>13, <3>1, <3>2 DEF Rewriting
  <2>5. MuteFits(k)'
    BY <1>3, <1>13 DEF MuteFits, Opening, Rewriting
  <2>6. Rewritten(k, reviews[req[k].review])' = Rewritten(k, s)'
    BY <1>3 DEF Rewritten
  <2>7. VerdictFits(k)'
    BY <1>9, <1>13, <2>4, <2>6
  <2>8. QED
    BY <1>1, <1>3, <1>4, <1>6, <1>7, <2>5, <2>7, ReadAnswers
<1>14. QED
  BY <1>3, <1>11, <1>12, <1>13 DEF Opening
-----------------------------------------------------------------------------
(* The commit                                                              *)

\* A commit brings no answer about a finding and back: what is muted as it was
\* when j began, once k has committed, was so before.
LEMMA MuteKeptBefore ==
  ASSUME AnswersInv, RowsInv', NEW k \in Keys, disp' = Visible(k), NEW j \in Keys, req'[j] = req[j],
         NEW f, MuteKept(j, f)'
  PROVE  MuteKept(j, f)
<1>1. /\ UniqueIds(disp) /\ disp \in SUBSET DispRow /\ disp' \in SUBSET DispRow
      /\ \A d \in disp : \E e \in disp' : Successor(d, e)
  BY VisibleFacts
<1>2. UniqueIds(disp')
  BY VisibleFacts
<1>3. /\ \A d \in req[j].before : \E e \in disp : Successor(d, e)
      /\ req[j].before \in SUBSET DispRow
  BY DEF AnswersInv, RequestAnswers, BeforeFits, RowsInv, Inv, TypeOK, Request
<1>4. About(disp', f) = About(req[j].before, f)
  BY DEF MuteKept, About
<1>5. ASSUME NEW d \in About(disp, f) PROVE d \in About(disp', f)
  <2>1. d \in disp /\ d.fp = f
    BY DEF About
  <2>2. PICK e \in disp' : Successor(d, e)
    BY <1>1, <2>1
  <2>3. e \in req[j].before
    BY <1>4, <2>1, <2>2 DEF About, Successor
  <2>4. PICK g \in disp : Successor(e, g)
    BY <1>3, <2>3
  <2>5. g = d
    BY <1>1, <2>1, <2>2, <2>4 DEF UniqueIds, Successor
  <2>6. d = e
    BY <1>1, <2>1, <2>2, <2>4, <2>5, SuccessorsMeet
  <2>7. QED
    BY <2>1, <2>2, <2>6 DEF About
<1>6. ASSUME NEW d \in About(disp', f) PROVE d \in About(disp, f)
  <2>1. d \in disp' /\ d.fp = f /\ d \in req[j].before
    BY <1>4 DEF About
  <2>2. PICK g \in disp : Successor(d, g)
    BY <1>3, <2>1
  <2>3. PICK h \in disp' : Successor(g, h)
    BY <1>1, <2>2
  <2>4. h = d
    BY <1>2, <2>1, <2>2, <2>3 DEF UniqueIds, Successor
  <2>5. d = g
    BY <1>1, <2>1, <2>2, <2>3, <2>4, SuccessorsMeet
  <2>6. QED
    BY <2>1, <2>2, <2>5 DEF About
<1>7. About(disp, f) = About(disp', f)
  BY <1>5, <1>6
<1>8. \E d \in disp' : /\ {e \in About(disp', f) : ~e.revoked} = {d}
                       /\ d.disp \in MUTING_DISPOSITIONS
  BY DEF MuteKept, About
<1>9. PICK d \in disp' : {e \in About(disp', f) : ~e.revoked} = {d} /\ d.disp \in MUTING_DISPOSITIONS
  BY <1>8
<1>10. d \in disp
  BY <1>7, <1>9 DEF About
<1>11. QED
  BY <1>4, <1>7, <1>9, <1>10 DEF MuteKept

\* Rows that stand for j once k has committed: its own, those that stood for it,
\* and answers to the review k held.
LEMMA StoodBefore ==
  ASSUME AnswersInv, NEW k \in Keys, NEW j \in Keys, j # k, disp' = Visible(k), mine'[j] = mine[j],
         NEW d \in _standing(j)'
  PROVE  \/ \E c \in _standing(j) : c.id = d.id /\ c.fp = d.fp /\ c.on = d.on
         \/ d \in mine[k] /\ d.id \notin Ids(disp) /\ held[k] # 0 /\ d.on = held[k]
<1>1. ~d.revoked /\ (d \in mine[j] \/ (d \in Visible(k) /\ \A x \in mine[j] : x.id # d.id))
  BY DEF _standing, Visible
<1>2. CASE d \in mine[j] \/ d \in disp
  BY <1>1, <1>2 DEF _standing, Visible
<1>3. CASE d \in mine[k] /\ \A x \in mine[j] : x.id # d.id
  <2>1. CASE \E c \in disp : c.id = d.id /\ ~c.revoked /\ Successor(c, d)
    <3>1. PICK c \in disp : c.id = d.id /\ ~c.revoked /\ Successor(c, d)
      BY <2>1
    <3>2. c \in _standing(j)
      BY <1>3, <3>1 DEF _standing, Visible
    <3>3. QED
      BY <3>1, <3>2 DEF Successor
  <2>2. QED
    BY <1>3, <2>1, VersionOf
<1>4. QED
  BY <1>1, <1>2, <1>3 DEF Visible

\* So among the answers to the review j holds there is none that j has not seen.
LEMMA HeldAnswersSeen ==
  ASSUME AnswersInv, NEW k \in Keys, NEW j \in Keys, j # k, disp' = Visible(k), mine'[j] = mine[j],
         held[j] # 0, NEW d \in _standing(j)', d.on = held[j]
  PROVE  \E c \in _standing(j) : c.id = d.id /\ c.fp = d.fp /\ c.on = d.on
<1>1. Exclusive
  BY DEF AnswersInv, RowsInv, Inv
<1>2. ~(held[k] # 0 /\ d.on = held[k])
  BY <1>1 DEF Exclusive
<1>3. QED
  BY <1>2, StoodBefore

\* One answer of each review stands for j after the commit of k.
LEMMA StandsForOthers ==
  ASSUME AnswersInv, NEW k \in Keys, NEW j \in Keys, j # k, disp' = Visible(k), mine'[j] = mine[j]
  PROVE  StandFits(j)'
<1>1. /\ StandFits(j) /\ StandFits(k) /\ Exclusive /\ Apart
      /\ UniqueIds(Visible(k)) /\ UniqueIds(mine[j])
  BY VisibleFacts DEF AnswersInv, RequestAnswers, RowsInv, Inv
<1>2. ASSUME NEW x \in mine[j], NEW y \in mine[k] PROVE x.id # y.id
  BY <1>1, <1>2 DEF Apart, Ids
\* A row of j and one k has committed never stand for one finding.
<1>3. ASSUME NEW d \in mine[j], ~d.revoked, NEW e \in Visible(k), ~e.revoked,
             \A x \in mine[j] : x.id # e.id, d.fp = e.fp, d.on = e.on
      PROVE  FALSE
  <2>1. CASE e \in disp
    <3>1. d \in _standing(j) /\ e \in _standing(j)
      BY <1>3, <2>1 DEF _standing, Visible
    <3>2. QED
      BY <1>1, <1>3, <3>1 DEF StandFits
  <2>2. CASE e \in mine[k]
    <3>1. CASE \E c \in disp : c.id = e.id /\ ~c.revoked /\ Successor(c, e)
      <4>1. PICK c \in disp : c.id = e.id /\ ~c.revoked /\ Successor(c, e)
        BY <3>1
      <4>2. d \in _standing(j) /\ c \in _standing(j)
        BY <1>3, <4>1 DEF _standing, Visible
      <4>3. c = d
        BY <1>1, <1>3, <4>1, <4>2 DEF StandFits, Successor
      <4>4. QED
        BY <1>3, <4>1, <4>3
    <3>2. CASE e.id \notin Ids(disp) /\ held[k] # 0 /\ e.on = held[k]
      <4>1. CASE \E c \in disp : c.id = d.id /\ ~c.revoked /\ Successor(c, d)
        <5>1. PICK c \in disp : c.id = d.id /\ ~c.revoked /\ Successor(c, d)
          BY <4>1
        <5>2. c \in _standing(k)
          BY <1>2, <1>3, <5>1 DEF _standing, Visible
        <5>3. e \in _standing(k)
          BY <1>3 DEF _standing
        <5>4. c = e
          BY <1>1, <1>3, <5>1, <5>2, <5>3 DEF StandFits, Successor
        <5>5. QED
          BY <3>2, <5>1, <5>4 DEF Ids
      <4>2. CASE held[j] # 0 /\ d.on = held[j]
        BY <1>1, <1>3, <3>2, <4>2 DEF Exclusive
      <4>3. QED
        BY <4>1, <4>2, VersionOf
    <3>3. QED
      BY <2>2, <3>1, <3>2, VersionOf
  <2>3. QED
    BY <2>1, <2>2 DEF Visible
<1>4. ASSUME NEW d \in _standing(j)', NEW e \in _standing(j)', d.fp = e.fp, d.on = e.on
      PROVE  d = e
  <2>1. /\ ~d.revoked /\ (d \in mine[j] \/ (d \in Visible(k) /\ \A x \in mine[j] : x.id # d.id))
        /\ ~e.revoked /\ (e \in mine[j] \/ (e \in Visible(k) /\ \A x \in mine[j] : x.id # e.id))
    BY DEF _standing, Visible
  <2>2. CASE d \in mine[j] /\ e \in mine[j]
    BY <1>1, <1>4, <2>1, <2>2 DEF StandFits, _standing, Visible
  <2>3. CASE d \in Visible(k) /\ e \in Visible(k)
    BY <1>1, <1>4, <2>1, <2>3 DEF StandFits, _standing
  <2>4. QED
    BY <1>3, <1>4, <2>1, <2>2, <2>3
<1>5. QED
  BY <1>4 DEF StandFits

\* A pass that j is about to commit keeps its argument.
LEMMA VerdictForOthers ==
  ASSUME AnswersInv, RowsInv', NEW k \in Keys, Commit(k), NEW j \in Keys, j # k,
         pc'[j] = pc[j], req'[j] = req[j], draft'[j] = draft[j],
         \A d \in Visible(j) : \E e \in Visible(j)' : Successor(d, e)
  PROVE  VerdictFits(j)'
<1>1. /\ VerdictFits(j) /\ RequestFits(j) /\ HeldFits(j) /\ HeldFits(k) /\ Exclusive
      /\ Len(reviews) \in Nat /\ pc[k] = "commit" /\ Inv
  BY CommitFacts DEF AnswersInv, RequestAnswers, RowsInv, Inv
<1>2. Opened(j)' = Opened(j)
  BY DEF Opened
<1>3. ASSUME req[j].kind \in Rewriting, pc[j] = "commit"
      PROVE  reviews'[req[j].review] = reviews[req[j].review]
  <2>1. req[j].review \in 1..Len(reviews) /\ held[j] = req[j].review
    BY <1>1, <1>3 DEF RequestFits, HeldFits
  <2>2. ~(req[k].kind \in Rewriting /\ req[j].review = req[k].review)
    <3>1. req[k].kind \in Rewriting => held[k] = req[k].review
      BY <1>1 DEF HeldFits
    <3>2. held[j] # 0
      BY <2>1, <1>1
    <3>3. QED
      BY <1>1, <2>1, <3>1, <3>2 DEF Exclusive
  <2>3. QED
    BY <1>1, <2>1, <2>2, CommitFacts
<1>4. ASSUME req[j].kind \in Rewriting, pc[j] = "commit"
      PROVE  Rewritten(j, reviews[req[j].review])' = Rewritten(j, reviews[req[j].review])
  BY <1>3, <1>4 DEF Rewritten
<1>5. ASSUME NEW r, Explained(r, Visible(j)) PROVE Explained(r, Visible(j)')
  BY <1>5, ExplainedLater
<1>6. CASE pc[j] = "commit" /\ req[j].kind \in Opening
  <2>1. Explained(Opened(j), Visible(j)')
    BY <1>1, <1>5, <1>6 DEF VerdictFits
  <2>2. Explained(Opened(j)', Visible(j)')
    BY <1>2, <2>1
  <2>3. QED
    BY <1>6, <2>2 DEF VerdictFits, Opening, Rewriting
<1>7. CASE pc[j] = "commit" /\ req[j].kind \in Rewriting
  <2>1. Explained(Rewritten(j, reviews[req[j].review]), Visible(j)')
    BY <1>1, <1>5, <1>7 DEF VerdictFits
  <2>2. Explained(Rewritten(j, reviews[req[j].review])', Visible(j)')
    BY <1>4, <1>7, <2>1
  <2>3. QED
    BY <1>7, <2>2 DEF VerdictFits, Opening, Rewriting
<1>8. QED
  BY <1>6, <1>7 DEF VerdictFits

\* What a request in flight keeps while another commits.
LEMMA OthersAnswers ==
  ASSUME AnswersInv, RowsInv', NEW k \in Keys, Commit(k), Rest(k), NEW j \in Keys, j # k
  PROVE  RequestAnswers(j)'
<1>1. /\ pc'[j] = pc[j] /\ req'[j] = req[j] /\ held'[j] = held[j] /\ mine'[j] = mine[j]
      /\ todo'[j] = todo[j] /\ found'[j] = found[j] /\ claims'[j] = claims[j]
      /\ at'[j] = at[j] /\ draft'[j] = draft[j]
  BY DEF Rest
<1>2. RequestAnswers(j) /\ RequestAnswers(k) /\ Apart /\ disp' = Visible(k)
  BY CommitFacts DEF AnswersInv, RowsInv
<1>3. /\ \A d \in disp : \E e \in disp' : Successor(d, e)
      /\ UniqueIds(Visible(j))
  BY <1>2, VisibleFacts
<1>4. \A d \in Visible(j) : \E e \in Visible(j)' : Successor(d, e)
  <2>1. ASSUME NEW d \in Visible(j) PROVE \E e \in Visible(j)' : Successor(d, e)
    <3>1. CASE d \in mine[j]
      BY <1>1, <3>1 DEF Visible, Successor
    <3>2. CASE d \in disp /\ \A x \in mine[j] : x.id # d.id
      <4>1. PICK e \in disp' : Successor(d, e)
        BY <1>3, <3>2
      <4>2. e \in Visible(j)'
        BY <1>1, <3>2, <4>1 DEF Visible, Successor
      <4>3. QED
        BY <4>1, <4>2
    <3>3. QED
      BY <3>1, <3>2 DEF Visible
  <2>2. QED
    BY <2>1
<1>5. UniqueIds(Visible(j))'
  <2>1. UniqueIds(disp)' /\ UniqueIds(mine[j])'
    BY DEF RowsInv
  <2>2. QED
    BY <2>1 DEF UniqueIds, Visible
<1>6. /\ Responding(j)' = Responding(j) /\ confirmed(j)' = confirmed(j)
  BY <1>1 DEF Responding, confirmed
<1>7. VersionsFit(j)'
  <2>1. ASSUME NEW d \in disp', NEW e \in mine[j], d.id = e.id PROVE ~d.revoked /\ Successor(d, e)
    <3>1. d \notin mine[k]
      BY <1>2, <2>1 DEF Apart, Ids
    <3>2. d \in disp
      BY <1>2, <3>1 DEF Visible
    <3>3. QED
      BY <1>2, <2>1, <3>2 DEF RequestAnswers, VersionsFit
  <2>2. Ids(disp) \subseteq Ids(disp')
    BY <1>3 DEF Ids, Successor
  <2>3. \A e \in mine[j] : e.id \notin Ids(disp') => held[j] # 0 /\ e.on = held[j]
    BY <1>2, <2>2 DEF RequestAnswers, VersionsFit
  <2>4. QED
    BY <1>1, <2>1, <2>3 DEF VersionsFit, Ids
<1>8. StandFits(j)'
  BY <1>1, <1>2, StandsForOthers
<1>9. Noted(mine[j])'
  BY <1>1, <1>2 DEF RequestAnswers, Noted
<1>10. AnsweringFits(j)'
  <2>1. AnsweringFits(j)
    BY <1>2 DEF RequestAnswers
  <2>2. ASSUME pc[j] \in {"answering", "insert"}, NEW d \in _standing(j)', d.on = held[j]
        PROVE  \E c \in _standing(j) : c.id = d.id /\ c.fp = d.fp /\ c.on = d.on
    <3>1. held[j] # 0
      BY <2>1, <2>2 DEF AnsweringFits
    <3>2. QED
      BY <1>1, <1>2, <2>2, <3>1, HeldAnswersSeen
  <2>3. QED
    BY <1>1, <1>6, <2>1, <2>2 DEF AnsweringFits
<1>11. SettlingFits(j)'
  <2>1. SettlingFits(j)
    BY <1>2 DEF RequestAnswers
  <2>2. todo[j] \subseteq Ids(Visible(j)')
    BY <1>4, <2>1 DEF SettlingFits, Ids, Successor
  <2>3. ASSUME NEW d \in Visible(j)', d.id \in todo[j]
        PROVE  \E c \in Visible(j) : c.id = d.id /\ c.fp = d.fp
    <3>1. PICK c \in Visible(j) : c.id = d.id
      BY <2>1, <2>3 DEF SettlingFits, Ids
    <3>2. PICK e \in Visible(j)' : Successor(c, e)
      BY <1>4
    <3>3. e = d
      BY <1>5, <3>1, <3>2 DEF UniqueIds, Successor
    <3>4. QED
      BY <3>1, <3>2, <3>3 DEF Successor
  <2>4. Settled(disp) \subseteq Settled(disp')
    <3>1. ASSUME NEW d \in disp, d.disp = "confirmed_fixed"
          PROVE  \E e \in disp' : e.fp = d.fp /\ e.disp = "confirmed_fixed"
      BY <1>3, <3>1 DEF Successor
    <3>2. QED
      BY <3>1 DEF Settled
  <2>5. Settled(mine[j])' \subseteq
          Settled(disp)' \cup (IF req'[j].kind \in Opening THEN confirmed(j)' ELSE {})
    BY <1>1, <1>6, <2>1, <2>4 DEF SettlingFits, Settled
  <2>6. QED
    BY <1>1, <1>6, <2>1, <2>2, <2>3, <2>5 DEF SettlingFits, Ids
<1>12. VerdictFits(j)'
  BY <1>1, <1>4, VerdictForOthers
<1>13. BeforeFits(j)'
  <2>1. ASSUME NEW d \in req[j].before PROVE \E e \in disp' : Successor(d, e)
    <3>1. PICK c \in disp : Successor(d, c)
      BY <1>2 DEF RequestAnswers, BeforeFits
    <3>2. PICK e \in disp' : Successor(c, e)
      BY <1>3
    <3>3. QED
      BY <3>1, <3>2, SuccessorOfSuccessor
  <2>2. QED
    BY <1>1, <2>1 DEF BeforeFits
<1>14. MuteFits(j)'
  <2>1. \A f : MuteKept(j, f)' => MuteKept(j, f)
    BY <1>1, <1>2, MuteKeptBefore
  <2>2. MuteFits(j)
    BY <1>2 DEF RequestAnswers
  <2>3. QED
    BY <1>1, <2>1, <2>2 DEF MuteFits
<1>15. QED
  BY <1>7, <1>8, <1>9, <1>10, <1>11, <1>12, <1>13, <1>14 DEF RequestAnswers

\* A union of two finite sets is no larger than the two of them.
LEMMA UnionBound ==
  ASSUME NEW A, NEW B, IsFiniteSet(A), IsFiniteSet(B), NEW S, S \subseteq A \cup B
  PROVE  Cardinality(S) <= Cardinality(A) + Cardinality(B)
<1>1. /\ IsFiniteSet(A \cup B)
      /\ Cardinality(A \cup B) = Cardinality(A) + Cardinality(B) - Cardinality(A \cap B)
  BY FS_Union
<1>2. IsFiniteSet(S) /\ Cardinality(S) <= Cardinality(A \cup B)
  BY <1>1, FS_Subset
<1>3. IsFiniteSet(A \cap B)
  BY FS_Intersection
<1>4. /\ Cardinality(A) \in Nat /\ Cardinality(B) \in Nat /\ Cardinality(A \cap B) \in Nat
      /\ Cardinality(S) \in Nat /\ Cardinality(A \cup B) \in Nat
  BY <1>1, <1>2, <1>3, FS_CardinalityType
<1>5. QED
  BY <1>1, <1>2, <1>4

\* A commit settles what its plan step counts.
LEMMA CommitSettles ==
  ASSUME AnswersInv, RowsInv', NEW k \in Keys, Commit(k)
  PROVE  SettledOnTheTrail'
<1>1. /\ Inv /\ TypeOK /\ RequestAnswers(k) /\ StepsTell(k) /\ SettledOnTheTrail
  BY DEF AnswersInv, RowsInv, Inv, TableAnswers
<1>2. disp' = Visible(k) /\ pc[k] = "commit"
  BY <1>1, CommitFacts
<1> DEFINE C == IF req[k].kind \in Opening THEN confirmed(k) ELSE {}
<1>3. Settled(disp') \subseteq Settled(disp) \cup C
  <2>1. Settled(mine[k]) \subseteq Settled(disp) \cup C
    BY <1>1 DEF RequestAnswers, SettlingFits
  <2>2. Settled(disp') \subseteq Settled(disp) \cup Settled(mine[k])
    BY <1>2 DEF Settled, Visible
  <2>3. QED
    BY <2>1, <2>2
<1>4. IsFiniteSet(Settled(disp)) /\ IsFiniteSet(C)
  <2>1. Settled(disp) \subseteq Fp /\ C \subseteq Fp
    BY <1>1 DEF TypeOK, DispRow, Settled, confirmed
  <2>2. QED
    BY <2>1, FS_Subset, ConstantsAssumption
<1>5. Cardinality(C) = Confirms(k)
  <2>1. Cardinality({}) = 0
    BY FS_EmptySet
  <2>2. QED
    BY <2>1 DEF Confirms
<1>6. Cardinality(C) \in Nat /\ Cardinality(Settled(disp)) \in Nat
  BY <1>4, FS_CardinalityType
<1> HIDE DEF C
<1>7. OnTrails("plan")' = OnTrails("plan") + Confirms(k) /\ OnTrails("plan") \in Nat
  <2>1. req[k].kind \in Opening \cup Rewriting => Gives(draft[k].steps, "plan", Confirms(k))
    BY <1>1, <1>2 DEF StepsTell
  <2>2. req[k].kind \notin Opening \cup Rewriting => Confirms(k) = 0
    BY DEF Confirms
  <2>3. Confirms(k) \in Nat
    BY <1>5, <1>6
  <2>4. QED
    BY <1>1, <2>1, <2>2, <2>3, CommitOnTrails
<1>8. Cardinality(Settled(disp')) <= Cardinality(Settled(disp)) + Cardinality(C)
  BY <1>3, <1>4, UnionBound
<1>9. Cardinality(Settled(disp)) <= OnTrails("plan")
  BY <1>1 DEF SettledOnTheTrail
<1>10. Cardinality(Settled(disp')) \in Nat
  <2>1. IsFiniteSet(Settled(disp) \cup C)
    BY <1>4, FS_Union
  <2>2. IsFiniteSet(Settled(disp'))
    BY <1>3, <2>1, FS_Subset
  <2>3. QED
    BY <2>2, FS_CardinalityType
<1>11. Cardinality(Settled(disp')) <= OnTrails("plan")'
  <2>1. SUFFICES ASSUME NEW a \in Nat, NEW b \in Nat, NEW c \in Nat, NEW n \in Nat,
                        a <= b + c, b <= n
                 PROVE  a <= n + c
    BY <1>5, <1>6, <1>7, <1>8, <1>9, <1>10
  <2>2. QED
    BY <2>1
<1>12. Settled(disp)' = Settled(disp')
  BY DEF Settled
<1>13. QED
  BY <1>11, <1>12 DEF SettledOnTheTrail

LEMMA CommitAnswers ==
  ASSUME AnswersInv, NEW k \in Keys, Commit(k)
  PROVE  AnswersInv'
<1>1. RowsInv' /\ Inv /\ TypeOK /\ RequestAnswers(k) /\ TableAnswers
  BY CommitRows DEF AnswersInv, RowsInv, Inv
<1>2. /\ disp' = Visible(k) /\ pc'[k] = "idle" /\ mine'[k] = {} /\ req'[k] = NoRequest
      /\ pc[k] = "commit" /\ Len(reviews) \in Nat
  BY <1>1, CommitFacts
<1>3. todo'[k] = {} /\ Rest(k)
  BY <1>1 DEF Commit, Release, TypeOK, Rest
<1>4. OneAnswerPerReview'
  BY <1>1, <1>2 DEF RequestAnswers, StandFits, _standing, OneAnswerPerReview
<1>5. Noted(disp)'
  BY <1>2, VisibleFacts DEF Noted
<1>6. \A d \in disp : \E e \in Visible(k) : Successor(d, e)
  BY VisibleFacts
<1>7. \A i \in 1..Len(reviews) : Explained(reviews[i], Visible(k))
  BY <1>1, <1>6, ExplainedLater DEF TableAnswers
<1>8. ASSUME NEW i \in 1..Len(reviews') PROVE Explained(reviews'[i], Visible(k))
  <2>1. VerdictFits(k)
    BY <1>1 DEF RequestAnswers
  <2>2. CASE req[k].kind \in Opening
    BY <1>1, <1>2, <1>7, <2>1, <2>2, CommitFacts DEF VerdictFits, Opening, Rewriting
  <2>3. CASE req[k].kind \in Rewriting
    BY <1>1, <1>2, <1>7, <2>1, <2>3, CommitFacts DEF VerdictFits, Opening, Rewriting
  <2>4. CASE req[k].kind \notin Opening \cup Rewriting
    BY <1>1, <1>2, <1>7, <2>4, CommitFacts
  <2>5. QED
    BY <2>2, <2>3, <2>4
<1>9. TableAnswers'
  <2>1. SettledOnTheTrail'
    BY <1>1, CommitSettles
  <2>2. \A i \in 1..Len(reviews') : Explained(reviews'[i], disp')
    BY <1>2, <1>8
  <2>3. QED
    BY <1>4, <1>5, <2>1, <2>2 DEF TableAnswers
<1>10. ASSUME NEW j \in Keys PROVE RequestAnswers(j)'
  <2>1. CASE j = k
    BY <1>2, <1>3, <1>4, <2>1, AtRest
  <2>2. CASE j # k
    BY <1>1, <1>3, <2>2, OthersAnswers
  <2>3. QED
    BY <2>1, <2>2
<1>11. QED
  BY <1>1, <1>9, <1>10 DEF AnswersInv
-----------------------------------------------------------------------------
(* The theorems on the answers                                             *)

LEMMA WorkAnswers ==
  ASSUME AnswersInv, NEW k \in Keys, Work(k)
  PROVE  AnswersInv'
<1>1. RowsInv'
  BY WorkRows DEF AnswersInv
<1>2. CASE _examine(k) \/ _reconcile_fixed(k)
  BY <1>2, ExamineAnswers, ReconcileAnswers
<1>3. CASE confirm_fixed(k)
  BY <1>1, <1>3, UpdateAnswers DEF confirm_fixed
<1>4. CASE revoke(k)
  BY <1>1, <1>4, UpdateAnswers DEF revoke
<1>5. CASE set(k)
  <2>1. CASE Answerable(k, Responding(k))
    <3>1. pc[k] = "answer" /\ Update(k, {Responding(k).fp}, "answering", "insert")
      BY <1>5, <2>1 DEF set, Responding
    <3>2. QED
      BY <1>1, <2>1, <3>1, UpdateAnswers
  <2>2. CASE ~Answerable(k, Responding(k))
    BY <1>5, <2>2, RollbackAnswers DEF set, Responding
  <2>3. QED
    BY <2>1, <2>2
<1>6. CASE _settle(k) \/ _own_review(k) \/ insert(k)
  BY <1>6, SettleAnswers, OwnReviewAnswers, InsertAnswers
<1>7. CASE Rule(k) \/ Commit(k)
  BY <1>7, RuleAnswers, CommitAnswers
<1>8. QED
  BY <1>2, <1>3, <1>4, <1>5, <1>6, <1>7 DEF Work

LEMMA AnswersStep == ASSUME AnswersInv, [Next]_vars PROVE AnswersInv'
<1>1. ASSUME NEW k \in Keys, plan(k) \/ create_review(k) \/ submit(k) \/ respond(k)
      PROVE  AnswersInv'
  BY <1>1, ArrivalAnswers
<1>2. ASSUME NEW k \in Keys, Work(k) PROVE AnswersInv'
  BY <1>2, WorkAnswers
<1>3. ASSUME NEW k \in Keys, Abort(k) \/ DeadlockVictim(k) PROVE AnswersInv'
  BY <1>3, RollbackAnswers DEF Abort, DeadlockVictim
<1>4. CASE UNCHANGED vars
  <2>1. RowsInv'
    BY <1>4, RowsStep DEF AnswersInv
  <2>2. UNCHANGED <<reviews, disp, pc, req, held, mine, todo, found, claims, at, draft>>
    BY <1>4 DEF vars, db, locals
  <2>3. ASSUME NEW k \in Keys PROVE RequestAnswers(k)'
    <3>1. RequestAnswers(k)
      BY DEF AnswersInv
    <3>2. QED
      BY <2>2, <3>1, AnswersAlone
  <2>4. TableAnswers'
    BY <2>2 DEF AnswersInv, TableAnswers, OneAnswerPerReview, Noted, SettledOnTheTrail, Settled,
                OnTrails, OnTrail
  <2>5. QED
    BY <2>1, <2>3, <2>4 DEF AnswersInv
<1>5. QED
  BY <1>1, <1>2, <1>3, <1>4 DEF Next, Finished

LEMMA AnswersStart == ASSUME Init PROVE AnswersInv
<1>1. RowsInv /\ Inv
  BY RowsStart DEF RowsInv
<1>2. /\ disp = {}
      /\ \A k \in Keys : /\ pc[k] = "idle" /\ mine[k] = {} /\ req[k] = NoRequest /\ todo[k] = {}
  BY DEF Init
<1>3. /\ Seeded \in Seq([user : Users, fps : SUBSET Fp]) /\ Len(Seeded) \in Nat
      /\ DOMAIN Seeded = 1..Len(Seeded)
  BY ConstantsAssumption, LenProperties
<1>4. reviews = [i \in 1..Len(Seeded) |-> SeededReview(Seeded[i])]
  BY DEF Init
<1>5. 1..Len(reviews) = 1..Len(Seeded)
  BY <1>1, <1>3, <1>4, LenProperties DEF Inv, TypeOK
<1>6. ASSUME NEW s PROVE Explained(SeededReview(s), {})
  <2> DEFINE det == {[fp |-> f, sup |-> FALSE] : f \in s.fps}
  <2>1. SeededReview(s).det = det /\ SeededReview(s).agent = {}
        /\ SeededReview(s).blocking = compute_verdict(det)
    BY DEF SeededReview
  <2>2. compute_verdict(det) = "pass" => \A x \in det : ~(~x.sup /\ x.fp \in Blockers)
    BY DEF compute_verdict
  <2> HIDE DEF det
  <2>3. QED
    BY <2>1, <2>2 DEF Explained
<1>7. \A i \in 1..Len(reviews) : Explained(reviews[i], disp)
  BY <1>2, <1>4, <1>5, <1>6
<1>8. ASSUME NEW k \in Keys PROVE RequestAnswers(k)
  <2>1. Visible(k) = {}
    BY <1>2 DEF Visible
  <2>2. VersionsFit(k) /\ StandFits(k) /\ Noted(mine[k]) /\ AnsweringFits(k)
    BY <1>2, <2>1 DEF VersionsFit, StandFits, _standing, Noted, AnsweringFits
  <2>3. SettlingFits(k) /\ VerdictFits(k) /\ BeforeFits(k) /\ MuteFits(k)
    BY <1>2 DEF SettlingFits, Settled, VerdictFits, BeforeFits, MuteFits, NoRequest, Opening
  <2>4. QED
    BY <2>2, <2>3 DEF RequestAnswers
<1>9. SettledOnTheTrail
  <2>1. Settled(disp) = {} /\ Cardinality({}) = 0
    BY <1>2, FS_EmptySet DEF Settled
  <2>2. OnTrails("plan") = 0
    BY SeededTrails
  <2>3. QED
    BY <2>1, <2>2 DEF SettledOnTheTrail
<1>10. TableAnswers
  BY <1>2, <1>7, <1>9 DEF TableAnswers, OneAnswerPerReview, Noted
<1>11. QED
  BY <1>1, <1>8, <1>10 DEF AnswersInv

\* The inductive invariant holds of every behaviour, however many keys send
\* requests and whichever of their statements interleave.
THEOREM AnswersInvariance == Spec => []AnswersInv
<1>1. Init => AnswersInv
  BY AnswersStart
<1>2. AnswersInv /\ [Next]_vars => AnswersInv'
  BY AnswersStep
<1>3. QED
  BY <1>1, <1>2, PTL DEF Spec

\* The answers one review was given to a finding replace each other: one of them
\* stands at most, whichever reviews, plans and other answers run beside it.
THEOREM OneAnswerOfAReview == Spec => []OneAnswerPerReview
<1>1. AnswersInv => OneAnswerPerReview
  BY DEF AnswersInv, TableAnswers
<1>2. QED
  BY <1>1, AnswersInvariance, PTL

\* A review passes over a blocking finding it shows only with an argument on
\* record, be it the review of a plan, of a submission or of a response, and
\* whoever rewrites or revokes answers before it commits.
THEOREM PassesExplained == Spec => []PassIsExplained
<1>1. AnswersInv => PassIsExplained
  BY ReviewPositions DEF AnswersInv, RowsInv, TableAnswers, PassIsExplained, Explained
<1>2. QED
  BY <1>1, AnswersInvariance, PTL

\* No more findings are settled than the trails confirm: a plan settles nothing,
\* and a claim two reviews confirm at once is settled once.
THEOREM SettledAreListed == Spec => []SettledOnTheTrail
<1>1. AnswersInv => SettledOnTheTrail
  BY DEF AnswersInv, TableAnswers
<1>2. QED
  BY <1>1, AnswersInvariance, PTL

\* A row on record stays with its finding, its author and its argument; it is
\* revoked once, and what it says changes only by being confirmed.
THEOREM AnswersKept == Spec => AppendAndRevoke
<1> DEFINE Kept == \A d \in disp : \E e \in disp' : Successor(d, e)
<1>1. AnswersInv /\ [Next]_vars => Kept
  <2>1. SUFFICES ASSUME AnswersInv, [Next]_vars, NEW d \in disp
                 PROVE  \E e \in disp' : Successor(d, e)
    OBVIOUS
  <2>2. CASE disp' = disp
    BY <2>1, <2>2 DEF Successor
  <2>3. CASE \E k \in Keys : Commit(k)
    <3>1. PICK k \in Keys : Commit(k)
      BY <2>3
    <3>2. disp' = Visible(k)
      BY <2>1, <3>1, CommitFacts DEF AnswersInv, RowsInv
    <3>3. QED
      BY <2>1, <3>2, VisibleFacts
  <2>4. QED
    BY <2>1, <2>2, <2>3, OnlyCommits
<1>2. QED
  BY <1>1, AnswersInvariance, PTL DEF Spec, AppendAndRevoke

\* What is muted as it was when a review began is muted in both halves of it,
\* whatever the other keys commit between its two readings of the answers.
THEOREM MutedFindingsStay == Spec => MutedStaysMuted
<1> DEFINE Stays == \A k \in Keys : Opens(k) /\ Commit(k) =>
                      \A i \in DOMAIN reviews' \ DOMAIN reviews :
                        \A x \in reviews'[i].det \cup reviews'[i].agent : MuteKept(k, x.fp) => x.sup
<1>1. AnswersInv => Stays
  <2>1. SUFFICES ASSUME AnswersInv, NEW k \in Keys, Opens(k), Commit(k),
                        NEW i \in DOMAIN reviews' \ DOMAIN reviews,
                        NEW x \in reviews'[i].det \cup reviews'[i].agent, MuteKept(k, x.fp)
                 PROVE  x.sup
    OBVIOUS
  <2>2. Inv /\ TypeOK /\ MuteFits(k)
    BY <2>1 DEF AnswersInv, RequestAnswers, RowsInv, Inv
  <2>3. req[k].kind \in Opening /\ pc[k] = "commit"
    BY <2>1 DEF Opens, Opening
  <2>4. reviews'[i] = Opened(k)
    BY <2>1, <2>2, <2>3, CommitFacts DEF Opening, Rewriting
  <2>5. x \in draft[k].det \cup draft[k].agent
    BY <2>1, <2>4 DEF Opened
  <2>6. x.fp \in Fp
    BY <2>2, <2>5 DEF TypeOK, Draft, Row
  <2>7. QED
    BY <2>1, <2>2, <2>3, <2>5, <2>6 DEF MuteFits
<1>2. QED
  BY <1>1, AnswersInvariance, PTL DEF Spec, MutedStaysMuted
=============================================================================
