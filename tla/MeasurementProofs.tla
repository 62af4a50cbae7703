------------------------- MODULE MeasurementProofs -------------------------
(* What the two measurements of the review may claim, for every command line *)
(* over the cases there are and however many reviews a session opens.        *)
EXTENDS Scoring, Probe, SequenceTheorems, FiniteSetTheorems, TLAPS

\* A sum is a fold with +.
Adding == INSTANCE FoldFacts WITH op <- +

-----------------------------------------------------------------------------
(* The probe: a citation is counted when it is there to be read. *)

Tallies == [cases : Nat, offered : Nat, fired : Nat, skipped : Nat, citing : Nat]

\* Against the server that opens a review with its plan, the review the last
\* submit named holds what that submit said; against the other no submit names
\* one, and nothing is ever counted.
CitationsFit ==
  /\ contract = "v1" => tally.fired = tally.citing
  /\ contract = "v2" => named = <<>> /\ tally.fired = 0 /\ ~selfPassed
  /\ contract = "v1" /\ phase = "session" =>
       IF named = <<>> THEN ~cites ELSE trail[named[Len(named)]] = cites

\* The inductive invariant.
ProbeInv ==
  /\ contract \in {"v1", "v2"} /\ selfPassed \in BOOLEAN /\ cites \in BOOLEAN
  /\ trail \in Seq(BOOLEAN) /\ opened \in Nat /\ named \in Seq(1..Len(trail))
  /\ tally \in Tallies
  /\ CitationsFit

LEMMA Counted == ASSUME NEW b \in BOOLEAN PROVE One(b) \in Nat /\ (One(b) = 0 <=> ~b)
BY DEF One

\* Planning a change counts no citation.
LEMMA TallyPlanned ==
  ASSUME NEW t \in Tallies, NEW j \in Nat, NEW k \in Nat
  PROVE  /\ [t EXCEPT !.cases = j, !.skipped = k] \in Tallies
         /\ [t EXCEPT !.cases = j, !.skipped = k].fired = t.fired
         /\ [t EXCEPT !.cases = j, !.skipped = k].citing = t.citing
         /\ [t EXCEPT !.cases = j, !.offered = k] \in Tallies
         /\ [t EXCEPT !.cases = j, !.offered = k].fired = t.fired
         /\ [t EXCEPT !.cases = j, !.offered = k].citing = t.citing
BY DEF Tallies

LEMMA NoTallyYet == NoTally \in Tallies /\ NoTally.fired = 0 /\ NoTally.citing = 0
BY DEF NoTally, Tallies

LEMMA TallyRead ==
  ASSUME NEW t \in Tallies
  PROVE  {t.cases, t.offered, t.fired, t.skipped, t.citing} \subseteq Nat
BY DEF Tallies

\* A plan of the probe's own begins a session that has submitted nothing.
LEMMA PlanFits == ProbeInv /\ plan => ProbeInv'
<1> SUFFICES ASSUME ProbeInv, plan PROVE ProbeInv'
  OBVIOUS
<1>1. tally \in Tallies /\ trail \in Seq(BOOLEAN)
  BY DEF ProbeInv
<1>2. tally' \in Tallies /\ tally'.fired = tally.fired /\ tally'.citing = tally.citing
  <2>1. tally.cases + 1 \in Nat /\ tally.skipped + 1 \in Nat
    BY <1>1, TallyRead
  <2>2. CASE tally' = [tally EXCEPT !.cases = @ + 1, !.skipped = @ + 1]
    <3> DEFINE j == tally.cases + 1
    <3> DEFINE k == tally.skipped + 1
    <3>1. tally' = [tally EXCEPT !.cases = j, !.skipped = k]
      BY <2>2
    <3>2. j \in Nat /\ k \in Nat
      BY <2>1
    <3> HIDE DEF j, k
    <3>3. QED
      BY <1>1, <3>1, <3>2, TallyPlanned
  <2>3. ASSUME NEW offered \in BOOLEAN,
               tally' = [tally EXCEPT !.cases = @ + 1, !.offered = @ + One(offered)]
        PROVE  tally' \in Tallies /\ tally'.fired = tally.fired /\ tally'.citing = tally.citing
    <3> DEFINE j == tally.cases + 1
    <3> DEFINE k == tally.offered + One(offered)
    <3>1. tally' = [tally EXCEPT !.cases = j, !.offered = k]
      BY <2>3
    <3>2. tally.offered \in Nat /\ One(offered) \in Nat
      BY <1>1, TallyRead, Counted
    <3>3. j \in Nat /\ k \in Nat
      BY <2>1, <3>2
    <3> HIDE DEF j, k
    <3>4. QED
      BY <1>1, <3>1, <3>3, TallyPlanned
  <2>4. QED
    BY <2>2, <2>3 DEF plan
<1>3. trail' \in Seq(BOOLEAN) /\ opened' \in Nat
  <2>1. trail' = trail \/ trail' = Append(trail, FALSE)
    BY DEF plan
  <2>2. trail' \in Seq(BOOLEAN)
    BY <1>1, <2>1, AppendProperties
  <2>3. opened' = opened \/ opened' = Len(trail')
    BY DEF plan
  <2>4. QED
    BY <2>2, <2>3 DEF ProbeInv
<1>4. named' = <<>> /\ ~cites' /\ cites' \in BOOLEAN /\ UNCHANGED <<contract, selfPassed>>
  BY DEF plan
<1>5. named' \in Seq(1..Len(trail'))
  BY <1>4
<1>6. CitationsFit'
  BY <1>2, <1>4 DEF ProbeInv, CitationsFit
<1>7. QED
  BY <1>2, <1>3, <1>4, <1>5, <1>6 DEF ProbeInv

\* A plan of the session's own leaves what was submitted before it.
LEMMA SessionPlansFits == ProbeInv /\ SessionPlans => ProbeInv'
<1> SUFFICES ASSUME ProbeInv, SessionPlans PROVE ProbeInv'
  OBVIOUS
<1>1. /\ trail' = Append(trail, FALSE) /\ trail \in Seq(BOOLEAN) /\ named \in Seq(1..Len(trail))
      /\ UNCHANGED <<contract, phase, selfPassed, named, opened, cites, tally>>
  BY DEF SessionPlans, ProbeInv
<1>2. /\ trail' \in Seq(BOOLEAN) /\ Len(trail') = Len(trail) + 1
      /\ \A i \in 1..Len(trail) : trail'[i] = trail[i]
  BY <1>1, AppendProperties
<1>3. named' \in Seq(1..Len(trail'))
  <2>1. 1..Len(trail) \subseteq 1..Len(trail')
    BY <1>1, <1>2
  <2>2. QED
    BY <1>1, <2>1
<1>4. named # <<>> => trail'[named[Len(named)]] = trail[named[Len(named)]]
  <2>1. named # <<>> => named[Len(named)] \in 1..Len(trail)
    BY <1>1
  <2>2. QED
    BY <1>2, <2>1
<1>5. CitationsFit'
  BY <1>1, <1>4 DEF ProbeInv, CitationsFit
<1>6. QED
  BY <1>1, <1>2, <1>3, <1>5 DEF ProbeInv

\* A submit by id puts what it says into the review it names, and names it last.
LEMMA SubmitToFits == ProbeInv /\ SubmitTo => ProbeInv'
<1> SUFFICES ASSUME ProbeInv, SubmitTo PROVE ProbeInv'
  OBVIOUS
<1>1. PICK n \in opened + 1 .. Len(trail), b \in BOOLEAN :
        trail' = [trail EXCEPT ![n] = b] /\ named' = Append(named, n) /\ cites' = b
  BY DEF SubmitTo
<1>2. /\ trail \in Seq(BOOLEAN) /\ named \in Seq(1..Len(trail)) /\ contract = "v1" /\ opened \in Nat
      /\ UNCHANGED <<contract, phase, selfPassed, opened, tally>>
  BY DEF SubmitTo, ProbeInv
<1>3. n \in 1..Len(trail)
  BY <1>2
<1>4. trail' \in Seq(BOOLEAN) /\ Len(trail') = Len(trail) /\ trail'[n] = b
  BY <1>1, <1>2, <1>3, ExceptSeq
<1>5. named' \in Seq(1..Len(trail)) /\ named' # <<>> /\ named'[Len(named')] = n
  BY <1>1, <1>2, <1>3, AppendProperties
<1>6. CitationsFit'
  BY <1>1, <1>2, <1>4, <1>5 DEF ProbeInv, CitationsFit
<1>7. QED
  BY <1>1, <1>2, <1>4, <1>5, <1>6 DEF ProbeInv

\* A submit that opens its review names none.
LEMMA SubmitFits == ProbeInv /\ Submit => ProbeInv'
<1> SUFFICES ASSUME ProbeInv, Submit PROVE ProbeInv'
  OBVIOUS
<1>1. PICK b \in BOOLEAN : trail' = Append(trail, b) /\ cites' = b
  BY DEF Submit
<1>2. /\ trail \in Seq(BOOLEAN) /\ contract = "v2" /\ named = <<>>
      /\ UNCHANGED <<contract, phase, selfPassed, named, opened, tally>>
  BY DEF Submit, ProbeInv, CitationsFit
<1>3. trail' \in Seq(BOOLEAN)
  BY <1>1, <1>2, AppendProperties
<1>4. named' \in Seq(1..Len(trail'))
  BY <1>2
<1>5. CitationsFit'
  BY <1>2 DEF ProbeInv, CitationsFit
<1>6. QED
  BY <1>1, <1>2, <1>3, <1>4, <1>5 DEF ProbeInv

\* What is read back is what the last submit said, when it can be read back.
LEMMA ReviewFits == ProbeInv /\ review => ProbeInv'
<1> SUFFICES ASSUME ProbeInv, review PROVE ProbeInv'
  OBVIOUS
<1>1. /\ phase = "session" /\ phase' = "case"
      /\ UNCHANGED <<contract, selfPassed, trail, named, opened, cites>>
  BY DEF review
<1>2. /\ contract = "v1" => (cited <=> cites)
      /\ contract = "v2" => ~cited
      /\ cited \in BOOLEAN /\ cites \in BOOLEAN
  BY <1>1 DEF ProbeInv, CitationsFit, cited, submitted, Last
<1> DEFINE j == tally.fired + One(cited)
<1> DEFINE k == tally.citing + One(cites)
<1>3. /\ One(cited) \in Nat /\ One(cites) \in Nat
      /\ contract = "v1" => One(cited) = One(cites)
      /\ contract = "v2" => One(cited) = 0
  BY <1>2 DEF One
<1>4. tally \in Tallies /\ tally.fired \in Nat /\ tally.citing \in Nat
  BY TallyRead DEF ProbeInv
<1>5. j \in Nat /\ k \in Nat /\ (contract = "v1" => j = k) /\ (contract = "v2" => j = 0)
  BY <1>3, <1>4 DEF ProbeInv, CitationsFit
<1>6. tally' = [tally EXCEPT !.fired = j, !.citing = k]
  BY DEF review
<1> HIDE DEF j, k
<1>7. tally' \in Tallies /\ tally'.fired = j /\ tally'.citing = k
  <2>1. tally \in Tallies /\ j \in Nat /\ k \in Nat
    BY <1>4, <1>5
  <2>2. QED
    BY <1>6, <2>1 DEF Tallies
<1>8. CitationsFit'
  BY <1>1, <1>5, <1>7 DEF ProbeInv, CitationsFit
<1>9. QED
  BY <1>1, <1>7, <1>8 DEF ProbeInv

\* The self-check passes only on a citation that was read back.
LEMMA SelfCheckEndsFits == ProbeInv /\ SelfCheckEnds => ProbeInv'
<1> SUFFICES ASSUME ProbeInv, SelfCheckEnds PROVE ProbeInv'
  OBVIOUS
<1>1. /\ selfPassed' = (tally.fired = 1) /\ contract' = contract /\ phase' = "case"
      /\ trail' = <<>> /\ named' = <<>> /\ opened' = 0 /\ cites' = FALSE /\ tally' = NoTally
  BY DEF SelfCheckEnds, invocation
<1>2. contract = "v2" => ~selfPassed'
  BY <1>1 DEF ProbeInv, CitationsFit
<1>3. CitationsFit'
  BY <1>1, <1>2, NoTallyYet DEF CitationsFit
<1>4. trail' \in Seq(BOOLEAN) /\ named' \in Seq(1..Len(trail')) /\ selfPassed' \in BOOLEAN
  BY <1>1
<1>5. QED
  BY <1>1, <1>3, <1>4, NoTallyYet DEF ProbeInv

LEMMA ProbeStep == ProbeInv /\ [ProbeNext]_probeVars => ProbeInv'
<1> SUFFICES ASSUME ProbeInv, [ProbeNext]_probeVars PROVE ProbeInv'
  OBVIOUS
<1>1. CASE UNCHANGED probeVars
  BY <1>1 DEF probeVars, ProbeInv, CitationsFit
<1>2. CASE ProbeThrows \/ Report
  BY <1>2 DEF ProbeThrows, Report, ProbeInv, CitationsFit
<1>3. QED
  BY <1>1, <1>2, PlanFits, SessionPlansFits, SubmitToFits, SubmitFits, ReviewFits,
     SelfCheckEndsFits DEF ProbeNext

LEMMA ProbeBegins == ProbeInit => ProbeInv
<1> SUFFICES ASSUME ProbeInit PROVE ProbeInv
  OBVIOUS
<1>1. trail = <<>> /\ named = <<>> /\ trail \in Seq(BOOLEAN) /\ named \in Seq(1..Len(trail))
  BY DEF ProbeInit
<1>2. CitationsFit
  BY <1>1, NoTallyYet DEF ProbeInit, CitationsFit
<1>3. QED
  BY <1>1, <1>2, NoTallyYet DEF ProbeInit, ProbeInv

\* What is counted was cited, and what was cited is counted where it can be.
THEOREM ProbeInvariance == ProbeSpec => []ProbeInv
BY ProbeBegins, ProbeStep, PTL DEF ProbeSpec

\* "Its zeroes mean something": for every number of changes, plans and submits,
\* a reading after a passed self-check is quiet when no session cited the
\* guideline with its last submit, and then only.
THEOREM ZeroesMean == ProbeSpec => []ZeroesMeanSomething
<1> DEFINE Settled == phase \in {"quiet", "fires"} => (phase = "quiet" <=> tally.fired = 0)
<1>1. ProbeInit => Settled
  BY DEF ProbeInit
<1>2. Settled /\ [ProbeNext]_probeVars => Settled'
  BY DEF ProbeNext, plan, SessionPlans, SubmitTo, Submit, review, ProbeThrows, SelfCheckEnds,
         invocation, Report, quiet, probeVars
<1>3. ProbeInv /\ Settled => ZeroesMeanSomething
  BY DEF ProbeInv, CitationsFit, ZeroesMeanSomething
<1> HIDE DEF Settled
<1>4. QED
  BY <1>1, <1>2, <1>3, ProbeInvariance, PTL DEF ProbeSpec

-----------------------------------------------------------------------------
(* One submit, and what a score makes of it. *)

\* The planted defects a review says, each with the place it is put in.
SaysIn(c, r, d, p) == d \in Planted(c) /\ \E f \in agentOf(r) : said(f, d) /\ f.place = p
PutIn(c, r) == {s \in Planted(c) \X Places : SaysIn(c, r, s[1], s[2])}

\* What the reviews of a run say, each with its place.
AllPutIn(c, rs) == {s \in Planted(c) \X Places : \E i \in DOMAIN rs : SaysIn(c, rs[i], s[1], s[2])}

\* What a submit adds to what was sent.
Sends(r) == UNION {f.says \X {f.place} : f \in r}

\* A review says what its agent wrote: a defect and a place of it.
Placed(r) == \A f \in agentOf(r) : f.place \in Places

\* A session sends what it can prove, each in a place of it.
LEMMA SubmitIsCredited ==
  ASSUME NEW c, NEW known, NEW r \in Reports(c, known)
  PROVE  Sends(r) = PutIn(c, r) /\ Placed(r) /\ \A s \in Sends(r) : s[1] \in known
<1>1. PICK proven \in SUBSET {f \in Findings(c) : f.says \subseteq known}, e \in SUBSET Extras(c) : r = proven \cup e
  BY DEF Reports
<1>2. ASSUME NEW f \in Extras(c) PROVE f.says = {} /\ f.place \in Places
  <2>1. f = Noise \/ f = Deterministic \/ f = NonDefect
    BY DEF Extras
  <2>2. /\ Noise.says = {} /\ Deterministic.says = {} /\ NonDefect.says = {}
        /\ Noise.place \in Places /\ Deterministic.place \in Places /\ NonDefect.place \in Places
    BY DEF Noise, NonDefect, Deterministic, Places
  <2>3. QED
    BY <2>1, <2>2
<1>3. ASSUME NEW f \in Findings(c), f.says \subseteq known
      PROVE  /\ f.source = "agent" /\ f.says \subseteq Planted(c) /\ f.place \in Places
  BY DEF Findings
<1>4. ASSUME NEW f \in r
      PROVE  /\ f.place \in Places
             /\ f.says # {} => f.source = "agent" /\ f.says \subseteq Planted(c) /\ f.says \subseteq known
  BY <1>1, <1>2, <1>3, <1>4
<1>5. \A s : s \in Sends(r) <=> \E f \in r : s \in f.says \X {f.place}
  BY DEF Sends
<1>6. \A s : s \in PutIn(c, r) <=>
               /\ s \in Planted(c) \X Places
               /\ \E f \in r : f.source = "agent" /\ s[1] \in f.says /\ f.place = s[2]
  BY DEF PutIn, SaysIn, agentOf, said
<1>7. ASSUME NEW s \in Sends(r) PROVE s \in PutIn(c, r) /\ s[1] \in known
  <2>1. PICK f \in r : s \in f.says \X {f.place}
    BY <1>5, <1>7
  <2>2. s[1] \in f.says /\ s[2] = f.place /\ s = <<s[1], s[2]>>
    BY <2>1
  <2>3. s \in Planted(c) \X Places
    BY <1>4, <2>2
  <2>4. QED
    BY <1>4, <1>6, <2>2, <2>3
<1>8. ASSUME NEW s \in PutIn(c, r) PROVE s \in Sends(r)
  <2>1. PICK f \in r : s[1] \in f.says /\ f.place = s[2]
    BY <1>6, <1>8
  <2>2. s = <<s[1], s[2]>>
    BY <1>6, <1>8
  <2>3. s \in f.says \X {f.place}
    BY <2>1, <2>2
  <2>4. QED
    BY <1>5, <2>3
<1>9. Placed(r)
  BY <1>4 DEF Placed, agentOf
<1>10. QED
  BY <1>7, <1>8, <1>9

\* A review more says what it adds.
LEMMA OneMoreReview ==
  ASSUME NEW c, NEW S, NEW rs \in Seq(S), NEW r \in S
  PROVE  /\ AllPutIn(c, Append(rs, r)) = AllPutIn(c, rs) \cup PutIn(c, r)
         /\ (\A i \in DOMAIN rs : Placed(rs[i])) /\ Placed(r)
              => \A i \in DOMAIN Append(rs, r) : Placed(Append(rs, r)[i])
<1>1. /\ \A i \in DOMAIN Append(rs, r) : i \in DOMAIN rs \/ i = Len(rs) + 1
      /\ Len(rs) + 1 \in DOMAIN Append(rs, r) /\ Append(rs, r)[Len(rs) + 1] = r
      /\ \A i \in DOMAIN rs : i \in DOMAIN Append(rs, r) /\ Append(rs, r)[i] = rs[i]
  BY AppendProperties
<1>2. ASSUME NEW s \in Planted(c) \X Places
      PROVE  s \in AllPutIn(c, Append(rs, r)) <=> s \in AllPutIn(c, rs) \/ s \in PutIn(c, r)
  <2> DEFINE Shown(x) == SaysIn(c, x, s[1], s[2])
  <2>1. s \in AllPutIn(c, Append(rs, r)) <=> \E i \in DOMAIN Append(rs, r) : Shown(Append(rs, r)[i])
    BY DEF AllPutIn
  <2>2. s \in AllPutIn(c, rs) <=> \E i \in DOMAIN rs : Shown(rs[i])
    BY DEF AllPutIn
  <2>3. s \in PutIn(c, r) <=> Shown(r)
    BY DEF PutIn
  <2> HIDE DEF Shown
  <2>4. QED
    BY <1>1, <2>1, <2>2, <2>3
<1>3. AllPutIn(c, Append(rs, r)) \subseteq Planted(c) \X Places
      /\ AllPutIn(c, rs) \subseteq Planted(c) \X Places /\ PutIn(c, r) \subseteq Planted(c) \X Places
  BY DEF AllPutIn, PutIn
<1>4. AllPutIn(c, Append(rs, r)) = AllPutIn(c, rs) \cup PutIn(c, r)
  BY <1>2, <1>3
<1>5. (\A i \in DOMAIN rs : Placed(rs[i])) /\ Placed(r)
        => \A i \in DOMAIN Append(rs, r) : Placed(Append(rs, r)[i])
  BY <1>1
<1>6. QED
  BY <1>4, <1>5

\* What a score credits, and what it tells apart as misplaced, of what was put
\* where: the places of the changed file are credited, the others seen.
LEMMA ScoreOfWhatWasSaid ==
  ASSUME NEW c, NEW rs, \A i \in DOMAIN rs : Placed(rs[i])
  PROVE  /\ reported(c, rs) = {s[1] : s \in {t \in AllPutIn(c, rs) : t[2] # "other file"}}
         /\ seen(c, rs) = {s[1] : s \in AllPutIn(c, rs)}
<1>1. ASSUME NEW i \in DOMAIN rs, NEW f \in agentOf(rs[i]), NEW d \in Planted(c), said(f, d)
      PROVE  <<d, f.place>> \in AllPutIn(c, rs)
  <2>1. f.place \in Places
    BY DEF Placed
  <2>2. SaysIn(c, rs[i], d, f.place)
    BY <1>1 DEF SaysIn
  <2>3. <<d, f.place>> \in Planted(c) \X Places /\ <<d, f.place>>[1] = d /\ <<d, f.place>>[2] = f.place
    BY <2>1
  <2>4. QED
    BY <2>2, <2>3 DEF AllPutIn
<1>2. ASSUME NEW s \in AllPutIn(c, rs)
      PROVE  s[1] \in Planted(c) /\ \E i \in DOMAIN rs : \E f \in agentOf(rs[i]) : said(f, s[1]) /\ f.place = s[2]
  BY <1>2 DEF AllPutIn, SaysIn
<1> DEFINE Near == {t \in AllPutIn(c, rs) : t[2] # "other file"}
<1>3. ASSUME NEW d PROVE d \in reported(c, rs) <=> \E s \in Near : d = s[1]
  <2>1. ASSUME d \in reported(c, rs) PROVE \E s \in Near : d = s[1]
    <3>1. PICK i \in DOMAIN rs : \E f \in agentOf(rs[i]) : said(f, d) /\ f.place # "other file"
      BY <2>1 DEF reported, landed
    <3>2. PICK f \in agentOf(rs[i]) : said(f, d) /\ f.place # "other file"
      BY <3>1
    <3>3. d \in Planted(c)
      BY <2>1 DEF reported
    <3>4. <<d, f.place>> \in Near /\ <<d, f.place>>[1] = d
      BY <1>1, <3>2, <3>3
    <3>5. QED
      BY <3>4
  <2>2. ASSUME NEW s \in Near, d = s[1] PROVE d \in reported(c, rs)
    BY <1>2, <2>2 DEF reported, landed
  <2>3. QED
    BY <2>1, <2>2
<1>4. ASSUME NEW d PROVE d \in seen(c, rs) <=> \E s \in AllPutIn(c, rs) : d = s[1]
  <2>1. ASSUME d \in seen(c, rs) PROVE \E s \in AllPutIn(c, rs) : d = s[1]
    <3>1. PICK i \in DOMAIN rs : \E f \in agentOf(rs[i]) : said(f, d)
      BY <2>1 DEF seen
    <3>2. PICK f \in agentOf(rs[i]) : said(f, d)
      BY <3>1
    <3>3. d \in Planted(c)
      BY <2>1 DEF seen
    <3>4. <<d, f.place>> \in AllPutIn(c, rs) /\ <<d, f.place>>[1] = d
      BY <1>1, <3>2, <3>3
    <3>5. QED
      BY <3>4
  <2>2. ASSUME NEW s \in AllPutIn(c, rs), d = s[1] PROVE d \in seen(c, rs)
    BY <1>2, <2>2 DEF seen
  <2>3. QED
    BY <2>1, <2>2
<1>5. \A d : d \in {s[1] : s \in Near} <=> \E s \in Near : d = s[1]
  OBVIOUS
<1>6. \A d : d \in {s[1] : s \in AllPutIn(c, rs)} <=> \E s \in AllPutIn(c, rs) : d = s[1]
  OBVIOUS
<1> HIDE DEF Near
<1>7. reported(c, rs) = {s[1] : s \in Near}
  BY <1>3, <1>5
<1>8. seen(c, rs) = {s[1] : s \in AllPutIn(c, rs)}
  BY <1>4, <1>6
<1>9. QED
  BY <1>7, <1>8 DEF Near

-----------------------------------------------------------------------------
(* The cases. *)

\* The diff of a case has no name in it by which a planted defect is proved.
ShowsNothing(c) == c.changed \in DOMAIN c.files /\ c.files[c.changed] = Plain

LEMMA CasesShowNothing ==
  /\ ShowsNothing(CASES.duplicate_rule) /\ ShowsNothing(CASES.uncapped_reconstruction)
  /\ ShowsNothing(CASES.parallel_storefront) /\ ShowsNothing(CASES.first_reading)
  /\ ShowsNothing(HELD_OUT.stock_badge)
<1>1. ShowsNothing(CASES.duplicate_rule)
  <2> DEFINE before == ordinaryCode ++ PricingFiles
             x == "DeliveryCostFacadeImpl"
  <2>1. x \notin DOMAIN before
    BY DEF ++, ordinaryCode, PricingFiles
  <2>2. x \in DOMAIN DeliveryFiles /\ DeliveryFiles[x] = Plain
    BY DEF DeliveryFiles
  <2> HIDE DEF before
  <2>3. x \in DOMAIN (before ++ DeliveryFiles) /\ (before ++ DeliveryFiles)[x] = Plain
    BY <2>1, <2>2 DEF ++
  <2>4. CASES.duplicate_rule.changed = x /\ CASES.duplicate_rule.files = before ++ DeliveryFiles
    BY DEF CASES, before
  <2>5. QED
    BY <2>3, <2>4 DEF ShowsNothing
<1>2. ShowsNothing(CASES.uncapped_reconstruction)
  <2> DEFINE before == ordinaryCode ++ EntryFiles
             x == "OrderSummaryFacadeImpl"
  <2>1. x \notin DOMAIN before
    BY DEF ++, ordinaryCode, EntryFiles
  <2>2. x \in DOMAIN SummaryFiles /\ SummaryFiles[x] = Plain
    BY DEF SummaryFiles
  <2> HIDE DEF before
  <2>3. x \in DOMAIN (before ++ SummaryFiles) /\ (before ++ SummaryFiles)[x] = Plain
    BY <2>1, <2>2 DEF ++
  <2>4. CASES.uncapped_reconstruction.changed = x /\ CASES.uncapped_reconstruction.files = before ++ SummaryFiles
    BY DEF CASES, before
  <2>5. QED
    BY <2>3, <2>4 DEF ShowsNothing
<1>3. ShowsNothing(CASES.parallel_storefront)
  <2> DEFINE before == ordinaryCode ++ secondStorefront
             x == "AcmeOrderConfirmationController"
  <2>1. x \notin DOMAIN before
    BY DEF ++, ordinaryCode, secondStorefront
  <2>2. x \in DOMAIN ConfirmationFiles /\ ConfirmationFiles[x] = Plain
    BY DEF ConfirmationFiles
  <2> HIDE DEF before
  <2>3. x \in DOMAIN (before ++ ConfirmationFiles) /\ (before ++ ConfirmationFiles)[x] = Plain
    BY <2>1, <2>2 DEF ++
  <2>4. x \in DOMAIN ((before ++ ConfirmationFiles) ++ StoreConfirmationFiles) /\ ((before ++ ConfirmationFiles) ++ StoreConfirmationFiles)[x] = Plain
    BY <2>3 DEF ++
  <2>5. CASES.parallel_storefront.changed = x /\ CASES.parallel_storefront.files = (before ++ ConfirmationFiles) ++ StoreConfirmationFiles
    BY DEF CASES, before
  <2>6. QED
    BY <2>4, <2>5 DEF ShowsNothing
<1>4. ShowsNothing(CASES.first_reading)
  <2> DEFINE before == ordinaryCode ++ secondStorefront ++ PricingFiles
             x == "DeliveryChargeFacadeImpl"
  <2>1. x \notin DOMAIN before
    BY DEF ++, ordinaryCode, secondStorefront, PricingFiles
  <2>2. x \in DOMAIN ChargeFiles /\ ChargeFiles[x] = Plain
    BY DEF ChargeFiles
  <2> HIDE DEF before
  <2>3. x \in DOMAIN (before ++ ChargeFiles) /\ (before ++ ChargeFiles)[x] = Plain
    BY <2>1, <2>2 DEF ++
  <2>4. CASES.first_reading.changed = x /\ CASES.first_reading.files = before ++ ChargeFiles
    BY DEF CASES, before
  <2>5. QED
    BY <2>3, <2>4 DEF ShowsNothing
<1>5. ShowsNothing(HELD_OUT.stock_badge)
  <2> DEFINE before == ordinaryCode ++ secondStorefront ++ StockFiles
             x == "StockAvailabilityFacadeImpl"
  <2>1. x \notin DOMAIN before
    BY DEF ++, ordinaryCode, secondStorefront, StockFiles
  <2>2. x \in DOMAIN BadgeFiles /\ BadgeFiles[x] = Plain
    BY DEF BadgeFiles
  <2> HIDE DEF before
  <2>3. x \in DOMAIN (before ++ BadgeFiles) /\ (before ++ BadgeFiles)[x] = Plain
    BY <2>1, <2>2 DEF ++
  <2>4. HELD_OUT.stock_badge.changed = x /\ HELD_OUT.stock_badge.files = before ++ BadgeFiles
    BY DEF HELD_OUT, before
  <2>5. QED
    BY <2>3, <2>4 DEF ShowsNothing
<1>6. QED
  BY <1>1, <1>2, <1>3, <1>4, <1>5

\* A case is of one of the two sets, and proves nothing before a look.
LEMMA EveryCase ==
  /\ DOMAIN EVERY_CASE = DOMAIN CASES \cup DOMAIN HELD_OUT
  /\ \A name \in DOMAIN EVERY_CASE :
       Proves(EVERY_CASE[name], buildPlainRepo(EVERY_CASE[name])) = {}
<1>1. /\ DOMAIN CASES = {"duplicate_rule", "uncapped_reconstruction", "parallel_storefront", "first_reading"}
      /\ CASES["duplicate_rule"] = CASES.duplicate_rule
      /\ CASES["uncapped_reconstruction"] = CASES.uncapped_reconstruction
      /\ CASES["parallel_storefront"] = CASES.parallel_storefront
      /\ CASES["first_reading"] = CASES.first_reading
  BY DEF CASES
<1>2. DOMAIN HELD_OUT = {"stock_badge"} /\ HELD_OUT["stock_badge"] = HELD_OUT.stock_badge
  BY DEF HELD_OUT
<1>3. DOMAIN EVERY_CASE = DOMAIN CASES \cup DOMAIN HELD_OUT
  BY DEF EVERY_CASE, ++
<1>4. ASSUME NEW name \in DOMAIN EVERY_CASE PROVE ShowsNothing(EVERY_CASE[name])
  <2>1. \/ name \in DOMAIN CASES /\ EVERY_CASE[name] = CASES[name]
        \/ name \in DOMAIN HELD_OUT \ DOMAIN CASES /\ EVERY_CASE[name] = HELD_OUT[name]
    BY DEF EVERY_CASE, ++
  <2>2. \A n \in DOMAIN CASES : ShowsNothing(CASES[n])
    BY <1>1, CasesShowNothing
  <2>3. \A n \in DOMAIN HELD_OUT : ShowsNothing(HELD_OUT[n])
    BY <1>2, CasesShowNothing
  <2>4. QED
    BY <2>1, <2>2, <2>3
<1>5. ASSUME NEW c, ShowsNothing(c) PROVE Proves(c, buildPlainRepo(c)) = {}
  <2>1. buildPlainRepo(c) = {}
    BY <1>5 DEF buildPlainRepo, ShowsNothing, Plain, File
  <2>2. QED
    BY <2>1 DEF Proves
<1>6. QED
  BY <1>3, <1>4, <1>5

-----------------------------------------------------------------------------
(* The session under way. *)

Defects == UNION {Planted(EVERY_CASE[name]) : name \in DOMAIN EVERY_CASE}

Sessions == [at : {"none", "running", "orphan", "ended"}, ran : BOOLEAN, looked : BOOLEAN,
             known : SUBSET Defects, sent : SUBSET (Defects \X Places)]

\* What was sent is what the reviews say, each in its place, and all of it could
\* be proved; to prove anything takes a look.
SessionFits(c) ==
  /\ session.sent = AllPutIn(c, reviews)
  /\ \A i \in DOMAIN reviews : Placed(reviews[i])
  /\ \A s \in session.sent : s[1] \in session.known
  /\ ~session.looked => session.known = {}

\* The reviews of a session are a sequence, whatever they hold.
Listed(q) == \E S : q \in Seq(S)

LEMMA ListedAppend ==
  ASSUME NEW q, Listed(q), NEW x
  PROVE  /\ Listed(Append(q, x)) /\ Len(q) \in Nat /\ Len(Append(q, x)) = Len(q) + 1
         /\ \A i \in DOMAIN q : i \in DOMAIN Append(q, x) /\ Append(q, x)[i] = q[i]
         /\ \A i \in DOMAIN Append(q, x) : i \in DOMAIN q \/ (i = Len(q) + 1 /\ Append(q, x)[i] = x)
         /\ DOMAIN q = 1..Len(q) /\ Append(q, x) # <<>>
<1>1. PICK S : q \in Seq(S)
  BY DEF Listed
<1> DEFINE T == S \cup {x}
<1>2. q \in Seq(T) /\ x \in T
  BY <1>1
<1> HIDE DEF T
<1>3. /\ Append(q, x) \in Seq(T) /\ Append(q, x) # <<>> /\ Len(Append(q, x)) = Len(q) + 1
      /\ \A i \in 1..Len(q) : Append(q, x)[i] = q[i]
      /\ Append(q, x)[Len(q) + 1] = x
  BY <1>2, AppendProperties
<1>4. DOMAIN q = 1..Len(q) /\ Len(q) \in Nat /\ DOMAIN Append(q, x) = 1..(Len(q) + 1)
  BY <1>2, <1>3
<1>5. QED
  BY <1>3, <1>4 DEF Listed

LEMMA NothingListed == Listed(<<>>)
<1>1. <<>> \in Seq({})
  OBVIOUS
<1>2. QED
  BY <1>1 DEF Listed

LEMMA NoSessionTyped == NoSession \in Sessions
BY DEF NoSession, Sessions

\* A session begins with nothing it could prove.
LEMMA SessionBegins ==
  ASSUME NEW name \in DOMAIN EVERY_CASE, runSession(EVERY_CASE[name])
  PROVE  session' \in Sessions /\ Listed(reviews') /\ SessionFits(EVERY_CASE[name])'
<1>1. session' = [NoSession EXCEPT !.at = "running", !.known = {}] /\ reviews' = <<>>
  BY EveryCase DEF runSession
<1>2. /\ session' \in Sessions /\ session'.sent = {} /\ session'.known = {}
  BY <1>1 DEF NoSession, Sessions
<1>3. AllPutIn(EVERY_CASE[name], <<>>) = {}
  BY DEF AllPutIn
<1>4. \A i \in DOMAIN <<>> : Placed(<<>>[i])
  OBVIOUS
<1> DEFINE c == EVERY_CASE[name]
<1>5. AllPutIn(c, <<>>) = {} /\ reviews' = <<>>
  BY <1>1, <1>3
<1> HIDE DEF c
<1>6. AllPutIn(c, reviews') = {} /\ \A i \in DOMAIN reviews' : Placed(reviews'[i])
  BY <1>4, <1>5
<1>7. SessionFits(c)'
  BY <1>2, <1>6 DEF SessionFits, c
<1>8. QED
  BY <1>1, <1>2, <1>7, NothingListed DEF c

\* What the session does: it looks, it submits, it ends.
LEMMA SessionWorks ==
  ASSUME NEW name \in DOMAIN EVERY_CASE, session \in Sessions, Listed(reviews),
         SessionFits(EVERY_CASE[name]), Works(EVERY_CASE[name])
  PROVE  session' \in Sessions /\ Listed(reviews') /\ SessionFits(EVERY_CASE[name])'
<1> DEFINE c == EVERY_CASE[name]
<1>1. Planted(c) \subseteq Defects
  BY DEF Defects
<1>2. ASSUME NEW names, UNCHANGED reviews,
             session' = [session EXCEPT !.looked = TRUE, !.known = @ \cup Proves(c, names)]
      PROVE  session' \in Sessions /\ Listed(reviews') /\ SessionFits(c)'
  <2> DEFINE known == session.known \cup Proves(c, names)
  <2>1. known \in SUBSET Defects
    BY <1>1 DEF Proves, Sessions
  <2>2. session' = [session EXCEPT !.looked = TRUE, !.known = known]
    BY <1>2
  <2>3. session.known \subseteq known
    OBVIOUS
  <2> HIDE DEF known, c
  <2>4. session' \in Sessions /\ session'.looked /\ session'.known = known /\ session'.sent = session.sent
    BY <2>1, <2>2 DEF Sessions
  <2>5. QED
    BY <1>2, <2>3, <2>4 DEF SessionFits, c
<1>3. ASSUME searchesOf(c) \/ ListFiles(c)
      PROVE  session' \in Sessions /\ Listed(reviews') /\ SessionFits(c)'
  BY <1>2, <1>3 DEF searchesOf, ListFiles
<1>4. ASSUME submit(c)
      PROVE  session' \in Sessions /\ Listed(reviews') /\ SessionFits(c)'
  <2>1. PICK r \in Reports(c, session.known) :
          /\ reviews' = Append(reviews, r)
          /\ session' = [session EXCEPT !.sent = @ \cup Sends(r)]
    BY <1>4 DEF submit, Sends
  <2>2. Sends(r) = PutIn(c, r) /\ Placed(r) /\ \A s \in Sends(r) : s[1] \in session.known
    BY SubmitIsCredited
  <2> DEFINE sent == session.sent \cup Sends(r)
  <2>3. sent \in SUBSET (Defects \X Places)
    <3>1. Sends(r) \subseteq Planted(c) \X Places
      BY <2>2 DEF PutIn
    <3>2. session.sent \subseteq Defects \X Places
      BY DEF Sessions
    <3>3. QED
      BY <1>1, <3>1, <3>2
  <2>4. session' = [session EXCEPT !.sent = sent]
    BY <2>1
  <2>5. sent = AllPutIn(c, reviews') /\ \A i \in DOMAIN reviews' : Placed(reviews'[i])
    <3>1. PICK S : reviews \in Seq(S)
      BY DEF Listed
    <3> DEFINE T == S \cup {r}
    <3>2. reviews \in Seq(T) /\ r \in T
      BY <3>1
    <3> HIDE DEF T, c
    <3>3. /\ AllPutIn(c, Append(reviews, r)) = AllPutIn(c, reviews) \cup PutIn(c, r)
          /\ (\A i \in DOMAIN reviews : Placed(reviews[i])) /\ Placed(r)
               => \A i \in DOMAIN Append(reviews, r) : Placed(Append(reviews, r)[i])
      BY <3>2, OneMoreReview
    <3>4. QED
      BY <2>1, <2>2, <3>3 DEF SessionFits, c
  <2>6. \A s \in sent : s[1] \in session.known
    BY <2>2 DEF SessionFits
  <2> HIDE DEF sent, c
  <2>7. /\ session' \in Sessions /\ session'.sent = sent /\ session'.known = session.known
        /\ session'.looked = session.looked
    BY <2>3, <2>4 DEF Sessions
  <2>8. Listed(reviews')
    BY <2>1, ListedAppend
  <2>9. QED
    BY <2>5, <2>6, <2>7, <2>8 DEF SessionFits, c
<1>5. ASSUME SessionEnds \/ TimesOut
      PROVE  session' \in Sessions /\ Listed(reviews') /\ SessionFits(c)'
  <2>1. PICK ran \in BOOLEAN, how \in {"ended", "orphan"} :
          session' = [session EXCEPT !.at = how, !.ran = ran]
    BY <1>5 DEF SessionEnds, TimesOut
  <2>2. UNCHANGED reviews
    BY <1>5 DEF SessionEnds, TimesOut
  <2>3. /\ session' \in Sessions /\ session'.sent = session.sent /\ session'.known = session.known
        /\ session'.looked = session.looked
    BY <2>1 DEF Sessions
  <2>4. QED
    BY <2>2, <2>3 DEF SessionFits
<1>6. QED
  BY <1>3, <1>4, <1>5 DEF Works

-----------------------------------------------------------------------------
(* The runs of a process. *)

Total == Len(argv.names) * argv.runs

\* Which case a run was of.
CaseOf(i) == argv.names[((i - 1) \div argv.runs) + 1]

\* A score credits what was said in the changed file, and tells the rest apart.
SaidFits(run) ==
  /\ SaidAt(run, {"added line"}) \subseteq run.score.reported
  /\ run.score.reported \cup run.score.misplaced = SaidAt(run, Places)
  /\ run.score.reported \cap run.score.misplaced = {}

\* What holds of every run that was scored.
RunFits(i) ==
  /\ cases[i].name = CaseOf(i)
  /\ SaidFits(cases[i])
  /\ cases[i].score.recall > 0 => cases[i].looked
  /\ cases[i].opened > 0

\* The inductive invariant: the runs scored are the first of the list, each of
\* its case, and nothing is on file before the last of them.
ScoringInv ==
  /\ argv \in Argvs /\ Listed(cases) /\ Len(cases) <= Total
  /\ at \in {"start", "cases", "session", "read", "done", "failed"}
  /\ at \in {"cases", "session", "read", "done"} => Names \subseteq DOMAIN EVERY_CASE
  /\ at = "session" => /\ Len(cases) < Total
                        /\ session \in Sessions /\ Listed(reviews) /\ SessionFits(theCase)
  /\ at \in {"read", "done"} => Len(cases) = Total
  /\ \A i \in DOMAIN cases : RunFits(i)
  /\ file # None => at = "done" /\ ~argv.control /\ Names \cap DOMAIN HELD_OUT = {}

\* The quotient counts whole lists of runs.
LEMMA Quotient ==
  ASSUME NEW n \in Nat, NEW r \in Nat \ {0}
  PROVE  /\ n \div r \in Nat
         /\ r * (n \div r) <= n /\ n < r * (n \div r) + r
  OBVIOUS

LEMMA ArgvFacts ==
  ASSUME argv \in Argvs
  PROVE  /\ argv.runs \in Nat \ {0} /\ argv.names \in Seq(STRING)
         /\ Len(argv.names) \in Nat \ {0} /\ DOMAIN argv.names = 1..Len(argv.names)
         /\ Total \in Nat
         /\ \A i, j \in DOMAIN argv.names : argv.names[i] = argv.names[j] => i = j
<1>1. /\ argv.runs \in Nat \ {0} /\ argv.names \in Seq(STRING) /\ argv.names # <<>>
      /\ IsInjective(argv.names)
  BY ScoringAssumption
<1>2. Len(argv.names) \in Nat \ {0} /\ DOMAIN argv.names = 1..Len(argv.names)
  BY <1>1
<1>3. Total \in Nat
  BY <1>1, <1>2 DEF Total
<1>4. QED
  BY <1>1, <1>2, <1>3 DEF IsInjective

\* Within the list there is a case whose turn it is.
LEMMA TurnsAreCases ==
  ASSUME argv \in Argvs, NEW n \in Nat, n < Total
  PROVE  (n \div argv.runs) + 1 \in DOMAIN argv.names
<1> DEFINE R == argv.runs
<1> DEFINE N == Len(argv.names)
<1> DEFINE q == n \div R
<1>1. R \in Nat \ {0} /\ N \in Nat \ {0} /\ n < N * R /\ DOMAIN argv.names = 1..N
  BY ArgvFacts DEF Total
<1> HIDE DEF R, N
<1>2. q \in Nat /\ R * q <= n
  BY <1>1, Quotient
<1> HIDE DEF q
<1>3. q < N
  BY <1>1, <1>2
<1>4. QED
  BY <1>1, <1>2, <1>3 DEF q, R

LEMMA CurrentIsCase ==
  ASSUME ScoringInv, Len(cases) < Total, Names \subseteq DOMAIN EVERY_CASE
  PROVE  Current \in DOMAIN EVERY_CASE /\ theCase = EVERY_CASE[Current]
<1>1. Len(cases) \in Nat
  BY ListedAppend DEF ScoringInv
<1>2. (Len(cases) \div argv.runs) + 1 \in DOMAIN argv.names
  BY <1>1, TurnsAreCases DEF ScoringInv
<1>3. QED
  BY <1>2 DEF Current, theCase, Names, Range

LEMMA NotFinished ==
  ASSUME ScoringInv
  PROVE  /\ Len(cases) \in Nat /\ Total \in Nat
         /\ ~Finished => Len(cases) < Total
         /\ Finished => Len(cases) = Total
<1>1. Len(cases) \in Nat /\ Total \in Nat /\ Len(cases) <= Total
  BY ListedAppend, ArgvFacts DEF ScoringInv
<1>2. QED
  BY <1>1 DEF Finished, Total

-----------------------------------------------------------------------------
(* The invariant, action by action. *)

\* A process that stops, or has its reading, touches no score.
LEMMA StopFits ==
  ASSUME ScoringInv, UNCHANGED <<argv, cases>>, at' = "failed", UNCHANGED file, at # "done"
  PROVE  ScoringInv'
BY DEF ScoringInv, RunFits, CaseOf, Total, Names

LEMMA BeginsFits == ScoringInv /\ Begin => ScoringInv'
<1> SUFFICES ASSUME ScoringInv, Begin PROVE ScoringInv'
  OBVIOUS
<1>1. UNCHANGED <<argv, cases, file>> /\ at = "start"
  BY DEF Begin, Exit
<1>2. CASE at' = "failed"
  BY <1>1, <1>2, StopFits
<1>3. CASE at' = "cases" /\ Names \subseteq DOMAIN EVERY_CASE
  BY <1>1, <1>3 DEF ScoringInv, RunFits, CaseOf, Total, Names
<1>4. QED
  BY <1>2, <1>3 DEF Begin, Exit

\* A run starts a session of its own on the case whose turn it is.
LEMMA RunCaseFits == ScoringInv /\ runCase => ScoringInv'
<1> SUFFICES ASSUME ScoringInv, runCase PROVE ScoringInv'
  OBVIOUS
<1>1. /\ at = "cases" /\ at' = "session" /\ UNCHANGED <<argv, cases, file>>
      /\ runSession(theCase) /\ ~Finished
  BY DEF runCase, Exit
<1>2. Len(cases) < Total /\ Names \subseteq DOMAIN EVERY_CASE
  BY <1>1, NotFinished DEF ScoringInv
<1>3. Current \in DOMAIN EVERY_CASE /\ theCase = EVERY_CASE[Current]
  BY <1>2, CurrentIsCase
<1>4. session' \in Sessions /\ Listed(reviews') /\ SessionFits(EVERY_CASE[Current])'
  <2> DEFINE name == Current
  <2>1. UNCHANGED name
    BY <1>1 DEF Current
  <2>2. QED
    BY <1>1, <1>3, <2>1, SessionBegins DEF SessionFits
<1>5. SessionFits(theCase)'
  BY <1>1, <1>3, <1>4 DEF SessionFits, theCase, Current
<1>6. \A i \in DOMAIN cases' : RunFits(i)'
  BY <1>1 DEF ScoringInv, RunFits, CaseOf
<1>7. QED
  BY <1>1, <1>2, <1>4, <1>5, <1>6 DEF ScoringInv, Total, Names

\* The session goes on.
LEMMA WorkingFits == ScoringInv /\ Working => ScoringInv'
<1> SUFFICES ASSUME ScoringInv, Working PROVE ScoringInv'
  OBVIOUS
<1>1. at = "session" /\ UNCHANGED <<argv, at, cases, file>> /\ Works(theCase)
  BY DEF Working, scoringVars
<1>2. /\ Len(cases) < Total /\ Names \subseteq DOMAIN EVERY_CASE
      /\ session \in Sessions /\ Listed(reviews) /\ SessionFits(theCase)
  BY <1>1 DEF ScoringInv
<1>3. Current \in DOMAIN EVERY_CASE /\ theCase = EVERY_CASE[Current]
  BY <1>2, CurrentIsCase
<1>4. session' \in Sessions /\ Listed(reviews') /\ SessionFits(EVERY_CASE[Current])'
  <2> DEFINE name == Current
  <2>1. UNCHANGED name
    BY <1>1 DEF Current
  <2>2. QED
    BY <1>1, <1>2, <1>3, <2>1, SessionWorks DEF SessionFits
<1>5. SessionFits(theCase)'
  BY <1>1, <1>3, <1>4 DEF SessionFits, theCase, Current
<1>6. \A i \in DOMAIN cases' : RunFits(i)'
  BY <1>1 DEF ScoringInv, RunFits, CaseOf
<1>7. QED
  BY <1>1, <1>2, <1>4, <1>5, <1>6 DEF ScoringInv, Total, Names

\* The credited and the misplaced, told apart by place.
LEMMA SaidInPlaces ==
  ASSUME NEW run, NEW D, run.sent \subseteq D \X Places,
         run.score.reported = {s[1] : s \in {t \in run.sent : t[2] # "other file"}},
         run.score.misplaced = {s[1] : s \in run.sent} \ run.score.reported
  PROVE  SaidFits(run)
<1>1. \A t \in run.sent : t[2] \in Places
  OBVIOUS
<1>2. SaidAt(run, Places) = {s[1] : s \in run.sent}
  BY <1>1 DEF SaidAt
<1>3. SaidAt(run, {"added line"}) \subseteq run.score.reported
  BY DEF SaidAt
<1>4. run.score.reported \subseteq {s[1] : s \in run.sent}
  OBVIOUS
<1>5. QED
  BY <1>2, <1>3, <1>4 DEF SaidFits

\* A run that is scored is the next of the list, by what its session sent.
LEMMA ScoreFits == ScoringInv /\ Score => ScoringInv'
<1> SUFFICES ASSUME ScoringInv, Score PROVE ScoringInv'
  OBVIOUS
<1>1. /\ at = "session" /\ Len(cases) < Total /\ Names \subseteq DOMAIN EVERY_CASE
      /\ session \in Sessions /\ Listed(reviews) /\ SessionFits(theCase)
      /\ Listed(cases) /\ Len(cases) \in Nat /\ Total \in Nat
  BY NotFinished DEF ScoringInv, Score
<1>2. CASE at' = "failed" /\ UNCHANGED <<argv, cases, file>>
  BY <1>1, <1>2, StopFits
<1>3. CASE /\ ~refuseToScore(reviews) /\ at' = "cases" /\ UNCHANGED <<argv, file>>
           /\ cases' = Append(cases,
                [name |-> Current, score |-> scoreRun(theCase, reviews), opened |-> Len(reviews),
                 looked |-> session.looked, sent |-> session.sent])
  <2> DEFINE made == [name |-> Current, score |-> scoreRun(theCase, reviews), opened |-> Len(reviews),
                      looked |-> session.looked, sent |-> session.sent]
  <2>1. /\ made.name = Current /\ made.opened = Len(reviews) /\ made.looked = session.looked
        /\ made.sent = session.sent /\ made.score = scoreRun(theCase, reviews)
    OBVIOUS
  <2>2. cases' = Append(cases, made)
    BY <1>3
  <2> HIDE DEF made
  <2> DEFINE sc == scoreRun(theCase, reviews)
  <2>3. /\ sc.reported = reported(theCase, reviews)
        /\ sc.misplaced = seen(theCase, reviews) \ reported(theCase, reviews)
        /\ sc.recall = Cardinality(reported(theCase, reviews))
    BY DEF scoreRun, seenButMisplaced
  <2> HIDE DEF sc
  <2>4. SaidFits(made)
    <3>1. /\ made.sent = AllPutIn(theCase, reviews) /\ made.sent \subseteq Defects \X Places
          /\ \A i \in DOMAIN reviews : Placed(reviews[i])
      BY <1>1, <2>1 DEF SessionFits, Sessions
    <3>2. /\ made.score.reported = {s[1] : s \in {t \in made.sent : t[2] # "other file"}}
          /\ seen(theCase, reviews) = {s[1] : s \in made.sent}
      BY <2>1, <2>3, <3>1, ScoreOfWhatWasSaid DEF sc
    <3>3. made.score.misplaced = {s[1] : s \in made.sent} \ made.score.reported
      BY <2>1, <2>3, <3>2 DEF sc
    <3>4. QED
      BY <3>1, <3>2, <3>3, SaidInPlaces
  <2>10. made.score.recall > 0 => made.looked
    <3>1. CASE ~session.looked
      <4>1. AllPutIn(theCase, reviews) = {} /\ \A i \in DOMAIN reviews : Placed(reviews[i])
        BY <1>1, <3>1 DEF SessionFits
      <4>2. reported(theCase, reviews) = {}
        <5> DEFINE put == AllPutIn(theCase, reviews)
        <5>1. reported(theCase, reviews) = {s[1] : s \in {t \in put : t[2] # "other file"}}
          BY <4>1, ScoreOfWhatWasSaid
        <5>2. put = {}
          BY <4>1
        <5> HIDE DEF put
        <5>3. QED
          BY <5>1, <5>2
      <4>3. Cardinality(reported(theCase, reviews)) = 0
        BY <4>2, FS_EmptySet
      <4>4. made.score.recall = 0
        BY <2>1, <2>3, <4>3 DEF sc
      <4>5. QED
        BY <4>4
    <3>2. QED
      BY <2>1, <3>1
  <2>5. made.opened > 0
    <3>1. reviews # <<>>
      BY <1>3 DEF refuseToScore
    <3>2. PICK S : reviews \in Seq(S)
      BY <1>1 DEF Listed
    <3>3. QED
      BY <2>1, <3>1, <3>2
  <2>6. /\ Listed(cases') /\ Len(cases') = Len(cases) + 1
        /\ \A i \in DOMAIN cases' : \/ i \in DOMAIN cases /\ cases'[i] = cases[i]
                                    \/ i = Len(cases) + 1 /\ cases'[i] = made
    BY <1>1, <2>2, ListedAppend
  <2>7. ASSUME NEW i \in DOMAIN cases' PROVE RunFits(i)'
    <3>1. CASE i \in DOMAIN cases /\ cases'[i] = cases[i]
      BY <1>3, <3>1 DEF ScoringInv, RunFits, CaseOf
    <3>2. CASE i = Len(cases) + 1 /\ cases'[i] = made
      <4>1. i - 1 = Len(cases)
        BY <1>1, <3>2
      <4>2. CaseOf(i) = Current
        BY <4>1 DEF CaseOf, Current
      <4>3. CaseOf(i)' = CaseOf(i)
        BY <1>3 DEF CaseOf
      <4>4. QED
        BY <2>1, <2>4, <2>5, <2>10, <3>2, <4>2, <4>3 DEF RunFits
    <3>3. QED
      BY <2>6, <3>1, <3>2
  <2>8. Len(cases') <= Total' /\ Names' = Names
    BY <1>1, <1>3, <2>6 DEF Total, Names
  <2>9. QED
    BY <1>1, <1>3, <2>6, <2>7, <2>8 DEF ScoringInv
<1>4. QED
  BY <1>2, <1>3 DEF Score, Exit

\* A reading is of all the runs there were to make.
LEMMA SummariseFits == ScoringInv /\ Summarise => ScoringInv'
<1> SUFFICES ASSUME ScoringInv, Summarise PROVE ScoringInv'
  OBVIOUS
<1>1. at = "cases" /\ at' = "read" /\ Finished /\ UNCHANGED <<argv, cases, file>>
  BY DEF Summarise
<1>2. Len(cases) = Total
  BY <1>1, NotFinished
<1>3. QED
  BY <1>1, <1>2 DEF ScoringInv, RunFits, CaseOf, Total, Names

\* It is recorded when it is of the shipped command on the scored set.
LEMMA RecordFits == ScoringInv /\ Record => ScoringInv'
<1> SUFFICES ASSUME ScoringInv, Record PROVE ScoringInv'
  OBVIOUS
<1>1. at = "read" /\ UNCHANGED <<argv, cases>>
  BY DEF Record, Exit
<1>2. CASE at' = "failed" /\ UNCHANGED file
  BY <1>1, <1>2, StopFits
<1>3. CASE at' = "done" /\ UNCHANGED file
  BY <1>1, <1>3 DEF ScoringInv, RunFits, CaseOf, Total, Names
<1>4. CASE at' = "done" /\ recordable
  BY <1>1, <1>4 DEF ScoringInv, RunFits, CaseOf, Total, Names, recordable
<1>5. QED
  BY <1>2, <1>3, <1>4 DEF Record, Exit

LEMMA ScoringStep == ScoringInv /\ [ScoringNext]_<<scoringVars, sessionVars>> => ScoringInv'
<1> SUFFICES ASSUME ScoringInv, [ScoringNext]_<<scoringVars, sessionVars>> PROVE ScoringInv'
  OBVIOUS
<1>1. CASE UNCHANGED <<scoringVars, sessionVars>>
  BY <1>1 DEF scoringVars, sessionVars, ScoringInv, RunFits, CaseOf, Total, Names, SessionFits,
              theCase, Current
<1>2. CASE Throws
  BY <1>2, StopFits DEF Throws, Exit
<1>3. QED
  BY <1>1, <1>2, BeginsFits, RunCaseFits, WorkingFits, ScoreFits, SummariseFits, RecordFits
     DEF ScoringNext

LEMMA ScoringBegins == ScoringInit => ScoringInv
<1> SUFFICES ASSUME ScoringInit PROVE ScoringInv
  OBVIOUS
<1>1. argv \in Argvs /\ at = "start" /\ cases = <<>> /\ file = None
  BY DEF ScoringInit
<1>2. Listed(cases) /\ Len(cases) = 0 /\ DOMAIN cases = {}
  BY <1>1, NothingListed
<1>3. QED
  BY <1>1, <1>2, ArgvFacts DEF ScoringInv

\* The runs scored are the first of the command line's, each by what it sent.
THEOREM ScoringInvariance == ScoringSpec => []ScoringInv
BY ScoringBegins, ScoringStep, PTL DEF ScoringSpec

\* For every command line and every number of reviews: a defect is credited only
\* to a session that looked beyond the diff.
THEOREM FoundByLooking == ScoringSpec => []RecallTakesLooking
<1>1. ScoringInv => RecallTakesLooking
  BY DEF ScoringInv, RunFits, RecallTakesLooking
<1>2. QED
  BY <1>1, ScoringInvariance, PTL

\* However the findings were spread over submits, and whatever was sent after the
\* session was cut off: what was said on a line of the diff is credited, and what
\* was said anywhere is credited or told apart as misplaced.
THEOREM WhatWasSaidIsScored == ScoringSpec => []NothingSaidIsLost
<1>1. ScoringInv => NothingSaidIsLost
  BY DEF ScoringInv, RunFits, SaidFits, NothingSaidIsLost
<1>2. QED
  BY <1>1, ScoringInvariance, PTL

\* The runs of one name stand together, as many as were asked for.
LEMMA RunsOfAName ==
  ASSUME ScoringInv, Len(cases) = Total, NEW name \in Names
  PROVE  Cardinality(RunsOf(name)) = argv.runs
<1> DEFINE R == argv.runs
<1> DEFINE N == Len(argv.names)
<1>1. R \in Nat \ {0} /\ N \in Nat \ {0} /\ DOMAIN argv.names = 1..N
  BY ArgvFacts DEF ScoringInv
<1>2. PICK k \in 1..N : name = argv.names[k]
  BY <1>1 DEF Names, Range
<1>3. DOMAIN cases = 1..(N * R)
  <2>1. PICK S : cases \in Seq(S)
    BY DEF ScoringInv, Listed
  <2>2. QED
    BY <2>1 DEF Total
<1>4. ASSUME NEW i \in 1..(N * R)
      PROVE  cases[i].name = name <=> ((i - 1) \div R) + 1 = k
  <2> DEFINE j == ((i - 1) \div R) + 1
  <2>1. i - 1 \in Nat /\ i - 1 < Total
    BY <1>1 DEF Total
  <2>2. j \in DOMAIN argv.names
    BY <2>1, TurnsAreCases DEF ScoringInv
  <2>3. cases[i].name = argv.names[j]
    BY <1>3 DEF ScoringInv, RunFits, CaseOf
  <2> HIDE DEF j
  <2>4. cases[i].name = name <=> j = k
    BY <1>1, <1>2, <2>2, <2>3, ArgvFacts DEF ScoringInv
  <2>5. QED
    BY <2>4 DEF j
<1> DEFINE p == R * (k - 1)
<1> HIDE DEF R, N
<1>5. p \in Nat /\ p + R <= N * R /\ R * k = p + R
  <2>1. N \in Nat /\ k \in Nat \ {0} /\ k <= N
    BY <1>1, <1>2
  <2>2. p \in Nat
    BY <1>1, <2>1 DEF p
  <2>3. R * k = R * (k - 1) + R
    BY <1>1, <2>1
  <2>4. k * R <= N * R
    BY <1>1, <2>1
  <2>5. R * k = k * R
    BY <1>1, <2>1
  <2>6. QED
    BY <1>1, <2>1, <2>2, <2>3, <2>4, <2>5 DEF p
<1>6. ASSUME NEW i \in 1..(N * R)
      PROVE  ((i - 1) \div R) + 1 = k <=> p + 1 <= i /\ i <= p + R
  <2> DEFINE q == (i - 1) \div R
  <2>1. i - 1 \in Nat /\ i \in Nat
    BY <1>1, <1>6
  <2>2. q \in Nat /\ R * q <= i - 1 /\ i - 1 < R * q + R
    BY <1>1, <2>1, Quotient
  <2> HIDE DEF q
  <2>3. CASE q = k - 1
    BY <1>1, <1>5, <2>1, <2>2, <2>3 DEF p
  <2>4. CASE q > k - 1
    <3>1. R * q >= R * k
      BY <1>1, <2>2, <2>4
    <3>2. QED
      BY <1>1, <1>5, <2>1, <2>2, <2>4, <3>1
  <2>5. CASE q < k - 1
    <3>1. R * q + R <= p
      <4>1. R * (q + 1) <= R * (k - 1)
        BY <1>1, <2>2, <2>5
      <4>2. R * (q + 1) = R * q + R
        BY <1>1, <2>2
      <4>3. QED
        BY <4>1, <4>2 DEF p
    <3>2. QED
      BY <1>1, <1>5, <2>1, <2>2, <2>5, <3>1
  <2>6. q = k - 1 \/ q > k - 1 \/ q < k - 1
    BY <1>1, <2>2
  <2>7. QED
    BY <2>3, <2>4, <2>5, <2>6 DEF q
<1>7. RunsOf(name) = (p + 1)..(p + R)
  <2>1. \A i : i \in RunsOf(name) <=> i \in 1..(N * R) /\ cases[i].name = name
    BY <1>3 DEF RunsOf
  <2>2. \A i : i \in RunsOf(name) <=> i \in 1..(N * R) /\ p + 1 <= i /\ i <= p + R
    BY <1>4, <1>6, <2>1 DEF R
  <2>3. \A i : i \in (p + 1)..(p + R) <=> i \in 1..(N * R) /\ p + 1 <= i /\ i <= p + R
    BY <1>1, <1>5
  <2>4. QED
    BY <2>2, <2>3
<1>8. Cardinality((p + 1)..(p + R)) = R
  <2>1. p + 1 \in Int /\ p + R \in Int /\ p + 1 <= p + R
    BY <1>1, <1>5
  <2>2. Cardinality((p + 1)..(p + R)) = (p + R) - (p + 1) + 1
    BY <2>1, FS_Interval
  <2>3. QED
    BY <1>1, <1>5, <2>2
<1>9. QED
  BY <1>7, <1>8 DEF R

\* What is recorded is a reading of the shipped command on the scored set, with
\* every run of every case of the command line in it and a review in each.
THEOREM RecordIsShipped == ScoringSpec => []RecordedIsShipped
<1>1. ASSUME ScoringInv PROVE RecordedIsShipped
  <2> SUFFICES ASSUME file # None PROVE
        /\ ~argv.control /\ Names \subseteq DOMAIN CASES
        /\ \A name \in Names : Cardinality(RunsOf(name)) = argv.runs
        /\ \A i \in DOMAIN cases : cases[i].opened > 0
    BY DEF RecordedIsShipped
  <2>1. at = "done" /\ ~argv.control /\ Names \cap DOMAIN HELD_OUT = {}
    BY <1>1 DEF ScoringInv
  <2>2. Names \subseteq DOMAIN EVERY_CASE /\ Len(cases) = Total /\ \A i \in DOMAIN cases : RunFits(i)
    BY <1>1, <2>1 DEF ScoringInv
  <2>3. Names \subseteq DOMAIN CASES
    BY <2>1, <2>2, EveryCase
  <2>4. QED
    BY <1>1, <2>1, <2>2, <2>3, RunsOfAName DEF RunFits
<1>2. QED
  BY <1>1, ScoringInvariance, PTL

-----------------------------------------------------------------------------
(* Sums, and the worst of a few numbers. *)

LEMMA SumIsFold == \A f, S : SumFunctionOnSet(f, S) = Adding!Fold(0, f, S)
BY DEF SumFunctionOnSet, FoldFunctionOnSet, MapThenFoldSet,
       Adding!Fold, Adding!FoldFunctionOnSet, Adding!MapThenFoldSet

\* A sum is not larger than one that is larger term by term.
LEMMA SumStaysBelow ==
  ASSUME NEW S, IsFiniteSet(S), NEW f \in [S -> Nat], NEW g \in [S -> Nat],
         \A i \in S : f[i] <= g[i]
  PROVE  SumFunction(f) <= SumFunction(g)
<1> DEFINE R == {p \in Nat \X Nat : p[1] <= p[2]}
<1>1. \A a, b \in Nat : <<a, b>> \in R <=> a <= b
  OBVIOUS
<1>2. \A a, c \in Nat : a + c \in Nat
  OBVIOUS
<1>3. \A a, c \in Nat, b, d \in Nat : <<a, b>> \in R /\ <<c, d>> \in R => <<a + c, b + d>> \in R
  OBVIOUS
<1>4. <<0, 0>> \in R /\ 0 \in Nat
  OBVIOUS
<1>5. \A i \in S : f[i] \in Nat /\ g[i] \in Nat /\ <<f[i], g[i]>> \in R
  BY <1>1
<1>6. Adding!IsFiniteSet(S)
  BY DEF IsFiniteSet, Adding!IsFiniteSet
<1> HIDE DEF R
<1>7. <<Adding!Fold(0, f, S), Adding!Fold(0, g, S)>> \in R
  BY <1>2, <1>3, <1>4, <1>5, <1>6, Adding!FoldRelated
<1>8. QED
  BY <1>7, SumIsFold DEF R, SumFunction

\* One of finitely many numbers is the largest.
LEMMA LargestOfSome ==
  ASSUME NEW s \in SUBSET Nat, IsFiniteSet(s), s # {}
  PROVE  Max(s) \in s /\ \A y \in s : y <= Max(s)
<1>1. Adding!IsFiniteSet(s)
  BY DEF IsFiniteSet, Adding!IsFiniteSet
<1>2. \E x \in s : \A y \in s : y <= x
  BY <1>1, Adding!GreatestNumber
<1>3. \E x \in s : \A y \in s : x >= y
  BY <1>2
<1>4. Max(s) \in s /\ \A y \in s : Max(s) >= y
  BY <1>3 DEF Max
<1>5. QED
  BY <1>4

\* As many images as elements, at most.
LEMMA ImageIsFinite ==
  ASSUME NEW S, IsFiniteSet(S), NEW f
  PROVE  IsFiniteSet({f[x] : x \in S})
<1> DEFINE T == {f[x] : x \in S}
           g == [x \in S |-> f[x]]
<1>1. g \in Surjection(S, T)
  BY DEF Surjection
<1> HIDE DEF g, T
<1>2. IsFiniteSet(T)
  BY <1>1, FS_Surjection
<1>3. QED
  BY <1>2 DEF T

-----------------------------------------------------------------------------
(* The budget. *)

\* No case plants more than three defects.
LEMMA PlantedAreFew ==
  ASSUME NEW name \in DOMAIN EVERY_CASE
  PROVE  IsFiniteSet(Planted(EVERY_CASE[name]))
<1> DEFINE D == {"prior_art", "stored_figure", "other_storefront"}
<1>1. IsFiniteSet(D)
  <2>1. IsFiniteSet({} \cup {"prior_art"})
    BY FS_EmptySet, FS_AddElement
  <2>2. IsFiniteSet(({} \cup {"prior_art"}) \cup {"stored_figure"})
    BY <2>1, FS_AddElement
  <2>3. IsFiniteSet((({} \cup {"prior_art"}) \cup {"stored_figure"}) \cup {"other_storefront"})
    BY <2>2, FS_AddElement
  <2>4. D = (({} \cup {"prior_art"}) \cup {"stored_figure"}) \cup {"other_storefront"}
    OBVIOUS
  <2>5. QED
    BY <2>3, <2>4
<1>2. ASSUME NEW n \in DOMAIN CASES PROVE Planted(CASES[n]) \subseteq D
  BY DEF CASES, Planted, PriorArt, ++
<1>3. ASSUME NEW n \in DOMAIN HELD_OUT PROVE Planted(HELD_OUT[n]) \subseteq D
  BY DEF HELD_OUT, Planted
<1>4. \/ name \in DOMAIN CASES /\ EVERY_CASE[name] = CASES[name]
      \/ name \in DOMAIN HELD_OUT \ DOMAIN CASES /\ EVERY_CASE[name] = HELD_OUT[name]
  BY DEF EVERY_CASE, ++
<1>5. Planted(EVERY_CASE[name]) \subseteq D
  BY <1>2, <1>3, <1>4
<1>6. QED
  BY <1>1, <1>5, FS_Subset

\* Every run missed some number of defects; a reading is of all the runs, and
\* no run is made after it.
BudgetFits ==
  /\ \A i \in DOMAIN cases : cases[i].score.missed \in Nat
  /\ reading # None => /\ at \in {"read", "done", "failed"} /\ Len(cases) = Total
                       /\ reading.missed = OverCases(missed, Max)

\* A run cannot credit more than was planted.
LEMMA MissedIsCounted ==
  ASSUME NEW name \in DOMAIN EVERY_CASE, NEW rs
  PROVE  scoreRun(EVERY_CASE[name], rs).missed \in Nat
<1> DEFINE c == EVERY_CASE[name]
<1>1. IsFiniteSet(Planted(c)) /\ reported(c, rs) \subseteq Planted(c)
  BY PlantedAreFew DEF reported
<1>2. /\ Cardinality(Planted(c)) \in Nat /\ Cardinality(reported(c, rs)) \in Nat
      /\ Cardinality(reported(c, rs)) <= Cardinality(Planted(c))
  BY <1>1, FS_Subset, FS_CardinalityType
<1>3. scoreRun(c, rs).missed = Cardinality(Planted(c)) - Cardinality(reported(c, rs))
  BY DEF scoreRun
<1> HIDE DEF c
<1>4. scoreRun(c, rs).missed \in Nat
  BY <1>2, <1>3
<1>5. QED
  BY <1>4 DEF c

LEMMA BudgetStep ==
  ScoringInv /\ BudgetFits /\ [ScoringNext]_<<scoringVars, sessionVars>> => BudgetFits'
<1> SUFFICES ASSUME ScoringInv, BudgetFits, [ScoringNext]_<<scoringVars, sessionVars>>
             PROVE  BudgetFits'
  OBVIOUS
<1>1. ASSUME UNCHANGED <<argv, cases, reading>>,
             reading # None => at' \in {"read", "done", "failed"}
      PROVE  BudgetFits'
  BY <1>1 DEF BudgetFits, Total, OverCases, Over, missed, Names, RunsOf
<1>2. CASE UNCHANGED <<scoringVars, sessionVars>> \/ Working
  BY <1>1, <1>2 DEF Working, scoringVars, BudgetFits
<1>3. CASE Begin \/ runCase \/ Throws
  <2>1. UNCHANGED <<argv, cases, reading>> /\ at \in {"start", "cases", "session"}
    BY <1>3 DEF Begin, runCase, Throws, Exit
  <2>2. QED
    BY <1>1, <2>1 DEF BudgetFits
<1>4. CASE Record
  <2>1. UNCHANGED <<argv, cases, reading>> /\ at' \in {"done", "failed"}
    BY <1>4 DEF Record, Exit
  <2>2. QED
    BY <1>1, <2>1
<1>5. CASE Summarise
  <2>1. /\ UNCHANGED <<argv, cases>> /\ at' = "read" /\ Finished
        /\ reading' = summarise
    BY <1>5 DEF Summarise
  <2>2. Len(cases) = Total
    BY <2>1, NotFinished
  <2>3. summarise.missed = OverCases(missed, Max)
    BY DEF summarise
  <2>4. OverCases(missed, Max)' = OverCases(missed, Max)
    BY <2>1 DEF OverCases, Over, missed, Names, RunsOf
  <2>5. QED
    BY <2>1, <2>2, <2>3, <2>4 DEF BudgetFits, Total
<1>6. CASE Score
  <2>1. at = "session" /\ reading = None /\ UNCHANGED <<argv, reading>>
    BY <1>6 DEF Score, Exit, BudgetFits
  <2>2. CASE UNCHANGED cases
    BY <1>1, <2>1, <2>2
  <2>3. CASE cases' = Append(cases,
                [name |-> Current, score |-> scoreRun(theCase, reviews), opened |-> Len(reviews),
                 looked |-> session.looked, sent |-> session.sent])
    <3> DEFINE made == [name |-> Current, score |-> scoreRun(theCase, reviews), opened |-> Len(reviews),
                        looked |-> session.looked, sent |-> session.sent]
    <3>1. Current \in DOMAIN EVERY_CASE /\ theCase = EVERY_CASE[Current]
      BY <2>1, CurrentIsCase DEF ScoringInv
    <3>2. made.score = scoreRun(theCase, reviews) /\ cases' = Append(cases, made)
      BY <2>3
    <3> HIDE DEF made
    <3>3. made.score.missed \in Nat
      BY <3>1, <3>2, MissedIsCounted
    <3>4. \A i \in DOMAIN cases' : \/ i \in DOMAIN cases /\ cases'[i] = cases[i]
                                 \/ cases'[i] = made
      BY <3>2, ListedAppend DEF ScoringInv
    <3>5. QED
      BY <2>1, <3>3, <3>4 DEF BudgetFits
  <2>4. QED
    BY <1>6, <2>2, <2>3 DEF Score, Exit
<1>7. QED
  BY <1>2, <1>3, <1>4, <1>5, <1>6 DEF ScoringNext

\* The worst run of every case is a run of it, and no other run missed more.
LEMMA WorstRunOfAName ==
  ASSUME ScoringInv, BudgetFits, Len(cases) = Total, NEW name \in Names
  PROVE  /\ Over(name, missed, Max) \in Nat
         /\ \E i \in RunsOf(name) : cases[i].score.missed = Over(name, missed, Max)
         /\ \A i \in RunsOf(name) : /\ i \in DOMAIN cases
                                    /\ cases[i].score.missed \in Nat
                                    /\ cases[i].score.missed <= Over(name, missed, Max)
<1> DEFINE s == {cases[i].score.missed : i \in RunsOf(name)}
<1>1. Cardinality(RunsOf(name)) = argv.runs /\ argv.runs \in Nat \ {0}
  BY RunsOfAName, ArgvFacts DEF ScoringInv
<1>2. RunsOf(name) # {}
  BY <1>1, FS_EmptySet
<1>3. IsFiniteSet(RunsOf(name))
  <2>1. RunsOf(name) \subseteq 1..Len(cases) /\ Len(cases) \in Nat
    BY ListedAppend DEF ScoringInv, RunsOf
  <2>2. 1 \in Int /\ Len(cases) \in Int
    BY <2>1
  <2>3. IsFiniteSet(1..Len(cases))
    BY <2>2, FS_Interval
  <2>4. QED
    BY <2>1, <2>3, FS_Subset
<1>4. IsFiniteSet(s)
  <2> DEFINE f == [i \in RunsOf(name) |-> cases[i].score.missed]
             S == RunsOf(name)
  <2>1. s = {f[i] : i \in S}
    OBVIOUS
  <2> HIDE DEF f, S, s
  <2>2. IsFiniteSet({f[i] : i \in S})
    BY <1>3, ImageIsFinite DEF S
  <2>3. QED
    BY <2>1, <2>2
<1>5. s \in SUBSET Nat /\ s # {}
  BY <1>2 DEF BudgetFits, RunsOf
<1>6. Over(name, missed, Max) = Max(s)
  BY DEF Over, missed
<1> HIDE DEF s
<1>7. Max(s) \in s /\ Max(s) \in Nat /\ \A y \in s : y <= Max(s)
  BY <1>4, <1>5, LargestOfSome
<1>8. \A i \in RunsOf(name) : cases[i].score.missed \in s /\ cases[i].score.missed \in Nat /\ i \in DOMAIN cases
  BY DEF s, BudgetFits, RunsOf
<1>9. \E i \in RunsOf(name) : cases[i].score.missed = Max(s)
  BY <1>7 DEF s
<1>10. QED
  BY <1>6, <1>7, <1>8, <1>9

\* For every command line: a budget set to the reading is kept by any choice of
\* one run per case, and by some choice it is used up.
THEOREM BudgetIsTheWorst == ScoringSpec => []WorstRunBudget
<1>1. ScoringInit => BudgetFits
  <2>1. ScoringInit => cases = <<>> /\ reading = None
    BY DEF ScoringInit
  <2>2. QED
    BY <2>1 DEF BudgetFits
<1>2. ASSUME ScoringInv, BudgetFits PROVE WorstRunBudget
  <2> SUFFICES ASSUME reading # None PROVE WorstRunBudget
    BY DEF WorstRunBudget
  <2> DEFINE choices == {f \in [Names -> DOMAIN cases] : \A name \in Names : f[name] \in RunsOf(name)}
             terms(f) == [name \in Names |-> cases[f[name]].score.missed]
             worst == [name \in Names |-> Over(name, missed, Max)]
  <2>1. Len(cases) = Total /\ reading.missed = SumFunction(worst)
    BY <1>2 DEF BudgetFits, OverCases
  <2>2. worst \in [Names -> Nat]
    BY <1>2, <2>1, WorstRunOfAName
  <2>3. IsFiniteSet(Names)
    <3> DEFINE names == argv.names
               turns == DOMAIN argv.names
    <3>1. Names = {names[k] : k \in turns}
      BY DEF Names, Range
    <3>2. IsFiniteSet(turns)
      <4>1. turns = 1..Len(names) /\ 1 \in Int /\ Len(names) \in Int
        BY <1>2, ArgvFacts DEF ScoringInv
      <4>2. IsFiniteSet(1..Len(names))
        BY <4>1, FS_Interval
      <4>3. QED
        BY <4>1, <4>2
    <3> HIDE DEF names, turns
    <3>3. IsFiniteSet({names[k] : k \in turns})
      BY <3>2, ImageIsFinite
    <3>4. QED
      BY <3>1, <3>3
  <2>4. ASSUME NEW f \in choices PROVE SumFunction(terms(f)) <= reading.missed
    <3>1. terms(f) \in [Names -> Nat] /\ \A name \in Names : terms(f)[name] <= worst[name]
      BY <1>2, <2>1, WorstRunOfAName
    <3> HIDE DEF terms, worst
    <3>2. QED
      BY <2>1, <2>2, <2>3, <3>1, SumStaysBelow
  <2>5. \E f \in choices : SumFunction(terms(f)) = reading.missed
    <3> DEFINE f == [name \in Names |->
                       CHOOSE i \in RunsOf(name) : cases[i].score.missed = Over(name, missed, Max)]
    <3>1. ASSUME NEW name \in Names
          PROVE  /\ f[name] \in RunsOf(name) /\ f[name] \in DOMAIN cases
                 /\ cases[f[name]].score.missed = Over(name, missed, Max)
      <4>1. /\ \E i \in RunsOf(name) : cases[i].score.missed = Over(name, missed, Max)
            /\ \A i \in RunsOf(name) : i \in DOMAIN cases
        BY <1>2, <2>1, WorstRunOfAName
      <4>2. f[name] = CHOOSE i \in RunsOf(name) : cases[i].score.missed = Over(name, missed, Max)
        OBVIOUS
      <4> HIDE DEF f
      <4>3. QED
        BY <4>1, <4>2
    <3>2. f \in choices
      BY <3>1
    <3>3. terms(f) = worst
      BY <3>1
    <3> HIDE DEF terms, worst, choices, f
    <3>4. QED
      BY <2>1, <3>2, <3>3
  <2>6. QED
    BY <2>4, <2>5 DEF WorstRunBudget
<1>3. QED
  BY <1>1, <1>2, BudgetStep, ScoringInvariance, PTL DEF ScoringSpec
=============================================================================
