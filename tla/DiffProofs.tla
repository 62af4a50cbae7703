----------------------------- MODULE DiffProofs -----------------------------
(***************************************************************************)
(* What the reviewer reads in any diff of plainly named files, whatever    *)
(* their number, their hunks and their lines: every file, the numbers of   *)
(* the lines of the plain ones, and where a finding falls. A path with a   *)
(* blank or an accent breaks this (MCDiffPaths), so the theorems are about *)
(* diffs without one.                                                      *)
(***************************************************************************)
EXTENDS Diff, SequenceTheorems, TLAPS

\* One turn of the count, on each side.
CountAdded(s, line) == count("added", s, line)
CountRemoved(s, line) == count("removed", s, line)
CountAny(s, line) == count("any", s, line)

Reading == INSTANCE FoldFacts WITH op <- read
CountsAdded == INSTANCE FoldFacts WITH op <- CountAdded
CountsRemoved == INSTANCE FoldFacts WITH op <- CountRemoved
CountsAny == INSTANCE FoldFacts WITH op <- CountAny

\* No path is written in another way than it is.
PlainPaths == Spaced = {} /\ Quoted = {}

Parser == [files : Seq(FileDiff), file : FileDiff, hunk : Hunk]
-----------------------------------------------------------------------------
(* Folds over a few lines, and suffixes *)

LEMMA ReadsFew ==
  ASSUME NEW T, NEW p, NEW lines \in Seq(T)
  PROVE  /\ Len(lines) = 1 => FoldLeft(read, p, lines) = read(p, lines[1])
         /\ Len(lines) = 2 => FoldLeft(read, p, lines) = read(read(p, lines[1]), lines[2])
         /\ Len(lines) = 3 =>
              FoldLeft(read, p, lines) = read(read(read(p, lines[1]), lines[2]), lines[3])
<1>1. Reading!FoldLeft(read, p, lines) = FoldLeft(read, p, lines)
  BY DEF FoldLeft, Reading!FoldLeft, MapThenFoldSet, Reading!MapThenFoldSet, Max, Reading!Max
<1>2. QED
  BY <1>1, Reading!FoldLeftFew

\* A sequence without its head, and what is left when one is put before it, end
\* as it does.
LEMMA EndsAlike ==
  ASSUME NEW T, NEW s \in Seq(T), NEW x \in T
  PROVE  IsStrictSuffix(s, <<x>> \o s)
<1> DEFINE t == <<x>> \o s
<1>1. /\ Len(t) = Len(s) + 1 /\ Len(s) \in Nat
      /\ \A i \in 1..Len(s) : t[i + 1] = s[i]
  OBVIOUS
<1> HIDE DEF t
<1>2. Len(Reverse(s)) = Len(s) /\ Len(Reverse(t)) = Len(t)
  BY <1>1 DEF Reverse
<1>3. \A i \in 1..Len(s) : Reverse(s)[i] = Reverse(t)[i]
  <2> SUFFICES ASSUME NEW i \in 1..Len(s) PROVE Reverse(s)[i] = Reverse(t)[i]
    OBVIOUS
  <2>1. Reverse(s)[i] = s[Len(s) - i + 1] /\ Reverse(t)[i] = t[Len(t) - i + 1]
    BY <1>1 DEF Reverse
  <2>2. Len(s) - i + 1 \in 1..Len(s) /\ Len(t) - i + 1 = (Len(s) - i + 1) + 1
    BY <1>1
  <2>3. QED
    BY <1>1, <2>1, <2>2
<1>4. SubSeq(Reverse(s), 1, Len(s)) = SubSeq(Reverse(t), 1, Len(s))
  BY <1>1, <1>3
<1>5. s # t
  BY <1>1
<1>6. QED
  BY <1>1, <1>2, <1>4, <1>5 DEF IsStrictSuffix, IsSuffix, IsPrefix, t

LEMMA TailEndsAlike ==
  ASSUME NEW T, NEW s \in Seq(T), Len(s) > 0
  PROVE  IsStrictSuffix(Tail(s), s)
<1>1. s[1] \in T /\ Tail(s) \in Seq(T) /\ s = <<s[1]>> \o Tail(s)
  BY HeadTailProperties
<1>2. IsStrictSuffix(Tail(s), <<s[1]>> \o Tail(s))
  BY <1>1, EndsAlike
<1>3. QED
  BY <1>1, <1>2
-----------------------------------------------------------------------------
(* The count of a hunk *)

Modes == {"added", "removed", "any"}

\* Where the count of a side stands after the lines of a hunk.
Counted(hunk, mode) ==
  FoldLeft(LAMBDA s, line : count(mode, s, line),
           [at |-> IF mode = "removed" THEN hunk.old ELSE hunk.new, out |-> {}],
           hunk.content)

Longer(hunk, line) == [hunk EXCEPT !.content = Append(@, line)]

\* It is a fold of the turns of its side.
LEMMA CountedByTurns ==
  ASSUME NEW hunk
  PROVE  /\ Counted(hunk, "added") =
              CountsAdded!FoldLeft(CountAdded, [at |-> hunk.new, out |-> {}], hunk.content)
         /\ Counted(hunk, "removed") =
              CountsRemoved!FoldLeft(CountRemoved, [at |-> hunk.old, out |-> {}], hunk.content)
         /\ Counted(hunk, "any") =
              CountsAny!FoldLeft(CountAny, [at |-> hunk.new, out |-> {}], hunk.content)
<1>1. Counted(hunk, "added") =
        CountsAdded!FoldLeft(CountAdded, [at |-> hunk.new, out |-> {}], hunk.content)
  BY DEF Counted, CountAdded, FoldLeft, MapThenFoldSet, Max,
         CountsAdded!FoldLeft, CountsAdded!MapThenFoldSet, CountsAdded!Max
<1>2. Counted(hunk, "removed") =
        CountsRemoved!FoldLeft(CountRemoved, [at |-> hunk.old, out |-> {}], hunk.content)
  BY DEF Counted, CountRemoved, FoldLeft, MapThenFoldSet, Max,
         CountsRemoved!FoldLeft, CountsRemoved!MapThenFoldSet, CountsRemoved!Max
<1>3. Counted(hunk, "any") =
        CountsAny!FoldLeft(CountAny, [at |-> hunk.new, out |-> {}], hunk.content)
  BY DEF Counted, CountAny, FoldLeft, MapThenFoldSet, Max,
         CountsAny!FoldLeft, CountsAny!MapThenFoldSet, CountsAny!Max
<1>4. QED
  BY <1>1, <1>2, <1>3

LEMMA CountsOneMore ==
  ASSUME NEW hunk \in Hunk, NEW line \in Raw, NEW mode \in Modes
  PROVE  Counted(Longer(hunk, line), mode) = count(mode, Counted(hunk, mode), line)
<1> DEFINE longer == Longer(hunk, line)
<1>1. /\ longer.old = hunk.old /\ longer.new = hunk.new
      /\ longer.content = Append(hunk.content, line)
      /\ hunk.content \in Seq(Raw)
  BY DEF Hunk, Longer
<1> HIDE DEF longer
<1> DEFINE start == [at |-> hunk.new, out |-> {}]
           before == [at |-> hunk.old, out |-> {}]
<1>2. /\ Counted(hunk, "added") = CountsAdded!FoldLeft(CountAdded, start, hunk.content)
      /\ Counted(hunk, "removed") = CountsRemoved!FoldLeft(CountRemoved, before, hunk.content)
      /\ Counted(hunk, "any") = CountsAny!FoldLeft(CountAny, start, hunk.content)
  BY CountedByTurns
<1>3. /\ Counted(longer, "added") = CountsAdded!FoldLeft(CountAdded, start, longer.content)
      /\ Counted(longer, "removed") = CountsRemoved!FoldLeft(CountRemoved, before, longer.content)
      /\ Counted(longer, "any") = CountsAny!FoldLeft(CountAny, start, longer.content)
  BY <1>1, CountedByTurns
<1> HIDE DEF start, before
<1>4. Counted(longer, "added") = count("added", Counted(hunk, "added"), line)
  BY <1>1, <1>2, <1>3, CountsAdded!FoldLeftAppend DEF CountAdded
<1>5. Counted(longer, "removed") = count("removed", Counted(hunk, "removed"), line)
  BY <1>1, <1>2, <1>3, CountsRemoved!FoldLeftAppend DEF CountRemoved
<1>6. Counted(longer, "any") = count("any", Counted(hunk, "any"), line)
  BY <1>1, <1>2, <1>3, CountsAny!FoldLeftAppend DEF CountAny
<1>7. QED
  BY <1>4, <1>5, <1>6 DEF Modes, longer

\* The line that opens a hunk only says where the count begins.
LEMMA CountsNothing ==
  ASSUME NEW hunk \in Hunk, Len(hunk.content) = 1, hunk.content[1].is = "@@"
  PROVE  \A mode \in Modes :
           Counted(hunk, mode) = [at |-> IF mode = "removed" THEN hunk.old ELSE hunk.new, out |-> {}]
<1> DEFINE line == hunk.content[1]
           start == [at |-> hunk.new, out |-> {}]
           before == [at |-> hunk.old, out |-> {}]
<1>1. hunk.content \in Seq(Raw)
  BY DEF Hunk
<1>2. \A mode, s : count(mode, s, line) = s
  BY DEF count
<1>3. /\ Counted(hunk, "added") = CountsAdded!FoldLeft(CountAdded, start, hunk.content)
      /\ Counted(hunk, "removed") = CountsRemoved!FoldLeft(CountRemoved, before, hunk.content)
      /\ Counted(hunk, "any") = CountsAny!FoldLeft(CountAny, start, hunk.content)
  BY CountedByTurns
<1> HIDE DEF start, before, line
<1>4. Counted(hunk, "added") = start
  BY <1>1, <1>2, <1>3, CountsAdded!FoldLeftFew DEF CountAdded, line
<1>5. Counted(hunk, "removed") = before
  BY <1>1, <1>2, <1>3, CountsRemoved!FoldLeftFew DEF CountRemoved, line
<1>6. Counted(hunk, "any") = start
  BY <1>1, <1>2, <1>3, CountsAny!FoldLeftFew DEF CountAny, line
<1>7. QED
  BY <1>4, <1>5, <1>6 DEF Modes, start, before
-----------------------------------------------------------------------------
(* What the parser does with a line *)

LEMMA FlushesHunk ==
  ASSUME NEW p \in Parser
  PROVE  /\ flush_hunk(p) \in Parser
         /\ flush_hunk(p).files = p.files /\ flush_hunk(p).hunk = NoHunk
         /\ flush_hunk(p).file.path = p.file.path /\ flush_hunk(p).file.status = p.file.status
         /\ flush_hunk(p).file.hunks =
              IF p.hunk = NoHunk THEN p.file.hunks ELSE Append(p.file.hunks, p.hunk)
<1>1. NoHunk \in Hunk /\ p.file \in FileDiff /\ p.hunk \in Hunk /\ p.files \in Seq(FileDiff)
  BY DEF Parser, NoHunk, Hunk
<1>2. CASE p.hunk = NoHunk
  BY <1>2 DEF flush_hunk
<1>3. CASE p.hunk # NoHunk
  <2> DEFINE file == [p.file EXCEPT !.hunks = Append(@, p.hunk)]
             q == [files |-> p.files, file |-> file, hunk |-> NoHunk]
  <2>1. file \in FileDiff /\ file.path = p.file.path /\ file.status = p.file.status
        /\ file.hunks = Append(p.file.hunks, p.hunk)
    <3> DEFINE longer == Append(p.file.hunks, p.hunk)
    <3>1. longer \in Seq(Hunk)
      BY <1>1, AppendProperties DEF FileDiff
    <3> HIDE DEF longer
    <3>2. [p.file EXCEPT !.hunks = longer] \in FileDiff
      BY <1>1, <3>1 DEF FileDiff
    <3>3. QED
      BY <1>1, <3>2 DEF FileDiff, longer
  <2>2. flush_hunk(p) = q
    BY <1>1, <1>3 DEF flush_hunk, Parser
  <2> HIDE DEF file
  <2>3. QED
    BY <1>1, <1>3, <2>1, <2>2 DEF Parser
<1>4. QED
  BY <1>2, <1>3

LEMMA FileAppended ==
  ASSUME NEW p \in Parser, NEW x, NEW y
  PROVE  [p EXCEPT !.files = x, !.file = y] = [files |-> x, file |-> y, hunk |-> p.hunk]
<1> DEFINE q == [p EXCEPT !.files = x, !.file = y]
           r == [files |-> x, file |-> y, hunk |-> p.hunk]
           Fields == {"files", "file", "hunk"}
<1>1. p = [field \in Fields |-> p[field]]
  BY DEF Parser
<1>2. q = [field \in Fields |-> q[field]] /\ r = [field \in Fields |-> r[field]]
  BY <1>1
<1>3. q.files = r.files /\ q.file = r.file /\ q.hunk = r.hunk
  BY <1>1
<1> HIDE DEF q, r
<1>4. q = r
  BY <1>2, <1>3
<1>5. QED
  BY <1>4 DEF q, r

LEMMA FlushesFile ==
  ASSUME NEW p \in Parser, p.file # NoFile
  PROVE  /\ flush_file(p) \in Parser
         /\ flush_file(p).files = Append(p.files, flush_hunk(p).file)
         /\ flush_file(p).file = NoFile /\ flush_file(p).hunk = NoHunk
<1> DEFINE q == flush_hunk(p)
<1>1. q \in Parser /\ q.files = p.files /\ q.hunk = NoHunk
      /\ q.file.path = p.file.path /\ q.file.status = p.file.status
      /\ q.file.hunks = IF p.hunk = NoHunk THEN p.file.hunks ELSE Append(p.file.hunks, p.hunk)
  BY FlushesHunk
<1>2. p.file \in FileDiff /\ p.hunk \in Hunk /\ q.file \in FileDiff /\ NoFile \in FileDiff
  <2>1. <<>> \in Seq(STRING) /\ <<>> \in Seq(Hunk)
    OBVIOUS
  <2>2. NoFile \in FileDiff
    BY <2>1 DEF NoFile, FileDiff, NoPath, ReadPath, Status
  <2> HIDE DEF q
  <2>3. QED
    BY <1>1, <2>2 DEF Parser
<1>3. q.file # NoFile
  <2>1. p.hunk = NoHunk => q.file = p.file
    BY DEF flush_hunk
  <2>2. p.hunk # NoHunk => q.file.hunks # <<>>
    <3>1. Append(p.file.hunks, p.hunk) # <<>>
      BY <1>2, AppendProperties DEF FileDiff
    <3> HIDE DEF q
    <3>2. QED
      BY <1>1, <3>1
  <2>3. NoFile.hunks = <<>>
    BY DEF NoFile
  <2> HIDE DEF q
  <2>4. QED
    BY <2>1, <2>2, <2>3
<1> HIDE DEF q
<1>4. flush_file(p) = [q EXCEPT !.files = Append(@, q.file), !.file = NoFile]
  BY <1>3 DEF flush_file, q
<1>5. [q EXCEPT !.files = Append(@, q.file), !.file = NoFile]
        = [files |-> Append(q.files, q.file), file |-> NoFile, hunk |-> q.hunk]
  BY <1>1, FileAppended
<1>6. Append(q.files, q.file) \in Seq(FileDiff) /\ q.hunk \in Hunk
  BY <1>1, <1>2 DEF Parser
<1>7. flush_file(p) = [files |-> Append(q.files, q.file), file |-> NoFile, hunk |-> q.hunk]
  BY <1>4, <1>5
<1>8. flush_file(p) \in Parser
  BY <1>2, <1>6, <1>7 DEF Parser
<1>9. QED
  BY <1>1, <1>7, <1>8 DEF q

\* Before the first file there is nothing to append.
LEMMA FlushesNothing ==
  ASSUME NEW p \in Parser, p.file = NoFile, p.hunk = NoHunk
  PROVE  flush_file(p) = p
BY DEF flush_file, flush_hunk
\* A line that opens a file appends the one before it.
LEMMA ReadsDiff ==
  ASSUME NEW p \in Parser, p.file = NoFile => p.hunk = NoHunk,
         NEW line \in Raw, line.is = "diff"
  PROVE  /\ read(p, line) \in Parser
         /\ read(p, line).files =
              IF p.file = NoFile THEN p.files ELSE Append(p.files, flush_hunk(p).file)
         /\ read(p, line).file.path = line.path
         /\ read(p, line).file.status = "modified" /\ read(p, line).file.hunks = <<>>
         /\ read(p, line).hunk = NoHunk
<1> DEFINE q == flush_file(p)
           file == [NoFile EXCEPT !.path = line.path]
<1>1. /\ q \in Parser /\ q.hunk = NoHunk
      /\ q.files = IF p.file = NoFile THEN p.files ELSE Append(p.files, flush_hunk(p).file)
  BY FlushesFile, FlushesNothing
<1>2. /\ file.path = line.path /\ file.status = "modified" /\ file.hunks = <<>>
      /\ file \in FileDiff
  <2>1. <<>> \in Seq(Hunk) /\ line.path \in ReadPath
    BY DEF Raw
  <2>2. QED
    BY <2>1 DEF NoFile, FileDiff, Status
<1>3. read(p, line) = [q EXCEPT !.file = file]
  BY DEF read
<1> HIDE DEF q, file
<1>4. [q EXCEPT !.file = file] \in Parser
  BY <1>1, <1>2 DEF Parser
<1>5. /\ [q EXCEPT !.file = file].files = q.files
      /\ [q EXCEPT !.file = file].file = file
      /\ [q EXCEPT !.file = file].hunk = q.hunk
  BY <1>1 DEF Parser
<1>6. QED
  BY <1>1, <1>2, <1>3, <1>4, <1>5

\* The lines between the name of a file and its first hunk settle its status and
\* its path, and leave the rest of what is read alone.
LEMMA ReadsHeading ==
  ASSUME NEW p \in Parser, p.file # NoFile, p.hunk = NoHunk, NEW line \in Raw,
         line.is \in {"new file", "--- /dev/null", "deleted file", "+++ /dev/null", "+++ b/",
                      "+++", "---", "other"}
  PROVE  /\ read(p, line) \in Parser
         /\ read(p, line).files = p.files /\ read(p, line).hunk = NoHunk
         /\ read(p, line).file.hunks = p.file.hunks
         /\ read(p, line).file.path = IF line.is = "+++ b/" THEN line.path ELSE p.file.path
         /\ read(p, line).file.status =
              IF line.is \in {"new file", "--- /dev/null"} THEN "added"
              ELSE IF line.is \in {"deleted file", "+++ /dev/null"} THEN "deleted"
              ELSE p.file.status
<1>1. p.file \in FileDiff /\ line.path \in ReadPath /\ {"added", "deleted"} \subseteq Status
  BY DEF Parser, Raw, Status
<1>2. ASSUME NEW status \in Status
      PROVE  /\ [p EXCEPT !.file.status = status] \in Parser
             /\ [p EXCEPT !.file.status = status].files = p.files
             /\ [p EXCEPT !.file.status = status].hunk = p.hunk
             /\ [p EXCEPT !.file.status = status].file = [p.file EXCEPT !.status = status]
  <2>1. [p.file EXCEPT !.status = status] \in FileDiff
    BY <1>1, <1>2 DEF FileDiff
  <2>2. QED
    BY <2>1 DEF Parser
<1>3. /\ [p EXCEPT !.file.path = line.path] \in Parser
      /\ [p EXCEPT !.file.path = line.path].files = p.files
      /\ [p EXCEPT !.file.path = line.path].hunk = p.hunk
      /\ [p EXCEPT !.file.path = line.path].file = [p.file EXCEPT !.path = line.path]
  <2>1. [p.file EXCEPT !.path = line.path] \in FileDiff
    BY <1>1 DEF FileDiff
  <2>2. QED
    BY <2>1 DEF Parser
<1>4. ASSUME NEW status \in Status
      PROVE  /\ [p.file EXCEPT !.status = status].hunks = p.file.hunks
             /\ [p.file EXCEPT !.status = status].path = p.file.path
             /\ [p.file EXCEPT !.status = status].status = status
  BY <1>1 DEF FileDiff
<1>5. /\ [p.file EXCEPT !.path = line.path].hunks = p.file.hunks
      /\ [p.file EXCEPT !.path = line.path].status = p.file.status
      /\ [p.file EXCEPT !.path = line.path].path = line.path
  BY <1>1 DEF FileDiff
<1>6. CASE line.is \in {"new file", "--- /dev/null"}
  <2>1. read(p, line) = [p EXCEPT !.file.status = "added"]
    BY <1>6 DEF read
  <2> DEFINE r == [p EXCEPT !.file.status = "added"]
  <2>2. /\ r \in Parser /\ r.files = p.files /\ r.hunk = p.hunk
        /\ r.file.hunks = p.file.hunks /\ r.file.path = p.file.path /\ r.file.status = "added"
    <3> HIDE DEF r
    <3>1. r \in Parser /\ r.files = p.files /\ r.hunk = p.hunk
          /\ r.file = [p.file EXCEPT !.status = "added"]
      BY <1>1, <1>2 DEF r
    <3>2. QED
      BY <1>1, <1>4, <3>1
  <2> HIDE DEF r
  <2>3. QED
    BY <1>6, <2>1, <2>2 DEF r
<1>7. CASE line.is \in {"deleted file", "+++ /dev/null"}
  <2>1. read(p, line) = [p EXCEPT !.file.status = "deleted"]
    BY <1>7 DEF read
  <2> DEFINE r == [p EXCEPT !.file.status = "deleted"]
  <2>2. /\ r \in Parser /\ r.files = p.files /\ r.hunk = p.hunk
        /\ r.file.hunks = p.file.hunks /\ r.file.path = p.file.path /\ r.file.status = "deleted"
    <3> HIDE DEF r
    <3>1. r \in Parser /\ r.files = p.files /\ r.hunk = p.hunk
          /\ r.file = [p.file EXCEPT !.status = "deleted"]
      BY <1>1, <1>2 DEF r
    <3>2. QED
      BY <1>1, <1>4, <3>1
  <2> HIDE DEF r
  <2>3. QED
    BY <1>7, <2>1, <2>2 DEF r
<1>8. CASE line.is = "+++ b/"
  <2>1. read(p, line) = [p EXCEPT !.file.path = line.path]
    BY <1>8 DEF read
  <2>2. QED
    BY <1>3, <1>5, <1>8, <2>1
<1>9. CASE line.is \in {"+++", "---", "other"}
  <2>1. read(p, line) = p
    BY <1>9 DEF read
  <2>2. QED
    BY <1>9, <2>1
<1>10. QED
  BY <1>6, <1>7, <1>8, <1>9

\* A line that opens a hunk appends the one before it to its file.
LEMMA ReadsHunk ==
  ASSUME NEW p \in Parser, p.file # NoFile, NEW line \in Raw, line.is = "@@"
  PROVE  /\ read(p, line) \in Parser
         /\ read(p, line).files = p.files
         /\ read(p, line).file = flush_hunk(p).file
         /\ read(p, line).hunk = [old |-> line.old, new |-> line.new, content |-> <<line>>]
<1> DEFINE q == flush_hunk(p)
           hunk == [old |-> line.old, new |-> line.new, content |-> <<line>>]
<1>1. q \in Parser /\ q.files = p.files
  BY FlushesHunk
<1>2. hunk \in Hunk
  BY DEF Hunk, Raw
<1>3. read(p, line) = [q EXCEPT !.hunk = hunk]
  BY DEF read
<1> HIDE DEF q, hunk
<1>4. [q EXCEPT !.hunk = hunk] \in Parser
  BY <1>1, <1>2 DEF Parser
<1>5. /\ [q EXCEPT !.hunk = hunk].files = q.files
      /\ [q EXCEPT !.hunk = hunk].file = q.file
      /\ [q EXCEPT !.hunk = hunk].hunk = hunk
  BY <1>1 DEF Parser
<1>6. QED
  BY <1>1, <1>3, <1>4, <1>5 DEF q, hunk

\* Any other line of a hunk is added to it.
LEMMA ReadsBody ==
  ASSUME NEW p \in Parser, p.file # NoFile, p.hunk # NoHunk, NEW line \in Raw,
         line.is \in Sign \cup {"+++", "---", "other"}
  PROVE  /\ read(p, line) \in Parser
         /\ read(p, line).files = p.files /\ read(p, line).file = p.file
         /\ read(p, line).hunk = Longer(p.hunk, line)
         /\ Longer(p.hunk, line) \in Hunk /\ Longer(p.hunk, line) # NoHunk
<1>1. p.hunk \in Hunk
  BY DEF Parser
<1> DEFINE content == Append(p.hunk.content, line)
<1>2. content \in Seq(Raw) /\ Len(content) > 0
  BY <1>1, AppendProperties DEF Hunk
<1>3. Longer(p.hunk, line) \in Hunk /\ Longer(p.hunk, line).content = content
  <2> HIDE DEF content
  <2>1. [p.hunk EXCEPT !.content = content] \in Hunk
        /\ [p.hunk EXCEPT !.content = content].content = content
    BY <1>1, <1>2 DEF Hunk
  <2>2. QED
    BY <2>1 DEF Longer, content
<1>4. Longer(p.hunk, line) # NoHunk
  <2>1. content # NoHunk.content
    <3>1. NoHunk.content = <<>> /\ Len(<<>>) = 0
      BY DEF NoHunk
    <3> HIDE DEF content
    <3>2. QED
      BY <1>2, <3>1
  <2> HIDE DEF content
  <2>2. QED
    BY <1>3, <2>1
<1>5. read(p, line) = [p EXCEPT !.hunk = Longer(p.hunk, line)]
  <2>1. line.is \notin {"diff", "new file", "--- /dev/null", "deleted file", "+++ /dev/null",
                        "+++ b/", "@@"}
    BY DEF Sign
  <2>2. read(p, line) = [p EXCEPT !.hunk.content = Append(@, line)]
    BY <2>1 DEF read
  <2>3. QED
    BY <2>2 DEF Longer, Parser
<1>6. QED
  BY <1>3, <1>4, <1>5 DEF Parser
-----------------------------------------------------------------------------
(* The invariant: what has been read of what has been written *)

TruthFile == [path : Paths, status : Status, added : SUBSET Nat, removed : SUBSET Nat,
              context : SUBSET Nat, plain : BOOLEAN]

DiffTypes ==
  /\ truth \in Seq(TruthFile)
  /\ old \in Nat /\ new \in Nat
  /\ parser \in Parser

\* A path is written once, and a side that a file lacks has no lines.
TruthFits ==
  /\ last = "start" <=> truth = <<>>
  /\ \A i, j \in DOMAIN truth : truth[i].path = truth[j].path => i = j
  /\ \A i \in DOMAIN truth :
       /\ truth[i].status # "modified" => truth[i].context = {}
       /\ truth[i].status = "added" => truth[i].removed = {}
       /\ truth[i].status = "deleted" => truth[i].added = {}

HoldsFile(f, t) == f.path = [name |-> t.path, tab |-> FALSE] /\ f.status = t.status

\* Every file but the last has been appended, and the last is being read.
FilesFit ==
  /\ truth = <<>> => parser.files = <<>> /\ parser.file = NoFile
  /\ truth # <<>> => Len(truth) = Len(parser.files) + 1 /\ HoldsFile(parser.file, Current)
  /\ \A i \in DOMAIN parser.files : HoldsFile(parser.files[i], truth[i])
  /\ parser.hunk = NoHunk <=> last \in {"start", "file"}

HoldsNumbers(f, t) ==
  t.plain => /\ NumbersOf(f, "added") = t.added
             /\ NumbersOf(f, "removed") = t.removed
             /\ NumbersOf(f, "any") = t.added \cup t.context

\* The lines read so far have their numbers, and in the hunk being read the
\* count stands where git does, on every side the file has.
NumbersFit ==
  /\ \A i \in DOMAIN parser.files : HoldsNumbers(parser.files[i], truth[i])
  /\ truth # <<>> => HoldsNumbers(flush_hunk(parser).file, Current)
  /\ truth # <<>> /\ Current.plain /\ parser.hunk # NoHunk =>
       /\ Current.status # "deleted" =>
            Counted(parser.hunk, "added").at = new /\ Counted(parser.hunk, "any").at = new
       /\ Current.status # "added" => Counted(parser.hunk, "removed").at = old

DiffInv == DiffTypes /\ TruthFits /\ FilesFit /\ NumbersFit

-----------------------------------------------------------------------------
(* What the lines of an action make of the parser and of the truth *)

\* A file that is being read has a name.
LEMMA FileInHand ==
  ASSUME DiffTypes, FilesFit, truth # <<>>
  PROVE  Current \in TruthFile /\ parser.file # NoFile
<1>1. Current \in TruthFile
  BY DEF DiffTypes, Current
<1>2. Current.path # <<>>
  BY <1>1, DiffAssumption DEF TruthFile
<1>3. parser.file.path = [name |-> Current.path, tab |-> FALSE]
  BY DEF FilesFit, HoldsFile
<1>4. NoFile.path.name = <<>>
  BY DEF NoFile, NoPath
<1>5. QED
  BY <1>1, <1>2, <1>3, <1>4

LEMMA PlainLines ==
  \A is \in RawKind : Line(is) \in Raw /\ Line(is).is = is
<1>1. <<>> \in Seq(STRING)
  OBVIOUS
<1>2. QED
  BY <1>1 DEF Line, Raw, NoPath, ReadPath

LEMMA NamedLines ==
  ASSUME PlainPaths, NEW p \in Paths, NEW is \in RawKind, NEW otherwise
  PROVE  /\ Named(is, p, otherwise) \in Raw /\ Named(is, p, otherwise).is = is
         /\ Named(is, p, otherwise).path = [name |-> p, tab |-> FALSE]
<1>1. p \in Seq(STRING)
  BY DiffAssumption
<1>2. Named(is, p, otherwise) = [Line(is) EXCEPT !.path = [name |-> p, tab |-> FALSE]]
  BY DEF PlainPaths, Named
<1> DEFINE line == Line(is)
           path == [name |-> p, tab |-> FALSE]
<1>3. line \in Raw /\ line.is = is /\ path \in ReadPath
  BY <1>1, PlainLines DEF ReadPath
<1> HIDE DEF line, path
<1>4. /\ [line EXCEPT !.path = path] \in Raw /\ [line EXCEPT !.path = path].is = is
      /\ [line EXCEPT !.path = path].path = path
  BY <1>3 DEF Raw
<1>5. QED
  BY <1>2, <1>4 DEF line, path

\* The last file of the truth changes, and no other.
LEMMA CurrentChanges ==
  ASSUME DiffTypes, truth # <<>>, NEW t \in TruthFile,
         truth' = [truth EXCEPT ![Len(truth)] = t]
  PROVE  /\ truth' \in Seq(TruthFile) /\ Len(truth') = Len(truth) /\ truth' # <<>>
         /\ Current' = t
         /\ \A i \in 1..(Len(truth) - 1) : truth'[i] = truth[i]
<1>1. Len(truth) \in Nat \ {0} /\ truth \in Seq(TruthFile)
  BY EmptySeq DEF DiffTypes
<1>2. Len(truth) \in 1..Len(truth)
  BY <1>1
<1>3. /\ truth' \in Seq(TruthFile) /\ Len(truth') = Len(truth)
      /\ \A j \in 1..Len(truth) : truth'[j] = IF j = Len(truth) THEN t ELSE truth[j]
  BY <1>1, <1>2, ExceptSeq
<1>4. Current' = truth'[Len(truth')]
  BY DEF Current
<1>5. Len(<<>>) = 0
  OBVIOUS
<1>6. truth' # <<>>
  BY <1>1, <1>3, <1>5
<1>7. Current' = t
  BY <1>2, <1>3, <1>4
<1>8. ASSUME NEW i \in 1..(Len(truth) - 1) PROVE truth'[i] = truth[i]
  <2>1. i \in 1..Len(truth) /\ i # Len(truth)
    BY <1>1
  <2>2. QED
    BY <1>3, <2>1
<1>9. QED
  BY <1>3, <1>6, <1>7, <1>8
-----------------------------------------------------------------------------
(* The numbers a hunk adds to its file *)

LEMMA HunkNumbers == ASSUME NEW hunk, NEW mode PROVE iter_hunk_lines(hunk, mode) = Counted(hunk, mode).out
BY DEF iter_hunk_lines, Counted

LEMMA FlushedNumbers ==
  ASSUME NEW p \in Parser, NEW mode
  PROVE  NumbersOf(flush_hunk(p).file, mode) =
           NumbersOf(p.file, mode) \cup (IF p.hunk = NoHunk THEN {} ELSE Counted(p.hunk, mode).out)
<1> DEFINE hunks == p.file.hunks
           longer == Append(hunks, p.hunk)
<1>1. hunks \in Seq(Hunk) /\ p.hunk \in Hunk
  BY DEF Parser, FileDiff
<1>2. flush_hunk(p).file.hunks = IF p.hunk = NoHunk THEN hunks ELSE longer
  BY FlushesHunk
<1>3. CASE p.hunk = NoHunk
  BY <1>2, <1>3 DEF NumbersOf
<1>4. CASE p.hunk # NoHunk
  <2> DEFINE n == Len(hunks)
  <2>1. /\ DOMAIN hunks = 1..n /\ DOMAIN longer = 1..(n + 1) /\ n \in Nat
        /\ \A i \in 1..n : longer[i] = hunks[i]
        /\ longer[n + 1] = p.hunk
    BY <1>1, AppendProperties, LenProperties
  <2> HIDE DEF hunks, longer, n
  <2> DEFINE Of(h) == iter_hunk_lines(h, mode)
  <2> HIDE DEF Of
  <2>2. UNION {Of(longer[i]) : i \in 1..(n + 1)} = (UNION {Of(hunks[i]) : i \in 1..n}) \cup Of(p.hunk)
    <3>1. 1..(n + 1) = 1..n \cup {n + 1}
      BY <2>1
    <3>2. UNION {Of(longer[i]) : i \in 1..(n + 1)}
            = (UNION {Of(longer[i]) : i \in 1..n}) \cup Of(longer[n + 1])
      BY <3>1
    <3>3. {Of(longer[i]) : i \in 1..n} = {Of(hunks[i]) : i \in 1..n}
      BY <2>1
    <3>4. QED
      BY <2>1, <3>2, <3>3
  <2>3. NumbersOf(flush_hunk(p).file, mode) = UNION {Of(longer[i]) : i \in 1..(n + 1)}
    BY <1>2, <1>4, <2>1 DEF NumbersOf, Of
  <2>4. NumbersOf(p.file, mode) = UNION {Of(hunks[i]) : i \in 1..n}
    BY <2>1 DEF NumbersOf, Of, hunks
  <2>5. Of(p.hunk) = Counted(p.hunk, mode).out
    BY HunkNumbers DEF Of
  <2>6. QED
    BY <1>4, <2>2, <2>3, <2>4, <2>5
<1>5. QED
  BY <1>3, <1>4

\* Whose number a line has, and which counts it advances.
Gains(mode, is) == CASE mode = "added" -> is = "+" [] mode = "removed" -> is = "-" [] mode = "any" -> is # "-"
Advances(mode, is) == IF mode = "removed" THEN is # "+" ELSE is # "-"

\* A plain line more gives its file the number its side has reached.
LEMMA LineNumbered ==
  ASSUME NEW p \in Parser, p.hunk # NoHunk, NEW q \in Parser, q.file = p.file,
         NEW line \in Raw, line.is \in Sign, q.hunk = Longer(p.hunk, line), q.hunk # NoHunk,
         NEW mode \in Modes
  PROVE  /\ NumbersOf(flush_hunk(q).file, mode) = NumbersOf(flush_hunk(p).file, mode)
              \cup (IF Gains(mode, line.is) THEN {Counted(p.hunk, mode).at} ELSE {})
         /\ Counted(q.hunk, mode).at =
              IF Advances(mode, line.is) THEN Counted(p.hunk, mode).at + 1
              ELSE Counted(p.hunk, mode).at
<1> DEFINE s == Counted(p.hunk, mode)
<1>1. Counted(q.hunk, mode) = count(mode, s, line)
  BY CountsOneMore DEF Parser
<1> HIDE DEF s
<1>2. /\ count(mode, s, line).out = s.out \cup (IF Gains(mode, line.is) THEN {s.at} ELSE {})
      /\ count(mode, s, line).at = IF Advances(mode, line.is) THEN s.at + 1 ELSE s.at
  <2>1. CASE line.is = "+"
    BY <2>1 DEF count, Gains, Advances, Modes
  <2>2. CASE line.is = "-"
    BY <2>2 DEF count, Gains, Advances, Modes
  <2>3. CASE line.is = " "
    BY <2>3 DEF count, Gains, Advances, Modes
  <2>4. QED
    BY <2>1, <2>2, <2>3 DEF Sign
<1>3. NumbersOf(flush_hunk(p).file, mode) = NumbersOf(p.file, mode) \cup s.out
  BY FlushedNumbers DEF s
<1>4. NumbersOf(flush_hunk(q).file, mode) = NumbersOf(p.file, mode) \cup Counted(q.hunk, mode).out
  BY FlushedNumbers
<1>5. QED
  BY <1>1, <1>2, <1>3, <1>4 DEF s

\* A file without hunks has no numbers.
LEMMA NoNumbers == ASSUME NEW file, file.hunks = <<>>, NEW mode PROVE NumbersOf(file, mode) = {}
BY DEF NumbersOf
-----------------------------------------------------------------------------
(* The lines of a hunk *)

BodyKind == Sign \cup {"+++", "---", "other"}

LEMMA BodyRead ==
  ASSUME DiffTypes, FilesFit, truth # <<>>, parser.hunk # NoHunk,
         NEW lines \in Seq(Raw), Len(lines) \in {1, 2},
         \A i \in DOMAIN lines : lines[i].is \in BodyKind,
         parser' = FoldLeft(read, parser, lines)
  PROVE  /\ parser' \in Parser /\ parser'.files = parser.files /\ parser'.file = parser.file
         /\ parser'.hunk # NoHunk
         /\ Len(lines) = 1 => parser'.hunk = Longer(parser.hunk, lines[1])
<1> DEFINE first == read(parser, lines[1])
           second == read(first, lines[2])
<1>1. parser \in Parser /\ parser.file # NoFile
  BY FileInHand DEF DiffTypes
<1>2. lines[1] \in Raw /\ lines[1].is \in BodyKind
  BY LenProperties
<1>3. /\ first \in Parser /\ first.files = parser.files /\ first.file = parser.file
      /\ first.hunk = Longer(parser.hunk, lines[1]) /\ first.hunk # NoHunk
  BY <1>1, <1>2, ReadsBody DEF BodyKind
<1>4. CASE Len(lines) = 1
  <2>1. parser' = first
    BY <1>4, ReadsFew
  <2> HIDE DEF first
  <2>2. QED
    BY <1>3, <2>1
<1>5. CASE Len(lines) = 2
  <2>1. lines[2] \in Raw /\ lines[2].is \in BodyKind
    <3>1. 2 \in 1..Len(lines) /\ DOMAIN lines = 1..Len(lines)
      BY <1>5, LenProperties
    <3>2. QED
      BY <3>1, ElementOfSeq
  <2>2. parser' = second
    BY <1>5, ReadsFew
  <2> HIDE DEF first
  <2>3. /\ second \in Parser /\ second.files = first.files /\ second.file = first.file
        /\ second.hunk # NoHunk
    BY <1>1, <1>3, <2>1, ReadsBody DEF BodyKind
  <2> HIDE DEF second
  <2>4. QED
    BY <1>3, <1>5, <2>2, <2>3
<1>6. QED
  BY <1>4, <1>5

\* What the numbers of the file being read come to, as the truth changes to t.
NumbersFollow(t) ==
  t.plain =>
    /\ HoldsNumbers(flush_hunk(parser').file, t)
    /\ t.status # "deleted" =>
         Counted(parser'.hunk, "added").at = new' /\ Counted(parser'.hunk, "any").at = new'
    /\ t.status # "added" => Counted(parser'.hunk, "removed").at = old'

\* Lines of a hunk leave the files and their names as they are.
LEMMA BodyKeeps ==
  ASSUME DiffInv, truth # <<>>, parser.hunk # NoHunk,
         NEW lines \in Seq(Raw), Len(lines) \in {1, 2},
         \A i \in DOMAIN lines : lines[i].is \in BodyKind,
         parser' = FoldLeft(read, parser, lines),
         NEW t \in TruthFile, t.path = Current.path, t.status = Current.status,
         t.status # "modified" => t.context = {},
         t.status = "added" => t.removed = {},
         t.status = "deleted" => t.added = {},
         truth' = [truth EXCEPT ![Len(truth)] = t],
         old' \in Nat, new' \in Nat, last' \notin {"start", "file"},
         NumbersFollow(t)
  PROVE  DiffInv'
<1> DEFINE n == Len(truth)
<1>1. DiffTypes /\ TruthFits /\ FilesFit /\ NumbersFit
  BY DEF DiffInv
<1>2. /\ parser' \in Parser /\ parser'.files = parser.files /\ parser'.file = parser.file
      /\ parser'.hunk # NoHunk
  BY <1>1, BodyRead
<1>3. /\ truth' \in Seq(TruthFile) /\ Len(truth') = n /\ truth' # <<>>
      /\ Current' = t
      /\ \A i \in 1..(n - 1) : truth'[i] = truth[i]
  BY <1>1, CurrentChanges
<1>4. /\ n \in Nat \ {0} /\ DOMAIN truth = 1..n /\ DOMAIN truth' = 1..n
      /\ Current = truth[n] /\ truth'[n] = t
  <2>1. n \in Nat \ {0} /\ DOMAIN truth = 1..n
    BY <1>1, EmptySeq, LenProperties DEF DiffTypes
  <2>2. DOMAIN truth' = 1..n
    BY <1>3, LenProperties
  <2>3. Current = truth[n] /\ Current' = truth'[Len(truth')]
    BY DEF Current
  <2>4. QED
    BY <1>3, <2>1, <2>2, <2>3
<1>5. DOMAIN parser.files = 1..(n - 1) /\ DOMAIN parser'.files = 1..(n - 1)
  <2>1. n = Len(parser.files) + 1 /\ parser.files \in Seq(FileDiff)
    BY <1>1 DEF FilesFit, DiffTypes, Parser
  <2>2. DOMAIN parser.files = 1..Len(parser.files) /\ Len(parser.files) \in Nat
    BY <2>1, LenProperties
  <2>3. QED
    BY <1>2, <2>1, <2>2
<1>6. DiffTypes'
  BY <1>2, <1>3 DEF DiffTypes
<1>7. TruthFits'
  <2>1. \A i \in 1..n : truth'[i].path = truth[i].path /\ truth'[i].status = truth[i].status
    <3>1. \A i \in 1..n : i \in 1..(n - 1) \/ i = n
      <4> HIDE DEF n
      <4>1. QED
        BY <1>4
    <3>2. QED
      BY <1>3, <1>4, <3>1
  <2>2. \A i, j \in 1..n : truth'[i].path = truth'[j].path => i = j
    BY <1>1, <1>4, <2>1 DEF TruthFits
  <2>3. ASSUME NEW i \in 1..n
        PROVE  /\ truth'[i].status # "modified" => truth'[i].context = {}
               /\ truth'[i].status = "added" => truth'[i].removed = {}
               /\ truth'[i].status = "deleted" => truth'[i].added = {}
    <3>1. CASE i = n
      BY <1>4, <3>1
    <3>2. CASE i # n
      <4>1. truth'[i] = truth[i]
        BY <1>3, <1>4, <3>2
      <4>2. QED
        BY <1>1, <1>4, <4>1 DEF TruthFits
    <3>3. QED
      BY <3>1, <3>2
  <2>4. QED
    BY <1>3, <1>4, <2>2, <2>3 DEF TruthFits
<1>8. FilesFit'
  <2>1. HoldsFile(parser'.file, Current')
    BY <1>1, <1>2, <1>3 DEF FilesFit, HoldsFile
  <2>2. Len(truth') = Len(parser'.files) + 1
    BY <1>1, <1>2, <1>3 DEF FilesFit
  <2>3. \A i \in DOMAIN parser'.files : HoldsFile(parser'.files[i], truth'[i])
    BY <1>1, <1>2, <1>3, <1>5 DEF FilesFit
  <2>4. QED
    BY <1>2, <1>3, <2>1, <2>2, <2>3 DEF FilesFit, HoldsFile
<1>9. NumbersFit'
  <2>1. \A i \in DOMAIN parser'.files : HoldsNumbers(parser'.files[i], truth'[i])
    BY <1>1, <1>2, <1>3, <1>5 DEF NumbersFit
  <2>2. t.plain => HoldsNumbers(flush_hunk(parser').file, t)
    BY DEF NumbersFollow
  <2>3. HoldsNumbers(flush_hunk(parser').file, t)
    BY <2>2 DEF HoldsNumbers
  <2>4. Current'.plain =>
          /\ Current'.status # "deleted" =>
               Counted(parser'.hunk, "added").at = new' /\ Counted(parser'.hunk, "any").at = new'
          /\ Current'.status # "added" => Counted(parser'.hunk, "removed").at = old'
    BY <1>3 DEF NumbersFollow
  <2>5. HoldsNumbers(flush_hunk(parser').file, Current')
    BY <1>3, <2>3
  <2>6. QED
    BY <2>1, <2>4, <2>5 DEF NumbersFit, HoldsNumbers
<1>10. QED
  BY <1>6, <1>7, <1>8, <1>9 DEF DiffInv
\* What a line written plainly adds on each side.
LEMMA PlainLineRead ==
  ASSUME DiffInv, truth # <<>>, parser.hunk # NoHunk, NEW sign \in Sign,
         parser' = FoldLeft(read, parser, <<Line(sign)>>), NEW mode \in Modes
  PROVE  /\ NumbersOf(flush_hunk(parser').file, mode) = NumbersOf(flush_hunk(parser).file, mode)
              \cup (IF Gains(mode, sign) THEN {Counted(parser.hunk, mode).at} ELSE {})
         /\ Counted(parser'.hunk, mode).at =
              IF Advances(mode, sign) THEN Counted(parser.hunk, mode).at + 1
              ELSE Counted(parser.hunk, mode).at
<1> DEFINE line == Line(sign)
           lines == <<line>>
<1>1. line \in Raw /\ line.is = sign /\ sign \in BodyKind
  BY PlainLines DEF RawKind, BodyKind
<1> HIDE DEF line
<1>2. lines \in Seq(Raw) /\ Len(lines) = 1 /\ DOMAIN lines = {1} /\ lines[1] = line
  BY <1>1
<1>3. parser' = FoldLeft(read, parser, lines)
  BY DEF line
<1> HIDE DEF lines
<1>4. DiffTypes /\ FilesFit /\ parser \in Parser
  BY DEF DiffInv, DiffTypes
<1>5. /\ parser' \in Parser /\ parser'.file = parser.file
      /\ parser'.hunk # NoHunk /\ parser'.hunk = Longer(parser.hunk, line)
  BY <1>1, <1>2, <1>3, <1>4, BodyRead
<1> DEFINE p == parser
           q == parser'
<1>6. /\ p \in Parser /\ p.hunk # NoHunk /\ q \in Parser /\ q.file = p.file
      /\ q.hunk = Longer(p.hunk, line) /\ q.hunk # NoHunk
  BY <1>4, <1>5
<1>7. line.is \in Sign
  BY <1>1
<1> HIDE DEF p, q
<1>8. /\ NumbersOf(flush_hunk(q).file, mode) = NumbersOf(flush_hunk(p).file, mode)
           \cup (IF Gains(mode, line.is) THEN {Counted(p.hunk, mode).at} ELSE {})
      /\ Counted(q.hunk, mode).at =
           IF Advances(mode, line.is) THEN Counted(p.hunk, mode).at + 1
           ELSE Counted(p.hunk, mode).at
  BY <1>1, <1>6, <1>7, LineNumbered
<1>9. QED
  BY <1>1, <1>8 DEF p, q

\* Inside a hunk there is a file, and a hunk of it.
LEMMA InHunk ==
  ASSUME DiffInv, last \notin {"start", "file"}
  PROVE  truth # <<>> /\ parser.hunk # NoHunk /\ Current \in TruthFile
<1>1. truth # <<>> /\ parser.hunk # NoHunk
  BY DEF DiffInv, TruthFits, FilesFit
<1>2. QED
  BY <1>1, FileInHand DEF DiffInv

LEMMA NumbersSoFar ==
  ASSUME DiffInv, truth # <<>>, parser.hunk # NoHunk, Current.plain
  PROVE  /\ NumbersOf(flush_hunk(parser).file, "added") = Current.added
         /\ NumbersOf(flush_hunk(parser).file, "removed") = Current.removed
         /\ NumbersOf(flush_hunk(parser).file, "any") = Current.added \cup Current.context
         /\ Current.status # "deleted" =>
              Counted(parser.hunk, "added").at = new /\ Counted(parser.hunk, "any").at = new
         /\ Current.status # "added" => Counted(parser.hunk, "removed").at = old
BY DEF DiffInv, NumbersFit, HoldsNumbers

\* A side that a file lacks has no lines.
LEMMA SidesFit ==
  ASSUME DiffInv, truth # <<>>
  PROVE  /\ Current.status # "modified" => Current.context = {}
         /\ Current.status = "added" => Current.removed = {}
         /\ Current.status = "deleted" => Current.added = {}
<1>1. Len(truth) \in DOMAIN truth
  BY EmptySeq, LenProperties DEF DiffInv, DiffTypes
<1>2. QED
  BY <1>1 DEF DiffInv, TruthFits, Current

LEMMA ContextKeeps == DiffInv /\ WriteContext => DiffInv'
<1> SUFFICES ASSUME DiffInv, WriteContext PROVE DiffInv'
  OBVIOUS
<1> DEFINE t == [Current EXCEPT !.context = @ \cup {new}]
           line == Line(" ")
           lines == <<line>>
<1>1. last \notin {"start", "file"} /\ Current.status = "modified"
  BY DEF WriteContext, InsideHunk, Sign
<1>2. truth # <<>> /\ parser.hunk # NoHunk /\ Current \in TruthFile /\ old \in Nat /\ new \in Nat
  BY <1>1, InHunk DEF DiffInv, DiffTypes
<1>3. /\ t \in TruthFile /\ t.path = Current.path /\ t.status = "modified"
      /\ t.added = Current.added /\ t.removed = Current.removed /\ t.plain = Current.plain
      /\ t.context = Current.context \cup {new}
  BY <1>1, <1>2 DEF TruthFile
<1>4. line \in Raw /\ line.is \in BodyKind
  BY PlainLines DEF RawKind, BodyKind, Sign
<1> HIDE DEF line
<1>5. lines \in Seq(Raw) /\ Len(lines) \in {1, 2} /\ \A i \in DOMAIN lines : lines[i].is \in BodyKind
  BY <1>4
<1>6. parser' = FoldLeft(read, parser, lines) /\ last' = " "
  BY DEF WriteContext, Emit, line
<1>7. truth' = [truth EXCEPT ![Len(truth)] = t] /\ old' = old + 1 /\ new' = new + 1
  BY DEF WriteContext, Current
<1> HIDE DEF t
<1>8. NumbersFollow(t)
  <2> SUFFICES ASSUME t.plain
               PROVE  /\ HoldsNumbers(flush_hunk(parser').file, t)
                      /\ Counted(parser'.hunk, "added").at = new' /\ Counted(parser'.hunk, "any").at = new'
                      /\ Counted(parser'.hunk, "removed").at = old'
    BY <1>3 DEF NumbersFollow
  <2>1. /\ NumbersOf(flush_hunk(parser).file, "added") = Current.added
        /\ NumbersOf(flush_hunk(parser).file, "removed") = Current.removed
        /\ NumbersOf(flush_hunk(parser).file, "any") = Current.added \cup Current.context
        /\ Counted(parser.hunk, "added").at = new /\ Counted(parser.hunk, "any").at = new
        /\ Counted(parser.hunk, "removed").at = old
    BY <1>1, <1>2, <1>3, NumbersSoFar
  <2>2. ASSUME NEW mode \in Modes
        PROVE  /\ NumbersOf(flush_hunk(parser').file, mode) = NumbersOf(flush_hunk(parser).file, mode)
                    \cup (IF Gains(mode, " ") THEN {Counted(parser.hunk, mode).at} ELSE {})
               /\ Counted(parser'.hunk, mode).at =
                    IF Advances(mode, " ") THEN Counted(parser.hunk, mode).at + 1
                    ELSE Counted(parser.hunk, mode).at
    <3>1. " " \in Sign /\ parser' = FoldLeft(read, parser, <<Line(" ")>>)
      BY <1>6 DEF Sign, line
    <3>2. QED
      BY <1>2, <3>1, PlainLineRead
  <2>3. /\ NumbersOf(flush_hunk(parser').file, "added") = Current.added
        /\ NumbersOf(flush_hunk(parser').file, "removed") = Current.removed
        /\ NumbersOf(flush_hunk(parser').file, "any") = Current.added \cup Current.context \cup {new}
        /\ Counted(parser'.hunk, "added").at = new + 1 /\ Counted(parser'.hunk, "any").at = new + 1
        /\ Counted(parser'.hunk, "removed").at = old + 1
    BY <2>1, <2>2 DEF Modes, Gains, Advances
  <2>4. QED
    BY <1>3, <1>7, <2>3 DEF HoldsNumbers
<1> HIDE DEF lines
<1>9. old' \in Nat /\ new' \in Nat /\ last' \notin {"start", "file"}
  <2>1. old + 1 \in Nat /\ new + 1 \in Nat
    BY <1>2
  <2>2. QED
    BY <1>6, <1>7, <2>1
<1>10. QED
  BY <1>1, <1>2, <1>3, <1>5, <1>6, <1>7, <1>8, <1>9, SidesFit, BodyKeeps
LEMMA BodyLines ==
  ASSUME NEW sign \in {"+", "-"}, NEW content \in Contents
  PROVE  /\ Body(sign, content) \in Seq(Raw) /\ Len(Body(sign, content)) \in {1, 2}
         /\ \A i \in DOMAIN Body(sign, content) : Body(sign, content)[i].is \in BodyKind
         /\ content = "text" => Body(sign, content) = <<Line(sign)>>
<1> DEFINE a == Line(sign)
           b == Line("other")
           c == Line(IF sign = "+" THEN "+++" ELSE "---")
<1>1. a \in Raw /\ b \in Raw /\ c \in Raw
  BY PlainLines DEF RawKind, Sign
<1>2. a.is \in BodyKind /\ b.is \in BodyKind /\ c.is \in BodyKind
  BY DEF Line, BodyKind, Sign
<1>3. content \in {"text", "marks", "feed"}
  BY DiffAssumption
<1>4. Body(sign, content) = IF content = "text" THEN <<a>> ELSE IF content = "marks" THEN <<c>> ELSE <<a, b>>
  BY <1>3 DEF Body
<1> HIDE DEF a, b, c
<1>5. /\ <<a>> \in Seq(Raw) /\ Len(<<a>>) = 1 /\ \A i \in DOMAIN <<a>> : <<a>>[i].is \in BodyKind
      /\ <<c>> \in Seq(Raw) /\ Len(<<c>>) = 1 /\ \A i \in DOMAIN <<c>> : <<c>>[i].is \in BodyKind
  BY <1>1, <1>2
<1>6. /\ <<a, b>> \in Seq(Raw) /\ Len(<<a, b>>) = 2
      /\ \A i \in DOMAIN <<a, b>> : <<a, b>>[i].is \in BodyKind
  BY <1>1, <1>2
<1>7. QED
  BY <1>4, <1>5, <1>6 DEF a

LEMMA RemovedKeeps ==
  ASSUME DiffInv, NEW content \in Contents, WriteRemoved(content)
  PROVE  DiffInv'
<1> DEFINE t == [Current EXCEPT !.removed = @ \cup {old}, !.plain = @ /\ content = "text"]
           lines == Body("-", content)
<1>1. last \notin {"start", "file"} /\ Current.status # "added"
  BY DEF WriteRemoved, InsideHunk, Sign
<1>2. truth # <<>> /\ parser.hunk # NoHunk /\ Current \in TruthFile /\ old \in Nat /\ new \in Nat
  BY <1>1, InHunk DEF DiffInv, DiffTypes
<1>3. /\ t \in TruthFile /\ t.path = Current.path /\ t.status = Current.status
      /\ t.added = Current.added /\ t.context = Current.context
      /\ t.removed = Current.removed \cup {old}
      /\ t.plain <=> (Current.plain /\ content = "text")
  BY <1>2 DEF TruthFile
<1>4. /\ lines \in Seq(Raw) /\ Len(lines) \in {1, 2} /\ \A i \in DOMAIN lines : lines[i].is \in BodyKind
      /\ content = "text" => lines = <<Line("-")>>
  BY BodyLines
<1> HIDE DEF lines
<1>5. parser' = FoldLeft(read, parser, lines) /\ last' = "-"
  BY DEF WriteRemoved, Emit, lines
<1>6. truth' = [truth EXCEPT ![Len(truth)] = t] /\ old' = old + 1 /\ new' = new
  BY DEF WriteRemoved, Current
<1> HIDE DEF t
<1>7. NumbersFollow(t)
  <2> SUFFICES ASSUME t.plain
               PROVE  /\ HoldsNumbers(flush_hunk(parser').file, t)
                      /\ t.status # "deleted" =>
                           Counted(parser'.hunk, "added").at = new' /\ Counted(parser'.hunk, "any").at = new'
                      /\ Counted(parser'.hunk, "removed").at = old'
    BY DEF NumbersFollow
  <2>1. /\ NumbersOf(flush_hunk(parser).file, "added") = Current.added
        /\ NumbersOf(flush_hunk(parser).file, "removed") = Current.removed
        /\ NumbersOf(flush_hunk(parser).file, "any") = Current.added \cup Current.context
        /\ t.status # "deleted" =>
             Counted(parser.hunk, "added").at = new /\ Counted(parser.hunk, "any").at = new
        /\ Counted(parser.hunk, "removed").at = old
    BY <1>1, <1>2, <1>3, NumbersSoFar
  <2>2. ASSUME NEW mode \in Modes
        PROVE  /\ NumbersOf(flush_hunk(parser').file, mode) = NumbersOf(flush_hunk(parser).file, mode)
                    \cup (IF Gains(mode, "-") THEN {Counted(parser.hunk, mode).at} ELSE {})
               /\ Counted(parser'.hunk, mode).at =
                    IF Advances(mode, "-") THEN Counted(parser.hunk, mode).at + 1
                    ELSE Counted(parser.hunk, mode).at
    <3>1. "-" \in Sign /\ parser' = FoldLeft(read, parser, <<Line("-")>>)
      BY <1>3, <1>4, <1>5 DEF Sign
    <3>2. QED
      BY <1>2, <3>1, PlainLineRead
  <2>3. /\ NumbersOf(flush_hunk(parser').file, "added") = Current.added
        /\ NumbersOf(flush_hunk(parser').file, "removed") = Current.removed \cup {old}
        /\ NumbersOf(flush_hunk(parser').file, "any") = Current.added \cup Current.context
        /\ t.status # "deleted" =>
             Counted(parser'.hunk, "added").at = new /\ Counted(parser'.hunk, "any").at = new
        /\ Counted(parser'.hunk, "removed").at = old + 1
    BY <2>1, <2>2 DEF Modes, Gains, Advances
  <2>4. QED
    BY <1>3, <1>6, <2>3 DEF HoldsNumbers
<1>8. old' \in Nat /\ new' \in Nat /\ last' \notin {"start", "file"}
  <2>1. old + 1 \in Nat
    BY <1>2
  <2>2. QED
    BY <1>2, <1>5, <1>6, <2>1
<1>9. /\ t.status # "modified" => t.context = {}
      /\ t.status = "added" => t.removed = {}
      /\ t.status = "deleted" => t.added = {}
  BY <1>1, <1>2, <1>3, SidesFit
<1>10. QED
  BY <1>2, <1>3, <1>4, <1>5, <1>6, <1>7, <1>8, <1>9, BodyKeeps

LEMMA AddedKeeps ==
  ASSUME DiffInv, NEW content \in Contents, WriteAdded(content)
  PROVE  DiffInv'
<1> DEFINE t == [Current EXCEPT !.added = @ \cup {new}, !.plain = @ /\ content = "text"]
           lines == Body("+", content)
<1>1. last \notin {"start", "file"} /\ Current.status # "deleted"
  BY DEF WriteAdded, InsideHunk, Sign
<1>2. truth # <<>> /\ parser.hunk # NoHunk /\ Current \in TruthFile /\ old \in Nat /\ new \in Nat
  BY <1>1, InHunk DEF DiffInv, DiffTypes
<1>3. /\ t \in TruthFile /\ t.path = Current.path /\ t.status = Current.status
      /\ t.removed = Current.removed /\ t.context = Current.context
      /\ t.added = Current.added \cup {new}
      /\ t.plain <=> (Current.plain /\ content = "text")
  BY <1>2 DEF TruthFile
<1>4. /\ lines \in Seq(Raw) /\ Len(lines) \in {1, 2} /\ \A i \in DOMAIN lines : lines[i].is \in BodyKind
      /\ content = "text" => lines = <<Line("+")>>
  BY BodyLines
<1> HIDE DEF lines
<1>5. parser' = FoldLeft(read, parser, lines) /\ last' = "+"
  BY DEF WriteAdded, Emit, lines
<1>6. truth' = [truth EXCEPT ![Len(truth)] = t] /\ new' = new + 1 /\ old' = old
  BY DEF WriteAdded, Current
<1> HIDE DEF t
<1>7. NumbersFollow(t)
  <2> SUFFICES ASSUME t.plain
               PROVE  /\ HoldsNumbers(flush_hunk(parser').file, t)
                      /\ Counted(parser'.hunk, "added").at = new' /\ Counted(parser'.hunk, "any").at = new'
                      /\ t.status # "added" => Counted(parser'.hunk, "removed").at = old'
    BY DEF NumbersFollow
  <2>1. /\ NumbersOf(flush_hunk(parser).file, "added") = Current.added
        /\ NumbersOf(flush_hunk(parser).file, "removed") = Current.removed
        /\ NumbersOf(flush_hunk(parser).file, "any") = Current.added \cup Current.context
        /\ Counted(parser.hunk, "added").at = new /\ Counted(parser.hunk, "any").at = new
        /\ t.status # "added" => Counted(parser.hunk, "removed").at = old
    BY <1>1, <1>2, <1>3, NumbersSoFar
  <2>2. ASSUME NEW mode \in Modes
        PROVE  /\ NumbersOf(flush_hunk(parser').file, mode) = NumbersOf(flush_hunk(parser).file, mode)
                    \cup (IF Gains(mode, "+") THEN {Counted(parser.hunk, mode).at} ELSE {})
               /\ Counted(parser'.hunk, mode).at =
                    IF Advances(mode, "+") THEN Counted(parser.hunk, mode).at + 1
                    ELSE Counted(parser.hunk, mode).at
    <3>1. "+" \in Sign /\ parser' = FoldLeft(read, parser, <<Line("+")>>)
      BY <1>3, <1>4, <1>5 DEF Sign
    <3>2. QED
      BY <1>2, <3>1, PlainLineRead
  <2>3. /\ NumbersOf(flush_hunk(parser').file, "added") = Current.added \cup {new}
        /\ NumbersOf(flush_hunk(parser').file, "removed") = Current.removed
        /\ NumbersOf(flush_hunk(parser').file, "any") = Current.added \cup Current.context \cup {new}
        /\ Counted(parser'.hunk, "added").at = new + 1 /\ Counted(parser'.hunk, "any").at = new + 1
        /\ t.status # "added" => Counted(parser'.hunk, "removed").at = old
    BY <2>1, <2>2 DEF Modes, Gains, Advances
  <2>4. QED
    BY <1>3, <1>6, <2>3 DEF HoldsNumbers
<1>8. old' \in Nat /\ new' \in Nat /\ last' \notin {"start", "file"}
  <2>1. new + 1 \in Nat
    BY <1>2
  <2>2. QED
    BY <1>2, <1>5, <1>6, <2>1
<1>9. /\ t.status # "modified" => t.context = {}
      /\ t.status = "added" => t.removed = {}
      /\ t.status = "deleted" => t.added = {}
  BY <1>1, <1>2, <1>3, SidesFit
<1>10. QED
  BY <1>2, <1>3, <1>4, <1>5, <1>6, <1>7, <1>8, <1>9, BodyKeeps

\* A file without its last newline is not plain: nothing is asked of its numbers.
LEMMA EofKeeps == DiffInv /\ WriteEof => DiffInv'
<1> SUFFICES ASSUME DiffInv, WriteEof PROVE DiffInv'
  OBVIOUS
<1> DEFINE t == [Current EXCEPT !.plain = FALSE]
           line == Line("other")
           lines == <<line>>
<1>1. last \notin {"start", "file"}
  BY DEF WriteEof, Sign
<1>2. truth # <<>> /\ parser.hunk # NoHunk /\ Current \in TruthFile /\ old \in Nat /\ new \in Nat
  BY <1>1, InHunk DEF DiffInv, DiffTypes
<1>3. /\ t \in TruthFile /\ t.path = Current.path /\ t.status = Current.status
      /\ t.added = Current.added /\ t.removed = Current.removed /\ t.context = Current.context
      /\ t.plain = FALSE
  BY <1>2 DEF TruthFile
<1>4. line \in Raw /\ line.is \in BodyKind
  BY PlainLines DEF RawKind, BodyKind
<1> HIDE DEF line
<1>5. lines \in Seq(Raw) /\ Len(lines) \in {1, 2} /\ \A i \in DOMAIN lines : lines[i].is \in BodyKind
  BY <1>4
<1>6. parser' = FoldLeft(read, parser, lines) /\ last' \in {"\\ -", "\\"}
  BY DEF WriteEof, Emit, line
<1>7. truth' = [truth EXCEPT ![Len(truth)] = t] /\ old' = old /\ new' = new
  BY DEF WriteEof, Current
<1> HIDE DEF t, lines
<1>8. NumbersFollow(t)
  BY <1>3 DEF NumbersFollow
<1>9. old' \in Nat /\ new' \in Nat /\ last' \notin {"start", "file"}
  BY <1>2, <1>6, <1>7
<1>10. /\ t.status # "modified" => t.context = {}
       /\ t.status = "added" => t.removed = {}
       /\ t.status = "deleted" => t.added = {}
  BY <1>2, <1>3, SidesFit
<1>11. QED
  BY <1>2, <1>3, <1>5, <1>6, <1>7, <1>8, <1>9, <1>10, BodyKeeps
-----------------------------------------------------------------------------
(* A file begins *)

LEMMA HeaderLines ==
  ASSUME PlainPaths, NEW p \in Paths, NEW status \in Status
  PROVE  LET lines == Header(p, status)
             second == IF status = "added" THEN "new file"
                       ELSE IF status = "deleted" THEN "deleted file" ELSE "other"
         IN /\ lines \in Seq(Raw)
            /\ lines[1].is = "diff" /\ lines[1].path = [name |-> p, tab |-> FALSE]
            /\ lines[2].is = second
            /\ Len(lines) = 2 \/ (Len(lines) = 3 /\ lines[3].is = "other")
<1> DEFINE a == Named("diff", p, "other")
           b == Line("new file")
           c == Line("deleted file")
           d == Line("other")
<1>1. a \in Raw /\ a.is = "diff" /\ a.path = [name |-> p, tab |-> FALSE]
  BY NamedLines DEF RawKind
<1>2. /\ b \in Raw /\ b.is = "new file" /\ c \in Raw /\ c.is = "deleted file"
      /\ d \in Raw /\ d.is = "other"
  BY PlainLines DEF RawKind
<1>3. /\ status = "added" => Header(p, status) = <<a>> \o <<b, d>>
      /\ status = "deleted" => Header(p, status) = <<a>> \o <<c, d>>
      /\ status = "modified" => Header(p, status) = <<a>> \o <<d>>
  BY DEF Header
<1> HIDE DEF a, b, c, d
<1>4. ASSUME NEW x \in Raw, NEW y \in Raw
      PROVE  /\ <<a>> \o <<x, y>> \in Seq(Raw) /\ Len(<<a>> \o <<x, y>>) = 3
             /\ (<<a>> \o <<x, y>>)[1] = a /\ (<<a>> \o <<x, y>>)[2] = x
             /\ (<<a>> \o <<x, y>>)[3] = y
  BY <1>1, <1>4
<1>5. ASSUME NEW x \in Raw
      PROVE  /\ <<a>> \o <<x>> \in Seq(Raw) /\ Len(<<a>> \o <<x>>) = 2
             /\ (<<a>> \o <<x>>)[1] = a /\ (<<a>> \o <<x>>)[2] = x
  <2> DEFINE left == <<a>>
             right == <<x>>
  <2>1. left \in Seq(Raw) /\ Len(left) = 1 /\ right \in Seq(Raw) /\ Len(right) = 1
        /\ left[1] = a /\ right[1] = x
    BY <1>1, <1>5
  <2> HIDE DEF left, right
  <2>2. /\ left \o right \in Seq(Raw) /\ Len(left \o right) = 2
        /\ (left \o right)[1] = left[1] /\ (left \o right)[2] = right[1]
    BY <2>1, ConcatProperties
  <2>3. QED
    BY <2>1, <2>2 DEF left, right
<1> DEFINE lines == Header(p, status)
           kind == IF status = "added" THEN "new file"
                   ELSE IF status = "deleted" THEN "deleted file" ELSE "other"
<1> SUFFICES /\ lines \in Seq(Raw)
             /\ lines[1] = a /\ lines[2].is = kind
             /\ Len(lines) = 2 \/ (Len(lines) = 3 /\ lines[3].is = "other")
  BY <1>1
<1> HIDE DEF lines
<1>6. CASE status = "added"
  <2>1. lines = <<a>> \o <<b, d>>
    BY <1>3, <1>6 DEF lines
  <2>2. lines \in Seq(Raw) /\ Len(lines) = 3 /\ lines[1] = a /\ lines[2] = b /\ lines[3] = d
    <3>1. b \in Raw /\ d \in Raw
      BY <1>2
    <3>2. QED
      BY <1>4, <2>1, <3>1
  <2>3. QED
    BY <1>2, <1>6, <2>2
<1>7. CASE status = "deleted"
  <2>1. lines = <<a>> \o <<c, d>>
    BY <1>3, <1>7 DEF lines
  <2>2. lines \in Seq(Raw) /\ Len(lines) = 3 /\ lines[1] = a /\ lines[2] = c /\ lines[3] = d
    <3>1. c \in Raw /\ d \in Raw
      BY <1>2
    <3>2. QED
      BY <1>4, <2>1, <3>1
  <2>3. QED
    BY <1>2, <1>7, <2>2
<1>8. CASE status = "modified"
  <2>1. lines = <<a>> \o <<d>>
    BY <1>3, <1>8 DEF lines
  <2>2. lines \in Seq(Raw) /\ Len(lines) = 2 /\ lines[1] = a /\ lines[2] = d
    BY <1>2, <1>5, <2>1
  <2>3. QED
    BY <1>2, <1>8, <2>2
<1>9. QED
  BY <1>6, <1>7, <1>8 DEF Status

LEMMA HeaderRead ==
  ASSUME PlainPaths, DiffTypes, TruthFits, FilesFit, NEW p \in Paths, NEW status \in Status,
         parser' = FoldLeft(read, parser, Header(p, status))
  PROVE  /\ parser' \in Parser
         /\ parser'.files = IF truth = <<>> THEN parser.files
                            ELSE Append(parser.files, flush_hunk(parser).file)
         /\ parser'.file.path = [name |-> p, tab |-> FALSE]
         /\ parser'.file.status = status /\ parser'.file.hunks = <<>>
         /\ parser'.hunk = NoHunk
<1> DEFINE lines == Header(p, status)
           kind == IF status = "added" THEN "new file"
                   ELSE IF status = "deleted" THEN "deleted file" ELSE "other"
<1>1. /\ lines \in Seq(Raw)
      /\ lines[1].is = "diff" /\ lines[1].path = [name |-> p, tab |-> FALSE]
      /\ lines[2].is = kind
      /\ Len(lines) = 2 \/ (Len(lines) = 3 /\ lines[3].is = "other")
  BY HeaderLines
<1>2. parser' = FoldLeft(read, parser, lines)
  OBVIOUS
<1> HIDE DEF lines, kind
<1>3. \A i \in 1..Len(lines) : lines[i] \in Raw
  BY <1>1, ElementOfSeq
<1>4. lines[1] \in Raw /\ lines[2] \in Raw /\ (Len(lines) = 3 => lines[3] \in Raw)
  <2>1. 1 \in 1..Len(lines) /\ 2 \in 1..Len(lines) /\ (Len(lines) = 3 => 3 \in 1..Len(lines))
    <3>1. Len(lines) \in {2, 3}
      BY <1>1
    <3>2. QED
      BY <3>1
  <2>2. QED
    BY <1>3, <2>1
<1> DEFINE first == read(parser, lines[1])
           second == read(first, lines[2])
           third == read(second, lines[3])
<1>5. /\ parser \in Parser
      /\ truth = <<>> <=> parser.file = NoFile
      /\ parser.file = NoFile => parser.hunk = NoHunk
  <2>1. truth # <<>> => parser.file # NoFile
    BY FileInHand
  <2>2. truth = <<>> => parser.file = NoFile /\ parser.hunk = NoHunk
    BY DEF FilesFit, TruthFits
  <2>3. QED
    BY <2>1, <2>2 DEF DiffTypes
<1>6. /\ first \in Parser /\ first.hunk = NoHunk
      /\ first.files = IF truth = <<>> THEN parser.files
                       ELSE Append(parser.files, flush_hunk(parser).file)
      /\ first.file.path = [name |-> p, tab |-> FALSE]
      /\ first.file.status = "modified" /\ first.file.hunks = <<>>
  BY <1>1, <1>4, <1>5, ReadsDiff
<1> HIDE DEF first
<1>7. p # <<>> /\ NoFile.path.name = <<>>
  BY DiffAssumption DEF NoFile, NoPath
<1>8. /\ second \in Parser /\ second.hunk = NoHunk /\ second.files = first.files
      /\ second.file.path = [name |-> p, tab |-> FALSE]
      /\ second.file.status = status /\ second.file.hunks = <<>>
  <2>1. first.file # NoFile
    BY <1>6, <1>7
  <2>2. kind \in {"new file", "deleted file", "other"}
    BY DEF kind
  <2>3. /\ second \in Parser /\ second.hunk = NoHunk /\ second.files = first.files
        /\ second.file.hunks = first.file.hunks
        /\ second.file.path = IF kind = "+++ b/" THEN lines[2].path ELSE first.file.path
        /\ second.file.status = IF kind \in {"new file", "--- /dev/null"} THEN "added"
                                ELSE IF kind \in {"deleted file", "+++ /dev/null"} THEN "deleted"
                                ELSE first.file.status
    BY <1>1, <1>4, <1>6, <2>1, <2>2, ReadsHeading
  <2> HIDE DEF second
  <2>4. second.file.status = status
    BY <1>6, <2>3 DEF kind, Status
  <2>5. second.file.path = [name |-> p, tab |-> FALSE]
    BY <1>6, <2>2, <2>3
  <2>6. QED
    BY <1>6, <2>3, <2>4, <2>5
<1>9. CASE Len(lines) = 2
  <2>1. parser' = second
    BY <1>1, <1>2, <1>9, ReadsFew DEF first
  <2> HIDE DEF second
  <2>2. QED
    BY <1>6, <1>8, <2>1
<1>10. CASE Len(lines) = 3
  <2>1. parser' = third
    BY <1>1, <1>2, <1>10, ReadsFew DEF first
  <2> HIDE DEF second
  <2>2. second.file # NoFile
    BY <1>7, <1>8
  <2>3. lines[3] \in Raw /\ lines[3].is = "other"
    BY <1>1, <1>4, <1>10
  <2>4. /\ third \in Parser /\ third.hunk = NoHunk /\ third.files = second.files
        /\ third.file.hunks = second.file.hunks /\ third.file.path = second.file.path
        /\ third.file.status = second.file.status
    BY <1>8, <2>2, <2>3, ReadsHeading
  <2> HIDE DEF third
  <2>5. QED
    BY <1>6, <1>8, <2>1, <2>4
<1>11. QED
  BY <1>1, <1>9, <1>10

\* The file before is complete; the new one has no lines yet.
LEMMA FileKeeps ==
  ASSUME PlainPaths, DiffInv, NEW p \in Paths, NEW status \in Status, WriteFile(p, status)
  PROVE  DiffInv'
<1> DEFINE n == Len(truth)
           t == [path |-> p, status |-> status,
                 added |-> {}, removed |-> {}, context |-> {}, plain |-> TRUE]
           done == flush_hunk(parser).file
<1>1. DiffTypes /\ TruthFits /\ FilesFit /\ NumbersFit
  BY DEF DiffInv
<1>2. /\ parser' \in Parser
      /\ parser'.files = IF truth = <<>> THEN parser.files ELSE Append(parser.files, done)
      /\ parser'.file.path = [name |-> p, tab |-> FALSE]
      /\ parser'.file.status = status /\ parser'.file.hunks = <<>>
      /\ parser'.hunk = NoHunk
  BY <1>1, HeaderRead DEF WriteFile, Emit
<1>3. /\ t \in TruthFile /\ t.path = p /\ t.status = status /\ t.plain
      /\ t.added = {} /\ t.removed = {} /\ t.context = {}
  BY DEF TruthFile
<1>4. /\ truth' = Append(truth, t) /\ last' = "file" /\ old' = 1 /\ new' = 1
      /\ \A i \in DOMAIN truth : truth[i].path # p
  BY DEF WriteFile, Emit, Changed
<1> HIDE DEF t
<1>5. truth \in Seq(TruthFile) /\ n \in Nat /\ DOMAIN truth = 1..n /\ (truth = <<>> <=> n = 0)
  BY <1>1, LenProperties, EmptySeq DEF DiffTypes
<1>6. /\ truth' \in Seq(TruthFile) /\ Len(truth') = n + 1 /\ DOMAIN truth' = 1..(n + 1)
      /\ \A i \in 1..n : truth'[i] = truth[i]
      /\ truth'[n + 1] = t
  <2>1. /\ Append(truth, t) \in Seq(TruthFile) /\ Len(Append(truth, t)) = n + 1
        /\ \A i \in 1..n : Append(truth, t)[i] = truth[i]
        /\ Append(truth, t)[n + 1] = t
    BY <1>3, <1>5, AppendProperties
  <2>2. DOMAIN Append(truth, t) = 1..(n + 1)
    BY <2>1, LenProperties
  <2>3. QED
    BY <1>4, <2>1, <2>2
<1>7. Current' = t /\ truth' # <<>>
  <2>1. Current' = truth'[Len(truth')]
    BY DEF Current
  <2>2. n + 1 # 0
    BY <1>5
  <2>3. truth' # <<>>
    BY <1>6, <2>2, EmptySeq
  <2>4. QED
    BY <1>6, <2>1, <2>3
\* What has been appended fits what was written.
<1>8. /\ Len(parser'.files) = n /\ DOMAIN parser'.files = 1..n
      /\ \A i \in 1..n : HoldsFile(parser'.files[i], truth[i]) /\ HoldsNumbers(parser'.files[i], truth[i])
  <2>1. parser.files \in Seq(FileDiff)
    BY <1>1 DEF DiffTypes, Parser
  <2>2. CASE truth = <<>>
    <3>1. parser'.files = <<>> /\ n = 0
      BY <1>1, <1>2, <1>5, <2>2 DEF FilesFit
    <3>2. DOMAIN <<>> = 1..0 /\ Len(<<>>) = 0 /\ 1..0 = {}
      OBVIOUS
    <3>3. QED
      BY <3>1, <3>2
  <2>3. CASE truth # <<>>
    <3> DEFINE m == Len(parser.files)
    <3>1. n = m + 1 /\ m \in Nat /\ DOMAIN parser.files = 1..m /\ Current = truth[n]
      BY <1>1, <2>1, <2>3, LenProperties DEF FilesFit, Current
    <3>2. done \in FileDiff /\ done.path = parser.file.path /\ done.status = parser.file.status
      BY <1>1, FlushesHunk DEF DiffTypes, Parser
    <3> HIDE DEF done, m, n
    <3>3. /\ Len(Append(parser.files, done)) = n /\ DOMAIN Append(parser.files, done) = 1..n
          /\ \A i \in 1..m : Append(parser.files, done)[i] = parser.files[i]
          /\ Append(parser.files, done)[n] = done
      <4>1. /\ Append(parser.files, done) \in Seq(FileDiff)
            /\ Len(Append(parser.files, done)) = m + 1
            /\ \A i \in 1..m : Append(parser.files, done)[i] = parser.files[i]
            /\ Append(parser.files, done)[m + 1] = done
        BY <2>1, <3>2, AppendProperties DEF m
      <4>2. DOMAIN Append(parser.files, done) = 1..(m + 1)
        BY <4>1, LenProperties
      <4>3. QED
        BY <3>1, <4>1, <4>2
    <3>4. parser'.files = Append(parser.files, done)
      BY <1>2, <2>3
    <3>5. HoldsFile(done, truth[n]) /\ HoldsNumbers(done, truth[n])
      BY <1>1, <2>3, <3>1, <3>2 DEF FilesFit, NumbersFit, HoldsFile, done
    <3>6. \A i \in 1..n : i \in 1..m \/ i = n
      BY <3>1
    <3>7. \A i \in 1..m : HoldsFile(parser.files[i], truth[i]) /\ HoldsNumbers(parser.files[i], truth[i])
      BY <1>1, <3>1 DEF FilesFit, NumbersFit
    <3>8. QED
      BY <3>3, <3>4, <3>5, <3>6, <3>7
  <2>4. QED
    BY <2>2, <2>3
<1> HIDE DEF n, done
<1>9. DiffTypes'
  BY <1>2, <1>4, <1>6 DEF DiffTypes
<1>10. TruthFits'
  <2>1. \A i \in 1..(n + 1) : i \in 1..n \/ i = n + 1
    BY <1>5
  <2>2. \A i, j \in 1..(n + 1) : truth'[i].path = truth'[j].path => i = j
    BY <1>1, <1>3, <1>4, <1>5, <1>6, <2>1 DEF TruthFits
  <2>3. ASSUME NEW i \in 1..(n + 1)
        PROVE  /\ truth'[i].status # "modified" => truth'[i].context = {}
               /\ truth'[i].status = "added" => truth'[i].removed = {}
               /\ truth'[i].status = "deleted" => truth'[i].added = {}
    <3>1. CASE i = n + 1
      BY <1>3, <1>6, <3>1
    <3>2. CASE i \in 1..n
      BY <1>1, <1>5, <1>6, <3>2 DEF TruthFits
    <3>3. QED
      BY <2>1, <3>1, <3>2
  <2>4. QED
    BY <1>4, <1>6, <1>7, <2>2, <2>3 DEF TruthFits
<1>11. FilesFit'
  <2>1. HoldsFile(parser'.file, Current')
    BY <1>2, <1>3, <1>7 DEF HoldsFile
  <2>2. Len(truth') = Len(parser'.files) + 1
    BY <1>6, <1>8
  <2>3. \A i \in DOMAIN parser'.files : HoldsFile(parser'.files[i], truth'[i])
    BY <1>6, <1>8
  <2>4. QED
    BY <1>2, <1>4, <1>7, <2>1, <2>2, <2>3 DEF FilesFit, HoldsFile
<1>12. NumbersFit'
  <2>1. \A i \in DOMAIN parser'.files : HoldsNumbers(parser'.files[i], truth'[i])
    BY <1>6, <1>8
  <2>2. flush_hunk(parser').file.hunks = <<>>
    BY <1>2, FlushesHunk
  <2>3. HoldsNumbers(flush_hunk(parser').file, Current')
    BY <1>3, <1>7, <2>2, NoNumbers DEF HoldsNumbers
  <2>4. QED
    BY <1>2, <2>1, <2>3 DEF NumbersFit, HoldsNumbers
<1>13. QED
  BY <1>9, <1>10, <1>11, <1>12 DEF DiffInv
-----------------------------------------------------------------------------
(* A hunk begins *)

\* The two lines above a first hunk repeat what the file is already known by.
LEMMA SidesRead ==
  ASSUME PlainPaths, DiffTypes, FilesFit, truth # <<>>, parser.hunk = NoHunk,
         NEW lines, lines = Sides(Current.path, Current.status)
  PROVE  /\ lines[1] \in Raw /\ lines[2] \in Raw
         /\ read(read(parser, lines[1]), lines[2]) \in Parser
         /\ read(read(parser, lines[1]), lines[2]).files = parser.files
         /\ read(read(parser, lines[1]), lines[2]).hunk = NoHunk
         /\ read(read(parser, lines[1]), lines[2]).file.path = parser.file.path
         /\ read(read(parser, lines[1]), lines[2]).file.status = parser.file.status
         /\ read(read(parser, lines[1]), lines[2]).file.hunks = parser.file.hunks
<1> DEFINE p == Current.path
           status == Current.status
           path == [name |-> p, tab |-> FALSE]
           a == lines[1]
           b == lines[2]
           first == read(parser, a)
           second == read(first, b)
<1>1. /\ parser \in Parser /\ parser.file # NoFile /\ p \in Paths /\ status \in Status
      /\ parser.file.path = path /\ parser.file.status = status
  BY FileInHand DEF DiffTypes, TruthFile, FilesFit, HoldsFile
<1>2. p # <<>> /\ NoFile.path.name = <<>>
  BY <1>1, DiffAssumption DEF NoFile, NoPath
<1> HIDE DEF p, status
<1>3. /\ a = Line(IF status = "added" THEN "--- /dev/null" ELSE "---")
      /\ b = IF status = "deleted" THEN Line("+++ /dev/null") ELSE Named("+++ b/", p, "+++")
  BY DEF Sides, p, status
<1>4. a \in Raw /\ a.is = IF status = "added" THEN "--- /dev/null" ELSE "---"
  BY <1>3, PlainLines DEF RawKind
<1>5. CASE status = "deleted"
  <2>1. b \in Raw /\ b.is = "+++ /dev/null" /\ a.is = "---"
    BY <1>3, <1>4, <1>5, PlainLines DEF RawKind
  <2> HIDE DEF a, b
  <2>2. /\ first \in Parser /\ first.files = parser.files /\ first.hunk = NoHunk
        /\ first.file.path = path /\ first.file.status = status
        /\ first.file.hunks = parser.file.hunks
    BY <1>1, <1>4, <2>1, ReadsHeading
  <2> HIDE DEF first
  <2>3. first.file # NoFile
    BY <1>2, <2>2
  <2>4. /\ second \in Parser /\ second.files = parser.files /\ second.hunk = NoHunk
        /\ second.file.path = path /\ second.file.status = "deleted"
        /\ second.file.hunks = parser.file.hunks
    BY <2>1, <2>2, <2>3, ReadsHeading
  <2>5. QED
    BY <1>1, <1>4, <1>5, <2>1, <2>4 DEF a, b, first
<1>6. CASE status # "deleted"
  <2>1. b \in Raw /\ b.is = "+++ b/" /\ b.path = path
    <3>1. b = Named("+++ b/", p, "+++") /\ "+++ b/" \in RawKind
      BY <1>3, <1>6 DEF RawKind
    <3>2. p \in Paths
      BY <1>1
    <3>3. /\ Named("+++ b/", p, "+++") \in Raw /\ Named("+++ b/", p, "+++").is = "+++ b/"
          /\ Named("+++ b/", p, "+++").path = [name |-> p, tab |-> FALSE]
      BY <3>1, <3>2, NamedLines
    <3> HIDE DEF b
    <3>4. QED
      BY <3>1, <3>3
  <2>2. a.is \in {"--- /dev/null", "---"} /\ (a.is = "--- /dev/null" => status = "added")
    BY <1>4
  <2> HIDE DEF a, b
  <2>3. /\ first \in Parser /\ first.files = parser.files /\ first.hunk = NoHunk
        /\ first.file.path = path /\ first.file.status = status
        /\ first.file.hunks = parser.file.hunks
    <3>1. CASE a.is = "---"
      BY <1>1, <1>4, <3>1, ReadsHeading
    <3>2. CASE a.is = "--- /dev/null"
      BY <1>1, <1>4, <2>2, <3>2, ReadsHeading
    <3>3. QED
      BY <2>2, <3>1, <3>2
  <2> HIDE DEF first
  <2>4. first.file # NoFile
    BY <1>2, <2>3
  <2>5. /\ second \in Parser /\ second.files = parser.files /\ second.hunk = NoHunk
        /\ second.file.path = path /\ second.file.status = status
        /\ second.file.hunks = parser.file.hunks
    BY <2>1, <2>3, <2>4, ReadsHeading
  <2>6. QED
    BY <1>1, <1>4, <2>1, <2>5 DEF a, b, first
<1>7. QED
  BY <1>5, <1>6

LEMMA HunkRead ==
  ASSUME PlainPaths, DiffInv, truth # <<>>, NEW h \in Raw, h.is = "@@",
         parser' = FoldLeft(read, parser,
           (IF last = "file" THEN Sides(Current.path, Current.status) ELSE <<>>) \o <<h>>)
  PROVE  /\ parser' \in Parser /\ parser'.files = parser.files
         /\ parser'.file.path = parser.file.path /\ parser'.file.status = parser.file.status
         /\ parser'.file.hunks = flush_hunk(parser).file.hunks
         /\ parser'.hunk = [old |-> h.old, new |-> h.new, content |-> <<h>>]
<1> DEFINE hunk == [old |-> h.old, new |-> h.new, content |-> <<h>>]
           one == <<h>>
<1>1. DiffTypes /\ TruthFits /\ FilesFit /\ parser \in Parser /\ parser.file # NoFile
  BY FileInHand DEF DiffInv, DiffTypes
<1>2. one \in Seq(Raw) /\ Len(one) = 1 /\ one[1] = h
  OBVIOUS
<1>3. CASE last = "file"
  <2> DEFINE sides == Sides(Current.path, Current.status)
             lines == sides \o one
             p == read(read(parser, sides[1]), sides[2])
  <2>1. parser.hunk = NoHunk
    BY <1>1, <1>3 DEF FilesFit
  <2>2. /\ sides[1] \in Raw /\ sides[2] \in Raw
        /\ p \in Parser /\ p.files = parser.files /\ p.hunk = NoHunk
        /\ p.file.path = parser.file.path /\ p.file.status = parser.file.status
        /\ p.file.hunks = parser.file.hunks
    BY <1>1, <2>1, SidesRead
  <2>3. sides \in Seq(Raw) /\ Len(sides) = 2
    <3> DEFINE a == Line(IF Current.status = "added" THEN "--- /dev/null" ELSE "---")
               b == IF Current.status = "deleted" THEN Line("+++ /dev/null")
                    ELSE Named("+++ b/", Current.path, "+++")
    <3>1. sides = <<a, b>>
      BY DEF Sides
    <3> HIDE DEF a, b, sides
    <3>2. a \in Raw /\ b \in Raw
      BY <2>2, <3>1
    <3>3. QED
      BY <3>1, <3>2
  <2>4. parser' = FoldLeft(read, parser, lines)
    BY <1>3
  <2> HIDE DEF sides, one
  <2>5. /\ lines \in Seq(Raw) /\ Len(lines) = 3
        /\ lines[1] = sides[1] /\ lines[2] = sides[2] /\ lines[3] = h
    BY <1>2, <2>3, ConcatProperties
  <2> HIDE DEF lines
  <2>6. parser' = read(p, h)
    BY <2>4, <2>5, ReadsFew
  <2> HIDE DEF p
  <2>7. p.file # NoFile
    <3>1. parser.file.path = [name |-> Current.path, tab |-> FALSE] /\ Current \in TruthFile
      BY <1>1, FileInHand DEF FilesFit, HoldsFile
    <3>2. Current.path # <<>> /\ NoFile.path.name = <<>>
      BY <3>1, DiffAssumption DEF TruthFile, NoFile, NoPath
    <3>3. QED
      BY <2>2, <3>1, <3>2
  <2>8. /\ read(p, h) \in Parser /\ read(p, h).files = p.files
        /\ read(p, h).file = flush_hunk(p).file /\ read(p, h).hunk = hunk
    BY <2>2, <2>7, ReadsHunk
  <2>9. /\ flush_hunk(p).file.path = p.file.path /\ flush_hunk(p).file.status = p.file.status
        /\ flush_hunk(p).file.hunks = p.file.hunks
        /\ flush_hunk(parser).file.hunks = parser.file.hunks
    BY <1>1, <2>1, <2>2, FlushesHunk
  <2> HIDE DEF hunk
  <2>10. QED
    BY <2>2, <2>6, <2>8, <2>9 DEF hunk
<1>4. CASE last # "file"
  <2>1. <<>> \o one = one
    BY <1>2, ConcatEmptySeq
  <2>2. parser' = FoldLeft(read, parser, one)
    BY <1>4, <2>1
  <2> HIDE DEF one
  <2>3. parser' = read(parser, h)
    BY <1>2, <2>2, ReadsFew
  <2>4. /\ read(parser, h) \in Parser /\ read(parser, h).files = parser.files
        /\ read(parser, h).file = flush_hunk(parser).file /\ read(parser, h).hunk = hunk
    BY <1>1, ReadsHunk
  <2>5. /\ flush_hunk(parser).file.path = parser.file.path
        /\ flush_hunk(parser).file.status = parser.file.status
    BY <1>1, FlushesHunk
  <2> HIDE DEF hunk
  <2>6. QED
    BY <2>3, <2>4, <2>5 DEF hunk
<1>5. QED
  BY <1>3, <1>4

\* The numbers so far stay, and both counts begin where the hunk does.
LEMMA HunkKeeps ==
  ASSUME PlainPaths, DiffInv, NEW gap \in Gaps, WriteHunk(gap)
  PROVE  DiffInv'
<1> DEFINE x == IF Current.status = "added" THEN 0 ELSE old'
           y == IF Current.status = "deleted" THEN 0 ELSE new'
           line == Line("@@")
           h == [line EXCEPT !.old = x, !.new = y]
           hunk == [old |-> x, new |-> y, content |-> <<h>>]
           n == Len(truth)
<1>1. DiffTypes /\ TruthFits /\ FilesFit /\ NumbersFit /\ parser \in Parser
  BY DEF DiffInv, DiffTypes
<1>2. truth # <<>>
  BY <1>1 DEF WriteHunk, TruthFits
<1>3. old' = old + gap /\ new' = new + gap /\ gap \in Nat /\ old \in Nat /\ new \in Nat
  BY <1>1, DiffAssumption DEF WriteHunk, DiffTypes
<1>4. old' \in Nat /\ new' \in Nat
  <2>1. old + gap \in Nat /\ new + gap \in Nat
    BY <1>3
  <2>2. QED
    BY <1>3, <2>1
<1>5. truth' = truth /\ Current' = Current /\ last' = "@@"
  BY DEF WriteHunk, Emit, Current
<1>6. parser' = FoldLeft(read, parser,
        (IF last = "file" THEN Sides(Current.path, Current.status) ELSE <<>>) \o <<h>>)
  BY DEF WriteHunk, Emit
<1>7. line \in Raw /\ line.is = "@@" /\ x \in Nat /\ y \in Nat
  BY <1>4, PlainLines DEF RawKind
<1> HIDE DEF line, x, y
<1>8. h \in Raw /\ h.is = "@@" /\ h.old = x /\ h.new = y
  BY <1>7 DEF Raw
<1> HIDE DEF h
<1>9. /\ parser' \in Parser /\ parser'.files = parser.files
      /\ parser'.file.path = parser.file.path /\ parser'.file.status = parser.file.status
      /\ parser'.file.hunks = flush_hunk(parser).file.hunks
      /\ parser'.hunk = hunk
  BY <1>2, <1>6, <1>8, HunkRead
<1>10. hunk \in Hunk /\ Len(hunk.content) = 1 /\ hunk.content[1] = h /\ hunk # NoHunk
       /\ hunk.old = x /\ hunk.new = y
  <2>1. <<h>> \in Seq(Raw) /\ Len(<<h>>) = 1 /\ <<h>>[1] = h /\ <<h>> # <<>>
    BY <1>8
  <2>2. NoHunk.content = <<>>
    BY DEF NoHunk
  <2>3. QED
    BY <1>7, <2>1, <2>2 DEF Hunk
<1> HIDE DEF hunk
<1>11. \A mode \in Modes :
         Counted(hunk, mode) = [at |-> IF mode = "removed" THEN x ELSE y, out |-> {}]
  <2>1. hunk.content[1].is = "@@"
    BY <1>8, <1>10
  <2>2. \A mode \in Modes :
          Counted(hunk, mode) = [at |-> IF mode = "removed" THEN hunk.old ELSE hunk.new, out |-> {}]
    BY <1>10, <2>1, CountsNothing
  <2>3. QED
    BY <1>10, <2>2
<1>12. DiffTypes'
  BY <1>1, <1>4, <1>5, <1>9 DEF DiffTypes
<1>13. TruthFits'
  BY <1>1, <1>2, <1>5 DEF TruthFits
<1>14. FilesFit'
  BY <1>1, <1>2, <1>5, <1>9, <1>10 DEF FilesFit, HoldsFile
<1>15. NumbersFit'
  <2>1. ASSUME NEW mode \in Modes
        PROVE  NumbersOf(flush_hunk(parser').file, mode) = NumbersOf(flush_hunk(parser).file, mode)
    <3>1. NumbersOf(flush_hunk(parser').file, mode)
            = NumbersOf(parser'.file, mode) \cup Counted(hunk, mode).out
      BY <1>9, <1>10, FlushedNumbers
    <3>2. NumbersOf(parser'.file, mode) = NumbersOf(flush_hunk(parser).file, mode)
      BY <1>9 DEF NumbersOf
    <3>3. QED
      BY <1>11, <3>1, <3>2
  <2>2. HoldsNumbers(flush_hunk(parser').file, Current)
    BY <1>1, <1>2, <2>1 DEF NumbersFit, HoldsNumbers, Modes
  <2>3. /\ Current.status # "deleted" =>
             Counted(parser'.hunk, "added").at = new' /\ Counted(parser'.hunk, "any").at = new'
        /\ Current.status # "added" => Counted(parser'.hunk, "removed").at = old'
    BY <1>9, <1>11 DEF Modes, x, y
  <2>4. \A i \in DOMAIN parser'.files : HoldsNumbers(parser'.files[i], truth'[i])
    BY <1>1, <1>5, <1>9 DEF NumbersFit
  <2>5. HoldsNumbers(flush_hunk(parser').file, Current')
    BY <1>5, <2>2
  <2>6. QED
    BY <1>5, <2>3, <2>4, <2>5 DEF NumbersFit, HoldsNumbers
<1>16. QED
  BY <1>12, <1>13, <1>14, <1>15 DEF DiffInv
-----------------------------------------------------------------------------
(* What the reviewer reads *)

LEMMA DiffStart == Init => DiffInv
<1> SUFFICES ASSUME Init PROVE DiffInv
  OBVIOUS
<1>1. /\ truth = <<>> /\ old = 1 /\ new = 1 /\ last = "start"
      /\ parser = [files |-> <<>>, file |-> NoFile, hunk |-> NoHunk]
  BY DEF Init
<1>2. parser.files = <<>> /\ parser.file = NoFile /\ parser.hunk = NoHunk
  BY <1>1
<1>3. <<>> \in Seq(TruthFile) /\ <<>> \in Seq(FileDiff) /\ DOMAIN <<>> = {}
  OBVIOUS
<1>4. NoFile \in FileDiff /\ NoHunk \in Hunk
  <2>1. <<>> \in Seq(STRING) /\ <<>> \in Seq(Hunk) /\ <<>> \in Seq(Raw)
    OBVIOUS
  <2>2. QED
    BY <2>1 DEF NoFile, FileDiff, NoPath, ReadPath, Status, NoHunk, Hunk
<1>5. DiffTypes
  BY <1>1, <1>3, <1>4 DEF DiffTypes, Parser
<1>6. QED
  BY <1>1, <1>2, <1>3, <1>5 DEF DiffInv, TruthFits, FilesFit, NumbersFit

LEMMA DiffStep == ASSUME PlainPaths PROVE DiffInv /\ [Next]_vars => DiffInv'
<1> SUFFICES ASSUME DiffInv, [Next]_vars PROVE DiffInv'
  OBVIOUS
<1>1. CASE UNCHANGED vars
  BY <1>1 DEF vars, DiffInv, DiffTypes, TruthFits, FilesFit, NumbersFit, Current
<1>2. CASE Finished
  BY <1>2 DEF Finished, vars, DiffInv, DiffTypes, TruthFits, FilesFit, NumbersFit, Current
<1>3. ASSUME NEW p \in Paths, NEW status \in Status, WriteFile(p, status) PROVE DiffInv'
  BY <1>3, FileKeeps
<1>4. ASSUME NEW gap \in Gaps, WriteHunk(gap) PROVE DiffInv'
  BY <1>4, HunkKeeps
<1>5. CASE WriteContext
  BY <1>5, ContextKeeps
<1>6. ASSUME NEW content \in Contents, WriteRemoved(content) PROVE DiffInv'
  BY <1>6, RemovedKeeps
<1>7. ASSUME NEW content \in Contents, WriteAdded(content) PROVE DiffInv'
  BY <1>7, AddedKeeps
<1>8. CASE WriteEof
  BY <1>8, EofKeeps
<1>9. QED
  BY <1>1, <1>2, <1>3, <1>4, <1>5, <1>6, <1>7, <1>8 DEF Next

\* Whatever git writes of plainly named files, the parser has read of each what
\* was written of it, and its counts stand where git's do.
THEOREM DiffInvariance == ASSUME PlainPaths PROVE Spec => []DiffInv
<1>1. Init => DiffInv
  BY DiffStart
<1>2. DiffInv /\ [Next]_vars => DiffInv'
  BY DiffStep
<1>3. QED
  BY <1>1, <1>2, PTL DEF Spec

\* The diff as it would be returned now: what was appended, and the file in hand.
LEMMA ParsedSoFar ==
  ASSUME DiffInv
  PROVE  /\ parse_unified_diff \in Seq(FileDiff)
         /\ Len(parse_unified_diff) = Len(truth)
         /\ DOMAIN parse_unified_diff = DOMAIN truth
         /\ \A i \in DOMAIN truth :
              /\ HoldsFile(parse_unified_diff[i], truth[i])
              /\ HoldsNumbers(parse_unified_diff[i], truth[i])
<1> DEFINE n == Len(truth)
           m == Len(parser.files)
           done == flush_hunk(parser).file
           parsed == parse_unified_diff
<1>1. DiffTypes /\ TruthFits /\ FilesFit /\ NumbersFit /\ parser \in Parser
  BY DEF DiffInv, DiffTypes
<1>2. /\ truth \in Seq(TruthFile) /\ n \in Nat /\ DOMAIN truth = 1..n
      /\ parser.files \in Seq(FileDiff) /\ m \in Nat /\ DOMAIN parser.files = 1..m
  BY <1>1, LenProperties DEF DiffTypes, Parser
<1>3. CASE truth = <<>>
  <2>1. parser.files = <<>> /\ parser.file = NoFile /\ parser.hunk = NoHunk
    BY <1>1, <1>3 DEF FilesFit, TruthFits
  <2>2. parsed = <<>>
    BY <1>1, <2>1, FlushesNothing DEF parse_unified_diff
  <2>3. <<>> \in Seq(FileDiff) /\ DOMAIN <<>> = {} /\ Len(<<>>) = 0
    OBVIOUS
  <2> HIDE DEF parsed
  <2>4. QED
    BY <1>3, <2>2, <2>3 DEF parsed
<1>4. CASE truth # <<>>
  <2>1. n = m + 1 /\ Current = truth[n]
    BY <1>1, <1>4 DEF FilesFit, Current
  <2>2. parser.file # NoFile
    BY <1>1, <1>4, FileInHand
  <2>3. parsed = Append(parser.files, done)
    BY <1>1, <2>2, FlushesFile DEF parse_unified_diff
  <2>4. done \in FileDiff /\ done.path = parser.file.path /\ done.status = parser.file.status
    BY <1>1, FlushesHunk DEF Parser
  <2>5. HoldsFile(done, truth[n]) /\ HoldsNumbers(done, truth[n])
    BY <1>1, <1>4, <2>1, <2>4 DEF FilesFit, NumbersFit, HoldsFile
  <2>6. \A i \in 1..m : HoldsFile(parser.files[i], truth[i]) /\ HoldsNumbers(parser.files[i], truth[i])
    BY <1>1, <1>2 DEF FilesFit, NumbersFit
  <2> HIDE DEF done, parsed
  <2>7. /\ parsed \in Seq(FileDiff) /\ Len(parsed) = m + 1
        /\ \A i \in 1..m : parsed[i] = parser.files[i]
        /\ parsed[m + 1] = done
    BY <1>2, <2>3, <2>4, AppendProperties
  <2> HIDE DEF n, m
  <2>8. DOMAIN parsed = 1..n /\ Len(parsed) = n
    BY <2>1, <2>7, LenProperties
  <2>9. \A i \in 1..n : i \in 1..m \/ i = n
    BY <1>2, <2>1
  <2>10. \A i \in 1..n : HoldsFile(parsed[i], truth[i]) /\ HoldsNumbers(parsed[i], truth[i])
    BY <2>1, <2>5, <2>6, <2>7, <2>9
  <2>11. QED
    BY <1>2, <2>7, <2>8, <2>10 DEF parsed, n
<1>5. QED
  BY <1>3, <1>4

\* What the parser holds has the shape of a list of files, hunk by hunk and line
\* by line (parse_unified_diff, for any diff of plainly named files).
THEOREM DiffWellTyped == ASSUME PlainPaths PROVE Spec => []DiffTypeOK
<1>1. DiffInv => DiffTypeOK
  BY DEF DiffInv, DiffTypes, Parser, DiffTypeOK
<1>2. QED
  BY <1>1, DiffInvariance, PTL

\* Every file is read once, in order, under its own path and with its own status
\* (parse_unified_diff, for any number of files, hunks and lines).
THEOREM FilesAreTrue == ASSUME PlainPaths PROVE Spec => []FilesTrue
<1>1. DiffInv => FilesTrue
  BY ParsedSoFar DEF FilesTrue, HoldsFile
<1>2. QED
  BY <1>1, DiffInvariance, PTL

\* In a file of plain lines no count drifts, on either side, however many hunks
\* and lines stand before (iter_hunk_lines in its three modes).
THEOREM NumbersAreTrue == ASSUME PlainPaths PROVE Spec => []NumbersTrue
<1>1. DiffInv => NumbersTrue
  BY ParsedSoFar DEF NumbersTrue, HoldsNumbers, Read
<1>2. QED
  BY <1>1, DiffInvariance, PTL
-----------------------------------------------------------------------------
(* Where a finding falls *)

\* No path of the repository could be meant by another one's name, seen from
\* another root.
PathsApart ==
  \A p, q \in Paths : p # q =>
    \A file \in Names(p) \ {p} : file # q /\ ~IsStrictSuffix(file, q) /\ ~IsStrictSuffix(q, file)

\* The name of a path from another root ends as the path does, or the path as it.
LEMMA NamesEndAlike ==
  ASSUME NEW p \in Paths, NEW file \in Names(p), file # p
  PROVE  IsStrictSuffix(file, p) \/ IsStrictSuffix(p, file)
<1> DEFINE T == STRING \cup {"checkout"}
<1>1. p \in Seq(T) /\ "checkout" \in T /\ (Len(p) > 1 => Len(p) > 0)
  <2>1. p \in Seq(STRING) /\ STRING \subseteq T
    BY DiffAssumption
  <2>2. p \in Seq(T)
    BY <2>1, SeqMonotonic
  <2>3. Len(p) > 1 => Len(p) > 0
    BY <2>1, LenProperties
  <2>4. QED
    BY <2>2, <2>3
<1> HIDE DEF T
<1>2. CASE file = <<"checkout">> \o p
  BY <1>1, <1>2, EndsAlike
<1>3. CASE file = Tail(p) /\ Len(p) > 1
  BY <1>1, <1>3, TailEndsAlike
<1>4. QED
  BY <1>2, <1>3 DEF Names

LEMMA SameName == \A a, b : [name |-> a, tab |-> FALSE] = [name |-> b, tab |-> FALSE] <=> a = b
<1> SUFFICES ASSUME NEW a, NEW b
             PROVE  [name |-> a, tab |-> FALSE] = [name |-> b, tab |-> FALSE] => a = b
  OBVIOUS
<1> DEFINE x == [name |-> a, tab |-> FALSE]
           y == [name |-> b, tab |-> FALSE]
<1>1. x.name = a /\ y.name = b
  OBVIOUS
<1> HIDE DEF x, y
<1>2. x = y => a = b
  BY <1>1
<1>3. QED
  BY <1>2 DEF x, y

\* Looked up under such a name, the added lines are those of the file meant.
LEMMA LooksUp ==
  ASSUME PathsApart, NEW by_path, NEW D \in SUBSET Nat, DOMAIN by_path = D, NEW path,
         \A j \in D : path[j] \in Paths,
         \A j \in D : by_path[j].path = [name |-> path[j], tab |-> FALSE],
         \A j, k \in D : path[j] = path[k] => j = k,
         NEW i \in D, NEW file \in Names(path[i])
  PROVE  lookup_by_path(file, by_path) = {i}
<1> DEFINE exact == {j \in D : by_path[j].path = [name |-> file, tab |-> FALSE]}
           near == {j \in D : /\ ~by_path[j].path.tab
                              /\ \/ IsStrictSuffix(file, by_path[j].path.name)
                                 \/ IsStrictSuffix(by_path[j].path.name, file)}
<1>1. lookup_by_path(file, by_path) =
        IF exact # {} THEN exact ELSE {j \in near : \A k \in near : j <= k}
  BY DEF lookup_by_path
<1>2. ASSUME NEW j \in D
      PROVE  by_path[j].path.name = path[j] /\ by_path[j].path.tab = FALSE
  <2>1. by_path[j].path = [name |-> path[j], tab |-> FALSE]
    OBVIOUS
  <2>2. QED
    BY <2>1
<1>3. ASSUME NEW j \in D PROVE j \in exact <=> path[j] = file
  <2>1. by_path[j].path = [name |-> path[j], tab |-> FALSE]
    OBVIOUS
  <2>2. by_path[j].path = [name |-> file, tab |-> FALSE] <=> path[j] = file
    BY <2>1, SameName
  <2>3. QED
    BY <2>2
<1>4. \A j \in D : j \in near <=> IsStrictSuffix(file, path[j]) \/ IsStrictSuffix(path[j], file)
  BY <1>2
<1>5. exact \subseteq D /\ near \subseteq D
  OBVIOUS
<1> HIDE DEF exact, near
<1>6. CASE file = path[i]
  <2>1. exact = {i}
    BY <1>3, <1>5, <1>6
  <2>2. QED
    BY <1>1, <2>1
<1>7. CASE file # path[i]
  <2>1. \A j \in D \ {i} : file # path[j] /\ ~IsStrictSuffix(file, path[j]) /\ ~IsStrictSuffix(path[j], file)
    BY <1>7 DEF PathsApart
  <2>2. exact = {}
    BY <1>3, <1>5, <1>7, <2>1
  <2>3. IsStrictSuffix(file, path[i]) \/ IsStrictSuffix(path[i], file)
    BY <1>7, NamesEndAlike
  <2>4. near = {i}
    BY <1>4, <1>5, <2>1, <2>3
  <2>5. i \in Nat
    OBVIOUS
  <2>6. QED
    BY <1>1, <2>2, <2>4, <2>5
<1>8. QED
  BY <1>6, <1>7

\* A finding that names its file in full or from another root is kept exactly when
\* its line was added (scope_to_diff, lookup_by_path): in every plain file of any
\* diff, as long as no two paths of the repository can be taken for each other.
THEOREM ScopeIsTrue == ASSUME PlainPaths, PathsApart PROVE Spec => []ScopeTrue
<1>1. DiffInv => ScopeTrue
  <2> SUFFICES ASSUME DiffInv, NEW i \in DOMAIN truth, truth[i].plain,
                      NEW file \in Names(truth[i].path), NEW line \in 1..(new + 1)
               PROVE  kept(file, line, added_lines(parse_unified_diff)) <=> line \in truth[i].added
    BY DEF ScopeTrue
  <2> DEFINE parsed == parse_unified_diff
             added == added_lines(parsed)
             D == DOMAIN truth
             path == [j \in D |-> truth[j].path]
  <2>1. /\ DOMAIN parsed = D
        /\ \A j \in D : HoldsFile(parsed[j], truth[j]) /\ HoldsNumbers(parsed[j], truth[j])
    BY ParsedSoFar
  <2>2. /\ D \subseteq Nat
        /\ \A j \in D : path[j] \in Paths
        /\ \A j, k \in D : path[j] = path[k] => j = k
    <3>1. D = 1..Len(truth) /\ \A j \in D : truth[j] \in TruthFile
      BY LenProperties, ElementOfSeq DEF DiffInv, DiffTypes
    <3>2. \A j, k \in D : truth[j].path = truth[k].path => j = k
      BY DEF DiffInv, TruthFits
    <3>3. QED
      BY <3>1, <3>2 DEF TruthFile
  <2> HIDE DEF parsed
  <2>3. \A j \in D : parsed[j].path = [name |-> path[j], tab |-> FALSE]
    BY <2>1 DEF HoldsFile
  <2>4. \A j, k \in D : parsed[j].path = parsed[k].path => j = k
    <3> HIDE DEF path, D
    <3> SUFFICES ASSUME NEW j \in D, NEW k \in D, parsed[j].path = parsed[k].path PROVE j = k
      OBVIOUS
    <3>1. /\ parsed[j].path = [name |-> path[j], tab |-> FALSE]
          /\ parsed[k].path = [name |-> path[k], tab |-> FALSE]
      BY <2>3
    <3>2. path[j] = path[k]
      BY <3>1, SameName
    <3>3. QED
      BY <2>2, <3>2
  <2>5. DOMAIN added = D
    BY <2>1 DEF added_lines
  <2>6. \A j \in D : added[j].path = parsed[j].path /\ added[j].lines = NumbersOf(parsed[j], "added")
    <3> SUFFICES ASSUME NEW j \in D
                 PROVE  added[j].path = parsed[j].path /\ added[j].lines = NumbersOf(parsed[j], "added")
      OBVIOUS
    <3> DEFINE Latest(l) == /\ parsed[l].path = parsed[j].path
                            /\ \A k \in D : parsed[k].path = parsed[j].path => k <= l
               latest == CHOOSE l \in D : Latest(l)
    <3>1. Latest(j)
      BY <2>2, <2>4
    <3>2. latest = j
      BY <2>4, <3>1
    <3>3. added[j] = [path |-> parsed[j].path, lines |-> NumbersOf(parsed[latest], "added")]
      BY <2>1 DEF added_lines
    <3> HIDE DEF latest, added
    <3>4. QED
      BY <3>2, <3>3
  <2> HIDE DEF added
  <2>7. lookup_by_path(file, added) = {i}
    <3>1. \A j \in D : added[j].path = [name |-> path[j], tab |-> FALSE]
      BY <2>3, <2>6
    <3>2. file \in Names(path[i]) /\ i \in D
      OBVIOUS
    <3>3. D \in SUBSET Nat
      BY <2>2
    <3> HIDE DEF path, D
    <3>4. \A j \in D : path[j] \in Paths
      BY <2>2
    <3>5. \A j, k \in D : path[j] = path[k] => j = k
      BY <2>2
    <3>6. QED
      BY <2>5, <3>1, <3>2, <3>3, <3>4, <3>5, LooksUp
  <2>8. added[i].lines = truth[i].added
    BY <2>1, <2>6 DEF HoldsNumbers
  <2>9. QED
    BY <2>7, <2>8 DEF kept, added, parsed
<1>2. QED
  BY <1>1, DiffInvariance, PTL
=============================================================================
