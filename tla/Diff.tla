-------------------------------- MODULE Diff --------------------------------
(***************************************************************************)
(* What the reviewer reads in a unified diff (reviewer/domain/diff.py)     *)
(* against what git wrote there.                                           *)
(*                                                                         *)
(* git writes the diff a file, a hunk or a line at a time and the module   *)
(* keeps the truth of it: the changed files, the numbers of their added,   *)
(* removed and unchanged lines, and whether those lines are all plain. The *)
(* parser is one pass over the raw lines and reads each as it is written,  *)
(* so every state is the parse of the diff so far. A raw line is what the  *)
(* parser's patterns see in it.                                            *)
(***************************************************************************)
EXTENDS Integers, Sequences, SequencesExt

CONSTANTS
  Paths,      \* paths of the repository, sequences of components
  Spaced,     \* those with a blank: git ends their ---/+++ line with a tab
  Quoted,     \* those with a non-ASCII character: git quotes them
  Contents,   \* what an added or removed line may hold: see Body
  EofMarks,   \* TRUE: a file may lack its last newline
  Gaps,       \* bound: unchanged lines git leaves out before a hunk
  MaxWritten  \* bound: what git writes, counted in files, hunks and lines

ASSUME DiffAssumption ==
  /\ Paths \subseteq Seq(STRING) \ {<<>>}
  /\ Spaced \subseteq Paths
  /\ Quoted \subseteq Paths
  /\ Contents \subseteq {"text", "marks", "feed"}
  /\ EofMarks \in BOOLEAN
  /\ Gaps \subseteq Nat
  /\ MaxWritten \in Nat

VARIABLES
  truth,     \* the files of the diff, in order
  old,       \* number of the next line on the old side
  new,       \* number of the next line on the new side
  last,      \* what git wrote last
  written,   \* how much it has written
  parser     \* the state of parse_unified_diff

vars == <<truth, old, new, last, written, parser>>
----------------------------------------------------------------------------
Status == {"added", "modified", "deleted"}
Sign == {"+", "-", " "}
RawKind == Sign \cup {"diff", "new file", "deleted file", "+++ b/", "+++ /dev/null",
                      "--- /dev/null", "+++", "---", "@@", "other"}

\* A path as the parser read it, with the tab it did not strip.
ReadPath == [name : Seq(STRING), tab : BOOLEAN]
NoPath == [name |-> <<>>, tab |-> FALSE]

Raw == [is : RawKind, path : ReadPath, old : Nat, new : Nat]
Line(is) == [is |-> is, path |-> NoPath, old |-> 0, new |-> 0]

Hunk == [old : Nat, new : Nat, content : Seq(Raw)]
FileDiff == [path : ReadPath, status : Status, hunks : Seq(Hunk)]

NoHunk == [old |-> 0, new |-> 0, content |-> <<>>]
NoFile == [path |-> NoPath, status |-> "modified", hunks |-> <<>>]
----------------------------------------------------------------------------
(* The parser                                                              *)

flush_hunk(p) ==
  IF p.hunk = NoHunk THEN p
  ELSE [p EXCEPT !.file.hunks = Append(@, p.hunk), !.hunk = NoHunk]

EmptyFileLost(p) ==                         \* mutant: a file without hunks is dropped
  LET q == flush_hunk(p)
  IN IF q.file.hunks = <<>> THEN [q EXCEPT !.file = NoFile]
     ELSE [q EXCEPT !.files = Append(@, q.file), !.file = NoFile]

\* A file is appended when the next one begins, or at the end of the diff.
flush_file(p) ==
  LET q == flush_hunk(p)
  IN IF q.file = NoFile THEN q
     ELSE [q EXCEPT !.files = Append(@, q.file), !.file = NoFile]

read(p, line) ==
  IF line.is = "diff" THEN [flush_file(p) EXCEPT !.file = [NoFile EXCEPT !.path = line.path]]
  ELSE IF p.file = NoFile THEN p
  ELSE CASE line.is \in {"new file", "--- /dev/null"} -> [p EXCEPT !.file.status = "added"]
         [] line.is \in {"deleted file", "+++ /dev/null"} -> [p EXCEPT !.file.status = "deleted"]
         [] line.is = "+++ b/" -> [p EXCEPT !.file.path = line.path]
         [] line.is = "@@" -> [flush_hunk(p) EXCEPT !.hunk =
                                [old |-> line.old, new |-> line.new, content |-> <<line>>]]
         [] OTHER -> IF p.hunk = NoHunk THEN p ELSE [p EXCEPT !.hunk.content = Append(@, line)]

parse_unified_diff == flush_file(parser).files
----------------------------------------------------------------------------
(* Line numbers                                                            *)

UncountedContext(mode, s, line) ==          \* mutant: context does not advance
  IF line.is = (IF mode = "removed" THEN "-" ELSE "+")
    THEN [at |-> s.at + 1, out |-> s.out \cup {s.at}] ELSE s

\* One line of a hunk: is it of this side, and does the count advance.
count(mode, s, line) ==
  CASE line.is \in {"@@", "+++", "---"} -> s
    [] line.is = "+" ->
         [at  |-> IF mode # "removed" THEN s.at + 1 ELSE s.at,
          out |-> IF mode # "removed" THEN s.out \cup {s.at} ELSE s.out]
    [] line.is = "-" ->
         [at  |-> IF mode = "removed" THEN s.at + 1 ELSE s.at,
          out |-> IF mode = "removed" THEN s.out \cup {s.at} ELSE s.out]
    [] OTHER ->
         [at  |-> s.at + 1,
          out |-> IF mode = "any" THEN s.out \cup {s.at} ELSE s.out]

iter_hunk_lines(hunk, mode) ==
  FoldLeft(LAMBDA s, line : count(mode, s, line),
           [at |-> IF mode = "removed" THEN hunk.old ELSE hunk.new, out |-> {}],
           hunk.content).out

NumbersOf(file, mode) ==
  UNION {iter_hunk_lines(file.hunks[i], mode) : i \in DOMAIN file.hunks}

\* A dictionary in the order of the files; a path met again keeps its place and
\* takes the later lines.
added_lines(files) ==
  [i \in DOMAIN files |->
     [path |-> files[i].path,
      lines |-> NumbersOf(files[CHOOSE j \in DOMAIN files :
                  /\ files[j].path = files[i].path
                  /\ \A k \in DOMAIN files : files[k].path = files[i].path => k <= j], "added")]]

ExactOnly(file, by_path) ==                 \* mutant: no suffix match
  {i \in DOMAIN by_path : by_path[i].path = [name |-> file, tab |-> FALSE]}

\* The entries for file: the exact one, else the first that is a suffix either way.
lookup_by_path(file, by_path) ==
  LET exact == {i \in DOMAIN by_path : by_path[i].path = [name |-> file, tab |-> FALSE]}
      near == {i \in DOMAIN by_path :
                 /\ ~by_path[i].path.tab
                 /\ \/ IsStrictSuffix(file, by_path[i].path.name)
                    \/ IsStrictSuffix(by_path[i].path.name, file)}
  IN IF exact # {} THEN exact ELSE {i \in near : \A j \in near : i <= j}

\* scope_to_diff keeps a finding: its file is outside the diff or its line is new.
kept(file, line, added) ==
  \A i \in lookup_by_path(file, added) : line \in added[i].lines
----------------------------------------------------------------------------
(* What git writes (external)                                              *)

Init ==
  /\ truth = <<>>
  /\ old = 1
  /\ new = 1
  /\ last = "start"
  /\ written = 0
  /\ parser = [files |-> <<>>, file |-> NoFile, hunk |-> NoHunk]

\* git writes some raw lines, and the parser reads them.
Emit(what, lines) ==
  /\ written < MaxWritten
  /\ written' = written + 1
  /\ last' = what
  /\ parser' = FoldLeft(read, parser, lines)

\* A path as a line shows it.  A quoted name matches no pattern that looks for
\* a path, and a ---/+++ line with a blank in it ends with a tab.
Named(is, p, otherwise) ==
  IF p \in Quoted THEN Line(otherwise)
  ELSE [Line(is) EXCEPT !.path = [name |-> p, tab |-> is = "+++ b/" /\ p \in Spaced]]

Header(p, status) ==
  <<Named("diff", p, "other")>>
    \o (CASE status = "added"    -> <<Line("new file"), Line("other")>>
          [] status = "deleted"  -> <<Line("deleted file"), Line("other")>>
          [] status = "modified" -> <<Line("other")>>)

\* The two lines above the first hunk: a file without hunks has none.
Sides(p, status) ==
  <<Line(IF status = "added" THEN "--- /dev/null" ELSE "---"),
    IF status = "deleted" THEN Line("+++ /dev/null") ELSE Named("+++ b/", p, "+++")>>

Changed == {truth[i].path : i \in DOMAIN truth}

WriteFile(p, status) ==
  /\ p \notin Changed
  /\ Emit("file", Header(p, status))
  /\ truth' = Append(truth, [path |-> p, status |-> status,
                             added |-> {}, removed |-> {}, context |-> {}, plain |-> TRUE])
  /\ old' = 1
  /\ new' = 1

Current == truth[Len(truth)]

\* A new file has one hunk at line 1 of the new side, a deleted one at line 1 of
\* the old; the empty side starts at 0.
WriteHunk(gap) ==
  /\ last \in {"file", "+", "-", " "}
  /\ Current.status # "modified" => last = "file" /\ gap = 0
  /\ last # "file" => gap > 0
  /\ old' = old + gap
  /\ new' = new + gap
  /\ Emit("@@",
       (IF last = "file" THEN Sides(Current.path, Current.status) ELSE <<>>)
         \o <<[Line("@@") EXCEPT !.old = IF Current.status = "added" THEN 0 ELSE old',
                                 !.new = IF Current.status = "deleted" THEN 0 ELSE new']>>)
  /\ UNCHANGED truth

\* How a body line looks to the parser: content that opens with ++ or -- makes a
\* file header of a changed line, and splitlines() breaks a line at a form feed.
Body(sign, content) ==
  CASE content = "text"  -> <<Line(sign)>>
    [] content = "marks" -> <<Line(IF sign = "+" THEN "+++" ELSE "---")>>
    [] content = "feed"  -> <<Line(sign), Line("other")>>

InsideHunk == Sign \cup {"@@"}

WriteContext ==
  /\ last \in InsideHunk
  /\ Current.status = "modified"
  /\ Emit(" ", <<Line(" ")>>)
  /\ truth' = [truth EXCEPT ![Len(truth)].context = @ \cup {new}]
  /\ old' = old + 1
  /\ new' = new + 1

\* Removed lines come before the added lines that replace them.
WriteRemoved(content) ==
  /\ last \in InsideHunk
  /\ last # "+"
  /\ Current.status # "added"
  /\ Emit("-", Body("-", content))
  /\ truth' = [truth EXCEPT ![Len(truth)].removed = @ \cup {old},
                            ![Len(truth)].plain = @ /\ content = "text"]
  /\ old' = old + 1
  /\ UNCHANGED new

WriteAdded(content) ==
  /\ last \in InsideHunk \/ last = "\\ -"
  /\ Current.status # "deleted"
  /\ Emit("+", Body("+", content))
  /\ truth' = [truth EXCEPT ![Len(truth)].added = @ \cup {new},
                            ![Len(truth)].plain = @ /\ content = "text"]
  /\ new' = new + 1
  /\ UNCHANGED old

\* "\ No newline at end of file", after the last line of a side: more may follow
\* only when that line was a removed one.
WriteEof ==
  /\ EofMarks
  /\ last \in Sign
  /\ Emit(IF last = "-" THEN "\\ -" ELSE "\\", <<Line("other")>>)
  /\ truth' = [truth EXCEPT ![Len(truth)].plain = FALSE]
  /\ UNCHANGED <<old, new>>

\* The diff is complete, or as long as the bound lets it be.
Finished ==
  /\ written = MaxWritten \/ (Changed = Paths /\ last \notin InsideHunk)
  /\ UNCHANGED vars

Next ==
  \/ Finished
  \/ \E p \in Paths, status \in Status : WriteFile(p, status)
  \/ \E gap \in Gaps : WriteHunk(gap)
  \/ WriteContext
  \/ \E content \in Contents : WriteRemoved(content)
  \/ \E content \in Contents : WriteAdded(content)
  \/ WriteEof

Spec == Init /\ [][Next]_vars
----------------------------------------------------------------------------
(* Properties                                                              *)

\* What the parser holds is a file list of the shape the reviewer works with.
DiffTypeOK ==
  /\ parser.files \in Seq(FileDiff)
  /\ parser.file \in FileDiff
  /\ parser.hunk \in Hunk

\* Every file of the change is read once, in order, under its own path and with
\* its own status, whatever stands between the files (parse_unified_diff).
FilesTrue ==
  /\ Len(parse_unified_diff) = Len(truth)
  /\ \A i \in DOMAIN truth :
       /\ parse_unified_diff[i].path = [name |-> truth[i].path, tab |-> FALSE]
       /\ parse_unified_diff[i].status = truth[i].status

Read == DOMAIN truth \cap DOMAIN parse_unified_diff

\* added_lines promises each changed file "its added (new-side) line numbers".
AddedTrue == \A i \in Read : NumbersOf(parse_unified_diff[i], "added") = truth[i].added

\* In a file of plain lines the count does not drift on either side, over several
\* hunks with lines of every kind before the one counted and whatever the files
\* before it hold (iter_hunk_lines in its three modes).
NumbersTrue ==
  \A i \in Read : truth[i].plain =>
    LET file == parse_unified_diff[i]
    IN /\ NumbersOf(file, "added") = truth[i].added
       /\ NumbersOf(file, "removed") = truth[i].removed
       /\ NumbersOf(file, "any") = truth[i].added \cup truth[i].context

\* Another checkout may root a path higher, an analyzer lower.
Names(path) ==
  {path, <<"checkout">> \o path} \cup (IF Len(path) > 1 THEN {Tail(path)} ELSE {})

\* A finding that names its file in full or from another root is kept exactly
\* when its line was added (scope_to_diff, lookup_by_path).
ScopeTrue ==
  \A i \in DOMAIN truth : truth[i].plain =>
    \A file \in Names(truth[i].path), line \in 1..(new + 1) :
      kept(file, line, added_lines(parse_unified_diff)) <=> line \in truth[i].added
=============================================================================
