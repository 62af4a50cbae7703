-------------------------- MODULE MembershipProofs --------------------------
(***************************************************************************)
(* Membership for every set of workers, people and requests: no row        *)
(* outlives its project and nobody has two roles in one, however requests  *)
(* interleave; and a project loses its last lead only when a request      *)
(* commits on a role or a count that another has overtaken.                *)
(***************************************************************************)
EXTENDS Membership, FiniteSetTheorems, TLAPS

\* The rows a deletion cascades to, and those that wait for one.
Rows == {"member", "key", "review"}
Ending == Rows \cup {"project", "drop"}

\* What a statement of w reads or inserts under: a project it has looked up.
Looked == {"user", "current", "count", "select", "newuser", "newmember", "newkey", "newreview",
           "flush", "unmember", "unkey", "touch", "drop", "cascade"}

ReadingFits(w) == pc[w] \in Looked => at[w].project # 0

\* What w can have written where it is: a request writes the row of one table,
\* after the account it creates or the key it touches.
WritesFit(w) ==
  /\ pc[w] = "idle" => writes[w] = {}
  /\ pc[w] \notin {"cascade", "commit"} => \A y \in writes[w] : y.op \in {"user", "touch"}
  /\ \A y \in writes[w] : pc[w] = "cascade" => y.op \in {"user", "touch", "drop"}
  /\ \A y, z \in writes[w] :
       /\ y.op = "drop" => z.op \in {"user", "touch", "drop", "cascade"}
       /\ y.op = "project" => z.op \in {"project", "member"} /\ z.project = y.id /\ y.id # 0
       /\ y.op = z.op /\ y.op \in {"project", "member"} => y = z

\* Nobody but w has written anything with an operation among ops.
Alone(w, ops) == \A x \in Workers \ {w} : \A z \in writes[x] : z.op \notin ops

\* What the locks buy.  A deletion and a creation keep every other transaction
\* out of the project; what is inserted under one finds it there until it is
\* committed, and it is the only membership of that person.
LocksFit(w) ==
  \A y \in writes[w] :
    /\ y.op = "drop" => /\ y.id = project /\ y.project = project /\ project # 0
                        /\ Alone(w, Ending)
    /\ y.op = "project" => project = 0 /\ Alone(w, Ending)
    /\ y.op \in Rows => \/ project # 0 /\ y.project = project
                        \/ project = 0 /\ \E z \in writes[w] : z.op = "project"
    /\ y.op = "member" =>
         /\ \A m \in members : ~(m.user = y.user /\ m.project = y.project)
         /\ \A x \in Workers \ {w} : \A z \in writes[x] :
              z.op = "member" => ~(z.user = y.user /\ z.project = y.project)

\* No project, no rows.
Empty == project = 0 => members = {} /\ keys = {} /\ opened = {}

\* The inductive invariant.  NoOrphans and OneRole are about committed rows;
\* what makes them last is what the open transactions keep from each other.
MembershipInv ==
  /\ MembershipTypeOK
  /\ \A w \in Workers : ReadingFits(w) /\ WritesFit(w) /\ LocksFit(w)
  /\ NoOrphans /\ OneRole /\ Empty
  /\ IsFiniteSet(members)
  /\ nextId # 0
-----------------------------------------------------------------------------
(* Steps that change no table                                              *)

\* What is private to the other transactions stays as it is.
LEMMA OthersFit ==
  ASSUME MembershipInv, NEW w \in Workers, NEW x \in Workers \ {w},
         UNCHANGED tables, pc'[x] = pc[x], at'[x] = at[x], writes'[x] = writes[x],
         LocksFit(x)'
  PROVE  (ReadingFits(x) /\ WritesFit(x) /\ LocksFit(x))'
BY DEF MembershipInv, ReadingFits, WritesFit

\* A transaction that ends without a commit takes its locks with it.
LEMMA RefuseKeeps ==
  ASSUME MembershipInv, NEW w \in Workers, Refuse(w)
  PROVE  MembershipInv'
<1> USE DEF MembershipInv
<1>1. /\ UNCHANGED tables /\ UNCHANGED nextId
      /\ pc'[w] = "idle" /\ writes'[w] = {}
      /\ \A x \in Workers \ {w} : pc'[x] = pc[x] /\ at'[x] = at[x] /\ writes'[x] = writes[x]
  BY DEF Refuse, Release, MembershipTypeOK
<1>2. MembershipTypeOK'
  <2>1. /\ pc' \in [Workers -> PC] /\ req' \in [Workers -> Request]
        /\ at' \in [Workers -> Reading] /\ writes' \in [Workers -> SUBSET Write]
    BY MembershipAssumption DEF Refuse, Release, MembershipTypeOK, PC, NoRequest, NoReading,
                                Request, Reading, Role
  <2>2. QED
    BY <2>1 DEF Refuse, MembershipTypeOK, tables
<1>3. (ReadingFits(w) /\ WritesFit(w) /\ LocksFit(w))'
  BY <1>1 DEF ReadingFits, WritesFit, LocksFit, Looked
<1>4. ASSUME NEW x \in Workers \ {w} PROVE (ReadingFits(x) /\ WritesFit(x) /\ LocksFit(x))'
  <2>1. ASSUME NEW ops, Alone(x, ops) PROVE Alone(x, ops)'
    BY <1>1, <2>1 DEF Alone
  <2>2. LocksFit(x)'
    BY <1>1, <2>1 DEF LocksFit, tables
  <2>3. QED
    BY <1>1, <2>2, OthersFit
<1>5. (NoOrphans /\ OneRole /\ Empty /\ IsFiniteSet(members))'
  BY <1>1 DEF NoOrphans, OneRole, Empty, tables
<1>6. QED
  BY <1>1, <1>2, <1>3, <1>4, <1>5

\* A statement that only reads moves on with what it read.
LEMMA GotoKeeps ==
  ASSUME MembershipInv, NEW w \in Workers, NEW where \in PC \ {"idle", "cascade"},
         NEW reading \in Reading, where \in Looked => reading.project # 0,
         pc[w] \notin {"idle", "cascade", "commit"}, Goto(w, where, reading)
  PROVE  MembershipInv'
<1> USE DEF MembershipInv
<1>1. /\ UNCHANGED tables /\ UNCHANGED <<nextId, writes>>
      /\ pc'[w] = where /\ at'[w] = reading
      /\ \A x \in Workers \ {w} : pc'[x] = pc[x] /\ at'[x] = at[x]
  BY DEF Goto, MembershipTypeOK
<1>2. MembershipTypeOK'
  BY DEF Goto, MembershipTypeOK, tables
<1>3. \A x \in Workers : LocksFit(x)'
  BY <1>1 DEF LocksFit, Alone, tables
<1>4. (ReadingFits(w) /\ WritesFit(w))'
  BY <1>1 DEF ReadingFits, WritesFit
<1>5. \A x \in Workers \ {w} : (ReadingFits(x) /\ WritesFit(x) /\ LocksFit(x))'
  BY <1>1, <1>3, OthersFit
<1>6. (NoOrphans /\ OneRole /\ Empty /\ IsFiniteSet(members))'
  BY <1>1 DEF NoOrphans, OneRole, Empty, tables
<1>7. QED
  BY <1>1, <1>2, <1>3, <1>4, <1>5, <1>6

\* A request arrives with nothing written and nothing looked up.
LEMMA BeginKeeps ==
  ASSUME MembershipInv, NEW w \in Workers, NEW kind \in Kinds, NEW actor \in Users,
         NEW user \in Users, NEW role \in Role, NEW key \in Nat,
         NEW where \in {"slug", "require", "key"},
         Begin(w, kind, actor, user, role, key, where)
  PROVE  MembershipInv'
<1> USE DEF MembershipInv
<1>1. /\ UNCHANGED tables /\ UNCHANGED <<nextId, at, writes>>
      /\ pc'[w] = where /\ writes[w] = {}
      /\ \A x \in Workers \ {w} : pc'[x] = pc[x]
  BY DEF Begin, MembershipTypeOK, WritesFit
<1>2. MembershipTypeOK'
  BY MembershipAssumption DEF Begin, MembershipTypeOK, tables, PC, Request
<1>3. \A x \in Workers : LocksFit(x)'
  BY <1>1 DEF LocksFit, Alone, tables
<1>4. (ReadingFits(w) /\ WritesFit(w))'
  BY <1>1 DEF ReadingFits, WritesFit, Looked
<1>5. \A x \in Workers \ {w} : (ReadingFits(x) /\ WritesFit(x) /\ LocksFit(x))'
  BY <1>1, <1>3, OthersFit
<1>6. (NoOrphans /\ OneRole /\ Empty /\ IsFiniteSet(members))'
  BY <1>1 DEF NoOrphans, OneRole, Empty, tables
<1>7. QED
  BY <1>1, <1>2, <1>3, <1>4, <1>5, <1>6

-----------------------------------------------------------------------------
(* Statements that write                                                   *)

\* What a statement of w leaves as it was, whatever it writes.
LEMMA WriteFrame ==
  ASSUME MembershipInv, NEW w \in Workers, NEW after \in PC, NEW W \in SUBSET Write,
         UNCHANGED tables, UNCHANGED <<served, req, at>>, nextId' \in Nat \ {0},
         pc' = [pc EXCEPT ![w] = after], writes' = [writes EXCEPT ![w] = W],
         (ReadingFits(w) /\ WritesFit(w) /\ LocksFit(w))',
         \A x \in Workers \ {w} : LocksFit(x)'
  PROVE  MembershipInv'
<1> USE DEF MembershipInv
<1>1. MembershipTypeOK'
  BY DEF MembershipTypeOK, tables
<1>2. \A x \in Workers \ {w} : pc'[x] = pc[x] /\ at'[x] = at[x] /\ writes'[x] = writes[x]
  BY DEF MembershipTypeOK
<1>3. \A x \in Workers \ {w} : (ReadingFits(x) /\ WritesFit(x) /\ LocksFit(x))'
  BY <1>2, OthersFit
<1>4. (NoOrphans /\ OneRole /\ Empty /\ IsFiniteSet(members))'
  BY DEF NoOrphans, OneRole, Empty, tables
<1>5. QED
  BY <1>1, <1>3, <1>4

\* A row version that neither inserts nor deletes a row of the project.
LEMMA PutKeeps ==
  ASSUME MembershipInv, NEW w \in Workers,
         NEW op \in {"user", "touch", "role", "unmember", "unkey", "cascade"},
         NEW id \in Nat, NEW user \in Users, NEW role \in Role, NEW after \in PC,
         after \notin {"idle", "cascade"}, after \in Looked => at[w].project # 0,
         pc[w] \notin {"idle", "commit"}, pc[w] = "cascade" => op = "cascade",
         op \notin {"user", "touch"} => after = "commit",
         nextId' \in Nat \ {0}, Put(w, op, id, user, role, after)
  PROVE  MembershipInv'
<1> DEFINE v == [op |-> op, id |-> id, project |-> at[w].project, user |-> user, role |-> role]
           W == writes[w] \cup {v}
<1>1. /\ v \in Write /\ W \in SUBSET Write
      /\ UNCHANGED tables /\ UNCHANGED <<served, req, at>>
      /\ pc' = [pc EXCEPT ![w] = after] /\ writes' = [writes EXCEPT ![w] = W]
      /\ pc'[w] = after /\ writes'[w] = W
      /\ \A x \in Workers \ {w} : writes'[x] = writes[x]
  BY DEF Put, MembershipInv, MembershipTypeOK, Write, Reading
<1>2. ReadingFits(w)'
  BY <1>1 DEF ReadingFits
<1>3. \A y \in writes[w] : y.op \in {"user", "touch"} \/ (pc[w] = "cascade" /\ y.op = "drop")
  BY DEF MembershipInv, WritesFit
<1>4. v.op = op
  OBVIOUS
<1> HIDE DEF v
<1>5. WritesFit(w)'
  BY <1>1, <1>3, <1>4 DEF WritesFit
<1>6. LocksFit(w)'
  <2>1. LocksFit(w)
    BY DEF MembershipInv
  <2>2. QED
    BY <1>1, <1>3, <1>4, <2>1 DEF LocksFit, Alone, tables, Rows
<1>7. ASSUME NEW x \in Workers \ {w} PROVE LocksFit(x)'
  <2>1. LocksFit(x)
    BY DEF MembershipInv
  <2>2. ASSUME Alone(x, Ending) PROVE Alone(x, Ending)'
    BY <1>1, <1>4, <2>2 DEF Alone, Ending, Rows
  <2>3. QED
    BY <1>1, <1>4, <2>1, <2>2 DEF LocksFit, tables
<1>8. QED
  BY <1>1, <1>2, <1>5, <1>6, <1>7, WriteFrame

\* A row inserted under the project: nobody deletes it before the insert commits.
LEMMA InsertKeeps ==
  ASSUME MembershipInv, NEW w \in Workers, NEW op \in Rows,
         pc[w] \in {"newmember", "newkey", "newreview"},
         project = at[w].project, Others(w, {"drop"}, project) = {},
         op = "member" =>
           /\ MemberRow(w) = {}
           /\ \A x \in Workers \ {w} : \A y \in writes[x] :
                y.op = "member" => ~(y.user = req[w].user /\ y.project = project),
         Insert(w, op, "commit")
  PROVE  MembershipInv'
<1> DEFINE v == [op |-> op, id |-> nextId, project |-> at[w].project, user |-> req[w].user,
                 role |-> req[w].role]
           W == writes[w] \cup {v}
<1>1. /\ v \in Write /\ W \in SUBSET Write
      /\ UNCHANGED tables /\ UNCHANGED <<served, req, at>>
      /\ pc' = [pc EXCEPT ![w] = "commit"] /\ writes' = [writes EXCEPT ![w] = W]
      /\ pc'[w] = "commit" /\ writes'[w] = W /\ nextId' \in Nat \ {0} /\ "commit" \in PC
      /\ \A x \in Workers \ {w} : writes'[x] = writes[x]
  BY DEF Insert, Put, MembershipInv, MembershipTypeOK, Write, Reading, Request, Rows, PC
<1>2. project # 0
  BY DEF MembershipInv, ReadingFits, Looked
<1>3. \A y \in writes[w] : y.op \in {"user", "touch"}
  BY DEF MembershipInv, WritesFit
<1>4. v.op = op /\ v.project = project /\ v.user = req[w].user
  OBVIOUS
<1> HIDE DEF v
<1>5. (ReadingFits(w) /\ WritesFit(w))'
  BY <1>1, <1>3, <1>4 DEF ReadingFits, WritesFit, Looked, Rows
<1>6. LocksFit(w)'
  <2>1. op = "member" => \A m \in members : ~(m.user = req[w].user /\ m.project = project)
    BY DEF MemberRow
  <2>2. QED
    BY <1>1, <1>2, <1>3, <1>4, <2>1 DEF LocksFit, tables, Rows
<1>7. ASSUME NEW x \in Workers \ {w} PROVE LocksFit(x)'
  <2>1. LocksFit(x)
    BY DEF MembershipInv
  <2>2. \A y \in writes[x] : y.op \notin {"drop", "project"}
    BY <1>2, <2>1 DEF Others, LocksFit
  <2>3. QED
    BY <1>1, <1>4, <2>1, <2>2 DEF LocksFit, tables, Rows
<1>8. QED
  BY <1>1, <1>5, <1>6, <1>7, WriteFrame

\* The row of the project, deleted once nobody has inserted under it.
LEMMA DropKeeps ==
  ASSUME MembershipInv, NEW w \in Workers, pc[w] = "drop", project = at[w].project,
         Others(w, {"drop", "member", "key", "review"}, project) = {},
         Write1(w, "drop", project, "cascade")
  PROVE  MembershipInv'
<1> DEFINE v == [op |-> "drop", id |-> project, project |-> at[w].project, user |-> req[w].user,
                 role |-> req[w].role]
           W == writes[w] \cup {v}
<1>1. /\ v \in Write /\ W \in SUBSET Write
      /\ UNCHANGED tables /\ UNCHANGED <<served, req, at>>
      /\ pc' = [pc EXCEPT ![w] = "cascade"] /\ writes' = [writes EXCEPT ![w] = W]
      /\ pc'[w] = "cascade" /\ writes'[w] = W /\ nextId' \in Nat \ {0} /\ "cascade" \in PC
      /\ \A x \in Workers \ {w} : writes'[x] = writes[x]
  BY DEF Write1, Put, MembershipInv, MembershipTypeOK, Write, Reading, Request, PC
<1>2. project # 0
  BY DEF MembershipInv, ReadingFits, Looked
<1>3. \A y \in writes[w] : y.op \in {"user", "touch"}
  BY DEF MembershipInv, WritesFit
<1>4. v.op = "drop" /\ v.project = project /\ v.id = project
  OBVIOUS
<1> HIDE DEF v
<1>5. (ReadingFits(w) /\ WritesFit(w))'
  BY <1>1, <1>2, <1>3, <1>4 DEF ReadingFits, WritesFit, Looked
<1>6. ASSUME NEW x \in Workers \ {w} PROVE \A z \in writes[x] : z.op \notin Ending
  <2>1. LocksFit(x)
    BY DEF MembershipInv
  <2>2. \A z \in writes[x] : z.op \in {"drop", "member", "key", "review"} => z.project # project
    BY DEF Others
  <2>3. QED
    BY <1>2, <2>1, <2>2 DEF LocksFit, Ending, Rows
<1>7. LocksFit(w)'
  BY <1>1, <1>2, <1>3, <1>4, <1>6 DEF LocksFit, Alone, tables, Rows
<1>8. \A x \in Workers \ {w} : LocksFit(x)'
  BY <1>1, <1>6 DEF LocksFit, Ending, Rows
<1>9. QED
  BY <1>1, <1>5, <1>7, <1>8, WriteFrame

\* A new project with its lead: nobody else can see it, or take the slug.
LEMMA CreateKeeps ==
  ASSUME MembershipInv, NEW w \in Workers, newproject(w)
  PROVE  MembershipInv'
<1>1. CASE project # 0
  BY <1>1, RefuseKeeps DEF newproject
<1>2. CASE project = 0
  <2> DEFINE p == [op |-> "project", id |-> nextId, project |-> nextId,
                   user |-> req[w].actor, role |-> "lead"]
             m == [op |-> "member", id |-> nextId + 1, project |-> nextId,
                   user |-> req[w].actor, role |-> "lead"]
             W == {p, m}
  <2>1. /\ p \in Write /\ m \in Write /\ W \in SUBSET Write
        /\ UNCHANGED tables /\ UNCHANGED <<served, req, at>>
        /\ pc' = [pc EXCEPT ![w] = "commit"] /\ writes' = [writes EXCEPT ![w] = W]
        /\ pc'[w] = "commit" /\ writes'[w] = W /\ nextId' \in Nat \ {0} /\ "commit" \in PC
        /\ \A x \in Workers \ {w} : writes'[x] = writes[x]
    BY <1>2 DEF newproject, MembershipInv, MembershipTypeOK, Write, Request, PC, Role
  <2>2. /\ p.op = "project" /\ p.id = nextId /\ p.project = nextId
        /\ m.op = "member" /\ m.project = nextId /\ nextId # 0
    BY DEF MembershipInv
  <2> HIDE DEF p, m
  <2>3. (ReadingFits(w) /\ WritesFit(w))'
    BY <2>1, <2>2 DEF ReadingFits, WritesFit, Looked
  <2>4. ASSUME NEW x \in Workers \ {w} PROVE \A z \in writes[x] : z.op \notin Ending
    <3>1. LocksFit(x)
      BY DEF MembershipInv
    <3>2. \A z \in writes[x] : z.op \notin {"project", "drop"}
      BY DEF newproject, At, Holders
    <3>3. QED
      BY <1>2, <3>1, <3>2 DEF LocksFit, Ending, Rows
  <2>5. members = {}
    BY <1>2 DEF MembershipInv, Empty
  <2>6. LocksFit(w)'
    <3>1. Alone(w, Ending)'
      BY <2>1, <2>4 DEF Alone
    <3>2. \A x \in Workers \ {w} : \A z \in writes'[x] : z.op # "member"
      BY <2>1, <2>4 DEF Ending, Rows
    <3>3. QED
      BY <1>2, <2>1, <2>2, <2>5, <3>1, <3>2 DEF LocksFit, tables, Rows
  <2>7. \A x \in Workers \ {w} : LocksFit(x)'
    BY <2>1, <2>4 DEF LocksFit, Ending, Rows
  <2>8. QED
    BY <2>1, <2>3, <2>6, <2>7, WriteFrame
<1>3. QED
  BY <1>1, <1>2

-----------------------------------------------------------------------------
(* The commit                                                              *)

\* The row of members that a commit makes of one that was there, and of an insert.
Updated(w, n) ==
  IF Wrote(w, "role", n.id) = {} THEN n
  ELSE [n EXCEPT !.role = (CHOOSE x \in Wrote(w, "role", n.id) : TRUE).role]
Inserted(y) == [id |-> y.id, project |-> y.project, user |-> y.user, role |-> y.role]

\* What a commit makes of the tables, row by row: a row is there after it if it
\* was there and its project is not gone, or if the transaction inserted it.
LEMMA CommitRows ==
  ASSUME MembershipInv, NEW w \in Workers, Commit(w)
  PROVE  /\ \A m \in members' :
              \/ \E n \in members : /\ n.id = m.id /\ n.user = m.user /\ n.project = m.project
                                    /\ m = Updated(w, n) /\ n.id \notin Ids(w, "unmember")
                                    /\ ~ \E y \in writes[w] : y.op = "drop" /\ y.id = n.project
              \/ \E y \in writes[w] : /\ y.op = "member" /\ m = Inserted(y)
                                      /\ y.user = m.user /\ y.project = m.project
         /\ \A k \in keys' :
              \/ \E j \in keys : /\ j.project = k.project
                                 /\ ~ \E y \in writes[w] : y.op = "drop" /\ y.id = j.project
              \/ \E y \in writes[w] : y.op = "key" /\ y.project = k.project
         /\ \A r \in opened' :
              \/ r \in opened /\ ~ \E y \in writes[w] : y.op = "drop" /\ y.id = r.project
              \/ \E y \in writes[w] : y.op = "review" /\ y.project = r.project
<1>1. MembershipTypeOK
  BY DEF MembershipInv
<1>2. ASSUME NEW m \in members'
      PROVE \/ \E n \in members : /\ n.id = m.id /\ n.user = m.user /\ n.project = m.project
                                  /\ m = Updated(w, n) /\ n.id \notin Ids(w, "unmember")
                                  /\ ~ \E y \in writes[w] : y.op = "drop" /\ y.id = n.project
            \/ \E y \in writes[w] : /\ y.op = "member" /\ m = Inserted(y)
                                    /\ y.user = m.user /\ y.project = m.project
  <2>1. CASE \E y \in writes[w] : y.op = "member" /\ m = Inserted(y)
    BY <2>1 DEF Inserted
  <2>2. CASE ~ \E y \in writes[w] : y.op = "member" /\ m = Inserted(y)
    <3>1. PICK n \in members :
            /\ n.project \notin Ids(w, "drop") /\ n.id \notin Ids(w, "unmember")
            /\ m = Updated(w, n)
      BY <1>2, <2>2 DEF Commit, Updated, Inserted
    <3>2. n.id = m.id /\ n.user = m.user /\ n.project = m.project
      BY <1>1, <3>1 DEF MembershipTypeOK, Member, Updated
    <3>3. QED
      BY <3>1, <3>2 DEF Ids
  <2>3. QED
    BY <2>1, <2>2
<1>3. ASSUME NEW k \in keys'
      PROVE \/ \E j \in keys : /\ j.project = k.project
                               /\ ~ \E y \in writes[w] : y.op = "drop" /\ y.id = j.project
            \/ \E y \in writes[w] : y.op = "key" /\ y.project = k.project
  <2>1. CASE \E y \in writes[w] : /\ y.op = "key"
                                  /\ k = [id |-> y.id, project |-> y.project, user |-> y.user,
                                          revoked |-> FALSE]
    BY <2>1
  <2>2. CASE ~ \E y \in writes[w] : /\ y.op = "key"
                                    /\ k = [id |-> y.id, project |-> y.project, user |-> y.user,
                                            revoked |-> FALSE]
    <3>1. PICK j \in keys : /\ j.project \notin Ids(w, "drop")
                            /\ k = [j EXCEPT !.revoked = @ \/ j.id \in Ids(w, "unkey")]
      BY <1>3, <2>2 DEF Commit
    <3>2. j.project = k.project
      BY <1>1, <3>1 DEF MembershipTypeOK, Key
    <3>3. QED
      BY <3>1, <3>2 DEF Ids
  <2>3. QED
    BY <2>1, <2>2
<1>4. ASSUME NEW r \in opened'
      PROVE \/ r \in opened /\ ~ \E y \in writes[w] : y.op = "drop" /\ y.id = r.project
            \/ \E y \in writes[w] : y.op = "review" /\ y.project = r.project
  BY <1>4 DEF Commit, Ids
<1>5. QED
  BY <1>2, <1>3, <1>4

\* The rows a commit writes have the types of their tables.
LEMMA CommitTypes ==
  ASSUME MembershipInv, NEW w \in Workers, Commit(w)
  PROVE  MembershipTypeOK'
<1>1. MembershipTypeOK
  BY DEF MembershipInv
<1>2. accounts' \in SUBSET Users
  BY <1>1 DEF MembershipTypeOK, Commit, Write
<1>3. project' \in Nat
  <2>1. Ids(w, "project") \subseteq Nat
    BY <1>1 DEF MembershipTypeOK, Ids, Write
  <2>2. QED
    BY <1>1, <2>1 DEF MembershipTypeOK, Commit
<1>4. members' \in SUBSET Member
  <2>1. ASSUME NEW m \in members PROVE Updated(w, m) \in Member
    <3>1. \A x \in Wrote(w, "role", m.id) : x.role \in Role
      BY <1>1 DEF MembershipTypeOK, Wrote, Write
    <3>2. QED
      BY <1>1, <3>1 DEF MembershipTypeOK, Member, Updated
  <2>2. ASSUME NEW x \in writes[w]
        PROVE Inserted(x) \in Member
    BY <1>1 DEF MembershipTypeOK, Write, Member, Inserted
  <2>3. QED
    BY <2>1, <2>2 DEF Commit, Updated, Inserted
<1>5. keys' \in SUBSET Key
  <2>1. ASSUME NEW k \in keys
        PROVE [k EXCEPT !.revoked = @ \/ k.id \in Ids(w, "unkey")] \in Key
    BY <1>1 DEF MembershipTypeOK, Key
  <2>2. ASSUME NEW x \in writes[w]
        PROVE [id |-> x.id, project |-> x.project, user |-> x.user, revoked |-> FALSE] \in Key
    BY <1>1 DEF MembershipTypeOK, Write, Key
  <2>3. QED
    BY <2>1, <2>2 DEF Commit
<1>6. opened' \in SUBSET ReviewRow
  BY <1>1 DEF MembershipTypeOK, Commit, Write, ReviewRow
<1>7. /\ pc' \in [Workers -> PC] /\ req' \in [Workers -> Request]
      /\ at' \in [Workers -> Reading] /\ writes' \in [Workers -> SUBSET Write]
  BY <1>1, MembershipAssumption DEF Commit, Release, MembershipTypeOK, PC, NoRequest, NoReading,
                                    Request, Reading, Role
<1>8. nextId' \in Nat /\ served' \in 0..MaxRequests
  BY <1>1 DEF Commit, MembershipTypeOK
<1>9. QED
  BY <1>2, <1>3, <1>4, <1>5, <1>6, <1>7, <1>8 DEF MembershipTypeOK

\* A commit that deletes the project leaves no row of it and no rival.
LEMMA DropCommits ==
  ASSUME MembershipInv, NEW w \in Workers, Commit(w),
         NEW y \in writes[w], y.op = "drop"
  PROVE  /\ project' = 0 /\ members' = {} /\ keys' = {} /\ opened' = {}
         /\ Alone(w, Ending)
<1>1. y.id = project /\ Alone(w, Ending)
  BY DEF MembershipInv, LocksFit
<1>2. \A z \in writes[w] : z.op \notin Rows
  BY DEF MembershipInv, WritesFit, Rows
<1>3. project' = 0
  BY <1>1 DEF Commit, Ids
<1>4. members' = {} /\ keys' = {} /\ opened' = {}
  BY <1>1, <1>2, CommitRows DEF MembershipInv, NoOrphans, Rows
<1>5. QED
  BY <1>1, <1>3, <1>4

\* A commit that creates the project leaves one row of it, its first lead's.
LEMMA CreateCommits ==
  ASSUME MembershipInv, NEW w \in Workers, Commit(w),
         NEW y \in writes[w], y.op = "project"
  PROVE  /\ project' = y.id /\ project' # 0 /\ keys' = {} /\ opened' = {}
         /\ \A m \in members' : m.project = project'
         /\ \A m, n \in members' : m = n
         /\ Alone(w, Ending)
<1>1. /\ project = 0 /\ Alone(w, Ending)
      /\ members = {} /\ keys = {} /\ opened = {}
  BY DEF MembershipInv, LocksFit, Empty
<1>2. \A z \in writes[w] : /\ z.op \in {"project", "member"} /\ z.project = y.id /\ y.id # 0
                           /\ z.op = "project" => z = y
  BY DEF MembershipInv, WritesFit
<1>3. project' = y.id
  <2>1. Ids(w, "drop") = {} /\ Ids(w, "project") = {y.id}
    BY <1>2 DEF Ids
  <2>2. QED
    BY <2>1 DEF Commit
<1>4. keys' = {} /\ opened' = {}
  BY <1>1, <1>2, CommitRows
<1>5. \A m \in members' : \E z \in writes[w] : /\ z.op = "member" /\ m = Inserted(z)
                                               /\ z.project = m.project
  BY <1>1, CommitRows
<1>6. \A x, z \in writes[w] : x.op = "member" /\ z.op = "member" => x = z
  BY DEF MembershipInv, WritesFit
<1>7. QED
  BY <1>1, <1>2, <1>3, <1>4, <1>5, <1>6

\* A commit inserts one membership at the most.
LEMMA CommitFinite ==
  ASSUME MembershipInv, NEW w \in Workers, Commit(w)
  PROVE  IsFiniteSet(members')
<1> DEFINE T == {Updated(w, n) : n \in members}
           New == {y \in writes[w] : y.op = "member"}
           f == [n \in members |-> Updated(w, n)]
<1>1. IsFiniteSet(T)
  <2>1. f \in Surjection(members, T)
    BY DEF Surjection
  <2>2. IsFiniteSet(members)
    BY DEF MembershipInv
  <2> HIDE DEF f, T
  <2>3. QED
    BY <2>1, <2>2, FS_Surjection
<1>2. IsFiniteSet({Inserted(y) : y \in New})
  <2>1. \A y, z \in New : y = z
    BY DEF MembershipInv, WritesFit
  <2>2. CASE New = {}
    BY <2>2, FS_EmptySet
  <2>3. CASE New # {}
    <3>1. PICK y \in New : TRUE
      BY <2>3
    <3>2. {Inserted(z) : z \in New} = {Inserted(y)}
      BY <2>1, <3>1
    <3>3. QED
      BY <3>2, FS_Singleton
  <2>4. QED
    BY <2>2, <2>3
<1>3. members' \subseteq T \cup {Inserted(y) : y \in New}
  BY CommitRows
<1> HIDE DEF T, New
<1>4. QED
  BY <1>1, <1>2, <1>3, FS_Union, FS_Subset

\* Any other commit leaves the project as it was, with rows that belong to it,
\* one for each member.
LEMMA RowsCommit ==
  ASSUME MembershipInv, NEW w \in Workers, Commit(w),
         \A y \in writes[w] : y.op \notin {"drop", "project"}
  PROVE  /\ project' = project
         /\ NoOrphans' /\ OneRole' /\ Empty'
         /\ \A m \in members' :
              \/ \E n \in members : n.user = m.user /\ n.project = m.project
              \/ \E y \in writes[w] : y.op = "member" /\ y.user = m.user /\ y.project = m.project
<1>1. project' = project
  <2>1. Ids(w, "drop") = {} /\ Ids(w, "project") = {}
    BY DEF Ids
  <2>2. QED
    BY <2>1 DEF Commit
<1>2. \A y \in writes[w] : y.op \in Rows => project # 0 /\ y.project = project
  BY DEF MembershipInv, LocksFit
<1>3. NoOrphans'
  BY <1>1, <1>2, CommitRows DEF MembershipInv, NoOrphans, Rows
<1>4. Empty'
  BY <1>1, <1>2, CommitRows DEF MembershipInv, Empty, Rows
<1>5. ASSUME NEW m \in members', NEW n \in members', m.user = n.user, m.project = n.project
      PROVE  m = n
  <2> DEFINE Old(r) == \E o \in members : /\ o.user = r.user /\ o.project = r.project
                                          /\ r = Updated(w, o)
             New(r) == \E y \in writes[w] : /\ y.op = "member" /\ r = Inserted(y)
                                            /\ y.user = r.user /\ y.project = r.project
  <2>1. (Old(m) \/ New(m)) /\ (Old(n) \/ New(n))
    BY CommitRows
  <2>2. CASE Old(m) /\ Old(n)
    BY <1>5, <2>2 DEF MembershipInv, OneRole
  <2>3. CASE (Old(m) /\ New(n)) \/ (New(m) /\ Old(n))
    BY <1>5, <2>3 DEF MembershipInv, LocksFit
  <2>4. CASE New(m) /\ New(n)
    BY <2>4 DEF MembershipInv, WritesFit
  <2>5. QED
    BY <2>1, <2>2, <2>3, <2>4
<1>6. QED
  BY <1>1, <1>3, <1>4, <1>5, CommitRows DEF OneRole

\* A commit keeps what the other transactions rely on.
LEMMA CommitKeeps ==
  ASSUME MembershipInv, NEW w \in Workers, Commit(w)
  PROVE  MembershipInv'
<1>1. /\ pc'[w] = "idle" /\ writes'[w] = {} /\ nextId' = nextId
      /\ \A x \in Workers \ {w} : pc'[x] = pc[x] /\ at'[x] = at[x] /\ writes'[x] = writes[x]
  BY DEF MembershipInv, Commit, Release, MembershipTypeOK
<1>2. (ReadingFits(w) /\ WritesFit(w) /\ LocksFit(w))'
  BY <1>1 DEF ReadingFits, WritesFit, LocksFit, Looked
<1>3. \A x \in Workers \ {w} : (ReadingFits(x) /\ WritesFit(x))'
  BY <1>1 DEF MembershipInv, ReadingFits, WritesFit
<1>4. ASSUME NEW x \in Workers \ {w}, NEW ops, Alone(x, ops) PROVE Alone(x, ops)'
  BY <1>1, <1>4 DEF Alone
<1>5. CASE \E y \in writes[w] : y.op = "drop"
  <2>1. /\ project' = 0 /\ members' = {} /\ keys' = {} /\ opened' = {}
        /\ Alone(w, Ending)
    BY <1>5, DropCommits
  <2>2. \A x \in Workers \ {w} : LocksFit(x)'
    BY <1>1, <2>1 DEF LocksFit, Alone, Ending, Rows
  <2>3. (NoOrphans /\ OneRole /\ Empty)'
    BY <2>1 DEF NoOrphans, OneRole, Empty
  <2>4. QED
    BY <1>1, <1>2, <1>3, <2>2, <2>3, CommitTypes, CommitFinite DEF MembershipInv
<1>6. CASE \E y \in writes[w] : y.op = "project"
  <2>1. /\ project' # 0 /\ keys' = {} /\ opened' = {} /\ Alone(w, Ending)
        /\ \A m \in members' : m.project = project'
        /\ \A m, n \in members' : m = n
    BY <1>6, CreateCommits
  <2>2. \A x \in Workers \ {w} : LocksFit(x)'
    BY <1>1, <2>1 DEF LocksFit, Alone, Ending, Rows
  <2>3. (NoOrphans /\ OneRole /\ Empty)'
    BY <2>1 DEF NoOrphans, OneRole, Empty
  <2>4. QED
    BY <1>1, <1>2, <1>3, <2>2, <2>3, CommitTypes, CommitFinite DEF MembershipInv
<1>7. CASE \A y \in writes[w] : y.op \notin {"drop", "project"}
  <2>1. /\ project' = project /\ NoOrphans' /\ OneRole' /\ Empty'
        /\ \A m \in members' :
             \/ \E n \in members : n.user = m.user /\ n.project = m.project
             \/ \E y \in writes[w] : y.op = "member" /\ y.user = m.user /\ y.project = m.project
    BY <1>7, RowsCommit
  <2>2. ASSUME NEW x \in Workers \ {w} PROVE LocksFit(x)'
    <3>1. LocksFit(x)
      BY DEF MembershipInv
    <3>2. ASSUME NEW y \in writes[x], y.op = "member"
          PROVE  /\ \A m \in members' : ~(m.user = y.user /\ m.project = y.project)
                 /\ \A v \in Workers \ {x} : \A z \in writes'[v] :
                      z.op = "member" => ~(z.user = y.user /\ z.project = y.project)
      BY <1>1, <2>1, <3>1, <3>2 DEF LocksFit
    <3>3. QED
      BY <1>1, <1>4, <2>1, <3>1, <3>2 DEF LocksFit
  <2>3. QED
    BY <1>1, <1>2, <1>3, <2>1, <2>2, CommitTypes, CommitFinite DEF MembershipInv
<1>8. QED
  BY <1>5, <1>6, <1>7
-----------------------------------------------------------------------------
(* Every step                                                              *)

LEMMA ArriveKeeps ==
  ASSUME MembershipInv, NEW w \in Workers, Arrive(w)
  PROVE  MembershipInv'
<1>1. "create" \in Kinds /\ "add" \in Kinds /\ "setrole" \in Kinds /\ "remove" \in Kinds
      /\ "delete" \in Kinds /\ "key" \in Kinds /\ "unkey" \in Kinds /\ "review" \in Kinds
      /\ "lead" \in Role /\ "dev" \in Role /\ Registered \subseteq Users
  BY MembershipAssumption DEF Kinds, Role
<1>2. \A k \in keys : k.id \in Nat /\ k.user \in Users
  BY DEF MembershipInv, MembershipTypeOK, Key
<1>3. CASE create_project(w)
  BY <1>1, <1>3, BeginKeeps DEF create_project
<1>4. CASE add_member(w)
  BY <1>1, <1>4, BeginKeeps DEF add_member
<1>5. CASE set_member_role(w)
  BY <1>1, <1>5, BeginKeeps DEF set_member_role
<1>6. CASE remove_member(w)
  BY <1>1, <1>6, BeginKeeps DEF remove_member
<1>7. CASE delete_project(w)
  BY <1>1, <1>7, BeginKeeps DEF delete_project
<1>8. CASE issue_key(w)
  BY <1>1, <1>8, BeginKeeps DEF issue_key
<1>9. CASE revoke_key(w)
  BY <1>1, <1>2, <1>9, BeginKeeps DEF revoke_key
<1>10. CASE review(w)
  BY <1>1, <1>2, <1>10, BeginKeeps DEF review
<1>11. QED
  BY <1>3, <1>4, <1>5, <1>6, <1>7, <1>8, <1>9, <1>10 DEF Arrive

\* SELECT count(*) returns a number.
LEMMA LeadsAreCounted == ASSUME MembershipInv PROVE \A p : count_leads(p) \in Nat
<1>1. \A p : {m \in members : m.project = p /\ m.role = "lead"} \subseteq members
  OBVIOUS
<1>2. QED
  BY <1>1, FS_Subset, FS_CardinalityType DEF MembershipInv, count_leads

\* The statements that only read.
LEMMA ReadKeeps ==
  ASSUME MembershipInv, NEW w \in Workers,
         \/ slug(w) \/ _require_lead(w) \/ by_email(w) \/ current(w) \/ count(w) \/ select(w)
         \/ by_key(w)
  PROVE  MembershipInv'
<1>1. MembershipTypeOK /\ at[w] \in Reading /\ req[w] \in Request /\ ReadingFits(w) /\ project \in Nat
  BY DEF MembershipInv, MembershipTypeOK
<1> DEFINE Next1(where, reading) ==
             /\ where \in PC \ {"idle", "cascade"} /\ reading \in Reading
             /\ where \in Looked => reading.project # 0
             /\ Goto(w, where, reading)
<1>2. ASSUME pc[w] \notin {"idle", "cascade", "commit"},
             Refuse(w) \/ \E where, reading : Next1(where, reading)
      PROVE  MembershipInv'
  BY <1>2, RefuseKeeps, GotoKeeps
<1>3. NoReading \in Reading
  BY DEF NoReading, Reading
<1>4. CASE slug(w)
  BY <1>2, <1>3, <1>4 DEF slug, PC, Looked
<1>5. CASE _require_lead(w)
  <2>1. CASE role_of(req[w].actor, project) # "lead"
    BY <1>2, <1>5, <2>1 DEF _require_lead
  <2>2. CASE role_of(req[w].actor, project) = "lead"
    <3>1. project # 0
      BY <2>2 DEF role_of
    <3>2. [NoReading EXCEPT !.project = project] \in Reading
          /\ [NoReading EXCEPT !.project = project].project # 0
      BY <1>1, <1>3, <3>1 DEF Reading
    <3>3. \E where \in AfterRequire(w) : Goto(w, where, [NoReading EXCEPT !.project = project])
      BY <1>5, <2>2 DEF _require_lead
    <3>4. AfterRequire(w) \subseteq PC \ {"idle", "cascade"}
      BY DEF AfterRequire, PC
    <3>5. QED
      BY <1>2, <1>5, <3>2, <3>3, <3>4 DEF _require_lead
  <2>3. QED
    BY <2>1, <2>2
<1>6. CASE by_email(w)
  <2>1. pc[w] = "user" /\ at[w].project # 0
    BY <1>1, <1>6 DEF by_email, ReadingFits, Looked
  <2>2. Refuse(w) \/ Goto(w, "current", at[w]) \/ Goto(w, "newuser", at[w])
    BY <1>6 DEF by_email
  <2>3. QED
    BY <1>1, <1>2, <2>1, <2>2 DEF PC
<1>7. CASE current(w)
  <2> DEFINE role == role_of(req[w].user, at[w].project)
             where == Current(w, role)
             reading == [at[w] EXCEPT !.role = role]
  <2>1. pc[w] = "current" /\ at[w].project # 0
    BY <1>1, <1>7 DEF current, ReadingFits, Looked
  <2>2. role \in Role \cup {"none"}
    BY <1>1 DEF role_of, MembershipTypeOK, Member
  <2>3. reading \in Reading /\ reading.project = at[w].project
    BY <1>1, <2>2 DEF Reading
  <2>4. where = "refuse" \/ where \in PC \ {"idle", "cascade"}
    BY DEF Current, PC
  <2>5. Refuse(w) \/ (where # "refuse" /\ Goto(w, where, reading))
    BY <1>7 DEF current
  <2> HIDE DEF where, reading
  <2>6. QED
    BY <1>2, <2>1, <2>3, <2>4, <2>5
<1>8. CASE count(w)
  <2>1. pc[w] = "count" /\ at[w].project # 0
    BY <1>1, <1>8 DEF count, ReadingFits, Looked
  <2> DEFINE reading == [at[w] EXCEPT !.leads = count_leads(at[w].project)]
  <2>2. Refuse(w) \/ Goto(w, "unmember", reading) \/ Goto(w, "select", reading)
    BY <1>8 DEF count
  <2>3. reading \in Reading /\ reading.project = at[w].project
    BY <1>1, LeadsAreCounted DEF Reading
  <2> HIDE DEF reading
  <2>4. QED
    BY <1>2, <2>1, <2>2, <2>3 DEF PC
<1>9. CASE select(w)
  <2> DEFINE row == (CHOOSE m \in MemberRow(w) : TRUE).id
             reading == [at[w] EXCEPT !.row = row]
  <2>1. pc[w] = "select" /\ at[w].project # 0
    BY <1>1, <1>9 DEF select, ReadingFits, Looked
  <2>2. CASE \E m \in MemberRow(w) : m.role # req[w].role
    <3>1. row \in Nat
      BY <1>1, <2>2 DEF MemberRow, MembershipTypeOK, Member
    <3>2. reading \in Reading /\ reading.project = at[w].project
      BY <1>1, <3>1 DEF Reading
    <3>3. Goto(w, "flush", reading)
      BY <1>9, <2>2 DEF select
    <3> HIDE DEF reading
    <3>4. QED
      BY <1>2, <2>1, <3>2, <3>3 DEF PC
  <2>3. CASE ~ \E m \in MemberRow(w) : m.role # req[w].role
    <3>1. Goto(w, "commit", at[w])
      BY <1>9, <2>3 DEF select
    <3>2. QED
      BY <1>1, <1>2, <2>1, <3>1 DEF PC, Looked
  <2>4. QED
    BY <2>2, <2>3
<1>10. CASE by_key(w)
  <2> DEFINE rows == {k \in keys : k.id = req[w].key /\ ~k.revoked}
             p == IF req[w].kind = "review" THEN {k.project : k \in rows} ELSE {at[w].project}
             reading == [at[w] EXCEPT !.project = CHOOSE q \in p : TRUE, !.row = req[w].key]
             where == IF req[w].kind = "review" THEN "touch" ELSE "unkey"
  <2>1. CASE \E k \in rows : k.project \in p
    <3>1. \A k \in keys : k.project = project /\ project # 0
      BY DEF MembershipInv, NoOrphans, Empty
    <3>2. project \in p /\ \A q \in p : q = project
      <4>1. CASE req[w].kind = "review"
        BY <2>1, <3>1, <4>1
      <4>2. CASE req[w].kind # "review"
        BY <2>1, <3>1, <4>2
      <4>3. QED
        BY <4>1, <4>2
    <3>3. (CHOOSE q \in p : TRUE) = project
      BY <3>2
    <3>4. reading \in Reading /\ reading.project # 0
      BY <1>1, <2>1, <3>1, <3>3 DEF Reading, Request
    <3>5. pc[w] = "key" /\ Goto(w, where, reading)
      BY <1>10, <2>1 DEF by_key
    <3>6. where \in PC \ {"idle", "cascade"}
      BY DEF PC
    <3> HIDE DEF reading, where
    <3>7. QED
      BY <1>2, <3>4, <3>5, <3>6
  <2>2. CASE ~ \E k \in rows : k.project \in p
    BY <1>2, <1>10, <2>2 DEF by_key
  <2>3. QED
    BY <2>1, <2>2
<1>11. QED
  BY <1>4, <1>5, <1>6, <1>7, <1>8, <1>9, <1>10

\* The statements that write.
LEMMA WriteKeeps ==
  ASSUME MembershipInv, NEW w \in Workers,
         \/ newuser(w) \/ newproject(w) \/ newmember(w) \/ newkey(w) \/ newreview(w)
         \/ flush(w) \/ unmember(w) \/ updatekey(w) \/ drop(w) \/ cascade(w)
  PROVE  MembershipInv'
<1>1. /\ MembershipTypeOK /\ at[w] \in Reading /\ req[w] \in Request /\ ReadingFits(w)
      /\ nextId \in Nat \ {0} /\ nextId + 1 \in Nat \ {0}
      /\ req[w].user \in Users /\ req[w].role \in Role /\ at[w].row \in Nat /\ at[w].project \in Nat
  BY DEF MembershipInv, MembershipTypeOK, Reading, Request
<1>2. CASE newuser(w)
  <2>1. Refuse(w) \/ Insert(w, "user", "current")
    BY <1>2 DEF newuser
  <2>2. pc[w] = "newuser" /\ at[w].project # 0
    BY <1>1, <1>2 DEF newuser, At, ReadingFits, Looked
  <2>3. CASE Insert(w, "user", "current")
    BY <1>1, <2>2, <2>3, PutKeeps DEF Insert, PC
  <2>4. QED
    BY <2>1, <2>3, RefuseKeeps
<1>3. CASE newproject(w)
  BY <1>3, CreateKeeps
<1>4. CASE newmember(w)
  <2>1. CASE Refuse(w)
    BY <2>1, RefuseKeeps
  <2>2. CASE ~Refuse(w)
    <3>1. /\ pc[w] = "newmember" /\ project = at[w].project /\ MemberRow(w) = {}
          /\ Insert(w, "member", "commit") /\ Holders(w) = {}
      BY <1>4, <2>2 DEF newmember, At
    <3>2. /\ Others(w, {"drop"}, project) = {}
          /\ {x \in Workers \ {w} : \E y \in writes[x] :
                y.op \in {"member", "unmember"} /\ y.project = project /\ y.user = req[w].user} = {}
      BY <3>1 DEF Holders
    <3>3. \A x \in Workers \ {w} : \A y \in writes[x] :
             y.op = "member" => ~(y.user = req[w].user /\ y.project = project)
      BY <3>2
    <3>4. QED
      BY <3>1, <3>2, <3>3, InsertKeeps DEF Rows
  <2>3. QED
    BY <2>1, <2>2
<1>5. CASE newkey(w)
  <2>1. CASE Refuse(w)
    BY <2>1, RefuseKeeps
  <2>2. CASE ~Refuse(w)
    <3>1. /\ pc[w] = "newkey" /\ project = at[w].project
          /\ Insert(w, "key", "commit") /\ Holders(w) = {}
      BY <1>5, <2>2 DEF newkey, At
    <3>2. Others(w, {"drop"}, project) = {}
      BY <3>1 DEF Holders
    <3>3. QED
      BY <3>1, <3>2, InsertKeeps DEF Rows
  <2>3. QED
    BY <2>1, <2>2
<1>6. CASE newreview(w)
  <2>1. CASE Refuse(w)
    BY <2>1, RefuseKeeps
  <2>2. CASE ~Refuse(w)
    <3>1. /\ pc[w] = "newreview" /\ project = at[w].project
          /\ Insert(w, "review", "commit") /\ Holders(w) = {}
      BY <1>6, <2>2 DEF newreview, At
    <3>2. Others(w, {"drop"}, project) = {}
      BY <3>1 DEF Holders
    <3>3. QED
      BY <3>1, <3>2, InsertKeeps DEF Rows
  <2>3. QED
    BY <2>1, <2>2
<1>7. CASE flush(w)
  <2>1. pc[w] = "flush" /\ (Refuse(w) \/ Write1(w, "role", at[w].row, "commit"))
    BY <1>7 DEF flush, At
  <2>2. CASE Write1(w, "role", at[w].row, "commit")
    BY <1>1, <2>1, <2>2, PutKeeps DEF Write1, PC, Looked
  <2>3. QED
    BY <2>1, <2>2, RefuseKeeps
<1>8. CASE unmember(w)
  <2> DEFINE row == (CHOOSE m \in MemberRow(w) : TRUE).id
  <2>1. CASE MemberRow(w) = {}
    BY <1>8, <2>1, RefuseKeeps DEF unmember
  <2>2. CASE MemberRow(w) # {}
    <3>1. row \in Nat
      BY <1>1, <2>2 DEF MemberRow, MembershipTypeOK, Member
    <3>2. pc[w] = "unmember" /\ Write1(w, "unmember", row, "commit")
      BY <1>8, <2>2 DEF unmember, At
    <3> HIDE DEF row
    <3>3. QED
      BY <1>1, <3>1, <3>2, PutKeeps DEF Write1, PC, Looked
  <2>3. QED
    BY <2>1, <2>2
<1>9. CASE updatekey(w)
  <2>1. pc[w] \in {"unkey", "touch"} /\ at[w].project # 0
    BY <1>1, <1>9 DEF updatekey, At, ReadingFits, Looked
  <2>2. \/ Refuse(w)
        \/ Write1(w, pc[w], at[w].row, IF pc[w] = "unkey" THEN "commit" ELSE "newreview")
    BY <1>9 DEF updatekey
  <2>3. CASE pc[w] = "unkey" /\ Write1(w, "unkey", at[w].row, "commit")
    BY <1>1, <2>3, PutKeeps DEF Write1, PC, Looked
  <2>4. CASE pc[w] = "touch" /\ Write1(w, "touch", at[w].row, "newreview")
    BY <1>1, <2>1, <2>4, PutKeeps DEF Write1, PC
  <2>5. QED
    BY <2>1, <2>2, <2>3, <2>4, RefuseKeeps
<1>10. CASE drop(w)
  <2>1. pc[w] = "drop" /\ Holders(w) = {} /\ at[w].project # 0
    BY <1>1, <1>10 DEF drop, At, ReadingFits, Looked
  <2>2. CASE project # at[w].project
    <3>1. Goto(w, "commit", at[w])
      BY <1>10, <2>2 DEF drop
    <3>2. QED
      BY <1>1, <2>1, <3>1, GotoKeeps DEF PC, Looked
  <2>3. CASE project = at[w].project
    <3>1. Write1(w, "drop", project, "cascade")
      BY <1>10, <2>3 DEF drop
    <3>2. Others(w, {"drop", "member", "key", "review"}, project) = {}
      BY <2>1, <2>3 DEF Holders
    <3>3. QED
      BY <2>1, <2>3, <3>1, <3>2, DropKeeps
  <2>4. QED
    BY <2>2, <2>3
<1>11. CASE cascade(w)
  <2>1. pc[w] = "cascade" /\ Write1(w, "cascade", at[w].project, "commit")
    BY <1>11 DEF cascade, At
  <2>2. QED
    BY <1>1, <2>1, PutKeeps DEF Write1, PC, Looked
<1>12. QED
  BY <1>2, <1>3, <1>4, <1>5, <1>6, <1>7, <1>8, <1>9, <1>10, <1>11

\* What holds between the transactions holds at the start and after every step.
LEMMA MembershipStart == ASSUME Init PROVE MembershipInv
<1>1. MembershipTypeOK
  BY MembershipAssumption DEF Init, MembershipTypeOK, Member, Role, PC, NoRequest, NoReading,
                              Request, Reading
<1>2. \A w \in Workers : pc[w] = "idle" /\ writes[w] = {}
  BY DEF Init
<1>3. \A w \in Workers : ReadingFits(w) /\ WritesFit(w) /\ LocksFit(w)
  BY <1>2 DEF ReadingFits, WritesFit, LocksFit, Looked
<1>4. NoOrphans /\ OneRole /\ Empty /\ nextId # 0
  BY DEF Init, NoOrphans, OneRole, Empty
<1>5. IsFiniteSet(members)
  BY FS_Singleton DEF Init
<1>6. QED
  BY <1>1, <1>3, <1>4, <1>5 DEF MembershipInv

LEMMA MembershipStep == ASSUME MembershipInv, [Next]_vars PROVE MembershipInv'
<1>1. CASE UNCHANGED vars
  BY <1>1 DEF MembershipInv, MembershipTypeOK, ReadingFits, WritesFit, LocksFit, Alone, NoOrphans,
              OneRole, Empty, vars, tables
<1>2. ASSUME NEW w \in Workers, Arrive(w) PROVE MembershipInv'
  BY <1>2, ArriveKeeps
<1>3. ASSUME NEW w \in Workers, Work(w) PROVE MembershipInv'
  BY <1>3, ReadKeeps, WriteKeeps, CommitKeeps DEF Work
<1>4. ASSUME NEW w \in Workers, Abort(w) \/ DeadlockVictim(w) PROVE MembershipInv'
  BY <1>4, RefuseKeeps DEF Abort, DeadlockVictim
<1>5. QED
  BY <1>1, <1>2, <1>3, <1>4 DEF Next, Finished

THEOREM MembershipInvariance == Spec => []MembershipInv
<1>1. Init => MembershipInv
  BY MembershipStart
<1>2. MembershipInv /\ [Next]_vars => MembershipInv'
  BY MembershipStep
<1>3. QED
  BY <1>1, <1>2, PTL DEF Spec

\* Tables, inputs, readings and uncommitted writes hold values of their types,
\* however the requests of a team interleave.
THEOREM MembershipTyping == Spec => []MembershipTypeOK
BY MembershipInvariance, PTL DEF MembershipInv

\* No membership, key or review outlives its project: what a request inserts
\* under it, the deletion waits for, and what comes after is refused.
THEOREM NoOrphansHold == Spec => []NoOrphans
BY MembershipInvariance, PTL DEF MembershipInv

\* A user has one role in a project, although add_member reads and inserts in two
\* statements: the unique index makes the second insert wait and then fail.
THEOREM OneRoleHolds == Spec => []OneRole
BY MembershipInvariance, PTL DEF MembershipInv
-----------------------------------------------------------------------------
(* The last lead                                                           *)

\* The memberships that the statements of w were sent for and not yet committed.
Targets(w) ==
  {y.id : y \in {z \in writes[w] : z.op \in {"role", "unmember"}}}
    \cup (IF pc[w] = "flush" THEN {at[w].row} ELSE {})

\* No open transaction has inserted a membership of id i.
Uninserted(i) == \A x \in Workers : \A z \in writes[x] : z.op = "member" => z.id # i

\* A target is the row of the person the request is about, while it is there,
\* and no other row will ever have its id.
TargetFits(w) ==
  \A i \in Targets(w) :
    /\ i \in Nat /\ i < nextId /\ Uninserted(i)
    /\ \A m \in members : m.id = i => m.user = req[w].user /\ m.project = at[w].project

\* Past the reads a request has read that its target is no lead, or that there
\* is another one.
ReadsFit(w) ==
  pc[w] \in {"unmember", "select", "flush"} \/ (\E y \in writes[w] : y.op \in {"role", "unmember"})
    => (at[w].role = "lead" => ~(at[w].leads <= 1))

\* The sequence gives every membership an id of its own.
IdsFit ==
  /\ \A m \in members : m.id < nextId /\ Uninserted(m.id)
  /\ \A m, n \in members : m.id = n.id => m = n
  /\ \A w \in Workers : \A y \in writes[w] :
       y.op = "member" =>
         /\ y.id < nextId
         /\ \A x \in Workers \ {w} : \A z \in writes[x] : z.op = "member" => z.id # y.id

LeadInv == MembershipInv /\ IdsFit /\ \A w \in Workers : TargetFits(w) /\ ReadsFit(w)

\* A step of w that changes no table: what it inserts gets a new id, and what it
\* is about to change is the row of its person.
LEMMA LeadFrame ==
  ASSUME LeadInv, NEW w \in Workers, MembershipInv', UNCHANGED tables, nextId <= nextId',
         ReadsFit(w)',
         \A x \in Workers \ {w} :
           pc'[x] = pc[x] /\ at'[x] = at[x] /\ req'[x] = req[x] /\ writes'[x] = writes[x],
         \A y \in writes'[w] : y.op = "member" => y \in writes[w] \/ (nextId <= y.id /\ y.id < nextId'),
         \A i \in Targets(w)' :
           \/ /\ i \in Targets(w)
              /\ req'[w].user = req[w].user /\ at'[w].project = at[w].project
           \/ \E m \in members : /\ m.id = i /\ m.user = req'[w].user
                                 /\ m.project = at'[w].project
  PROVE  LeadInv'
<1>1. /\ nextId \in Nat /\ nextId' \in Nat /\ members' = members
      /\ \A m \in members : m.id \in Nat
      /\ \A x \in Workers : \A y \in writes[x] : y.id \in Nat
      /\ \A x \in Workers : \A y \in writes'[x] : y.id \in Nat
  BY DEF LeadInv, MembershipInv, MembershipTypeOK, Member, Write, tables
<1>2. IdsFit /\ \A x \in Workers : TargetFits(x) /\ ReadsFit(x)
  BY DEF LeadInv
<1>3. ASSUME NEW i \in Nat, i < nextId, Uninserted(i)
      PROVE  \A x \in Workers : \A z \in writes'[x] : z.op = "member" => z.id # i
  BY <1>1, <1>3 DEF Uninserted
<1>4. IdsFit'
  <2>1. ASSUME NEW m \in members PROVE m.id < nextId' /\ Uninserted(m.id)'
    <3>1. m.id < nextId /\ Uninserted(m.id) /\ m.id \in Nat
      BY <1>1, <1>2 DEF IdsFit
    <3>2. \A x \in Workers : \A z \in writes'[x] : z.op = "member" => z.id # m.id
      BY <1>3, <3>1
    <3>3. QED
      BY <1>1, <3>1, <3>2 DEF Uninserted
  <2>2. ASSUME NEW v \in Workers, NEW y \in writes'[v], y.op = "member"
        PROVE  /\ y.id < nextId'
               /\ \A x \in Workers \ {v} : \A z \in writes'[x] : z.op = "member" => z.id # y.id
    BY <1>1, <1>2, <2>2 DEF IdsFit
  <2>3. \A m \in members' : m.id < nextId' /\ Uninserted(m.id)'
    BY <1>1, <2>1
  <2>4. \A m, n \in members' : m.id = n.id => m = n
    BY <1>1, <1>2 DEF IdsFit
  <2>5. QED
    BY <2>2, <2>3, <2>4 DEF IdsFit, Uninserted
<1>5. ASSUME NEW x \in Workers, NEW i \in Targets(x)'
      PROVE  /\ i \in Nat /\ i < nextId'
             /\ \A v \in Workers : \A z \in writes'[v] : z.op = "member" => z.id # i
             /\ \A m \in members' : m.id = i => m.user = req'[x].user /\ m.project = at'[x].project
  <2>1. CASE i \in Targets(x) /\ req'[x].user = req[x].user /\ at'[x].project = at[x].project
    <3>1. /\ i \in Nat /\ i < nextId /\ Uninserted(i)
          /\ \A m \in members : m.id = i => m.user = req[x].user /\ m.project = at[x].project
      BY <1>2, <2>1 DEF TargetFits
    <3>2. QED
      BY <1>1, <1>3, <2>1, <3>1
  <2>2. CASE \E m \in members : m.id = i /\ m.user = req'[x].user /\ m.project = at'[x].project
    <3>1. PICK m \in members : m.id = i /\ m.user = req'[x].user /\ m.project = at'[x].project
      BY <2>2
    <3>2. /\ i \in Nat /\ i < nextId /\ Uninserted(i)
          /\ \A n \in members : n.id = i => n = m
      BY <1>1, <1>2, <3>1 DEF IdsFit
    <3>3. QED
      BY <1>1, <1>3, <3>1, <3>2
  <2>3. x # w => i \in Targets(x)
    BY <1>5 DEF Targets
  <2>4. QED
    BY <2>1, <2>2, <2>3
<1>6. \A x \in Workers : TargetFits(x)'
  BY <1>5 DEF TargetFits, Uninserted
<1>7. \A x \in Workers : ReadsFit(x)'
  BY <1>2 DEF ReadsFit
<1>8. QED
  BY <1>4, <1>6, <1>7 DEF LeadInv

\* A request that ends, or begins, has no target.
LEMMA RefuseLead ==
  ASSUME LeadInv, NEW w \in Workers, Refuse(w) PROVE LeadInv'
<1>1. MembershipInv'
  BY RefuseKeeps DEF LeadInv
<1>2. /\ UNCHANGED tables /\ nextId' = nextId /\ nextId \in Nat /\ pc'[w] = "idle" /\ writes'[w] = {}
      /\ \A x \in Workers \ {w} :
           pc'[x] = pc[x] /\ at'[x] = at[x] /\ req'[x] = req[x] /\ writes'[x] = writes[x]
  BY DEF Refuse, Release, LeadInv, MembershipInv, MembershipTypeOK
<1>3. Targets(w)' = {} /\ ReadsFit(w)'
  BY <1>2 DEF Targets, ReadsFit
<1>4. QED
  BY <1>1, <1>2, <1>3, LeadFrame

LEMMA ArriveLead ==
  ASSUME LeadInv, NEW w \in Workers, Arrive(w) PROVE LeadInv'
<1>1. MembershipInv'
  BY ArriveKeeps DEF LeadInv
<1>2. PICK where \in {"slug", "require", "key"} : \E r :
        /\ pc[w] = "idle" /\ pc' = [pc EXCEPT ![w] = where] /\ req' = [req EXCEPT ![w] = r]
        /\ UNCHANGED <<tables, nextId, at, writes>>
  BY DEF Arrive, create_project, add_member, set_member_role, remove_member, delete_project,
         issue_key, revoke_key, review, Begin
<1>3. /\ UNCHANGED tables /\ nextId' = nextId /\ nextId \in Nat /\ pc'[w] = where /\ writes'[w] = {}
      /\ \A x \in Workers \ {w} :
           pc'[x] = pc[x] /\ at'[x] = at[x] /\ req'[x] = req[x] /\ writes'[x] = writes[x]
  BY <1>2 DEF LeadInv, MembershipInv, MembershipTypeOK, WritesFit
<1>4. Targets(w)' = {} /\ ReadsFit(w)'
  BY <1>3 DEF Targets, ReadsFit
<1>5. QED
  BY <1>1, <1>3, <1>4, LeadFrame

\* A read that moves on to a change has read no lead, or another one.
LEMMA GotoLead ==
  ASSUME LeadInv, NEW w \in Workers, NEW where \in PC, NEW reading \in Reading,
         MembershipInv', pc[w] \notin {"idle", "cascade", "commit"}, Goto(w, where, reading),
         where = "flush" => \E m \in MemberRow(w) : m.id = reading.row /\ reading.project = at[w].project,
         where \in {"unmember", "select", "flush"} =>
           (reading.role = "lead" => ~(reading.leads <= 1))
  PROVE  LeadInv'
<1>1. /\ UNCHANGED tables /\ UNCHANGED <<nextId, req, writes>> /\ nextId \in Nat
      /\ pc'[w] = where /\ at'[w] = reading
      /\ \A x \in Workers \ {w} :
           pc'[x] = pc[x] /\ at'[x] = at[x] /\ req'[x] = req[x] /\ writes'[x] = writes[x]
  BY DEF Goto, LeadInv, MembershipInv, MembershipTypeOK
<1>2. \A y \in writes[w] : y.op \in {"user", "touch"}
  BY DEF LeadInv, MembershipInv, WritesFit
<1>3. ReadsFit(w)'
  BY <1>1, <1>2 DEF ReadsFit
<1>4. \A i \in Targets(w)' : where = "flush" /\ i = reading.row
  BY <1>1, <1>2 DEF Targets
<1>5. \A i \in Targets(w)' : \E m \in members : /\ m.id = i /\ m.user = req'[w].user
                                                /\ m.project = at'[w].project
  BY <1>1, <1>4 DEF MemberRow
<1>6. QED
  BY <1>1, <1>3, <1>5, LeadFrame

\* A statement that writes one row version.
LEMMA PutLead ==
  ASSUME LeadInv, NEW w \in Workers, NEW op, NEW id, NEW user, NEW role, NEW after,
         MembershipInv', after \notin {"unmember", "select", "flush"}, pc[w] # "commit",
         nextId <= nextId', Put(w, op, id, user, role, after),
         op = "member" => nextId <= id /\ id < nextId',
         op \in {"role", "unmember"} =>
           /\ pc[w] \in {"flush", "unmember"}
           /\ \/ id \in Targets(w)
              \/ \E m \in MemberRow(w) : m.id = id
  PROVE  LeadInv'
<1> DEFINE v == [op |-> op, id |-> id, project |-> at[w].project, user |-> user, role |-> role]
<1>1. /\ UNCHANGED tables /\ UNCHANGED <<req, at>> /\ pc'[w] = after
      /\ writes'[w] = writes[w] \cup {v}
      /\ \A x \in Workers \ {w} :
           pc'[x] = pc[x] /\ at'[x] = at[x] /\ req'[x] = req[x] /\ writes'[x] = writes[x]
  BY DEF Put, LeadInv, MembershipInv, MembershipTypeOK, tables
<1>2. v.op = op /\ v.id = id
  OBVIOUS
<1>3. \A y \in writes[w] : y.op \in {"user", "touch", "drop"}
  BY DEF LeadInv, MembershipInv, WritesFit
<1> HIDE DEF v
<1>4. ReadsFit(w)'
  BY <1>1, <1>2, <1>3 DEF LeadInv, ReadsFit
<1>5. \A i \in Targets(w)' : i = id /\ op \in {"role", "unmember"}
  BY <1>1, <1>2, <1>3 DEF Targets
<1>6. \A i \in Targets(w)' :
        \/ i \in Targets(w) /\ req'[w].user = req[w].user /\ at'[w].project = at[w].project
        \/ \E m \in members : /\ m.id = i /\ m.user = req'[w].user
                              /\ m.project = at'[w].project
  BY <1>1, <1>5 DEF MemberRow
<1>7. \A y \in writes'[w] :
        y.op = "member" => y \in writes[w] \/ (nextId <= y.id /\ y.id < nextId')
  BY <1>1, <1>2
<1>8. QED
  BY <1>1, <1>4, <1>6, <1>7, LeadFrame

\* The statements that read: the role decides whether the leads are counted.
LEMMA ReadLead ==
  ASSUME LeadInv, NEW w \in Workers,
         \/ slug(w) \/ _require_lead(w) \/ by_email(w) \/ current(w) \/ count(w) \/ select(w)
         \/ by_key(w)
  PROVE  LeadInv'
<1>1. MembershipInv'
  BY ReadKeeps DEF LeadInv
<1>2. /\ MembershipTypeOK /\ at[w] \in Reading /\ req[w] \in Request /\ project \in Nat
      /\ NoReading \in Reading /\ ReadsFit(w)
  BY DEF LeadInv, MembershipInv, MembershipTypeOK, NoReading, Reading
<1>3. CASE slug(w)
  <2>1. pc[w] = "slug" /\ (Refuse(w) \/ Goto(w, "newproject", NoReading))
    BY <1>3 DEF slug
  <2>2. QED
    BY <1>1, <1>2, <2>1, RefuseLead, GotoLead DEF PC
<1>4. CASE _require_lead(w)
  <2>1. CASE Refuse(w)
    BY <2>1, RefuseLead
  <2>2. CASE ~Refuse(w)
    <3>1. PICK where \in AfterRequire(w) : Goto(w, where, [NoReading EXCEPT !.project = project])
      BY <1>4, <2>2 DEF _require_lead
    <3>2. where \in PC \ {"unmember", "select", "flush"}
      BY DEF AfterRequire, PC
    <3>3. [NoReading EXCEPT !.project = project] \in Reading
      BY <1>2 DEF Reading
    <3>4. pc[w] = "require"
      BY <1>4 DEF _require_lead
    <3>5. QED
      BY <1>1, <3>1, <3>2, <3>3, <3>4, GotoLead
  <2>3. QED
    BY <2>1, <2>2
<1>5. CASE by_email(w)
  <2>1. pc[w] = "user" /\ (Refuse(w) \/ Goto(w, "current", at[w]) \/ Goto(w, "newuser", at[w]))
    BY <1>5 DEF by_email
  <2>2. QED
    BY <1>1, <1>2, <2>1, RefuseLead, GotoLead DEF PC
<1>6. CASE current(w)
  <2> DEFINE role == role_of(req[w].user, at[w].project)
             where == Current(w, role)
             reading == [at[w] EXCEPT !.role = role]
  <2>1. pc[w] = "current"
    BY <1>6 DEF current
  <2>2. role \in Role \cup {"none"}
    BY <1>2 DEF role_of, MembershipTypeOK, Member
  <2>3. reading \in Reading /\ reading.role = role
    BY <1>2, <2>2 DEF Reading
  <2>4. /\ where = "refuse" \/ where \in PC \ {"flush"}
        /\ where \in {"unmember", "select"} => role # "lead"
    BY DEF Current, PC
  <2>5. Refuse(w) \/ (where # "refuse" /\ Goto(w, where, reading))
    BY <1>6 DEF current
  <2> HIDE DEF where, reading
  <2>6. QED
    BY <1>1, <2>1, <2>3, <2>4, <2>5, RefuseLead, GotoLead
<1>7. CASE count(w)
  <2> DEFINE n == count_leads(at[w].project)
             reading == [at[w] EXCEPT !.leads = n]
  <2>1. CASE Refuse(w)
    BY <2>1, RefuseLead
  <2>2. CASE ~Refuse(w)
    <3>1. /\ pc[w] = "count" /\ ~(n <= 1)
          /\ Goto(w, "unmember", reading) \/ Goto(w, "select", reading)
      BY <1>7, <2>2 DEF count
    <3>2. n \in Nat
      BY LeadsAreCounted DEF LeadInv
    <3>3. reading \in Reading /\ reading.leads = n
      BY <1>2, <3>2 DEF Reading
    <3> HIDE DEF reading, n
    <3>4. QED
      BY <1>1, <3>1, <3>3, GotoLead DEF PC
  <2>3. QED
    BY <2>1, <2>2
<1>8. CASE select(w)
  <2> DEFINE row == (CHOOSE m \in MemberRow(w) : TRUE).id
             reading == [at[w] EXCEPT !.row = row]
  <2>1. pc[w] = "select"
    BY <1>8 DEF select
  <2>2. CASE \E m \in MemberRow(w) : m.role # req[w].role
    <3>1. row \in Nat /\ \E m \in MemberRow(w) : m.id = row
      BY <1>2, <2>2 DEF MemberRow, MembershipTypeOK, Member
    <3>2. /\ reading \in Reading /\ reading.project = at[w].project /\ reading.row = row
          /\ reading.role = at[w].role /\ reading.leads = at[w].leads
      BY <1>2, <3>1 DEF Reading
    <3>3. Goto(w, "flush", reading)
      BY <1>8, <2>2 DEF select
    <3>4. at[w].role = "lead" => ~(at[w].leads <= 1)
      BY <1>2, <2>1 DEF ReadsFit
    <3> HIDE DEF reading, row
    <3>5. QED
      BY <1>1, <2>1, <3>1, <3>2, <3>3, <3>4, GotoLead DEF PC
  <2>3. CASE ~ \E m \in MemberRow(w) : m.role # req[w].role
    <3>1. Goto(w, "commit", at[w])
      BY <1>8, <2>3 DEF select
    <3>2. QED
      BY <1>1, <1>2, <2>1, <3>1, GotoLead DEF PC
  <2>4. QED
    BY <2>2, <2>3
<1>9. CASE by_key(w)
  <2>1. CASE Refuse(w)
    BY <2>1, RefuseLead
  <2>2. CASE ~Refuse(w)
    <3>1. PICK where \in {"touch", "unkey"} : \E reading : Goto(w, where, reading) /\ pc[w] = "key"
      BY <1>9, <2>2 DEF by_key
    <3> PICK reading : Goto(w, where, reading) /\ pc[w] = "key"
      BY <3>1
    <3>2. reading \in Reading
      BY <1>1, <1>2, <3>1 DEF Goto, MembershipInv, MembershipTypeOK
    <3>3. QED
      BY <1>1, <3>1, <3>2, GotoLead DEF PC
  <2>3. QED
    BY <2>1, <2>2
<1>10. QED
  BY <1>3, <1>4, <1>5, <1>6, <1>7, <1>8, <1>9

\* The statements that write.
LEMMA WriteLead ==
  ASSUME LeadInv, NEW w \in Workers,
         \/ newuser(w) \/ newproject(w) \/ newmember(w) \/ newkey(w) \/ newreview(w)
         \/ flush(w) \/ unmember(w) \/ updatekey(w) \/ drop(w) \/ cascade(w)
  PROVE  LeadInv'
<1>1. MembershipInv'
  BY WriteKeeps DEF LeadInv
<1>2. /\ MembershipTypeOK /\ at[w] \in Reading /\ nextId \in Nat
      /\ nextId + 1 > nextId /\ nextId + 2 > nextId
  BY DEF LeadInv, MembershipInv, MembershipTypeOK
<1>3. CASE Refuse(w)
  BY <1>3, RefuseLead
<1>4. CASE newproject(w) /\ ~Refuse(w)
  <2> DEFINE p == [op |-> "project", id |-> nextId, project |-> nextId,
                   user |-> req[w].actor, role |-> "lead"]
             m == [op |-> "member", id |-> nextId + 1, project |-> nextId,
                   user |-> req[w].actor, role |-> "lead"]
  <2>1. /\ UNCHANGED tables /\ writes'[w] = {p, m} /\ pc'[w] = "commit" /\ nextId' = nextId + 2
        /\ \A x \in Workers \ {w} :
             pc'[x] = pc[x] /\ at'[x] = at[x] /\ req'[x] = req[x] /\ writes'[x] = writes[x]
    BY <1>2, <1>4 DEF newproject, MembershipTypeOK
  <2>2. p.op = "project" /\ m.op = "member" /\ m.id = nextId + 1
    OBVIOUS
  <2> HIDE DEF p, m
  <2>3. ReadsFit(w)' /\ Targets(w)' = {}
    BY <2>1, <2>2 DEF ReadsFit, Targets
  <2>4. QED
    BY <1>1, <1>2, <2>1, <2>2, <2>3, LeadFrame
<1>5. CASE flush(w) /\ ~Refuse(w)
  <2>1. pc[w] = "flush" /\ Write1(w, "role", at[w].row, "commit")
    BY <1>5 DEF flush, At
  <2>2. at[w].row \in Targets(w)
    BY <2>1 DEF Targets
  <2>3. QED
    BY <1>1, <1>2, <2>1, <2>2, PutLead DEF Write1
<1>6. CASE unmember(w) /\ ~Refuse(w)
  <2> DEFINE row == (CHOOSE m \in MemberRow(w) : TRUE).id
  <2>1. pc[w] = "unmember" /\ MemberRow(w) # {} /\ Write1(w, "unmember", row, "commit")
    BY <1>6 DEF unmember, At
  <2>2. \E m \in MemberRow(w) : m.id = row
    BY <2>1
  <2> HIDE DEF row
  <2>3. QED
    BY <1>1, <1>2, <2>1, <2>2, PutLead DEF Write1
<1>7. CASE newuser(w) /\ ~Refuse(w)
  BY <1>1, <1>2, <1>7, PutLead DEF newuser, At, Insert
<1>8. CASE newmember(w) /\ ~Refuse(w)
  BY <1>1, <1>2, <1>8, PutLead DEF newmember, At, Insert
<1>9. CASE newkey(w) /\ ~Refuse(w)
  BY <1>1, <1>2, <1>9, PutLead DEF newkey, At, Insert
<1>10. CASE newreview(w) /\ ~Refuse(w)
  BY <1>1, <1>2, <1>10, PutLead DEF newreview, At, Insert
<1>11. CASE updatekey(w) /\ ~Refuse(w)
  BY <1>1, <1>2, <1>11, PutLead DEF updatekey, At, Write1
<1>12. CASE drop(w)
  <2>1. CASE Goto(w, "commit", at[w])
    BY <1>1, <1>2, <1>12, <2>1, GotoLead DEF drop, At, PC
  <2>2. CASE Write1(w, "drop", at[w].project, "cascade")
    BY <1>1, <1>2, <1>12, <2>2, PutLead DEF drop, At, Write1
  <2>3. QED
    BY <1>12, <2>1, <2>2 DEF drop
<1>13. CASE cascade(w)
  BY <1>1, <1>2, <1>13, PutLead DEF cascade, At, Write1
<1>14. QED
  BY <1>3, <1>4, <1>5, <1>6, <1>7, <1>8, <1>9, <1>10, <1>11, <1>12, <1>13

\* A commit keeps the ids and the persons of the rows it leaves, and inserts the
\* row it has the id for.
LEMMA CommitLead ==
  ASSUME LeadInv, NEW w \in Workers, Commit(w) PROVE LeadInv'
<1>1. MembershipInv'
  BY CommitKeeps DEF LeadInv
<1>2. /\ pc'[w] = "idle" /\ writes'[w] = {} /\ nextId' = nextId /\ nextId \in Nat
      /\ \A x \in Workers \ {w} :
           pc'[x] = pc[x] /\ at'[x] = at[x] /\ req'[x] = req[x] /\ writes'[x] = writes[x]
  BY DEF LeadInv, MembershipInv, MembershipTypeOK, Commit, Release
<1>3. IdsFit /\ \A x \in Workers : TargetFits(x) /\ ReadsFit(x)
  BY DEF LeadInv
<1> DEFINE Old(m) == \E n \in members : /\ n.id = m.id /\ n.user = m.user /\ n.project = m.project
                                        /\ m = Updated(w, n)
           New(m) == \E y \in writes[w] : y.op = "member" /\ m = Inserted(y)
<1>4. \A m \in members' : Old(m) \/ New(m)
  BY CommitRows DEF LeadInv
<1>5. \A y \in writes[w] : y.op = "member" =>
        /\ Inserted(y).id = y.id /\ y.id < nextId
        /\ \A n \in members : n.id # y.id
        /\ \A x \in Workers \ {w} : \A z \in writes[x] : z.op = "member" => z.id # y.id
  BY <1>3 DEF Inserted, IdsFit, Uninserted
<1>6. IdsFit'
  <2>1. \A m \in members' : m.id < nextId' /\ Uninserted(m.id)'
    <3>1. ASSUME NEW m \in members', Old(m)
          PROVE  /\ m.id < nextId'
                 /\ \A x \in Workers : \A z \in writes'[x] : z.op = "member" => z.id # m.id
      BY <1>2, <1>3, <3>1 DEF IdsFit, Uninserted
    <3>2. ASSUME NEW m \in members', New(m)
          PROVE  /\ m.id < nextId'
                 /\ \A x \in Workers : \A z \in writes'[x] : z.op = "member" => z.id # m.id
      BY <1>2, <1>5, <3>2
    <3>3. QED
      BY <1>4, <3>1, <3>2 DEF Uninserted
  <2>2. ASSUME NEW m \in members', NEW n \in members', m.id = n.id PROVE m = n
    <3>1. CASE Old(m) /\ Old(n)
      BY <1>3, <2>2, <3>1 DEF IdsFit
    <3>2. CASE New(m) /\ New(n)
      BY <2>2, <3>2 DEF LeadInv, MembershipInv, WritesFit
    <3>3. CASE (Old(m) /\ New(n)) \/ (New(m) /\ Old(n))
      BY <1>5, <2>2, <3>3
    <3>4. QED
      BY <1>4, <3>1, <3>2, <3>3
  <2>3. \A v \in Workers : \A y \in writes'[v] :
          y.op = "member" =>
            /\ y.id < nextId'
            /\ \A x \in Workers \ {v} : \A z \in writes'[x] : z.op = "member" => z.id # y.id
    BY <1>2, <1>3 DEF IdsFit
  <2>4. QED
    BY <2>1, <2>2, <2>3 DEF IdsFit, Uninserted
<1>7. ASSUME NEW x \in Workers PROVE (TargetFits(x) /\ ReadsFit(x))'
  <2>1. CASE x = w
    BY <1>2, <2>1 DEF TargetFits, Targets, ReadsFit
  <2>2. CASE x # w
    <3>1. Targets(x)' = Targets(x) /\ ReadsFit(x)'
      BY <1>2, <1>3, <2>2 DEF Targets, ReadsFit
    <3>2. ASSUME NEW i \in Targets(x)
          PROVE  /\ i \in Nat /\ i < nextId'
                 /\ \A v \in Workers : \A z \in writes'[v] : z.op = "member" => z.id # i
                 /\ \A m \in members' :
                      m.id = i => m.user = req'[x].user /\ m.project = at'[x].project
      <4>1. /\ i \in Nat /\ i < nextId /\ Uninserted(i)
            /\ \A m \in members : m.id = i => m.user = req[x].user /\ m.project = at[x].project
        BY <1>3, <3>2 DEF TargetFits
      <4>2. \A y \in writes[w] : y.op = "member" => y.id # i
        BY <4>1 DEF Uninserted
      <4>3. ASSUME NEW m \in members', m.id = i
            PROVE  m.user = req[x].user /\ m.project = at[x].project
        BY <1>4, <1>5, <4>1, <4>2, <4>3
      <4>4. \A v \in Workers : \A z \in writes'[v] : z.op = "member" => z.id # i
        BY <1>2, <4>1 DEF Uninserted
      <4>5. QED
        BY <1>2, <2>2, <4>1, <4>3, <4>4
    <3>3. QED
      BY <3>1, <3>2 DEF TargetFits, Uninserted
  <2>3. QED
    BY <2>1, <2>2
<1>8. QED
  BY <1>1, <1>6, <1>7 DEF LeadInv

LEMMA LeadStep == ASSUME LeadInv, [Next]_vars PROVE LeadInv'
<1>1. CASE UNCHANGED vars
  <2>1. MembershipInv'
    BY MembershipStep DEF LeadInv
  <2>2. QED
    BY <1>1, <2>1 DEF LeadInv, IdsFit, Uninserted, TargetFits, Targets, ReadsFit, vars, tables
<1>2. ASSUME NEW w \in Workers, Arrive(w) PROVE LeadInv'
  BY <1>2, ArriveLead
<1>3. ASSUME NEW w \in Workers, Work(w) PROVE LeadInv'
  BY <1>3, ReadLead, WriteLead, CommitLead DEF Work
<1>4. ASSUME NEW w \in Workers, Abort(w) \/ DeadlockVictim(w) PROVE LeadInv'
  BY <1>4, RefuseLead DEF Abort, DeadlockVictim
<1>5. QED
  BY <1>1, <1>2, <1>3, <1>4 DEF Next, Finished

\* The rows a commit keeps are in the table after it.
LEMMA CommittedRows ==
  ASSUME NEW w \in Workers, Commit(w)
  PROVE  \A n \in members : n.id \notin Ids(w, "unmember") /\ n.project \notin Ids(w, "drop")
                              => Updated(w, n) \in members'
<1>1. members' =
        {Updated(w, m) : m \in {n \in members : /\ n.id \notin Ids(w, "unmember")
                                                /\ n.project \notin Ids(w, "drop")}}
        \cup {Inserted(x) : x \in {y \in writes[w] : y.op = "member"}}
  BY DEF Commit, Updated, Inserted
<1>2. QED
  BY <1>1

\* A commit that leaves a project without the lead it had took that lead from the
\* person its request is about, the only one, having read that this person was no
\* lead or that there was another.
LEMMA LastLeadTaken ==
  ASSUME LeadInv, NEW w \in Workers, Commit(w), project # 0, project' = project,
         HasLead, ~HasLead'
  PROVE  Overtaken(w)
<1>1. MembershipInv /\ MembershipTypeOK /\ TargetFits(w) /\ ReadsFit(w) /\ OneRole /\ NoOrphans
  BY DEF LeadInv, MembershipInv
<1>2. \A y \in writes[w] : y.op \notin {"drop", "project"}
  <2>1. \A y \in writes[w] : y.op # "drop"
    BY <1>1, DropCommits
  <2>2. \A y \in writes[w] : y.op # "project"
    BY <1>1 DEF MembershipInv, LocksFit
  <2>3. QED
    BY <2>1, <2>2
<1>3. ASSUME NEW n \in members, n.role = "lead"
      PROVE  n.id \in Targets(w) /\ \E y \in writes[w] : y.op \in {"role", "unmember"}
  <2>1. CASE n.id \in Ids(w, "unmember")
    BY <2>1 DEF Ids, Targets
  <2>2. CASE Wrote(w, "role", n.id) # {}
    BY <2>2 DEF Wrote, Targets
  <2>3. CASE n.id \notin Ids(w, "unmember") /\ Wrote(w, "role", n.id) = {}
    <3>1. Ids(w, "drop") = {}
      BY <1>2 DEF Ids
    <3>2. n \in members'
      BY <2>3, <3>1, CommittedRows DEF Updated
    <3>3. QED
      BY <1>3, <3>2 DEF HasLead
  <2>4. QED
    BY <2>1, <2>2, <2>3
<1>4. PICK l \in members : l.role = "lead"
  BY DEF HasLead
<1>5. \A n \in members : n.role = "lead" => n.user = req[w].user /\ n.project = at[w].project
  BY <1>1, <1>3 DEF TargetFits
<1>6. at[w].project # 0
  BY <1>1, <1>4, <1>5 DEF NoOrphans
<1>7. role_of(req[w].user, at[w].project) = "lead"
  <2>1. {m \in members : m.user = req[w].user /\ m.project = at[w].project} = {l}
    BY <1>1, <1>4, <1>5 DEF OneRole
  <2>2. QED
    BY <1>4, <1>6, <2>1 DEF role_of
<1>8. count_leads(at[w].project) = 1
  <2>1. {m \in members : m.project = at[w].project /\ m.role = "lead"} = {l}
    BY <1>1, <1>4, <1>5 DEF OneRole
  <2>2. QED
    BY <2>1, FS_Singleton DEF count_leads
<1>9. at[w].role = "lead" => ~(at[w].leads <= 1)
  BY <1>1, <1>3, <1>4 DEF ReadsFit
<1>10. at[w].role = "lead" => at[w].leads # 1
  BY <1>9
<1>11. QED
  BY <1>7, <1>8, <1>10 DEF Overtaken

\* A project loses its last lead only to a race, however many requests are in
\* flight: the commit that takes it had read another role of its target, or
\* another number of leads, than there is when it commits.
THEOREM LastLeadIsLostToARace == Spec => LastLeadLostToARace
<1>1. Init => LeadInv
  <2>1. SUFFICES ASSUME Init PROVE LeadInv
    OBVIOUS
  <2>2. \A w \in Workers : pc[w] = "idle" /\ writes[w] = {}
    BY <2>1 DEF Init
  <2>3. \A w \in Workers : TargetFits(w) /\ ReadsFit(w)
    BY <2>2 DEF TargetFits, Targets, ReadsFit
  <2>4. IdsFit
    BY <2>1, <2>2 DEF Init, IdsFit, Uninserted
  <2>5. QED
    BY <2>1, <2>3, <2>4, MembershipStart DEF LeadInv
<1>2. LeadInv /\ [Next]_vars => LeadInv'
  BY LeadStep
<1> DEFINE Race == project # 0 /\ project' = project /\ HasLead /\ ~HasLead' =>
                     \E w \in Workers : pc[w] = "commit" /\ pc'[w] = "idle" /\ Overtaken(w)
<1>3. LeadInv /\ [Next]_vars => [Race]_vars
  <2>1. SUFFICES ASSUME LeadInv, Next, project # 0, project' = project, HasLead, ~HasLead'
                 PROVE  \E w \in Workers : pc[w] = "commit" /\ pc'[w] = "idle" /\ Overtaken(w)
    OBVIOUS
  <2>2. members' # members
    BY <2>1 DEF HasLead
  <2>3. PICK w \in Workers : Commit(w)
    <3>1. ASSUME NEW w \in Workers, Arrive(w) PROVE UNCHANGED tables
      BY <3>1 DEF Arrive, create_project, add_member, set_member_role, remove_member,
                  delete_project, issue_key, revoke_key, review, Begin
    <3>2. ASSUME NEW w \in Workers, Refuse(w) PROVE UNCHANGED tables
      BY <3>2 DEF Refuse
    <3>3. ASSUME NEW w \in Workers, Work(w), ~Commit(w) PROVE UNCHANGED tables
      <4>1. \A where, reading : Goto(w, where, reading) => UNCHANGED tables
        BY DEF Goto
      <4>2. CASE \/ slug(w) \/ _require_lead(w) \/ by_email(w) \/ current(w) \/ count(w)
                 \/ select(w) \/ by_key(w)
        BY <3>2, <4>1, <4>2 DEF slug, _require_lead, by_email, current, count, select, by_key
      <4>3. CASE \/ newuser(w) \/ newproject(w) \/ newmember(w) \/ newkey(w) \/ newreview(w)
                 \/ flush(w) \/ unmember(w) \/ updatekey(w) \/ drop(w) \/ cascade(w)
        BY <3>2, <4>1, <4>3 DEF newuser, newproject, newmember, newkey, newreview, flush,
                                unmember, updatekey, drop, cascade, Insert, Write1, Put
      <4>4. QED
        BY <3>3, <4>2, <4>3 DEF Work
    <3>4. QED
      BY <2>1, <2>2, <3>1, <3>2, <3>3 DEF Next, Abort, DeadlockVictim, Finished, vars, tables
  <2>4. pc[w] = "commit" /\ pc'[w] = "idle"
    BY <2>1, <2>3 DEF Commit, Release, LeadInv, MembershipInv, MembershipTypeOK
  <2>5. QED
    BY <2>1, <2>3, <2>4, LastLeadTaken
<1>4. QED
  BY <1>1, <1>2, <1>3, PTL DEF Spec, LastLeadLostToARace
=============================================================================
