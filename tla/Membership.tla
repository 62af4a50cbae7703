----------------------------- MODULE Membership -----------------------------
(***************************************************************************)
(* Who belongs to a project and with which key: auth/service.py over the   *)
(* tables of auth/postgres.py, one transaction per request (db.py          *)
(* unit_of_work), interleaved statement by statement under READ COMMITTED. *)
(*                                                                         *)
(* One slug, whose project may be deleted and created again.  A review     *)
(* request is here for the rows it writes beside these tables: it touches  *)
(* its key (authenticate_key) and inserts a review under the project.      *)
(***************************************************************************)
EXTENDS Integers, FiniteSets

CONSTANTS
  Workers,       \* requests in flight
  Users,         \* people, by email
  Registered,    \* those with a password; an account add_member creates has none
  Founder,       \* the lead of the project on record at the start
  MaxRequests    \* bound: requests served in one behaviour

ASSUME MembershipAssumption ==
  /\ Registered \subseteq Users
  /\ Founder \in Registered
  /\ MaxRequests \in Nat

Role == {"lead", "dev"}
Kinds == {"create", "add", "setrole", "remove", "delete", "key", "unkey", "review"}

VARIABLES
  accounts,  \* users that have a row in users
  project,   \* id of the slug's row in projects, 0 for none
  members,   \* rows of memberships
  keys,      \* rows of api_keys
  opened,    \* rows of reviews
  nextId,    \* the id sequences, as one
  served,    \* requests begun so far
  pc,        \* the statement each request is at
  req,       \* its inputs
  at,        \* what it has read: project, the target's role, the leads, a row
  writes     \* what it has written and not committed

tables == <<accounts, project, members, keys, opened>>
vars == <<tables, nextId, served, pc, req, at, writes>>
----------------------------------------------------------------------------
Member == [id : Nat, project : Nat, user : Users, role : Role]
Key == [id : Nat, project : Nat, user : Users, revoked : BOOLEAN]
ReviewRow == [id : Nat, project : Nat]

Request == [kind : Kinds \cup {"none"}, actor : Users, user : Users, role : Role, key : Nat]
Reading == [project : Nat, role : Role \cup {"none"}, leads : Nat, row : Nat]

\* One uncommitted row version: the statement that wrote it, and what it wrote.
Write == [op : {"user", "project", "member", "role", "unmember", "key", "unkey", "touch",
                "review", "drop", "cascade"},
          id : Nat, project : Nat, user : Users, role : Role]

NoRequest == [kind |-> "none", actor |-> Founder, user |-> Founder, role |-> "dev", key |-> 0]
NoReading == [project |-> 0, role |-> "none", leads |-> 0, row |-> 0]

role_of(user, p) ==
  LET rows == {m \in members : m.user = user /\ m.project = p}
  IN IF p = 0 \/ rows = {} THEN "none" ELSE (CHOOSE m \in rows : TRUE).role

count_leads(p) == Cardinality({m \in members : m.project = p /\ m.role = "lead"})

Init ==
  /\ accounts = Registered
  /\ project = 1
  /\ members = {[id |-> 1, project |-> 1, user |-> Founder, role |-> "lead"]}
  /\ keys = {}
  /\ opened = {}
  /\ nextId = 2
  /\ served = 0
  /\ pc = [w \in Workers |-> "idle"]
  /\ req = [w \in Workers |-> NoRequest]
  /\ at = [w \in Workers |-> NoReading]
  /\ writes = [w \in Workers |-> {}]
----------------------------------------------------------------------------
(* Ends of a transaction                                                   *)

LocksKept(w) ==                             \* mutant: the transaction is left open
  /\ pc' = [pc EXCEPT ![w] = "idle"]
  /\ req' = [req EXCEPT ![w] = NoRequest]
  /\ at' = [at EXCEPT ![w] = NoReading]
  /\ UNCHANGED writes

Release(w) ==
  /\ pc' = [pc EXCEPT ![w] = "idle"]
  /\ req' = [req EXCEPT ![w] = NoRequest]
  /\ at' = [at EXCEPT ![w] = NoReading]
  /\ writes' = [writes EXCEPT ![w] = {}]

\* Forbidden and AuthError leave the request as an exception, like any failure.
Refuse(w) == Release(w) /\ UNCHANGED <<tables, nextId, served>>

Goto(w, where, reading) ==
  /\ pc' = [pc EXCEPT ![w] = where]
  /\ at' = [at EXCEPT ![w] = reading]
  /\ UNCHANGED <<tables, nextId, served, req, writes>>

Wrote(w, op, id) ==
  {x \in writes[w] : x.op = op /\ x.id = id}

Ids(w, op) == {x.id : x \in {y \in writes[w] : y.op = op}}

Commit(w) ==
  /\ pc[w] = "commit"
  /\ LET gone == Ids(w, "drop")
         new(op) == {x \in writes[w] : x.op = op}
     IN /\ accounts' = accounts \cup {x.user : x \in new("user")}
        /\ project' = IF project \in gone THEN 0
                      ELSE IF Ids(w, "project") # {} THEN CHOOSE i \in Ids(w, "project") : TRUE
                      ELSE project
        /\ members' =
             {IF Wrote(w, "role", m.id) = {} THEN m
                ELSE [m EXCEPT !.role = (CHOOSE x \in Wrote(w, "role", m.id) : TRUE).role] :
              m \in {n \in members : n.id \notin Ids(w, "unmember") /\ n.project \notin gone}}
             \cup {[id |-> x.id, project |-> x.project, user |-> x.user, role |-> x.role] :
                   x \in new("member")}
        /\ keys' =
             {[k EXCEPT !.revoked = @ \/ k.id \in Ids(w, "unkey")] :
              k \in {j \in keys : j.project \notin gone}}
             \cup {[id |-> x.id, project |-> x.project, user |-> x.user, revoked |-> FALSE] :
                   x \in new("key")}
        /\ opened' = {r \in opened : r.project \notin gone}
             \cup {[id |-> x.id, project |-> x.project] : x \in new("review")}
  /\ Release(w)
  /\ UNCHANGED <<nextId, served>>

Abort(w) == pc[w] # "idle" /\ Refuse(w)
----------------------------------------------------------------------------
(* Row locks                                                               *)

Others(w, ops, p) == {x \in Workers \ {w} : \E y \in writes[x] : y.op \in ops /\ y.project = p}

\* Other transactions whose version of a row is not committed yet.
RowHolders(w, ops, id, p) ==
  {x \in Workers \ {w} : \E y \in writes[x] : y.op \in ops /\ y.id = id}
    \cup Others(w, {"cascade"}, p)

MemberRow(w) == {m \in members : m.user = req[w].user /\ m.project = at[w].project}

\* The transactions the statement of w waits for: a unique index makes an
\* insert wait for the same key, a foreign key makes it wait for the deletion
\* of the project, and the deletion waits for those inserts and for every row
\* its cascade reaches.
Holders(w) ==
  LET p == at[w].project
      u == req[w].user
  IN CASE pc[w] = "newuser" ->
            {x \in Workers \ {w} : \E y \in writes[x] : y.op = "user" /\ y.user = u}
       [] pc[w] = "newproject" ->
            {x \in Workers \ {w} : \E y \in writes[x] : y.op \in {"project", "drop"}}
       [] pc[w] = "newmember" ->
            Others(w, {"drop"}, p)
              \cup {x \in Workers \ {w} :
                      \E y \in writes[x] : y.op \in {"member", "unmember"} /\ y.project = p /\ y.user = u}
       [] pc[w] \in {"newkey", "newreview"} -> Others(w, {"drop"}, p)
       [] pc[w] = "flush" -> RowHolders(w, {"role", "unmember"}, at[w].row, p)
       [] pc[w] = "unmember" ->
            UNION {RowHolders(w, {"role", "unmember"}, m.id, p) : m \in MemberRow(w)}
       [] pc[w] \in {"unkey", "touch"} -> RowHolders(w, {"unkey", "touch"}, at[w].row, p)
       [] pc[w] = "drop" -> Others(w, {"drop", "member", "key", "review"}, p)
       [] pc[w] = "cascade" -> Others(w, {"role", "unmember", "unkey", "touch"}, p)
       [] OTHER -> {}

\* The statement of w writes one row version and moves on.
Put(w, op, id, user, role, after) ==
  /\ writes' = [writes EXCEPT ![w] = @ \cup
       {[op |-> op, id |-> id, project |-> at[w].project, user |-> user, role |-> role]}]
  /\ pc' = [pc EXCEPT ![w] = after]
  /\ UNCHANGED <<tables, served, req, at>>

Insert(w, op, after) ==
  /\ Put(w, op, nextId, req[w].user, req[w].role, after)
  /\ nextId' = nextId + 1

Write1(w, op, id, after) ==
  /\ Put(w, op, id, req[w].user, req[w].role, after)
  /\ UNCHANGED nextId

At(w, where) == pc[w] = where /\ Holders(w) = {}
----------------------------------------------------------------------------
(* Arrivals                                                                *)

Begin(w, kind, actor, user, role, key, where) ==
  /\ pc[w] = "idle"
  /\ served < MaxRequests
  /\ served' = served + 1
  /\ req' = [req EXCEPT ![w] =
       [kind |-> kind, actor |-> actor, user |-> user, role |-> role, key |-> key]]
  /\ pc' = [pc EXCEPT ![w] = where]
  /\ UNCHANGED <<tables, nextId, at, writes>>

\* Only registered people sign in: login refuses an account without a password.
create_project(w) == \E a \in Registered : Begin(w, "create", a, a, "lead", 0, "slug")

add_member(w) == \E a \in Registered, u \in Users, r \in Role : Begin(w, "add", a, u, r, 0, "require")

set_member_role(w) ==
  \E a \in Registered, u \in Users, r \in Role : Begin(w, "setrole", a, u, r, 0, "require")

remove_member(w) == \E a \in Registered, u \in Users : Begin(w, "remove", a, u, "dev", 0, "require")

delete_project(w) == \E a \in Registered : Begin(w, "delete", a, a, "dev", 0, "require")

issue_key(w) == \E a \in Registered, u \in Users : Begin(w, "key", a, u, "dev", 0, "require")

revoke_key(w) ==
  \E a \in Registered, k \in keys : Begin(w, "unkey", a, a, "dev", k.id, "require")

\* A plugin presents a key that is not revoked (by_prefix).
review(w) ==
  \E k \in keys : /\ ~k.revoked
                  /\ Begin(w, "review", k.user, k.user, "dev", k.id, "key")
----------------------------------------------------------------------------
(* Statements that read                                                    *)

slug(w) ==
  /\ pc[w] = "slug"
  /\ IF project # 0 THEN Refuse(w) ELSE Goto(w, "newproject", NoReading)

\* issue_key without for_email is for the actor, and reads nothing more.
AfterRequire(w) ==
  CASE req[w].kind = "delete" -> {"drop"}
    [] req[w].kind = "unkey"  -> {"key"}
    [] req[w].kind = "key" /\ req[w].user = req[w].actor -> {"user", "newkey"}
    [] OTHER -> {"user"}

\* The project by its slug and the actor's role in it.  Both reads count as one:
\* a project deleted between them is unknown to the second.
_require_lead(w) ==
  /\ pc[w] = "require"
  /\ IF role_of(req[w].actor, project) # "lead"
       THEN Refuse(w)
       ELSE \E where \in AfterRequire(w) :
              Goto(w, where, [NoReading EXCEPT !.project = project])

\* by_email of the target; add_member creates who is missing, the others refuse.
by_email(w) ==
  /\ pc[w] = "user"
  /\ CASE req[w].user \in accounts -> Goto(w, "current", at[w])
       [] req[w].user \notin accounts /\ req[w].kind = "add" -> Goto(w, "newuser", at[w])
       [] OTHER -> Refuse(w)

\* What the role read for the target leads to.
Current(w, role) ==
  CASE req[w].kind = "add" /\ role = "none" -> "newmember"
    [] req[w].kind = "key" /\ role # "none" -> "newkey"
    [] req[w].kind = "remove" -> IF role = "lead" THEN "count" ELSE "unmember"
    [] req[w].kind \in {"add", "setrole"} /\ role = req[w].role -> "commit"
    [] req[w].kind \in {"add", "setrole"} /\ role = "lead" -> "count"
    [] req[w].kind \in {"add", "setrole"} /\ role = "dev" -> "select"
    [] OTHER -> "refuse"

current(w) ==
  /\ pc[w] = "current"
  /\ LET role == role_of(req[w].user, at[w].project)
     IN IF Current(w, role) = "refuse" THEN Refuse(w)
        ELSE Goto(w, Current(w, role), [at[w] EXCEPT !.role = role])

CountIgnored(w) ==                          \* mutant: off by one in the guard
  /\ pc[w] = "count"
  /\ IF count_leads(at[w].project) < 1 THEN Refuse(w)
     ELSE Goto(w, IF req[w].kind = "remove" THEN "unmember" ELSE "select",
               [at[w] EXCEPT !.leads = count_leads(at[w].project)])

\* "a project must keep at least one lead"
count(w) ==
  /\ pc[w] = "count"
  /\ IF count_leads(at[w].project) <= 1 THEN Refuse(w)
     ELSE Goto(w, IF req[w].kind = "remove" THEN "unmember" ELSE "select",
               [at[w] EXCEPT !.leads = count_leads(at[w].project)])

\* set_role loads the row: none is not an error, and a row that has the role
\* already writes nothing.
select(w) ==
  /\ pc[w] = "select"
  /\ IF \E m \in MemberRow(w) : m.role # req[w].role
       THEN Goto(w, "flush", [at[w] EXCEPT !.row = (CHOOSE m \in MemberRow(w) : TRUE).id])
       ELSE Goto(w, "commit", at[w])

\* The row of the key, for revoke_key and for authenticate_key.
by_key(w) ==
  /\ pc[w] = "key"
  /\ LET rows == {k \in keys : k.id = req[w].key /\ ~k.revoked}
         p == IF req[w].kind = "review" THEN {k.project : k \in rows} ELSE {at[w].project}
     IN IF \E k \in rows : k.project \in p
          THEN Goto(w, IF req[w].kind = "review" THEN "touch" ELSE "unkey",
                    [at[w] EXCEPT !.project = CHOOSE q \in p : TRUE, !.row = req[w].key])
          ELSE Refuse(w)
----------------------------------------------------------------------------
(* Statements that write                                                   *)

newuser(w) ==
  /\ At(w, "newuser")
  /\ IF req[w].user \in accounts THEN Refuse(w) ELSE Insert(w, "user", "current")

\* The lead's membership of a new project is invisible to others until commit.
newproject(w) ==
  /\ At(w, "newproject")
  /\ IF project # 0 THEN Refuse(w)
     ELSE /\ writes' = [writes EXCEPT ![w] =
               {[op |-> "project", id |-> nextId, project |-> nextId,
                 user |-> req[w].actor, role |-> "lead"],
                [op |-> "member", id |-> nextId + 1, project |-> nextId,
                 user |-> req[w].actor, role |-> "lead"]}]
          /\ nextId' = nextId + 2
          /\ pc' = [pc EXCEPT ![w] = "commit"]
          /\ UNCHANGED <<tables, served, req, at>>

NotUnique(w) ==                             \* mutant: no uq_membership
  /\ At(w, "newmember")
  /\ IF project # at[w].project THEN Refuse(w) ELSE Insert(w, "member", "commit")

NotReferenced(w) ==                         \* mutant: no foreign key on project_id
  /\ pc[w] = "newmember"
  /\ IF MemberRow(w) # {} THEN Refuse(w) ELSE Insert(w, "member", "commit")

newmember(w) ==
  /\ At(w, "newmember")
  /\ IF project # at[w].project \/ MemberRow(w) # {}
       THEN Refuse(w) ELSE Insert(w, "member", "commit")

newkey(w) ==
  /\ At(w, "newkey")
  /\ IF project # at[w].project THEN Refuse(w) ELSE Insert(w, "key", "commit")

newreview(w) ==
  /\ At(w, "newreview")
  /\ IF project # at[w].project THEN Refuse(w) ELSE Insert(w, "review", "commit")

\* The UPDATE of set_role, sent at the commit: StaleDataError when the row is gone.
flush(w) ==
  /\ At(w, "flush")
  /\ IF \E m \in members : m.id = at[w].row
       THEN Write1(w, "role", at[w].row, "commit") ELSE Refuse(w)

unmember(w) ==
  /\ At(w, "unmember")
  /\ IF MemberRow(w) = {} THEN Refuse(w)
     ELSE Write1(w, "unmember", (CHOOSE m \in MemberRow(w) : TRUE).id, "commit")

\* The UPDATE of a key's row: its revocation, or its last use.
updatekey(w) ==
  /\ \/ At(w, "unkey")
     \/ At(w, "touch")
  /\ IF \E k \in keys : k.id = at[w].row
       THEN Write1(w, pc[w], at[w].row, IF pc[w] = "unkey" THEN "commit" ELSE "newreview")
       ELSE Refuse(w)

\* DELETE FROM projects: the row first, then what its foreign keys cascade to.
drop(w) ==
  /\ At(w, "drop")
  /\ IF project # at[w].project THEN Goto(w, "commit", at[w])
     ELSE Write1(w, "drop", at[w].project, "cascade")

cascade(w) == At(w, "cascade") /\ Write1(w, "cascade", at[w].project, "commit")
----------------------------------------------------------------------------
WaitCycle(S) == S # {} /\ \A w \in S : Holders(w) \cap S # {}

\* Postgres aborts one transaction of a cycle.
DeadlockVictim(w) ==
  /\ \E S \in SUBSET Workers :
       w \in S /\ WaitCycle(S) /\ \A T \in SUBSET S : WaitCycle(T) => T = S
  /\ Refuse(w)

Work(w) ==
  \/ slug(w) \/ _require_lead(w) \/ by_email(w) \/ current(w) \/ count(w) \/ select(w) \/ by_key(w)
  \/ newuser(w) \/ newproject(w) \/ newmember(w) \/ newkey(w) \/ newreview(w)
  \/ flush(w) \/ unmember(w) \/ updatekey(w) \/ drop(w) \/ cascade(w) \/ Commit(w)

Arrive(w) ==
  \/ create_project(w) \/ add_member(w) \/ set_member_role(w) \/ remove_member(w)
  \/ delete_project(w) \/ issue_key(w) \/ revoke_key(w) \/ review(w)

\* The budget of requests is spent and all of them ended.
Finished == served = MaxRequests /\ (\A w \in Workers : pc[w] = "idle") /\ UNCHANGED vars

Next ==
  \/ \E w \in Workers : Arrive(w)
  \/ \E w \in Workers : Work(w)
  \/ \E w \in Workers : Abort(w)
  \/ \E w \in Workers : DeadlockVictim(w)
  \/ Finished

Fairness == \A w \in Workers : WF_vars(Work(w)) /\ WF_vars(DeadlockVictim(w))

Spec == Init /\ [][Next]_vars

FairSpec == Spec /\ Fairness
----------------------------------------------------------------------------
(* Properties                                                              *)

PC == {"idle", "slug", "require", "user", "current", "count", "select", "key", "newuser",
       "newproject", "newmember", "newkey", "newreview", "flush", "unmember", "unkey",
       "touch", "drop", "cascade", "commit"}

\* Tables, inputs, readings and uncommitted writes hold values of their types.
MembershipTypeOK ==
  /\ accounts \in SUBSET Users
  /\ project \in Nat
  /\ members \in SUBSET Member
  /\ keys \in SUBSET Key
  /\ opened \in SUBSET ReviewRow
  /\ nextId \in Nat
  /\ served \in 0..MaxRequests
  /\ pc \in [Workers -> PC]
  /\ req \in [Workers -> Request]
  /\ at \in [Workers -> Reading]
  /\ writes \in [Workers -> SUBSET Write]

\* No membership, key or review outlives its project, though the project can be
\* deleted while requests that insert under it are half done
\* (SqlProjectRepository.delete leaves the cascade to the foreign keys).
NoOrphans ==
  /\ \A m \in members : m.project = project
  /\ \A k \in keys : k.project = project
  /\ \A r \in opened : r.project = project

\* A user has one role in a project: add_member reads the role and inserts in two
\* statements, and two of them may both read none.
OneRole == \A m, n \in members : m.user = n.user /\ m.project = n.project => m = n

\* "a project must keep at least one lead" (remove_member and _change_role).
LeadKept == project # 0 => \E m \in members : m.role = "lead"

\* The role of its target, or the number of leads, is no longer what w read.
Overtaken(w) ==
  LET role == role_of(req[w].user, at[w].project)
  IN \/ role # at[w].role
     \/ role = "lead" /\ count_leads(at[w].project) # at[w].leads

HasLead == \E m \in members : m.role = "lead"

\* A project loses its last lead only to a race: the request whose commit takes
\* the role of the last lead read, in statements before, another role of its
\* target or another number of leads than there is when it commits.  A request
\* that nobody overtakes never leaves a project without one, whatever the
\* requests before it did (remove_member and _change_role read, then write).
LastLeadLostToARace ==
  [][project # 0 /\ project' = project /\ HasLead /\ ~HasLead' =>
       \E w \in Workers : pc[w] = "commit" /\ pc'[w] = "idle" /\ Overtaken(w)]_vars

\* Every request ends, the deletion of a project included, although it waits for
\* the keys that review requests have touched and they wait for the project.
MembershipRequestsEnd == \A w \in Workers : pc[w] # "idle" ~> pc[w] = "idle"
============================================================================
