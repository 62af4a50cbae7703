------------------------------ MODULE Loading ------------------------------
(* What the check of scripts/walk_skill.mjs on registration promises: which  *)
(* of the extensions a session's code landed in the platform would not load. *)
(* The platform loads what is registered, what that requires, and nothing    *)
(* else: the least such set.                                                 *)
CONSTANTS Names  \* the extensions

VARIABLES
  registered,  \* the extensions localextensions.xml names
  requires,    \* what each extension requires
  landed,      \* the extensions the session's code is in
  asked,       \* a question is open
  answer       \* no answer, or the one that was given
vars == <<registered, requires, landed, asked, answer>>

Closed(S) == registered \subseteq S /\ \A x \in S : requires[x] \subseteq S

Loads(x) == \A S \in SUBSET Names : Closed(S) => x \in S

Init == ~asked /\ answer = {}

Ask == ~asked /\ asked' /\ answer' = {}

Answer ==
  /\ asked /\ ~asked'
  /\ answer' = {{x \in landed : ~Loads(x)}}
  /\ UNCHANGED <<registered, requires, landed>>

\* The answer has been read, or the one who asked is gone.
Forget == ~asked' /\ answer' = {}

Spec == Init /\ [][Ask \/ Answer \/ Forget]_vars
=============================================================================
