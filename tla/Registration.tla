---------------------------- MODULE Registration ----------------------------
(* registration of scripts/walk_skill.mjs: a worklist over what each         *)
(* extension requires, from the ones localextensions.xml registers. Required *)
(* extensions may form any graph, cycles and all.                            *)
CONSTANTS
  Names,    \* the extensions, by the last segment of their directory
  Landings  \* the extensions a session's code may have landed in

ASSUME RegistrationAssumption == Landings \subseteq SUBSET Names

VARIABLES
  tag,       \* how localextensions.xml mentions an extension
  requires,  \* requires-extension of each extensioninfo.xml
  landed,    \* where the written files are
  loaded,    \* what is known to be loaded
  pending,   \* the ones whose requirements have not been read
  phase      \* "idle", "working" or "done"
registrationVars == <<tag, requires, landed, loaded, pending, phase>>

\* By `name` or by `dir`, and not in a comment.
registeredExtensions == {x \in Names : tag[x] = "registered"}

NotCalled ==
  /\ tag = [x \in Names |-> "absent"] /\ requires = [x \in Names |-> {}]
  /\ landed = {} /\ loaded = {} /\ pending = {}
  /\ phase = "idle"

\* The checkout as the session left it is read, and the worklist begins.
Call ==
  /\ phase = "idle" /\ phase' = "working"
  /\ tag' \in [Names -> {"absent", "commented", "registered"}]
  /\ requires' \in [Names -> SUBSET Names]
  /\ landed' \in Landings
  /\ loaded' = registeredExtensions' /\ pending' = registeredExtensions'

\* One turn of the loop: `pop`, and every requirement not loaded yet is loaded
\* and becomes pending. In which order it pops changes nothing that follows.
neededByAny(x) == UNION {requires[y] : y \in Names} \ loaded
neededAgain(x) == requires[x]
needed(x) == requires[x] \ loaded

Pop ==
  /\ phase = "working"
  /\ \E x \in pending :
       /\ loaded' = loaded \cup needed(x)
       /\ pending' = (pending \ {x}) \cup needed(x)
  /\ UNCHANGED <<tag, requires, landed, phase>>

notNamed == landed \ registeredExtensions
unregistered == landed \ loaded

Return ==
  /\ phase = "working" /\ pending = {}
  /\ phase' = "done"
  /\ UNCHANGED <<tag, requires, landed, loaded, pending>>

\* The caller has the answer, or was killed: nothing of the call is left.
Leave ==
  /\ tag' = [x \in Names |-> "absent"] /\ requires' = [x \in Names |-> {}]
  /\ landed' = {} /\ loaded' = {} /\ pending' = {}
  /\ phase' = "idle"

RegistrationNext == Call \/ Pop \/ Return \/ Leave

RegistrationSpec == NotCalled /\ [][RegistrationNext]_registrationVars

-----------------------------------------------------------------------------
(* What the check is worth. *)

RegistrationTypeOK ==
  /\ tag \in [Names -> {"absent", "commented", "registered"}]
  /\ requires \in [Names -> SUBSET Names]
  /\ landed \in SUBSET Names /\ loaded \in SUBSET Names /\ pending \in SUBSET loaded
  /\ phase \in {"idle", "working", "done"}

\* What the worklist relies on between two turns: what is registered is loaded,
\* what a loaded extension requires is loaded or will be looked at, and nothing
\* is loaded that the platform would not load (scripts/walk_skill.mjs:824-842).
WorklistInv ==
  /\ RegistrationTypeOK
  /\ phase # "idle" => registeredExtensions \subseteq loaded
  /\ \A x \in loaded \ pending : requires[x] \subseteq loaded
  /\ \A S \in SUBSET Names :
       registeredExtensions \subseteq S /\ (\A x \in S : requires[x] \subseteq S) => loaded \subseteq S
  /\ phase = "done" => pending = {}

\* The worklist gives the answer Loading promises, once a call: an extension
\* required by a registered one counts as registered, and a chain nobody
\* registered does not (scripts/walk_skill.mjs:2742 and :2752).
AbstractLoading ==
  INSTANCE Loading WITH registered <- registeredExtensions,
                        asked <- phase = "working",
                        answer <- IF phase = "done" THEN {unregistered} ELSE {}
ImplementsLoading == AbstractLoading!Spec
=============================================================================
