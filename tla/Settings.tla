------------------------------ MODULE Settings ------------------------------
(***************************************************************************)
(* The settings screen of one project (web/app/p/[slug]/settings) open in  *)
(* several tabs, and the server actions its forms run (web/app/actions.ts) *)
(* against the configuration the API keeps as one value.                   *)
(*                                                                         *)
(* A field is the ruleset, the conventions, or the box of one rule.  The   *)
(* reviewer prompt is one more, a textarea like the conventions, that the  *)
(* leads of these tabs do not touch; "blocks at" is a select that does     *)
(* what the ruleset's does, and is left out.  Conventions are a set of     *)
(* lines, of those the panel offers.                                       *)
(*                                                                         *)
(* The inputs are uncontrolled.  What a new render and the reset after an  *)
(* action do to each kind is React's doing: a select keeps its option when *)
(* its default changes and goes back, on a reset, to the option it was     *)
(* mounted with; a box keeps its tick or takes the new default, and takes  *)
(* it on a reset; a textarea nobody typed in takes the new text.           *)
(***************************************************************************)
EXTENDS Integers, FiniteSets

CONSTANTS
  Tabs,        \* settings pages open in browsers of leads
  Rulesets,    \* names the two selects can compose
  Rules,       \* rule ids
  Guidelines,  \* the rules each ruleset lists
  Flagged,     \* rules dismissed often enough to be argued with
  MaxCommits,  \* bound: commits of one behaviour; leads begin nothing after the last
  MaxEdits     \* bound: fields a lead touches on one page

ASSUME SettingsAssumption ==
  /\ Rulesets # {}
  /\ Guidelines \in [Rulesets -> SUBSET Rules]
  /\ Flagged \subseteq Rules
  /\ MaxCommits \in Nat /\ MaxEdits \in Nat

\* One sentence per rule, built from the rule and the last reason given against it.
proposedConvention(rule) == <<"not a finding", rule>>

\* The rule health panel offers a sentence for each flagged rule.
Offered == {proposedConvention(rule) : rule \in Flagged}

Default == [ruleset |-> CHOOSE r \in Rulesets : TRUE, disabled |-> {}, lines |-> {}, rest |-> 0]
NoConfig == [ruleset |-> "none", disabled |-> {}, lines |-> {}, rest |-> 0]
Configs == [ruleset : Rulesets, disabled : SUBSET Rules, lines : SUBSET Offered, rest : 0..1]

Fields == {"ruleset", "lines"} \cup Rules

VARIABLES
  config,   \* what is committed, or NoConfig when the project is gone
  version,  \* commits so far
  write,    \* what each tab's action has written in a transaction that is still open
  tab       \* each tab: its page, what was typed in it, its action

vars == <<config, version, write, tab>>

NoWrite == [kind |-> "none", read |-> 0, typed |-> {}, opened |-> FALSE, body |-> NoConfig]

\* page, at: the configuration as rendered and its version.  form: what the fields
\* hold.  first: the option the ruleset's select was mounted with.  opened: no
\* action has rendered the page anew since.  own: the version this tab's last
\* committed write made.  late: it was committed after the page that followed it
\* was read.
Closed == [action |-> "closed", page |-> NoConfig, at |-> 0, form |-> NoConfig, typed |-> {},
           first |-> "none", opened |-> FALSE,
           line |-> <<>>, read |-> NoConfig, readAt |-> 0, said |-> "none",
           own |-> 0, late |-> FALSE]

Init ==
  /\ config = [Default EXCEPT !.rest = 1] /\ version = 0
  /\ write = [t \in Tabs |-> NoWrite]
  /\ tab = [t \in Tabs |-> Closed]
----------------------------------------------------------------------------
(* The page and its form                                                   *)

Idle(t) == tab[t].action = "idle"

\* The page lists a box for each rule of the ruleset it shows.
Listed(page) == Guidelines[page.ruleset]

\* A form as it is mounted.
Mounted(shown) == [shown EXCEPT !.disabled = @ \cap Listed(shown)]

\* A form whose action has ended: the select is where it was mounted.
Reset(first, shown) == [Mounted(shown) EXCEPT !.ruleset = first]

RenderedOnce(page, form, typed, shown, follow) ==  \* mutant: the text stays as first rendered
  [ruleset |-> form.ruleset,
   lines |-> form.lines,
   rest |-> shown.rest,
   disabled |-> {r \in Listed(shown) :
                   r \in IF r \in Listed(page) \ follow \/ r \in typed
                           THEN form.disabled ELSE shown.disabled}]

\* A form rendered anew under what was typed in it.  follow: the untouched boxes
\* that take the new default; a box of a rule that was not listed is mounted.
Rendered(page, form, typed, shown, follow) ==
  [ruleset |-> form.ruleset,
   lines |-> IF "lines" \in typed THEN form.lines ELSE shown.lines,
   rest |-> shown.rest,
   disabled |-> {r \in Listed(shown) :
                   r \in IF r \in Listed(page) \ follow \/ r \in typed
                           THEN form.disabled ELSE shown.disabled}]

Show(t, form, typed, first, opened) ==
  tab' = [tab EXCEPT ![t] =
    IF config = NoConfig THEN Closed
    ELSE [@ EXCEPT !.action = "idle", !.page = config, !.at = version,
                   !.form = form, !.typed = typed, !.first = first, !.opened = opened,
                   !.said = "none", !.line = <<>>, !.read = NoConfig, !.readAt = 0,
                   !.late = write[t].kind # "none"]]

\* Every visit mounts the page with the configuration read anew; a page under an
\* action is not left.
SettingsPage(t) ==
  /\ tab[t].action \in {"closed", "idle"} /\ config # NoConfig
  /\ tab[t].action = "idle" => tab[t].at # version \/ tab[t].typed # {} \/ ~tab[t].opened
  /\ Show(t, Mounted(config), {}, config.ruleset, TRUE)
  /\ UNCHANGED <<config, version, write>>

\* The lead changes one field.
Type(t) ==
  /\ Idle(t) /\ Cardinality(tab[t].typed) < MaxEdits /\ version < MaxCommits
  /\ \/ \E r \in Rulesets \ {tab[t].form.ruleset} :
          tab' = [tab EXCEPT ![t].form.ruleset = r, ![t].typed = @ \cup {"ruleset"}]
     \/ \E lines \in SUBSET Offered \ {tab[t].form.lines} :
          tab' = [tab EXCEPT ![t].form.lines = lines, ![t].typed = @ \cup {"lines"}]
     \/ \E r \in Listed(tab[t].page) :
          tab' = [tab EXCEPT ![t].form.disabled = (@ \ {r}) \cup ({r} \ @), ![t].typed = @ \cup {r}]
  /\ UNCHANGED <<config, version, write>>
----------------------------------------------------------------------------
(* Server actions                                                          *)

difference(all, keep) == all \ keep

\* The list of rules is what the page rendered, whatever ruleset is chosen now;
\* a browser sends only the boxes that are ticked.
allRules(t) == Listed(tab[t].page)
enabled(t) == allRules(t) \ tab[t].form.disabled

sentForm(t) ==
  [ruleset |-> tab[t].form.ruleset, lines |-> tab[t].form.lines, rest |-> tab[t].form.rest,
   disabled |-> difference(allRules(t), enabled(t))]

\* What saveConfig sends: every field of the form, the boxes turned around.
body(t) == sentForm(t)

\* The PUT of a whole configuration: refused, or written in a transaction that
\* commits after its answer is on the way.
Put(t, kind, value, readAt, typed, opened) ==
  \/ /\ config # NoConfig /\ version < MaxCommits
     /\ write' = [write EXCEPT ![t] = [kind |-> kind, read |-> readAt, typed |-> typed,
                                       opened |-> opened, body |-> value]]
     /\ tab' = [tab EXCEPT ![t].action = kind, ![t].said = "done"]
  \/ /\ UNCHANGED write
     /\ tab' = [tab EXCEPT ![t].action = kind, ![t].said = "error"]

saveConfig(t) ==
  /\ Idle(t) /\ write[t] = NoWrite /\ version < MaxCommits
  /\ Put(t, "save", body(t), tab[t].at, tab[t].typed, tab[t].opened)
  /\ UNCHANGED <<config, version>>

\* addConvention reads the configuration back first, or is refused.
addConvention(t) ==
  /\ Idle(t) /\ write[t] = NoWrite /\ version < MaxCommits
  /\ \E line \in Offered, next \in {"adopt"} \cup (IF config = NoConfig THEN {} ELSE {"read"}) :
       tab' = [tab EXCEPT ![t].action = next, ![t].line = line, ![t].said = "error",
                          ![t].read = IF next = "read" THEN config ELSE NoConfig,
                          ![t].readAt = IF next = "read" THEN version ELSE 0]
  /\ UNCHANGED <<config, version, write>>

appendedToDefaults(read, line) == [Default EXCEPT !.lines = read.lines \cup {line}]
appended(read, line) == [read EXCEPT !.lines = @ \cup {line}]

alreadyThere(t) ==
  /\ tab[t].action = "read" /\ tab[t].line \in tab[t].read.lines
  /\ tab' = [tab EXCEPT ![t].action = "adopt", ![t].said = "there"]
  /\ UNCHANGED <<config, version, write>>

appendConvention(t) ==
  /\ tab[t].action = "read" /\ tab[t].line \notin tab[t].read.lines
  /\ Put(t, "adopt", appended(tab[t].read, tab[t].line), tab[t].readAt, {}, FALSE)
  /\ UNCHANGED <<config, version>>

runWithoutPath(t) ==                        \* mutant: no revalidatePath
  /\ tab[t].action \in {"save", "adopt"}
  /\ tab' = [tab EXCEPT ![t].action = "idle", ![t].said = "none", ![t].line = <<>>,
                        ![t].read = NoConfig, ![t].readAt = 0, ![t].late = FALSE]
  /\ UNCHANGED <<config, version, write>>

\* The end of run(): an ApiError becomes the form's error and revalidates nothing;
\* anything else renders the page anew.  React resets the form whose action ended,
\* with an error or not, and leaves what was typed in the others.
run(t) ==
  /\ LET now == tab[t] IN
       \/ /\ now.action \in {"save", "adopt"} /\ now.said = "error"
          /\ tab' = [tab EXCEPT ![t].action = "idle",
                ![t].typed = IF now.action = "save" THEN {} ELSE @,
                ![t].form = IF now.action = "save" THEN Reset(now.first, now.page) ELSE @,
                ![t].said = "none", ![t].line = <<>>, ![t].read = NoConfig, ![t].readAt = 0]
       \/ /\ now.action = "save" /\ now.said # "error"
          /\ Show(t, Reset(now.first, config), {}, now.first, FALSE)
       \/ /\ now.action = "adopt" /\ now.said # "error"
          /\ \E follow \in SUBSET Rules :
               Show(t, Rendered(now.page, now.form, now.typed, config, follow),
                    now.typed \cap ({"ruleset", "lines"} \cup Listed(config)), now.first, FALSE)
  /\ UNCHANGED <<config, version, write>>

\* 401: the session ended, and the action or the page becomes the sign-in screen.
redirectToLogin(t) ==
  /\ tab[t].action \in {"save", "adopt", "read"} /\ tab[t].said = "error"
  /\ tab' = [tab EXCEPT ![t] = Closed]
  /\ UNCHANGED <<config, version, write>>

\* The word typed was the slug: the project goes, and the tab goes to the list.  A
\* write that is open has lost its row, and its commit fails.
deleteProject(t) ==
  /\ Idle(t) /\ write[t] = NoWrite /\ config # NoConfig /\ version < MaxCommits
  /\ config' = NoConfig /\ version' = version + 1
  /\ tab' = [tab EXCEPT ![t] = Closed]
  /\ write' = [u \in Tabs |-> NoWrite]

\* A project of the same slug, with the configuration a new one has.
createProject ==
  /\ config = NoConfig /\ version < MaxCommits
  /\ config' = Default /\ version' = version + 1
  /\ UNCHANGED <<write, tab>>
----------------------------------------------------------------------------
(* The transaction of a PUT ends once its answer is out                    *)

Commit(t) ==
  /\ write[t] # NoWrite /\ version < MaxCommits
  /\ config' = write[t].body /\ version' = version + 1
  /\ tab' = [tab EXCEPT ![t].own = IF tab[t].action = "closed" THEN 0 ELSE version + 1]
  /\ write' = [write EXCEPT ![t] = NoWrite]

CommitFails(t) ==
  /\ write[t] # NoWrite
  /\ write' = [write EXCEPT ![t] = NoWrite]
  /\ UNCHANGED <<config, version, tab>>

Next ==
  \/ \E t \in Tabs :
       \/ SettingsPage(t) \/ Type(t) \/ saveConfig(t) \/ addConvention(t) \/ alreadyThere(t)
       \/ appendConvention(t) \/ run(t) \/ redirectToLogin(t) \/ deleteProject(t)
       \/ Commit(t) \/ CommitFails(t)
  \/ createProject

Spec == Init /\ [][Next]_vars
----------------------------------------------------------------------------
\* The configurations stored, sent and shown are configurations.
SettingsTypeOK ==
  /\ config \in Configs \cup {NoConfig} /\ version \in 0..MaxCommits
  /\ \A t \in Tabs : write[t].body \in Configs \cup {NoConfig}
  /\ \A t \in Tabs : tab[t].at <= version /\ tab[t].typed \subseteq Fields
                     /\ Cardinality(tab[t].typed) <= MaxEdits

\* The commit of a save that no other commit has come before since its page was
\* read, and what had been touched on the page.
SaveLands(t) == Commit(t) /\ write[t].kind = "save" /\ write[t].read = version

\* "The box catches up on its own and Save cannot put the old text back": a save
\* writes the whole configuration, and does not write back a text the lead has not
\* touched, even when the page was rendered anew under the form.  On a page that no
\* action has rendered anew it changes the ruleset and the listed rules only where
\* the lead touched them.
SaveKeepsTheRest ==
  [][\A t \in Tabs : SaveLands(t) =>
       LET typed == write[t].typed IN
         /\ "lines" \notin typed => config'.lines = config.lines
         /\ config'.rest = config.rest
         /\ write[t].opened =>
              /\ "ruleset" \notin typed => config'.ruleset = config.ruleset
              /\ \A r \in Listed(config) \ typed : r \in config'.disabled <=> r \in config.disabled]_vars

\* Not so (MCSettingsPutBack.cfg): after a save that changes the ruleset the select
\* shows the one it was mounted with, and the next save writes that back.
RulesetIsNotPutBack ==
  [][\A t \in Tabs : SaveLands(t) /\ "ruleset" \notin write[t].typed =>
       config'.ruleset = config.ruleset]_vars

\* Not so (MCSettingsDropped.cfg), although a check of e2e_browser.mjs is named so:
\* "a rule switched off stays off".  A save sends the difference against the rules
\* the page lists, and what was switched off in another ruleset is forgotten.
SwitchedOffStaysOff ==
  [][\A t \in Tabs : SaveLands(t) =>
       config.disabled \ write[t].typed \subseteq config'.disabled]_vars

\* "The rest of it belongs to the lead and a rule they never touched must not be
\* switched off by a click on a different card": adopting a convention with
\* nobody in between only adds its line.
AdoptOnlyAppends ==
  [][\A t \in Tabs :
       Commit(t) /\ write[t].kind = "adopt" /\ write[t].read = version =>
         /\ config.lines \subseteq config'.lines
         /\ [config' EXCEPT !.lines = config.lines] = config]_vars

\* "There is no client cache that can disagree with the database": a tab whose
\* action has ended shows its own write, unless the page overtook the commit.
OwnWriteShown ==
  \A t \in Tabs : Idle(t) /\ ~tab[t].late => tab[t].own <= tab[t].at
=============================================================================
