------------------------------ MODULE WebProofs ------------------------------
(***************************************************************************)
(* The web application.  What the settings screen promises, for every      *)
(* number of tabs, rules and rulesets, of commits and of edits: a Save     *)
(* keeps what it must, an adoption appends, and a tab shows its own write. *)
(* And what the walk of a browser through the screens means, for every     *)
(* disciplined script and every number of misses.                          *)
(***************************************************************************)
EXTENDS Settings, Browser, SequenceTheorems, TLAPS
Stored == Configs \cup {NoConfig}

Tab == [action : {"closed", "idle", "save", "adopt", "read"}, page : Stored, at : Nat,
        form : Stored, typed : SUBSET Fields, first : Rulesets \cup {"none"}, opened : BOOLEAN,
        line : Offered \cup {<<>>}, read : Stored,
        readAt : Nat, said : {"none", "done", "error", "there"}, own : Nat, late : BOOLEAN]

Write == [kind : {"none", "save", "adopt"}, read : Nat, typed : SUBSET Fields,
          opened : BOOLEAN, body : Stored]

\* The texts nobody typed in hold what the page shows; the select and the boxes
\* do as long as the page is as it was mounted.
Untouched(form, typed, shown, opened) ==
  /\ "lines" \notin typed => form.lines = shown.lines
  /\ form.rest = shown.rest
  /\ opened =>
       /\ "ruleset" \notin typed => form.ruleset = shown.ruleset
       /\ \A r \in Listed(shown) \ typed : r \in form.disabled <=> r \in shown.disabled

\* What was read of the configuration is the configuration, or it is older.  x is
\* a tab, w what its action has written, c the configuration and v its version.
PageFits(x, c, v) ==
  x.action # "closed" =>
    /\ x.page \in Configs /\ x.form \in Configs
    /\ x.at <= v /\ (x.at = v => x.page = c)
    /\ Untouched(x.form, x.typed, x.page, x.opened)
    /\ x.first \in Rulesets /\ (x.opened => x.first = x.page.ruleset)

ReadFits(x, c, v) ==
  x.action = "read" =>
    /\ x.read \in Configs /\ x.line \in Offered
    /\ x.readAt <= v /\ (x.readAt = v => x.read = c)

\* What commits over c keeps what was not typed, or adds a line.
SavedOver(value, typed, opened, c) ==
  /\ "lines" \notin typed => value.lines = c.lines
  /\ value.rest = c.rest
  /\ opened =>
       /\ "ruleset" \notin typed => value.ruleset = c.ruleset
       /\ \A r \in Listed(c) \ typed : r \in value.disabled <=> r \in c.disabled

AppendsTo(value, c) == c.lines \subseteq value.lines /\ [value EXCEPT !.lines = c.lines] = c

WriteFits(w, c, v) ==
  /\ w.read <= v /\ (w.kind = "none" => w = NoWrite)
  /\ (w.kind = "save" /\ w.read = v) => SavedOver(w.body, w.typed, w.opened, c)
  /\ (w.kind = "adopt" /\ w.read = v) => AppendsTo(w.body, c)

\* A page knows when a write of its own may still be on its way.
OwnFits(x, w, v) ==
  /\ x.own <= v
  /\ (x.action # "closed" /\ ~x.late /\ x.said \in {"none", "error"}) => x.own <= x.at
  /\ (x.action # "closed" /\ w.kind # "none") => (x.late \/ x.said = "done")
  /\ x.action = "idle" => x.said = "none"
  /\ x.action = "read" => x.said = "error"

TabFits(x, w, c, v) ==
  /\ x \in Tab /\ w \in Write
  /\ PageFits(x, c, v) /\ ReadFits(x, c, v) /\ WriteFits(w, c, v) /\ OwnFits(x, w, v)

\* The inductive invariant: each tab and its open write fit the configuration.
SettingsInv ==
  /\ config \in Stored /\ version \in Nat
  /\ tab \in [Tabs -> Tab] /\ write \in [Tabs -> Write]
  /\ \A t \in Tabs : TabFits(tab[t], write[t], config, version)
-----------------------------------------------------------------------------
(* Configurations.                                                         *)

\* A new project's configuration is one of those that can be stored.
LEMMA DefaultStored == Default \in Configs /\ [Default EXCEPT !.rest = 1] \in Configs
<1>1. (CHOOSE r \in Rulesets : TRUE) \in Rulesets
  BY SettingsAssumption
<1>2. Default \in Configs
  BY <1>1 DEF Default, Configs
<1>3. QED
  BY <1>2 DEF Configs

\* A tab without a page, and one without a write, have their types.
LEMMA ClosedTyped == Closed \in Tab /\ NoWrite \in Write
BY DEF Closed, NoWrite, Tab, Write, Stored

\* A page lists rules.
LEMMA RulesListed == ASSUME NEW c \in Configs PROVE Listed(c) \subseteq Rules
BY SettingsAssumption DEF Listed, Configs

\* A form that is mounted holds what the page shows.
LEMMA MountedFits ==
  ASSUME NEW shown \in Configs
  PROVE  Mounted(shown) \in Configs /\ Untouched(Mounted(shown), {}, shown, TRUE)
BY RulesListed DEF Mounted, Untouched, Configs

\* A form that is reset holds it but for the select, which is where it was mounted.
LEMMA ResetFits ==
  ASSUME NEW shown \in Configs, NEW first \in Rulesets, NEW opened,
         opened => first = shown.ruleset
  PROVE  Reset(first, shown) \in Configs /\ Untouched(Reset(first, shown), {}, shown, opened)
BY RulesListed DEF Reset, Mounted, Untouched, Configs

\* A form rendered over a page keeps what was typed, and its texts follow the page.
LEMMA RenderedFits ==
  ASSUME NEW was \in Configs, NEW form \in Configs, NEW typed, NEW kept,
         "lines" \in typed <=> "lines" \in kept,
         NEW shown \in Configs, NEW follow
  PROVE  /\ Rendered(was, form, typed, shown, follow) \in Configs
         /\ Untouched(Rendered(was, form, typed, shown, follow), kept, shown, FALSE)
BY RulesListed DEF Rendered, Untouched, Configs

\* Nothing fits worse because someone else committed.
LEMMA StillFits ==
  ASSUME NEW x, NEW w, NEW c, NEW d, NEW v \in Nat, TabFits(x, w, c, v)
  PROVE  TabFits(x, w, d, v + 1)
BY DEF TabFits, PageFits, ReadFits, WriteFits, OwnFits, Tab, Write

\* A step of one tab.
LEMMA OneTab ==
  ASSUME SettingsInv, NEW t \in Tabs, NEW x, NEW w,
         tab' = [tab EXCEPT ![t] = x], write' = [write EXCEPT ![t] = w],
         TabFits(x, w, config', version'), config' \in Stored,
         UNCHANGED <<config, version>> \/ version' = version + 1
  PROVE  SettingsInv'
<1>1. x \in Tab /\ w \in Write
  BY DEF TabFits
<1>2. tab' \in [Tabs -> Tab] /\ write' \in [Tabs -> Write] /\ version' \in Nat
  BY <1>1 DEF SettingsInv
<1>3. ASSUME NEW u \in Tabs PROVE TabFits(tab'[u], write'[u], config', version')
  <2>1. CASE u = t
    BY <2>1 DEF SettingsInv
  <2>2. CASE u # t
    <3>1. tab'[u] = tab[u] /\ write'[u] = write[u]
      BY <2>2 DEF SettingsInv
    <3>2. TabFits(tab[u], write[u], config, version) /\ version \in Nat
      BY DEF SettingsInv
    <3>3. TabFits(tab[u], write[u], config', version')
      BY <3>2, StillFits
    <3>4. QED
      BY <3>1, <3>3
  <2>3. QED
    BY <2>1, <2>2
<1>4. QED
  BY <1>2, <1>3 DEF SettingsInv

\* A step of one tab that commits nothing and writes nothing.
LEMMA OnePage ==
  ASSUME SettingsInv, NEW t \in Tabs, NEW x, tab' = [tab EXCEPT ![t] = x],
         UNCHANGED <<config, version, write>>, TabFits(x, write[t], config, version)
  PROVE  SettingsInv'
<1>1. write' = [write EXCEPT ![t] = write[t]]
  BY DEF SettingsInv
<1>2. QED
  BY <1>1, OneTab DEF SettingsInv
-----------------------------------------------------------------------------
(* The page.                                                               *)

\* A page that is rendered anew shows the configuration as it is.
LEMMA ShowKeeps ==
  ASSUME SettingsInv, NEW t \in Tabs, NEW form, NEW typed \in SUBSET Fields, NEW first,
         NEW opened \in BOOLEAN,
         config # NoConfig =>
           /\ form \in Configs /\ Untouched(form, typed, config, opened)
           /\ first \in Rulesets /\ (opened => first = config.ruleset),
         Show(t, form, typed, first, opened), UNCHANGED <<config, version, write>>
  PROVE  SettingsInv'
<1>1. CASE config = NoConfig
  <2>1. tab' = [tab EXCEPT ![t] = Closed]
    BY <1>1 DEF Show
  <2>2. TabFits(Closed, write[t], config, version)
    BY ClosedTyped DEF SettingsInv, TabFits, PageFits, ReadFits, OwnFits, Closed
  <2>3. QED
    BY <2>1, <2>2, OnePage
<1>2. CASE config # NoConfig
  <2> DEFINE late == write[t].kind # "none"
  <2> DEFINE x == [tab[t] EXCEPT !.action = "idle", !.page = config, !.at = version,
                     !.form = form, !.typed = typed, !.first = first, !.opened = opened,
                     !.said = "none", !.line = <<>>, !.read = NoConfig, !.readAt = 0, !.late = late]
  <2>1. tab' = [tab EXCEPT ![t] = x]
    BY <1>2 DEF Show
  <2>2. /\ config \in Configs /\ form \in Configs /\ Untouched(form, typed, config, opened)
        /\ first \in Rulesets /\ (opened => first = config.ruleset)
    BY <1>2 DEF SettingsInv, Stored
  <2>3. tab[t] \in Tab /\ TabFits(tab[t], write[t], config, version) /\ version \in Nat
    BY DEF SettingsInv
  <2>4. late \in BOOLEAN
    OBVIOUS
  <2>5. config \in Stored /\ form \in Stored /\ NoConfig \in Stored /\ tab[t] \in Tab
    BY <2>2, <2>3 DEF Stored
  <2> HIDE DEF late
  <2>6. /\ x.action = "idle" /\ x.page = config /\ x.at = version /\ x.form = form
        /\ x.first = first /\ x.opened = opened
        /\ x.typed = typed /\ x.said = "none" /\ x.own = tab[t].own /\ x.late = late
    BY <2>5 DEF Tab
  <2>7. x \in Tab
    BY <2>2, <2>3, <2>4, <2>5 DEF Tab
  <2> HIDE DEF x
  <2>8. PageFits(x, config, version) /\ ReadFits(x, config, version)
    BY <2>2, <2>3, <2>6 DEF PageFits, ReadFits
  <2>9. OwnFits(x, write[t], version)
    BY <2>3, <2>6 DEF OwnFits, TabFits, late
  <2>10. TabFits(x, write[t], config, version)
    BY <2>3, <2>6, <2>7, <2>8, <2>9 DEF TabFits
  <2>11. QED
    BY <2>1, <2>10, OnePage
<1>3. QED
  BY <1>1, <1>2

\* The page opens on the configuration as it is.
LEMMA SettingsPageKeeps ==
  ASSUME SettingsInv, NEW t \in Tabs, SettingsPage(t)
  PROVE  SettingsInv'
<1>1. config \in Configs
  BY DEF SettingsPage, SettingsInv, Stored
<1>2. /\ Mounted(config) \in Configs /\ Untouched(Mounted(config), {}, config, TRUE)
      /\ config.ruleset \in Rulesets
  BY <1>1, MountedFits DEF Configs
<1>3. QED
  BY <1>2, ShowKeeps DEF SettingsPage

\* Typing changes a field and says so.
LEMMA TypeKeeps ==
  ASSUME SettingsInv, NEW t \in Tabs, Type(t)
  PROVE  SettingsInv'
<1> DEFINE old == tab[t]
<1>1. /\ old \in Tab /\ old.action = "idle" /\ old.form \in Configs /\ old.page \in Configs
      /\ Untouched(old.form, old.typed, old.page, old.opened)
      /\ TabFits(old, write[t], config, version)
  BY DEF Type, Idle, SettingsInv, TabFits, PageFits
<1>2. ASSUME NEW form \in Configs, NEW typed \in SUBSET Fields,
             Untouched(form, typed, old.page, old.opened),
             tab' = [tab EXCEPT ![t].form = form, ![t].typed = typed]
      PROVE  SettingsInv'
  <2> DEFINE x == [old EXCEPT !.form = form, !.typed = typed]
  <2>1. tab' = [tab EXCEPT ![t] = x]
    BY <1>2
  <2>2. /\ x \in Tab /\ x.form = form /\ x.typed = typed
        /\ x.action = old.action /\ x.page = old.page /\ x.at = old.at /\ x.line = old.line
        /\ x.read = old.read /\ x.readAt = old.readAt /\ x.said = old.said /\ x.own = old.own
        /\ x.late = old.late /\ x.first = old.first /\ x.opened = old.opened
    BY <1>1, <1>2 DEF Tab, Stored
  <2> HIDE DEF x
  <2>3. TabFits(x, write[t], config, version)
    BY <1>1, <1>2, <2>2 DEF TabFits, PageFits, ReadFits, OwnFits
  <2>4. QED
    BY <2>1, <2>3, OnePage DEF Type
<1>3. ASSUME NEW ruleset \in Rulesets,
             tab' = [tab EXCEPT ![t].form.ruleset = ruleset, ![t].typed = @ \cup {"ruleset"}]
      PROVE  SettingsInv'
  <2> DEFINE form == [old.form EXCEPT !.ruleset = ruleset]
  <2>1. form \in Configs /\ Untouched(form, old.typed \cup {"ruleset"}, old.page, old.opened)
    BY <1>1 DEF Configs, Untouched
  <2>2. old.typed \cup {"ruleset"} \in SUBSET Fields
    BY <1>1 DEF Tab, Fields
  <2>3. tab' = [tab EXCEPT ![t].form = form, ![t].typed = old.typed \cup {"ruleset"}]
    BY <1>3
  <2>4. QED
    BY <1>2, <2>1, <2>2, <2>3
<1>4. ASSUME NEW lines \in SUBSET Offered,
             tab' = [tab EXCEPT ![t].form.lines = lines, ![t].typed = @ \cup {"lines"}]
      PROVE  SettingsInv'
  <2> DEFINE form == [old.form EXCEPT !.lines = lines]
  <2>1. form \in Configs /\ Untouched(form, old.typed \cup {"lines"}, old.page, old.opened)
    BY <1>1 DEF Configs, Untouched
  <2>2. old.typed \cup {"lines"} \in SUBSET Fields
    BY <1>1 DEF Tab, Fields
  <2>3. tab' = [tab EXCEPT ![t].form = form, ![t].typed = old.typed \cup {"lines"}]
    BY <1>4
  <2>4. QED
    BY <1>2, <2>1, <2>2, <2>3
<1>5. ASSUME NEW r \in Listed(tab[t].page),
             tab' = [tab EXCEPT ![t].form.disabled = (@ \ {r}) \cup ({r} \ @),
                                ![t].typed = @ \cup {r}]
      PROVE  SettingsInv'
  <2> DEFINE off == (old.form.disabled \ {r}) \cup ({r} \ old.form.disabled)
  <2> DEFINE form == [old.form EXCEPT !.disabled = off]
  <2>1. r \in Rules
    BY <1>1, RulesListed
  <2>2. off \in SUBSET Rules /\ \A q \in Rules \ {r} : q \in off <=> q \in old.form.disabled
    BY <1>1, <2>1 DEF Configs
  <2> HIDE DEF off
  <2>3. form \in Configs /\ Untouched(form, old.typed \cup {r}, old.page, old.opened)
    BY <1>1, <2>2, RulesListed DEF Configs, Untouched
  <2>4. old.typed \cup {r} \in SUBSET Fields
    BY <1>1, <2>1 DEF Tab, Fields
  <2>5. tab' = [tab EXCEPT ![t].form = form, ![t].typed = old.typed \cup {r}]
    BY <1>5 DEF off
  <2>6. QED
    BY <1>2, <2>3, <2>4, <2>5
<1>6. QED
  BY <1>3, <1>4, <1>5 DEF Type
-----------------------------------------------------------------------------
(* The actions of the forms.                                               *)

\* A PUT that is refused, and one that is written and answered.
LEMMA PutKeeps ==
  ASSUME SettingsInv, NEW t \in Tabs, NEW kind \in {"save", "adopt"}, NEW value \in Stored,
         NEW readAt \in Nat, NEW typed \in SUBSET Fields, NEW opened \in BOOLEAN,
         tab[t].action # "closed", tab[t].said \in {"none", "error"},
         WriteFits([kind |-> kind, read |-> readAt, typed |-> typed, opened |-> opened,
                    body |-> value], config, version),
         Put(t, kind, value, readAt, typed, opened), UNCHANGED <<config, version>>
  PROVE  SettingsInv'
<1> DEFINE old == tab[t]
<1> DEFINE w == [kind |-> kind, read |-> readAt, typed |-> typed, opened |-> opened, body |-> value]
<1>1. old \in Tab /\ TabFits(old, write[t], config, version)
  BY DEF SettingsInv
<1>2. w \in Write
  BY DEF Write
<1>3. ASSUME NEW said \in {"done", "error"}
      PROVE  LET x == [old EXCEPT !.action = kind, !.said = said]
             IN  /\ x \in Tab /\ PageFits(x, config, version) /\ ReadFits(x, config, version)
                 /\ said = "error" => OwnFits(x, write[t], version)
                 /\ said = "done" => OwnFits(x, w, version)
  <2> DEFINE x == [old EXCEPT !.action = kind, !.said = said]
  <2>1. /\ x \in Tab /\ x.action = kind /\ x.said = said
        /\ x.form = old.form /\ x.typed = old.typed /\ x.page = old.page /\ x.at = old.at
        /\ x.own = old.own /\ x.late = old.late /\ x.first = old.first /\ x.opened = old.opened
    BY <1>1, <1>3 DEF Tab
  <2>2. w.kind = kind
    OBVIOUS
  <2> HIDE DEF x, w
  <2>3. PageFits(x, config, version) /\ ReadFits(x, config, version)
    BY <1>1, <2>1 DEF TabFits, PageFits, ReadFits
  <2>4. said = "error" => OwnFits(x, write[t], version)
    BY <1>1, <2>1 DEF TabFits, OwnFits
  <2>5. said = "done" => OwnFits(x, w, version)
    BY <1>1, <2>1 DEF TabFits, OwnFits
  <2>6. QED
    BY <2>1, <2>3, <2>4, <2>5 DEF x
<1>4. CASE write' = [write EXCEPT ![t] = w] /\ tab' = [tab EXCEPT ![t].action = kind, ![t].said = "done"]
  <2> DEFINE x == [old EXCEPT !.action = kind, !.said = "done"]
  <2>1. TabFits(x, w, config, version)
    BY <1>2, <1>3 DEF TabFits
  <2>2. tab' = [tab EXCEPT ![t] = x]
    BY <1>4
  <2> HIDE DEF x, w
  <2>3. QED
    BY <1>4, <2>1, <2>2, OneTab DEF SettingsInv
<1>5. CASE UNCHANGED write /\ tab' = [tab EXCEPT ![t].action = kind, ![t].said = "error"]
  <2> DEFINE x == [old EXCEPT !.action = kind, !.said = "error"]
  <2>1. TabFits(x, write[t], config, version)
    BY <1>1, <1>3 DEF TabFits
  <2>2. tab' = [tab EXCEPT ![t] = x]
    BY <1>5
  <2> HIDE DEF x
  <2>3. QED
    BY <1>5, <2>1, <2>2, OnePage
<1>6. QED
  BY <1>4, <1>5 DEF Put

\* What saveConfig sends of a page that is current differs in what was typed.
LEMMA SaveKeeps ==
  ASSUME SettingsInv, NEW t \in Tabs, saveConfig(t)
  PROVE  SettingsInv'
<1> DEFINE old == tab[t]
<1> DEFINE w == [kind |-> "save", read |-> old.at, typed |-> old.typed, opened |-> old.opened,
                 body |-> body(t)]
<1>1. /\ old \in Tab /\ old.action = "idle" /\ old.said = "none"
      /\ old.form \in Configs /\ old.page \in Configs
      /\ Untouched(old.form, old.typed, old.page, old.opened)
      /\ old.at <= version /\ (old.at = version => old.page = config)
  BY DEF saveConfig, Idle, SettingsInv, TabFits, PageFits, OwnFits
<1>2. allRules(t) \subseteq Rules
  BY <1>1, RulesListed DEF allRules
<1>3. /\ body(t).ruleset = old.form.ruleset /\ body(t).lines = old.form.lines
      /\ body(t).rest = old.form.rest
      /\ body(t).disabled = allRules(t) \ (allRules(t) \ old.form.disabled)
  BY DEF body, sentForm, difference, enabled
<1>4. body(t) \in Configs
  BY <1>1, <1>2 DEF body, sentForm, difference, Configs
<1>5. SavedOver(body(t), old.typed, old.opened, old.page)
  BY <1>1, <1>2, <1>3 DEF SavedOver, Untouched, allRules
<1>6. WriteFits(w, config, version)
  BY <1>1, <1>5 DEF WriteFits
<1>7. old.at \in Nat /\ old.typed \in SUBSET Fields /\ old.opened \in BOOLEAN
  BY <1>1 DEF Tab
<1>8. QED
  BY <1>1, <1>4, <1>6, <1>7, PutKeeps DEF saveConfig, Stored

\* Reading the configuration back finds it as it is.
LEMMA AddKeeps ==
  ASSUME SettingsInv, NEW t \in Tabs, addConvention(t)
  PROVE  SettingsInv'
<1> DEFINE old == tab[t]
<1>1. old \in Tab /\ old.action = "idle" /\ TabFits(old, write[t], config, version)
  BY DEF addConvention, Idle, SettingsInv
<1>2. PICK line \in Offered, next \in {"adopt"} \cup (IF config = NoConfig THEN {} ELSE {"read"}) :
        tab' = [tab EXCEPT ![t].action = next, ![t].line = line, ![t].said = "error",
                           ![t].read = IF next = "read" THEN config ELSE NoConfig,
                           ![t].readAt = IF next = "read" THEN version ELSE 0]
  BY Zenon DEF addConvention
<1> DEFINE read == IF next = "read" THEN config ELSE NoConfig
<1> DEFINE readAt == IF next = "read" THEN version ELSE 0
<1>3. /\ next \in {"adopt", "read"} /\ read \in Stored /\ readAt \in Nat
      /\ next = "read" => read \in Configs /\ read = config /\ readAt = version
  BY <1>2 DEF SettingsInv, Stored
<1> DEFINE x == [old EXCEPT !.action = next, !.line = line, !.said = "error",
                            !.read = read, !.readAt = readAt]
<1>4. tab' = [tab EXCEPT ![t] = x]
  BY <1>2
<1> HIDE DEF read, readAt
<1>5. /\ x \in Tab /\ x.action = next /\ x.line = line /\ x.said = "error"
      /\ x.read = read /\ x.readAt = readAt
      /\ x.form = old.form /\ x.typed = old.typed /\ x.page = old.page /\ x.at = old.at
      /\ x.own = old.own /\ x.late = old.late /\ x.first = old.first /\ x.opened = old.opened
  BY <1>1, <1>3 DEF Tab
<1> HIDE DEF x
<1>6. PageFits(x, config, version) /\ OwnFits(x, write[t], version)
  BY <1>1, <1>5 DEF TabFits, PageFits, OwnFits
<1>7. ReadFits(x, config, version)
  BY <1>3, <1>5 DEF ReadFits, SettingsInv
<1>8. QED
  BY <1>1, <1>4, <1>5, <1>6, <1>7, OnePage DEF TabFits, addConvention

\* A line that is there already is not written.
LEMMA ThereKeeps ==
  ASSUME SettingsInv, NEW t \in Tabs, alreadyThere(t)
  PROVE  SettingsInv'
<1> DEFINE old == tab[t]
<1> DEFINE x == [old EXCEPT !.action = "adopt", !.said = "there"]
<1>1. old \in Tab /\ old.action = "read" /\ TabFits(old, write[t], config, version)
  BY DEF alreadyThere, SettingsInv
<1>2. tab' = [tab EXCEPT ![t] = x]
  BY DEF alreadyThere
<1>3. /\ x \in Tab /\ x.action = "adopt" /\ x.said = "there"
      /\ x.form = old.form /\ x.typed = old.typed /\ x.page = old.page /\ x.at = old.at
      /\ x.own = old.own /\ x.late = old.late /\ x.first = old.first /\ x.opened = old.opened
  BY <1>1 DEF Tab
<1> HIDE DEF x
<1>4. TabFits(x, write[t], config, version)
  BY <1>1, <1>3 DEF TabFits, PageFits, ReadFits, OwnFits
<1>5. QED
  BY <1>2, <1>4, OnePage DEF alreadyThere

\* One that is not goes after the lines that were read.
LEMMA AppendKeeps ==
  ASSUME SettingsInv, NEW t \in Tabs, appendConvention(t)
  PROVE  SettingsInv'
<1> DEFINE old == tab[t]
<1> DEFINE value == appended(old.read, old.line)
<1>1. /\ old \in Tab /\ old.action = "read" /\ old.said = "error"
      /\ old.read \in Configs /\ old.line \in Offered
      /\ old.readAt <= version /\ (old.readAt = version => old.read = config)
  BY DEF appendConvention, SettingsInv, TabFits, ReadFits, OwnFits
<1>2. value \in Configs /\ AppendsTo(value, old.read)
  BY <1>1 DEF appended, Configs, AppendsTo
<1>3. WriteFits([kind |-> "adopt", read |-> old.readAt, typed |-> {}, opened |-> FALSE,
                 body |-> value], config, version)
  BY <1>1, <1>2 DEF WriteFits
<1>4. old.readAt \in Nat /\ {} \in SUBSET Fields
  BY <1>1 DEF Tab
<1>5. QED
  BY <1>1, <1>2, <1>3, <1>4, PutKeeps DEF appendConvention, Stored

\* An action that ended renders its page anew, or shows its error on the old one.
LEMMA RunKeeps ==
  ASSUME SettingsInv, NEW t \in Tabs, run(t)
  PROVE  SettingsInv'
<1> DEFINE old == tab[t]
<1>1. /\ old \in Tab /\ old.action \in {"save", "adopt"} /\ old.form \in Configs /\ old.page \in Configs
      /\ TabFits(old, write[t], config, version) /\ old.typed \in SUBSET Fields
      /\ old.first \in Rulesets /\ (old.opened => old.first = old.page.ruleset)
      /\ Untouched(old.form, old.typed, old.page, old.opened)
  BY DEF run, SettingsInv, TabFits, PageFits, Tab
<1>2. UNCHANGED <<config, version, write>>
  BY DEF run
<1>3. CASE old.action = "save" /\ old.said # "error"
  <2>1. Show(t, Reset(old.first, config), {}, old.first, FALSE)
    BY <1>3 DEF run
  <2>2. config # NoConfig =>
          /\ Reset(old.first, config) \in Configs
          /\ Untouched(Reset(old.first, config), {}, config, FALSE)
    BY <1>1, ResetFits DEF SettingsInv, Stored
  <2>3. QED
    BY <1>1, <1>2, <2>1, <2>2, ShowKeeps
<1>4. CASE old.action = "adopt" /\ old.said # "error"
  <2> DEFINE kept == old.typed \cap ({"ruleset", "lines"} \cup Listed(config))
  <2>1. PICK follow \in SUBSET Rules :
          Show(t, Rendered(old.page, old.form, old.typed, config, follow), kept, old.first, FALSE)
    BY <1>4 DEF run
  <2>2. kept \in SUBSET Fields /\ ("lines" \in old.typed <=> "lines" \in kept)
    BY <1>1
  <2> HIDE DEF kept
  <2>3. config # NoConfig =>
          /\ Rendered(old.page, old.form, old.typed, config, follow) \in Configs
          /\ Untouched(Rendered(old.page, old.form, old.typed, config, follow), kept, config, FALSE)
    BY <1>1, <2>2, RenderedFits DEF SettingsInv, Stored
  <2>4. QED
    BY <1>1, <1>2, <2>1, <2>2, <2>3, ShowKeeps
<1>5. CASE old.said = "error"
  <2> DEFINE keep == IF old.action = "save" THEN {} ELSE old.typed
             shown == IF old.action = "save" THEN Reset(old.first, old.page) ELSE old.form
             x == [old EXCEPT !.action = "idle", !.typed = keep, !.form = shown,
                              !.said = "none", !.line = <<>>, !.read = NoConfig, !.readAt = 0]
  <2>1. tab' = [tab EXCEPT ![t] = x]
    BY <1>5 DEF run
  <2>2. /\ shown \in Configs /\ keep \in SUBSET Fields
        /\ Untouched(shown, keep, old.page, old.opened)
    BY <1>1, ResetFits
  <2> HIDE DEF shown, keep
  <2>3. /\ x \in Tab /\ x.action = "idle" /\ x.said = "none" /\ x.form = shown /\ x.typed = keep
        /\ x.page = old.page /\ x.at = old.at /\ x.own = old.own /\ x.late = old.late
        /\ x.first = old.first /\ x.opened = old.opened
    BY <1>1, <2>2 DEF Tab, Stored
  <2> HIDE DEF x
  <2>4. TabFits(x, write[t], config, version)
    BY <1>1, <1>5, <2>2, <2>3 DEF TabFits, PageFits, ReadFits, OwnFits
  <2>5. QED
    BY <1>2, <2>1, <2>4, OnePage
<1>6. QED
  BY <1>1, <1>3, <1>4, <1>5

\* A tab that goes to the sign-in screen has no page.
LEMMA LoginKeeps ==
  ASSUME SettingsInv, NEW t \in Tabs, redirectToLogin(t)
  PROVE  SettingsInv'
<1>1. TabFits(Closed, write[t], config, version)
  BY ClosedTyped DEF SettingsInv, TabFits, PageFits, ReadFits, OwnFits, Closed
<1>2. QED
  BY <1>1, OnePage DEF redirectToLogin
-----------------------------------------------------------------------------
(* Commits.                                                                *)

\* Without a project no write is open.
LEMMA DeleteKeeps ==
  ASSUME SettingsInv, NEW t \in Tabs, deleteProject(t)
  PROVE  SettingsInv'
<1>1. /\ config' = NoConfig /\ version' = version + 1 /\ version \in Nat
      /\ tab' = [tab EXCEPT ![t] = Closed] /\ write' = [u \in Tabs |-> NoWrite]
  BY DEF deleteProject, SettingsInv
<1>2. tab' \in [Tabs -> Tab] /\ write' \in [Tabs -> Write] /\ config' \in Stored /\ version' \in Nat
  BY <1>1, ClosedTyped DEF SettingsInv, Stored
<1>3. ASSUME NEW u \in Tabs, NEW x \in {tab[u], Closed} PROVE TabFits(x, NoWrite, NoConfig, version + 1)
  <2>1. WriteFits(NoWrite, NoConfig, version + 1) /\ NoWrite.kind = "none"
    BY <1>1 DEF WriteFits, NoWrite
  <2>2. CASE x = Closed
    BY <1>1, <2>1, <2>2, ClosedTyped DEF TabFits, PageFits, ReadFits, OwnFits, Closed
  <2>3. CASE x = tab[u]
    <3>1. TabFits(tab[u], write[u], NoConfig, version + 1)
      BY <1>1, StillFits DEF SettingsInv
    <3>2. QED
      BY <2>1, <2>3, <3>1, ClosedTyped DEF TabFits, OwnFits
  <2>4. QED
    BY <1>3, <2>2, <2>3
<1>4. ASSUME NEW u \in Tabs PROVE tab'[u] \in {tab[u], Closed} /\ write'[u] = NoWrite
  BY <1>1 DEF SettingsInv
<1>5. QED
  BY <1>1, <1>2, <1>3, <1>4 DEF SettingsInv

\* A project that is made again is nobody's page yet.
LEMMA CreateKeeps == SettingsInv /\ createProject => SettingsInv'
<1> SUFFICES ASSUME SettingsInv, createProject PROVE SettingsInv'
  OBVIOUS
<1>1. config' \in Stored /\ version' = version + 1 /\ version' \in Nat /\ UNCHANGED <<write, tab>>
  BY DefaultStored DEF createProject, SettingsInv, Stored
<1>2. ASSUME NEW u \in Tabs PROVE TabFits(tab[u], write[u], config', version')
  BY <1>1, StillFits DEF SettingsInv
<1>3. QED
  BY <1>1, <1>2 DEF SettingsInv

\* A commit makes its tab's own write the newest, and the page knows it may be.
LEMMA CommitKeeps ==
  ASSUME SettingsInv, NEW t \in Tabs, Commit(t)
  PROVE  SettingsInv'
<1> DEFINE old == tab[t]
<1> DEFINE own == IF old.action = "closed" THEN 0 ELSE version + 1
<1> DEFINE x == [old EXCEPT !.own = own]
<1>1. old \in Tab /\ write[t] \in Write /\ TabFits(old, write[t], config, version) /\ version \in Nat
  BY DEF SettingsInv
<1>2. write[t].kind # "none"
  BY <1>1 DEF Commit, TabFits, WriteFits
<1>3. tab' = [tab EXCEPT ![t] = x] /\ config' = write[t].body /\ version' = version + 1
  BY DEF Commit
<1>4. own \in Nat /\ own <= version + 1
  BY <1>1
<1> HIDE DEF own
<1>5. /\ x \in Tab /\ x.own = own /\ x.action = old.action /\ x.said = old.said /\ x.late = old.late
      /\ x.form = old.form /\ x.typed = old.typed /\ x.page = old.page /\ x.at = old.at
      /\ x.first = old.first /\ x.opened = old.opened
      /\ x.read = old.read /\ x.readAt = old.readAt /\ x.line = old.line
  BY <1>1, <1>4 DEF Tab
<1> HIDE DEF x
<1>6. TabFits(old, write[t], config', version')
  BY <1>1, <1>3, StillFits
<1>7. OwnFits(x, NoWrite, version')
  <2>1. NoWrite.kind = "none"
    BY DEF NoWrite
  <2>2. old.action # "closed" => old.late \/ old.said = "done"
    BY <1>1, <1>2 DEF TabFits, OwnFits
  <2>3. QED
    BY <1>1, <1>3, <1>4, <1>5, <2>1, <2>2 DEF OwnFits, TabFits
<1>8. WriteFits(NoWrite, config', version')
  BY <1>1, <1>3 DEF WriteFits, NoWrite
<1>9. TabFits(x, NoWrite, config', version')
  BY <1>5, <1>6, <1>7, <1>8, ClosedTyped DEF TabFits, PageFits, ReadFits
<1>10. config' \in Stored
  BY <1>1, <1>3 DEF Write
<1>11. QED
  BY <1>3, <1>9, <1>10, OneTab DEF Commit

\* A transaction that fails leaves the page with a write that never was.
LEMMA CommitFailsKeeps ==
  ASSUME SettingsInv, NEW t \in Tabs, CommitFails(t)
  PROVE  SettingsInv'
<1>1. tab' = [tab EXCEPT ![t] = tab[t]]
  BY DEF CommitFails, SettingsInv
<1>2. TabFits(tab[t], write[t], config, version) /\ version \in Nat
  BY DEF SettingsInv
<1>3. WriteFits(NoWrite, config, version) /\ NoWrite.kind = "none"
  BY <1>2 DEF WriteFits, NoWrite
<1>4. TabFits(tab[t], NoWrite, config, version)
  BY <1>2, <1>3, ClosedTyped DEF TabFits, OwnFits
<1>5. QED
  BY <1>1, <1>4, OneTab DEF CommitFails, SettingsInv
-----------------------------------------------------------------------------
(* The theorems.                                                           *)

\* Every step keeps the invariant.
LEMMA SettingsStep == SettingsInv /\ [Next]_vars => SettingsInv'
<1> SUFFICES ASSUME SettingsInv, [Next]_vars PROVE SettingsInv'
  OBVIOUS
<1>1. CASE UNCHANGED vars
  BY <1>1 DEF vars, SettingsInv
<1>2. CASE createProject
  BY <1>2, CreateKeeps
<1>3. ASSUME NEW t \in Tabs,
             \/ SettingsPage(t) \/ Type(t) \/ saveConfig(t) \/ addConvention(t) \/ alreadyThere(t)
             \/ appendConvention(t) \/ run(t) \/ redirectToLogin(t) \/ deleteProject(t)
             \/ Commit(t) \/ CommitFails(t)
      PROVE  SettingsInv'
  BY <1>3, SettingsPageKeeps, TypeKeeps, SaveKeeps, AddKeeps, ThereKeeps, AppendKeeps, RunKeeps,
     LoginKeeps, DeleteKeeps, CommitKeeps, CommitFailsKeeps
<1>4. QED
  BY <1>1, <1>2, <1>3 DEF Next

\* At first no page is open.
LEMMA SettingsBegin == Init => SettingsInv
<1> SUFFICES ASSUME Init PROVE SettingsInv
  OBVIOUS
<1>1. config \in Stored /\ version \in Nat /\ tab \in [Tabs -> Tab] /\ write \in [Tabs -> Write]
  BY DefaultStored, ClosedTyped DEF Init, Stored
<1>2. ASSUME NEW t \in Tabs PROVE TabFits(tab[t], write[t], config, version)
  <2>1. tab[t] = Closed /\ write[t] = NoWrite /\ version = 0
    BY DEF Init
  <2>2. PageFits(Closed, config, 0) /\ ReadFits(Closed, config, 0) /\ OwnFits(Closed, NoWrite, 0)
    BY DEF PageFits, ReadFits, OwnFits, Closed
  <2>3. WriteFits(NoWrite, config, 0)
    BY DEF WriteFits, NoWrite
  <2>4. QED
    BY <2>1, <2>2, <2>3, ClosedTyped DEF TabFits
<1>3. QED
  BY <1>1, <1>2 DEF SettingsInv

\* Every page and every open write fit the configuration, whatever the tabs do.
THEOREM SettingsInvariance == Spec => []SettingsInv
BY SettingsBegin, SettingsStep, PTL DEF Spec

\* "There is no client cache that can disagree with the database": a tab whose
\* action has ended shows its own write, unless the page overtook the commit.
THEOREM OwnWritesShow == Spec => []OwnWriteShown
<1>1. SettingsInv => OwnWriteShown
  BY DEF SettingsInv, OwnWriteShown, TabFits, OwnFits, Idle
<1>2. QED
  BY <1>1, SettingsInvariance, PTL

\* A Save nobody came before writes the whole configuration and puts no old text
\* back, whatever was rendered under its form; on a page as it was mounted it
\* changes the fields the lead touched.
THEOREM SavesKeepTheRest == Spec => SaveKeepsTheRest
<1> DEFINE Fits ==
      \A t \in Tabs : SaveLands(t) =>
        LET typed == write[t].typed IN
          /\ "lines" \notin typed => config'.lines = config.lines
          /\ config'.rest = config.rest
          /\ write[t].opened =>
               /\ "ruleset" \notin typed => config'.ruleset = config.ruleset
               /\ \A r \in Listed(config) \ typed : r \in config'.disabled <=> r \in config.disabled
<1>1. SettingsInv => Fits
  BY DEF SettingsInv, TabFits, WriteFits, SavedOver, Commit, SaveLands
<1>2. QED
  BY <1>1, SettingsInvariance, PTL DEF SaveKeepsTheRest

\* Adopting a convention with nobody in between adds its line and nothing else.
THEOREM AdoptionsAppend == Spec => AdoptOnlyAppends
<1> DEFINE Fits ==
      \A t \in Tabs : Commit(t) /\ write[t].kind = "adopt" /\ write[t].read = version =>
        /\ config.lines \subseteq config'.lines
        /\ [config' EXCEPT !.lines = config.lines] = config
<1>1. SettingsInv => Fits
  BY DEF SettingsInv, TabFits, WriteFits, AppendsTo, Commit
<1>2. QED
  BY <1>1, SettingsInvariance, PTL DEF AdoptOnlyAppends
-----------------------------------------------------------------------------
(***************************************************************************)
(* The walk through the screens: what its waits, its audits and its exit   *)
(* code mean.                                                              *)
(***************************************************************************)

End == Len(Calls) + 1
Op(i) == Calls[i].op

Shows == {j \in DOMAIN Calls : Op(j) \in {"navigate", "click"}}
Sizes == {j \in DOMAIN Calls : Op(j) = "override"}

\* All the texts a page of the run can hold.
AllTexts ==
  {Notice(Calls[j]) : j \in Shows}
    \cup (UNION {ShownOn(Calls[j].screen, known) : j \in Shows, known \in SUBSET Known(Calls, End)})

Pages ==
  [doc : Nat, visit : Nat, screen : {Calls[j].screen : j \in Shows} \cup {"none"},
   texts : SUBSET AllTexts, notice : {Notice(Calls[j]) : j \in Shows} \cup {"none"},
   hydrated : BOOLEAN, complained : BOOLEAN, width : {Calls[j].width : j \in Sizes} \cup {0}]

Events == [kind : {"event"}, doc : Nat]
Replies ==
  [kind : {"reply"}, ok : BOOLEAN, texts : SUBSET AllTexts, doc : Nat, visit : Nat, complained : BOOLEAN]

Effects == [how : {"none", "in place", "load", "lost"}, call : 1..Len(Calls)]

BrowserTypes ==
  /\ at \in 1..End /\ pending \in BOOLEAN /\ failed \in BOOLEAN /\ threw \in BOOLEAN
  /\ phase \in {"launch", "run", "close", "exited"} /\ code \in {0, 1}
  /\ recorded \in SUBSET Nat /\ wire \in Seq(Events \cup Replies) /\ page \in Pages
  /\ effect \in Effects /\ (effect.how = "none" => effect = NoEffect)

Running == phase \in {"launch", "run"}
EventAt(i) == i \in DOMAIN wire /\ wire[i].kind = "event"
ReplyAt(i) == i \in DOMAIN wire /\ wire[i].kind = "reply"
Replied == \E i \in DOMAIN wire : ReplyAt(i)
Granted == \E i \in DOMAIN wire : ReplyAt(i) /\ wire[i].ok
Underway == effect.how # "none"
AfterClick == \E j \in DOMAIN Calls : j + 1 = at /\ Op(j) = "click"
Leaving == Op(at) = "navigate" /\ ~Granted

\* The driver is at a call; what it waits for is one reply at most.
DriverFits ==
  /\ Running => at < End /\ ~threw
  /\ Running /\ pending => Op(at) \notin Local
  /\ Replied => phase = "run" /\ pending
  /\ \A i, j \in DOMAIN wire : ReplyAt(i) /\ ReplyAt(j) => i = j

\* An action is on its way only from its click to the end of the wait after it.
EffectFits ==
  Running /\ Underway =>
    /\ Op(effect.call) = "click"
    /\ (at = effect.call /\ Granted) \/ at = effect.call + 1

\* How far the page is along the script: a call that changes it is done when its
\* answer is sent, and a click when its action shows.
Reached ==
  IF Underway THEN effect.call
  ELSE IF Granted /\ Op(at) \in {"navigate", "click", "override", "clear"} THEN at + 1 ELSE at

\* The page p is that of the last call before i that changed it, and what is
\* known is what the calls before i made known.
PageAt(i, p, known) ==
  /\ known \subseteq Known(Calls, i)
  /\ LastOf(Calls, i, {"navigate", "click"}) = {} => p.doc = 0
  /\ \A j \in LastOf(Calls, i, {"navigate", "click"}) :
       /\ p.screen = Calls[j].screen /\ p.notice = Notice(Calls[j])
       /\ p.texts # {} =>
            \E before \in SUBSET Known(Calls, i) : p.texts = ShownOn(Calls[j].screen, before)
  /\ LastOf(Calls, i, {"override", "clear"}) = {} => p.width = 0
  /\ \A j \in LastOf(Calls, i, {"override", "clear"}) :
       p.width = IF Op(j) = "clear" THEN 0 ELSE Calls[j].width

ScreenFits ==
  /\ page.visit <= page.doc
  /\ page.doc = 0 => page.texts = {} /\ ~page.hydrated /\ effect.how # "in place"
  /\ Running => PageAt(Reached, page, facts)

\* Nothing of an earlier document comes in once the page has settled.
WireFits ==
  Running =>
    /\ ~Replied /\ ~AfterClick => \A i \in DOMAIN wire : wire[i].doc = page.doc
    /\ \A r \in DOMAIN wire :
         ReplyAt(r) /\ Op(at) # "click" /\ (AfterClick => wire[r].ok /\ Calls[at].text \in wire[r].texts) =>
           ~Underway /\ \A i \in DOMAIN wire : i > r => wire[i].doc = page.doc

\* What was complained of is recorded or on its way, and none of it is older than
\* the page before this visit.
RecordFits ==
  Running =>
    /\ page.complained /\ ~Leaving => page.doc \in recorded \/ \E i \in DOMAIN wire : EventAt(i) /\ wire[i].doc = page.doc
    /\ \A r \in DOMAIN wire :
         ReplyAt(r) /\ Op(at) # "navigate" /\ wire[r].complained =>
           wire[r].doc \in recorded \/ \E i \in DOMAIN wire : i < r /\ wire[i].doc = wire[r].doc
    /\ \A doc \in recorded \cup {wire[i].doc : i \in {l \in DOMAIN wire : EventAt(l)}} :
         IF Leaving THEN doc = page.doc ELSE doc >= page.visit - 1
    /\ \A r \in DOMAIN wire : ReplyAt(r) => wire[r].visit <= page.visit

\* What the clicks so far were for is done, but for the action on its way.
DoneUpTo(i, known) ==
  \A j \in DOMAIN Calls : j < i /\ Op(j) = "click" => Calls[j].fact \in known \cup {"none"}

ExitFits ==
  /\ Running /\ ~Underway => DoneUpTo(Reached, facts)
  /\ Running /\ Underway => DoneUpTo(effect.call, facts)
  /\ phase = "close" /\ ~threw => at = End /\ ~pending /\ DoneUpTo(End, facts)
  /\ phase = "exited" /\ code = 0 /\ ~pending => at = End /\ ~failed /\ DoneUpTo(End, facts)

BrowserInv == BrowserTypes /\ DriverFits /\ EffectFits /\ ScreenFits /\ WireFits /\ RecordFits /\ ExitFits
-----------------------------------------------------------------------------
(* The script, one call further. *)

\* The calls are numbered from 1.
LEMMA CallsInOrder == Len(Calls) \in Nat \ {0} /\ DOMAIN Calls = 1..Len(Calls) /\ End \in Nat
BY BrowserAssumption DEF End

\* What may be known only grows along the script.
LEMMA KnownGrows == \A i, j \in Nat : i <= j => Known(Calls, i) \subseteq Known(Calls, j)
BY CallsInOrder DEF Known, Before

\* A click and a run of the plugin may make their fact known, no other call does.
LEMMA KnownNext ==
  ASSUME NEW i \in DOMAIN Calls
  PROVE  /\ Op(i) \notin {"click", "cli"} => Known(Calls, i + 1) = Known(Calls, i)
         /\ Op(i) \in {"click", "cli"} =>
              Known(Calls, i + 1) = Known(Calls, i) \cup ({Calls[i].fact} \ {"none"})
<1>1. \A j \in DOMAIN Calls : j < i + 1 <=> j < i \/ j = i
  BY CallsInOrder
<1>2. Before(Calls, i + 1) = Before(Calls, i) \cup {i}
  BY <1>1 DEF Before
<1>3. QED
  BY <1>2 DEF Known, Op

\* The call just made is the last of its kind; it changes no other last.
LEMMA LastOfNext ==
  ASSUME NEW i \in DOMAIN Calls, NEW ops
  PROVE  /\ Op(i) \in ops => LastOf(Calls, i + 1, ops) = {i}
         /\ Op(i) \notin ops => LastOf(Calls, i + 1, ops) = LastOf(Calls, i, ops)
<1>1. Before(Calls, i + 1) = Before(Calls, i) \cup {i}
  <2>1. \A j \in DOMAIN Calls : j < i + 1 <=> j < i \/ j = i
    BY CallsInOrder
  <2>2. QED
    BY <2>1 DEF Before
<1>2. \A j \in Before(Calls, i) : j \in DOMAIN Calls /\ j < i /\ ~(i < j)
  BY CallsInOrder DEF Before
<1>3. ~(i < i)
  BY CallsInOrder
<1>4. CASE Op(i) \in ops
  BY <1>1, <1>2, <1>3, <1>4 DEF LastOf, Op
<1>5. CASE Op(i) \notin ops
  <2>1. \A j \in Before(Calls, i) :
          (\A l \in Before(Calls, i + 1) : j < l => Calls[l].op \notin ops)
            <=> (\A l \in Before(Calls, i) : j < l => Calls[l].op \notin ops)
    BY <1>1, <1>5 DEF Op
  <2>2. QED
    BY <1>1, <1>5, <2>1 DEF LastOf, Op
<1>6. QED
  BY <1>4, <1>5

\* The clicks before the next call are those before this one, and this one.
LEMMA DoneNext ==
  ASSUME NEW i \in DOMAIN Calls, NEW known, NEW later, DoneUpTo(i, known), known \subseteq later,
         Op(i) = "click" => Calls[i].fact \in later \cup {"none"}
  PROVE  DoneUpTo(i + 1, later)
<1>1. \A j \in DOMAIN Calls : j < i + 1 <=> j < i \/ j = i
  BY CallsInOrder
<1>2. QED
  BY <1>1 DEF DoneUpTo

\* A call that neither shows nor sizes a page leaves it the page it was, whatever
\* it makes known.
LEMMA PageStays ==
  ASSUME NEW i \in DOMAIN Calls, NEW p, NEW known, NEW later, PageAt(i, p, known),
         Op(i) \notin {"navigate", "click", "override", "clear"},
         later = known \/ (Op(i) = "cli" /\ later = known \cup ({Calls[i].fact} \ {"none"}))
  PROVE  PageAt(i + 1, p, later)
<1>1. /\ LastOf(Calls, i + 1, {"navigate", "click"}) = LastOf(Calls, i, {"navigate", "click"})
      /\ LastOf(Calls, i + 1, {"override", "clear"}) = LastOf(Calls, i, {"override", "clear"})
  BY LastOfNext
<1>2. Known(Calls, i) \subseteq Known(Calls, i + 1) /\ later \subseteq Known(Calls, i + 1)
  BY KnownNext DEF PageAt
<1>3. QED
  BY <1>1, <1>2 DEF PageAt

\* What a page shows is among what it may show.
LEMMA ShownMayShow ==
  ASSUME NEW i \in DOMAIN Calls, BrowserTypes, ScreenFits, PageAt(i, page, facts), NEW text \in Shown
  PROVE  MayShow(Calls, i, text)
<1>1. page.texts # {} /\ page.doc # 0
  BY DEF Shown, ScreenFits
<1>2. PICK j \in LastOf(Calls, i, {"navigate", "click"}) : TRUE
  BY <1>1 DEF PageAt
<1>3. page.notice = Notice(Calls[j])
  BY <1>2 DEF PageAt
<1>4. \E before \in SUBSET Known(Calls, i) : page.texts = ShownOn(Calls[j].screen, before)
  BY <1>1, <1>2 DEF PageAt
<1>5. text \in page.texts \/ text = page.notice
  BY <1>1 DEF Shown
<1>6. QED
  BY <1>2, <1>3, <1>4, <1>5 DEF MayShow
-----------------------------------------------------------------------------
(* The wire, one message more or less. *)

\* A message is appended behind those that are on the wire.
LEMMA WireAppended ==
  ASSUME wire \in Seq(Events \cup Replies), NEW m \in Events \cup Replies, wire' = Append(wire, m)
  PROVE  /\ wire' \in Seq(Events \cup Replies) /\ Len(wire) \in Nat
         /\ DOMAIN wire = 1..Len(wire) /\ DOMAIN wire' = 1..(Len(wire) + 1)
         /\ \A i \in DOMAIN wire : wire'[i] = wire[i] /\ i < Len(wire) + 1
         /\ wire'[Len(wire) + 1] = m
         /\ \A i \in DOMAIN wire' : i \in DOMAIN wire \/ i = Len(wire) + 1
<1>1. /\ wire' \in Seq(Events \cup Replies) /\ Len(wire') = Len(wire) + 1 /\ Len(wire) \in Nat
      /\ DOMAIN wire = 1..Len(wire) /\ DOMAIN wire' = 1..Len(wire')
      /\ \A i \in 1..Len(wire) : wire'[i] = wire[i]
      /\ wire'[Len(wire) + 1] = m
  BY AppendProperties, LenProperties
<1>2. QED
  BY <1>1

\* The first message is taken off the wire, and the others move up.
LEMMA WireTaken ==
  ASSUME wire \in Seq(Events \cup Replies), wire # <<>>, wire' = Tail(wire)
  PROVE  /\ wire' \in Seq(Events \cup Replies) /\ 1 \in DOMAIN wire /\ Head(wire) = wire[1]
         /\ \A i \in DOMAIN wire' : i \in Nat /\ i + 1 \in DOMAIN wire /\ wire'[i] = wire[i + 1] /\ i + 1 > 1
         /\ \A i \in DOMAIN wire : i = 1 \/ (i - 1 \in DOMAIN wire' /\ wire'[i - 1] = wire[i])
         /\ DOMAIN wire \subseteq Nat
<1>1. /\ wire' \in Seq(Events \cup Replies) /\ Len(wire') = Len(wire) - 1
      /\ \A i \in 1..Len(wire') : wire'[i] = wire[i + 1]
  BY HeadTailProperties
<1>2. Len(wire) \in Nat /\ Len(wire) # 0 /\ DOMAIN wire = 1..Len(wire) /\ DOMAIN wire' = 1..Len(wire')
  BY <1>1, EmptySeq, LenProperties
<1>3. Head(wire) = wire[1]
  BY <1>2
<1>4. QED
  BY <1>1, <1>2, <1>3

\* A message is an event or a reply, never both.
LEMMA Messages ==
  ASSUME wire \in Seq(Events \cup Replies), NEW i \in DOMAIN wire
  PROVE  /\ wire[i] \in Events \cup Replies /\ wire[i].doc \in Nat
         /\ EventAt(i) <=> wire[i] \in Events
         /\ ReplyAt(i) <=> wire[i] \in Replies
         /\ EventAt(i) <=> ~ReplyAt(i)
<1>1. wire[i] \in Events \cup Replies
  BY ElementOfSeq, LenProperties
<1>2. QED
  BY <1>1 DEF Events, Replies, EventAt, ReplyAt
-----------------------------------------------------------------------------
(* What the discipline and the invariant say of the call at hand. *)

Live == Disciplined(Calls) /\ BrowserInv /\ phase = "run"

\* A live run is at a call of its script, and the next is a call or the end.
LEMMA AtCall ==
  ASSUME Live
  PROVE  /\ at \in DOMAIN Calls /\ at \in Nat /\ at + 1 \in 1..End /\ Running
         /\ at + 1 \in DOMAIN Calls <=> ~LastCall
         /\ LastCall => at + 1 = End
<1>1. at \in 1..End /\ at < End
  BY DEF Live, BrowserInv, BrowserTypes, DriverFits, Running
<1>2. at \in 1..Len(Calls) /\ at \in Nat /\ at + 1 \in 1..End
  BY <1>1, CallsInOrder DEF End
<1>3. at + 1 \in DOMAIN Calls <=> at # Len(Calls)
  <2>1. \A n \in Nat : \A i \in 1..n : i + 1 \in 1..n <=> i # n
    OBVIOUS
  <2>2. QED
    BY <1>2, <2>1, CallsInOrder
<1>4. at = Len(Calls) => at + 1 = End
  BY DEF End
<1>5. QED
  BY <1>2, <1>3, <1>4, CallsInOrder DEF LastCall, Live, Running

\* After a click comes its wait.
LEMMA AfterClickWaits ==
  ASSUME Live
  PROVE  /\ AfterClick => Op(at) = "wait"
         /\ Underway => Op(at) \in {"click", "wait"} /\ (Op(at) = "click" => at = effect.call)
         /\ Underway /\ at # effect.call => AfterClick /\ at = effect.call + 1
         /\ Underway => effect.call \in DOMAIN Calls /\ Op(effect.call) = "click"
<1>1. AfterClick => Op(at) = "wait"
  BY DEF Live, Disciplined, ClicksAreAwaited, AfterClick, Op
<1>2. Underway => effect.call \in DOMAIN Calls /\ Op(effect.call) = "click"
  BY AtCall, CallsInOrder DEF Live, BrowserInv, BrowserTypes, Effects, EffectFits
<1>3. Underway => at = effect.call \/ at = effect.call + 1
  BY AtCall DEF Live, BrowserInv, EffectFits
<1>4. Underway /\ at = effect.call + 1 => AfterClick
  BY <1>2 DEF AfterClick
<1>5. effect.call \in Nat
  <2>1. effect.call \in 1..Len(Calls)
    BY DEF Live, BrowserInv, BrowserTypes, Effects
  <2>2. QED
    BY <2>1, CallsInOrder
<1>6. QED
  BY <1>1, <1>2, <1>3, <1>4, <1>5

\* Only at a click, and at the wait behind it, may an action be on its way.
LEMMA NothingOnItsWay ==
  ASSUME Live, Op(at) \notin {"click", "wait"}
  PROVE  ~Underway /\ ~AfterClick
BY AfterClickWaits

\* Before its action shows, the text a click is waited for with is not there.
LEMMA TextIsNew ==
  ASSUME Live, Underway, Op(at) = "wait"
  PROVE  Calls[at].text \notin Shown
<1>1. effect.call \in DOMAIN Calls /\ Op(effect.call) = "click" /\ at = effect.call + 1
  BY AfterClickWaits
<1>2. ~MayShow(Calls, effect.call, Calls[at].text)
  BY <1>1 DEF Live, Disciplined, ClicksAreAwaited, Op
<1>3. PageAt(effect.call, page, facts)
  BY AtCall DEF Live, BrowserInv, ScreenFits, Reached
<1>4. QED
  BY <1>1, <1>2, <1>3, ShownMayShow DEF Live, BrowserInv

\* Where a run that has ended, or is about to, has to be.
LEMMA EndKeeps ==
  ASSUME BrowserTypes', ~Running', ~Replied', ScreenFits', ExitFits'
  PROVE  BrowserInv'
<1>1. DriverFits' /\ EffectFits' /\ WireFits' /\ RecordFits'
  BY DEF DriverFits, EffectFits, WireFits, RecordFits, Replied
<1>2. QED
  BY <1>1 DEF BrowserInv

\* The next call is at hand, or the script is over.
LEMMA AdvanceKeeps ==
  ASSUME Live, BrowserTypes', ~Replied',
         at' = at + 1, pending' = FALSE, phase' = (IF LastCall THEN "close" ELSE phase),
         threw' = threw, page' = page, effect' = effect,
         Underway => Op(at) = "click",
         Op(at) \in {"navigate", "click", "override", "clear"} => Granted,
         facts' = facts \/ (Op(at) = "cli" /\ facts' = facts \cup ({Calls[at].fact} \ {"none"})),
         Op(at) # "click" => \A i \in DOMAIN wire' : wire'[i].doc = page.doc,
         RecordFits'
  PROVE  BrowserInv'
<1>1. /\ at \in DOMAIN Calls /\ at \in Nat /\ Running
      /\ at + 1 \in DOMAIN Calls <=> ~LastCall
      /\ LastCall => at + 1 = End
  BY AtCall
<1>2. ~Granted' /\ Underway' = Underway
  BY DEF Replied, Granted, Underway
<1>3. Underway => at = effect.call /\ Op(at) = "click" /\ ~LastCall
  <2>1. Op(at) = "click" => at + 1 \in DOMAIN Calls
    BY <1>1 DEF Live, Disciplined, ClicksAreAwaited, Op
  <2>2. QED
    BY <1>1, <2>1, AfterClickWaits
<1>4. ~Underway => PageAt(at + 1, page, facts')
  <2>1. CASE ~Underway /\ Op(at) \in {"navigate", "click", "override", "clear"}
    <3>1. Reached = at + 1 /\ facts' = facts
      BY <2>1 DEF Reached
    <3>2. QED
      BY <1>1, <2>1, <3>1 DEF Live, BrowserInv, ScreenFits
  <2>2. CASE ~Underway /\ Op(at) \notin {"navigate", "click", "override", "clear"}
    <3>1. Reached = at
      BY <2>2 DEF Reached
    <3>2. PageAt(at, page, facts)
      BY <1>1, <3>1 DEF Live, BrowserInv, ScreenFits
    <3>3. QED
      BY <1>1, <2>2, <3>2, PageStays
  <2>3. QED
    BY <2>1, <2>2
<1>5. ~Underway => DoneUpTo(at + 1, facts')
  <2>1. CASE ~Underway /\ Op(at) \in {"navigate", "click", "override", "clear"}
    <3>1. Reached = at + 1 /\ facts' = facts
      BY <2>1 DEF Reached
    <3>2. QED
      BY <1>1, <2>1, <3>1 DEF Live, BrowserInv, ExitFits
  <2>2. CASE ~Underway /\ Op(at) \notin {"navigate", "click", "override", "clear"}
    <3>1. Reached = at
      BY <2>2 DEF Reached
    <3>2. DoneUpTo(at, facts)
      BY <1>1, <2>2, <3>1 DEF Live, BrowserInv, ExitFits
    <3>3. facts \subseteq facts'
      OBVIOUS
    <3>4. QED
      BY <1>1, <2>2, <3>2, <3>3, DoneNext
  <2>3. QED
    BY <2>1, <2>2
<1>6. CASE LastCall
  <2>1. ~Running' /\ phase' = "close" /\ at' = End /\ ~Underway
    BY <1>1, <1>3, <1>6 DEF Running
  <2>2. ScreenFits'
    BY <2>1 DEF ScreenFits, Live, BrowserInv
  <2>3. ExitFits'
    BY <1>1, <1>5, <1>6, <2>1 DEF ExitFits
  <2>4. QED
    BY <2>1, <2>2, <2>3, EndKeeps
<1>7. CASE ~LastCall
  <2>1. phase' = "run" /\ Running' /\ at' \in DOMAIN Calls /\ ~threw
    BY <1>1, <1>7 DEF Live, BrowserInv, DriverFits, Running
  <2>2. Reached' = IF Underway THEN effect.call ELSE at + 1
    BY <1>2 DEF Reached
  <2>3. DriverFits'
    <3>1. at' < End
      BY <2>1, CallsInOrder DEF End
    <3>2. QED
      BY <2>1, <3>1 DEF DriverFits, Replied
  <2>4. EffectFits'
    BY <1>2, <1>3 DEF EffectFits, Op
  <2>5. ScreenFits'
    <3>1. CASE Underway
      <4>1. Op(at) # "cli" /\ facts' = facts
        BY <1>3, <3>1
      <4>2. PageAt(effect.call, page, facts)
        BY <1>1, <3>1 DEF Live, BrowserInv, ScreenFits, Reached
      <4>3. QED
        BY <2>2, <3>1, <4>1, <4>2 DEF ScreenFits, Live, BrowserInv
    <3>2. CASE ~Underway
      BY <1>4, <2>2, <3>2 DEF ScreenFits, Live, BrowserInv
    <3>3. QED
      BY <3>1, <3>2
  <2>6. WireFits'
    <3>1. Op(at) = "click" => AfterClick'
      BY <1>1, <2>1 DEF AfterClick, Op
    <3>2. QED
      BY <3>1 DEF WireFits, Replied
  <2>7. ExitFits'
    <3>1. CASE Underway
      <4>1. facts' = facts /\ DoneUpTo(effect.call, facts)
        BY <1>1, <1>3, <3>1 DEF Live, BrowserInv, ExitFits
      <4>2. QED
        BY <1>2, <2>1, <3>1, <4>1 DEF ExitFits, Running
    <3>2. CASE ~Underway
      BY <1>2, <1>5, <2>1, <2>2, <3>2 DEF ExitFits, Running
    <3>3. QED
      BY <3>1, <3>2
  <2>8. QED
    BY <2>3, <2>4, <2>5, <2>6, <2>7 DEF BrowserInv
<1>8. QED
  BY <1>6, <1>7
-----------------------------------------------------------------------------
(* The steps of the driver *)

\* Chrome starts, or the run is over before it began.
LEMMA LaunchKeeps == BrowserInv /\ launch => BrowserInv'
<1> SUFFICES ASSUME BrowserInv, launch PROVE BrowserInv'
  OBVIOUS
<1> USE DEF launch
<1>1. BrowserTypes'
  BY DEF BrowserInv, BrowserTypes
<1>2. ~Replied /\ ~Replied' /\ ~Granted /\ ~Granted'
  <2>1. ~Replied
    BY DEF BrowserInv, DriverFits
  <2>2. QED
    BY <2>1 DEF Replied, Granted, ReplyAt
<1>3. Reached' = Reached /\ Underway' = Underway
  BY DEF Reached, Granted, Underway, ReplyAt, Op
<1>4. ScreenFits'
  BY <1>3 DEF BrowserInv, ScreenFits, Running
<1>5. CASE phase' = "run"
  <2>1. DriverFits'
    BY <1>2, <1>5 DEF BrowserInv, DriverFits, Running, ReplyAt, Op
  <2>2. EffectFits'
    BY <1>3, <1>5 DEF BrowserInv, EffectFits, Running, Granted, ReplyAt, Op
  <2>3. WireFits'
    BY <1>2, <1>3, <1>5 DEF BrowserInv, WireFits, Running, Replied, ReplyAt, AfterClick, Op
  <2>4. RecordFits'
    BY <1>2, <1>5 DEF BrowserInv, RecordFits, Running, EventAt, ReplyAt, Leaving, Granted, Op
  <2>5. ExitFits'
    BY <1>3, <1>5 DEF BrowserInv, ExitFits, Running
  <2>6. QED
    BY <1>1, <1>4, <2>1, <2>2, <2>3, <2>4, <2>5 DEF BrowserInv
<1>6. CASE phase' # "run"
  <2>1. ~Running' /\ ExitFits'
    BY <1>6 DEF ExitFits, Running
  <2>2. QED
    BY <1>1, <1>2, <1>4, <2>1, EndKeeps
<1>7. QED
  BY <1>5, <1>6

\* Nothing that is not asked is answered: the wire holds events only.
LEMMA NotPending ==
  ASSUME Live, ~pending
  PROVE  /\ ~Replied /\ ~Granted /\ \A i \in DOMAIN wire : EventAt(i) /\ ~ReplyAt(i)
         /\ ~AfterClick => \A i \in DOMAIN wire : wire[i].doc = page.doc
<1>1. ~Replied
  BY DEF Live, BrowserInv, DriverFits
<1>2. \A i \in DOMAIN wire : EventAt(i) /\ ~ReplyAt(i)
  BY <1>1, Messages DEF Replied, Live, BrowserInv, BrowserTypes
<1>3. QED
  BY <1>1, <1>2, AtCall DEF Granted, Live, BrowserInv, WireFits

\* A reset and its navigation come together.
LEMMA NextCall ==
  ASSUME Live
  PROVE  /\ Op(at) = "reset" => Op(at + 1) = "navigate"
         /\ at + 1 \in DOMAIN Calls /\ Op(at + 1) = "navigate" => Op(at) = "reset"
<1>1. at \in DOMAIN Calls /\ at \in Nat /\ (at + 1) - 1 = at
  BY AtCall
<1>2. QED
  BY <1>1 DEF Live, Disciplined, VisitsBeginClean, Op

\* Forgetting the complaints before a page is asked for.
LEMMA ResetKeeps == ASSUME Live, reset PROVE BrowserInv'
<1> USE DEF reset, Advance, Passes
<1>1. Op(at) = "reset" /\ at \in DOMAIN Calls /\ at \in Nat /\ at' \in 1..End
  BY AtCall DEF Call, Op
<1>2. ~Underway /\ ~AfterClick
  BY <1>1, NothingOnItsWay
<1>3. ~pending
  BY <1>1, AtCall DEF Live, BrowserInv, DriverFits, Local
<1>4. ~Replied' /\ ~Granted' /\ \A i \in DOMAIN wire : ~ReplyAt(i)' /\ wire[i].doc = page.doc
  BY <1>2, <1>3, NotPending DEF Replied, Granted, ReplyAt
<1>5. BrowserTypes'
  BY <1>1 DEF Live, BrowserInv, BrowserTypes
<1>6. Leaving'
  BY <1>1, <1>4, NextCall DEF Leaving, Op
<1>7. RecordFits'
  BY <1>4, <1>6 DEF RecordFits
<1>8. QED
  BY <1>1, <1>2, <1>4, <1>5, <1>7, AdvanceKeeps

\* A run of the plugin, between two calls to the browser.
LEMMA CliKeeps == ASSUME Live, smithCli PROVE BrowserInv'
<1> USE DEF smithCli
<1>1. Op(at) = "cli" /\ at \in DOMAIN Calls /\ at \in Nat /\ at + 1 \in 1..End
  BY AtCall DEF Call, Op
<1>2. ~Underway /\ ~AfterClick
  BY <1>1, NothingOnItsWay
<1>3. ~pending
  BY <1>1, AtCall DEF Live, BrowserInv, DriverFits, Local
<1>4. /\ ~Replied /\ ~Granted /\ ~Replied' /\ ~Granted'
      /\ \A i \in DOMAIN wire : ~ReplyAt(i)' /\ wire[i].doc = page.doc
      /\ \A i : EventAt(i)' <=> EventAt(i)
  BY <1>2, <1>3, NotPending DEF Replied, Granted, ReplyAt, EventAt
<1>5. CASE Throw
  <2>1. BrowserTypes'
    BY <1>5 DEF Throw, Live, BrowserInv, BrowserTypes
  <2>2. ~Running' /\ ScreenFits' /\ ExitFits'
    BY <1>5 DEF Throw, Live, BrowserInv, Running, ScreenFits, ExitFits
  <2>3. QED
    BY <1>4, <2>1, <2>2, EndKeeps
<1>6. CASE Advance /\ Checks /\ facts' = facts \cup ({Call.fact} \ {"none"}) /\ UNCHANGED recorded
  <2> USE DEF Advance, Checks
  <2>1. BrowserTypes'
    BY <1>1, <1>6 DEF Live, BrowserInv, BrowserTypes
  <2>2. ~Leaving /\ (Running' => ~Leaving')
    <3>1. Running' => at + 1 \in DOMAIN Calls
      BY <1>6, AtCall DEF Running
    <3>2. QED
      BY <1>1, <1>6, <3>1, NextCall DEF Leaving, Op
  <2>3. RecordFits'
    BY <1>1, <1>4, <1>6, <2>2, AtCall DEF RecordFits, Live, BrowserInv, EventAt
  <2>4. Calls[at] = Call
    BY DEF Call
  <2>5. QED
    BY <1>1, <1>2, <1>4, <1>6, <2>1, <2>3, <2>4, AdvanceKeeps
<1>7. QED
  BY <1>5, <1>6

\* A call is sent, or dropped.
LEMMA SendKeeps == ASSUME Live, send PROVE BrowserInv'
<1> USE DEF send
<1>1. BrowserTypes'
  BY DEF Live, BrowserInv, BrowserTypes
<1>2. /\ Replied' <=> Replied
      /\ Granted' <=> Granted
      /\ AfterClick' <=> AfterClick
      /\ Leaving' <=> Leaving
      /\ Reached' = Reached /\ Underway' = Underway /\ Running' = Running
      /\ \A i : (ReplyAt(i)' <=> ReplyAt(i)) /\ (EventAt(i)' <=> EventAt(i))
  BY DEF Replied, Granted, AfterClick, Leaving, Reached, Underway, Running, ReplyAt, EventAt, Op
<1>3. ~Replied
  BY NotPending
<1>4. DriverFits'
  BY <1>2, <1>3, AtCall DEF Live, BrowserInv, DriverFits, Op, Call
<1>5. EffectFits' /\ ScreenFits'
  BY <1>2 DEF Live, BrowserInv, EffectFits, ScreenFits, Op
<1>6. WireFits'
  BY <1>2 DEF Live, BrowserInv, WireFits, Op
<1>7. RecordFits'
  BY <1>2 DEF Live, BrowserInv, RecordFits, Op
<1>8. ExitFits'
  BY <1>2 DEF Live, BrowserInv, ExitFits
<1>9. QED
  BY <1>1, <1>4, <1>5, <1>6, <1>7, <1>8 DEF BrowserInv

\* A complaint is recorded; the answer behind it stays where it was.
LEMMA EventKeeps ==
  ASSUME Live, onMessage, Head(wire).kind = "event"
  PROVE  BrowserInv'
<1> USE DEF onMessage, observe
<1>1. wire \in Seq(Events \cup Replies) /\ wire # <<>> /\ wire' = Tail(wire)
  BY DEF Live, BrowserInv, BrowserTypes
<1>2. /\ wire' \in Seq(Events \cup Replies) /\ 1 \in DOMAIN wire /\ Head(wire) = wire[1]
      /\ \A i \in DOMAIN wire' : i \in Nat /\ i + 1 \in DOMAIN wire /\ wire'[i] = wire[i + 1] /\ i + 1 > 1
      /\ \A i \in DOMAIN wire : i = 1 \/ (i - 1 \in DOMAIN wire' /\ wire'[i - 1] = wire[i])
      /\ DOMAIN wire \subseteq Nat
  BY <1>1, WireTaken
<1>3. EventAt(1) /\ ~ReplyAt(1) /\ wire[1].doc \in Nat /\ recorded' = recorded \cup {wire[1].doc}
  BY <1>1, <1>2, Messages DEF EventAt, ReplyAt
<1>4. /\ \A i \in DOMAIN wire' : (ReplyAt(i)' <=> ReplyAt(i + 1)) /\ (EventAt(i)' <=> EventAt(i + 1))
      /\ \A i \in DOMAIN wire : ReplyAt(i) => i # 1 /\ ReplyAt(i - 1)'
      /\ \A i \in DOMAIN wire : EventAt(i) => i = 1 \/ EventAt(i - 1)'
  BY <1>2, <1>3 DEF EventAt, ReplyAt
<1>5. (Replied' <=> Replied) /\ (Granted' <=> Granted)
  <2>1. Replied => Replied'
    BY <1>2, <1>4 DEF Replied
  <2>2. Replied' => Replied
    BY <1>2, <1>4 DEF Replied
  <2>3. Granted => Granted'
    BY <1>2, <1>4 DEF Granted
  <2>4. Granted' => Granted
    BY <1>2, <1>4 DEF Granted
  <2>5. QED
    BY <2>1, <2>2, <2>3, <2>4
<1>6. /\ AfterClick' <=> AfterClick
      /\ Leaving' <=> Leaving
      /\ Reached' = Reached /\ Underway' = Underway /\ Running' = Running
  BY <1>5 DEF AfterClick, Leaving, Reached, Underway, Running, Op
<1>7. BrowserTypes'
  BY <1>2, <1>3 DEF Live, BrowserInv, BrowserTypes
<1>8. DriverFits'
  <2>1. ASSUME NEW i \in DOMAIN wire', NEW j \in DOMAIN wire', ReplyAt(i)', ReplyAt(j)' PROVE i = j
    <3>1. i + 1 = j + 1
      BY <1>2, <1>4, <2>1 DEF Live, BrowserInv, DriverFits
    <3>2. QED
      BY <1>2, <3>1
  <2>2. QED
    BY <1>5, <1>6, <2>1 DEF Live, BrowserInv, DriverFits, Op
<1>9. EffectFits' /\ ScreenFits' /\ ExitFits'
  BY <1>5, <1>6 DEF Live, BrowserInv, EffectFits, ScreenFits, ExitFits, Op
<1>10. WireFits'
  <2> SUFFICES ASSUME Running PROVE WireFits'
    BY <1>6 DEF WireFits
  <2>1. ASSUME ~Replied, ~AfterClick, NEW i \in DOMAIN wire' PROVE wire'[i].doc = page.doc
    BY <1>2, <2>1 DEF Live, BrowserInv, WireFits
  <2>2. ASSUME NEW r \in DOMAIN wire', ReplyAt(r)', Op(at) # "click",
               AfterClick => wire'[r].ok /\ Calls[at].text \in wire'[r].texts
        PROVE  ~Underway /\ \A i \in DOMAIN wire' : i > r => wire'[i].doc = page.doc
    <3>1. r + 1 \in DOMAIN wire /\ ReplyAt(r + 1) /\ wire'[r] = wire[r + 1]
      BY <1>2, <1>4, <2>2
    <3>2. ~Underway /\ \A i \in DOMAIN wire : i > r + 1 => wire[i].doc = page.doc
      BY <2>2, <3>1 DEF Live, BrowserInv, WireFits
    <3>3. ASSUME NEW i \in DOMAIN wire', i > r PROVE wire'[i].doc = page.doc
      <4>1. i + 1 \in DOMAIN wire /\ i + 1 > r + 1 /\ wire'[i] = wire[i + 1]
        BY <1>2, <3>3
      <4>2. QED
        BY <3>2, <4>1
    <3>4. QED
      BY <3>2, <3>3
  <2>3. QED
    BY <1>5, <1>6, <2>1, <2>2 DEF WireFits, Op
<1>11. RecordFits'
  <2> SUFFICES ASSUME Running PROVE RecordFits'
    BY <1>6 DEF RecordFits
  <2>1. ASSUME page.complained, ~Leaving
        PROVE  page.doc \in recorded' \/ \E i \in DOMAIN wire' : EventAt(i)' /\ wire'[i].doc = page.doc
    BY <1>2, <1>3, <1>4, <2>1 DEF Live, BrowserInv, RecordFits
  <2>2. ASSUME NEW r \in DOMAIN wire', ReplyAt(r)', Op(at) # "navigate", wire'[r].complained
        PROVE  wire'[r].doc \in recorded' \/ \E i \in DOMAIN wire' : i < r /\ wire'[i].doc = wire'[r].doc
    <3>1. r + 1 \in DOMAIN wire /\ ReplyAt(r + 1) /\ wire'[r] = wire[r + 1] /\ r \in Nat
      BY <1>2, <1>4, <2>2
    <3>2. wire[r + 1].doc \in recorded \/ \E i \in DOMAIN wire : i < r + 1 /\ wire[i].doc = wire[r + 1].doc
      BY <2>2, <3>1 DEF Live, BrowserInv, RecordFits
    <3>3. ASSUME NEW i \in DOMAIN wire, i < r + 1, i # 1 PROVE i - 1 \in DOMAIN wire' /\ i - 1 < r /\ wire'[i - 1] = wire[i]
      BY <1>2, <3>1, <3>3
    <3>4. QED
      BY <1>3, <3>1, <3>2, <3>3
  <2>3. ASSUME NEW doc \in recorded' \cup {wire'[i].doc : i \in {l \in DOMAIN wire' : EventAt(l)'}}
        PROVE  IF Leaving THEN doc = page.doc ELSE doc >= page.visit - 1
    <3>1. doc \in recorded \cup {wire[i].doc : i \in {l \in DOMAIN wire : EventAt(l)}}
      BY <1>2, <1>3, <1>4, <2>3
    <3>2. QED
      BY <3>1 DEF Live, BrowserInv, RecordFits
  <2>4. ASSUME NEW r \in DOMAIN wire', ReplyAt(r)' PROVE wire'[r].visit <= page.visit
    BY <1>2, <1>4, <2>4 DEF Live, BrowserInv, RecordFits
  <2>5. QED
    BY <1>6, <2>1, <2>2, <2>3, <2>4 DEF RecordFits, Op
<1>12. QED
  BY <1>7, <1>8, <1>9, <1>10, <1>11 DEF BrowserInv

\* The answer is the one that was waited for, and the rest of the wire is events.
LEMMA AnswerTaken ==
  ASSUME Live, onMessage, Head(wire).kind # "event"
  PROVE  /\ 1 \in DOMAIN wire /\ ReplyAt(1) /\ Head(wire) = wire[1] /\ wire[1] \in Replies
         /\ wire' \in Seq(Events \cup Replies) /\ ~Replied' /\ ~Granted' /\ \A i : ~ReplyAt(i)'
         /\ \A i \in DOMAIN wire' : /\ i + 1 \in DOMAIN wire /\ wire'[i] = wire[i + 1] /\ i + 1 > 1
                                    /\ EventAt(i)' /\ EventAt(i + 1)
         /\ \A i \in DOMAIN wire : i # 1 => i - 1 \in DOMAIN wire' /\ wire'[i - 1] = wire[i]
         /\ Granted <=> wire[1].ok
         /\ pending /\ Op(at) \notin Local
<1> USE DEF onMessage
<1>1. wire \in Seq(Events \cup Replies) /\ wire # <<>> /\ wire' = Tail(wire)
  BY DEF Live, BrowserInv, BrowserTypes
<1>2. /\ wire' \in Seq(Events \cup Replies) /\ 1 \in DOMAIN wire /\ Head(wire) = wire[1]
      /\ \A i \in DOMAIN wire' : i \in Nat /\ i + 1 \in DOMAIN wire /\ wire'[i] = wire[i + 1] /\ i + 1 > 1
      /\ \A i \in DOMAIN wire : i = 1 \/ (i - 1 \in DOMAIN wire' /\ wire'[i - 1] = wire[i])
      /\ DOMAIN wire \subseteq Nat
  BY <1>1, WireTaken
<1>3. ReplyAt(1) /\ wire[1] \in Replies
  BY <1>1, <1>2, Messages DEF EventAt
<1>4. ASSUME NEW i \in DOMAIN wire, i # 1 PROVE ~ReplyAt(i) /\ EventAt(i)
  <2>1. ~ReplyAt(i)
    BY <1>2, <1>3, <1>4 DEF Live, BrowserInv, DriverFits
  <2>2. QED
    BY <1>1, <2>1, Messages
<1>5. ASSUME NEW i \in DOMAIN wire' PROVE EventAt(i)' /\ EventAt(i + 1) /\ ~ReplyAt(i)'
  <2>1. EventAt(i + 1) /\ wire'[i] = wire[i + 1]
    BY <1>2, <1>4
  <2>2. QED
    BY <2>1 DEF EventAt, ReplyAt
<1>6. ~Replied' /\ ~Granted' /\ \A i : ~ReplyAt(i)'
  BY <1>5 DEF Replied, Granted, ReplyAt
<1>7. Granted <=> wire[1].ok
  BY <1>2, <1>3, <1>4 DEF Granted
<1>8. pending /\ Op(at) \notin Local
  BY <1>2, <1>3, AtCall DEF Live, BrowserInv, DriverFits, Replied
<1>9. QED
  BY <1>2, <1>3, <1>5, <1>6, <1>7, <1>8

\* An answer that lets the script go on.
LEMMA ReplyAdvances ==
  ASSUME Live, onMessage, Head(wire).kind # "event", Advance, UNCHANGED recorded, failed' \in BOOLEAN,
         Head(wire).ok, Op(at) = "wait" => Calls[at].text \in Head(wire).texts
  PROVE  BrowserInv'
<1> USE DEF onMessage, Advance
<1>1. /\ at \in DOMAIN Calls /\ at \in Nat /\ at + 1 \in 1..End /\ Running
      /\ ReplyAt(1) /\ 1 \in DOMAIN wire /\ Head(wire) = wire[1] /\ Granted
  BY AtCall, AnswerTaken
<1>2. Op(at) # "click" => ~Underway /\ \A i \in DOMAIN wire : i > 1 => wire[i].doc = page.doc
  BY <1>1, AfterClickWaits DEF Live, BrowserInv, WireFits
<1>3. Op(at) # "click" => \A i \in DOMAIN wire' : wire'[i].doc = page.doc
  BY <1>2, AnswerTaken
<1>4. BrowserTypes'
  BY <1>1, AnswerTaken DEF Live, BrowserInv, BrowserTypes
<1>5. Op(at) # "cli" /\ Op(at) # "reset"
  BY AnswerTaken DEF Local
<1>6. ~Leaving /\ (Running' => ~Leaving')
  <2>1. Running' => at + 1 \in DOMAIN Calls
    BY <1>1, AtCall DEF Running
  <2>2. QED
    BY <1>1, <1>5, <2>1, NextCall DEF Leaving, Op
<1>7. RecordFits'
  <2> SUFFICES ASSUME Running' PROVE RecordFits'
    BY DEF RecordFits
  <2>1. page.complained => page.doc \in recorded \/ \E i \in DOMAIN wire' : EventAt(i)' /\ wire'[i].doc = page.doc
    <3>1. page.complained => page.doc \in recorded \/ \E i \in DOMAIN wire : EventAt(i) /\ wire[i].doc = page.doc
      BY <1>1, <1>6 DEF Live, BrowserInv, RecordFits
    <3>2. ~EventAt(1)
      BY <1>1 DEF EventAt, ReplyAt
    <3>3. ASSUME NEW i \in DOMAIN wire, EventAt(i)
          PROVE  i - 1 \in DOMAIN wire' /\ EventAt(i - 1)' /\ wire'[i - 1] = wire[i]
      <4>1. i # 1
        BY <3>2, <3>3
      <4>2. QED
        BY <4>1, AnswerTaken
    <3>4. QED
      BY <3>1, <3>3
  <2>2. \A doc \in recorded \cup {wire'[i].doc : i \in {l \in DOMAIN wire' : EventAt(l)'}} : doc >= page.visit - 1
    <3>1. \A doc \in recorded \cup {wire[i].doc : i \in {l \in DOMAIN wire : EventAt(l)}} : doc >= page.visit - 1
      BY <1>1, <1>6 DEF Live, BrowserInv, RecordFits
    <3>2. \A i \in DOMAIN wire' : wire'[i].doc \in {wire[l].doc : l \in {l \in DOMAIN wire : EventAt(l)}}
      BY AnswerTaken
    <3>3. QED
      BY <3>1, <3>2
  <2>3. QED
    BY <1>6, <2>1, <2>2, AnswerTaken DEF RecordFits
<1>8. Underway => Op(at) = "click"
  BY <1>2
<1>9. facts' = facts /\ page' = page /\ effect' = effect
  OBVIOUS
<1>10. QED
  BY <1>1, <1>3, <1>4, <1>7, <1>8, <1>9, AnswerTaken, AdvanceKeeps

\* A probe that found nothing is asked again.
LEMMA MissKeeps ==
  ASSUME Live, onMessage, Head(wire).kind # "event", Op(at) \in Waits, pending' = FALSE,
         UNCHANGED <<at, recorded, failed, phase, threw, code>>
  PROVE  BrowserInv'
<1> USE DEF onMessage, Waits
<1>1. /\ at \in DOMAIN Calls /\ Running /\ 1 \in DOMAIN wire /\ ReplyAt(1) /\ Op(at) \notin {"click", "navigate"}
      /\ Running' = Running /\ Underway' = Underway /\ (AfterClick' <=> AfterClick)
  BY AtCall, AnswerTaken DEF Running, Underway, AfterClick, Op
<1>2. Reached' = Reached /\ ~Leaving /\ ~Leaving'
  BY <1>1, AnswerTaken DEF Reached, Underway, Leaving, Op
<1>3. BrowserTypes'
  BY AnswerTaken DEF Live, BrowserInv, BrowserTypes
<1>4. DriverFits'
  BY <1>1, AnswerTaken DEF Live, BrowserInv, DriverFits
<1>5. EffectFits'
  <2>1. Underway => at = effect.call + 1
    BY <1>1, AfterClickWaits
  <2>2. QED
    BY <1>1, <2>1 DEF Live, BrowserInv, EffectFits, Op
<1>6. ScreenFits' /\ ExitFits'
  BY <1>1, <1>2 DEF Live, BrowserInv, ScreenFits, ExitFits
<1>7. WireFits'
  <2>1. ~AfterClick => \A i \in DOMAIN wire : i > 1 => wire[i].doc = page.doc
    BY <1>1 DEF Live, BrowserInv, WireFits
  <2>2. ~AfterClick => \A i \in DOMAIN wire' : wire'[i].doc = page.doc
    BY <2>1, AnswerTaken
  <2>3. QED
    BY <1>1, <2>2, AnswerTaken DEF WireFits
<1>8. RecordFits'
  <2>1. page.complained => page.doc \in recorded \/ \E i \in DOMAIN wire' : EventAt(i)' /\ wire'[i].doc = page.doc
    <3>1. page.complained => page.doc \in recorded \/ \E i \in DOMAIN wire : EventAt(i) /\ wire[i].doc = page.doc
      BY <1>1, <1>2 DEF Live, BrowserInv, RecordFits
    <3>2. ~EventAt(1)
      BY <1>1 DEF EventAt, ReplyAt
    <3>3. ASSUME NEW i \in DOMAIN wire, EventAt(i)
          PROVE  i - 1 \in DOMAIN wire' /\ EventAt(i - 1)' /\ wire'[i - 1] = wire[i]
      <4>1. i # 1
        BY <3>2, <3>3
      <4>2. QED
        BY <4>1, AnswerTaken
    <3>4. QED
      BY <3>1, <3>3
  <2>2. \A doc \in recorded \cup {wire'[i].doc : i \in {l \in DOMAIN wire' : EventAt(l)'}} : doc >= page.visit - 1
    <3>1. \A doc \in recorded \cup {wire[i].doc : i \in {l \in DOMAIN wire : EventAt(l)}} : doc >= page.visit - 1
      BY <1>1, <1>2 DEF Live, BrowserInv, RecordFits
    <3>2. \A i \in DOMAIN wire' : wire'[i].doc \in {wire[l].doc : l \in {l \in DOMAIN wire : EventAt(l)}}
      BY AnswerTaken
    <3>3. QED
      BY <3>1, <3>2
  <2>3. QED
    BY <1>2, <2>1, <2>2, AnswerTaken DEF RecordFits
<1>9. QED
  BY <1>3, <1>4, <1>5, <1>6, <1>7, <1>8 DEF BrowserInv

\* The message handler.
LEMMA MessageKeeps == ASSUME Live, onMessage PROVE BrowserInv'
<1>1. CASE Head(wire).kind = "event"
  BY <1>1, EventKeeps
<1>2. CASE Head(wire).kind # "event" /\ Throw
  <2>1. BrowserTypes'
    BY <1>2, AnswerTaken DEF Throw, onMessage, Live, BrowserInv, BrowserTypes
  <2>2. ~Running' /\ ScreenFits' /\ ExitFits'
    BY <1>2 DEF Throw, onMessage, Live, BrowserInv, Running, ScreenFits, ExitFits
  <2>3. QED
    BY <1>2, <2>1, <2>2, AnswerTaken, EndKeeps
<1>3. CASE Head(wire).kind # "event" /\ ~Throw
  <2>1. settle(Head(wire)) /\ UNCHANGED <<page, effect, facts>> /\ failed \in BOOLEAN
    BY <1>3 DEF onMessage, Live, BrowserInv, BrowserTypes
  <2>2. Call = Calls[at] /\ Op(at) = Call.op
    BY DEF Call, Op
  <2>3. CASE Call.op \in Waits
    <3>1. waitFor(Head(wire))
      BY <2>1, <2>3 DEF settle
    <3>2. CASE Head(wire).ok /\ (Call.op = "settle" \/ Call.text \in Head(wire).texts)
      BY <1>3, <2>1, <2>2, <3>1, <3>2, ReplyAdvances DEF waitFor, Passes
    <3>3. CASE ~(Head(wire).ok /\ (Call.op = "settle" \/ Call.text \in Head(wire).texts))
      BY <1>3, <2>2, <2>3, <3>1, <3>3, MissKeeps DEF waitFor, Miss
    <3>4. QED
      BY <3>2, <3>3
  <2>4. CASE Call.op \notin Waits /\ Head(wire).ok
    <3>1. Advance /\ UNCHANGED recorded /\ failed' \in BOOLEAN
      BY <2>1, <2>4 DEF settle, Checks, Passes
    <3>2. QED
      BY <1>3, <2>2, <2>4, <3>1, ReplyAdvances DEF Waits
  <2>5. CASE Call.op \notin Waits /\ ~Head(wire).ok
    BY <1>3, <2>1, <2>5 DEF settle
  <2>6. QED
    BY <2>3, <2>4, <2>5
<1>4. QED
  BY <1>1, <1>2, <1>3

\* The finally of main.
LEMMA CloseKeeps == ASSUME BrowserInv, close PROVE BrowserInv'
<1> USE DEF close
<1>1. wire' = <<>> /\ effect'.how = "none" /\ ~Running' /\ ~Running
  BY DEF NoEffect, Running
<1>2. ~Replied'
  <2>1. DOMAIN wire' = {}
    BY <1>1
  <2>2. QED
    BY <2>1 DEF Replied
<1>3. BrowserTypes'
  <2>1. effect' \in Effects /\ effect' = NoEffect
    BY CallsInOrder DEF NoEffect, Effects
  <2>2. wire' \in Seq(Events \cup Replies)
    BY <1>1
  <2>3. ExitCode \in {0, 1}
    BY DEF ExitCode
  <2>4. QED
    BY <2>1, <2>2, <2>3 DEF BrowserInv, BrowserTypes
<1>4. ScreenFits'
  BY <1>1 DEF BrowserInv, ScreenFits
<1>5. ExitFits'
  <2>1. ASSUME code' = 0 PROVE ~threw /\ ~failed
    BY <2>1 DEF ExitCode
  <2>2. facts \subseteq facts'
    OBVIOUS
  <2>3. ASSUME code' = 0 PROVE at = End /\ DoneUpTo(End, facts)
    BY <2>1, <2>3 DEF BrowserInv, ExitFits
  <2>4. ASSUME code' = 0 PROVE DoneUpTo(End, facts')
    BY <2>2, <2>3, <2>4 DEF DoneUpTo
  <2>5. QED
    BY <1>1, <2>1, <2>3, <2>4 DEF ExitFits
<1>6. QED
  BY <1>1, <1>2, <1>3, <1>4, <1>5, EndKeeps

\* node ends under a call a dead Chrome never answers.
LEMMA EmptyLoopKeeps == ASSUME Live, EventLoopEmpty PROVE BrowserInv'
<1> USE DEF EventLoopEmpty
<1>1. BrowserTypes' /\ ~Running'
  BY DEF Live, BrowserInv, BrowserTypes, Running
<1>2. ~Replied'
  BY DEF Replied
<1>3. ScreenFits' /\ ExitFits'
  BY <1>1 DEF Live, BrowserInv, ScreenFits, ExitFits
<1>4. QED
  BY <1>1, <1>2, <1>3, EndKeeps
-----------------------------------------------------------------------------
(* The steps of Chrome *)

\* The driver does nothing meanwhile.
Aside == UNCHANGED <<at, pending, misses, recorded, failed, phase, threw, code>>

\* An answer is put on the wire, behind all events.
LEMMA AnswerSent ==
  ASSUME Live, Asked, Aside, NEW ok \in BOOLEAN, Reply(ok)
  PROVE  /\ wire' \in Seq(Events \cup Replies)
         /\ \E r \in DOMAIN wire' :
              /\ ReplyAt(r)' /\ \A i \in DOMAIN wire' : ReplyAt(i)' => i = r
              /\ r \notin DOMAIN wire /\ \A i \in DOMAIN wire' : ~(i > r)
              /\ \A i \in DOMAIN wire : i \in DOMAIN wire' /\ i < r /\ wire'[i] = wire[i]
              /\ \A i \in DOMAIN wire' : EventAt(i)' => i \in DOMAIN wire /\ EventAt(i)
              /\ wire'[r].ok = ok /\ wire'[r].texts = Shown /\ wire'[r].doc = page.doc
              /\ wire'[r].visit = page.visit /\ wire'[r].complained = page.complained
         /\ \A i \in DOMAIN wire : EventAt(i) /\ EventAt(i)'
         /\ ~Replied /\ ~Granted /\ Replied' /\ (Granted' <=> ok)
         /\ DriverFits'
<1> DEFINE m == [kind |-> "reply", ok |-> ok, texts |-> Shown, doc |-> page.doc, visit |-> page.visit,
                 complained |-> page.complained]
<1>1. wire \in Seq(Events \cup Replies) /\ page \in Pages
  BY DEF Live, BrowserInv, BrowserTypes
<1>2. Shown \in SUBSET AllTexts
  <2>1. page.texts \in SUBSET AllTexts /\ page.notice \in {Notice(Calls[j]) : j \in Shows} \cup {"none"}
    BY <1>1 DEF Pages
  <2>2. {Notice(Calls[j]) : j \in Shows} \subseteq AllTexts
    BY DEF AllTexts
  <2>3. QED
    BY <2>1, <2>2 DEF Shown
<1>3. m \in Replies
  <2>1. page.doc \in Nat /\ page.visit \in Nat /\ page.complained \in BOOLEAN
    BY <1>1 DEF Pages
  <2>2. QED
    BY <1>2, <2>1 DEF Replies
<1>4. wire' = Append(wire, m)
  BY DEF Reply, Say
<1>5. /\ m.kind = "reply" /\ m.ok = ok /\ m.texts = Shown /\ m.doc = page.doc /\ m.visit = page.visit
      /\ m.complained = page.complained
  OBVIOUS
<1> HIDE DEF m
<1>r. PICK r : r = Len(wire) + 1
  OBVIOUS
<1>6. /\ wire' \in Seq(Events \cup Replies) /\ Len(wire) \in Nat
      /\ DOMAIN wire = 1..Len(wire) /\ DOMAIN wire' = 1..r
      /\ \A i \in DOMAIN wire : wire'[i] = wire[i] /\ i < r
      /\ wire'[r] = m
      /\ \A i \in DOMAIN wire' : i \in DOMAIN wire \/ i = r
  BY <1>1, <1>3, <1>4, <1>r, WireAppended
<1>7. \A i \in DOMAIN wire : ~ReplyAt(i) /\ EventAt(i)
  <2>1. \A i \in DOMAIN wire : ~ReplyAt(i)
    BY DEF Asked, ReplyAt
  <2>2. QED
    BY <1>1, <2>1, Messages
<1>8. r \in DOMAIN wire' /\ r \notin DOMAIN wire /\ (\A i \in DOMAIN wire' : ~(i > r)) /\ DOMAIN wire \subseteq DOMAIN wire'
  BY <1>6, <1>r
<1>9. ReplyAt(r)' /\ ~EventAt(r)'
  BY <1>5, <1>6, <1>8 DEF ReplyAt, EventAt
<1>10. \A i \in DOMAIN wire : EventAt(i)' /\ ~ReplyAt(i)'
  BY <1>6, <1>7, <1>8 DEF ReplyAt, EventAt
<1>11. ~Replied /\ ~Granted /\ Replied' /\ (Granted' <=> ok)
  BY <1>5, <1>6, <1>7, <1>8, <1>9, <1>10 DEF Replied, Granted
<1>12. DriverFits'
  <2>1. \A i, j \in DOMAIN wire' : ReplyAt(i)' /\ ReplyAt(j)' => i = j
    BY <1>6, <1>10
  <2>2. phase = "run" /\ pending
    BY DEF Live, Asked
  <2>3. QED
    BY <2>1, <2>2, AtCall DEF Live, BrowserInv, DriverFits, Aside, Running, Op
<1>13. QED
  BY <1>5, <1>6, <1>7, <1>8, <1>9, <1>10, <1>11, <1>12

\* An answer while the page keeps what it complained of.
LEMMA AnsweredWire ==
  ASSUME Live, Asked, Aside, NEW ok \in BOOLEAN, Reply(ok), Op(at) # "navigate",
         page'.doc = page.doc, page'.visit = page.visit, page'.complained = page.complained,
         UNCHANGED effect \/ Op(at) = "click"
  PROVE  WireFits' /\ RecordFits'
<1> USE DEF Aside
<1>1. PICK r \in DOMAIN wire' :
              /\ ReplyAt(r)' /\ \A i \in DOMAIN wire' : ReplyAt(i)' => i = r
              /\ r \notin DOMAIN wire /\ \A i \in DOMAIN wire' : ~(i > r)
              /\ \A i \in DOMAIN wire : i \in DOMAIN wire' /\ i < r /\ wire'[i] = wire[i]
              /\ \A i \in DOMAIN wire' : EventAt(i)' => i \in DOMAIN wire /\ EventAt(i)
              /\ wire'[r].ok = ok /\ wire'[r].texts = Shown /\ wire'[r].doc = page.doc
              /\ wire'[r].visit = page.visit /\ wire'[r].complained = page.complained
  BY AnswerSent
<1>2. \A i \in DOMAIN wire : EventAt(i) /\ EventAt(i)'
  BY AnswerSent
<1>3. Running /\ Running' /\ Replied' /\ ~Leaving /\ ~Leaving' /\ (AfterClick' <=> AfterClick)
  BY AtCall, AnswerSent DEF Running, Leaving, AfterClick, Op
<1>4. WireFits'
  <2>1. ASSUME Op(at) # "click", AfterClick => Calls[at].text \in Shown
        PROVE  ~Underway'
    <3>1. Underway => Op(at) = "wait" /\ AfterClick
      BY <2>1, AfterClickWaits
    <3>2. ~Underway
      BY <2>1, <3>1, TextIsNew
    <3>3. QED
      BY <2>1, <3>2 DEF Underway
  <2>2. QED
    BY <1>1, <1>3, <2>1 DEF WireFits, Op
<1>5. RecordFits'
  <2>1. page.complained => page.doc \in recorded \/ \E i \in DOMAIN wire : EventAt(i) /\ wire[i].doc = page.doc
    BY <1>3 DEF Live, BrowserInv, RecordFits
  <2>2. page.complained => page.doc \in recorded
                             \/ \E i \in DOMAIN wire' : EventAt(i)' /\ i < r /\ wire'[i].doc = page.doc
    BY <1>1, <1>2, <2>1
  <2>3. \A doc \in recorded \cup {wire[i].doc : i \in {l \in DOMAIN wire : EventAt(l)}} : doc >= page.visit - 1
    BY <1>3 DEF Live, BrowserInv, RecordFits
  <2>4. \A doc \in recorded \cup {wire'[i].doc : i \in {l \in DOMAIN wire' : EventAt(l)'}} : doc >= page.visit - 1
    BY <1>1, <2>3
  <2>5. page.visit \in Nat /\ page.visit <= page.visit
    BY DEF Live, BrowserInv, BrowserTypes, Pages
  <2>6. QED
    BY <1>1, <1>3, <2>2, <2>4, <2>5 DEF RecordFits
<1>6. QED
  BY <1>4, <1>5

\* The parts of the page have their types.
LEMMA PageTyped ==
  ASSUME Live
  PROVE  /\ page \in Pages /\ page.doc \in Nat /\ page.visit \in Nat /\ page.complained \in BOOLEAN
         /\ page.texts \in SUBSET AllTexts
         /\ wire \in Seq(Events \cup Replies) /\ effect \in Effects
BY DEF Live, BrowserInv, BrowserTypes, Pages

\* The click whose action is on its way is a call with a next one.
LEMMA EffectCall ==
  ASSUME Live
  PROVE  /\ effect.call \in 1..Len(Calls) /\ effect.call \in DOMAIN Calls
         /\ effect.call \in Nat /\ effect.call + 1 \in 1..End /\ effect.call + 1 \in Nat
         /\ effect.call # effect.call + 1
<1>1. effect.call \in 1..Len(Calls)
  BY PageTyped DEF Effects
<1>2. \A n \in Nat : \A i \in 1..n : i \in Nat /\ i + 1 \in 1..(n + 1) /\ i + 1 \in Nat /\ i # i + 1
  OBVIOUS
<1>3. QED
  BY <1>1, <1>2, CallsInOrder DEF End

\* Documents are counted, and a visit begins with one of them.
LEMMA DocCounts ==
  ASSUME Live
  PROVE  /\ page.doc + 1 \in Nat /\ page.doc + 1 # 0 /\ (page.doc + 1) - 1 = page.doc
         /\ page.visit <= page.doc /\ page.visit <= page.doc + 1 /\ page.doc + 1 <= page.doc + 1
<1>1. page.doc \in Nat /\ page.visit \in Nat /\ page.visit <= page.doc
  BY PageTyped DEF Live, BrowserInv, ScreenFits
<1>2. QED
  BY <1>1

\* What a screen shows is among the texts there are.
LEMMA ScreensTyped ==
  ASSUME NEW j \in Shows, NEW i \in 1..End, NEW known \in SUBSET Known(Calls, i)
  PROVE  ShownOn(Calls[j].screen, known) \in SUBSET AllTexts
<1>1. known \in SUBSET Known(Calls, End)
  BY KnownGrows, CallsInOrder
<1>2. QED
  BY <1>1 DEF AllTexts

\* A new document opens a visit, and what was complained of before it is of its predecessor.
LEMMA NavigateKeeps == ASSUME Live, Aside, Navigate, UNCHANGED facts PROVE BrowserInv'
<1> USE DEF Aside, Navigate
<1>1. Op(at) = "navigate" /\ at \in DOMAIN Calls /\ at \in Nat /\ Running /\ Running' /\ Calls[at] = Call
  BY AtCall DEF Call, Op, Running
<1>2. ~Underway /\ ~AfterClick /\ ~Underway'
  BY <1>1, NothingOnItsWay DEF Underway, NoEffect
<1>3. PICK r \in DOMAIN wire' :
              /\ ReplyAt(r)' /\ \A i \in DOMAIN wire' : ReplyAt(i)' => i = r
              /\ r \notin DOMAIN wire /\ \A i \in DOMAIN wire' : ~(i > r)
              /\ \A i \in DOMAIN wire : i \in DOMAIN wire' /\ i < r /\ wire'[i] = wire[i]
              /\ \A i \in DOMAIN wire' : EventAt(i)' => i \in DOMAIN wire /\ EventAt(i)
              /\ wire'[r].ok = TRUE /\ wire'[r].texts = Shown /\ wire'[r].doc = page.doc
              /\ wire'[r].visit = page.visit /\ wire'[r].complained = page.complained
  BY AnswerSent
<1>4. wire' \in Seq(Events \cup Replies) /\ ~Replied /\ ~Granted /\ Replied' /\ Granted' /\ DriverFits'
  BY AnswerSent
<1>5. /\ page'.doc = page.doc + 1 /\ page'.visit = page.doc + 1 /\ page'.screen = Calls[at].screen
      /\ page'.texts = {} /\ page'.notice = "none" /\ ~page'.complained /\ page'.width = page.width
      /\ page' \in Pages
  <2>1. at \in Shows
    BY <1>1 DEF Shows
  <2>2. page' = [doc |-> page.doc + 1, visit |-> page.doc + 1, screen |-> Calls[at].screen, texts |-> {},
                 notice |-> "none", hydrated |-> FALSE, complained |-> FALSE, width |-> page.width]
    BY <1>1 DEF Opened, Blank
  <2>3. page.doc + 1 \in Nat /\ page.width \in {Calls[j].width : j \in Sizes} \cup {0}
    BY PageTyped, DocCounts DEF Pages
  <2>4. Calls[at].screen \in {Calls[j].screen : j \in Shows} /\ {} \in SUBSET AllTexts
    BY <2>1
  <2>5. page' \in Pages
    BY <2>2, <2>3, <2>4 DEF Pages
  <2>6. QED
    BY <2>2, <2>5
<1>6. BrowserTypes'
  <2>1. effect' \in Effects /\ effect' = NoEffect
    BY CallsInOrder DEF NoEffect, Effects
  <2>2. QED
    BY <1>4, <1>5, <2>1 DEF Live, BrowserInv, BrowserTypes
<1>7. EffectFits'
  BY <1>2 DEF EffectFits
<1>8. Reached = at /\ Reached' = at + 1
  BY <1>1, <1>2, <1>4 DEF Reached, Op
<1>9. ScreenFits'
  <2>1. PageAt(at, page, facts)
    BY <1>1, <1>8 DEF Live, BrowserInv, ScreenFits
  <2>2. /\ LastOf(Calls, at + 1, {"navigate", "click"}) = {at}
        /\ LastOf(Calls, at + 1, {"override", "clear"}) = LastOf(Calls, at, {"override", "clear"})
        /\ Known(Calls, at + 1) = Known(Calls, at)
    BY <1>1, LastOfNext, KnownNext
  <2>3. Notice(Calls[at]) = "none"
    BY <1>1 DEF Notice, Op
  <2>4. PageAt(at + 1, page', facts)
    BY <1>5, <2>1, <2>2, <2>3 DEF PageAt
  <2>5. page'.visit <= page'.doc /\ page'.doc # 0
    BY <1>5, DocCounts
  <2>6. QED
    BY <1>5, <1>8, <2>4, <2>5 DEF ScreenFits
<1>10. WireFits'
  BY <1>2, <1>3, <1>4 DEF WireFits
<1>11. RecordFits'
  <2>1. Leaving /\ ~Leaving'
    BY <1>1, <1>4 DEF Leaving, Op
  <2>2. \A doc \in recorded \cup {wire[i].doc : i \in {l \in DOMAIN wire : EventAt(l)}} : doc = page.doc
    BY <1>1, <2>1 DEF Live, BrowserInv, RecordFits
  <2>3. \A doc \in recorded \cup {wire'[i].doc : i \in {l \in DOMAIN wire' : EventAt(l)'}} : doc = page.doc
    BY <1>3, <2>2
  <2>4. page.doc >= page'.visit - 1 /\ page.visit <= page'.visit
    <3>1. page'.visit = page.doc + 1
      BY <1>5
    <3>2. page.doc >= (page.doc + 1) - 1 /\ page.visit <= page.doc + 1
      BY DocCounts, PageTyped
    <3>3. QED
      BY <3>1, <3>2
  <2>5. QED
    BY <1>1, <1>3, <1>5, <2>1, <2>3, <2>4 DEF RecordFits, Op
<1>12. ExitFits'
  <2>1. DoneUpTo(at, facts)
    BY <1>1, <1>2, <1>8 DEF Live, BrowserInv, ExitFits
  <2>2. DoneUpTo(at + 1, facts)
    BY <1>1, <2>1, DoneNext
  <2>3. phase' = "run"
    BY DEF Live
  <2>4. QED
    BY <1>2, <1>8, <2>2, <2>3 DEF ExitFits
<1>13. QED
  BY <1>4, <1>6, <1>7, <1>9, <1>10, <1>11, <1>12 DEF BrowserInv

\* A change of the window's size leaves everything else of the page.
LEMMA ResizeKeeps == ASSUME Live, Aside, Resize, UNCHANGED facts PROVE BrowserInv'
<1> USE DEF Aside, Resize
<1>1. Op(at) \in {"override", "clear"} /\ at \in DOMAIN Calls /\ at \in Nat /\ Running /\ Running' /\ Calls[at] = Call
  BY AtCall DEF Call, Op, Running
<1>2. ~Underway /\ ~AfterClick /\ ~Underway'
  BY <1>1, NothingOnItsWay DEF Underway
<1>3. wire' \in Seq(Events \cup Replies) /\ ~Replied /\ ~Granted /\ Replied' /\ Granted' /\ DriverFits'
  BY AnswerSent
<1>4. /\ page'.doc = page.doc /\ page'.visit = page.visit /\ page'.screen = page.screen
      /\ page'.texts = page.texts /\ page'.notice = page.notice /\ page'.complained = page.complained
      /\ page'.hydrated = page.hydrated
      /\ page'.width = IF Op(at) = "clear" THEN 0 ELSE Calls[at].width
      /\ page' \in Pages
  <2>1. Op(at) = "override" => at \in Sizes
    BY <1>1 DEF Sizes
  <2>2. QED
    BY <1>1, <2>1, PageTyped DEF Pages, Op
<1>5. BrowserTypes'
  BY <1>3, <1>4 DEF Live, BrowserInv, BrowserTypes
<1>6. EffectFits'
  BY <1>2 DEF EffectFits
<1>7. Reached = at /\ Reached' = at + 1
  BY <1>1, <1>2, <1>3 DEF Reached, Op
<1>8. ScreenFits'
  <2>1. PageAt(at, page, facts)
    BY <1>1, <1>7 DEF Live, BrowserInv, ScreenFits
  <2>2. /\ LastOf(Calls, at + 1, {"navigate", "click"}) = LastOf(Calls, at, {"navigate", "click"})
        /\ LastOf(Calls, at + 1, {"override", "clear"}) = {at}
        /\ Known(Calls, at + 1) = Known(Calls, at)
    BY <1>1, LastOfNext, KnownNext
  <2>3. PageAt(at + 1, page', facts)
    BY <1>4, <2>1, <2>2 DEF PageAt
  <2>4. QED
    BY <1>4, <1>7, <2>3 DEF ScreenFits, Live, BrowserInv
<1>9. WireFits' /\ RecordFits'
  BY <1>1, <1>4, AnsweredWire
<1>10. ExitFits'
  <2>1. DoneUpTo(at, facts)
    BY <1>1, <1>2, <1>7 DEF Live, BrowserInv, ExitFits
  <2>2. DoneUpTo(at + 1, facts)
    BY <1>1, <2>1, DoneNext
  <2>3. phase' = "run"
    BY DEF Live
  <2>4. QED
    BY <1>2, <1>7, <2>2, <2>3 DEF ExitFits
<1>11. QED
  BY <1>3, <1>5, <1>6, <1>8, <1>9, <1>10 DEF BrowserInv

\* An answer that leaves the page where it was.
LEMMA AnswerKeeps == ASSUME Live, Aside, Answer, UNCHANGED facts PROVE BrowserInv'
<1> USE DEF Aside, Answer
<1>1. PICK ok \in BOOLEAN : Reply(ok)
  OBVIOUS
<1>2. /\ Op(at) \in {"evaluate", "settle", "wait", "capture", "overflow", "audit"} /\ Asked
      /\ at \in DOMAIN Calls /\ Running /\ Running'
  BY AtCall DEF Call, Op, Running
<1>3. wire' \in Seq(Events \cup Replies) /\ DriverFits' /\ ~Granted
  BY <1>1, <1>2, AnswerSent
<1>4. WireFits' /\ RecordFits'
  BY <1>1, <1>2, AnsweredWire
<1>5. BrowserTypes'
  BY <1>3 DEF Live, BrowserInv, BrowserTypes
<1>6. Underway' = Underway /\ Reached' = Reached
  BY <1>2 DEF Underway, Reached, Op
<1>7. EffectFits'
  <2>1. Underway => at = effect.call + 1
    BY <1>2, AfterClickWaits
  <2>2. QED
    BY <1>2, <1>6, <2>1 DEF Live, BrowserInv, EffectFits, Op
<1>8. ScreenFits' /\ ExitFits'
  BY <1>2, <1>6 DEF Live, BrowserInv, ScreenFits, ExitFits
<1>9. QED
  BY <1>3, <1>4, <1>5, <1>7, <1>8 DEF BrowserInv

\* A click is answered; its action is on its way from then on, or it threw.
LEMMA ClickKeeps == ASSUME Live, Aside, Click, UNCHANGED facts PROVE BrowserInv'
<1> USE DEF Aside, Click
<1>1. /\ Op(at) = "click" /\ Asked /\ at \in DOMAIN Calls /\ at \in Nat /\ Running /\ Running'
      /\ phase' = "run"
  BY AtCall DEF Call, Op, Running, Live
<1>2. ~Granted /\ ~Replied
  BY <1>1, AnswerSent DEF Asked, Replied, ReplyAt, Granted
<1>3. ~Underway
  <2>1. Underway => at = effect.call
    BY <1>1, AfterClickWaits
  <2>2. effect.call # effect.call + 1
    BY EffectCall
  <2>3. QED
    BY <1>1, <1>2, <2>1, <2>2 DEF Live, BrowserInv, EffectFits
<1>4. Reached = at
  BY <1>2, <1>3 DEF Reached
<1>5. PageAt(at, page, facts) /\ DoneUpTo(at, facts)
  BY <1>1, <1>3, <1>4 DEF Live, BrowserInv, ScreenFits, ExitFits
<1>6. CASE Reply(FALSE) /\ UNCHANGED effect
  <2>1. wire' \in Seq(Events \cup Replies) /\ DriverFits' /\ ~Granted'
    BY <1>1, <1>6, AnswerSent
  <2>2. WireFits' /\ RecordFits'
    BY <1>1, <1>6, AnsweredWire
  <2>3. BrowserTypes'
    BY <1>6, <2>1 DEF Live, BrowserInv, BrowserTypes
  <2>4. ~Underway' /\ Reached' = at
    BY <1>3, <1>6, <2>1 DEF Underway, Reached
  <2>5. EffectFits' /\ ScreenFits' /\ ExitFits'
    BY <1>1, <1>5, <1>6, <2>4 DEF EffectFits, ScreenFits, ExitFits, Live, BrowserInv
  <2>6. QED
    BY <2>1, <2>2, <2>3, <2>5 DEF BrowserInv
<1>7. CASE Reply(TRUE) /\ \E how \in {"in place", "load", "lost"} :
                              effect' = [how |-> how, call |-> at] /\ (how = "in place" => page.hydrated)
  <2>1. wire' \in Seq(Events \cup Replies) /\ DriverFits' /\ Granted'
    BY <1>1, <1>7, AnswerSent
  <2>2. WireFits' /\ RecordFits'
    BY <1>1, <1>7, AnsweredWire
  <2>3. effect' \in Effects /\ Underway' /\ effect'.call = at
    <3>1. at \in 1..Len(Calls)
      BY <1>1, CallsInOrder
    <3>2. PICK how \in {"in place", "load", "lost"} : effect' = [how |-> how, call |-> at]
      BY <1>7
    <3>3. effect'.how # "none" /\ effect'.call = at
      BY <3>2
    <3>4. QED
      BY <3>1, <3>2, <3>3 DEF Effects, Underway
  <2>4. BrowserTypes'
    BY <2>1, <2>3 DEF Live, BrowserInv, BrowserTypes, Underway
  <2>5. Reached' = at
    BY <2>3 DEF Reached
  <2>6. EffectFits' /\ ExitFits'
    BY <1>1, <1>5, <2>1, <2>3, <2>5 DEF EffectFits, ExitFits, Op
  <2>7. page.doc = 0 => effect'.how # "in place"
    <3>1. PICK how \in {"in place", "load", "lost"} :
            effect' = [how |-> how, call |-> at] /\ (how = "in place" => page.hydrated)
      BY <1>7
    <3>2. effect'.how = how
      BY <3>1
    <3>3. QED
      BY <3>1, <3>2 DEF Live, BrowserInv, ScreenFits
  <2>8. ScreenFits'
    BY <1>5, <2>5, <2>7 DEF ScreenFits, Live, BrowserInv
  <2>9. QED
    BY <2>1, <2>2, <2>4, <2>6, <2>8 DEF BrowserInv
<1>8. QED
  <2>1. ASSUME NEW how \in CASE page.hydrated -> {"in place"}
                             [] ~page.hydrated /\ Call.form -> {"load", "lost"}
                             [] OTHER -> {"load"}
        PROVE  how \in {"in place", "load", "lost"} /\ (how = "in place" => page.hydrated)
    BY <2>1
  <2>2. QED
    BY <1>6, <1>7, <2>1

\* No action on its way is one of the values an action can have.
LEMMA NoEffectTyped == NoEffect \in Effects
BY CallsInOrder DEF NoEffect, Effects

\* The action of the last click shows, and what it was for is done.
LEMMA LandKeeps == ASSUME Live, Aside, Land PROVE BrowserInv'
<1> PICK e : e = effect.call
  OBVIOUS
<1>0. /\ e \in 1..Len(Calls) /\ e \in DOMAIN Calls
      /\ e \in Nat /\ e + 1 \in 1..End /\ e + 1 \in Nat /\ e # e + 1
  BY EffectCall
<1> USE DEF Aside, Land
<1>1. /\ Underway /\ e \in DOMAIN Calls /\ e \in Nat /\ Op(e) = "click" /\ e + 1 \in 1..End /\ e + 1 \in Nat
      /\ at \in DOMAIN Calls /\ at \in Nat /\ Running /\ Running' /\ phase' = "run"
      /\ Op(at) \in {"click", "wait"} /\ (Op(at) = "click" => at = e) /\ (at # e => AfterClick /\ at = e + 1)
  <2>1. Underway /\ Running /\ Running' /\ phase' = "run"
    BY AtCall DEF Underway, Live, Running
  <2>2. QED
    BY <1>0, <2>1, AtCall, AfterClickWaits
<1>2. effect' = NoEffect /\ effect'.how # "in place" /\ ~Underway' /\ wire' = wire
  BY DEF NoEffect, Underway
<1>3. /\ Granted' <=> Granted
      /\ Replied' <=> Replied
      /\ AfterClick' <=> AfterClick
      /\ \A i : (ReplyAt(i)' <=> ReplyAt(i)) /\ (EventAt(i)' <=> EventAt(i))
  BY <1>2 DEF Granted, Replied, AfterClick, ReplyAt, EventAt, Op
<1>4. at = e => Granted
  BY <1>0, <1>1 DEF Live, BrowserInv, EffectFits
<1>5. Reached' = e + 1
  BY <1>1, <1>2, <1>3, <1>4 DEF Reached, Op
<1>6. Reached = e /\ PageAt(e, page, facts) /\ DoneUpTo(e, facts)
  BY <1>1 DEF Reached, Live, BrowserInv, ScreenFits, ExitFits
<1>7. facts' = facts \cup ({Calls[e].fact} \ {"none"}) /\ facts' \subseteq Known(Calls, e + 1)
  <2>1. facts \subseteq Known(Calls, e)
    BY <1>6 DEF PageAt
  <2>2. Known(Calls, e + 1) = Known(Calls, e) \cup ({Calls[e].fact} \ {"none"})
    BY <1>1, KnownNext
  <2>3. QED
    BY <2>1, <2>2
<1>8. /\ e \in Shows /\ Notice(Calls[e]) = Calls[e].notice
      /\ ShownOn(Calls[e].screen, facts') \in SUBSET AllTexts
  <2>1. e \in Shows /\ Notice(Calls[e]) = Calls[e].notice
    BY <1>1 DEF Shows, Notice, Op
  <2>2. QED
    BY <1>1, <1>7, <2>1, ScreensTyped
<1>9. /\ page'.visit = page.visit /\ page'.screen = Calls[e].screen /\ page'.notice = Calls[e].notice
      /\ page'.width = page.width /\ page' \in Pages
      /\ page'.texts = {} \/ page'.texts = ShownOn(Calls[e].screen, facts')
      /\ \/ page'.doc = page.doc /\ page'.complained = page.complained
         \/ page'.doc = page.doc + 1 /\ ~page'.complained
      /\ page'.doc # 0
  <2>1. page.width \in {Calls[j].width : j \in Sizes} \cup {0} /\ page.hydrated \in BOOLEAN
    BY PageTyped DEF Pages
  <2>2. /\ Calls[e].screen \in {Calls[j].screen : j \in Shows}
        /\ Calls[e].notice \in {Notice(Calls[j]) : j \in Shows}
        /\ {} \in SUBSET AllTexts
    BY <1>8
  <2>3. CASE effect.how = "load"
    <3>1. page' = [doc |-> page.doc + 1, visit |-> page.visit, screen |-> Calls[e].screen, texts |-> {},
                   notice |-> Calls[e].notice, hydrated |-> FALSE, complained |-> FALSE, width |-> page.width]
      BY <2>3 DEF Opened, Blank
    <3>2. page.doc + 1 \in Nat /\ page.doc + 1 # 0
      BY DocCounts
    <3>3. page' \in Pages
      BY <2>1, <2>2, <3>1, <3>2, PageTyped DEF Pages
    <3>4. QED
      BY <3>1, <3>2, <3>3
  <2>4. CASE effect.how # "load" /\ page.doc # 0
    <3>1. page' = [page EXCEPT !.screen = Calls[e].screen, !.notice = Calls[e].notice,
                               !.texts = ShownOn(Calls[e].screen, facts')]
      BY <2>4
    <3>2. page' \in Pages
      BY <1>8, <2>1, <2>2, <3>1, PageTyped DEF Pages
    <3>3. QED
      BY <2>4, <3>1, <3>2, PageTyped DEF Pages
  <2>5. effect.how # "load" => page.doc # 0
    BY DEF Live, BrowserInv, ScreenFits
  <2>6. QED
    BY <2>3, <2>4, <2>5
<1>10. BrowserTypes'
  <2>1. effect' \in Effects
    BY <1>2, NoEffectTyped
  <2>2. facts' \subseteq facts' /\ recorded' = recorded /\ wire' = wire
    BY <1>2
  <2>3. QED
    BY <1>2, <1>9, <2>1, <2>2 DEF Live, BrowserInv, BrowserTypes
<1>11. DriverFits'
  BY <1>1, <1>2, <1>3 DEF Live, BrowserInv, DriverFits, Op
<1>12. EffectFits'
  BY <1>2 DEF EffectFits
<1>13. ScreenFits'
  <2>1. /\ LastOf(Calls, e + 1, {"navigate", "click"}) = {e}
        /\ LastOf(Calls, e + 1, {"override", "clear"}) = LastOf(Calls, e, {"override", "clear"})
    BY <1>1, LastOfNext
  <2>2. PageAt(e + 1, page', facts')
    BY <1>6, <1>7, <1>8, <1>9, <2>1 DEF PageAt
  <2>3. page'.visit <= page'.doc
    BY <1>9, DocCounts
  <2>4. QED
    BY <1>2, <1>5, <1>9, <2>2, <2>3 DEF ScreenFits
<1>14. WireFits'
  <2>1. ~Replied /\ ~AfterClick => FALSE
    BY <1>1, <1>4 DEF Replied, Granted
  <2>2. ASSUME NEW r \in DOMAIN wire, ReplyAt(r), Op(at) # "click",
               AfterClick => wire[r].ok /\ Calls[at].text \in wire[r].texts
        PROVE  FALSE
    BY <1>1, <2>2 DEF Live, BrowserInv, WireFits
  <2>3. QED
    BY <1>2, <1>3, <2>1, <2>2 DEF WireFits, Op
<1>15. RecordFits'
  <2>1. ~Leaving /\ ~Leaving' /\ Op(at) # "navigate"
    BY <1>1 DEF Leaving, Op
  <2>2. page'.complained =>
          page'.doc \in recorded \/ \E i \in DOMAIN wire : EventAt(i) /\ wire[i].doc = page'.doc
    BY <1>1, <1>9, <2>1 DEF Live, BrowserInv, RecordFits
  <2>3. ASSUME NEW r \in DOMAIN wire, ReplyAt(r)
        PROVE  /\ wire[r].visit <= page.visit
               /\ wire[r].complained =>
                    wire[r].doc \in recorded \/ \E i \in DOMAIN wire : i < r /\ wire[i].doc = wire[r].doc
    BY <1>1, <2>1, <2>3 DEF Live, BrowserInv, RecordFits
  <2>4. \A doc \in recorded \cup {wire[i].doc : i \in {l \in DOMAIN wire : EventAt(l)}} : doc >= page.visit - 1
    BY <1>1, <2>1 DEF Live, BrowserInv, RecordFits
  <2>5. /\ recorded' = recorded /\ wire' = wire /\ page'.visit = page.visit
        /\ {l \in DOMAIN wire' : EventAt(l)'} = {l \in DOMAIN wire : EventAt(l)}
    BY <1>2, <1>3, <1>9
  <2>6. QED
    BY <1>3, <2>1, <2>2, <2>3, <2>4, <2>5 DEF RecordFits
<1>16. ExitFits'
  <2>1. DoneUpTo(e + 1, facts')
    <3>1. facts \subseteq facts' /\ Calls[e].fact \in facts' \cup {"none"}
      BY <1>7
    <3>2. QED
      BY <1>1, <1>6, <3>1, DoneNext
  <2>2. QED
    BY <1>1, <1>2, <1>5, <2>1 DEF ExitFits
<1>17. QED
  BY <1>10, <1>11, <1>12, <1>13, <1>14, <1>15, <1>16 DEF BrowserInv
-----------------------------------------------------------------------------
\* The page is that of a call of the script, or of its end.
LEMMA ReachedTyped == ASSUME Live PROVE Reached \in 1..End
BY EffectCall, AtCall, CallsInOrder DEF Reached, End

\* What the page holds is what the document, or a form's answer, put there.
LEMMA PageKeeps ==
  ASSUME Live, Aside, UNCHANGED <<wire, effect, facts>>, page.doc # 0, page' \in Pages,
         page'.doc = page.doc, page'.visit = page.visit, page'.screen = page.screen,
         page'.notice = page.notice, page'.complained = page.complained, page'.width = page.width,
         page'.texts = page.texts \/ page'.texts = ShownOn(page.screen, facts)
  PROVE  BrowserInv'
<1> USE DEF Aside
<1>1. /\ Granted' <=> Granted
      /\ Replied' <=> Replied
      /\ AfterClick' <=> AfterClick
      /\ Leaving' <=> Leaving
      /\ Reached' = Reached /\ Underway' = Underway /\ Running' = Running
      /\ \A i : (ReplyAt(i)' <=> ReplyAt(i)) /\ (EventAt(i)' <=> EventAt(i))
  BY DEF Granted, Replied, AfterClick, Leaving, Reached, Underway, Running, ReplyAt, EventAt, Op
<1>2. BrowserTypes'
  BY DEF Live, BrowserInv, BrowserTypes
<1>3. DriverFits'
  BY <1>1 DEF Live, BrowserInv, DriverFits, Op
<1>4. EffectFits'
  BY <1>1 DEF Live, BrowserInv, EffectFits, Op
<1>5. ScreenFits'
  <2>1. Running /\ PageAt(Reached, page, facts)
    BY AtCall DEF Live, BrowserInv, ScreenFits
  <2>2. PICK r : r = Reached
    OBVIOUS
  <2>3. PageAt(r, page', facts)
    BY <2>1, <2>2 DEF PageAt
  <2>4. page'.visit <= page'.doc
    BY DocCounts
  <2>5. QED
    BY <1>1, <2>2, <2>3, <2>4 DEF ScreenFits
<1>6. WireFits'
  BY <1>1 DEF Live, BrowserInv, WireFits, Op
<1>7. RecordFits'
  BY <1>1 DEF Live, BrowserInv, RecordFits, Op
<1>8. ExitFits'
  BY <1>1 DEF Live, BrowserInv, ExitFits
<1>9. QED
  BY <1>2, <1>3, <1>4, <1>5, <1>6, <1>7, <1>8 DEF BrowserInv

\* The document arrives with what the server knows by then.
LEMMA RenderKeeps == ASSUME Live, Aside, Render, UNCHANGED facts PROVE BrowserInv'
<1>1. page.doc # 0
  BY PageTyped DEF Render
<1>2. page \in Pages /\ page' = [page EXCEPT !.texts = ShownOn(page.screen, facts)]
  BY PageTyped DEF Render
<1>3. ShownOn(page.screen, facts) \in SUBSET AllTexts
  <2>1. PageAt(Reached, page, facts)
    BY AtCall DEF Live, BrowserInv, ScreenFits
  <2>2. PICK j \in LastOf(Calls, Reached, {"navigate", "click"}) : TRUE
    BY <1>1, <2>1 DEF PageAt
  <2>3. j \in Shows
    BY <2>2 DEF LastOf, Before, Shows, Op
  <2>4. page.screen = Calls[j].screen /\ facts \in SUBSET Known(Calls, Reached)
    BY <2>1, <2>2 DEF PageAt
  <2>5. QED
    BY <2>3, <2>4, ReachedTyped, ScreensTyped
<1>4. /\ page' \in Pages /\ page'.texts = ShownOn(page.screen, facts)
      /\ page'.doc = page.doc /\ page'.visit = page.visit /\ page'.screen = page.screen
      /\ page'.notice = page.notice /\ page'.complained = page.complained /\ page'.width = page.width
  BY <1>2, <1>3 DEF Pages
<1>5. UNCHANGED <<wire, effect>>
  BY DEF Render
<1>6. QED
  BY <1>1, <1>4, <1>5, PageKeeps

\* React takes the page over.
LEMMA HydrateKeeps == ASSUME Live, Aside, Hydrate, UNCHANGED facts PROVE BrowserInv'
<1>1. page.doc # 0
  BY DEF Hydrate, Live, BrowserInv, ScreenFits
<1>2. page \in Pages /\ page' = [page EXCEPT !.hydrated = TRUE]
  BY PageTyped DEF Hydrate
<1>3. /\ page' \in Pages /\ page'.texts = page.texts
      /\ page'.doc = page.doc /\ page'.visit = page.visit /\ page'.screen = page.screen
      /\ page'.notice = page.notice /\ page'.complained = page.complained /\ page'.width = page.width
  BY <1>2 DEF Pages
<1>4. UNCHANGED <<wire, effect>>
  BY DEF Hydrate
<1>5. QED
  BY <1>1, <1>3, <1>4, PageKeeps

\* The document complains, and tells so behind everything already said.
LEMMA ComplainKeeps == ASSUME Live, Aside, Complain, UNCHANGED facts PROVE BrowserInv'
<1> DEFINE m == [kind |-> "event", doc |-> page.doc]
<1>1. wire \in Seq(Events \cup Replies) /\ m \in Events /\ m.doc = page.doc /\ m.kind = "event"
  BY PageTyped DEF Events
<1>2. wire' = Append(wire, m) /\ UNCHANGED effect /\ page.doc # 0
  BY PageTyped DEF Complain, Say
<1>3. /\ page' \in Pages /\ page'.complained /\ page'.texts = page.texts
      /\ page'.doc = page.doc /\ page'.visit = page.visit /\ page'.screen = page.screen
      /\ page'.notice = page.notice /\ page'.hydrated = page.hydrated /\ page'.width = page.width
  <2>1. page' = [page EXCEPT !.complained = TRUE]
    BY DEF Complain
  <2>2. QED
    BY <2>1, PageTyped DEF Pages
<1> HIDE DEF m
<1> PICK n : n = Len(wire) + 1
  OBVIOUS
<1>4. /\ wire' \in Seq(Events \cup Replies)
      /\ n \in DOMAIN wire' /\ wire'[n] = m
      /\ \A i \in DOMAIN wire : i \in DOMAIN wire' /\ wire'[i] = wire[i] /\ i < n
      /\ \A i \in DOMAIN wire' : i \in DOMAIN wire \/ i = n
      /\ n \notin DOMAIN wire /\ \A i \in DOMAIN wire : ~(n < i)
  <2>1. /\ wire' \in Seq(Events \cup Replies) /\ Len(wire) \in Nat
        /\ DOMAIN wire = 1..Len(wire) /\ DOMAIN wire' = 1..n
        /\ \A i \in DOMAIN wire : wire'[i] = wire[i] /\ i < n
        /\ wire'[n] = m
        /\ \A i \in DOMAIN wire' : i \in DOMAIN wire \/ i = n
    BY <1>1, <1>2, WireAppended
  <2>2. QED
    BY <2>1
<1>5. /\ EventAt(n)' /\ ~ReplyAt(n)'
      /\ \A i \in DOMAIN wire : (ReplyAt(i)' <=> ReplyAt(i)) /\ (EventAt(i)' <=> EventAt(i))
      /\ \A i \in DOMAIN wire' : ReplyAt(i)' => i \in DOMAIN wire /\ ReplyAt(i)
  BY <1>1, <1>4 DEF EventAt, ReplyAt
<1>6. /\ Granted' <=> Granted
      /\ Replied' <=> Replied
  BY <1>4, <1>5 DEF Granted, Replied
<1>7. /\ AfterClick' <=> AfterClick
      /\ Leaving' <=> Leaving
      /\ Reached' = Reached /\ Underway' = Underway /\ Running' = Running
  BY <1>2, <1>6 DEF Aside, AfterClick, Leaving, Reached, Underway, Running, Op
<1>8. BrowserTypes'
  BY <1>2, <1>3, <1>4 DEF Aside, Live, BrowserInv, BrowserTypes
<1>9. DriverFits'
  BY <1>5, <1>6, <1>7 DEF Aside, Live, BrowserInv, DriverFits, Op
<1>10. EffectFits' /\ ExitFits'
  BY <1>2, <1>6, <1>7 DEF Aside, Live, BrowserInv, EffectFits, ExitFits, Op
<1>11. ScreenFits'
  <2>1. Running /\ PageAt(Reached, page, facts)
    BY AtCall DEF Live, BrowserInv, ScreenFits
  <2>2. PICK r : r = Reached
    OBVIOUS
  <2>3. PageAt(r, page', facts)
    BY <1>3, <2>1, <2>2 DEF PageAt
  <2>4. page'.visit <= page'.doc
    BY <1>3, DocCounts
  <2>5. QED
    BY <1>2, <1>3, <1>7, <2>2, <2>3, <2>4 DEF ScreenFits
<1>12. WireFits'
  <2>1. ASSUME ~Replied, ~AfterClick, NEW i \in DOMAIN wire' PROVE wire'[i].doc = page.doc
    BY <1>1, <1>4, <2>1, AtCall DEF Live, BrowserInv, WireFits
  <2>2. ASSUME NEW r \in DOMAIN wire', ReplyAt(r)', Op(at) # "click",
               AfterClick => wire'[r].ok /\ Calls[at].text \in wire'[r].texts
        PROVE  ~Underway /\ \A i \in DOMAIN wire' : i > r => wire'[i].doc = page.doc
    <3>1. r \in DOMAIN wire /\ ReplyAt(r) /\ wire'[r] = wire[r]
      BY <1>4, <1>5, <2>2
    <3>2. ~Underway /\ \A i \in DOMAIN wire : i > r => wire[i].doc = page.doc
      BY <2>2, <3>1, AtCall DEF Live, BrowserInv, WireFits
    <3>3. QED
      BY <1>1, <1>4, <3>2
  <2>3. at' = at /\ page'.doc = page.doc
    BY <1>3 DEF Aside
  <2>4. QED
    BY <1>6, <1>7, <2>1, <2>2, <2>3 DEF WireFits, Op
<1>13. RecordFits'
  <2>1. page'.doc = page.doc /\ page'.visit = page.visit /\ recorded' = recorded /\ at' = at
    BY <1>3 DEF Aside
  <2>2. EventAt(n)' /\ wire'[n].doc = page.doc
    BY <1>1, <1>4, <1>5
  <2>3. ASSUME NEW r \in DOMAIN wire', ReplyAt(r)', Op(at) # "navigate", wire'[r].complained
        PROVE  wire'[r].doc \in recorded \/ \E i \in DOMAIN wire' : i < r /\ wire'[i].doc = wire'[r].doc
    <3>1. r \in DOMAIN wire /\ ReplyAt(r) /\ wire'[r] = wire[r]
      BY <1>4, <1>5, <2>3
    <3>2. wire[r].doc \in recorded \/ \E i \in DOMAIN wire : i < r /\ wire[i].doc = wire[r].doc
      BY <2>3, <3>1, AtCall DEF Live, BrowserInv, RecordFits
    <3>3. QED
      BY <1>4, <3>1, <3>2
  <2>4. ASSUME NEW doc \in recorded \cup {wire'[i].doc : i \in {l \in DOMAIN wire' : EventAt(l)'}}
        PROVE  IF Leaving THEN doc = page.doc ELSE doc >= page.visit - 1
    <3>1. doc \in recorded \cup {wire[i].doc : i \in {l \in DOMAIN wire : EventAt(l)}} \/ doc = page.doc
      BY <1>1, <1>4, <1>5, <2>4
    <3>2. page.doc >= page.visit - 1
      BY DocCounts, PageTyped
    <3>3. QED
      BY <3>1, <3>2, AtCall DEF Live, BrowserInv, RecordFits
  <2>5. ASSUME NEW r \in DOMAIN wire', ReplyAt(r)' PROVE wire'[r].visit <= page.visit
    BY <1>4, <1>5, <2>5, AtCall DEF Live, BrowserInv, RecordFits
  <2>6. n \in DOMAIN wire'
    BY <1>4
  <2>7. QED
    BY <1>7, <2>1, <2>2, <2>3, <2>4, <2>5, <2>6 DEF RecordFits, Op
<1>14. QED
  BY <1>8, <1>9, <1>10, <1>11, <1>12, <1>13 DEF BrowserInv

\* Whether Chrome is alive is not part of the invariant.
LEMMA IdleKeeps ==
  ASSUME BrowserInv, UNCHANGED <<at, pending, misses, recorded, failed, phase, threw, code, wire, page, effect, facts>>
  PROVE  BrowserInv'
<1>1. /\ Granted' <=> Granted
      /\ Replied' <=> Replied
      /\ AfterClick' <=> AfterClick
      /\ Leaving' <=> Leaving
      /\ Reached' = Reached /\ Underway' = Underway /\ Running' = Running
      /\ \A i : (ReplyAt(i)' <=> ReplyAt(i)) /\ (EventAt(i)' <=> EventAt(i))
  BY DEF Granted, Replied, AfterClick, Leaving, Reached, Underway, Running, ReplyAt, EventAt, Op
<1>2. BrowserTypes' /\ ScreenFits' /\ ExitFits'
  BY <1>1 DEF BrowserInv, BrowserTypes, ScreenFits, ExitFits
<1>3. DriverFits' /\ EffectFits'
  BY <1>1 DEF BrowserInv, DriverFits, EffectFits, Op
<1>4. WireFits'
  BY <1>1 DEF BrowserInv, WireFits, Op
<1>5. RecordFits'
  BY <1>1 DEF BrowserInv, RecordFits, Op
<1>6. QED
  BY <1>2, <1>3, <1>4, <1>5 DEF BrowserInv
-----------------------------------------------------------------------------
\* Before the launch nothing is shown, asked or known.
LEMMA WalkthroughStarts == BrowserInit => BrowserInv
<1> SUFFICES ASSUME BrowserInit PROVE BrowserInv
  OBVIOUS
<1> USE DEF BrowserInit
<1>1. /\ 1 \in DOMAIN Calls /\ 1 \in 1..End /\ 1 < End /\ Before(Calls, 1) = {}
  <2>1. \A n \in Nat \ {0} : 1 \in 1..n /\ 1 \in 1..(n + 1) /\ 1 < n + 1 /\ \A i \in 1..n : ~(i < 1)
    OBVIOUS
  <2>2. QED
    BY <2>1, CallsInOrder DEF Before, End
<1>2. DOMAIN wire = {} /\ wire \in Seq(Events \cup Replies)
  OBVIOUS
<1>3. ~Replied /\ ~Granted /\ ~Underway /\ Running
  BY <1>2 DEF Replied, Granted, Underway, NoEffect, Running
<1>4. BrowserTypes
  <2>1. page \in Pages
    BY DEF Blank, Pages
  <2>2. QED
    BY <1>1, <1>2, <2>1, NoEffectTyped DEF BrowserTypes
<1>5. DriverFits
  <2>1. ~pending /\ at < End /\ ~threw
    BY <1>1
  <2>2. QED
    BY <1>2, <1>3, <2>1 DEF DriverFits
<1>6. EffectFits
  BY <1>3 DEF EffectFits
<1>7. Reached = 1
  <2>1. at = 1
    OBVIOUS
  <2>2. QED
    BY <1>3, <2>1 DEF Reached
<1>8. ScreenFits
  <2>1. LastOf(Calls, 1, {"navigate", "click"}) = {} /\ LastOf(Calls, 1, {"override", "clear"}) = {}
    BY <1>1 DEF LastOf
  <2>2. /\ page.doc = 0 /\ page.visit = 0 /\ page.width = 0 /\ page.texts = {} /\ ~page.hydrated
        /\ effect.how = "none" /\ facts = {}
    BY DEF Blank, NoEffect
  <2>3. PageAt(1, page, facts)
    BY <2>1, <2>2 DEF PageAt
  <2>4. QED
    BY <1>7, <2>2, <2>3 DEF ScreenFits
<1>9. WireFits
  BY <1>2 DEF WireFits
<1>10. RecordFits
  BY <1>2 DEF RecordFits, Blank
<1>11. ExitFits
  <2>1. DoneUpTo(1, facts)
    BY <1>1 DEF DoneUpTo, Before
  <2>2. phase = "launch"
    OBVIOUS
  <2>3. QED
    BY <1>3, <1>7, <2>1, <2>2 DEF ExitFits
<1>12. QED
  BY <1>4, <1>5, <1>6, <1>8, <1>9, <1>10, <1>11 DEF BrowserInv

\* Every step of a disciplined script keeps the invariant.
LEMMA WalkthroughStep ==
  ASSUME Disciplined(Calls), BrowserInv, [BrowserNext]_browserVars
  PROVE  BrowserInv'
<1>1. phase = "run" => Live
  BY DEF Live
<1>2. CASE launch
  BY <1>2, LaunchKeeps
<1>3. CASE reset
  BY <1>1, <1>3, ResetKeeps DEF reset
<1>4. CASE smithCli
  BY <1>1, <1>4, CliKeeps DEF smithCli
<1>5. CASE send
  BY <1>1, <1>5, SendKeeps DEF send
<1>6. CASE onMessage
  BY <1>1, <1>6, MessageKeeps DEF onMessage
<1>7. CASE close
  BY <1>7, CloseKeeps
<1>8. CASE EventLoopEmpty
  BY <1>1, <1>8, EmptyLoopKeeps DEF EventLoopEmpty
<1>9. CASE Chrome
  <2>1. Live /\ Aside
    BY <1>1, <1>9 DEF Chrome, Alive, Aside, driver
  <2>2. CASE Land
    BY <2>1, <2>2, LandKeeps
  <2>3. CASE (Navigate \/ Resize \/ Answer \/ Click \/ Render \/ Hydrate \/ Complain) /\ UNCHANGED facts
    BY <2>1, <2>3, NavigateKeeps, ResizeKeeps, AnswerKeeps, ClickKeeps, RenderKeeps, HydrateKeeps, ComplainKeeps
  <2>4. QED
    BY <1>9, <2>2, <2>3 DEF Chrome
<1>10. CASE ChromeDies
  BY <1>10, IdleKeeps DEF ChromeDies, driver
<1>11. CASE Done \/ UNCHANGED browserVars
  BY <1>11, IdleKeeps DEF Done, browserVars
<1>12. QED
  BY <1>2, <1>3, <1>4, <1>5, <1>6, <1>7, <1>8, <1>9, <1>10, <1>11 DEF BrowserNext, Driver

\* Where the script, the wire and the page are: through the whole run of every
\* disciplined script the page is that of the last call that changed it, at most
\* one answer is under way, and an action only until the end of the wait behind
\* its click.
THEOREM WalkthroughInvariance ==
  ASSUME Disciplined(Calls)
  PROVE  BrowserSpec => []BrowserInv
<1>1. BrowserInv /\ [BrowserNext]_browserVars => BrowserInv'
  BY WalkthroughStep
<1>2. QED
  BY <1>1, WalkthroughStarts, PTL DEF BrowserSpec

\* No step but the click and the wait behind it runs while an action is on its
\* way: waitFor is all the synchronisation the run needs.
THEOREM WaitsAreEnough ==
  ASSUME Disciplined(Calls)
  PROVE  BrowserSpec => []WaitsSynchronise
<1>1. BrowserInv => WaitsSynchronise
  <2> SUFFICES ASSUME BrowserInv, phase = "run", effect # NoEffect PROVE Call.op \in {"click", "wait"}
    BY DEF WaitsSynchronise
  <2>1. Live /\ Underway
    BY DEF Live, Underway, BrowserInv, BrowserTypes
  <2>2. QED
    BY <2>1, AfterClickWaits DEF Call, Op
<1>2. QED
  BY <1>1, WalkthroughInvariance, PTL

\* At the audit of a screen everything its document complained of is recorded,
\* nothing of an earlier visit is, and the window has its own size.
THEOREM AuditsAreComplete ==
  ASSUME Disciplined(Calls)
  PROVE  BrowserSpec => []AuditIsComplete
<1>1. BrowserInv => AuditIsComplete
  <2> SUFFICES ASSUME BrowserInv, phase = "run", Call.op = "audit", wire # <<>>, Head(wire).kind = "reply"
               PROVE  /\ page.width = 0
                      /\ Head(wire).complained => Head(wire).doc \in recorded
                      /\ \A doc \in recorded : doc >= Head(wire).visit - 1
    BY DEF AuditIsComplete
  <2>1. Live /\ Running /\ at \in DOMAIN Calls /\ Op(at) = "audit"
    BY AtCall DEF Live, Call, Op
  <2>2. wire \in Seq(Events \cup Replies) /\ 1 \in DOMAIN wire /\ DOMAIN wire \subseteq Nat \ {0} /\ Head(wire) = wire[1]
    <3>1. wire \in Seq(Events \cup Replies)
      BY DEF BrowserInv, BrowserTypes
    <3>2. Len(wire) \in Nat /\ Len(wire) # 0 /\ DOMAIN wire = 1..Len(wire)
      BY <3>1, EmptySeq, LenProperties
    <3>3. QED
      BY <3>1, <3>2
  <2>3. ReplyAt(1) /\ wire[1] \in Replies
    BY <2>2, Messages DEF ReplyAt
  <2>4. page.width = 0
    <3>1. ~Underway /\ Reached = at
      BY <2>1, NothingOnItsWay DEF Reached
    <3>2. PageAt(at, page, facts)
      BY <2>1, <3>1 DEF BrowserInv, ScreenFits
    <3>3. \A j \in LastOf(Calls, at, {"override", "clear"}) : Op(j) = "clear"
      BY <2>1 DEF Disciplined, AuditsAtFullSize, Op
    <3>4. QED
      BY <3>2, <3>3 DEF PageAt
  <2>5. wire[1].complained => wire[1].doc \in recorded
    <3>1. \A i \in DOMAIN wire : ~(i < 1)
      BY <2>2
    <3>2. QED
      BY <2>1, <2>2, <2>3, <3>1 DEF BrowserInv, RecordFits
  <2>6. ASSUME NEW doc \in recorded PROVE doc >= wire[1].visit - 1
    <3>1. doc >= page.visit - 1 /\ wire[1].visit <= page.visit
      BY <2>1, <2>2, <2>3 DEF BrowserInv, RecordFits, Leaving
    <3>2. doc \in Nat /\ page.visit \in Nat /\ wire[1].visit \in Nat
      BY <2>3 DEF BrowserInv, BrowserTypes, Pages, Replies
    <3>3. QED
      BY <3>1, <3>2
  <2>7. QED
    BY <2>2, <2>4, <2>5, <2>6
<1>2. QED
  BY <1>1, WalkthroughInvariance, PTL

\* An exit code of 0 means that the script was walked to its end, that every check
\* passed and that the throwaway project is deleted, unless Chrome died under a
\* call that waits for its answer.
THEOREM GreenRunsAreDone ==
  ASSUME Disciplined(Calls)
  PROVE  BrowserSpec => []GreenMeansDone
<1>1. BrowserInv => GreenMeansDone
  <2> SUFFICES ASSUME BrowserInv, phase = "exited", code = 0, ~pending
               PROVE  at > Len(Calls) /\ ~failed /\ "deletion" \in facts
    BY DEF GreenMeansDone
  <2>1. at = End /\ ~failed /\ DoneUpTo(End, facts)
    BY DEF BrowserInv, ExitFits
  <2>2. End > Len(Calls) /\ \A i \in DOMAIN Calls : i < End
    BY CallsInOrder DEF End
  <2>3. PICK i \in DOMAIN Calls : Op(i) = "click" /\ Calls[i].fact = "deletion"
    BY DEF Disciplined, EndsInDeletion, Op
  <2>4. "deletion" \in facts
    BY <2>1, <2>2, <2>3 DEF DoneUpTo
  <2>5. QED
    BY <2>1, <2>2, <2>4
<1>2. QED
  BY <1>1, WalkthroughInvariance, PTL
=============================================================================
