---------------------------- MODULE Walkthrough ----------------------------
(***************************************************************************)
(* The browser run of e2e_browser.mjs as data: which texts each screen of  *)
(* the web application shows, and the steps main() takes over them.  What  *)
(* the steps do to a browser is Browser.tla's.                             *)
(*                                                                         *)
(* A fact is something the server knows once the run has made it so; a     *)
(* notice is what a form shows after its action, until the next document.  *)
(***************************************************************************)
EXTENDS Integers, Sequences, SequencesExt

Screens == {"login", "projects", "settings", "reviews", "by_dev", "by_lead", "review",
            "later_review", "catalog", "entry"}

Facts == {"project", "member", "key", "review", "dismissal", "convention", "setup", "deletion"}

If(fact, facts, texts) == IF fact \in facts THEN texts ELSE {}

\* What innerText of a screen holds, of the texts the run waits for.  A form's
\* placeholder and the value typed into a field are not part of it.
ShownOn(screen, facts) ==
  CASE screen = "login" -> {"Sign in"}
    [] screen = "projects" -> {"Projects"} \cup If("project", facts \ If("deletion", facts, facts), {"E2E slug"})
    [] screen = "settings" -> {"Review setup", "Rule health", "Delete this project"}
                                \cup If("member", facts, {"dev@acme.com"})
    [] screen = "reviews" -> {"Every review", "Projects"}
                                \cup If("review", facts, {"e2e seeded review", "dev@acme.com"})
    [] screen = "by_dev" -> {"Reviews by dev", "All reviews", "dev@acme.com"}
                                \cup If("review", facts, {"e2e seeded review"})
    [] screen = "by_lead" -> {"Reviews by lead", "All reviews", "No reviews from lead"}
    [] screen = "review" -> {"What happened"}
    [] screen = "later_review" -> {"What happened"} \cup If("dismissal", facts, {"not counted"})
    [] screen = "catalog" -> {"Features Smith knows", "Projects"}
    [] screen = "entry" -> {"What the agent asks you"}

----------------------------------------------------------------------------
(* Steps                                                                   *)

GotoThenForget(screen) ==
  <<[op |-> "navigate", screen |-> screen], [op |-> "reset"], [op |-> "settle"]>>

\* What the last page complained of is forgotten before the next is asked for.
Goto(screen) == <<[op |-> "reset"], [op |-> "navigate", screen |-> screen], [op |-> "settle"]>>
Wait(text) == <<[op |-> "wait", text |-> text]>>
Eval == <<[op |-> "evaluate"]>>
Cli(fact) == <<[op |-> "cli", fact |-> fact]>>

\* A click ends on a screen, may make a fact and may leave a notice; a form's action runs only once the page has hydrated, a link's always.
Follow(screen) ==
  <<[op |-> "click", form |-> FALSE, screen |-> screen, fact |-> "none", notice |-> "none"]>>
Post(screen, fact, notice) ==
  <<[op |-> "click", form |-> TRUE, screen |-> screen, fact |-> fact, notice |-> notice]>>

Widths == <<390, 768, 1440>>

screenshot(width) ==
  <<[op |-> "override", width |-> width], [op |-> "evaluate"],
    [op |-> "override", width |-> width], [op |-> "capture"]>>

resetViewport == <<[op |-> "clear"]>>

captureWidths ==
  FlattenSeq([i \in 1..Len(Widths) |->
    screenshot(Widths[i]) \o <<[op |-> "overflow", width |-> Widths[i]]>>]) \o resetViewport

auditScreen == <<[op |-> "audit"]>> \o captureWidths
----------------------------------------------------------------------------
(* main(), section by section                                              *)

SignIn ==
  Goto("login") \o Wait("Sign in") \o Eval \o auditScreen
  \o Eval \o Eval \o Post("login", "none", "Invalid credentials") \o Wait("Invalid credentials")
  \o Eval \o Eval \o Post("projects", "none", "none") \o Wait("Projects") \o Eval
  \o Goto("projects") \o Wait("Projects") \o auditScreen

\* "Waiting for a fixed name would match a project left behind by an earlier run
\* and race ahead of this one being created."
CreateUnderFixedName ==
  Eval \o Eval \o Post("projects", "project", "none") \o Wait("Projects")

CreateProject ==
  Eval \o Eval \o Post("projects", "project", "none") \o Wait("E2E slug")

MembersAndKeys ==
  Goto("settings") \o Wait("Review setup") \o Eval \o auditScreen
  \o Eval \o Post("settings", "member", "none") \o Wait("dev@acme.com")
  \o Eval \o Eval \o Post("settings", "key", "copy it now") \o Wait("copy it now")

ReviewOfADeveloper ==
  Cli("review")
  \o Goto("reviews") \o Wait("e2e seeded review") \o Eval \o auditScreen
  \o Follow("by_dev") \o Wait("Reviews by dev") \o Eval
  \o Goto("by_lead") \o Wait("No reviews from lead")
  \o Follow("reviews") \o Wait("Every review") \o Eval
  \o Follow("review") \o Wait("What happened") \o Eval

Argue ==
  Cli("dismissal")
  \o Goto("review") \o Wait("What happened") \o Eval
  \o Cli("none") \o Cli("review")
  \o Goto("later_review") \o Wait("not counted") \o auditScreen \o Eval \o Eval

AdoptConvention ==
  Goto("settings") \o Wait("Review setup") \o Eval
  \o Cli("review") \o Cli("review")
  \o Goto("settings") \o Wait("Rule health") \o Eval \o Eval \o auditScreen
  \o Post("settings", "convention", "Added to your conventions.") \o Wait("Added to your conventions.")
  \o Eval \o Goto("settings") \o Wait("Review setup") \o Eval \o Cli("review")

ChangeTheSetup ==
  Goto("settings") \o Wait("Review setup") \o Eval \o Eval \o Eval
  \o Post("settings", "setup", "Saved.") \o Wait("Saved.")
  \o Goto("settings") \o Wait("Review setup") \o Eval \o Eval \o Cli("review") \o Eval

ComposeTheOverlay ==
  Eval \o Eval \o Post("settings", "setup", "Saved.") \o Wait("Saved.")
  \o Goto("settings") \o Wait("Review setup") \o Eval \o Cli("review") \o Eval

ReadTheCatalog ==
  Goto("projects") \o Wait("Projects")
  \o Follow("catalog") \o Wait("Features Smith knows") \o Eval \o Eval \o auditScreen
  \o Follow("entry") \o Wait("What the agent asks you") \o Eval \o Eval \o auditScreen

DeleteTheProject ==
  Goto("settings") \o Wait("Delete this project")
  \o Eval \o Post("settings", "none", "Type slug to confirm.") \o Wait("Type slug to confirm.") \o Eval
  \o Eval \o Post("projects", "deletion", "none") \o Wait("Projects") \o Eval

main ==
  SignIn \o CreateProject \o MembersAndKeys \o ReviewOfADeveloper \o Argue \o AdoptConvention
  \o ChangeTheSetup \o ComposeTheOverlay \o ReadTheCatalog \o DeleteTheProject
----------------------------------------------------------------------------
(* What the promises of the driver take of a script; main() keeps to it.   *)

Before(calls, i) == {j \in DOMAIN calls : j < i}

\* The last call before the i-th that is one of some.
LastOf(calls, i, ops) ==
  {j \in Before(calls, i) : calls[j].op \in ops /\ \A l \in Before(calls, i) : j < l => calls[l].op \notin ops}

\* What may be known by call i, and the texts that may be on its screen.
Known(calls, i) ==
  {calls[j].fact : j \in {l \in Before(calls, i) : calls[l].op \in {"click", "cli"}}} \ {"none"}

Notice(call) == IF call.op = "click" THEN call.notice ELSE "none"

MayShow(calls, i, text) ==
  \E j \in LastOf(calls, i, {"navigate", "click"}) :
    \/ text = Notice(calls[j])
    \/ \E facts \in SUBSET Known(calls, i) : text \in ShownOn(calls[j].screen, facts)

\* After a click the script waits for a text that cannot be there already.
ClicksAreAwaited(calls) ==
  \A i \in DOMAIN calls : calls[i].op = "click" =>
    i + 1 \in DOMAIN calls /\ calls[i + 1].op = "wait" /\ ~MayShow(calls, i, calls[i + 1].text)

\* A page is asked for as soon as its predecessor's complaints are forgotten.
VisitsBeginClean(calls) ==
  \A i \in DOMAIN calls :
    /\ calls[i].op = "reset" => i + 1 \in DOMAIN calls /\ calls[i + 1].op = "navigate"
    /\ calls[i].op = "navigate" => i - 1 \in DOMAIN calls /\ calls[i - 1].op = "reset"

\* A screen is audited at the size the window has.
AuditsAtFullSize(calls) ==
  \A i \in DOMAIN calls : calls[i].op = "audit" =>
    \A j \in LastOf(calls, i, {"override", "clear"}) : calls[j].op = "clear"

EndsInDeletion(calls) == \E i \in DOMAIN calls : calls[i].op = "click" /\ calls[i].fact = "deletion"

Disciplined(calls) ==
  ClicksAreAwaited(calls) /\ VisitsBeginClean(calls) /\ AuditsAtFullSize(calls) /\ EndsInDeletion(calls)
=============================================================================
