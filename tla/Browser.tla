------------------------------ MODULE Browser ------------------------------
(***************************************************************************)
(* A Chrome driven over its debugging socket (cdp.mjs) through the steps   *)
(* of Walkthrough.tla.  The script awaits one call at a time; Chrome       *)
(* answers it, and tells of the page's complaints, over one ordered wire.  *)
(***************************************************************************)
EXTENDS Integers, Walkthrough

CONSTANTS
  Calls,     \* the steps of the script: main of Walkthrough
  MaxMisses  \* probes a waitFor makes before its deadline

ASSUME BrowserAssumption ==
  /\ Len(Calls) \in Nat \ {0} /\ DOMAIN Calls = 1..Len(Calls)
  /\ MaxMisses \in Nat \ {0}

VARIABLES
  at,        \* index in Calls of the call the script is at
  pending,   \* the call is sent and not answered
  misses,    \* probes of the current waitFor that found nothing
  recorded,  \* documents whose complaints are in `recorded`
  failed,    \* a check has failed
  phase,     \* "launch", "run", "close" (the finally), "exited"
  threw,     \* an error is on its way out of main
  code,      \* the exit code
  chrome,    \* "up" or "dead"
  wire,      \* what Chrome has sent and the script has not handled
  page,      \* the document in the tab
  effect,    \* the last click that has not shown its result yet
  facts      \* what the server knows

driver == <<at, pending, misses, recorded, failed, phase, threw, code>>
browserVars == <<at, pending, misses, recorded, failed, phase, threw, code, chrome, wire, page, effect, facts>>

NoEffect == [how |-> "none", call |-> 1]
Call == Calls[at]
Blank == [doc |-> 0, visit |-> 0, screen |-> "none", texts |-> {}, notice |-> "none", hydrated |-> FALSE,
          complained |-> FALSE, width |-> 0]

BrowserInit ==
  /\ at = 1 /\ pending = FALSE /\ misses = 0 /\ recorded = {} /\ failed = FALSE
  /\ phase = "launch" /\ threw = FALSE /\ code = 0
  /\ chrome = "up" /\ wire = <<>> /\ page = Blank /\ effect = NoEffect /\ facts = {}
----------------------------------------------------------------------------
(* The driver                                                              *)

\* Chrome exposes its target and the socket opens, or launch throws: before the
\* try, and before there is a close to call.
launch ==
  /\ phase = "launch"
  /\ \/ phase' = "run" /\ UNCHANGED <<threw, code>>
     \/ phase' = "exited" /\ threw' = TRUE /\ code' = 1
  /\ UNCHANGED <<at, pending, misses, recorded, failed, chrome, wire, page, effect, facts>>

Throw ==
  /\ threw' = TRUE /\ phase' = "close" /\ pending' = FALSE
  /\ UNCHANGED <<at, misses, recorded, failed, code>>

LastCall == at = Len(Calls)

Advance ==
  /\ at' = at + 1 /\ pending' = FALSE /\ misses' = 0
  /\ phase' = IF LastCall THEN "close" ELSE phase
  /\ UNCHANGED <<threw, code>>

Passes == failed' = failed
Checks == failed' \in {failed, TRUE}

Local == {"reset", "cli"}

\* goto empties what was recorded, then asks for the page.
reset ==
  /\ phase = "run" /\ Call.op = "reset"
  /\ Advance /\ Passes
  /\ recorded' = {}
  /\ UNCHANGED <<chrome, wire, page, effect, facts>>

\* The plugin's CLI, and what a check makes of its answer; a blocking verdict is
\* an answer, anything else that fails is thrown.
smithCli ==
  /\ phase = "run" /\ Call.op = "cli"
  /\ \/ /\ Advance /\ Checks
        /\ facts' = facts \cup ({Call.fact} \ {"none"})
        /\ UNCHANGED recorded
     \/ Throw /\ UNCHANGED facts
  /\ UNCHANGED <<chrome, wire, page, effect>>

\* A send on a socket that is closed is dropped without a word.
send ==
  /\ phase = "run" /\ Call.op \notin Local /\ ~pending
  /\ pending' = TRUE
  /\ UNCHANGED <<at, misses, recorded, failed, phase, threw, code, chrome, wire, page, effect, facts>>

\* The loop of waitFor asks the clock before each probe.
NeverExpired == FALSE
Expired == misses = MaxMisses

\* A probe that found nothing, or threw, is followed by another until the deadline.
Miss ==
  IF Expired THEN Throw
  ELSE /\ misses' = (IF misses < MaxMisses THEN misses + 1 ELSE misses) /\ pending' = FALSE
       /\ UNCHANGED <<at, recorded, failed, phase, threw, code>>

Waits == {"wait", "settle"}

waitFor(reply) ==
  IF reply.ok /\ (Call.op = "settle" \/ Call.text \in reply.texts)
    THEN Advance /\ Passes /\ UNCHANGED recorded
    ELSE Miss

\* The answer of the one call that is waiting; a check may not like it.
settle(reply) ==
  CASE Call.op \in Waits -> waitFor(reply)
    [] Call.op \notin Waits /\ reply.ok ->
         Advance /\ UNCHANGED recorded
         /\ IF Call.op \in {"audit", "evaluate", "overflow"} THEN Checks ELSE Passes
    [] OTHER -> Throw

observe(event) ==
  /\ recorded' = recorded \cup {event.doc}
  /\ UNCHANGED <<at, pending, misses, failed, phase, threw, code>>

\* The message handler: an event is recorded, an answer settles its waiter.
onMessage ==
  /\ phase = "run" /\ wire # <<>>
  /\ wire' = Tail(wire)
  /\ IF Head(wire).kind = "event" THEN observe(Head(wire)) ELSE settle(Head(wire))
  /\ UNCHANGED <<chrome, page, effect, facts>>

\* Whatever the body did: the browser is closed, the project is asked away, and
\* the process exits with what it found.
ExitCodeOfErrors == IF threw THEN 1 ELSE 0
ExitCode == IF threw \/ failed THEN 1 ELSE 0

close ==
  /\ phase = "close"
  /\ phase' = "exited" /\ code' = ExitCode
  /\ chrome' = "dead" /\ wire' = <<>> /\ effect' = NoEffect
  /\ facts' \in {facts, facts \cup {"deletion"}}
  /\ UNCHANGED <<at, pending, misses, recorded, failed, threw, page>>

\* Nothing left to wait for: node ends without the finally, with code 0.
EventLoopEmpty ==
  /\ phase = "run" /\ pending /\ chrome = "dead" /\ wire = <<>>
  /\ phase' = "exited" /\ code' = 0
  /\ UNCHANGED <<at, pending, misses, recorded, failed, threw, chrome, wire, page, effect, facts>>
----------------------------------------------------------------------------
(* Chrome and the web application                                          *)

Alive == chrome = "up" /\ phase = "run"
Asked == pending /\ \A i \in DOMAIN wire : wire[i].kind # "reply"

Shown == IF page.texts = {} THEN {} ELSE page.texts \cup ({page.notice} \ {"none"})

Say(message) == wire' = Append(wire, message)
Reply(ok) ==
  Say([kind |-> "reply", ok |-> ok, texts |-> Shown, doc |-> page.doc, visit |-> page.visit,
       complained |-> page.complained])

\* A new document in the tab, still empty.
Opened(screen, notice, visit) ==
  page' = [Blank EXCEPT !.doc = page.doc + 1, !.visit = visit, !.screen = screen,
                        !.notice = notice, !.width = page.width]

\* Page.navigate is answered when the new document has replaced the old one.
Navigate ==
  /\ Asked /\ Call.op = "navigate"
  /\ Opened(Call.screen, "none", page.doc + 1)
  /\ effect' = NoEffect
  /\ Reply(TRUE)

\* setDeviceMetricsOverride and clearDeviceMetricsOverride; 0 is the window's own size.
Resize ==
  /\ Asked /\ Call.op \in {"override", "clear"}
  /\ page' = [page EXCEPT !.width = IF Call.op = "clear" THEN 0 ELSE Call.width]
  /\ UNCHANGED effect
  /\ Reply(TRUE)

\* An expression evaluated in the page, or a screenshot of it; it may throw.
\* The audit's waits until the document is loaded, idle and drawn.
Answer ==
  /\ Asked /\ Call.op \in {"evaluate", "settle", "wait", "capture", "overflow", "audit"}
  /\ Call.op = "audit" => page.texts # {} /\ page.hydrated
  /\ UNCHANGED <<page, effect>>
  /\ \E ok \in BOOLEAN : Reply(ok)

\* A click on an element that is there.  Before React has taken the page over, a
\* form submits natively and its action may never run, and a link is followed by
\* loading a document.
Click ==
  /\ Asked /\ Call.op = "click"
  /\ UNCHANGED page
  /\ \/ Reply(FALSE) /\ UNCHANGED effect
     \/ /\ Reply(TRUE)
        /\ \E how \in CASE page.hydrated -> {"in place"}
                       [] ~page.hydrated /\ Call.form -> {"load", "lost"}
                       [] OTHER -> {"load"} :
             effect' = [how |-> how, call |-> at]

\* The action runs on the server, and the screen follows.
Land ==
  /\ effect.how \in {"in place", "load"}
  /\ LET click == Calls[effect.call] IN
       /\ facts' = facts \cup ({click.fact} \ {"none"})
       /\ IF effect.how = "load" THEN Opened(click.screen, click.notice, page.visit)
          ELSE page' = [page EXCEPT !.screen = click.screen, !.notice = click.notice,
                                    !.texts = ShownOn(click.screen, facts')]
  /\ effect' = NoEffect
  /\ UNCHANGED wire

\* The document arrives, then React takes it over.
Render ==
  /\ page.doc > 0 /\ page.texts = {}
  /\ page' = [page EXCEPT !.texts = ShownOn(page.screen, facts)]
  /\ UNCHANGED <<wire, effect>>

Hydrate ==
  /\ page.texts # {} /\ ~page.hydrated
  /\ page' = [page EXCEPT !.hydrated = TRUE]
  /\ UNCHANGED <<wire, effect>>

\* The console, the log or a failed request of the current document.
Complain ==
  /\ page.doc > 0 /\ ~page.complained
  /\ page' = [page EXCEPT !.complained = TRUE]
  /\ Say([kind |-> "event", doc |-> page.doc])
  /\ UNCHANGED effect

Chrome ==
  /\ Alive
  /\ \/ (Navigate \/ Resize \/ Answer \/ Click \/ Render \/ Hydrate \/ Complain) /\ UNCHANGED facts
     \/ Land
  /\ UNCHANGED <<driver, chrome>>

\* Chrome crashes or is closed by hand.
ChromeDies ==
  /\ Alive
  /\ chrome' = "dead"
  /\ UNCHANGED <<driver, wire, page, effect, facts>>

Done == phase = "exited" /\ UNCHANGED browserVars

Driver == launch \/ reset \/ smithCli \/ send \/ onMessage \/ close \/ EventLoopEmpty

BrowserNext == Driver \/ Chrome \/ ChromeDies \/ Done

\* node runs the script on, and a living Chrome answers what it is asked and goes
\* on loading its page; it need not complain, die, or run a form's action.
Progress == Alive /\ (Navigate \/ Resize \/ Answer \/ Click \/ Render \/ Hydrate)
              /\ UNCHANGED <<driver, chrome, facts>>

BrowserSpec == BrowserInit /\ [][BrowserNext]_browserVars
FairBrowserSpec == BrowserSpec /\ WF_browserVars(Driver) /\ WF_browserVars(Progress)
----------------------------------------------------------------------------
\* Where the script, the browser and the page can be.
BrowserTypeOK ==
  /\ at \in 1..(Len(Calls) + 1) /\ (phase = "run" => at <= Len(Calls)) /\ misses \in 0..MaxMisses
  /\ recorded \subseteq 1..page.doc
  /\ phase \in {"launch", "run", "close", "exited"} /\ chrome \in {"up", "dead"} /\ code \in {0, 1}
  /\ page.screen \in Screens \cup {"none"} /\ facts \subseteq Facts
  /\ Len(SelectSeq(wire, LAMBDA m : m.kind = "reply")) <= 1

\* "The only synchronisation this app needs" (cdp.mjs:191): no text a step waits
\* for was on the screen before the click it waits on, so the run never reads a
\* screen, asks the plugin or leaves a page while an action is still on its way.
WaitsSynchronise ==
  phase = "run" /\ effect # NoEffect => Call.op \in {"click", "wait"}

\* "Everything the current visit did wrong": what a document complained of before
\* it answered the audit is in the audit, nothing of an earlier visit is in it,
\* except what the page before said while it was being replaced, and the page is
\* "back to whatever size Chrome was launched with" after its photographs.
AuditIsComplete ==
  phase = "run" /\ Call.op = "audit" /\ wire # <<>> /\ Head(wire).kind = "reply" =>
    /\ page.width = 0
    /\ Head(wire).complained => Head(wire).doc \in recorded
    /\ \A doc \in recorded : doc >= Head(wire).visit - 1

\* A run that exits with 0 took every step, had every check pass and saw its
\* project deleted, unless Chrome died under a call that waits for its answer.
GreenMeansDone ==
  phase = "exited" /\ code = 0 /\ ~pending =>
    at > Len(Calls) /\ ~failed /\ "deletion" \in facts

\* Every wait has a deadline, and a dead Chrome empties the event loop: a run ends.
RunEnds == <>(phase = "exited")
=============================================================================
