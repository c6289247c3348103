------------------------------ MODULE Browsing ------------------------------
(***************************************************************************)
(* tools/browser.py, tools/fetch.py and capabilities/browse_page.py: a     *)
(* sequence that JARVIS carries out on a web page, beside the commands and *)
(* posts of Effects and inside the same task engine.                       *)
(*                                                                         *)
(* He is asked once, for the whole sequence, with the address he gave; on  *)
(* the page each thing is compared with what he saw, with the address the  *)
(* page has by then.  A runner has a browser of its own, gone when the     *)
(* session ends; run starts the sequence from the top:                     *)
(*                                                                         *)
(*   open -> look -> (asking ->) touch -> look -> ... -> tell -> done      *)
(*                                                                         *)
(* What a page is made of belongs to others: what an element is, where a   *)
(* click leads and whether the page changes by itself are choices.         *)
(***************************************************************************)
EXTENDS Effects, Sequences

CONSTANT Plan      \* the steps: a sequence of "click" and "type"

MAX_STEPS == 6

ASSUME BrowsingAssumption ==
    Plan \in Seq({"click", "type"}) /\ Len(Plan) <= MAX_STEPS

VARIABLES
    tab,           \* the page before each runner
    \* history
    acts,          \* what was done to a page, links that were followed aside
    strayed        \* tasks that came to a button or a field at another address

pageVars == <<tab, acts, strayed>>
Rest == <<Fixed, task, yes, World, Past>>

\* Asked for: the address as he wrote it, which is what he sees, or another.
Address == {"asked", "other"}
NoTab == [step |-> 0, on |-> "asked", what |-> "none", turned |-> FALSE]

BrowsingInit ==
    /\ Init
    /\ tab = [r \in Runner |-> NoTab]
    /\ acts = {}
    /\ strayed = {}

-----------------------------------------------------------------------------
\* What run and the session do next, and when they are through.
Further(step) == IF step > Len(Plan) THEN "tell" ELSE "look"

Goes(r, pc, page) ==
    /\ Go(r, pc)
    /\ tab' = [tab EXCEPT ![r] = page]

\* For good: an address that check_address refuses or cannot find, nothing
\* there that reads so, no browser, a password field.  Or to be tried again.
Errors == {"refuse", "fail"}

\* The browser is closed, whatever ends the session.
Ends(r, pc) == Goes(r, pc, NoTab)

\* Session.go, after check_address: the page may lie elsewhere by the time
\* it has settled, and a browser writes addresses its own way.
Open(r) ==
    /\ At(r, "open")
    /\ \/ \E pc \in Errors : Ends(r, pc)
       \/ \E on \in Address : Goes(r, Further(1), [NoTab EXCEPT !.step = 1, !.on = on])
    /\ UNCHANGED <<Rest, events, acts, strayed>>

\* click, type_text: what the element is decides.  A link, once its address
\* has been checked, is followed; for the rest an Intent is made of the
\* step and the address of the page.
Look(r) ==
    /\ At(r, "look")
    /\ \/ \E pc \in Errors : Ends(r, pc) /\ UNCHANGED strayed
       \/ /\ Plan[tab[r].step] = "click"
          /\ Goes(r, "touch", [tab[r] EXCEPT !.what = "link"])
          /\ UNCHANGED strayed
       \/ /\ Goes(r, "asking", [tab[r] EXCEPT !.what = "control"])
          /\ strayed' = IF tab[r].on = "other"
                        THEN strayed \cup {run[r].task} ELSE strayed
    /\ UNCHANGED <<Rest, events, acts>>

\* Mutant: "merely 'a click was approved on this task'".
AnyYes(r) == yes[run[r].task] = "approved"

\* approved_exactly: the sequence he saw has this step, at this address.
ApprovedExactly(r) == yes[run[r].task] = "approved" /\ tab[r].on = "asked"

\* _must_be_approved.
MustBeApproved(r) ==
    /\ At(r, "asking")
    /\ \/ ApprovedExactly(r) /\ Go(r, "touch") /\ UNCHANGED <<tab, events, unread>>
       \/ ~ApprovedExactly(r) /\ Ends(r, "park") /\ UNCHANGED <<events, unread>>
       \/ Misses(run[r].task) /\ Ends(r, "park")
    /\ UNCHANGED <<Fixed, task, yes, World, done, out, blessed, lost, unasked,
                   past, acts, strayed>>

\* The page changes by itself between the look and the touch.
Turn(r) ==
    /\ run[r].pc \in {"asking", "touch"} /\ ~tab[r].turned /\ Event
    /\ tab' = [tab EXCEPT ![r].turned = TRUE]
    /\ UNCHANGED <<Rest, run, acts, strayed>>

\* The step is carried out, and the page read again, wherever it is now; or
\* the element is gone; or it is carried out and cannot be read.
Touch(r) ==
    LET page == tab[r]
        did == IF page.what = "link" /\ ~page.turned THEN {}
               ELSE {[task |-> run[r].task, on |-> page.on, turned |-> page.turned]} IN
    /\ At(r, "touch")
    /\ \/ /\ acts' = acts \cup did
          /\ \/ \E on \in Address :
                   Goes(r, Further(page.step + 1),
                        [NoTab EXCEPT !.step = page.step + 1, !.on = on])
             \/ Ends(r, "fail")
       \/ Ends(r, "fail") /\ UNCHANGED acts
    /\ UNCHANGED <<Rest, events, strayed>>

\* The page goes with the session, and with the process.
Closes == tab' = [r \in Runner |-> IF run'[r].pc = "idle" THEN NoTab ELSE tab[r]]

BrowsingNext ==
    \/ Next /\ Closes /\ UNCHANGED <<acts, strayed>>
    \/ \E r \in Runner :
          Open(r) \/ Look(r) \/ MustBeApproved(r) \/ Turn(r) \/ Touch(r)

BrowsingSpec == BrowsingInit /\ [][BrowsingNext]_<<vars, pageVars>>

-----------------------------------------------------------------------------
\* "A sequence he agreed to does not become permission for a step he never
\* saw" (browser.py:407): what is done to a page was approved, for that task
\* and at the address he was shown, over retries and whatever other pages
\* the steps lead to; a page that changes after the look is excepted.
NothingUnseen ==
    \A a \in acts : ~a.turned => yes[a.task] = "approved" /\ a.on = "asked"

\* What waits for the owner can be answered.  One answer is kept for a task
\* (approvals.decide), so a task that asks again once it has one waits for
\* ever: only those do that had been taken from a live runner, those that a
\* page led to a button or a field at another address than the one he was
\* shown, and those whose answer could not be read.  A post never asks
\* twice.
CanBeAnswered ==
    \A t \in Task : task[t].status = "waiting" /\ yes[t] # "none" =>
       \/ t \in lost
       \/ job[t] # "piece" /\ t \in unread
       \/ job[t] = "page" /\ t \in strayed
=============================================================================
