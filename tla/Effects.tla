------------------------------- MODULE Effects -------------------------------
(***************************************************************************)
(* computer.py, capabilities/machine.py, capabilities/publish.py,          *)
(* social/linkedin.py, routes/social.py: what JARVIS does to the world     *)
(* outside its database - a command on the owner's machine, a post on his  *)
(* profile - and the account it posts to.                                  *)
(*                                                                         *)
(* The effect comes first and its record later, and the task engine tries  *)
(* again what was not recorded.  A runner is a call of run_task:           *)
(*                                                                         *)
(*   a piece    gate -> piece -> account -> who -> post -> (older ->)      *)
(*              record -> done                                             *)
(*   a command  stop -> exactly -> spawn -> tell -> done                   *)
(*   a page     open, and from there module Browsing                       *)
(*                                                                         *)
(* and from anywhere park, fail (tried again while an attempt is left) or  *)
(* refuse (for good).  The owner's answer to a task is one step here; its  *)
(* two statements are in TaskEngine.                                       *)
(***************************************************************************)
EXTENDS Integers, FiniteSets

CONSTANTS
    Task,          \* the tasks that have an effect
    Jobs,          \* what they may be for
    Runner,        \* calls of run_task at once (bound)
    Redirect,      \* the owner's browser coming back from LinkedIn (bound)
    MaxAttempts,   \* tasks.max_attempts
    MaxEvents      \* crashes, lost answers, failures after an effect, and
                   \* decisions on the piece, the account and the policy
                   \* (bound)

ASSUME EffectsAssumption ==
    /\ Jobs \subseteq {"piece", "command", "page"} /\ "none" \notin Task
    /\ MaxAttempts \in Nat \ {0} /\ MaxEvents \in Nat

VARIABLES
    job,           \* what a task is for
    named,         \* whether its constraints name the publish permission
    task,          \* rows of tasks
    yes,           \* task_approvals of each task
    policy,        \* approvals.default_policy of publishing
    stopped,       \* the emergency stop
    piece,         \* the row of content_pieces the publishing tasks name
    account,       \* the row of social_accounts: whether it may post
    signin,        \* the row of social_oauth_states
    back,          \* where each redirect is
    run,           \* the runners
    events,
    \* history
    done,          \* how often each task had its effect
    out,           \* the packages posted, with their number
    blessed,       \* the packages the owner approved, with their number
    lost,          \* tasks with an effect that was not seen or recorded in time
    unasked,       \* tasks let past the gate by the policy
    unread,        \* tasks whose answer could not be read
    past           \* two tasks at the piece, a director after the reading

vars == <<job, named, task, yes, policy, stopped, piece, account, signin, back,
          run, events, done, out, blessed, lost, unasked, unread, past>>

Idle == [task |-> "none", pc |-> "idle", pkg |-> 0, holds |-> "none"]

Init ==
    /\ job \in [Task -> Jobs]
    /\ named \in BOOLEAN
    /\ task = [t \in Task |-> [status |-> "queued", tries |-> 0, old |-> FALSE]]
    /\ yes = [t \in Task |-> "none"]
    /\ policy \in {"ask", "auto"}
    /\ stopped = FALSE
    /\ piece = [state |-> "approved", pkg |-> 1, id |-> 0]
    /\ account \in {"none", "may"}
    /\ signin = "none" /\ back = [b \in Redirect |-> "away"]
    /\ run = [r \in Runner |-> Idle]
    /\ events = 0
    /\ done = [t \in Task |-> 0]
    /\ out = [n |-> 0, pkgs |-> {}] /\ blessed = [n |-> 1, pkgs |-> {1}]
    /\ lost = {} /\ unasked = {} /\ unread = {}
    /\ past = [together |-> FALSE, overtaken |-> FALSE]

-----------------------------------------------------------------------------
At(r, pc) == run[r].pc = pc
Go(r, pc) == run' = [run EXCEPT ![r].pc = pc]
Leave(r) == run' = [run EXCEPT ![r] = Idle]
Holding(t) == {r \in Runner : run[r].task = t}
Event == events < MaxEvents /\ events' = events + 1

World == <<policy, stopped, piece, account, signin, back>>
Past == <<done, out, blessed, lost, unasked, unread, past>>
Fixed == <<job, named>>

\* The runner has had its effect and nothing in the database says so.
Unrecorded(r) == run[r].pc \in {"record", "tell", "done"}

\* An effect nobody sees or records.
Loses(t) == Event /\ lost' = lost \cup {t}

(* The task engine around the effect *)

First(t) == CASE job[t] = "piece" -> "gate"
              [] job[t] = "command" -> "stop"
              [] job[t] = "page" -> "open"

\* Mutant: the claim does not look whether the task is running.
ClaimAny(r, t) ==
    /\ At(r, "idle") /\ task[t].status \in {"queued", "running"}
    /\ task' = [task EXCEPT ![t].status = "running", ![t].tries = @ + 1]
    /\ run' = [run EXCEPT ![r] =
                  [Idle EXCEPT !.task = t, !.pc = First(t)]]
    /\ UNCHANGED <<Fixed, yes, World, events, Past>>

\* Whoever finds it queued: advance, the tick, an approval.
Claim(r, t) ==
    /\ At(r, "idle") /\ task[t].status = "queued"
    /\ task' = [task EXCEPT ![t].status = "running", ![t].tries = @ + 1]
    /\ run' = [run EXCEPT ![r] =
                  [Idle EXCEPT !.task = t, !.pc = First(t)]]
    /\ UNCHANGED <<Fixed, yes, World, events, Past>>

\* await_approval, by id.
Park(r) ==
    /\ At(r, "park")
    /\ task' = [task EXCEPT ![run[r].task].status = "waiting"]
    /\ Leave(r)
    /\ UNCHANGED <<Fixed, yes, World, events, Past>>

\* tasks.fail, by id: terminal, or while no attempt is left.
Fail(r) ==
    /\ run[r].pc \in {"fail", "refuse"}
    /\ LET t == run[r].task IN
       task' = [task EXCEPT ![t].status =
                   IF At(r, "refuse") \/ task[t].tries >= MaxAttempts
                   THEN "failed" ELSE "queued"]
    /\ Leave(r)
    /\ UNCHANGED <<Fixed, yes, World, events, Past>>

Complete(r) ==
    /\ At(r, "done")
    /\ task' = [task EXCEPT ![run[r].task].status = "completed"]
    /\ Leave(r)
    /\ UNCHANGED <<Fixed, yes, World, events, Past>>

\* What comes after the effect fails: the record, what a model was to say of
\* it, the charge, complete.  That is an error like any other.
Slip(r) ==
    /\ Unrecorded(r) /\ Go(r, "fail") /\ Loses(run[r].task)
    /\ UNCHANGED <<Fixed, task, yes, World, done, out, blessed, unasked, unread,
                   past>>

\* Fifteen minutes since the first claim, of a task nobody is running.
Age(t) ==
    /\ ~task[t].old /\ task[t].tries > 0 /\ Holding(t) = {}
    /\ task[t].status \in {"queued", "running", "waiting"}
    /\ task' = [task EXCEPT ![t].old = TRUE]
    /\ UNCHANGED <<Fixed, yes, World, run, events, Past>>

\* recover_stuck: a task that waited counts as stuck when it runs again.
Recover(t) ==
    /\ task[t].status = "running" /\ task[t].old
    /\ task' = [task EXCEPT ![t].old = FALSE, ![t].status =
                   IF task[t].tries < MaxAttempts THEN "queued" ELSE "failed"]
    /\ lost' = IF Holding(t) = {} THEN lost ELSE lost \cup {t}
    /\ UNCHANGED <<Fixed, yes, World, run, events, done, out, blessed, unasked,
                   unread, past>>

\* The owner answers what waits: recorded once, then queued or cancelled.
Answer(t, said) ==
    /\ task[t].status = "waiting" /\ yes[t] = "none"
    /\ yes' = [yes EXCEPT ![t] = said]
    /\ task' = [task EXCEPT ![t].status =
                   IF said = "approved" THEN "queued" ELSE "cancelled"]
    /\ UNCHANGED <<Fixed, World, run, events, Past>>

Crash ==
    /\ Event /\ \E r \in Runner : ~At(r, "idle")
    /\ lost' = lost \cup {run[r].task : r \in {q \in Runner : Unrecorded(q)}}
    /\ run' = [r \in Runner |-> Idle]
    /\ back' = [b \in Redirect |-> "away"]
    /\ UNCHANGED <<Fixed, task, yes, policy, stopped, piece, account, signin,
                   done, out, blessed, unasked, unread, past>>

-----------------------------------------------------------------------------
(* A command that is not on the list: computer.run_anything *)

Stop(r) ==
    /\ At(r, "stop")
    /\ Go(r, IF stopped THEN "fail" ELSE "exactly")
    /\ UNCHANGED <<Fixed, task, yes, World, events, Past>>

\* An answer that cannot be read is none: the yes is there all the same.
Misses(t) == yes[t] = "approved" /\ Event /\ unread' = unread \cup {t}

\* approved_exactly: this task, this category, this argument vector.
Exactly(r) ==
    LET t == run[r].task IN
    /\ At(r, "exactly")
    /\ \/ /\ Go(r, IF yes[t] = "approved" THEN "spawn" ELSE "park")
          /\ UNCHANGED <<events, unread>>
       \/ Misses(t) /\ Go(r, "park")
    /\ UNCHANGED <<Fixed, task, yes, World, done, out, blessed, lost, unasked,
                   past>>

Did(t) == done' = [done EXCEPT ![t] = @ + 1]

\* _spawn: it ends by itself, it is killed after TIMEOUT, or it is not
\* there to be run.  A command that was killed is an error like another.
Spawn(r) ==
    LET t == run[r].task IN
    /\ At(r, "spawn")
    /\ \/ Did(t) /\ Go(r, "tell") /\ UNCHANGED <<events, lost>>
       \/ Did(t) /\ Go(r, "fail") /\ Loses(t)
       \/ Go(r, "fail") /\ UNCHANGED <<done, events, lost>>
    /\ UNCHANGED <<Fixed, task, yes, World, out, blessed, unasked, unread, past>>

\* run: a model explains what was seen.
Tell(r) ==
    /\ At(r, "tell") /\ Go(r, "done")
    /\ UNCHANGED <<Fixed, task, yes, World, events, Past>>

-----------------------------------------------------------------------------
(* A post: publish.run, linkedin.post *)

\* A runner at the gate goes on, or waits for him.
Passes(r, may) ==
    /\ At(r, "gate")
    /\ Go(r, IF may THEN "piece" ELSE "park")
    /\ unasked' = IF may /\ named /\ policy = "auto"
                  THEN unasked \cup {run[r].task} ELSE unasked
    /\ UNCHANGED <<Fixed, task, yes, World, events, done, out, blessed, lost,
                   unread, past>>

\* Mutant: the approval is not looked up by the task.
GateEachTime(r) == Passes(r, ~named \/ policy = "auto")

\* require_approval, for the permissions the constraints name: his yes to
\* the task, or a policy of his that such things go out unasked.
Gate(r) == Passes(r, ~named \/ yes[run[r].task] = "approved" \/ policy = "auto")

\* Past the reading of the piece and before its record.
AtPiece ==
    {r \in Runner : run[r].pc \in {"account", "who", "post", "older", "record"}}

\* Mutant: whatever state the piece is in.
AnyPiece(r) ==
    /\ At(r, "piece")
    /\ run' = [run EXCEPT ![r].pc = "account", ![r].pkg = piece.pkg]
    /\ past' = [past EXCEPT !.together = @ \/ AtPiece # {}]
    /\ UNCHANGED <<Fixed, task, yes, World, events, done, out, blessed, lost,
                   unasked, unread>>

\* _text_for: only an approved piece, and what its row holds.
ReadPiece(r) ==
    /\ At(r, "piece")
    /\ IF piece.state = "approved"
       THEN /\ run' = [run EXCEPT ![r].pc = "account", ![r].pkg = piece.pkg]
            /\ past' = [past EXCEPT !.together = @ \/ AtPiece # {}]
       ELSE Go(r, "refuse") /\ UNCHANGED past
    /\ UNCHANGED <<Fixed, task, yes, World, events, done, out, blessed, lost,
                   unasked, unread>>

\* The row with the token, and then account(), read again for the checks.
ReadAccount(r) ==
    /\ At(r, "account")
    /\ run' = [run EXCEPT ![r].holds = account,
                          ![r].pc = IF account = "none" THEN "fail" ELSE "who"]
    /\ UNCHANGED <<Fixed, task, yes, World, events, Past>>

Who(r) ==
    /\ At(r, "who")
    /\ Go(r, IF account = "cannot" THEN "fail" ELSE "post")
    /\ UNCHANGED <<Fixed, task, yes, World, events, Past>>

\* One request to LinkedIn: it takes the post and says so; or it refuses or
\* does not answer, and may have taken the post for all that.
Asks(r, here, otherwise) ==
    LET taken == /\ run[r].holds = "may"
                 /\ Did(run[r].task)
                 /\ out' = [n |-> out.n + 1, pkgs |-> out.pkgs \cup {run[r].pkg}] IN
    /\ At(r, here)
    /\ \/ taken /\ Go(r, "record") /\ UNCHANGED <<events, lost>>
       \/ /\ \E pc \in otherwise : Go(r, pc)
          /\ \/ UNCHANGED <<done, out, events, lost>>
             \/ taken /\ Loses(run[r].task)
    /\ UNCHANGED <<Fixed, task, yes, World, blessed, unasked, unread, past>>

\* Mutant: a refusal is recorded like a success.
PostHopeful(r) == Asks(r, "post", {"record"})

\* The current endpoint: any status from 400 on leads to the older one.
Post(r) == Asks(r, "post", {"older", "fail"})

\* The older endpoint.
Older(r) == Asks(r, "older", {"fail"})

\* The piece is written by id, whatever it has become.
Record(r) ==
    /\ At(r, "record")
    /\ piece' = [piece EXCEPT !.state = "published", !.id = run[r].pkg]
    /\ Go(r, "done")
    /\ UNCHANGED <<Fixed, task, yes, policy, stopped, account, signin, back,
                   events, Past>>

-----------------------------------------------------------------------------
(* The owner, and the director of Media *)

\* records.decide
Approve ==
    /\ piece.state = "ready"
    /\ piece' = [piece EXCEPT !.state = "approved"]
    /\ blessed' = [n |-> blessed.n + 1, pkgs |-> blessed.pkgs \cup {piece.pkg}]
    /\ UNCHANGED <<Fixed, task, yes, policy, stopped, account, signin, back, run,
                   events, done, out, lost, unasked, unread, past>>

\* records.settle by a director that is late: a piece made anew.
Resettle ==
    /\ Event
    /\ piece' = [piece EXCEPT !.state = "ready", !.pkg = @ + 1]
    /\ past' = [past EXCEPT !.overtaken = @ \/ AtPiece # {}]
    /\ UNCHANGED <<Fixed, task, yes, policy, stopped, account, signin, back, run,
                   done, out, blessed, lost, unasked, unread>>

SetStopped ==
    /\ Event /\ stopped' = ~stopped
    /\ UNCHANGED <<Fixed, task, yes, policy, piece, account, signin, back, run,
                   Past>>

\* The owner's row: one, set by him, where no agent reaches.
SetPolicy ==
    /\ Event /\ policy' \in {"ask", "auto"} \ {policy}
    /\ UNCHANGED <<Fixed, task, yes, stopped, piece, account, signin, back, run,
                   Past>>

\* linkedin.start: one state at a time here, and a row each in the table.
SignIn ==
    /\ Event /\ signin # "open"
    /\ signin' = "open"
    /\ UNCHANGED <<Fixed, task, yes, policy, stopped, piece, account, back, run,
                   Past>>

\* finish: the state is used by the statement that checks it.
Take(b) ==
    /\ back[b] = "away" /\ signin = "open"
    /\ signin' = "used"
    /\ back' = [back EXCEPT ![b] = "exchange"]
    /\ UNCHANGED <<Fixed, task, yes, policy, stopped, piece, account, run, events,
                   Past>>

\* LinkedIn's answer: a refusal, or an account, stored over the old one.
Exchange(b) ==
    /\ back[b] = "exchange"
    /\ back' = [back EXCEPT ![b] = "away"]
    /\ account' \in {account, "may", "cannot"}
    /\ UNCHANGED <<Fixed, task, yes, policy, stopped, piece, signin, run, events,
                   Past>>

Disconnect ==
    /\ account # "none" /\ Event
    /\ account' = "none"
    /\ UNCHANGED <<Fixed, task, yes, policy, stopped, piece, signin, back, run,
                   Past>>

Step(r) ==
    \/ Park(r) \/ Fail(r) \/ Complete(r) \/ Slip(r)
    \/ Stop(r) \/ Exactly(r) \/ Spawn(r) \/ Tell(r)
    \/ Gate(r) \/ ReadPiece(r) \/ ReadAccount(r) \/ Who(r)
    \/ Post(r) \/ Older(r) \/ Record(r)

Next ==
    \/ \E r \in Runner : Step(r) \/ \E t \in Task : Claim(r, t)
    \/ \E t \in Task : Age(t) \/ Recover(t)
    \/ \E t \in Task, said \in {"approved", "rejected"} : Answer(t, said)
    \/ Crash \/ Approve \/ Resettle \/ SetStopped \/ SetPolicy
    \/ SignIn \/ Disconnect
    \/ \E b \in Redirect : Take(b) \/ Exchange(b)

Spec == Init /\ [][Next]_vars

-----------------------------------------------------------------------------
\* Nothing is run or posted without the owner: a command after his yes to
\* that task, a post only of a package he approved, and after his yes to the
\* task where its constraints name the permission, unless the policy of his
\* that lets such a post go unasked stood when it came to the gate - over
\* retries, stuck tasks taken up again and pieces made anew.
OnlyWhatHeApproved ==
    /\ out.pkgs \subseteq blessed.pkgs
    /\ \A t \in Task : done[t] > 0 /\ (job[t] = "command" \/ (named /\ t \notin unasked))
                          => yes[t] = "approved"

\* One yes, one effect.  A command runs again only when it was killed, when
\* nobody could tell or record what it said, after a crash, or when
\* recover_stuck took the task from a live runner; a piece goes out at most
\* as often as he approved it, but for the same reasons, for a post that
\* LinkedIn took and answered with an error or not at all - which sends the
\* second request of the same attempt, or the next attempt, after it - and
\* for two tasks that took the piece up together.
OncePerYes ==
    /\ \A t \in Task : job[t] = "command" /\ done[t] > 1 => t \in lost
    /\ out.n > blessed.n => (lost # {} \/ past.together)

\* What the record calls published is what went out, unless a director made
\* the piece anew between the reading and the record.
PublishedIsOut ==
    /\ piece.id # 0 => piece.id \in out.pkgs
    /\ (piece.state = "published" /\ ~past.overtaken) => piece.pkg \in out.pkgs

\* A task that failed or was cancelled has done nothing, unless its effect
\* was lost sight of.
FailedDidNothing ==
    \A t \in Task : task[t].status \in {"failed", "cancelled"} /\ done[t] > 0
                       => t \in lost

\* What the database tells of effects is true.
RecordsAreTrue == PublishedIsOut /\ FailedDidNothing
=============================================================================
