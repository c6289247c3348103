----------------------------- MODULE Scheduler ------------------------------
(***************************************************************************)
(* scheduler.run_due: work that happens without being asked.               *)
(*                                                                         *)
(* Several instances of the server may overlap, and the loop and the cron  *)
(* endpoint both call run_due.  A call is a pass, with a program counter:  *)
(*                                                                         *)
(*   idle -> lock -> due -> ceiling -> claim -> run -> ceiling ... -> idle *)
(*                                                                         *)
(* Time is a count of ticks, PerDay of them to a day; a schedule is due at *)
(* one tick of those days of the week it names.  What _record writes       *)
(* (last_outcome, last_workflow_id) nothing here reads, and is left out.   *)
(***************************************************************************)
EXTENDS Integers, FiniteSets, FiniteSetsExt, Functions

CONSTANTS
    Schedule,      \* rows of schedules (bound)
    Instance,      \* concurrent calls of run_due (bound)
    PerDay,        \* ticks in a day
    Week,          \* days in a week
    Horizon,       \* the last tick (bound)
    Hour,          \* Hour[s]: the tick of the day s names
    Days,          \* Days[s]: days of the week s names; {} is every day
    MaxPerDay,     \* MaxPerDay[s]: schedules.max_per_day
    Ceiling,       \* scheduler_max_runs_per_day
    Limit,         \* rows one call looks at
    MaxUpsets,     \* crashes, dropped connections, owner's calls (bound)
    NoOne

ASSUME ScheduleAssumption ==
    /\ PerDay \in Nat \ {0} /\ Week \in Nat \ {0} /\ Horizon \in Nat
    /\ Hour \in [Schedule -> 0..(PerDay - 1)]
    /\ Days \in [Schedule -> SUBSET (0..(Week - 1))]
    /\ MaxPerDay \in [Schedule -> Nat \ {0}]
    /\ Ceiling \in Nat /\ Limit \in Nat \ {0} /\ MaxUpsets \in Nat
    /\ IsFiniteSet(Schedule) /\ IsFiniteSet(Instance)
    /\ NoOne \notin Instance /\ NoOne \notin Schedule

VARIABLES
    now,           \* the tick it is
    row,           \* row[s]: the schedule's row
    stopped,       \* the emergency stop
    spent,         \* unattended work has spent its share of the month
    lock,          \* holder of the advisory lock
    pass,          \* pass[i]: a call of run_due
    upsets,
    \* history
    runs,          \* runs[s][d]: how often s was claimed on day d
    born,          \* born[s]: the tick s was created
    drops          \* sessions whose lock was lost while their call went on

schedulerVars ==
    <<now, row, stopped, spent, lock, pass, upsets, runs, born, drops>>

Never == -1        \* a date that is NULL

Day(t) == t \div PerDay
Today == Day(now)
DaysSeen == 0..Day(Horizon)

\* The moments schedule s names.
Names(s, t) == /\ t % PerDay = Hour[s]
               /\ Days[s] = {} \/ Day(t) % Week \in Days[s]

\* next_due: the first of them strictly after t.  A week and a day always
\* holds one.
NextDue(s, t) ==
    Min({u \in (t + 1)..(t + PerDay * (Week + 1)) : Names(s, u)})

Asleep == [pc |-> "idle", todo |-> {}, at |-> NoOne]
Absent == [state |-> "absent", enabled |-> FALSE, due |-> 0, runs |-> 0,
           on |-> Never]
Exists(s) == row[s].state = "row"

SchedulerInit ==
    /\ now = 0
    /\ row = [s \in Schedule |-> Absent]
    /\ stopped = FALSE /\ spent = FALSE
    /\ lock = NoOne
    /\ pass = [i \in Instance |-> Asleep]
    /\ upsets = 0 /\ drops = 0
    /\ runs = [s \in Schedule |-> [d \in DaysSeen |-> 0]]
    /\ born = [s \in Schedule |-> 0]

Upset == upsets < MaxUpsets /\ upsets' = upsets + 1

Due(s) == Exists(s) /\ row[s].enabled /\ row[s].due <= now

-----------------------------------------------------------------------------
(* The owner *)

\* create (once for each row of the model).
Create(s) ==
    /\ row[s].state = "absent"
    /\ row' = [row EXCEPT ![s] = [Absent EXCEPT !.state = "row",
                                                !.enabled = TRUE,
                                                !.due = NextDue(s, now)]]
    /\ born' = [born EXCEPT ![s] = now]
    /\ UNCHANGED <<now, stopped, spent, lock, pass, upsets, runs, drops>>

\* set_enabled: next_due_at is left as it is.
SetEnabled(s) ==
    /\ Upset /\ Exists(s)
    /\ row' = [row EXCEPT ![s].enabled = ~@]
    /\ UNCHANGED <<now, stopped, spent, lock, pass, runs, born, drops>>

\* delete, which forgets the row's runs of the day.
Delete(s) ==
    /\ Upset /\ Exists(s)
    /\ row' = [row EXCEPT ![s] = [Absent EXCEPT !.state = "deleted"]]
    /\ runs' = [runs EXCEPT ![s] = [d \in DaysSeen |-> 0]]
    /\ UNCHANGED <<now, stopped, spent, lock, pass, born, drops>>

ToggleStop ==
    /\ Upset
    /\ stopped' = ~stopped
    /\ UNCHANGED <<now, row, spent, lock, pass, runs, born, drops>>

-----------------------------------------------------------------------------
(* run_due *)

Move(i, pc, todo, at) ==
    pass' = [pass EXCEPT ![i] = [pc |-> pc, todo |-> todo, at |-> at]]

\* The stop is looked at once, at the start of the tick.
Begin(i) ==
    /\ pass[i].pc = "idle" /\ ~stopped
    /\ Move(i, "lock", {}, NoOne)
    /\ UNCHANGED <<now, row, stopped, spent, lock, upsets, runs, born, drops>>

\* pg_try_advisory_lock.
TryLock(i) ==
    /\ pass[i].pc = "lock"
    /\ IF lock = NoOne THEN lock' = i /\ Move(i, "due", {}, NoOne)
       ELSE UNCHANGED lock /\ Move(i, "idle", {}, NoOne)
    /\ UNCHANGED <<now, row, stopped, spent, upsets, runs, born, drops>>

\* The first Limit rows by next_due_at; nothing runs when the month's share
\* is spent.
ReadDue(i) ==
    LET due == {s \in Schedule : Due(s)} IN
    /\ pass[i].pc = "due"
    /\ \E batch \in SUBSET due :
          /\ Cardinality(batch) = Min({Limit, Cardinality(due)})
          /\ \A s \in batch, z \in due \ batch : row[s].due <= row[z].due
          /\ IF spent THEN Move(i, "unlock", {}, NoOne)
             ELSE Move(i, "ceiling", batch, NoOne)
    /\ UNCHANGED <<now, row, stopped, spent, lock, upsets, runs, born, drops>>

\* Mutant: CURRENT_DATE is another day for part of the day.
AtCeilingUTC ==
    LET utc == {s \in Schedule : row[s].on = Day(now + 1)} IN
    SumFunction([s \in utc |-> row[s].runs]) >= Ceiling

\* _at_daily_ceiling.
AtCeiling ==
    LET today == {s \in Schedule : row[s].on = Today} IN
    SumFunction([s \in today |-> row[s].runs]) >= Ceiling

\* The next row; the ceiling is looked at before each.
CheckCeiling(i) ==
    /\ pass[i].pc = "ceiling" /\ pass[i].todo # {}
    /\ lock = i
    /\ \E s \in pass[i].todo :
          IF AtCeiling THEN Move(i, "ceiling", pass[i].todo \ {s}, NoOne)
          ELSE Move(i, "claim", pass[i].todo \ {s}, s)
    /\ UNCHANGED <<now, row, stopped, spent, lock, upsets, runs, born, drops>>

\* The connection that took the lock is gone: the query fails, the tick ends.
CeilingFails(i) ==
    /\ pass[i].pc \in {"due", "ceiling", "unlock"} /\ lock # i
    /\ Move(i, "idle", {}, NoOne)
    /\ UNCHANGED <<now, row, stopped, spent, lock, upsets, runs, born, drops>>

\* What _claim's WHERE asks of the row as it is now.
MayClaim(s) == Due(s) /\ (row[s].on # Today \/ row[s].runs < MaxPerDay[s])

\* _claim: one UPDATE.
Claim(i) ==
    LET s == pass[i].at IN
    /\ pass[i].pc = "claim" /\ MayClaim(s)
    /\ row' = [row EXCEPT ![s].runs = IF row[s].on = Today THEN @ + 1 ELSE 1,
                          ![s].on = Today, ![s].due = NextDue(s, now)]
    /\ runs' = [runs EXCEPT ![s][Today] = @ + 1]
    /\ Move(i, "run", pass[i].todo, s)
    /\ UNCHANGED <<now, stopped, spent, lock, upsets, born, drops>>

\* Somebody else took it, or its daily cap is spent.
ClaimLost(i) ==
    /\ pass[i].pc = "claim" /\ ~MayClaim(pass[i].at)
    /\ Move(i, "ceiling", pass[i].todo, NoOne)
    /\ UNCHANGED <<now, row, stopped, spent, lock, upsets, runs, born, drops>>

\* orchestrator.run returned or raised; _record.
Ran(i) ==
    /\ pass[i].pc = "run"
    /\ Move(i, "ceiling", pass[i].todo, NoOne)
    /\ UNCHANGED <<now, row, stopped, spent, lock, upsets, runs, born, drops>>

\* Mutant: a tick with nothing to run returns before it unlocks.
UnlockIfRun(i) ==
    /\ \/ pass[i].pc = "unlock"
       \/ pass[i].pc = "ceiling" /\ pass[i].todo = {}
    /\ lock' = IF lock = i /\ pass[i].pc = "unlock" THEN NoOne ELSE lock
    /\ Move(i, "idle", {}, NoOne)
    /\ UNCHANGED <<now, row, stopped, spent, upsets, runs, born, drops>>

\* pg_advisory_unlock, on the way out.
Unlock(i) ==
    /\ \/ pass[i].pc = "unlock"
       \/ pass[i].pc = "ceiling" /\ pass[i].todo = {}
    /\ lock' = IF lock = i THEN NoOne ELSE lock
    /\ Move(i, "idle", {}, NoOne)
    /\ UNCHANGED <<now, row, stopped, spent, upsets, runs, born, drops>>

-----------------------------------------------------------------------------
(* The world *)

Tick == /\ now < Horizon
        /\ now' = now + 1
        /\ UNCHANGED <<row, stopped, spent, lock, pass, upsets, runs, born,
                       drops>>

\* The month's share is gone (budget.get_month_spend_inr).
Spend == /\ Upset /\ ~spent
         /\ spent' = TRUE
         /\ UNCHANGED <<now, row, stopped, lock, pass, runs, born, drops>>

\* The instance dies; its session's lock goes with it.
Die(i) ==
    /\ Upset /\ pass[i].pc # "idle"
    /\ Move(i, "idle", {}, NoOne)
    /\ lock' = IF lock = i THEN NoOne ELSE lock
    /\ UNCHANGED <<now, row, stopped, spent, runs, born, drops>>

\* The connection that holds the lock is dropped; the call goes on over the
\* pool's other connections until it needs this one.
Drop(i) ==
    /\ Upset /\ lock = i
    /\ lock' = NoOne
    /\ drops' = drops + 1
    /\ UNCHANGED <<now, row, stopped, spent, pass, runs, born>>

RunDue(i) ==
    \/ Begin(i) \/ TryLock(i) \/ ReadDue(i) \/ CheckCeiling(i)
    \/ CeilingFails(i) \/ Claim(i) \/ ClaimLost(i) \/ Ran(i) \/ Unlock(i)

SchedulerNext ==
    \/ \E s \in Schedule : Create(s) \/ SetEnabled(s) \/ Delete(s)
    \/ \E i \in Instance : RunDue(i) \/ Die(i) \/ Drop(i)
    \/ Tick \/ Spend \/ ToggleStop

SchedulerSpec == SchedulerInit /\ [][SchedulerNext]_schedulerVars

\* loop comes round every minute, and a call runs on.
FairSpec == SchedulerSpec /\ \A i \in Instance : WF_schedulerVars(RunDue(i))

-----------------------------------------------------------------------------
\* Whoever looks, across instances, midnights, crashes and lost connections:
\* over its life a schedule runs at most once for each moment it names, and
\* being late means running once, not catching up (run_due, _claim); at most
\* max_per_day times a day, however often it is disabled and enabled again;
\* and all of them keep to the ceiling of the owner's day, where each
\* connection dropped with the lock may cost one run (_at_daily_ceiling).
RunsBounded ==
    /\ \A s \in Schedule :
          /\ SumFunction(runs[s])
                <= Cardinality({t \in (born[s] + 1)..now : Names(s, t)})
          /\ \A d \in DaysSeen : runs[s][d] <= MaxPerDay[s]
    /\ \A d \in DaysSeen :
          SumFunction([s \in Schedule |-> runs[s][d]]) <= Ceiling + drops

\* What is due, and may run, does not wait for ever.
Waits(s) == /\ MayClaim(s) /\ ~stopped /\ ~spent /\ ~AtCeiling
DueIsServed == \A s \in Schedule : Waits(s) ~> ~Waits(s)
=============================================================================
