------------------------------ MODULE Sidecars ------------------------------
(***************************************************************************)
(* Sidecars: other machines of the owner, which pair with a code, ask for  *)
(* jobs and report what came of them.                                      *)
(*                                                                         *)
(* The server's calls are several statements long, and each statement      *)
(* commits on its own; a call is a record with a program counter:          *)
(*                                                                         *)
(*   redeem[r]    sidecars.redeem_pairing, called by a machine             *)
(*   owner        set_status and pair_this_browser, from the dashboard     *)
(*   caller       whoever calls sidecars.queue with a Sidecar it read      *)
(*   poll[p]      one copy of the sidecar program: its poll at the server, *)
(*                then the jobs it was handed, run and reported one by one *)
(***************************************************************************)
EXTENDS Integers, FiniteSets

CONSTANTS
    Name,          \* names the owner gives machines
    Sidecar,       \* rows of sidecars (bound); a row's id is its token
    Code,          \* pairing codes (bound)
    Job,           \* rows of sidecar_jobs (bound)
    Redeemer,      \* concurrent calls of redeem_pairing (bound)
    Poller,        \* running copies of the sidecar program (bound)
    Capability,    \* CAPABILITIES
    NativeCan,     \* KIND_CAN_DO["native"]
    BrowserCan,    \* KIND_CAN_DO["browser"]
    AlwaysAsk,     \* ALWAYS_ASK
    Grants,        \* sets of capabilities the owner may choose (bound)
    Limit,         \* jobs handed out by one poll
    MaxUpsets,     \* changes of mind, time-outs, losses and crashes (bound)
    None           \* no code, no name

ASSUME CapabilityAssumption ==
    /\ NativeCan \subseteq Capability /\ BrowserCan \subseteq Capability
    /\ AlwaysAsk \subseteq Capability
    /\ Grants \subseteq (SUBSET Capability) \ {{}}
    /\ Limit \in Nat \ {0} /\ MaxUpsets \in Nat
    /\ None \notin Code /\ None \notin Sidecar /\ None \notin Job

VARIABLES
    codes,         \* sidecar_pairings
    sidecars,      \* sidecars
    jobs,          \* sidecar_jobs
    stopped,       \* the emergency stop
    redeem, owner, caller, poll,
    upsets,        \* how many upsets there have been
    \* history
    yes,           \* jobs the owner was asked about and approved
    ran,           \* ran[j]: how often j's handler was started
    late,          \* jobs queued on a reading of the sidecar that was stale
    stood          \* sidecars a set_status stood down, to its last statement

history == <<yes, ran, late, stood>>
calls == <<redeem, owner, caller, poll>>
vars == <<codes, sidecars, jobs, stopped, calls, upsets, history>>

\* Something the normal course of things does not have.
Upset == upsets < MaxUpsets /\ upsets' = upsets + 1

Kind == {"native", "browser"}
CanDo(kind) == IF kind = "native" THEN NativeCan ELSE BrowserCan
Open == {"queued", "sent"}

Idle == [pc |-> "idle"]
NoCode == [state |-> "none", old |-> FALSE, name |-> None, kind |-> "native",
           granted |-> {}]
NoSidecar == [status |-> "absent", name |-> None, kind |-> "native",
              granted |-> {}, from |-> None]
NoJob == [status |-> "absent", sidecar |-> None, capability |-> None,
          ask |-> FALSE, old |-> FALSE]

Init ==
    /\ codes = [c \in Code |-> NoCode]
    /\ sidecars = [s \in Sidecar |-> NoSidecar]
    /\ jobs = [j \in Job |-> NoJob]
    /\ stopped = FALSE
    /\ redeem = [r \in Redeemer |-> Idle]
    /\ owner = Idle
    /\ caller = Idle
    /\ poll = [p \in Poller |-> Idle]
    /\ upsets = 0
    /\ yes = {} /\ late = {} /\ stood = {}
    /\ ran = [j \in Job |-> 0]

\* Rows with a name, and the one of them that is not history.
Named(n) == {s \in Sidecar : /\ sidecars[s].status # "absent"
                            /\ sidecars[s].name = n}
Live(n) == {s \in Named(n) : sidecars[s].status # "revoked"}

-----------------------------------------------------------------------------
(* Pairing *)

\* sidecars.offer_pairing.  Nobody knows the code before the call returns, so
\* its SELECT and its INSERT are one step.
Offer(c, n, kind, granted) ==
    /\ ~stopped
    /\ codes[c].state = "none"
    /\ granted \subseteq CanDo(kind)
    /\ Live(n) = {}
    /\ codes' = [codes EXCEPT ![c] = [state |-> "fresh", old |-> FALSE,
                                      name |-> n, kind |-> kind,
                                      granted |-> granted]]
    /\ UNCHANGED <<upsets, sidecars, jobs, stopped, calls, history>>

\* redeem_pairing, the SELECT: unused and not older than fifteen minutes.
RedeemRead(r, c) ==
    /\ redeem[r].pc = "idle"
    /\ codes[c].state = "fresh" /\ ~codes[c].old
    /\ redeem' = [redeem EXCEPT ![r] = [pc |-> "insert", code |-> c]]
    /\ UNCHANGED <<upsets, codes, sidecars, jobs, stopped, owner, caller,
                   poll, history>>

\* Mutant: names are unique only by what offer_pairing looked up.
InsertAnyway(s, n, kind, granted, from) ==
    /\ sidecars[s].status = "absent"
    /\ sidecars' = [sidecars EXCEPT ![s] =
                      [status |-> "active", name |-> n, kind |-> kind,
                       granted |-> granted, from |-> from]]

\* A row for s, if the unique index on the names of live rows lets it in.
Insert(s, n, kind, granted, from) ==
    /\ sidecars[s].status = "absent"
    /\ Live(n) = {}
    /\ sidecars' = [sidecars EXCEPT ![s] =
                      [status |-> "active", name |-> n, kind |-> kind,
                       granted |-> granted, from |-> from]]

\* The INSERT of the sidecar, with what the owner chose.
RedeemInsert(r) ==
    LET c == redeem[r].code IN
    /\ redeem[r].pc = "insert"
    /\ \E s \in Sidecar : Insert(s, codes[c].name, codes[c].kind,
                                 codes[c].granted, c)
    /\ redeem' = [redeem EXCEPT ![r].pc = "mark"]
    /\ UNCHANGED <<upsets, codes, jobs, stopped, owner, caller, poll, history>>

\* The index refuses a second live row of that name: the call fails.
RedeemRefused(r) ==
    /\ redeem[r].pc = "insert"
    /\ Live(codes[redeem[r].code].name) # {}
    /\ redeem' = [redeem EXCEPT ![r] = Idle]
    /\ UNCHANGED <<upsets, codes, sidecars, jobs, stopped, owner, caller,
                   poll, history>>

\* The UPDATE that marks the code used; the token goes out.
RedeemMark(r) ==
    /\ redeem[r].pc = "mark"
    /\ codes' = [codes EXCEPT ![redeem[r].code].state = "used"]
    /\ redeem' = [redeem EXCEPT ![r] = Idle]
    /\ UNCHANGED <<upsets, sidecars, jobs, stopped, owner, caller, poll,
                   history>>

\* pair_this_browser, first statement: the same device's last pairing goes.
BrowserRevoke(n, granted) ==
    /\ Upset
    /\ owner.pc = "idle" /\ ~stopped
    /\ granted \subseteq BrowserCan
    /\ sidecars' = [s \in Sidecar |->
                      IF s \in Live(n) /\ sidecars[s].kind = "browser"
                      THEN [sidecars[s] EXCEPT !.status = "revoked"]
                      ELSE sidecars[s]]
    /\ owner' = [pc |-> "insert", name |-> n, granted |-> granted]
    /\ stood' = {s \in stood : sidecars'[s] = sidecars[s]}
    /\ UNCHANGED <<codes, jobs, stopped, redeem, caller, poll, yes, ran, late>>

\* Second statement; the index may refuse it.
BrowserInsert ==
    /\ owner.pc = "insert"
    /\ \/ \E s \in Sidecar :
             Insert(s, owner.name, "browser", owner.granted, None)
       \/ Live(owner.name) # {} /\ UNCHANGED sidecars
    /\ owner' = Idle
    /\ UNCHANGED <<upsets, codes, jobs, stopped, redeem, caller, poll,
                   history>>

-----------------------------------------------------------------------------
(* The owner's controls *)

\* set_status, first statement.  No live row of that name: not found.
SetStatus(n, status) ==
    /\ Upset
    /\ owner.pc = "idle"
    /\ Live(n) # {}
    /\ sidecars' = [s \in Sidecar |->
                      IF s \in Live(n)
                      THEN [sidecars[s] EXCEPT !.status = status]
                      ELSE sidecars[s]]
    /\ owner' = IF status = "active" THEN Idle
                ELSE [pc |-> "cancel", name |-> n, target |-> Live(n)]
    /\ stood' = stood \ Live(n)
    /\ UNCHANGED <<codes, jobs, stopped, redeem, caller, poll, yes, ran, late>>

\* Mutant: what was handed out already is left alone.
CancelQueued ==
    /\ owner.pc = "cancel"
    /\ jobs' = [j \in Job |->
                  IF /\ jobs[j].status = "queued"
                     /\ Named(owner.name) = {jobs[j].sidecar}
                  THEN [jobs[j] EXCEPT !.status = "cancelled"] ELSE jobs[j]]
    /\ owner' = Idle
    /\ stood' = stood \cup owner.target
    /\ UNCHANGED <<upsets, codes, sidecars, stopped, redeem, caller, poll,
                   yes, ran, late>>

\* Second statement.  Its subquery selects every row of that name, and it
\* fails when there are several.
CancelJobs ==
    /\ owner.pc = "cancel"
    /\ jobs' = [j \in Job |->
                  IF /\ jobs[j].status \in Open
                     /\ Named(owner.name) = {jobs[j].sidecar}
                  THEN [jobs[j] EXCEPT !.status = "cancelled"] ELSE jobs[j]]
    /\ owner' = Idle
    /\ stood' = stood \cup owner.target
    /\ UNCHANGED <<upsets, codes, sidecars, stopped, redeem, caller, poll,
                   yes, ran, late>>

\* approve: one waiting job.
Approve(j) ==
    /\ ~stopped
    /\ jobs[j].status = "queued" /\ jobs[j].ask
    /\ jobs' = [jobs EXCEPT ![j].ask = FALSE]
    /\ yes' = yes \cup {j}
    /\ UNCHANGED <<upsets, codes, sidecars, stopped, calls, ran, late, stood>>

ToggleStop ==
    /\ Upset
    /\ stopped' = ~stopped
    /\ UNCHANGED <<codes, sidecars, jobs, calls, history>>

-----------------------------------------------------------------------------
(* Queueing *)

\* The caller reads the sidecar's row.
QueueRead(s) ==
    /\ caller.pc = "idle" /\ \E j \in Job : jobs[j].status = "absent"
    /\ sidecars[s].status # "absent"
    /\ caller' = [pc |-> "queue", id |-> s, row |-> sidecars[s]]
    /\ UNCHANGED <<upsets, codes, sidecars, jobs, stopped, redeem, owner,
                   poll, history>>

\* may_run, on the row as it was read, for an agent that holds the permission.
MayRun(row, capability) ==
    /\ row.status = "active"
    /\ capability \in CanDo(row.kind)
    /\ capability \in row.granted

\* needs_approval, unless the caller says the owner already approved.
Asks(capability, approved) == capability \in AlwaysAsk /\ ~approved

\* queue: refused, or one row.
Queue(j, capability, approved) ==
    /\ caller.pc = "queue"
    /\ MayRun(caller.row, capability)
    /\ jobs[j].status = "absent"
    /\ jobs' = [jobs EXCEPT ![j] =
                  [status |-> "queued", sidecar |-> caller.id,
                   capability |-> capability,
                   ask |-> Asks(capability, approved), old |-> FALSE]]
    /\ caller' = Idle
    /\ yes' = IF approved THEN yes \cup {j} ELSE yes
    /\ late' = IF sidecars[caller.id].status = "active"
               THEN late ELSE late \cup {j}
    /\ UNCHANGED <<upsets, codes, sidecars, stopped, redeem, owner, poll, ran,
                   stood>>

QueueRefused ==
    /\ caller.pc = "queue"
    /\ \E capability \in Capability : ~MayRun(caller.row, capability)
    /\ caller' = Idle
    /\ UNCHANGED <<upsets, codes, sidecars, jobs, stopped, redeem, owner,
                   poll, history>>

-----------------------------------------------------------------------------
(* The machine's poll, and its jobs *)

\* authenticate: the row as of now, unless revoked.
Authenticate(p, s) ==
    /\ poll[p].pc = "idle"
    /\ sidecars[s].status \in {"active", "paused"}
    /\ poll' = [poll EXCEPT ![p] = [pc |-> "stop", id |-> s,
                                    status |-> sidecars[s].status]]
    /\ UNCHANGED <<upsets, codes, sidecars, jobs, stopped, redeem, owner,
                   caller, history>>

\* The emergency stop and the status it authenticated with.
CheckStop(p) ==
    /\ poll[p].pc = "stop"
    /\ poll' = [poll EXCEPT ![p] =
                  IF stopped \/ poll[p].status # "active" THEN Idle
                  ELSE [pc |-> "sweep", id |-> poll[p].id]]
    /\ UNCHANGED <<upsets, codes, sidecars, jobs, stopped, redeem, owner,
                   caller, history>>

\* expire_old, over every machine's jobs.
Sweep(p) ==
    /\ poll[p].pc = "sweep"
    /\ jobs' = [j \in Job |->
                  IF jobs[j].status \in Open /\ jobs[j].old
                  THEN [jobs[j] EXCEPT !.status = "expired"] ELSE jobs[j]]
    /\ poll' = [poll EXCEPT ![p].pc = "take"]
    /\ UNCHANGED <<upsets, codes, sidecars, stopped, redeem, owner, caller,
                   history>>

\* Mutant: the claim does not look at the status.
ReadyAgain(s) ==
    {j \in Job : /\ jobs[j].status \in Open /\ jobs[j].sidecar = s
                 /\ ~jobs[j].ask /\ ~jobs[j].old}

\* What next_jobs may hand to s.
Ready(s) ==
    {j \in Job : /\ jobs[j].status = "queued" /\ jobs[j].sidecar = s
                 /\ ~jobs[j].ask /\ ~jobs[j].old}

\* next_jobs: selected and marked in one statement.
Take(p) ==
    /\ poll[p].pc = "take"
    /\ \E batch \in SUBSET Ready(poll[p].id) :
          /\ Cardinality(batch) <= Limit
          /\ batch = Ready(poll[p].id) \/ Cardinality(batch) = Limit
          /\ jobs' = [j \in Job |->
                        IF j \in batch
                        THEN [jobs[j] EXCEPT !.status = "sent"] ELSE jobs[j]]
          /\ poll' = [poll EXCEPT ![p] =
                        IF batch = {} THEN Idle
                        ELSE [pc |-> "run", id |-> poll[p].id, batch |-> batch]]
    /\ UNCHANGED <<upsets, codes, sidecars, stopped, redeem, owner, caller,
                   history>>

\* The sidecar program's run_one: only what it was paired with, and the
\* handler may fail.
RunOne(p, j) ==
    LET granted == sidecars[poll[p].id].granted IN
    /\ poll[p].pc = "run" /\ j \in poll[p].batch
    /\ ran' = IF jobs[j].capability \in granted
              THEN [ran EXCEPT ![j] = @ + 1] ELSE ran
    /\ \E ok \in (IF jobs[j].capability \in granted THEN BOOLEAN ELSE {FALSE}) :
          poll' = [poll EXCEPT ![p] = [pc |-> "report", id |-> @.id,
                      batch |-> @.batch \ {j}, job |-> j, ok |-> ok]]
    /\ UNCHANGED <<upsets, codes, sidecars, jobs, stopped, redeem, owner,
                   caller, yes,
                   late, stood>>

\* The next job of what was handed out, if there is one.
Onward(p) == IF poll[p].batch = {} THEN Idle
             ELSE [pc |-> "run", id |-> poll[p].id, batch |-> poll[p].batch]

\* The token still authenticates.
Known(p) == sidecars[poll[p].id].status # "revoked"

\* The report: authenticated like a poll, and finish takes it only for a job
\* that is still out.
Report(p) ==
    LET j == poll[p].job IN
    /\ poll[p].pc = "report"
    /\ jobs' = IF Known(p) /\ jobs[j].status = "sent"
               THEN [jobs EXCEPT ![j].status =
                       IF poll[p].ok THEN "done" ELSE "failed"]
               ELSE jobs
    /\ poll' = [poll EXCEPT ![p] = Onward(p)]
    /\ UNCHANGED <<upsets, codes, sidecars, stopped, redeem, owner, caller,
                   history>>

-----------------------------------------------------------------------------
(* The world *)

\* A job's ten minutes, or a code's fifteen, are over.
JobAges(j) ==
    /\ Upset
    /\ jobs[j].status \in Open /\ ~jobs[j].old
    /\ jobs' = [jobs EXCEPT ![j].old = TRUE]
    /\ UNCHANGED <<codes, sidecars, stopped, calls, history>>

CodeAges(c) ==
    /\ Upset
    /\ codes[c].state = "fresh" /\ ~codes[c].old
    /\ codes' = [codes EXCEPT ![c].old = TRUE]
    /\ UNCHANGED <<sidecars, jobs, stopped, calls, history>>

\* An answer or a report is lost, or the program on the machine is restarted.
MachineLost(p) ==
    /\ Upset
    /\ poll[p].pc # "idle"
    /\ poll' = [poll EXCEPT ![p] = Idle]
    /\ UNCHANGED <<codes, sidecars, jobs, stopped, redeem, owner, caller,
                   history>>

\* The server dies: its calls are gone, what the machines hold is not.
Crash ==
    /\ Upset
    /\ redeem' = [r \in Redeemer |-> Idle]
    /\ owner' = Idle /\ caller' = Idle
    /\ poll' = [p \in Poller |-> IF poll[p].pc \in {"run", "report"}
                                 THEN poll[p] ELSE Idle]
    /\ UNCHANGED <<codes, sidecars, jobs, stopped, history>>

-----------------------------------------------------------------------------
Pairing ==
    \/ \E c \in Code, n \in Name, kind \in Kind, granted \in Grants :
          Offer(c, n, kind, granted)
    \/ \E r \in Redeemer : \/ \E c \in Code : RedeemRead(r, c)
                           \/ RedeemInsert(r) \/ RedeemRefused(r)
                           \/ RedeemMark(r)
    \/ \E n \in Name, granted \in Grants : BrowserRevoke(n, granted)
    \/ BrowserInsert

Controls ==
    \/ \E n \in Name, status \in {"active", "paused", "revoked"} :
          SetStatus(n, status)
    \/ CancelJobs \/ ToggleStop
    \/ \E j \in Job : Approve(j)

Queueing ==
    \/ \E s \in Sidecar : QueueRead(s)
    \/ \E j \in Job, capability \in Capability, approved \in BOOLEAN :
          Queue(j, capability, approved)
    \/ QueueRefused

Machine(p) ==
    \/ \E s \in Sidecar : Authenticate(p, s)
    \/ CheckStop(p) \/ Sweep(p) \/ Take(p)
    \/ \E j \in Job : RunOne(p, j)
    \/ Report(p) \/ MachineLost(p)

Next ==
    \/ Pairing \/ Controls \/ Queueing
    \/ \E p \in Poller : Machine(p)
    \/ \E j \in Job : JobAges(j)
    \/ \E c \in Code : CodeAges(c)
    \/ Crash

Spec == Init /\ [][Next]_vars

-----------------------------------------------------------------------------
\* Across restarts, re-pairings, expiry and two copies of one program, a
\* machine runs a job once at most (next_jobs); only what the owner chose
\* before that machine had said anything and its kind can do, never what an
\* earlier pairing of the name was allowed (offer_pairing, may_run); and what
\* always asks only after his yes to that very job (approve: "One job, not a
\* category").
RunsAsAllowed ==
    \A j \in Job : ran[j] > 0 =>
       LET s == sidecars[jobs[j].sidecar] IN
       /\ ran[j] = 1
       /\ jobs[j].capability \in CanDo(s.kind)
       /\ s.from # None => jobs[j].capability \in codes[s.from].granted
       /\ jobs[j].capability \in AlwaysAsk => j \in yes

\* A pairing code never gives two machines a token that works at the same
\* time, though two calls may both have read it as unused.
OneLivePerCode ==
    \A s, z \in Sidecar :
       /\ s # z
       /\ sidecars[s].from # None /\ sidecars[s].from = sidecars[z].from
       => "revoked" \in {sidecars[s].status, sidecars[z].status}

Reused(s) == Named(sidecars[s].name) # {s}

\* Once set_status has returned, no job is open on a machine the owner stood
\* down, unless its name had been used before or the job was queued on a
\* reading of the row from before.
StandDown ==
    \A j \in Job \ late :
       jobs[j].status \in Open /\ jobs[j].sidecar \in stood
          => Reused(jobs[j].sidecar)
=============================================================================
