--------------------------- MODULE SidecarsProofs ---------------------------
(***************************************************************************)
(* Proofs about the sidecars, for every number of machines, codes, jobs,   *)
(* concurrent calls and running copies of the sidecar program.             *)
(***************************************************************************)
EXTENDS Sidecars, TLAPS

USE DEF history, calls

-----------------------------------------------------------------------------
(* Types *)

CodeRow == [state : {"none", "fresh", "used"}, old : BOOLEAN,
            name : Name \cup {None}, kind : Kind, granted : SUBSET Capability]

SidecarRow == [status : {"absent", "active", "paused", "revoked"},
               name : Name \cup {None}, kind : Kind,
               granted : SUBSET Capability, from : Code \cup {None}]

JobRow == [status : {"absent", "queued", "sent", "cancelled", "expired",
                     "done", "failed"},
           sidecar : Sidecar \cup {None}, capability : Capability \cup {None},
           ask : BOOLEAN, old : BOOLEAN]

Resting == [pc : {"idle"}]

RedeemCall == Resting \cup [pc : {"insert", "mark"}, code : Code]

OwnerCall ==
    Resting \cup [pc : {"insert"}, name : Name, granted : SUBSET Capability]
            \cup [pc : {"cancel"}, name : Name, target : SUBSET Sidecar]

QueueCall == Resting \cup [pc : {"queue"}, id : Sidecar, row : SidecarRow]

Copy == Resting
    \cup [pc : {"stop"}, id : Sidecar, status : {"active", "paused"}]
    \cup [pc : {"sweep", "take"}, id : Sidecar]
    \cup [pc : {"run"}, id : Sidecar, batch : SUBSET Job]
    \cup [pc : {"report"}, id : Sidecar, batch : SUBSET Job, job : Job,
          ok : BOOLEAN]

RowsOK ==
    /\ codes \in [Code -> CodeRow]
    /\ sidecars \in [Sidecar -> SidecarRow]
    /\ jobs \in [Job -> JobRow]

CallsOK ==
    /\ redeem \in [Redeemer -> RedeemCall]
    /\ owner \in OwnerCall
    /\ caller \in QueueCall
    /\ poll \in [Poller -> Copy]

HistoryOK ==
    /\ yes \subseteq Job /\ late \subseteq Job
    /\ stood \subseteq Sidecar
    /\ ran \in [Job -> Nat]

TypeOK == RowsOK /\ CallsOK /\ HistoryOK

-----------------------------------------------------------------------------
(* The inductive invariant *)

Running(p) == poll[p].pc \in {"run", "report"}

\* The jobs a copy of the program was handed and has not started.
Held(p) == IF Running(p) THEN poll[p].batch ELSE {}

\* The index on the names of live rows; a row that came of a code carries what
\* the code says.
RowsSound ==
    /\ \A s, z \in Sidecar :
          /\ sidecars[s].status \in {"active", "paused"}
          /\ sidecars[z].status \in {"active", "paused"}
          /\ sidecars[s].name = sidecars[z].name
          => s = z
    /\ \A s \in Sidecar : sidecars[s].from # None =>
          /\ sidecars[s].status # "absent"
          /\ codes[sidecars[s].from].state # "none"
          /\ sidecars[s].name = codes[sidecars[s].from].name
          /\ sidecars[s].granted = codes[sidecars[s].from].granted

\* A call of redeem_pairing works on a code there is.
RedeemSound ==
    \A r \in Redeemer : redeem[r].pc # "idle" =>
       codes[redeem[r].code].state # "none"

\* What the caller of queue read is stale in its status at most.
CallerSound ==
    caller.pc = "queue" =>
       LET s == sidecars[caller.id] IN
       /\ s.status # "absent"
       /\ caller.row.kind = s.kind
       /\ caller.row.granted = s.granted

\* A job is for a machine there is, of a kind that can do it and that may.
JobsSound ==
    \A j \in Job :
       /\ jobs[j].status # "absent" =>
             /\ jobs[j].sidecar \in Sidecar
             /\ sidecars[jobs[j].sidecar].status # "absent"
             /\ jobs[j].capability \in CanDo(sidecars[jobs[j].sidecar].kind)
             /\ jobs[j].capability \in sidecars[jobs[j].sidecar].granted
             /\ jobs[j].capability \in AlwaysAsk => jobs[j].ask \/ j \in yes

\* A job that was handed out is with one copy of the program, which has not
\* started it, and was asked about; no job is started twice.
RunsSound ==
    /\ \A p \in Poller : \A j \in Held(p) :
          /\ jobs[j].status \notin {"absent", "queued"}
          /\ jobs[j].capability \in AlwaysAsk => j \in yes
          /\ ran[j] = 0
          /\ \A q \in Poller : j \in Held(q) => q = p
    /\ \A j \in Job : ran[j] > 0 =>
          /\ ran[j] = 1
          /\ jobs[j].status \notin {"absent", "queued"}
          /\ jobs[j].capability \in AlwaysAsk => j \in yes

\* A machine that is stood down, or that set_status is standing down, is not
\* active.
StoodSound ==
    /\ \A s \in stood : sidecars[s].status \in {"paused", "revoked"}
    /\ owner.pc = "cancel" => \A s \in owner.target :
          /\ sidecars[s].status \in {"paused", "revoked"}
          /\ sidecars[s].name = owner.name

IInv == /\ TypeOK /\ RowsSound /\ RedeemSound /\ CallerSound /\ JobsSound
        /\ RunsSound /\ StoodSound /\ StandDown

\* What the record of a call holds at each of its points.
LEMMA Shapes ==
    ASSUME TypeOK
    PROVE  /\ \A r \in Redeemer : redeem[r].pc # "idle" =>
                 redeem[r] \in [pc : {"insert", "mark"}, code : Code]
           /\ owner.pc = "insert" =>
                 owner.name \in Name /\ owner.granted \in SUBSET Capability
           /\ owner.pc = "cancel" =>
                 owner.name \in Name /\ owner.target \in SUBSET Sidecar
           /\ caller.pc = "queue" =>
                 caller.id \in Sidecar /\ caller.row \in SidecarRow
           /\ \A p \in Poller :
                 /\ poll[p].pc # "idle" => poll[p].id \in Sidecar
                 /\ poll[p].pc = "stop" => poll[p].status \in {"active", "paused"}
                 /\ Running(p) => poll[p].batch \in SUBSET Job
                 /\ poll[p].pc = "report" =>
                       poll[p].job \in Job /\ poll[p].ok \in BOOLEAN
BY DEF TypeOK, CallsOK, RedeemCall, OwnerCall, QueueCall, Copy, Resting, Running

LEMMA InitialRows ==
    /\ Idle \in Resting /\ NoCode \in CodeRow /\ NoSidecar \in SidecarRow
    /\ NoJob \in JobRow
BY DEF Idle, Resting, NoCode, NoSidecar, NoJob, CodeRow, SidecarRow, JobRow, Kind

LEMMA KindsCan == \A kind \in Kind : CanDo(kind) \subseteq Capability
BY CapabilityAssumption DEF CanDo, Kind

\* Every step keeps the types.
LEMMA TypeStep == TypeOK /\ [Next]_vars => TypeOK'
<1> SUFFICES ASSUME TypeOK, [Next]_vars PROVE TypeOK'
  OBVIOUS
<1> USE Shapes, InitialRows, KindsCan, CapabilityAssumption
    DEF TypeOK, RowsOK, CallsOK, HistoryOK
<1>1. ASSUME NEW c \in Code, NEW n \in Name, NEW kind \in Kind, NEW granted \in Grants, Offer(c, n, kind, granted)
      PROVE TypeOK'
  BY <1>1 DEF Offer, CodeRow
<1>2. ASSUME NEW r \in Redeemer, NEW c \in Code, RedeemRead(r, c)
      PROVE TypeOK'
  BY <1>2 DEF RedeemRead, RedeemCall
<1>3. ASSUME NEW r \in Redeemer, RedeemInsert(r)
      PROVE TypeOK'
  BY <1>3 DEF RedeemInsert, Insert, SidecarRow, CodeRow, RedeemCall
<1>4. ASSUME NEW r \in Redeemer, RedeemRefused(r)
      PROVE TypeOK'
  BY <1>4 DEF RedeemRefused, RedeemCall
<1>5. ASSUME NEW r \in Redeemer, RedeemMark(r)
      PROVE TypeOK'
  BY <1>5 DEF RedeemMark, RedeemCall, CodeRow
<1>6. ASSUME NEW n \in Name, NEW granted \in Grants, BrowserRevoke(n, granted)
      PROVE TypeOK'
  BY <1>6 DEF BrowserRevoke, SidecarRow, OwnerCall, Upset
<1>7. ASSUME BrowserInsert
      PROVE TypeOK'
  BY <1>7 DEF BrowserInsert, Insert, SidecarRow, OwnerCall, Kind
<1>8. ASSUME NEW n \in Name, NEW status \in {"active", "paused", "revoked"}, SetStatus(n, status)
      PROVE TypeOK'
  BY <1>8 DEF SetStatus, SidecarRow, OwnerCall, Upset, Live, Named
<1>9. ASSUME CancelJobs
      PROVE TypeOK'
  BY <1>9 DEF CancelJobs, JobRow, OwnerCall
<1>10. ASSUME ToggleStop
      PROVE TypeOK'
  BY <1>10 DEF ToggleStop, Upset
<1>11. ASSUME NEW j \in Job, Approve(j)
      PROVE TypeOK'
  BY <1>11 DEF Approve, JobRow
<1>12. ASSUME NEW s \in Sidecar, QueueRead(s)
      PROVE TypeOK'
  BY <1>12 DEF QueueRead, QueueCall
<1>13. ASSUME NEW j \in Job, NEW capability \in Capability, NEW approved \in BOOLEAN, Queue(j, capability, approved)
      PROVE TypeOK'
  BY <1>13 DEF Queue, JobRow, QueueCall, Asks
<1>14. ASSUME QueueRefused
      PROVE TypeOK'
  BY <1>14 DEF QueueRefused, QueueCall
<1>15. ASSUME NEW p \in Poller, NEW s \in Sidecar, Authenticate(p, s)
      PROVE TypeOK'
  BY <1>15 DEF Authenticate, Copy
<1>16. ASSUME NEW p \in Poller, CheckStop(p)
      PROVE TypeOK'
  BY <1>16 DEF CheckStop, Copy
<1>17. ASSUME NEW p \in Poller, Sweep(p)
      PROVE TypeOK'
  <2>1. jobs' \in [Job -> JobRow]
    <3>1. \A j \in Job : [jobs[j] EXCEPT !.status = "expired"] \in JobRow
      BY DEF JobRow
    <3> QED
      BY <1>17, <3>1, Zenon DEF Sweep
  <2>2. poll' \in [Poller -> Copy]
    <3>1. poll[p].pc = "sweep" /\ poll' = [poll EXCEPT ![p].pc = "take"]
      BY <1>17, Zenon DEF Sweep
    <3>2. poll[p] \in [pc : {"sweep", "take"}, id : Sidecar]
      BY <3>1 DEF Copy, Resting
    <3>3. [poll[p] EXCEPT !.pc = "take"] \in Copy
      BY <3>2 DEF Copy
    <3> QED
      BY <3>1, <3>3
  <2> QED
    BY <1>17, <2>1, <2>2 DEF Sweep
<1>18. ASSUME NEW p \in Poller, Take(p)
      PROVE TypeOK'
  <2>1. jobs' \in [Job -> JobRow]
    BY <1>18 DEF Take, JobRow
  <2>2. poll' \in [Poller -> Copy]
    BY <1>18 DEF Take, Copy, Ready
  <2> QED
    BY <1>18, <2>1, <2>2 DEF Take
<1>19. ASSUME NEW p \in Poller, NEW j \in Job, RunOne(p, j)
      PROVE TypeOK'
  <2>1. ran' \in [Job -> Nat]
    BY <1>19 DEF RunOne
  <2>2. PICK ok \in BOOLEAN :
          poll' = [poll EXCEPT ![p] =
                     [pc |-> "report", id |-> poll[p].id,
                      batch |-> poll[p].batch \ {j}, job |-> j, ok |-> ok]]
    BY <1>19 DEF RunOne
  <2>3. poll' \in [Poller -> Copy]
    BY <1>19, <2>2 DEF RunOne, Copy, Running
  <2> QED
    BY <1>19, <2>1, <2>3 DEF RunOne
<1>20. ASSUME NEW p \in Poller, Report(p)
      PROVE TypeOK'
  <2>1. jobs' \in [Job -> JobRow]
    BY <1>20 DEF Report, JobRow
  <2>2. Onward(p) \in Copy
    BY <1>20 DEF Report, Onward, Copy, Running
  <2> QED
    BY <1>20, <2>1, <2>2 DEF Report
<1>21. ASSUME NEW p \in Poller, MachineLost(p)
      PROVE TypeOK'
  BY <1>21 DEF MachineLost, Copy, Upset
<1>22. ASSUME NEW j \in Job, JobAges(j)
      PROVE TypeOK'
  BY <1>22 DEF JobAges, JobRow, Upset
<1>23. ASSUME NEW c \in Code, CodeAges(c)
      PROVE TypeOK'
  BY <1>23 DEF CodeAges, CodeRow, Upset
<1>24. ASSUME Crash
      PROVE TypeOK'
  BY <1>24 DEF Crash, Upset, RedeemCall, OwnerCall, QueueCall, Copy
<1>25. CASE UNCHANGED vars
  BY <1>25 DEF vars
<1> QED
  BY <1>1, <1>2, <1>3, <1>4, <1>5, <1>6, <1>7, <1>8, <1>9, <1>10, <1>11, <1>12, <1>13, <1>14, <1>15, <1>16, <1>17, <1>18, <1>19, <1>20, <1>21, <1>22, <1>23, <1>24, <1>25
     DEF Next, Pairing, Controls, Queueing, Machine

-----------------------------------------------------------------------------
(* What no step changes *)

\* A code that was offered stays what it is.
CodesKeep ==
    \A c \in Code : codes[c].state # "none" =>
       /\ codes'[c].state # "none"
       /\ codes'[c].name = codes[c].name
       /\ codes'[c].granted = codes[c].granted

\* A machine's row stays, and keeps what it was made with.
SidecarsKeep ==
    \A s \in Sidecar : sidecars[s].status # "absent" =>
       /\ sidecars'[s].status # "absent"
       /\ sidecars'[s].name = sidecars[s].name
       /\ sidecars'[s].kind = sidecars[s].kind
       /\ sidecars'[s].granted = sidecars[s].granted
       /\ sidecars'[s].from = sidecars[s].from

\* So does a job, and one that has left the queue does not return to it, nor
\* opens again; a yes is not forgotten.
JobsKeep ==
    /\ \A j \in Job : jobs[j].status # "absent" =>
          /\ jobs'[j].status # "absent"
          /\ jobs'[j].sidecar = jobs[j].sidecar
          /\ jobs'[j].capability = jobs[j].capability
          /\ jobs'[j].status = "queued" => jobs[j].status = "queued"
          /\ jobs'[j].status \in Open => jobs[j].status \in Open
    /\ yes \subseteq yes'

\* Every step keeps the rows.
LEMMA Keeps ==
    ASSUME TypeOK, [Next]_vars
    PROVE  CodesKeep /\ SidecarsKeep /\ JobsKeep
<1> USE Shapes DEF TypeOK, RowsOK, CodeRow, SidecarRow, JobRow,
                   CodesKeep, SidecarsKeep, JobsKeep, Open
<1>1. ASSUME NEW c \in Code, NEW n \in Name, NEW kind \in Kind, NEW granted \in Grants, Offer(c, n, kind, granted)
      PROVE  CodesKeep /\ SidecarsKeep /\ JobsKeep
  BY <1>1 DEF Offer
<1>2. ASSUME NEW r \in Redeemer, NEW c \in Code, RedeemRead(r, c)
      PROVE  CodesKeep /\ SidecarsKeep /\ JobsKeep
  BY <1>2 DEF RedeemRead
<1>3. ASSUME NEW r \in Redeemer, RedeemInsert(r)
      PROVE  CodesKeep /\ SidecarsKeep /\ JobsKeep
  BY <1>3 DEF RedeemInsert, Insert
<1>4. ASSUME NEW r \in Redeemer, RedeemRefused(r)
      PROVE  CodesKeep /\ SidecarsKeep /\ JobsKeep
  BY <1>4 DEF RedeemRefused
<1>5. ASSUME NEW r \in Redeemer, RedeemMark(r)
      PROVE  CodesKeep /\ SidecarsKeep /\ JobsKeep
  BY <1>5 DEF RedeemMark
<1>6. ASSUME NEW n \in Name, NEW granted \in Grants, BrowserRevoke(n, granted)
      PROVE  CodesKeep /\ SidecarsKeep /\ JobsKeep
  BY <1>6 DEF BrowserRevoke
<1>7. ASSUME BrowserInsert
      PROVE  CodesKeep /\ SidecarsKeep /\ JobsKeep
  BY <1>7 DEF BrowserInsert, Insert
<1>8. ASSUME NEW n \in Name, NEW status \in {"active", "paused", "revoked"}, SetStatus(n, status)
      PROVE  CodesKeep /\ SidecarsKeep /\ JobsKeep
  BY <1>8 DEF SetStatus
<1>9. ASSUME CancelJobs
      PROVE  CodesKeep /\ SidecarsKeep /\ JobsKeep
  BY <1>9 DEF CancelJobs
<1>10. ASSUME ToggleStop
      PROVE  CodesKeep /\ SidecarsKeep /\ JobsKeep
  BY <1>10 DEF ToggleStop
<1>11. ASSUME NEW j \in Job, Approve(j)
      PROVE  CodesKeep /\ SidecarsKeep /\ JobsKeep
  BY <1>11 DEF Approve
<1>12. ASSUME NEW s \in Sidecar, QueueRead(s)
      PROVE  CodesKeep /\ SidecarsKeep /\ JobsKeep
  BY <1>12 DEF QueueRead
<1>13. ASSUME NEW j \in Job, NEW capability \in Capability, NEW approved \in BOOLEAN, Queue(j, capability, approved)
      PROVE  CodesKeep /\ SidecarsKeep /\ JobsKeep
  BY <1>13 DEF Queue
<1>14. ASSUME QueueRefused
      PROVE  CodesKeep /\ SidecarsKeep /\ JobsKeep
  BY <1>14 DEF QueueRefused
<1>15. ASSUME NEW p \in Poller, NEW s \in Sidecar, Authenticate(p, s)
      PROVE  CodesKeep /\ SidecarsKeep /\ JobsKeep
  BY <1>15 DEF Authenticate
<1>16. ASSUME NEW p \in Poller, CheckStop(p)
      PROVE  CodesKeep /\ SidecarsKeep /\ JobsKeep
  BY <1>16 DEF CheckStop
<1>17. ASSUME NEW p \in Poller, Sweep(p)
      PROVE  CodesKeep /\ SidecarsKeep /\ JobsKeep
  BY <1>17 DEF Sweep
<1>18. ASSUME NEW p \in Poller, Take(p)
      PROVE  CodesKeep /\ SidecarsKeep /\ JobsKeep
  <2>1. \A j \in Job : \/ jobs'[j] = jobs[j]
                       \/ /\ jobs[j].status = "queued"
                          /\ jobs'[j] = [jobs[j] EXCEPT !.status = "sent"]
    BY <1>18 DEF Take, Ready
  <2>2. UNCHANGED <<codes, sidecars, yes>>
    BY <1>18 DEF Take
  <2>3. ASSUME NEW j \in Job, jobs[j].status # "absent"
        PROVE  /\ jobs'[j].status # "absent"
               /\ jobs'[j].sidecar = jobs[j].sidecar
               /\ jobs'[j].capability = jobs[j].capability
               /\ jobs'[j].status = "queued" => jobs[j].status = "queued"
               /\ jobs'[j].status \in Open => jobs[j].status \in Open
    <3>1. CASE jobs'[j] = jobs[j]
      BY <2>3, <3>1
    <3>2. CASE /\ jobs[j].status = "queued"
               /\ jobs'[j] = [jobs[j] EXCEPT !.status = "sent"]
      BY <3>2
    <3> QED
      BY <2>1, <3>1, <3>2
  <2>4. JobsKeep
    BY <2>2, <2>3
  <2> QED
    BY <2>2, <2>4
<1>19. ASSUME NEW p \in Poller, NEW j \in Job, RunOne(p, j)
      PROVE  CodesKeep /\ SidecarsKeep /\ JobsKeep
  BY <1>19 DEF RunOne
<1>20. ASSUME NEW p \in Poller, Report(p)
      PROVE  CodesKeep /\ SidecarsKeep /\ JobsKeep
  BY <1>20 DEF Report
<1>21. ASSUME NEW p \in Poller, MachineLost(p)
      PROVE  CodesKeep /\ SidecarsKeep /\ JobsKeep
  BY <1>21 DEF MachineLost
<1>22. ASSUME NEW j \in Job, JobAges(j)
      PROVE  CodesKeep /\ SidecarsKeep /\ JobsKeep
  BY <1>22 DEF JobAges
<1>23. ASSUME NEW c \in Code, CodeAges(c)
      PROVE  CodesKeep /\ SidecarsKeep /\ JobsKeep
  BY <1>23 DEF CodeAges
<1>24. ASSUME Crash
      PROVE  CodesKeep /\ SidecarsKeep /\ JobsKeep
  BY <1>24 DEF Crash
<1>25. CASE UNCHANGED vars
  BY <1>25 DEF vars
<1> HIDE DEF CodesKeep, SidecarsKeep, JobsKeep
<1> QED
  BY <1>1, <1>2, <1>3, <1>4, <1>5, <1>6, <1>7, <1>8, <1>9, <1>10, <1>11, <1>12, <1>13, <1>14, <1>15, <1>16, <1>17, <1>18, <1>19, <1>20, <1>21, <1>22, <1>23, <1>24, <1>25
     DEF Next, Pairing, Controls, Queueing, Machine

-----------------------------------------------------------------------------
(* The inductive steps *)

\* Live rows have names of their own: only the two INSERTs make a row live, and
\* the index looks at every row; a row is revoked for good.
LEMMA RowsStep ==
    ASSUME TypeOK, RowsSound, RedeemSound, [Next]_vars
    PROVE  RowsSound'
<1> USE Shapes DEF TypeOK, RowsOK, CodeRow, SidecarRow, RowsSound
<1>1. ASSUME NEW s \in Sidecar, NEW n, NEW kind, NEW granted,
             NEW from \in Code \cup {None},
             Insert(s, n, kind, granted, from), UNCHANGED codes,
             from # None => /\ codes[from].state # "none"
                            /\ n = codes[from].name
                            /\ granted = codes[from].granted
      PROVE  RowsSound'
  BY <1>1 DEF Insert, Live, Named
<1>2. ASSUME UNCHANGED codes,
             \A s \in Sidecar :
                /\ sidecars'[s].status \in {"active", "paused"} =>
                      sidecars[s].status \in {"active", "paused"}
                /\ sidecars'[s].status = "absent" =>
                      sidecars[s].status = "absent"
                /\ sidecars'[s].name = sidecars[s].name
                /\ sidecars'[s].from = sidecars[s].from
                /\ sidecars'[s].granted = sidecars[s].granted
      PROVE  RowsSound'
  BY <1>2
<1>3. ASSUME NEW n \in Name, NEW granted \in Grants, BrowserRevoke(n, granted)
      PROVE  RowsSound'
  BY <1>2, <1>3 DEF BrowserRevoke, Live, Named
<1>4. ASSUME NEW n \in Name, NEW status \in {"active", "paused", "revoked"},
             SetStatus(n, status)
      PROVE  RowsSound'
  BY <1>2, <1>4 DEF SetStatus, Live, Named
<1>5. ASSUME NEW r \in Redeemer, RedeemInsert(r)
      PROVE  RowsSound'
  <2>1. redeem[r].code \in Code /\ codes[redeem[r].code].state # "none"
    BY <1>5 DEF RedeemInsert, RedeemSound
  <2> QED
    BY <1>1, <1>5, <2>1, Zenon DEF RedeemInsert
<1>6. ASSUME UNCHANGED sidecars
      PROVE  RowsSound'
  BY <1>6, Keeps DEF CodesKeep
<1>7. CASE BrowserInsert
  <2>1. CASE \E s \in Sidecar :
                Insert(s, owner.name, "browser", owner.granted, None)
    <3>1. None \in Code \cup {None} /\ (None # None => FALSE)
      OBVIOUS
    <3> QED
      BY <1>1, <1>7, <2>1, <3>1 DEF BrowserInsert
  <2>2. CASE UNCHANGED sidecars
    BY <1>6, <2>2
  <2> QED
    BY <1>7, <2>1, <2>2 DEF BrowserInsert
<1> HIDE DEF RowsSound
<1> QED
  BY <1>3, <1>4, <1>5, <1>6, <1>7
     DEF Next, Pairing, Controls, Queueing, Machine, Offer, RedeemRead,
         RedeemRefused, RedeemMark, CancelJobs, ToggleStop, Approve, QueueRead,
         Queue, QueueRefused, Authenticate, CheckStop, Sweep, Take, RunOne,
         Report, MachineLost, JobAges, CodeAges, Crash, vars

\* A call of redeem_pairing starts from a code it read.
LEMMA RedeemStep ==
    ASSUME TypeOK, RedeemSound, [Next]_vars
    PROVE  RedeemSound'
<1> SUFFICES ASSUME NEW r \in Redeemer, redeem'[r].pc # "idle"
             PROVE  codes'[redeem'[r].code].state # "none"
  BY DEF RedeemSound
<1> USE Shapes DEF TypeOK, CallsOK
<1>1. CASE redeem[r].pc # "idle" /\ redeem'[r].code = redeem[r].code
  BY <1>1, Keeps DEF CodesKeep, RedeemSound
<1>2. ASSUME NEW q \in Redeemer, NEW c \in Code, RedeemRead(q, c)
      PROVE  codes'[redeem'[r].code].state # "none"
  BY <1>1, <1>2 DEF RedeemRead
<1>3. ASSUME NEW q \in Redeemer,
             RedeemInsert(q) \/ RedeemRefused(q) \/ RedeemMark(q)
      PROVE  codes'[redeem'[r].code].state # "none"
  <2>1. redeem' = [redeem EXCEPT ![q].pc = "mark"] \/ redeem' = [redeem EXCEPT ![q] = Idle]
    BY <1>3 DEF RedeemInsert, RedeemRefused, RedeemMark
  <2>2. redeem[q].pc # "idle"
    BY <1>3 DEF RedeemInsert, RedeemRefused, RedeemMark
  <2> QED
    BY <1>1, <2>1, <2>2 DEF Idle
<1>4. CASE redeem' = redeem
  BY <1>1, <1>4
<1>5. CASE Crash
  BY <1>5 DEF Crash, Idle
<1> QED
  BY <1>2, <1>3, <1>4, <1>5
     DEF Next, Pairing, Controls, Queueing, Machine, Offer, BrowserRevoke,
         BrowserInsert, SetStatus, CancelJobs, ToggleStop, Approve, QueueRead,
         Queue, QueueRefused, Authenticate, CheckStop, Sweep, Take, RunOne,
         Report, MachineLost, JobAges, CodeAges, vars

\* The caller of queue keeps the row it read.
LEMMA CallerStep ==
    ASSUME TypeOK, CallerSound, [Next]_vars
    PROVE  CallerSound'
<1> USE Shapes DEF CallerSound
<1>1. CASE caller' = caller
  BY <1>1, Keeps DEF SidecarsKeep
<1>2. ASSUME NEW s \in Sidecar, QueueRead(s)
      PROVE  CallerSound'
  BY <1>2 DEF QueueRead
<1>3. CASE caller' = Idle
  BY <1>3 DEF Idle
<1> HIDE DEF CallerSound
<1> QED
  BY <1>1, <1>2, <1>3
     DEF Next, Pairing, Controls, Queueing, Machine, Offer, RedeemRead,
         RedeemInsert, RedeemRefused, RedeemMark, BrowserRevoke, BrowserInsert,
         SetStatus, CancelJobs, ToggleStop, Approve, Queue, QueueRefused,
         Authenticate, CheckStop, Sweep, Take, RunOne, Report, MachineLost,
         JobAges, CodeAges, Crash, vars

\* A job stops waiting for a yes by approve alone, and queue alone makes one.
LEMMA JobsFrame ==
    ASSUME TypeOK, [Next]_vars, NEW j \in Job
    PROVE  \/ /\ jobs[j].status # "absent"
              /\ jobs'[j].ask = jobs[j].ask \/ j \in yes'
           \/ jobs'[j] = jobs[j]
           \/ \E capability \in Capability, approved \in BOOLEAN :
                 Queue(j, capability, approved)
<1> USE DEF TypeOK, RowsOK, JobRow
<1>1. ASSUME NEW i \in Job, Approve(i)
      PROVE  \/ jobs[j].status # "absent" /\ j \in yes'
             \/ jobs'[j] = jobs[j]
  BY <1>1 DEF Approve
<1>2. ASSUME NEW i \in Job, NEW capability \in Capability,
             NEW approved \in BOOLEAN, Queue(i, capability, approved)
      PROVE  i = j \/ jobs'[j] = jobs[j]
  BY <1>2 DEF Queue
<1>3. CASE CancelJobs
  BY <1>3 DEF CancelJobs, Open
<1>4. ASSUME NEW p \in Poller, Sweep(p) \/ Take(p) \/ Report(p)
      PROVE  \/ jobs[j].status # "absent" /\ jobs'[j].ask = jobs[j].ask
             \/ jobs'[j] = jobs[j]
  BY <1>4 DEF Sweep, Take, Report, Ready, Open
<1>5. ASSUME NEW i \in Job, JobAges(i)
      PROVE  \/ jobs[j].status # "absent" /\ jobs'[j].ask = jobs[j].ask
             \/ jobs'[j] = jobs[j]
  BY <1>5 DEF JobAges, Open
<1> QED
  BY <1>1, <1>2, <1>3, <1>4, <1>5
     DEF Next, Pairing, Controls, Queueing, Machine, Offer, RedeemRead,
         RedeemInsert, RedeemRefused, RedeemMark, BrowserRevoke, BrowserInsert,
         SetStatus, ToggleStop, QueueRead, QueueRefused, Authenticate,
         CheckStop, RunOne, MachineLost, CodeAges, Crash, vars

\* A job is made for what the machine can and may, whatever has become of the
\* row since the caller read it, and what always asks waits for a yes.
LEMMA JobsStep ==
    ASSUME TypeOK, JobsSound, CallerSound, [Next]_vars
    PROVE  JobsSound'
<1> USE Shapes DEF TypeOK, RowsOK, JobRow
<1> SUFFICES ASSUME NEW j \in Job, jobs'[j].status # "absent"
             PROVE  /\ jobs'[j].sidecar \in Sidecar
                    /\ sidecars'[jobs'[j].sidecar].status # "absent"
                    /\ jobs'[j].capability \in
                          CanDo(sidecars'[jobs'[j].sidecar].kind)
                    /\ jobs'[j].capability \in sidecars'[jobs'[j].sidecar].granted
                    /\ jobs'[j].capability \in AlwaysAsk =>
                          jobs'[j].ask \/ j \in yes'
  BY DEF JobsSound
<1>1. CASE jobs[j].status # "absent" /\ (jobs'[j].ask = jobs[j].ask \/ j \in yes')
  BY <1>1, Keeps DEF SidecarsKeep, JobsKeep, JobsSound
<1>2. ASSUME NEW capability \in Capability, NEW approved \in BOOLEAN,
             Queue(j, capability, approved)
      PROVE  /\ jobs'[j].sidecar \in Sidecar
             /\ sidecars'[jobs'[j].sidecar].status # "absent"
             /\ jobs'[j].capability \in CanDo(sidecars'[jobs'[j].sidecar].kind)
             /\ jobs'[j].capability \in sidecars'[jobs'[j].sidecar].granted
             /\ jobs'[j].capability \in AlwaysAsk => jobs'[j].ask \/ j \in yes'
  BY <1>2 DEF Queue, MayRun, Asks, CallerSound
<1> QED
  BY <1>1, <1>2, JobsFrame, Keeps DEF JobsKeep

\* Only next_jobs hands jobs out, of those that wait; a copy of the program
\* that starts one does not hold it any more.
LEMMA HeldFrame ==
    ASSUME TypeOK, [Next]_vars, NEW p \in Poller
    PROVE  /\ Held(p)' \subseteq Held(p) \/ Take(p)
           /\ \A q \in Poller, j \in Job :
                 RunOne(q, j) => j \in Held(q) /\ j \notin Held(q)'
<1> USE DEF TypeOK, CallsOK, Held, Running
<1>1. ASSUME NEW q \in Poller, NEW j \in Job, RunOne(q, j)
      PROVE  /\ j \in Held(q) /\ j \notin Held(q)'
             /\ Held(p)' \subseteq Held(p)
  <2>1. PICK ok \in BOOLEAN :
          poll' = [poll EXCEPT ![q] =
                     [pc |-> "report", id |-> poll[q].id,
                      batch |-> poll[q].batch \ {j}, job |-> j, ok |-> ok]]
    BY <1>1 DEF RunOne
  <2> QED
    BY <1>1, <2>1, Shapes DEF RunOne
<1>2. ASSUME NEW q \in Poller, Report(q)
      PROVE  Held(p)' \subseteq Held(p)
  <2>1. poll[q].pc = "report" /\ poll' = [poll EXCEPT ![q] = Onward(q)]
    BY <1>2 DEF Report
  <2> QED
    BY <2>1, Shapes DEF Onward, Idle
<1>3. ASSUME NEW q \in Poller, Take(q)
      PROVE  Held(p)' \subseteq Held(p) \/ Take(p)
  BY <1>3 DEF Take
<1>4. ASSUME NEW q \in Poller,
             \/ \E s \in Sidecar : Authenticate(q, s)
             \/ CheckStop(q) \/ MachineLost(q)
      PROVE  Held(p)' \subseteq Held(p)
  BY <1>4 DEF Authenticate, CheckStop, MachineLost, Idle
<1>5. ASSUME NEW q \in Poller, Sweep(q)
      PROVE  Held(p)' \subseteq Held(p)
  <2>1. poll[q].pc = "sweep" /\ poll' = [poll EXCEPT ![q].pc = "take"]
    BY <1>5, Zenon DEF Sweep
  <2>2. poll[q] \in [pc : {"sweep", "take"}, id : Sidecar]
    BY <2>1 DEF Copy, Resting
  <2> QED
    BY <2>1, <2>2
<1>6. ASSUME Crash
      PROVE  Held(p)' \subseteq Held(p)
  <2>1. poll'[p] = poll[p] \/ poll'[p] = Idle
    BY <1>6 DEF Crash
  <2> QED
    BY <2>1 DEF Idle
<1>7. ASSUME poll' = poll
      PROVE  Held(p)' \subseteq Held(p)
  BY <1>7
<1> HIDE DEF Held, TypeOK
<1> QED
  BY <1>1, <1>2, <1>3, <1>4, <1>5, <1>6, <1>7
     DEF Next, Pairing, Controls, Queueing, Machine, Offer, RedeemRead,
         RedeemInsert, RedeemRefused, RedeemMark, BrowserRevoke, BrowserInsert,
         SetStatus, CancelJobs, ToggleStop, Approve, QueueRead, Queue,
         QueueRefused, JobAges, CodeAges, vars

\* A job's handler is started by run_one alone.
LEMMA RanFrame ==
    ASSUME [Next]_vars
    PROVE  \/ ran' = ran
           \/ \E p \in Poller, j \in Job :
                 RunOne(p, j) /\ ran' = [ran EXCEPT ![j] = @ + 1]
<1>1. ASSUME NEW p \in Poller, NEW j \in Job, RunOne(p, j)
      PROVE  ran' = ran \/ ran' = [ran EXCEPT ![j] = @ + 1]
  BY <1>1 DEF RunOne
<1> QED
  BY <1>1
     DEF Next, Pairing, Controls, Queueing, Machine, Offer, RedeemRead,
         RedeemInsert, RedeemRefused, RedeemMark, BrowserRevoke, BrowserInsert,
         SetStatus, CancelJobs, ToggleStop, Approve, QueueRead, Queue,
         QueueRefused, Authenticate, CheckStop, Sweep, Take, Report,
         MachineLost, JobAges, CodeAges, Crash, vars

\* What next_jobs hands out was waiting and needs no yes any more, and is
\* marked in the same statement.
LEMMA TakenJobs ==
    ASSUME TypeOK, NEW p \in Poller, Take(p), NEW j \in Held(p)'
    PROVE  /\ j \in Job /\ jobs[j].status = "queued" /\ ~jobs[j].ask
           /\ jobs'[j].status = "sent" /\ jobs'[j].capability = jobs[j].capability
           /\ ran' = ran /\ yes' = yes
           /\ \A q \in Poller : q # p => Held(q)' = Held(q)
<1>1. PICK batch \in SUBSET Ready(poll[p].id) :
        /\ jobs' = [j_1 \in Job |->
                      IF j_1 \in batch
                      THEN [jobs[j_1] EXCEPT !.status = "sent"] ELSE jobs[j_1]]
        /\ poll' = [poll EXCEPT ![p] =
                      IF batch = {} THEN Idle
                      ELSE [pc |-> "run", id |-> poll[p].id, batch |-> batch]]
  BY Zenon DEF Take
<1>2. j \in batch
  BY <1>1 DEF TypeOK, CallsOK, Held, Running, Idle
<1>3. j \in Job /\ jobs[j].status = "queued" /\ ~jobs[j].ask
  BY <1>2, Zenon DEF Ready
<1>4. jobs'[j] = [jobs[j] EXCEPT !.status = "sent"] /\ jobs[j] \in JobRow
  BY <1>1, <1>2, <1>3 DEF TypeOK, RowsOK
<1>5. jobs'[j].status = "sent" /\ jobs'[j].capability = jobs[j].capability
  BY <1>4 DEF JobRow
<1>6. \A q \in Poller : q # p => Held(q)' = Held(q)
  BY <1>1 DEF TypeOK, CallsOK, Held, Running
<1> QED
  BY <1>3, <1>5, <1>6 DEF Take

\* No job is started twice: one that is handed out leaves the queue in the same
\* statement, so no other copy is handed it, and the copy that has it starts it
\* and lets go of it in one step.
LEMMA RunsStep ==
    ASSUME TypeOK, JobsSound, RunsSound, [Next]_vars
    PROVE  RunsSound'
<1> USE DEF TypeOK, RowsOK, HistoryOK
<1>1. ASSUME NEW p \in Poller, NEW j \in Held(p)'
      PROVE  /\ j \in Job
             /\ jobs'[j].status \notin {"absent", "queued"}
             /\ jobs'[j].capability \in AlwaysAsk => j \in yes'
             /\ ran'[j] = 0
             /\ \A q \in Poller : j \in Held(q)' => q = p
  <2>1. CASE Take(p)
    <3>1. /\ j \in Job /\ jobs[j].status = "queued" /\ ~jobs[j].ask
          /\ jobs'[j].status = "sent" /\ jobs'[j].capability = jobs[j].capability
          /\ ran' = ran /\ yes' = yes
          /\ \A q \in Poller : q # p => Held(q)' = Held(q)
      BY <1>1, <2>1, TakenJobs
    <3>2. jobs[j].capability \in AlwaysAsk => j \in yes
      BY <3>1, Zenon DEF JobsSound
    <3>3. ran[j] = 0
      BY <3>1 DEF RunsSound
    <3>4. \A q \in Poller : j \notin Held(q)
      BY <3>1 DEF RunsSound
    <3> QED
      BY <3>1, <3>2, <3>3, <3>4
  <2>2. CASE ~Take(p)
    <3>1. j \in Held(p)
      BY <1>1, <2>2, HeldFrame
    <3>2. j \in Job
      BY <3>1, Shapes DEF Held
    <3>3. /\ jobs[j].status \notin {"absent", "queued"}
          /\ jobs[j].capability \in AlwaysAsk => j \in yes
          /\ ran[j] = 0
          /\ \A q \in Poller : j \in Held(q) => q = p
      BY <3>1 DEF RunsSound
    <3>4. /\ jobs'[j].status \notin {"absent", "queued"}
          /\ jobs'[j].capability \in AlwaysAsk => j \in yes'
      BY <3>2, <3>3, Keeps DEF JobsKeep
    <3>5. ASSUME NEW q \in Poller, j \in Held(q)' PROVE q = p
      <4>1. CASE Take(q)
        BY <3>3, <3>5, <4>1, TakenJobs
      <4>2. CASE ~Take(q)
        BY <3>3, <3>5, <4>2, HeldFrame
      <4> QED
        BY <4>1, <4>2
    <3>6. ran'[j] = 0
      <4>1. ASSUME NEW q \in Poller, RunOne(q, j) PROVE FALSE
        <5>1. j \in Held(q) /\ j \notin Held(q)'
          BY <3>2, <4>1, HeldFrame
        <5> QED
          BY <1>1, <3>3, <5>1
      <4> QED
        BY <3>2, <3>3, <4>1, RanFrame
    <3> QED
      BY <3>2, <3>4, <3>5, <3>6
  <2> QED
    BY <2>1, <2>2
<1>2. ASSUME NEW j \in Job, ran'[j] > 0
      PROVE  /\ ran'[j] = 1
             /\ jobs'[j].status \notin {"absent", "queued"}
             /\ jobs'[j].capability \in AlwaysAsk => j \in yes'
  <2>1. CASE ran'[j] = ran[j]
    <3>1. /\ ran[j] = 1
          /\ jobs[j].status \notin {"absent", "queued"}
          /\ jobs[j].capability \in AlwaysAsk => j \in yes
      BY <1>2, <2>1 DEF RunsSound
    <3> QED
      BY <2>1, <3>1, Keeps DEF JobsKeep
  <2>2. ASSUME NEW p \in Poller, RunOne(p, j), ran' = [ran EXCEPT ![j] = @ + 1]
        PROVE  /\ ran'[j] = 1
               /\ jobs'[j].status \notin {"absent", "queued"}
               /\ jobs'[j].capability \in AlwaysAsk => j \in yes'
    <3>1. j \in Held(p)
      BY <2>2, HeldFrame
    <3>2. /\ ran[j] = 0
          /\ jobs[j].status \notin {"absent", "queued"}
          /\ jobs[j].capability \in AlwaysAsk => j \in yes
      BY <3>1 DEF RunsSound
    <3> QED
      BY <2>2, <3>2, Keeps DEF JobsKeep
  <2> QED
    BY <2>1, <2>2, RanFrame
<1> QED
  BY <1>1, <1>2 DEF RunsSound

\* A machine that was stood down becomes active again by set_status alone, which
\* takes it off the list; while set_status is at its second statement no other
\* call of the owner's is.
LEMMA StoodStep ==
    ASSUME TypeOK, StoodSound, [Next]_vars
    PROVE  StoodSound'
<1> USE Shapes DEF TypeOK, RowsOK, HistoryOK, SidecarRow, StoodSound
<1>1. ASSUME NEW s \in Sidecar, NEW n, NEW kind, NEW granted, NEW from,
             Insert(s, n, kind, granted, from), UNCHANGED stood,
             UNCHANGED owner \/ owner' = Idle
      PROVE  StoodSound'
  BY <1>1 DEF Insert, Idle
<1>2. ASSUME NEW r \in Redeemer, RedeemInsert(r)
      PROVE  StoodSound'
  BY <1>1, <1>2, Zenon DEF RedeemInsert
<1>3. ASSUME UNCHANGED <<sidecars, stood>>, UNCHANGED owner \/ owner' = Idle
      PROVE  StoodSound'
  BY <1>3 DEF Idle
<1>4. CASE BrowserInsert
  BY <1>1, <1>3, <1>4, Zenon DEF BrowserInsert
<1>5. ASSUME NEW n \in Name, NEW granted \in Grants, BrowserRevoke(n, granted)
      PROVE  StoodSound'
  BY <1>5 DEF BrowserRevoke
<1>6. ASSUME NEW n \in Name, NEW status \in {"active", "paused", "revoked"},
             SetStatus(n, status)
      PROVE  StoodSound'
  <2>1. \A s \in stood' : sidecars'[s].status \in {"paused", "revoked"}
    BY <1>6 DEF SetStatus
  <2>2. owner'.pc = "cancel" => \A s \in owner'.target :
          /\ sidecars'[s].status \in {"paused", "revoked"}
          /\ sidecars'[s].name = owner'.name
    BY <1>6 DEF SetStatus, Live, Named, Idle
  <2> QED
    BY <2>1, <2>2
<1>7. CASE CancelJobs
  BY <1>7 DEF CancelJobs, Idle
<1> HIDE DEF StoodSound
<1> QED
  BY <1>2, <1>3, <1>4, <1>5, <1>6, <1>7
     DEF Next, Pairing, Controls, Queueing, Machine, Offer, RedeemRead,
         RedeemRefused, RedeemMark, ToggleStop, Approve, QueueRead, Queue,
         QueueRefused, Authenticate, CheckStop, Sweep, Take, RunOne, Report,
         MachineLost, JobAges, CodeAges, Crash, vars

\* Only the end of set_status adds to the machines that were stood down.
LEMMA StoodFrame ==
    ASSUME [Next]_vars
    PROVE  late \subseteq late' /\ (stood' \subseteq stood \/ CancelJobs)
<1>1. ASSUME NEW n \in Name, NEW granted \in Grants, BrowserRevoke(n, granted)
      PROVE  late' = late /\ stood' \subseteq stood
  BY <1>1 DEF BrowserRevoke
<1>2. ASSUME NEW n \in Name, NEW status \in {"active", "paused", "revoked"},
             SetStatus(n, status)
      PROVE  late' = late /\ stood' \subseteq stood
  BY <1>2 DEF SetStatus
<1>3. ASSUME CancelJobs
      PROVE  late' = late
  BY <1>3 DEF CancelJobs
<1>4. ASSUME NEW j \in Job, NEW capability \in Capability,
             NEW approved \in BOOLEAN, Queue(j, capability, approved)
      PROVE  late \subseteq late' /\ stood' = stood
  BY <1>4 DEF Queue
<1> QED
  BY <1>1, <1>2, <1>3, <1>4
     DEF Next, Pairing, Controls, Queueing, Machine, Offer, RedeemRead,
         RedeemInsert, RedeemRefused, RedeemMark, BrowserInsert, ToggleStop,
         Approve, QueueRead, QueueRefused, Authenticate, CheckStop, Sweep,
         Take, RunOne, Report, MachineLost, JobAges, CodeAges, Crash, vars

\* A name that was used twice stays used twice.
LEMMA ReusedStays ==
    ASSUME TypeOK, [Next]_vars, NEW s \in Sidecar, sidecars[s].status # "absent",
           Reused(s)
    PROVE  Reused(s)'
<1>1. PICK z \in Sidecar : /\ z # s /\ sidecars[z].status # "absent"
                           /\ sidecars[z].name = sidecars[s].name
  BY DEF Reused, Named
<1>2. /\ sidecars'[z].status # "absent"
      /\ sidecars'[z].name = sidecars'[s].name
  BY <1>1, Keeps DEF SidecarsKeep
<1> QED
  BY <1>1, <1>2 DEF Reused, Named

\* What set_status cancels is all there was, unless the name had been used
\* before; what is queued later was queued on an earlier reading.
LEMMA StandDownStep ==
    ASSUME TypeOK, StoodSound, StandDown, [Next]_vars
    PROVE  StandDown'
<1> USE DEF TypeOK, RowsOK, HistoryOK
<1> SUFFICES ASSUME NEW j \in Job, j \notin late', jobs'[j].status \in Open,
                    NEW s \in Sidecar, s = jobs'[j].sidecar, s \in stood'
             PROVE  Reused(s)'
  BY TypeStep DEF StandDown
<1>1. CASE jobs[j].status # "absent"
  <2>1. jobs[j].sidecar = s /\ jobs[j].status \in Open /\ j \notin late
    BY <1>1, Keeps, StoodFrame DEF JobsKeep
  <2>2. CASE s \in stood
    <3>1. sidecars[s].status # "absent" /\ Reused(s)
      BY <2>1, <2>2 DEF StoodSound, StandDown
    <3> QED
      BY <3>1, ReusedStays
  <2>3. CASE s \notin stood
    <3>1. CancelJobs /\ s \in owner.target /\ owner.pc = "cancel"
      BY <2>1, <2>3, StoodFrame DEF CancelJobs
    <3>2. sidecars[s].name = owner.name /\ Named(owner.name) # {s}
      BY <2>1, <3>1 DEF CancelJobs, StoodSound, JobRow, Open
    <3> QED
      <4>1. UNCHANGED sidecars
        BY <3>1 DEF CancelJobs
      <4>2. Reused(s)
        BY <3>2 DEF Reused
      <4> QED
        BY <4>1, <4>2 DEF Reused, Named
  <2> QED
    BY <2>2, <2>3
<1>2. CASE jobs[j].status = "absent"
  <2>1. PICK capability \in Capability, approved \in BOOLEAN :
          Queue(j, capability, approved)
    BY <1>2, JobsFrame DEF Open
  <2>2. sidecars[caller.id].status = "active" /\ jobs'[j].sidecar = caller.id
    BY <2>1 DEF Queue
  <2>3. stood' = stood
    BY <2>1 DEF Queue
  <2> QED
    BY <2>2, <2>3 DEF StoodSound
<1> QED
  BY <1>1, <1>2 DEF JobRow

-----------------------------------------------------------------------------
(* The theorems *)

LEMMA InitInv == Init => IInv
<1> SUFFICES ASSUME Init PROVE IInv
  OBVIOUS
<1> USE InitialRows DEF Init
<1>1. TypeOK
  BY DEF TypeOK, RowsOK, CallsOK, HistoryOK, RedeemCall, OwnerCall, QueueCall,
         Copy
<1>2. RowsSound /\ RedeemSound /\ CallerSound /\ JobsSound
  BY DEF RowsSound, RedeemSound, CallerSound, JobsSound, NoCode, NoSidecar,
         NoJob, Idle
<1>3. RunsSound /\ StoodSound /\ StandDown
  BY DEF RunsSound, StoodSound, StandDown, Held, Running, Idle
<1> QED
  BY <1>1, <1>2, <1>3 DEF IInv

\* The inductive invariant of the sidecars holds in every reachable state.
THEOREM SidecarsInvariant == Spec => []IInv
<1>1. IInv /\ [Next]_vars => IInv'
  BY TypeStep, RowsStep, RedeemStep, CallerStep, JobsStep, RunsStep, StoodStep,
     StandDownStep DEF IInv
<1> QED
  BY InitInv, <1>1, PTL DEF Spec

\* Whatever is lost, restarted, re-paired or claimed by several copies of the
\* program, a machine runs a job once at most, only what its kind can do and
\* the pairing code it came from was offered with, and what always asks only
\* after his yes to that job (next_jobs, may_run, offer_pairing, approve).
THEOREM RunsAsAllowedTheorem == Spec => []RunsAsAllowed
<1>1. IInv => RunsAsAllowed
  <2> SUFFICES ASSUME IInv, NEW j \in Job, ran[j] > 0
               PROVE  LET s == sidecars[jobs[j].sidecar] IN
                      /\ ran[j] = 1
                      /\ jobs[j].capability \in CanDo(s.kind)
                      /\ s.from # None =>
                            jobs[j].capability \in codes[s.from].granted
                      /\ jobs[j].capability \in AlwaysAsk => j \in yes
    BY DEF RunsAsAllowed
  <2>1. /\ ran[j] = 1 /\ jobs[j].status # "absent"
        /\ jobs[j].capability \in AlwaysAsk => j \in yes
    BY DEF IInv, RunsSound
  <2>2. /\ jobs[j].sidecar \in Sidecar
        /\ jobs[j].capability \in CanDo(sidecars[jobs[j].sidecar].kind)
        /\ jobs[j].capability \in sidecars[jobs[j].sidecar].granted
    BY <2>1 DEF IInv, JobsSound
  <2> QED
    BY <2>1, <2>2 DEF IInv, RowsSound
<1> QED
  BY <1>1, SidecarsInvariant, PTL

\* A pairing code never gives two machines a token that works at the same time
\* (redeem_pairing, the unique index on the names of live rows).
THEOREM OneLivePerCodeTheorem == Spec => []OneLivePerCode
<1>1. IInv => OneLivePerCode
  <2> SUFFICES ASSUME IInv, NEW s \in Sidecar, NEW z \in Sidecar, s # z,
                      sidecars[s].from # None,
                      sidecars[s].from = sidecars[z].from,
                      sidecars[s].status # "revoked",
                      sidecars[z].status # "revoked"
               PROVE  FALSE
    BY DEF OneLivePerCode
  <2>1. /\ sidecars[s].status \in {"active", "paused"}
        /\ sidecars[z].status \in {"active", "paused"}
        /\ sidecars[s].name = sidecars[z].name
    BY DEF IInv, TypeOK, RowsOK, SidecarRow, RowsSound
  <2> QED
    BY <2>1 DEF IInv, RowsSound
<1> QED
  BY <1>1, SidecarsInvariant, PTL

\* Once set_status has returned, nothing is open on a machine the owner stood
\* down, unless the name was used before or the job came of an earlier reading
\* (set_status, queue).
THEOREM StandDownTheorem == Spec => []StandDown
<1>1. IInv => StandDown
  BY DEF IInv
<1> QED
  BY <1>1, SidecarsInvariant, PTL

=============================================================================
