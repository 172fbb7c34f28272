------------------------------ MODULE WebTasks ------------------------------
(***************************************************************************)
(* Scoring tasks started from the Web service.  The manager (one process,  *)
(* its API calls serialised by an RLock) starts a supervisor per task, the *)
(* supervisor starts and watches the CLI child.  They share no memory and  *)
(* may die separately: they communicate through tasks.json, a receipt and  *)
(* a cancel file per task, and two flocks whose descriptors are inherited. *)
(*                                                                         *)
(* Sources: app/web_service.py (WebTaskManager), app/web_worker.py.        *)
(***************************************************************************)
EXTENDS Integers

CONSTANTS
    MaxTasks,   \* bound: how many tasks are started
    MaxFaults   \* bound: how many processes die and system calls fail

ASSUME BoundsAssumption == MaxTasks \in Nat /\ MaxFaults \in Nat

VARIABLES
    mem,        \* mem[t]: the manager's status of task t (_tasks)
    snap,       \* snap[t]: its status in tasks.json
    verdict,    \* verdict[t]: the last terminal status of t that the API has shown
    mgr,        \* what the manager is doing
    receipt,    \* receipt[t]: the status in the receipt file
    request,    \* request[t]: the cancel file exists
    sup,        \* sup[t]: what the supervisor of t does next
    note,       \* note[t]: the status in the supervisor's own receipt record
    child,      \* child[t]: the CLI process
    told,       \* told[t]: the supervisor has signalled it
    old,        \* the worker that an old version started
    faults      \* failures so far

files   == <<receipt, request>>
workers == <<sup, note, child, told>>
vars    == <<mem, snap, verdict, mgr, files, workers, old, faults>>

\* Task 0 was recorded by a version that kept only a pid, perhaps not even
\* that: it has no token and no leases.
Old      == 0
Tasks    == 1..MaxTasks
Listed   == 0..MaxTasks

Terminal == {"finished", "failed", "cancelled", "interrupted"}
Open     == {"queued", "running", "cancelling", "unknown"}
Status   == {"absent"} \cup Open \cup Terminal
Verdicts == {"finished", "failed", "cancelled"}
Notes    == {"queued", "running", "cancelling"} \cup Verdicts

\* How a child ended: exit status 0, exit status 130, by SIGTERM, otherwise.
Exits    == {"zero", "130", "sigterm", "other"}

SupLoop  == {"announce", "poll", "watch", "tell", "kill"}
SupOver  == {"none", "dead"}
SupAlive == {"boot", "check", "final", "exit", "drain"} \cup SupLoop

\* op is the API call in progress ("boot": the constructor), arg the task it
\* cancels or starts; todo are the tasks its reconciliation has still to
\* examine, busy and seen what it saw of the lease and the receipt of the one
\* it examines, changed whether a task has changed.
ManagerStates ==
    [pc : {"down", "idle", "reconcile", "receipt", "judge", "answer", "spawn", "request"},
     op : {"boot", "list", "start", "cancel"}, arg : Listed,
     todo : SUBSET Listed, busy : BOOLEAN, seen : {"none"} \cup Notes, changed : BOOLEAN]

Manager(pc) == [pc |-> pc, op |-> "boot", arg |-> Old, todo |-> {},
                busy |-> FALSE, seen |-> "none", changed |-> FALSE]

Init ==
    /\ snap \in {[t \in Listed |-> IF t = Old THEN s ELSE "absent"] :
                     s \in {"absent", "running", "interrupted"}}
    /\ old \in IF snap[Old] = "absent" THEN {"none"} ELSE {"alive", "gone", "pidless"}
    /\ mem = [t \in Listed |-> "absent"]
    /\ verdict = [t \in Tasks |-> "none"]
    /\ mgr = Manager("down")
    /\ receipt = [t \in Tasks |-> "none"]
    /\ request = [t \in Tasks |-> FALSE]
    /\ sup = [t \in Tasks |-> "none"]
    /\ note = [t \in Tasks |-> "queued"]
    /\ child = [t \in Tasks |-> "none"]
    /\ told = [t \in Tasks |-> FALSE]
    /\ faults = 0

Fault == faults < MaxFaults /\ faults' = faults + 1

-----------------------------------------------------------------------------
(* Leases: a flock is held as long as one inherited descriptor is open.    *)

\* The manager closes its descriptors before the call that opened them ends.
ManagerHolds(t) == mgr.pc = "spawn" /\ mgr.arg = t

\* Fault: the child is started without the descriptor.
LeaseHeld_NotByChild(t) == ManagerHolds(t) \/ sup[t] \in SupAlive

LeaseHeld(t)   == ManagerHolds(t) \/ sup[t] \in SupAlive \/ child[t] = "alive"
\* The child does not inherit the control lease, and a supervisor that only
\* waits for its child has closed it.
ControlHeld(t) == ManagerHolds(t) \/ sup[t] \in SupAlive \ {"drain"}

-----------------------------------------------------------------------------
(* The manager: a call begins with a reconciliation.                       *)

\* A terminal status is not examined again; that of an old task that was
\* interrupted is, every time.
Examined(m) == {t \in Listed : m[t] \in Open \/ (t = Old /\ m[t] = "interrupted")}

\* Fault: a manager takes every open task for interrupted when it starts.
Restart_Interrupts ==
    /\ mgr.pc = "down"
    /\ mem' = [t \in Listed |-> IF snap[t] \in Open THEN "interrupted" ELSE snap[t]]
    /\ mgr' = [Manager("reconcile") EXCEPT !.changed = TRUE]
    /\ UNCHANGED <<snap, verdict, files, workers, old, faults>>

\* A manager starts: _load, then the constructor's _reconcile and _persist.
Restart ==
    /\ mgr.pc = "down"
    /\ mem' = snap
    /\ mgr' = [Manager("reconcile") EXCEPT !.todo = Examined(snap), !.changed = TRUE]
    /\ UNCHANGED <<snap, verdict, files, workers, old, faults>>

\* An API call takes the lock.
Call(o, t) ==
    /\ mgr.pc = "idle"
    /\ o = "cancel" => mem[t] # "absent"
    /\ mgr' = [Manager("reconcile") EXCEPT !.op = o, !.arg = t, !.todo = Examined(mem)]
    /\ UNCHANGED <<mem, snap, verdict, files, workers, old, faults>>

\* Tasks are examined in the order of creation.
Current(t) == t \in mgr.todo /\ \A u \in mgr.todo : t <= u

\* The status of t becomes s.  A task that stays unknown may get another
\* error text, and then counts as changed.
Settle(t, s) ==
    /\ mem' = [mem EXCEPT ![t] = s]
    /\ \E more \in {mem[t] # s, mem[t] # s \/ s = "unknown"} :
          mgr' = [mgr EXCEPT !.pc = "reconcile", !.todo = @ \ {t},
                             !.busy = FALSE, !.seen = "none", !.changed = @ \/ more]
    /\ UNCHANGED <<snap, verdict, files, workers, old>>

\* An old task: without a pid, or while a process has that pid (the worker or
\* a stranger), nothing is known; otherwise run.lock, which any command may
\* hold or release at any time, decides.
CheckOld ==
    /\ mgr.pc = "reconcile" /\ Current(Old)
    /\ \/ Settle(Old, "unknown")
       \/ old = "gone" /\ Settle(Old, "interrupted")
    /\ UNCHANGED faults

\* A task with leases: lease, receipt and control lease are read one after
\* the other while its processes go on.
ReadLease(t) ==
    /\ mgr.pc = "reconcile" /\ Current(t)
    /\ mgr' = [mgr EXCEPT !.pc = "receipt", !.busy = LeaseHeld(t)]
    /\ UNCHANGED <<mem, snap, verdict, files, workers, old, faults>>

ReadReceipt(t) ==
    /\ mgr.pc = "receipt" /\ Current(t)
    /\ mgr' = [mgr EXCEPT !.pc = "judge", !.seen = receipt[t]]
    /\ UNCHANGED <<mem, snap, verdict, files, workers, old, faults>>

\* Fault: the lease is tested after the receipt has been read.
Judgement_LeaseLast(t) ==
    IF LeaseHeld(t)
    THEN IF ControlHeld(t) /\ mgr.seen \in {"running", "cancelling"} THEN mgr.seen ELSE "unknown"
    ELSE IF mgr.seen \in Verdicts THEN mgr.seen ELSE "interrupted"

\* Fault: a task without any evidence stays unknown.
Judgement_NeverInterrupted(t) ==
    IF ~mgr.busy /\ mgr.seen \in Verdicts THEN mgr.seen
    ELSE IF mgr.busy /\ ControlHeld(t) /\ mgr.seen \in {"running", "cancelling"} THEN mgr.seen
    ELSE "unknown"

Judgement(t) ==
    IF mgr.busy
    THEN IF ControlHeld(t) /\ mgr.seen \in {"running", "cancelling"} THEN mgr.seen ELSE "unknown"
    ELSE IF mgr.seen \in Verdicts THEN mgr.seen ELSE "interrupted"

Judge(t) ==
    /\ mgr.pc = "judge" /\ Current(t)
    /\ Settle(t, Judgement(t))
    /\ UNCHANGED faults

\* Evidence that cannot be read.
ReadFails(t) ==
    /\ mgr.pc \in {"reconcile", "receipt"} \/ (mgr.pc = "judge" /\ mgr.busy)
    /\ Current(t)
    /\ Fault
    /\ Settle(t, "unknown")

\* _persist, when something has changed.  When it fails the call raises (and
\* a constructor that raises is no manager), but statuses in memory stay.
Reconciled == mgr.pc = "reconcile" /\ mgr.todo = {}

Save ==
    /\ Reconciled /\ mgr.changed
    /\ snap' = mem
    /\ mgr' = [mgr EXCEPT !.pc = "answer"]
    /\ UNCHANGED <<mem, verdict, files, workers, old, faults>>

SaveFails ==
    /\ Reconciled /\ mgr.changed
    /\ Fault
    /\ mgr' = Manager(IF mgr.op = "boot" THEN "down" ELSE "idle")
    /\ UNCHANGED <<mem, snap, verdict, files, workers, old>>

-----------------------------------------------------------------------------
(* The manager: the rest of each call                                      *)

Answer(o) ==
    /\ mgr.pc = "answer" \/ (Reconciled /\ ~mgr.changed)
    /\ mgr.op = o

\* The API shows the status of the tasks in S.
Show(S) ==
    verdict' = [t \in Tasks |-> IF t \in S /\ mem[t] \in Terminal THEN mem[t] ELSE verdict[t]]

Booted ==
    /\ Answer("boot")
    /\ mgr' = Manager("idle")
    /\ UNCHANGED <<mem, snap, verdict, files, workers, old, faults>>

List ==
    /\ Answer("list")
    /\ mgr' = Manager("idle")
    /\ Show(Tasks)
    /\ UNCHANGED <<mem, snap, files, workers, old, faults>>

\* start is refused when a task is open (active), when run.lock is busy or
\* when the configuration is invalid.
StartRefused ==
    /\ Answer("start")
    /\ mgr' = Manager("idle")
    /\ UNCHANGED <<mem, snap, verdict, files, workers, old, faults>>

\* Fault: only tasks with leases count as active.
Start_IgnoresOld(t) ==
    /\ Answer("start")
    /\ \A u \in Tasks : mem[u] \notin Open
    /\ mem[t] = "absent" /\ \A u \in 1..(t - 1) : mem[u] # "absent"
    /\ mem' = [mem EXCEPT ![t] = "queued"]
    /\ snap' = mem'
    /\ mgr' = [Manager("spawn") EXCEPT !.arg = t]
    /\ UNCHANGED <<verdict, files, workers, old, faults>>

\* Fault: the task is saved only when its status changes.
Start_Unsaved(t) ==
    /\ Answer("start")
    /\ \A u \in Listed : mem[u] \notin Open
    /\ mem[t] = "absent" /\ \A u \in 1..(t - 1) : mem[u] # "absent"
    /\ mem' = [mem EXCEPT ![t] = "queued"]
    /\ mgr' = [Manager("spawn") EXCEPT !.arg = t]
    /\ UNCHANGED <<snap, verdict, files, workers, old, faults>>

\* A new task: leases are created and locked, the specification is written,
\* the task is saved.  What could not be saved will not be started.
Start(t) ==
    /\ Answer("start")
    /\ \A u \in Listed : mem[u] \notin Open
    /\ mem[t] = "absent" /\ \A u \in 1..(t - 1) : mem[u] # "absent"
    /\ \/ /\ mem' = [mem EXCEPT ![t] = "queued"]
          /\ snap' = mem'
          /\ mgr' = [Manager("spawn") EXCEPT !.arg = t]
          /\ UNCHANGED faults
       \/ /\ Fault
          /\ mgr' = Manager("idle")
          /\ UNCHANGED <<mem, snap>>
    /\ UNCHANGED <<verdict, files, workers, old>>

\* The manager closes its descriptors; the supervisor keeps the leases.
Spawn ==
    /\ mgr.pc = "spawn"
    /\ sup' = [sup EXCEPT ![mgr.arg] = "boot"]
    /\ mgr' = Manager("idle")
    /\ UNCHANGED <<mem, snap, verdict, files, note, child, told, old, faults>>

\* Popen fails: the task has failed, whether or not that can be saved.
SpawnFails ==
    /\ mgr.pc = "spawn"
    /\ Fault
    /\ mem' = [mem EXCEPT ![mgr.arg] = "failed"]
    /\ snap' \in {mem', snap}
    /\ mgr' = Manager("idle")
    /\ UNCHANGED <<verdict, files, workers, old>>

\* A task that is over is only verdict; one that cannot be cancelled, because it
\* is old or its supervisor is not in control, makes the call raise.
Cancel ==
    /\ Answer("cancel")
    /\ IF mem[mgr.arg] \in Terminal
       THEN Show({mgr.arg}) /\ mgr' = Manager("idle")
       ELSE /\ mgr' = IF mgr.arg # Old /\ ControlHeld(mgr.arg)
                      THEN [mgr EXCEPT !.pc = "request"] ELSE Manager("idle")
            /\ UNCHANGED verdict
    /\ UNCHANGED <<mem, snap, files, workers, old, faults>>

\* The request is only a file: it is safe whatever has happened in between.
Request ==
    /\ mgr.pc = "request"
    /\ mgr' = Manager("idle")
    /\ \/ request' = [request EXCEPT ![mgr.arg] = TRUE] /\ UNCHANGED faults
       \/ UNCHANGED request /\ Fault
    /\ UNCHANGED <<mem, snap, verdict, receipt, workers, old>>

-----------------------------------------------------------------------------
(* The supervisor                                                          *)

Sup(t, from, to) == sup[t] = from /\ sup' = [sup EXCEPT ![t] = to]

Note(t, s) == note' = [note EXCEPT ![t] = s]

\* The supervisor is over, and with it its variables.
Leave(t) ==
    /\ sup' = [sup EXCEPT ![t] = "dead"]
    /\ note' = [note EXCEPT ![t] = "queued"]
    /\ told' = [told EXCEPT ![t] = FALSE]

managerVars == <<mem, snap, verdict, mgr>>

\* Fault: the receipt says what failed instead of a status.
SupRaises_NoStatus(t) ==
    IF child[t] = "alive"
    THEN sup' = [sup EXCEPT ![t] = "drain"] /\ UNCHANGED note
    ELSE sup' = [sup EXCEPT ![t] = "final"] /\ Note(t, "error")

\* The except clause: while the child lives its supervisor closes the
\* control lease, waits, and leaves no verdict.
SupRaises(t) ==
    IF child[t] = "alive"
    THEN sup' = [sup EXCEPT ![t] = "drain"] /\ UNCHANGED note
    ELSE sup' = [sup EXCEPT ![t] = "final"] /\ Note(t, "failed")

\* The specification is read before the try block.
Boot(t) ==
    /\ sup[t] = "boot"
    /\ \/ Sup(t, "boot", "check") /\ UNCHANGED <<note, told, faults>>
       \/ Leave(t) /\ Fault
    /\ UNCHANGED <<managerVars, files, child, old>>

\* A request that is already there prevents the child.
Check(t) ==
    /\ sup[t] = "check"
    /\ \/ request[t] /\ Sup(t, "check", "final") /\ Note(t, "cancelled") /\ UNCHANGED <<child, faults>>
       \/ /\ ~request[t] /\ Sup(t, "check", "announce") /\ Note(t, "running")
          /\ child' = [child EXCEPT ![t] = "alive"]
          /\ UNCHANGED faults
       \/ SupRaises(t) /\ Fault /\ UNCHANGED child
    /\ UNCHANGED <<managerVars, files, told, old>>

\* A receipt is written, by replacing the file.
WriteReceipt(t, from, to) ==
    /\ sup[t] = from
    /\ \/ Sup(t, from, to) /\ receipt' = [receipt EXCEPT ![t] = note[t]] /\ UNCHANGED <<note, faults>>
       \/ SupRaises(t) /\ Fault /\ UNCHANGED receipt
    /\ UNCHANGED <<managerVars, request, child, told, old>>

Announce(t) == WriteReceipt(t, "announce", "poll")

Outcome(t) ==
    CASE child[t] = "130" -> "cancelled"
      [] child[t] = "sigterm" -> IF note[t] = "cancelling" THEN "cancelled" ELSE "failed"
      [] child[t] = "zero" -> "finished"
      [] child[t] = "other" -> "failed"

Poll(t) ==
    /\ \/ child[t] = "alive" /\ Sup(t, "poll", "watch") /\ UNCHANGED note
       \/ child[t] \in Exits /\ Sup(t, "poll", "final") /\ Note(t, Outcome(t))
    /\ UNCHANGED <<managerVars, files, child, told, old, faults>>

Watch(t) ==
    /\ sup[t] = "watch"
    /\ \/ /\ note[t] # "cancelling" /\ request[t]
          /\ Sup(t, "watch", "tell") /\ Note(t, "cancelling") /\ UNCHANGED faults
       \/ /\ note[t] = "cancelling" \/ ~request[t]
          /\ Sup(t, "watch", "poll") /\ UNCHANGED <<note, faults>>
       \/ note[t] # "cancelling" /\ SupRaises(t) /\ Fault
    /\ UNCHANGED <<managerVars, files, child, told, old>>

\* Fault: the receipt says "cancelling", the child hears nothing.
Tell_Only(t) == WriteReceipt(t, "tell", "poll")

Tell(t) == WriteReceipt(t, "tell", "kill")

\* The child has not been reaped, so its process group is still its own.
Kill(t) ==
    /\ Sup(t, "kill", "poll")
    /\ told' = [told EXCEPT ![t] = TRUE]
    /\ UNCHANGED <<managerVars, files, note, child, old, faults>>

Drain(t) ==
    /\ sup[t] = "drain" /\ child[t] # "alive"
    /\ Leave(t)
    /\ UNCHANGED <<managerVars, files, child, old, faults>>

\* The verdict is written while the leases are still held.
Final(t) ==
    /\ sup[t] = "final"
    /\ \/ /\ Sup(t, "final", "exit") /\ receipt' = [receipt EXCEPT ![t] = note[t]]
          /\ UNCHANGED <<note, told, faults>>
       \/ Leave(t) /\ Fault /\ UNCHANGED receipt
    /\ UNCHANGED <<managerVars, request, child, old>>

Exit(t) ==
    /\ sup[t] = "exit"
    /\ Leave(t)
    /\ UNCHANGED <<managerVars, files, child, old, faults>>

-----------------------------------------------------------------------------
(* The CLI child, and the worker of an old version                         *)

\* It finishes, fails (perhaps because run.lock is taken), or is stopped, by
\* its supervisor or by others.
ChildEnds(t) ==
    /\ child[t] = "alive"
    /\ \E e \in Exits : child' = [child EXCEPT ![t] = e]
    /\ UNCHANGED <<managerVars, files, sup, note, told, old, faults>>

OldEnds ==
    /\ old = "alive" /\ old' = "gone"
    /\ UNCHANGED <<managerVars, files, workers, faults>>

-----------------------------------------------------------------------------
(* Crashes                                                                 *)

Forget == mem' = [t \in Listed |-> "absent"] /\ mgr' = Manager("down")

\* Sessions of their own let the workers survive the manager.
ManagerDies ==
    /\ mgr.pc # "down" /\ Fault
    /\ Forget
    /\ UNCHANGED <<snap, verdict, files, workers, old>>

SupDies(t) ==
    /\ sup[t] \in SupAlive /\ Fault
    /\ Leave(t)
    /\ UNCHANGED <<managerVars, files, child, old>>

\* The container is destroyed.
HostDies ==
    /\ Fault
    /\ Forget
    /\ sup' = [t \in Tasks |-> IF sup[t] \in SupAlive THEN "dead" ELSE sup[t]]
    /\ note' = [t \in Tasks |-> "queued"]
    /\ told' = [t \in Tasks |-> FALSE]
    /\ child' = [t \in Tasks |-> IF child[t] = "alive" THEN "other" ELSE child[t]]
    /\ old' = IF old = "alive" THEN "gone" ELSE old
    /\ UNCHANGED <<snap, verdict, files>>

-----------------------------------------------------------------------------
(* Specification *)

ManagerStep ==
    \/ Restart \/ CheckOld \/ Save \/ Booted \/ List \/ StartRefused \/ Spawn \/ Cancel \/ Request
    \/ \E t \in Tasks : ReadLease(t) \/ ReadReceipt(t) \/ Judge(t) \/ Start(t)

SupStep(t) ==
    \/ Boot(t) \/ Check(t) \/ Announce(t) \/ Poll(t) \/ Watch(t) \/ Tell(t) \/ Kill(t)
    \/ Drain(t) \/ Final(t) \/ Exit(t)

Next ==
    \/ ManagerStep \/ SaveFails \/ SpawnFails
    \/ Call("list", Old) \/ Call("start", Old)
    \/ \E t \in Listed : Call("cancel", t)
    \/ \E t \in Tasks : ReadFails(t) \/ SupStep(t) \/ ChildEnds(t) \/ SupDies(t)
    \/ OldEnds
    \/ ManagerDies \/ HostDies

Spec == Init /\ [][Next]_vars

\* Processes are scheduled, and a manager that died is started again; none
\* waits for another except as modelled.  The page polls the list (strong,
\* because other calls may come in between).  A child need not ever end.
FairSpec ==
    /\ Spec
    /\ WF_vars(ManagerStep)
    /\ SF_vars(Call("list", Old))
    /\ \A t \in Tasks : WF_vars(SupStep(t))

-----------------------------------------------------------------------------
(* Properties *)

\* Types of all variables.
TypeOK ==
    /\ mem \in [Listed -> Status]
    /\ snap \in [Listed -> Status]
    /\ verdict \in [Tasks -> {"none"} \cup Terminal]
    /\ mgr \in ManagerStates
    /\ receipt \in [Tasks -> {"none"} \cup Notes]
    /\ request \in [Tasks -> BOOLEAN]
    /\ sup \in [Tasks -> SupOver \cup SupAlive]
    /\ note \in [Tasks -> Notes]
    /\ child \in [Tasks -> {"none", "alive"} \cup Exits]
    /\ told \in [Tasks -> BOOLEAN]
    /\ old \in {"none", "alive", "gone", "pidless"}
    /\ faults \in 0..MaxFaults

Working(t) == sup[t] \in SupAlive \/ child[t] = "alive"

\* A task that is over, in the manager's memory, on disk or in an answer, has
\* no process left: neither its supervisor nor, when that has died, its child
\* (_reconcile, web_service.py:535-568).
OverMeansGone ==
    \A t \in Tasks : Working(t) =>
        mem[t] \notin Terminal /\ snap[t] \notin Terminal /\ verdict[t] = "none"

\* There is never a second worker in the work directory, whatever dies and is
\* restarted, and none next to the worker of an old version
\* (start, web_service.py:594-598).
OneWorker ==
    \A t \in Tasks : Working(t) => old # "alive" /\ \A u \in Tasks \ {t} : ~Working(u)

\* tasks.json has every worker as an open task, so that a manager started
\* after any crash finds it (_persist before Popen, web_service.py:669-690).
NoWorkerForgotten == \A t \in Tasks : Working(t) => snap[t] \in Open

\* A verdict that was shown is that of the child: "finished" and "cancelled"
\* say how it ended (or that it was prevented), "interrupted" that nobody
\* recorded a verdict; only a failure can make a successful child "failed"
\* (supervise, web_worker.py:92-130).
VerdictIsTrue ==
    \A t \in Tasks :
        /\ verdict[t] = "finished" => child[t] = "zero"
        /\ verdict[t] = "cancelled" =>
               \/ child[t] = "130"
               \/ child[t] \in {"none", "sigterm"} /\ request[t]
        /\ verdict[t] = "interrupted" => receipt[t] \notin Verdicts
        /\ verdict[t] = "failed" /\ child[t] = "zero" => faults > 0

\* What the API said of a task that was over it says for ever, over restarts
\* and failed writes.  Excepted are tasks whose supervisor could not be started.
VerdictIsFinal ==
    [][\A t \in Tasks : verdict[t] # "none" /\ sup[t] # "none" => verdict'[t] = verdict[t]]_vars

\* A cancel request reaches the child, unless its supervisor is dead or, after
\* a failure, only waits (supervise, web_worker.py:112-118).
CancelIsHeard ==
    \A t \in Tasks : request[t] ~> (told[t] \/ sup[t] \in {"drain", "dead"})

\* A recorded task whose child ends is eventually verdict to be over.
TaskEnds ==
    \A t \in Tasks :
        []<>(child[t] # "alive") => (snap[t] # "absent" ~> verdict[t] # "none")
=============================================================================
