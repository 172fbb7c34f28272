--------------------------- MODULE WebTasksProofs ---------------------------
(***************************************************************************)
(* Proofs about WebTasks, for any number of tasks and failures: whatever   *)
(* dies, there is at most one worker, tasks.json knows it, no task is      *)
(* called over while its worker lives, and a verdict that the API has      *)
(* shown is the fate of the child and never changes.                       *)
(***************************************************************************)
EXTENDS WebTasks, TLAPS

-----------------------------------------------------------------------------
(* The inductive invariant                                                 *)

\* A worker is alone, recorded as open, and nobody has called it over.
WorkersKnown ==
    \A t \in Tasks : Working(t) =>
        /\ snap[t] \in Open /\ verdict[t] = "none"
        /\ mem[t] \in Open \/ (mem[t] = "absent" /\ mgr.pc = "down")
        /\ old # "alive"
        /\ \A u \in Tasks \ {t} : ~Working(u)

\* Memory and disk list the same tasks while the manager runs, and every task
\* with a verdict is on disk.
SameTasks ==
    /\ mgr.pc # "down" => \A t \in Listed : mem[t] = "absent" <=> snap[t] = "absent"
    /\ \A t \in Tasks : verdict[t] # "none" => snap[t] # "absent"
    /\ \A t \in mgr.todo : mem[t] # "absent"
    /\ mgr.pc = "answer" => mgr.todo = {}

\* A lease that was seen free stays free.
FreeLease ==
    mgr.pc \in {"receipt", "judge"} /\ ~mgr.busy =>
        \A t \in Tasks : Current(t) => ~Working(t)

\* A living worker of an old version blocks every start.
OldStatus == Open \cup {"interrupted"}

OldKnown ==
    old = "alive" =>
        /\ snap[Old] \in OldStatus
        /\ mgr.pc # "down" => mem[Old] \in OldStatus
        /\ mgr.pc \in {"reconcile", "receipt", "judge", "answer"} /\ Old \notin mgr.todo =>
               mem[Old] \in Open

\* Before Popen the new task is on disk and nothing else runs.
Spawning ==
    mgr.pc = "spawn" =>
        /\ mgr.arg \in Tasks
        /\ mem[mgr.arg] = "queued" /\ snap[mgr.arg] = "queued" /\ verdict[mgr.arg] = "none"
        /\ old # "alive"
        /\ \A u \in Tasks : ~Working(u)

IInv == TypeOK /\ WorkersKnown /\ SameTasks /\ FreeLease /\ OldKnown /\ Spawning

LEMMA IdleManager == \A pc \in {"down", "idle", "reconcile", "spawn"} : Manager(pc) \in ManagerStates
BY BoundsAssumption DEF Manager, ManagerStates, Listed, Old, Notes

LEMMA Lists == Old \in Listed /\ Old \notin Tasks /\ Tasks \subseteq Listed /\ Listed = Tasks \cup {Old}
BY BoundsAssumption DEF Old, Listed, Tasks

LEMMA InitIInv == Init => IInv
<1> SUFFICES ASSUME Init PROVE IInv
  OBVIOUS
<1> USE Lists
<1>1. TypeOK
  BY IdleManager, BoundsAssumption
  DEF Init, TypeOK, Status, Open, Terminal, Notes, SupOver
<1>2. \A t \in Tasks : ~Working(t)
  BY DEF Init, Working, SupAlive, SupLoop
<1> QED
  BY <1>1, <1>2
  DEF Init, IInv, WorkersKnown, SameTasks, FreeLease, OldKnown, Spawning, Manager, OldStatus, Open

-----------------------------------------------------------------------------
(* Steps of the workers                                                    *)

\* Workers come to an end, they do not appear; the manager's knowledge stays.
LEMMA FewerWorkers ==
    ASSUME IInv, TypeOK', UNCHANGED <<mem, snap, verdict, mgr>>,
           old' = old \/ old' # "alive",
           \A t \in Tasks : Working(t)' => Working(t)
    PROVE  IInv'
<1> USE DEF IInv
<1>1. WorkersKnown'
  BY DEF WorkersKnown
<1>2. SameTasks'
  BY DEF SameTasks
<1>3. FreeLease'
  BY Lists DEF FreeLease, Current
<1>4. OldKnown'
  BY DEF OldKnown
<1>5. Spawning'
  BY DEF Spawning
<1> QED
  BY <1>1, <1>2, <1>3, <1>4, <1>5

LEMMA SupType ==
    ASSUME TypeOK, NEW t \in Tasks, SupStep(t)
    PROVE  /\ UNCHANGED <<managerVars, request, old>>
           /\ receipt' \in [Tasks -> {"none"} \cup Notes]
           /\ sup' \in [Tasks -> SupOver \cup SupAlive]
           /\ note' \in [Tasks -> Notes]
           /\ child' \in [Tasks -> {"none", "alive"} \cup Exits]
           /\ told' \in [Tasks -> BOOLEAN]
           /\ faults' \in 0..MaxFaults
           /\ sup[t] \in SupAlive
           /\ \A u \in Tasks \ {t} : sup'[u] = sup[u] /\ child'[u] = child[u]
<1> USE BoundsAssumption DEF TypeOK, SupOver, SupAlive, SupLoop, Notes, Verdicts, Exits, managerVars, files, Fault
<1>1. CASE Boot(t)
  <2>1. CASE Leave(t) /\ Fault
    BY <1>1, <2>1 DEF Boot, Leave
  <2>2. CASE Sup(t, "boot", "check") /\ UNCHANGED <<note, told, faults>>
    BY <1>1, <2>2 DEF Boot, Sup
  <2> QED
    BY <1>1, <2>1, <2>2 DEF Boot
<1>2. CASE Check(t)
  BY <1>2 DEF Check, Sup, Note, SupRaises
<1>3. CASE Announce(t)
  BY <1>3 DEF Announce, WriteReceipt, Sup, Note, SupRaises
<1>4. CASE Poll(t)
  <2>1. child[t] \in Exits => Outcome(t) \in Notes
    BY DEF Outcome
  <2> QED
    BY <1>4, <2>1 DEF Poll, Sup, Note
<1>5. CASE Watch(t)
  BY <1>5 DEF Watch, Sup, Note, SupRaises
<1>6. CASE Tell(t)
  BY <1>6 DEF Tell, WriteReceipt, Sup, Note, SupRaises
<1>7. CASE Kill(t)
  BY <1>7 DEF Kill, Sup
<1>8. CASE Drain(t)
  BY <1>8 DEF Drain, Leave
<1>9. CASE Final(t)
  <2>1. CASE Leave(t) /\ Fault /\ UNCHANGED receipt
    BY <1>9, <2>1 DEF Final, Leave
  <2>2. CASE Sup(t, "final", "exit") /\ receipt' = [receipt EXCEPT ![t] = note[t]]
                                    /\ UNCHANGED <<note, told, faults>>
    BY <1>9, <2>2 DEF Final, Sup
  <2> QED
    BY <1>9, <2>1, <2>2 DEF Final
<1>10. CASE Exit(t)
  BY <1>10 DEF Exit, Leave
<1> QED
  BY <1>1, <1>2, <1>3, <1>4, <1>5, <1>6, <1>7, <1>8, <1>9, <1>10 DEF SupStep

LEMMA SupKeepsIInv ==
    ASSUME IInv, NEW t \in Tasks, SupStep(t)
    PROVE  IInv'
<1>1. TypeOK'
  BY SupType DEF IInv, TypeOK, managerVars
<1>2. \A u \in Tasks : Working(u)' => Working(u)
  BY SupType DEF IInv, Working
<1> QED
  BY <1>1, <1>2, SupType, FewerWorkers DEF IInv, managerVars

LEMMA OthersKeepIInv ==
    ASSUME IInv, \/ OldEnds
                 \/ \E t \in Tasks : ChildEnds(t) \/ SupDies(t)
    PROVE  IInv'
<1> USE BoundsAssumption DEF IInv, managerVars, files, workers
<1>1. CASE OldEnds
  <2>1. TypeOK'
    BY <1>1 DEF OldEnds, TypeOK
  <2> QED
    BY <1>1, <2>1, FewerWorkers DEF OldEnds, Working
<1>2. ASSUME NEW t \in Tasks, ChildEnds(t) PROVE IInv'
  <2>1. TypeOK'
    BY <1>2 DEF ChildEnds, TypeOK
  <2>2. \A u \in Tasks : Working(u)' => Working(u)
    BY <1>2 DEF ChildEnds, TypeOK, Working
  <2> QED
    BY <1>2, <2>1, <2>2, FewerWorkers DEF ChildEnds
<1>3. ASSUME NEW t \in Tasks, SupDies(t) PROVE IInv'
  <2>1. TypeOK'
    BY <1>3 DEF SupDies, Leave, Fault, TypeOK, SupOver, Notes
  <2>2. \A u \in Tasks : Working(u)' => Working(u)
    BY <1>3 DEF SupDies, Leave, TypeOK, Working
  <2> QED
    BY <1>3, <2>1, <2>2, FewerWorkers DEF SupDies
<1> QED
  BY <1>1, <1>2, <1>3

-----------------------------------------------------------------------------
(* Steps of the manager                                                    *)

LEMMA SameWorkers == UNCHANGED workers => \A t \in Tasks : Working(t)' <=> Working(t)
BY DEF workers, Working

\* Between calls the manager owes nothing but what memory and disk say.
LEMMA CallOver ==
    ASSUME IInv, mgr' = Manager("idle"), mgr.pc # "down", UNCHANGED <<workers, old>>,
           TypeOK',
           SameTasks',
           \A t \in Tasks : Working(t) => /\ mem'[t] \in Open /\ snap'[t] \in Open
                                         /\ verdict'[t] = "none",
           old = "alive" => mem'[Old] \in OldStatus /\ snap'[Old] \in OldStatus
    PROVE  IInv'
<1> USE SameWorkers DEF IInv, Manager
<1>1. WorkersKnown'
  BY DEF WorkersKnown
<1>2. FreeLease' /\ OldKnown' /\ Spawning'
  BY DEF FreeLease, OldKnown, Spawning
<1> QED
  BY <1>1, <1>2

\* The status of one task becomes s, after it has been examined.
LEMMA SettleKeepsIInv ==
    ASSUME IInv, mgr.pc \in {"reconcile", "receipt", "judge"}, faults' \in 0..MaxFaults,
           NEW t \in Listed, Current(t), NEW s, Settle(t, s),
           s \in Open \cup Terminal,
           t \in Tasks /\ Working(t) => s \in Open,
           t = Old /\ old = "alive" => s \in Open
    PROVE  IInv'
<1> USE Lists, SameWorkers DEF IInv, Settle
<1>1. /\ mem' = [mem EXCEPT ![t] = s]
      /\ mgr' \in ManagerStates /\ mgr'.pc = "reconcile" /\ mgr'.todo = mgr.todo \ {t}
      /\ UNCHANGED <<snap, verdict, files, workers, old>>
  <2>1. PICK more \in BOOLEAN :
          mgr' = [mgr EXCEPT !.pc = "reconcile", !.todo = @ \ {t},
                             !.busy = FALSE, !.seen = "none", !.changed = @ \/ more]
    OBVIOUS
  <2>2. mgr \in ManagerStates
    BY DEF TypeOK
  <2>3. mgr.changed \/ more \in BOOLEAN
    BY <2>2 DEF ManagerStates
  <2> QED
    BY <2>1, <2>2, <2>3 DEF ManagerStates
<1>2. TypeOK'
  BY <1>1 DEF TypeOK, Status, files, workers
<1>3. WorkersKnown'
  BY <1>1 DEF WorkersKnown, TypeOK
<1>4. SameTasks'
  BY <1>1 DEF SameTasks, TypeOK, Current, Open, Terminal
<1>5. FreeLease' /\ Spawning'
  BY <1>1 DEF FreeLease, Spawning
<1>6. OldKnown'
  BY <1>1 DEF OldKnown, OldStatus, TypeOK
<1> QED
  BY <1>2, <1>3, <1>4, <1>5, <1>6

LEMMA RestartKeepsIInv == ASSUME IInv, Restart PROVE IInv'
<1> USE Lists, SameWorkers DEF IInv, Restart, Manager
<1>1. TypeOK'
  BY IdleManager DEF TypeOK, ManagerStates, Notes, Examined, files, workers
<1>2. WorkersKnown'
  BY DEF WorkersKnown
<1>3. SameTasks'
  BY DEF SameTasks, Examined, Open
<1>4. FreeLease' /\ Spawning'
  BY DEF FreeLease, Spawning
<1>5. OldKnown'
  BY DEF OldKnown, OldStatus, Examined
<1> QED
  BY <1>1, <1>2, <1>3, <1>4, <1>5

LEMMA CallKeepsIInv == ASSUME IInv, NEW o \in {"list", "start", "cancel"},
                              NEW t \in Listed, Call(o, t) PROVE IInv'
<1> USE Lists, SameWorkers DEF IInv, Call, Manager
<1>1. TypeOK'
  BY DEF TypeOK, ManagerStates, Notes, Examined, files, workers
<1>2. WorkersKnown'
  BY DEF WorkersKnown
<1>3. SameTasks'
  BY DEF SameTasks, Examined, Open
<1>4. FreeLease' /\ Spawning'
  BY DEF FreeLease, Spawning
<1>5. OldKnown'
  BY DEF OldKnown, OldStatus, Examined
<1> QED
  BY <1>1, <1>2, <1>3, <1>4, <1>5

LEMMA OneCurrent == \A t, u \in Tasks : Current(t) /\ Current(u) => t = u
<1> SUFFICES ASSUME NEW t \in Tasks, NEW u \in Tasks, Current(t), Current(u) PROVE t = u
  OBVIOUS
<1>1. t \in Int /\ u \in Int
  BY BoundsAssumption DEF Tasks
<1>2. t <= u /\ u <= t
  BY DEF Current
<1> QED
  BY <1>1, <1>2

LEMMA ReconcileKeepsIInv ==
    ASSUME IInv, \/ CheckOld \/ Save \/ SaveFails
                 \/ \E t \in Tasks : ReadLease(t) \/ ReadReceipt(t) \/ Judge(t) \/ ReadFails(t)
    PROVE  IInv'
<1> USE Lists, BoundsAssumption DEF IInv
<1>1. CASE CheckOld
  BY <1>1, SettleKeepsIInv DEF CheckOld, Open, Terminal, TypeOK
<1>2. ASSUME NEW t \in Tasks, ReadLease(t) PROVE IInv'
  <2> USE <1>2, SameWorkers DEF ReadLease
  <2>1. LeaseHeld(t) \in BOOLEAN /\ (~LeaseHeld(t) => ~Working(t))
    BY DEF LeaseHeld, Working
  <2>2. TypeOK' /\ mgr'.pc = "receipt" /\ mgr'.todo = mgr.todo /\ mgr'.busy = LeaseHeld(t)
    BY <2>1 DEF TypeOK, ManagerStates, files, workers
  <2>3. WorkersKnown' /\ SameTasks' /\ Spawning' /\ OldKnown'
    BY <2>2 DEF WorkersKnown, SameTasks, Spawning, OldKnown
  <2>4. FreeLease'
    <3>1. \A u \in Tasks : Current(u) => u = t
      BY OneCurrent
    <3>2. \A u \in Tasks : Current(u)' => Current(u)
      BY <2>2 DEF Current
    <3> QED
      BY <2>1, <2>2, <3>1, <3>2 DEF FreeLease
  <2> QED
    BY <2>2, <2>3, <2>4
<1>3. ASSUME NEW t \in Tasks, ReadReceipt(t) PROVE IInv'
  <2> USE <1>3, SameWorkers DEF ReadReceipt
  <2>1. TypeOK' /\ mgr'.pc = "judge" /\ mgr'.todo = mgr.todo /\ mgr'.busy = mgr.busy
    BY DEF TypeOK, ManagerStates, files, workers
  <2>2. WorkersKnown' /\ SameTasks' /\ Spawning' /\ OldKnown'
    BY <2>1 DEF WorkersKnown, SameTasks, Spawning, OldKnown
  <2>3. FreeLease'
    BY <2>1 DEF FreeLease, Current
  <2> QED
    BY <2>1, <2>2, <2>3
<1>4. ASSUME NEW t \in Tasks, Judge(t) PROVE IInv'
  <2>1. Judgement(t) \in Open \cup Terminal
    BY DEF Judgement, Open, Terminal, Verdicts
  <2>2. Working(t) => Judgement(t) \in Open
    BY <1>4 DEF Judge, FreeLease, Judgement, Open
  <2> QED
    BY <1>4, <2>1, <2>2, SettleKeepsIInv DEF Judge, TypeOK
<1>5. ASSUME NEW t \in Tasks, ReadFails(t) PROVE IInv'
  BY <1>5, SettleKeepsIInv DEF ReadFails, Fault, Open, Terminal, TypeOK
<1>6. CASE Save
  <2> USE <1>6, SameWorkers DEF Save, Reconciled
  <2>1. TypeOK' /\ mgr'.pc = "answer" /\ mgr'.todo = mgr.todo
    BY DEF TypeOK, ManagerStates, files, workers
  <2>2. WorkersKnown'
    BY <2>1 DEF WorkersKnown
  <2>3. SameTasks' /\ FreeLease' /\ Spawning'
    BY <2>1 DEF SameTasks, FreeLease, Spawning
  <2>4. OldKnown'
    BY <2>1 DEF OldKnown, OldStatus
  <2> QED
    BY <2>1, <2>2, <2>3, <2>4
<1>7. CASE SaveFails
  <2> USE <1>7, SameWorkers DEF SaveFails, Reconciled, Manager
  <2>1. TypeOK'
    <3>1. mgr' \in ManagerStates
      BY IdleManager
    <3> QED
      BY <3>1 DEF TypeOK, Fault, files, workers
  <2>2. WorkersKnown'
    BY DEF WorkersKnown
  <2>3. SameTasks' /\ FreeLease' /\ Spawning'
    BY DEF SameTasks, FreeLease, Spawning
  <2>4. OldKnown'
    BY DEF OldKnown
  <2> QED
    BY <2>1, <2>2, <2>3, <2>4
<1> QED
  BY <1>1, <1>2, <1>3, <1>4, <1>5, <1>6, <1>7

LEMMA CallsKeepIInv ==
    ASSUME IInv, \/ Booted \/ List \/ StartRefused \/ Cancel \/ Request
                 \/ \E t \in Tasks : Start(t)
    PROVE  IInv'
<1> USE Lists, BoundsAssumption, IdleManager DEF IInv
<1>1. CASE Booted \/ StartRefused
  <2> USE <1>1, SameWorkers DEF Booted, StartRefused, Answer, Reconciled
  <2>1. TypeOK'
    BY DEF TypeOK, files, workers
  <2>2. SameTasks'
    BY DEF SameTasks, Manager
  <2> QED
    BY <2>1, <2>2, CallOver DEF WorkersKnown, OldKnown
<1>2. CASE List
  <2> USE <1>2, SameWorkers DEF List, Answer, Reconciled, Show
  <2>1. TypeOK'
    BY DEF TypeOK, files, workers
  <2>2. SameTasks'
    BY DEF SameTasks, Manager, Terminal
  <2>3. \A t \in Tasks : Working(t) => verdict'[t] = "none"
    BY DEF WorkersKnown, Open, Terminal
  <2> QED
    BY <2>1, <2>2, <2>3, CallOver DEF WorkersKnown, OldKnown
<1>3. CASE Cancel
  <2> USE <1>3, SameWorkers DEF Cancel, Answer, Reconciled, Show
  <2>1. CASE mgr' = Manager("idle")
    <3>1. TypeOK'
      BY <2>1 DEF TypeOK, files, workers
    <3>2. SameTasks'
      BY <2>1 DEF SameTasks, Manager, Terminal
    <3>3. \A t \in Tasks : Working(t) => verdict'[t] = "none"
      BY DEF WorkersKnown, Open, Terminal
    <3> QED
      BY <2>1, <3>1, <3>2, <3>3, CallOver DEF WorkersKnown, OldKnown
  <2>2. CASE mgr' # Manager("idle")
    <3>1. mgr' = [mgr EXCEPT !.pc = "request"] /\ UNCHANGED verdict
      BY <2>2
    <3>2. TypeOK' /\ mgr'.pc = "request" /\ mgr'.todo = mgr.todo
      BY <3>1 DEF TypeOK, ManagerStates, files, workers
    <3> QED
      BY <3>1, <3>2 DEF WorkersKnown, SameTasks, FreeLease, OldKnown, Spawning
  <2> QED
    BY <2>1, <2>2
<1>4. CASE Request
  <2> USE <1>4, SameWorkers DEF Request
  <2>1. TypeOK'
    <3>1. mgr' \in ManagerStates
      OBVIOUS
    <3>2. request' \in [Tasks -> BOOLEAN]
      BY DEF TypeOK
    <3>3. faults' \in 0..MaxFaults
      BY DEF TypeOK, Fault
    <3> QED
      BY <3>1, <3>2, <3>3 DEF TypeOK, workers
  <2>2. SameTasks'
    BY DEF SameTasks, Manager
  <2> QED
    BY <2>1, <2>2, CallOver DEF WorkersKnown, OldKnown
<1>5. ASSUME NEW t \in Tasks, Start(t) PROVE IInv'
  <2> USE <1>5, SameWorkers DEF Start, Answer, Reconciled
  <2>1. \A u \in Tasks : ~Working(u)
    BY DEF WorkersKnown
  <2>2. old # "alive"
    BY DEF OldKnown, SameTasks
  <2>3. verdict[t] = "none" /\ snap[t] = "absent"
    BY DEF SameTasks
  <2>4. CASE mgr' = Manager("idle")
    <3>1. TypeOK'
      BY <2>4 DEF TypeOK, files, workers, Fault, Status, Open, Manager
    <3>2. SameTasks'
      BY <2>4 DEF SameTasks, Manager, TypeOK
    <3> QED
      BY <2>1, <2>2, <2>4, <3>1, <3>2, CallOver
  <2>5. CASE mgr' # Manager("idle")
    <3>1. /\ mem' = [mem EXCEPT ![t] = "queued"] /\ snap' = mem'
          /\ mgr' = [Manager("spawn") EXCEPT !.arg = t]
          /\ UNCHANGED <<verdict, files, workers, old, faults>>
      BY <2>5
    <3>2. mgr' \in ManagerStates /\ mgr'.pc = "spawn" /\ mgr'.arg = t /\ mgr'.todo = {}
      BY <3>1 DEF Manager, ManagerStates
    <3>3. TypeOK'
      BY <3>1, <3>2 DEF TypeOK, files, workers, Status, Open
    <3>4. SameTasks'
      BY <3>1, <3>2 DEF SameTasks, TypeOK
    <3> QED
      BY <2>1, <2>2, <2>3, <3>1, <3>2, <3>3, <3>4
      DEF WorkersKnown, FreeLease, OldKnown, Spawning, TypeOK
  <2> QED
    BY <2>4, <2>5
<1> QED
  BY <1>1, <1>2, <1>3, <1>4, <1>5

LEMMA SpawnKeepsIInv == ASSUME IInv, Spawn \/ SpawnFails PROVE IInv'
<1> USE Lists, BoundsAssumption, IdleManager DEF IInv
<1>1. CASE Spawn
  <2> USE <1>1 DEF Spawn
  <2>1. TypeOK'
    BY DEF TypeOK, files, SupAlive
  <2>2. \A u \in Tasks \ {mgr.arg} : ~Working(u)'
    BY DEF Spawning, Working
  <2>3. WorkersKnown'
    BY <2>2 DEF WorkersKnown, Spawning, Open
  <2> QED
    BY <2>1, <2>3 DEF SameTasks, FreeLease, OldKnown, Spawning, Manager
<1>2. CASE SpawnFails
  <2> USE <1>2, SameWorkers DEF SpawnFails
  <2>1. TypeOK'
    <3>1. mgr' \in ManagerStates
      OBVIOUS
    <3>2. mem' \in [Listed -> Status]
      BY DEF TypeOK, Status, Terminal
    <3>3. snap' \in [Listed -> Status]
      BY <3>2 DEF TypeOK
    <3>4. faults' \in 0..MaxFaults
      BY DEF TypeOK, Fault
    <3> QED
      BY <3>1, <3>2, <3>3, <3>4 DEF TypeOK, files, workers
  <2>2. SameTasks'
    BY DEF SameTasks, Spawning, Manager, TypeOK
  <2> QED
    BY <2>1, <2>2, CallOver DEF Spawning
<1> QED
  BY <1>1, <1>2

LEMMA CrashKeepsIInv == ASSUME IInv, ManagerDies \/ HostDies PROVE IInv'
<1> USE Lists, BoundsAssumption, IdleManager DEF IInv, Forget
<1>1. TypeOK'
  <2>1. mgr' \in ManagerStates
    BY DEF ManagerDies, HostDies
  <2>2. mem' \in [Listed -> Status] /\ faults' \in 0..MaxFaults
    BY DEF ManagerDies, HostDies, TypeOK, Fault, Status
  <2>3. /\ sup' \in [Tasks -> SupOver \cup SupAlive] /\ note' \in [Tasks -> Notes]
        /\ child' \in [Tasks -> {"none", "alive"} \cup Exits] /\ told' \in [Tasks -> BOOLEAN]
        /\ old' \in {"none", "alive", "gone", "pidless"}
    <3>1. CASE ManagerDies
      BY <3>1 DEF ManagerDies, TypeOK, workers
    <3>2. CASE HostDies
      <4>1. sup' \in [Tasks -> SupOver \cup SupAlive]
        BY <3>2 DEF HostDies, TypeOK, SupOver
      <4>2. child' \in [Tasks -> {"none", "alive"} \cup Exits]
        BY <3>2 DEF HostDies, TypeOK, Exits
      <4> QED
        BY <3>2, <4>1, <4>2 DEF HostDies, TypeOK, Notes
    <3> QED
      BY <3>1, <3>2
  <2> QED
    BY <2>1, <2>2, <2>3 DEF ManagerDies, HostDies, TypeOK, files
<1>2. \A t \in Tasks : Working(t)' => Working(t)
  BY DEF ManagerDies, HostDies, workers, Working, TypeOK, SupAlive, SupLoop
<1>3. WorkersKnown'
  BY <1>2 DEF ManagerDies, HostDies, WorkersKnown, Manager
<1> QED
  BY <1>1, <1>3 DEF ManagerDies, HostDies, SameTasks, FreeLease, OldKnown, Spawning, Manager

-----------------------------------------------------------------------------
(* Theorems                                                                *)

\* The strengthened invariant holds of every reachable state (all of
\* web_service.py:434-735 and web_worker.py:72-130).
THEOREM Invariant == Spec => []IInv
<1>1. Init => IInv
  BY InitIInv
<1>2. IInv /\ [Next]_vars => IInv'
  <2> SUFFICES ASSUME IInv, [Next]_vars PROVE IInv'
    OBVIOUS
  <2>1. CASE UNCHANGED vars
    BY <2>1, FewerWorkers DEF vars, IInv, TypeOK, files, workers, Working
  <2>2. CASE Next
    BY <2>2, Lists, RestartKeepsIInv, ReconcileKeepsIInv, CallsKeepIInv, SpawnKeepsIInv, CallKeepsIInv,
       SupKeepsIInv, OthersKeepIInv, CrashKeepsIInv
    DEF Next, ManagerStep
  <2> QED
    BY <2>1, <2>2
<1> QED
  BY <1>1, <1>2, PTL DEF Spec

\* Every variable keeps its type.
THEOREM TypeCorrect == Spec => []TypeOK
<1>1. IInv => TypeOK
  BY DEF IInv
<1> QED
  BY <1>1, Invariant, PTL

\* No task with a living supervisor or child is over, in memory, on disk or in
\* an answer of the API (_reconcile, web_service.py:535-568).
THEOREM OverIsGone == Spec => []OverMeansGone
<1>1. IInv => OverMeansGone
  BY DEF IInv, WorkersKnown, OverMeansGone, Open, Terminal
<1> QED
  BY <1>1, Invariant, PTL

\* At most one worker lives, and none next to that of an old version
\* (start, web_service.py:594-598).
THEOREM AtMostOneWorker == Spec => []OneWorker
<1>1. IInv => OneWorker
  BY DEF IInv, WorkersKnown, OneWorker
<1> QED
  BY <1>1, Invariant, PTL

\* tasks.json has every living worker as an open task
\* (start, web_service.py:669-690).
THEOREM WorkersAreRecorded == Spec => []NoWorkerForgotten
<1>1. IInv => NoWorkerForgotten
  BY DEF IInv, WorkersKnown, NoWorkerForgotten
<1> QED
  BY <1>1, Invariant, PTL

-----------------------------------------------------------------------------
(* Verdicts: the inductive invariant, on top of IInv                       *)

\* How the child of t ended is what s says.
Fate(t, s) ==
    /\ s = "finished" => child[t] = "zero"
    /\ s = "cancelled" => \/ child[t] = "130"
                          \/ child[t] \in {"none", "sigterm"} /\ request[t]
    /\ s = "failed" /\ child[t] = "zero" => faults > 0

\* A supervisor's record becomes a verdict when the child is over, and the
\* receipt with a verdict is its last word.
WorkerTrue(t) ==
    /\ sup[t] \in {"none", "boot", "check"} => child[t] = "none" /\ receipt[t] = "none"
    /\ note[t] = "cancelling" => request[t]
    /\ sup[t] \in SupLoop => note[t] \in {"running", "cancelling"}
    /\ sup[t] = "final" => note[t] \in Verdicts /\ child[t] # "alive" /\ Fate(t, note[t])
    /\ receipt[t] \in Verdicts =>
           sup[t] \in {"exit", "dead"} /\ child[t] # "alive" /\ Fate(t, receipt[t])

\* A status that is over is that of the receipt, or there was no worker, or
\* it left no verdict.
StatusTrue(t, s) ==
    /\ s \in {"finished", "cancelled"} => receipt[t] = s
    /\ s = "failed" => receipt[t] = "failed" \/ sup[t] = "none"
    /\ s = "interrupted" => receipt[t] \notin Verdicts

ManagerTrue(t) == StatusTrue(t, mem[t]) /\ StatusTrue(t, snap[t]) /\ StatusTrue(t, verdict[t])

\* After a free lease, what was read of the receipt is still there.
SeenTrue ==
    mgr.pc = "judge" /\ ~mgr.busy => \A t \in Tasks : Current(t) => mgr.seen = receipt[t]

\* A supervisor is started once, for a task that was not on disk before.
NotStarted ==
    \A t \in Tasks : snap[t] = "absent" \/ (mgr.pc = "spawn" /\ mgr.arg = t) => sup[t] = "none"

VInv == (\A t \in Tasks : WorkerTrue(t) /\ ManagerTrue(t)) /\ SeenTrue /\ NotStarted

LEMMA InitVInv == Init => VInv
BY Lists
DEF Init, VInv, WorkerTrue, ManagerTrue, StatusTrue, SeenTrue, NotStarted, Manager, SupLoop, Verdicts

-----------------------------------------------------------------------------
(* Steps of the workers                                                    *)

LEMMA FateStays ==
    ASSUME TypeOK, NEW t \in Tasks, NEW s, Fate(t, s),
           child'[t] = child[t], request[t] => request'[t], faults' \in {faults, faults + 1}
    PROVE  Fate(t, s)'
BY BoundsAssumption DEF Fate, TypeOK

\* A step of the worker of t leaves the manager and the other workers alone.
LEMMA OneWorkerMoves ==
    ASSUME IInv, VInv, NEW t \in Tasks, Working(t),
           UNCHANGED <<mem, snap, verdict, mgr, request>>,
           faults' \in {faults, faults + 1},
           \A u \in Tasks \ {t} : /\ sup'[u] = sup[u] /\ note'[u] = note[u]
                                  /\ child'[u] = child[u] /\ receipt'[u] = receipt[u],
           sup[t] # "none",
           WorkerTrue(t)'
    PROVE  VInv'
<1>1. mem[t] \in Open \cup {"absent"} /\ snap[t] \in Open /\ verdict[t] = "none"
  BY DEF IInv, WorkersKnown
<1>2. ManagerTrue(t)'
  BY <1>1 DEF ManagerTrue, StatusTrue, Open
<1>3. ASSUME NEW u \in Tasks \ {t} PROVE (WorkerTrue(u) /\ ManagerTrue(u))'
  <2>1. \A s : Fate(u, s) => Fate(u, s)'
    BY FateStays DEF IInv
  <2>2. WorkerTrue(u) /\ ManagerTrue(u)
    BY DEF VInv
  <2>3. WorkerTrue(u)'
    BY <2>1, <2>2 DEF WorkerTrue
  <2> QED BY <2>2, <2>3 DEF ManagerTrue, StatusTrue
<1>4. SeenTrue'
  BY DEF SeenTrue, VInv, IInv, FreeLease, Current
<1>5. NotStarted'
  BY <1>1 DEF NotStarted, VInv, Open, IInv, Spawning
<1> QED BY <1>2, <1>3, <1>4, <1>5 DEF VInv

LEMMA SupMoves ==
    ASSUME TypeOK, NEW t \in Tasks, SupStep(t)
    PROVE  /\ faults' \in {faults, faults + 1}
           /\ \A u \in Tasks \ {t} : note'[u] = note[u] /\ receipt'[u] = receipt[u]
<1> USE DEF TypeOK, Fault, files
<1>1. CASE Boot(t)
  BY <1>1 DEF Boot, Leave
<1>2. CASE Check(t)
  BY <1>2 DEF Check, Note, SupRaises
<1>3. CASE Announce(t)
  BY <1>3 DEF Announce, WriteReceipt, Note, SupRaises
<1>4. CASE Poll(t)
  BY <1>4 DEF Poll, Note
<1>5. CASE Watch(t)
  BY <1>5 DEF Watch, Note, SupRaises
<1>6. CASE Tell(t)
  BY <1>6 DEF Tell, WriteReceipt, Note, SupRaises
<1>7. CASE Kill(t)
  BY <1>7 DEF Kill
<1>8. CASE Drain(t)
  BY <1>8 DEF Drain, Leave
<1>9. CASE Final(t)
  BY <1>9 DEF Final, Leave
<1>10. CASE Exit(t)
  BY <1>10 DEF Exit, Leave
<1> QED BY <1>1, <1>2, <1>3, <1>4, <1>5, <1>6, <1>7, <1>8, <1>9, <1>10 DEF SupStep

\* What is over is over: a supervisor that has left says nothing more.
LEMMA LeaveKeepsTruth ==
    ASSUME TypeOK, NEW t \in Tasks, WorkerTrue(t), Leave(t), sup[t] \in SupAlive,
           UNCHANGED <<child, files>>, faults' \in {faults, faults + 1}
    PROVE  WorkerTrue(t)'
<1>1. sup'[t] = "dead" /\ note'[t] = "queued" /\ receipt' = receipt /\ request' = request
  BY DEF Leave, TypeOK, files
<1>2. Fate(t, receipt[t]) => Fate(t, receipt[t])'
  BY <1>1, FateStays
<1> QED BY <1>1, <1>2 DEF WorkerTrue, SupLoop

\* A failed step records "failed" only when the child is over.
LEMMA RaiseKeepsTruth ==
    ASSUME TypeOK, NEW t \in Tasks, WorkerTrue(t), SupRaises(t), Fault,
           sup[t] \in SupLoop \cup {"check"}, UNCHANGED <<child, files>>
    PROVE  WorkerTrue(t)'
<1>1. receipt' = receipt /\ request' = request /\ receipt[t] \notin Verdicts /\ faults' = faults + 1
  BY DEF WorkerTrue, Fault, files, SupLoop
<1>2. CASE child[t] = "alive"
  BY <1>1, <1>2 DEF SupRaises, WorkerTrue, SupLoop, TypeOK
<1>3. CASE child[t] # "alive"
  <2>1. sup'[t] = "final" /\ note'[t] = "failed"
    BY <1>3 DEF SupRaises, Note, TypeOK
  <2>2. Fate(t, "failed")'
    BY <1>1, BoundsAssumption DEF Fate, TypeOK
  <2> QED BY <1>1, <1>3, <2>1, <2>2 DEF WorkerTrue, SupLoop, Verdicts
<1> QED BY <1>2, <1>3

LEMMA SupKeepsTruth ==
    ASSUME IInv, VInv, NEW t \in Tasks, SupStep(t)
    PROVE  WorkerTrue(t)'
<1> USE DEF SupLoop
<1>t. TypeOK /\ WorkerTrue(t)
  BY DEF IInv, VInv
<1>f. faults' \in {faults, faults + 1}
  BY <1>t, SupMoves
<1>r. request' = request /\ sup[t] \in SupAlive
  BY <1>t, SupType
<1>1. CASE Boot(t)
  <2>1. CASE Sup(t, "boot", "check") /\ UNCHANGED <<note, told, faults>>
    BY <1>1, <1>t, <2>1 DEF Boot, Sup, WorkerTrue, TypeOK, files, Verdicts
  <2>2. CASE Leave(t) /\ Fault
    BY <1>1, <1>t, <1>f, <1>r, <2>2, LeaveKeepsTruth DEF Boot
  <2> QED BY <1>1, <2>1, <2>2 DEF Boot
<1>2. CASE Check(t)
  <2>0. sup[t] = "check" /\ UNCHANGED files /\ child[t] = "none" /\ receipt[t] = "none"
    BY <1>2, <1>t DEF Check, WorkerTrue
  <2>1. CASE request[t] /\ Sup(t, "check", "final") /\ Note(t, "cancelled") /\ UNCHANGED <<child, faults>>
    <3>1. /\ sup'[t] = "final" /\ note'[t] = "cancelled" /\ child'[t] = "none" /\ request'[t]
          /\ receipt'[t] = "none"
      BY <1>t, <2>0, <2>1 DEF Sup, Note, TypeOK, files
    <3> QED BY <3>1 DEF WorkerTrue, Fate, Verdicts
  <2>2. CASE /\ ~request[t] /\ Sup(t, "check", "announce") /\ Note(t, "running")
             /\ child' = [child EXCEPT ![t] = "alive"]
             /\ UNCHANGED faults
    <3>1. sup'[t] = "announce" /\ note'[t] = "running" /\ receipt'[t] = "none"
      BY <1>t, <2>0, <2>2 DEF Sup, Note, TypeOK, files
    <3> QED BY <3>1 DEF WorkerTrue, Verdicts
  <2>3. CASE SupRaises(t) /\ Fault /\ UNCHANGED child
    BY <1>t, <2>0, <2>3, RaiseKeepsTruth
  <2> QED BY <1>2, <2>1, <2>2, <2>3 DEF Check
<1>3. ASSUME NEW from \in {"announce", "tell"}, NEW to \in {"poll", "kill"}, WriteReceipt(t, from, to)
      PROVE  WorkerTrue(t)'
  <2>0. sup[t] = from /\ child' = child /\ note[t] \in {"running", "cancelling"}
    BY <1>3, <1>t DEF WriteReceipt, WorkerTrue
  <2>1. CASE Sup(t, from, to) /\ receipt' = [receipt EXCEPT ![t] = note[t]] /\ UNCHANGED <<note, faults>>
    <3>1. sup'[t] = to /\ note'[t] = note[t] /\ receipt'[t] = note[t]
      BY <1>t, <2>1 DEF Sup, TypeOK
    <3> QED BY <1>t, <1>r, <2>0, <3>1 DEF WorkerTrue, Verdicts
  <2>2. CASE SupRaises(t) /\ Fault /\ UNCHANGED receipt
    BY <1>t, <1>r, <2>0, <2>2, RaiseKeepsTruth DEF files
  <2> QED BY <1>3, <2>1, <2>2 DEF WriteReceipt
<1>4. CASE Poll(t)
  <2>0. sup[t] = "poll" /\ note[t] \in {"running", "cancelling"} /\ UNCHANGED <<files, child>>
        /\ receipt[t] \notin Verdicts
    BY <1>4, <1>t DEF Poll, Sup, WorkerTrue
  <2>1. CASE child[t] = "alive" /\ Sup(t, "poll", "watch") /\ UNCHANGED note
    BY <1>t, <2>0, <2>1 DEF Sup, WorkerTrue, TypeOK, files
  <2>2. CASE child[t] \in Exits /\ Sup(t, "poll", "final") /\ Note(t, Outcome(t))
    <3>0. PICK s : s = Outcome(t)
      OBVIOUS
    <3>1. /\ sup'[t] = "final" /\ note'[t] = s /\ child'[t] = child[t]
          /\ receipt'[t] = receipt[t] /\ request'[t] = request[t] /\ faults' = faults
      BY <1>4, <1>t, <2>0, <2>2, <3>0 DEF Poll, Sup, Note, TypeOK, files
    <3>2. note[t] = "cancelling" => request[t]
      BY <1>t DEF WorkerTrue
    <3>3. s \in Verdicts /\ Fate(t, s)
      BY <2>2, <3>0, <3>2 DEF Outcome, Exits, Verdicts, Fate
    <3>4. Fate(t, s)'
      BY <1>t, <3>1, <3>3, FateStays
    <3> QED BY <2>0, <2>2, <3>1, <3>3, <3>4 DEF WorkerTrue, Exits, Verdicts, Fate
  <2> QED BY <1>4, <2>1, <2>2 DEF Poll
<1>5. CASE Watch(t)
  <2>0. sup[t] = "watch" /\ note[t] \in {"running", "cancelling"} /\ UNCHANGED <<files, child>>
        /\ receipt[t] \notin Verdicts
    BY <1>5, <1>t DEF Watch, WorkerTrue
  <2>1. CASE /\ note[t] # "cancelling" /\ request[t]
             /\ Sup(t, "watch", "tell") /\ Note(t, "cancelling") /\ UNCHANGED faults
    BY <1>t, <2>0, <2>1 DEF Sup, Note, WorkerTrue, TypeOK, files
  <2>2. CASE /\ note[t] = "cancelling" \/ ~request[t]
             /\ Sup(t, "watch", "poll") /\ UNCHANGED <<note, faults>>
    BY <1>t, <2>0, <2>2 DEF Sup, WorkerTrue, TypeOK, files
  <2>3. CASE note[t] # "cancelling" /\ SupRaises(t) /\ Fault
    BY <1>t, <2>0, <2>3, RaiseKeepsTruth
  <2> QED BY <1>5, <2>1, <2>2, <2>3 DEF Watch
<1>6. CASE Kill(t)
  BY <1>6, <1>t DEF Kill, Sup, WorkerTrue, TypeOK, files
<1>7. CASE Drain(t) \/ Exit(t)
  BY <1>7, <1>t, <1>f, <1>r, LeaveKeepsTruth DEF Drain, Exit
<1>8. CASE Final(t)
  <2>0. sup[t] = "final" /\ note[t] \in Verdicts /\ child[t] # "alive" /\ Fate(t, note[t])
        /\ UNCHANGED child
    BY <1>8, <1>t DEF Final, WorkerTrue
  <2>1. CASE /\ Sup(t, "final", "exit") /\ receipt' = [receipt EXCEPT ![t] = note[t]]
             /\ UNCHANGED <<note, told, faults>>
    <3>1. sup'[t] = "exit" /\ receipt'[t] = note[t] /\ note'[t] = note[t] /\ child'[t] = child[t]
      BY <1>t, <2>0, <2>1 DEF Sup, TypeOK
    <3>2. Fate(t, note[t])'
      BY <2>0, <2>1, <3>1, <1>r DEF Fate
    <3> QED BY <1>t, <1>r, <2>0, <3>1, <3>2 DEF WorkerTrue, Fate
  <2>2. CASE Leave(t) /\ Fault /\ UNCHANGED receipt
    BY <1>t, <1>f, <1>r, <2>0, <2>2, LeaveKeepsTruth DEF files
  <2> QED BY <1>8, <2>1, <2>2 DEF Final
<1> QED BY <1>1, <1>2, <1>3, <1>4, <1>5, <1>6, <1>7, <1>8 DEF SupStep, Announce, Tell

LEMMA SupKeepsVInv == ASSUME IInv, VInv, NEW t \in Tasks, SupStep(t) PROVE VInv'
<1>1. WorkerTrue(t)'
  BY SupKeepsTruth
<1>2. /\ UNCHANGED <<mem, snap, verdict, mgr, request>>
      /\ \A u \in Tasks \ {t} : sup'[u] = sup[u] /\ child'[u] = child[u]
      /\ sup[t] \in SupAlive
  BY SupType DEF IInv, managerVars
<1>3. /\ faults' \in {faults, faults + 1}
      /\ \A u \in Tasks \ {t} : note'[u] = note[u] /\ receipt'[u] = receipt[u]
  BY SupMoves DEF IInv
<1>4. Working(t) /\ sup[t] # "none"
  BY <1>2 DEF Working, SupAlive, SupLoop
<1> QED BY <1>1, <1>2, <1>3, <1>4, OneWorkerMoves

LEMMA OthersKeepVInv ==
    ASSUME IInv, VInv, \/ OldEnds
                       \/ \E t \in Tasks : ChildEnds(t) \/ SupDies(t)
    PROVE  VInv'
<1>1. CASE OldEnds
  BY <1>1
  DEF OldEnds, managerVars, files, workers, VInv, WorkerTrue, Fate, ManagerTrue, StatusTrue,
      SeenTrue, Current, NotStarted
<1>2. ASSUME NEW t \in Tasks, ChildEnds(t) PROVE VInv'
  <2>1. /\ child[t] = "alive" /\ UNCHANGED <<mem, snap, verdict, mgr, files, sup, note, faults>>
        /\ \A u \in Tasks \ {t} : child'[u] = child[u]
    BY <1>2 DEF ChildEnds, managerVars, IInv, TypeOK
  <2>2. WorkerTrue(t)
    BY DEF VInv
  <2>3. WorkerTrue(t)'
    BY <2>1, <2>2 DEF WorkerTrue, files
  <2> QED BY <2>1, <2>2, <2>3, OneWorkerMoves DEF Working, WorkerTrue, files
<1>3. ASSUME NEW t \in Tasks, SupDies(t) PROVE VInv'
  <2>1. /\ sup[t] \in SupAlive /\ Leave(t) /\ faults' \in {faults, faults + 1}
        /\ UNCHANGED <<mem, snap, verdict, mgr, files, child>>
    BY <1>3 DEF SupDies, managerVars, Fault
  <2>2. \A u \in Tasks \ {t} : sup'[u] = sup[u] /\ note'[u] = note[u]
    BY <2>1 DEF Leave, IInv, TypeOK
  <2>3. WorkerTrue(t)'
    BY <2>1, LeaveKeepsTruth DEF VInv, IInv
  <2> QED BY <2>1, <2>2, <2>3, OneWorkerMoves DEF Working, files, SupAlive, SupLoop
<1> QED BY <1>1, <1>2, <1>3

-----------------------------------------------------------------------------
(* Steps of the manager                                                    *)

\* The manager changes no receipt and no worker: only the statuses it gives
\* have to be true.
LEMMA ManagerMoves ==
    ASSUME IInv, VInv, UNCHANGED <<workers, receipt>>,
           \A t \in Tasks : request[t] => request'[t],
           faults' \in {faults, faults + 1},
           \A t \in Tasks : /\ StatusTrue(t, mem'[t]) /\ StatusTrue(t, snap'[t])
                            /\ StatusTrue(t, verdict'[t]),
           SeenTrue', NotStarted'
    PROVE  VInv'
<1> SUFFICES ASSUME NEW t \in Tasks PROVE (WorkerTrue(t) /\ ManagerTrue(t))'
  BY DEF VInv
<1>1. \A s : Fate(t, s) => Fate(t, s)'
  BY FateStays DEF IInv, workers
<1>2. WorkerTrue(t)'
  BY <1>1 DEF VInv, WorkerTrue, workers
<1>3. ManagerTrue(t)'
  BY DEF ManagerTrue, StatusTrue, workers
<1> QED BY <1>2, <1>3

\* Of the manager's steps that examine nothing and start nothing.
LEMMA PlainKeepsVInv ==
    ASSUME IInv, VInv, UNCHANGED <<workers, receipt>>,
           \A t \in Tasks : request[t] => request'[t],
           faults' \in {faults, faults + 1},
           mgr'.pc \notin {"judge", "spawn"},
           \A t \in Tasks : /\ mem'[t] \in {mem[t], snap[t], "absent", "unknown"}
                            /\ snap'[t] \in {mem[t], snap[t]}
                            /\ verdict'[t] \in {mem[t], verdict[t]}
                            /\ snap'[t] = "absent" => snap[t] = "absent"
    PROVE  VInv'
<1>1. ASSUME NEW t \in Tasks
      PROVE  StatusTrue(t, mem'[t]) /\ StatusTrue(t, snap'[t]) /\ StatusTrue(t, verdict'[t])
  BY DEF VInv, ManagerTrue, StatusTrue
<1>2. SeenTrue' /\ NotStarted'
  BY DEF VInv, SeenTrue, NotStarted, workers
<1> QED BY <1>1, <1>2, ManagerMoves

LEMMA ExamineKeepsVInv ==
    ASSUME IInv, VInv, NEW t \in Tasks, ReadLease(t) \/ ReadReceipt(t) \/ Judge(t) \/ ReadFails(t)
    PROVE  VInv'
<1> USE DEF files, workers
<1>1. CASE ReadLease(t)
  <2>1. mgr'.pc = "receipt" /\ UNCHANGED <<mem, snap, verdict, files, workers, faults>>
    BY <1>1 DEF ReadLease, IInv, TypeOK, ManagerStates
  <2> QED BY <2>1, PlainKeepsVInv
<1>2. CASE ReadReceipt(t)
  <2>1. /\ mgr'.pc = "judge" /\ mgr'.seen = receipt[t] /\ mgr'.todo = mgr.todo /\ Current(t)
        /\ UNCHANGED <<mem, snap, verdict, files, workers, faults>>
    BY <1>2 DEF ReadReceipt, IInv, TypeOK, ManagerStates
  <2>2. SeenTrue'
    <3> SUFFICES ASSUME NEW u \in Tasks, Current(u)' PROVE mgr'.seen = receipt'[u]
      BY DEF SeenTrue
    <3>1. Current(u)
      BY <2>1 DEF Current
    <3>2. u = t
      BY <2>1, <3>1, OneCurrent
    <3> QED BY <2>1, <3>2
  <2>3. NotStarted'
    BY <2>1 DEF VInv, NotStarted
  <2> QED BY <2>1, <2>2, <2>3, ManagerMoves DEF VInv, ManagerTrue
<1>3. ASSUME NEW s, Settle(t, s), StatusTrue(t, s), faults' \in {faults, faults + 1} PROVE VInv'
  <2>1. /\ mgr'.pc = "reconcile"
        /\ \A u \in Tasks : mem'[u] = IF u = t THEN s ELSE mem[u]
        /\ UNCHANGED <<snap, verdict, files, workers>>
    BY <1>3, Lists DEF Settle, IInv, TypeOK, ManagerStates
  <2>2. SeenTrue' /\ NotStarted'
    BY <2>1 DEF VInv, SeenTrue, NotStarted
  <2> QED BY <1>3, <2>1, <2>2, ManagerMoves DEF VInv, ManagerTrue
<1>4. CASE Judge(t)
  <2>1. mgr.pc = "judge" /\ Current(t) /\ Settle(t, Judgement(t)) /\ faults' = faults
    BY <1>4 DEF Judge
  <2>2. ~mgr.busy => mgr.seen = receipt[t]
    BY <2>1 DEF VInv, SeenTrue
  <2>3. StatusTrue(t, Judgement(t))
    BY <2>2 DEF StatusTrue, Judgement, Verdicts
  <2> QED BY <1>3, <2>1, <2>3
<1>5. CASE ReadFails(t)
  <2>1. StatusTrue(t, "unknown")
    BY DEF StatusTrue
  <2> QED BY <1>3, <1>5, <2>1 DEF ReadFails, Fault
<1> QED BY <1>1, <1>2, <1>4, <1>5

LEMMA StartKeepsVInv ==
    ASSUME IInv, VInv, NEW t \in Tasks, Start(t)
    PROVE  VInv'
<1> USE DEF files, workers
<1>1. /\ mem[t] = "absent" /\ mgr.pc # "down"
      /\ UNCHANGED <<verdict, files, workers>> /\ faults' \in {faults, faults + 1}
  BY DEF Start, Answer, Reconciled, Fault
<1>2. CASE mgr' = Manager("idle") /\ UNCHANGED <<mem, snap>>
  BY <1>1, <1>2, PlainKeepsVInv DEF Manager
<1>3. CASE /\ mem' = [mem EXCEPT ![t] = "queued"]
           /\ snap' = mem'
           /\ mgr' = [Manager("spawn") EXCEPT !.arg = t]
  <2>1. /\ \A u \in Tasks : mem'[u] = IF u = t THEN "queued" ELSE mem[u]
        /\ mgr'.pc = "spawn" /\ mgr'.arg = t
    BY <1>3, Lists DEF IInv, TypeOK, Manager
  <2>2. \A u \in Tasks : mem[u] = "absent" => sup[u] = "none"
    BY <1>1, Lists DEF IInv, SameTasks, VInv, NotStarted
  <2>3. SeenTrue' /\ NotStarted'
    BY <1>1, <1>3, <2>1, <2>2 DEF SeenTrue, NotStarted
  <2>4. StatusTrue(t, "queued")
    BY DEF StatusTrue
  <2> QED BY <1>1, <1>3, <2>1, <2>3, <2>4, ManagerMoves DEF VInv, ManagerTrue
<1> QED BY <1>2, <1>3 DEF Start

LEMMA SpawnKeepsVInv == ASSUME IInv, VInv, Spawn \/ SpawnFails PROVE VInv'
<1> PICK t : t = mgr.arg
  OBVIOUS
<1>0. /\ mgr.pc = "spawn" /\ t \in Tasks /\ mem[t] = "queued" /\ snap[t] = "queued"
      /\ verdict[t] = "none" /\ sup[t] = "none"
  BY DEF Spawn, SpawnFails, IInv, Spawning, VInv, NotStarted
<1>1. CASE SpawnFails
  <2>1. /\ \A u \in Tasks : mem'[u] = IF u = t THEN "failed" ELSE mem[u]
        /\ \A u \in Tasks : snap'[u] = snap[u] \/ snap'[u] = mem'[u]
        /\ mgr' = Manager("idle") /\ faults' = faults + 1
        /\ UNCHANGED <<verdict, files, workers>>
    BY <1>1, Lists DEF SpawnFails, Fault, IInv, TypeOK
  <2>2. StatusTrue(t, "failed")
    BY <1>0 DEF StatusTrue
  <2>3. \A u \in Tasks : StatusTrue(u, mem'[u]) /\ StatusTrue(u, snap'[u]) /\ StatusTrue(u, verdict'[u])
    BY <2>1, <2>2 DEF VInv, ManagerTrue
  <2>4. \A u \in Tasks : snap'[u] = "absent" => snap[u] = "absent"
    BY <1>0, <2>1, Lists DEF IInv, SameTasks
  <2>5. SeenTrue' /\ NotStarted'
    BY <2>1, <2>4 DEF VInv, SeenTrue, NotStarted, Manager, workers
  <2> QED BY <2>1, <2>3, <2>5, ManagerMoves DEF files
<1>2. CASE Spawn
  <2>1. /\ sup'[t] = "boot" /\ \A u \in Tasks \ {t} : sup'[u] = sup[u]
        /\ mgr' = Manager("idle")
        /\ UNCHANGED <<mem, snap, verdict, files, note, child, told, faults>>
    BY <1>0, <1>2 DEF Spawn, IInv, TypeOK
  <2>2. WorkerTrue(t)' /\ ManagerTrue(t)'
    BY <1>0, <2>1 DEF VInv, WorkerTrue, ManagerTrue, StatusTrue, SupLoop, files, Verdicts
  <2>3. ASSUME NEW u \in Tasks \ {t} PROVE (WorkerTrue(u) /\ ManagerTrue(u))'
    BY <2>1 DEF VInv, WorkerTrue, ManagerTrue, StatusTrue, Fate, files
  <2>4. SeenTrue' /\ NotStarted'
    BY <1>0, <2>1 DEF VInv, SeenTrue, NotStarted, Manager
  <2> QED BY <2>2, <2>3, <2>4 DEF VInv
<1> QED BY <1>1, <1>2

LEMMA ManagerKeepsVInv ==
    ASSUME IInv, VInv,
           \/ Restart \/ CheckOld \/ Save \/ Booted \/ List \/ StartRefused \/ Cancel \/ Request
           \/ SaveFails \/ ManagerDies
           \/ \E o \in {"list", "start", "cancel"}, t \in Listed : Call(o, t)
    PROVE  VInv'
<1> USE PlainKeepsVInv DEF files, workers
<1>1. CASE Restart
  BY <1>1, Lists DEF Restart, Manager
<1>2. CASE CheckOld
  <2>1. PICK s : Settle(Old, s) /\ faults' = faults
    BY <1>2 DEF CheckOld
  <2>2. /\ mgr'.pc = "reconcile" /\ \A u \in Tasks : mem'[u] = mem[u]
        /\ UNCHANGED <<snap, verdict, files, workers>>
    BY <2>1, Lists DEF Settle, IInv, TypeOK, ManagerStates
  <2> QED BY <2>1, <2>2
<1>3. CASE Save
  <2>1. mgr'.pc = "answer" /\ mgr.pc = "reconcile" /\ snap' = mem
        /\ UNCHANGED <<mem, verdict, files, workers, faults>>
    BY <1>3 DEF Save, Reconciled, IInv, TypeOK, ManagerStates
  <2>2. \A t \in Tasks : mem[t] = "absent" <=> snap[t] = "absent"
    BY <2>1, Lists DEF IInv, SameTasks
  <2> QED BY <2>1, <2>2
<1>4. CASE Booted \/ StartRefused
  BY <1>4 DEF Booted, StartRefused, Manager
<1>5. CASE List
  BY <1>5 DEF List, Show, Manager
<1>6. CASE Cancel
  <2>1. mgr'.pc \in {"idle", "request"}
    BY <1>6 DEF Cancel, Manager, IInv, TypeOK, ManagerStates
  <2>2. \A t \in Tasks : verdict'[t] \in {mem[t], verdict[t]}
    BY <1>6 DEF Cancel, Show
  <2> QED BY <1>6, <2>1, <2>2 DEF Cancel
<1>7. CASE Request
  <2>1. \A t \in Tasks : request[t] => request'[t]
    BY <1>7 DEF Request, IInv, TypeOK
  <2>2. mgr'.pc = "idle" /\ faults' \in {faults, faults + 1}
        /\ UNCHANGED <<mem, snap, verdict, receipt, workers>>
    BY <1>7 DEF Request, Fault, Manager
  <2> QED BY <2>1, <2>2
<1>8. CASE SaveFails
  <2>1. mgr'.pc \in {"down", "idle"}
    BY <1>8 DEF SaveFails, Manager
  <2> QED BY <1>8, <2>1 DEF SaveFails, Fault
<1>9. CASE ManagerDies
  BY <1>9, Lists DEF ManagerDies, Forget, Fault, Manager
<1>10. CASE \E o \in {"list", "start", "cancel"}, t \in Listed : Call(o, t)
  BY <1>10 DEF Call, Manager
<1> QED BY <1>1, <1>2, <1>3, <1>4, <1>5, <1>6, <1>7, <1>8, <1>9, <1>10

LEMMA HostDiesKeepsVInv == ASSUME IInv, VInv, HostDies PROVE VInv'
<1>1. /\ mgr' = Manager("down") /\ faults' \in {faults, faults + 1}
      /\ UNCHANGED <<snap, verdict, files>>
  BY DEF HostDies, Forget, Fault
<1>2. ASSUME NEW t \in Tasks PROVE (WorkerTrue(t) /\ ManagerTrue(t))'
  <2>1. /\ mem'[t] = "absent" /\ note'[t] = "queued"
        /\ sup'[t] = IF sup[t] \in SupAlive THEN "dead" ELSE sup[t]
        /\ child'[t] = IF child[t] = "alive" THEN "other" ELSE child[t]
    BY Lists DEF HostDies, Forget
  <2>2. sup[t] \in SupOver \cup SupAlive /\ WorkerTrue(t) /\ ManagerTrue(t)
    BY DEF IInv, TypeOK, VInv
  <2>3. ASSUME NEW s, Fate(t, s), child[t] # "alive" PROVE Fate(t, s)'
    BY <1>1, <2>1, <2>3, FateStays DEF IInv, files
  <2>4. WorkerTrue(t)'
    BY <1>1, <2>1, <2>2, <2>3 DEF WorkerTrue, files, SupOver, SupAlive, SupLoop
  <2>5. ManagerTrue(t)'
    BY <1>1, <2>1, <2>2 DEF ManagerTrue, StatusTrue, files, SupAlive, SupLoop
  <2> QED BY <2>4, <2>5
<1>3. SeenTrue' /\ NotStarted'
  BY <1>1 DEF VInv, SeenTrue, NotStarted, Manager, HostDies, SupAlive, SupLoop
<1> QED BY <1>2, <1>3 DEF VInv

-----------------------------------------------------------------------------
(* Theorems                                                                *)

LEMMA NextVInv == IInv /\ VInv /\ [Next]_vars => VInv'
<1> SUFFICES ASSUME IInv, VInv, [Next]_vars PROVE VInv'
  OBVIOUS
<1>1. CASE UNCHANGED vars
  BY <1>1
  DEF vars, files, workers, VInv, WorkerTrue, Fate, ManagerTrue, StatusTrue, SeenTrue, Current, NotStarted
<1>2. CASE Next
  BY <1>2, Lists, ManagerKeepsVInv, ExamineKeepsVInv, StartKeepsVInv, SpawnKeepsVInv, SupKeepsVInv,
     OthersKeepVInv, HostDiesKeepsVInv
  DEF Next, ManagerStep
<1> QED BY <1>1, <1>2

\* The invariant of the verdicts holds of every reachable state.
THEOREM VerdictInvariant == Spec => []VInv
<1> QED BY InitVInv, NextVInv, Invariant, PTL DEF Spec

\* A verdict that was shown is that of the child: "finished" and "cancelled"
\* say how it ended, "interrupted" that nobody recorded a verdict, and only a
\* failure makes a successful child "failed" (supervise, web_worker.py:92-130,
\* and _reconcile, web_service.py:535-568).
THEOREM VerdictsAreTrue == Spec => []VerdictIsTrue
<1>1. VInv => VerdictIsTrue
  BY DEF VInv, WorkerTrue, ManagerTrue, StatusTrue, Fate, VerdictIsTrue, Verdicts
<1> QED BY <1>1, VerdictInvariant, PTL

\* What the API said of a task that was over it says for ever, unless its
\* supervisor could not be started.
THEOREM VerdictsAreFinal == Spec => VerdictIsFinal
<1>1. IInv /\ VInv /\ [Next]_vars =>
          [\A t \in Tasks : verdict[t] # "none" /\ sup[t] # "none" => verdict'[t] = verdict[t]]_vars
  <2> SUFFICES ASSUME IInv, VInv, Next, NEW t \in Tasks, verdict[t] # "none", sup[t] # "none"
               PROVE  verdict'[t] = verdict[t]
    BY DEF vars
  <2>1. verdict[t] \in Terminal /\ StatusTrue(t, verdict[t]) /\ StatusTrue(t, mem[t])
    BY DEF IInv, TypeOK, VInv, ManagerTrue
  <2>2. mem[t] \in Terminal => mem[t] = verdict[t]
    BY <2>1 DEF StatusTrue, Terminal, Verdicts
  <2>3. ASSUME NEW S, Show(S) PROVE verdict'[t] = verdict[t]
    BY <2>2, <2>3 DEF Show
  <2>4. CASE List \/ Cancel
    BY <2>3, <2>4 DEF List, Cancel
  <2>5. ASSUME ManagerStep, ~(List \/ Cancel) PROVE verdict' = verdict
    BY <2>5
    DEF ManagerStep, Restart, CheckOld, Settle, Save, Booted, StartRefused, Spawn, Request,
        ReadLease, ReadReceipt, Judge, Start
  <2>6. ASSUME NEW u \in Tasks, SupStep(u) PROVE verdict' = verdict
    BY <2>6, SupType DEF IInv, managerVars
  <2>7. ASSUME ~ManagerStep, \A u \in Tasks : ~SupStep(u) PROVE verdict' = verdict
    BY <2>7
    DEF Next, SaveFails, SpawnFails, Call, ReadFails, Settle, ChildEnds, SupDies, OldEnds,
        ManagerDies, HostDies, managerVars
  <2> QED BY <2>4, <2>5, <2>6, <2>7
<1> QED BY <1>1, Invariant, VerdictInvariant, PTL DEF Spec, VerdictIsFinal
=============================================================================
