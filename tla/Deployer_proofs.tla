-------------------------- MODULE Deployer_proofs --------------------------
(***************************************************************************)
(* Proofs about Deployer, for any number of operations at a time, any      *)
(* ports and any intervals.                                                *)
(***************************************************************************)
EXTENDS Deployer, TLAPS

FileType == [rec : RecType, listed : BOOLEAN]

TaskType == [kind : SimpleOps \cup {"none", "deploy"}, step : Steps,
             port : Ports \cup {NoPort}, hours : Hours]

VdsType == [unit : BOOLEAN, env : Ports \cup {NoPort}, proc : Ports \cup {NoPort}, timer : Hours]

\* The task has the lock and has begun.
Active(k) == k.step \notin {"idle", "call", "wait"}

DeployActive(k) == k.kind = "deploy" /\ k.step \in Underway \cup {"begun"}

DeployUnderway(k) == k.kind = "deploy" /\ k.step \in Underway

\* Only the holder of the lock has begun, and the record shows it.
LockInv ==
  \A t \in Tasks :
    /\ Active(task[t]) => Holds(t)
    /\ listed /\ DeployActive(task[t]) => rec.status = "deploying"

\* The port of a deploy: first the record has it, then the server too; when no
\* deploy is under way both have the same.
PortInv ==
  /\ \A t \in Tasks :
       /\ listed /\ DeployUnderway(task[t]) => rec.port = task[t].port
       /\ DeployUnderway(task[t]) /\ task[t].step \in {"written", "ran", "timed"}
            => vds.env = task[t].port
  /\ settled /\ listed /\ (\A t \in Tasks : ~DeployUnderway(task[t])) => vds.env = rec.port

\* "deploying" is the holder's deploy, or was left behind.
CutInv ==
  listed /\ rec.status = "deploying" /\ ~cut => \E t \in Tasks : Holds(t) /\ DeployActive(task[t])

IInv == TypeOK /\ LockInv /\ PortInv /\ CutInv

-----------------------------------------------------------------------------
LEMMA TypeParts ==
  TypeOK <=> /\ rec \in RecType
             /\ listed \in BOOLEAN
             /\ file \in FileType
             /\ task \in [Tasks -> TaskType]
             /\ line \in Seq(Tasks)
             /\ vds \in VdsType
             /\ settled \in BOOLEAN
             /\ unsent \in BOOLEAN
             /\ cut \in BOOLEAN
BY DEF TypeOK, FileType, TaskType, VdsType

LEMMA TypePartsNext ==
  TypeOK' <=> /\ rec' \in RecType
              /\ listed' \in BOOLEAN
              /\ file' \in FileType
              /\ task' \in [Tasks -> TaskType]
              /\ line' \in Seq(Tasks)
              /\ vds' \in VdsType
              /\ settled' \in BOOLEAN
              /\ unsent' \in BOOLEAN
              /\ cut' \in BOOLEAN
BY DEF TypeOK, FileType, TaskType, VdsType

LEMMA NoTaskType == NoTask \in TaskType /\ ~Active(NoTask)
BY DeployerAssumption DEF NoTask, TaskType, Steps, Active

\* What a change of the record does, saved or not.
LEMMA UpdateType ==
  ASSUME TypeOK, NEW r \in RecType, Update(r) \/ UpdateFails(r)
  PROVE  /\ rec' = IF listed THEN r ELSE rec
         /\ rec' \in RecType
         /\ file' \in FileType
<1>1. rec \in RecType /\ file \in FileType /\ Saved(r, TRUE) \in FileType
  BY TypeParts DEF Saved, FileType
<1>2. QED
  BY <1>1 DEF Update, UpdateFails

LEMMA ErrorType ==
  ASSUME TypeOK, NEW r \in RecType, Error(r)
  PROVE  /\ rec' = IF listed THEN [r EXCEPT !.status = "error"] ELSE rec
         /\ rec' \in RecType
         /\ file' \in FileType
<1>1. [r EXCEPT !.status = "error"] \in RecType
  BY DEF RecType, Statuses
<1>2. QED
  BY <1>1, UpdateType DEF Error

LEMMA ActiveDeploys ==
  ASSUME NEW k
  PROVE  /\ DeployUnderway(k) => DeployActive(k)
         /\ DeployActive(k) => Active(k)
BY DEF DeployUnderway, DeployActive, Active, Underway

LEMMA InitInv == Init => IInv
<1> SUFFICES ASSUME Init PROVE IInv
  OBVIOUS
<1> USE DEF Init
<1>1. TypeOK
  <2>1. rec \in RecType
    BY DeployerAssumption DEF RecType, Statuses, Ports
  <2>2. vds \in VdsType
    BY DeployerAssumption DEF VdsType
  <2>3. task \in [Tasks -> TaskType] /\ line \in Seq(Tasks)
    BY NoTaskType
  <2>4. listed \in BOOLEAN /\ settled \in BOOLEAN /\ unsent \in BOOLEAN /\ cut \in BOOLEAN
    OBVIOUS
  <2>5. file \in FileType
    BY <2>1 DEF Saved, FileType
  <2>6. QED
    BY <2>1, <2>2, <2>3, <2>4, <2>5, TypeParts
<1>2. \A t \in Tasks : task[t] = NoTask
  OBVIOUS
<1>3. rec.status = "new" /\ ~settled
  OBVIOUS
<1>4. QED
  BY <1>1, <1>2, <1>3, NoTaskType, ActiveDeploys DEF IInv, LockInv, PortInv, CutInv

\* What a task that joins the line leaves as it was.
LEMMA Joined ==
  ASSUME TypeOK, LockInv, NEW t \in Tasks, ~Active(task[t]), NEW k \in TaskType, ~Active(k),
         task' = [task EXCEPT ![t] = k],
         line' \in {line, Append(line, t)}
  PROVE  /\ task' \in [Tasks -> TaskType]
         /\ line' \in Seq(Tasks)
         /\ \A s \in Tasks : Active(task'[s]) <=> Active(task[s])
         /\ \A s \in Tasks : Active(task[s]) => task'[s] = task[s]
         /\ \A s \in Tasks : Holds(s) => Holds(s)'
<1>1. /\ task \in [Tasks -> TaskType]
      /\ line \in Seq(Tasks)
  BY TypeParts
<1>2. \A s \in Tasks : task'[s] = IF s = t THEN k ELSE task[s]
  BY <1>1
<1>3. line # <<>> => line' # <<>> /\ Head(line') = Head(line)
  BY <1>1
<1>4. line' \in Seq(Tasks)
  BY <1>1
<1>5. QED
  BY <1>1, <1>2, <1>3, <1>4 DEF Holds

\* Nothing else has happened: the invariant is kept.
LEMMA JoinedInv ==
  ASSUME IInv,
         task' \in [Tasks -> TaskType],
         line' \in Seq(Tasks),
         \A s \in Tasks : Active(task'[s]) <=> Active(task[s]),
         \A s \in Tasks : Active(task[s]) => task'[s] = task[s],
         \A s \in Tasks : Holds(s) => Holds(s)',
         rec' \in RecType, rec'.status = rec.status, rec'.port = rec.port, file' \in FileType,
         listed' \in BOOLEAN, listed' => listed,
         unsent' \in BOOLEAN,
         vds' \in VdsType, vds'.env = vds.env,
         UNCHANGED <<settled, cut>>
  PROVE  IInv'
<1>1. /\ LockInv /\ PortInv /\ CutInv
      /\ settled \in BOOLEAN /\ cut \in BOOLEAN
  BY TypeParts DEF IInv
<1>2. TypeOK'
  BY <1>1, TypePartsNext
<1>3. \A s \in Tasks : /\ DeployActive(task'[s]) <=> DeployActive(task[s])
                       /\ DeployUnderway(task'[s]) <=> DeployUnderway(task[s])
  BY ActiveDeploys
<1>4. LockInv'
  BY <1>1, <1>3 DEF LockInv
<1>5. PortInv'
  BY <1>1, <1>3, ActiveDeploys DEF PortInv
<1>6. CutInv'
  BY <1>1, <1>3 DEF CutInv
<1>7. QED
  BY <1>2, <1>4, <1>5, <1>6 DEF IInv

-----------------------------------------------------------------------------
(* Steps of the task that has the lock.                                    *)

\* Nobody else has begun.
LEMMA Alone ==
  ASSUME IInv, NEW t \in Tasks, Holds(t)
  PROVE  /\ \A s \in Tasks : s # t => ~Active(task[s])
         /\ ~DeployActive(task[t]) =>
              /\ ~(listed /\ rec.status = "deploying" /\ ~cut)
              /\ settled /\ listed => vds.env = rec.port
         /\ ~DeployUnderway(task[t]) => (settled /\ listed => vds.env = rec.port)
<1>1. LockInv /\ PortInv /\ CutInv
  BY DEF IInv
<1>2. \A s \in Tasks : Holds(s) => s = t
  BY DEF Holds
<1>3. \A s \in Tasks : s # t => ~Active(task[s])
  BY <1>1, <1>2 DEF LockInv
<1>4. ~DeployActive(task[t]) => \A s \in Tasks : ~DeployActive(task[s])
  BY <1>3, ActiveDeploys
<1>5. ~DeployUnderway(task[t]) => \A s \in Tasks : ~DeployUnderway(task[s])
  BY <1>3, ActiveDeploys
<1>6. listed /\ rec.status = "deploying" /\ ~cut => \E s \in Tasks : DeployActive(task[s])
  BY <1>1 DEF CutInv
<1>7. settled /\ listed /\ (\A s \in Tasks : ~DeployUnderway(task[s])) => vds.env = rec.port
  BY <1>1 DEF PortInv
<1>8. QED
  BY <1>3, <1>4, <1>5, <1>6, <1>7, ActiveDeploys

\* The task goes on and becomes k.
LEMMA HolderGoesOn ==
  ASSUME IInv, NEW t \in Tasks, Holds(t), NEW k \in TaskType,
         task' = [task EXCEPT ![t] = k],
         rec' \in RecType, file' \in FileType, vds' \in VdsType,
         settled' \in BOOLEAN, unsent' \in BOOLEAN, cut' \in BOOLEAN,
         UNCHANGED <<listed, line>>,
         listed /\ DeployActive(k) => rec'.status = "deploying",
         listed /\ rec'.status = "deploying" /\ ~cut' => DeployActive(k),
         listed /\ DeployUnderway(k) => rec'.port = k.port,
         DeployUnderway(k) /\ k.step \in {"written", "ran", "timed"} => vds'.env = k.port,
         settled' /\ listed /\ ~DeployUnderway(k) => vds'.env = rec'.port
  PROVE  IInv'
<1>1. /\ task \in [Tasks -> TaskType] /\ line \in Seq(Tasks)
      /\ listed \in BOOLEAN
  BY TypeParts DEF IInv
<1>2. task' \in [Tasks -> TaskType] /\ task'[t] = k /\ \A s \in Tasks : s # t => task'[s] = task[s]
  BY <1>1
<1>3. TypeOK'
  BY <1>1, <1>2, TypePartsNext
<1>4. \A s \in Tasks : s # t => ~Active(task'[s])
  BY <1>2, Alone
<1>5. Holds(t)'
  BY DEF Holds
<1>6. \A s \in Tasks : s # t => ~DeployActive(task'[s]) /\ ~DeployUnderway(task'[s])
  BY <1>4, ActiveDeploys
<1>7. LockInv'
  BY <1>2, <1>4, <1>5, <1>6 DEF LockInv
<1>8. PortInv'
  BY <1>2, <1>6 DEF PortInv
<1>9. CutInv'
  BY <1>2, <1>5 DEF CutInv
<1>10. QED
  BY <1>3, <1>7, <1>8, <1>9 DEF IInv

\* The task ends and gives the lock to the next.
LEMMA HolderEnds ==
  ASSUME IInv, NEW t \in Tasks, Holds(t), Finish(t),
         rec' \in RecType, file' \in FileType, settled' \in BOOLEAN, cut' \in BOOLEAN,
         UNCHANGED <<listed, vds, unsent>>,
         ~(listed /\ rec'.status = "deploying" /\ ~cut'),
         settled' /\ listed => vds.env = rec'.port
  PROVE  IInv'
<1>1. /\ task \in [Tasks -> TaskType] /\ line \in Seq(Tasks) /\ vds \in VdsType
      /\ listed \in BOOLEAN /\ unsent \in BOOLEAN
  BY TypeParts DEF IInv
<1>2. \A s \in Tasks : task'[s] = IF s = t THEN NoTask ELSE task[s]
  BY <1>1 DEF Finish
<1>3. task' \in [Tasks -> TaskType]
  BY <1>1, NoTaskType DEF Finish
<1>4. line' \in Seq(Tasks)
  BY <1>1 DEF Finish, Holds
<1>5. TypeOK'
  BY <1>1, <1>3, <1>4, TypePartsNext
<1>6. \A s \in Tasks : ~Active(task'[s])
  BY <1>2, NoTaskType, Alone
<1>7. \A s \in Tasks : ~DeployActive(task'[s]) /\ ~DeployUnderway(task'[s])
  BY <1>6, ActiveDeploys
<1>8. LockInv' /\ PortInv'
  BY <1>6, <1>7 DEF LockInv, PortInv
<1>9. CutInv'
  BY DEF CutInv
<1>10. QED
  BY <1>5, <1>8, <1>9 DEF IInv

-----------------------------------------------------------------------------
(* The actions.                                                            *)

\* A task put in the line is an operation that waits.
LEMMA EnqueueJoins ==
  ASSUME IInv, NEW t \in Tasks, ~Active(task[t]), NEW kind \in SimpleOps \cup {"deploy"},
         NEW port \in Ports \cup {NoPort}, rec' \in RecType, Enqueue(t, kind, port)
  PROVE  /\ task' \in [Tasks -> TaskType]
         /\ line' \in Seq(Tasks)
         /\ \A s \in Tasks : Active(task'[s]) <=> Active(task[s])
         /\ \A s \in Tasks : Active(task[s]) => task'[s] = task[s]
         /\ \A s \in Tasks : Holds(s) => Holds(s)'
<1> DEFINE k == [kind |-> kind, step |-> "wait", port |-> port, hours |-> rec'.hours]
<1>1. k \in TaskType /\ ~Active(k)
  BY DEF TaskType, Steps, RecType, Active
<1>2. task' = [task EXCEPT ![t] = k] /\ line' = Append(line, t)
  BY DEF Enqueue
<1>3. TypeOK /\ LockInv
  BY DEF IInv
<1> HIDE DEF k
<1>4. QED
  BY <1>1, <1>2, <1>3, Joined

LEMMA RequestInv ==
  ASSUME IInv, NEW t \in Tasks, NEW kind \in {"restart", "stop", "uninstall"}, Request(t, kind)
  PROVE  IInv'
<1>1. /\ rec \in RecType /\ file \in FileType /\ listed \in BOOLEAN /\ unsent \in BOOLEAN
      /\ vds \in VdsType
  BY TypeParts DEF IInv
<1>2. /\ rec' = rec /\ ~Active(task[t]) /\ Enqueue(t, kind, NoPort)
      /\ UNCHANGED <<listed, file, vds, settled, unsent, cut>>
  BY NoTaskType DEF Request, registry, history
<1>3. kind \in SimpleOps \cup {"deploy"}
  BY DEF SimpleOps
<1>4. QED
  BY <1>1, <1>2, <1>3, EnqueueJoins, JoinedInv

LEMMA DeployCallInv ==
  ASSUME IInv, NEW t \in Tasks, DeployCall(t)
  PROVE  IInv'
<1>1. /\ rec \in RecType /\ file \in FileType /\ listed \in BOOLEAN /\ unsent \in BOOLEAN
      /\ vds \in VdsType /\ TypeOK /\ LockInv
  BY TypeParts DEF IInv
<1>2. /\ rec' = rec /\ ~Active(task[t])
      /\ UNCHANGED <<listed, file, vds, settled, unsent, cut>>
  BY NoTaskType DEF DeployCall, registry, history
<1>3. CASE rec.key
  <2> DEFINE k == [NoTask EXCEPT !.kind = "deploy", !.step = "call"]
  <2>1. k \in TaskType /\ ~Active(k)
    BY NoTaskType DEF NoTask, TaskType, Steps, Active
  <2>2. task' = [task EXCEPT ![t] = k] /\ line' = line
    BY <1>3 DEF DeployCall
  <2> HIDE DEF k
  <2>3. QED
    BY <1>1, <1>2, <2>1, <2>2, Joined, JoinedInv
<1>4. CASE ~rec.key
  <2>1. Enqueue(t, "deploy", NoPort)
    BY <1>4 DEF DeployCall
  <2>2. QED
    BY <1>1, <1>2, <2>1, EnqueueJoins, JoinedInv
<1>5. QED
  BY <1>3, <1>4

LEMMA DeployRequestInv ==
  ASSUME IInv, NEW t \in Tasks, DeployRequest(t)
  PROVE  IInv'
<1>1. /\ rec \in RecType /\ file \in FileType /\ listed \in BOOLEAN /\ unsent \in BOOLEAN
      /\ vds \in VdsType /\ TypeOK /\ LockInv
  BY TypeParts DEF IInv
<1>2. /\ rec' = rec /\ ~Active(task[t])
      /\ UNCHANGED <<listed, file, vds, settled, unsent, cut>>
  BY DEF DeployRequest, registry, history, Active
<1>3. CASE listed
  <2>1. PICK port \in {vds.env, NoPort} : Enqueue(t, "deploy", port)
    BY <1>3 DEF DeployRequest
  <2>2. port \in Ports \cup {NoPort}
    BY <1>1 DEF VdsType
  <2>3. QED
    BY <1>1, <1>2, <2>1, <2>2, EnqueueJoins, JoinedInv
<1>4. CASE ~listed
  <2>1. task' = [task EXCEPT ![t] = NoTask] /\ line' = line
    BY <1>4 DEF DeployRequest
  <2>2. QED
    BY <1>1, <1>2, <2>1, NoTaskType, Joined, JoinedInv
<1>5. QED
  BY <1>3, <1>4

LEMMA PatchHoursInv ==
  ASSUME IInv, NEW t, NEW h \in Hours, (t \in Tasks /\ PatchHours(t, h)) \/ PatchHoursFails(h)
  PROVE  IInv'
<1>1. /\ rec \in RecType /\ listed \in BOOLEAN /\ unsent \in BOOLEAN /\ vds \in VdsType
      /\ task \in [Tasks -> TaskType] /\ line \in Seq(Tasks) /\ TypeOK
  BY TypeParts DEF IInv
<1> DEFINE r == [rec EXCEPT !.hours = h]
<1>2. /\ listed /\ (Update(r) \/ UpdateFails(r))
      /\ UNCHANGED <<listed, vds, settled, cut>>
  BY DEF PatchHours, PatchHoursFails, UpdateFails
<1>3. r \in RecType /\ r.status = rec.status /\ r.port = rec.port
  BY <1>1 DEF RecType
<1> HIDE DEF r
<1>4. /\ rec' \in RecType /\ rec'.status = rec.status /\ rec'.port = rec.port
      /\ file' \in FileType
  BY <1>1, <1>2, <1>3, UpdateType
<1>5. CASE t \in Tasks /\ PatchHours(t, h) /\ rec.key /\ rec.status # "new"
  <2>1. ~Active(task[t]) /\ Enqueue(t, "sync_timer", NoPort) /\ unsent' = unsent
    BY <1>5, NoTaskType DEF PatchHours
  <2>2. "sync_timer" \in SimpleOps \cup {"deploy"}
    BY DEF SimpleOps
  <2>3. QED
    BY <1>1, <1>2, <1>4, <1>5, <2>1, <2>2, EnqueueJoins, JoinedInv
<1>6. CASE PatchHoursFails(h) \/ (PatchHours(t, h) /\ ~(rec.key /\ rec.status # "new"))
  <2>1. unsent' \in BOOLEAN /\ UNCHANGED <<task, line>>
    BY <1>1, <1>6 DEF PatchHours, PatchHoursFails
  <2>2. \A s \in Tasks : Holds(s) => Holds(s)'
    BY <2>1 DEF Holds
  <2>3. QED
    BY <1>1, <1>2, <1>4, <2>1, <2>2, JoinedInv
<1>7. QED
  BY <1>5, <1>6

\* Deletion, another bot's save, restarts by systemd and stuttering leave tasks and
\* record alone.
LEMMA QuietInv ==
  ASSUME IInv, Delete \/ Resave \/ SystemdStarts \/ UNCHANGED vars
  PROVE  IInv'
<1>1. /\ rec \in RecType /\ file \in FileType /\ listed \in BOOLEAN /\ unsent \in BOOLEAN
      /\ vds \in VdsType /\ task \in [Tasks -> TaskType] /\ line \in Seq(Tasks)
  BY TypeParts DEF IInv
<1>2. UNCHANGED <<rec, task, line, settled, unsent, cut>>
  BY DEF Delete, Resave, SystemdStarts, vars, registry, history
<1>3. listed' \in BOOLEAN /\ (listed' => listed)
  <2>1. CASE Delete
    BY <2>1 DEF Delete
  <2>2. CASE Resave \/ SystemdStarts \/ UNCHANGED vars
    <3>1. listed' = listed
      BY <2>2 DEF Resave, SystemdStarts, vars, registry
    <3>2. QED
      BY <1>1, <3>1
  <2>3. QED
    BY <2>1, <2>2
<1>4. vds' \in VdsType /\ vds'.env = vds.env
  BY <1>1 DEF Delete, Resave, SystemdStarts, Started, VdsType, vars, history
<1>5. file' \in FileType
  <2>1. file' \in {file, Saved(rec, FALSE), Saved(rec, listed)}
    BY DEF Delete, Resave, SystemdStarts, vars, registry
  <2>2. Saved(rec, FALSE) \in FileType /\ Saved(rec, listed) \in FileType
    BY <1>1 DEF Saved, FileType
  <2>3. QED
    BY <1>1, <2>1, <2>2
<1>6. \A s \in Tasks : Holds(s) => Holds(s)'
  BY <1>2 DEF Holds
<1>7. QED
  BY <1>1, <1>2, <1>3, <1>4, <1>5, <1>6, JoinedInv

LEMMA DeployBeginInv ==
  ASSUME IInv, NEW t \in Tasks, DeployBegin(t)
  PROVE  IInv'
<1> DEFINE k == [task[t] EXCEPT !.step = "begun"]
<1> DEFINE r == [rec EXCEPT !.status = "deploying"]
<1>1. /\ rec \in RecType /\ listed \in BOOLEAN /\ vds \in VdsType /\ settled \in BOOLEAN
      /\ unsent \in BOOLEAN /\ task \in [Tasks -> TaskType] /\ TypeOK
  BY TypeParts DEF IInv
<1>2. /\ Holds(t) /\ task[t].kind = "deploy" /\ task[t].step = "wait"
      /\ UNCHANGED <<listed, vds, settled, unsent>>
  BY DEF DeployBegin, Deploying
<1>3. r \in RecType /\ r.status = "deploying" /\ r.port = rec.port
  BY <1>1 DEF RecType, Statuses
<1>4. settled /\ listed => vds.env = rec.port
  BY <1>2, Alone DEF DeployUnderway, Underway
<1>5. CASE Update(r) /\ Goto(t, "begun") /\ cut' = FALSE /\ UNCHANGED line
  <2>1. task' = [task EXCEPT ![t] = k]
    BY <1>5 DEF Goto
  <2>2. k \in TaskType /\ k.kind = "deploy" /\ k.step = "begun"
    BY <1>1, <1>2 DEF TaskType, Steps
  <2>3. DeployActive(k) /\ ~DeployUnderway(k)
    BY <2>2 DEF DeployActive, DeployUnderway, Underway
  <2> HIDE DEF k, r
  <2>4. /\ rec' \in RecType /\ file' \in FileType
        /\ (listed => rec'.status = "deploying") /\ rec'.port = rec.port
    BY <1>1, <1>3, <1>5, UpdateType
  <2>5. QED
    BY <1>1, <1>2, <1>4, <1>5, <2>1, <2>2, <2>3, <2>4, HolderGoesOn
<1>6. CASE UpdateFails(r) /\ Finish(t) /\ cut' = TRUE
  <2> HIDE DEF k, r
  <2>1. rec' \in RecType /\ file' \in FileType /\ rec'.port = rec.port
    BY <1>1, <1>3, <1>6, UpdateType
  <2>2. QED
    BY <1>1, <1>2, <1>4, <1>6, <2>1, HolderEnds
<1>7. QED
  BY <1>5, <1>6 DEF DeployBegin

\* The port is one of those the code tries.
LEMMA PicksPorts ==
  ASSUME IInv, NEW t \in Tasks
  PROVE  Picks(t) \subseteq Ports
<1>1. /\ rec \in RecType /\ vds \in VdsType /\ task \in [Tasks -> TaskType]
  BY TypeParts DEF IInv
<1>2. Preferred(t) \subseteq Ports
  BY <1>1 DEF Preferred, RecType, VdsType, TaskType
<1>3. ASSUME NEW preferred \in Ports, NEW busy
      PROVE  FirstFree(preferred, busy) \subseteq Ports
  BY DEF FirstFree, Ports
<1>4. QED
  BY <1>2, <1>3 DEF Picks

LEMMA PickInv ==
  ASSUME IInv, NEW t \in Tasks, Pick(t)
  PROVE  IInv'
<1>1. /\ rec \in RecType /\ file \in FileType /\ listed \in BOOLEAN /\ vds \in VdsType /\ TypeOK
      /\ settled \in BOOLEAN /\ unsent \in BOOLEAN /\ cut \in BOOLEAN
      /\ task \in [Tasks -> TaskType]
  BY TypeParts DEF IInv
<1>2. /\ Holds(t) /\ task[t].kind = "deploy" /\ task[t].step = "begun"
      /\ UNCHANGED <<listed, line, vds, settled, unsent, cut>>
  BY DEF Pick, Deploying, history
<1>3. PICK port \in Ports :
        /\ IF port = rec.port THEN UNCHANGED <<rec, file>> ELSE Update([rec EXCEPT !.port = port])
        /\ task' = [task EXCEPT ![t].step = "picked", ![t].port = port]
  BY PicksPorts DEF Pick
<1> DEFINE k == [task[t] EXCEPT !.step = "picked", !.port = port]
<1>4. task' = [task EXCEPT ![t] = k]
  BY <1>1, <1>3
<1>5. k \in TaskType /\ k.kind = "deploy" /\ k.step = "picked" /\ k.port = port
  BY <1>1, <1>2 DEF TaskType, Steps, Underway
<1>6. DeployActive(k) /\ DeployUnderway(k)
  BY <1>5 DEF DeployActive, DeployUnderway, Underway
<1>7. listed => rec.status = "deploying"
  BY <1>1, <1>2 DEF IInv, LockInv, DeployActive
<1> DEFINE r == [rec EXCEPT !.port = port]
<1>8. r \in RecType /\ r.status = rec.status /\ r.port = port
  BY <1>1 DEF RecType
<1> HIDE DEF k, r
<1>9. /\ rec' \in RecType /\ file' \in FileType /\ rec'.status = rec.status
      /\ listed => rec'.port = port
  <2>1. CASE port = rec.port
    BY <1>1, <1>3, <2>1
  <2>2. CASE port # rec.port
    <3>1. Update(r)
      BY <1>3, <2>2 DEF r
    <3>2. QED
      BY <1>1, <1>8, <3>1, UpdateType
  <2>3. QED
    BY <2>1, <2>2
<1>10. QED
  BY <1>1, <1>2, <1>4, <1>5, <1>6, <1>7, <1>9, HolderGoesOn

LEMMA PickFailsInv ==
  ASSUME IInv, NEW t \in Tasks, PickFails(t)
  PROVE  IInv'
<1>1. rec \in RecType /\ TypeOK
  BY TypeParts DEF IInv
<1>2. Holds(t) /\ Finish(t) /\ listed /\ settled' = FALSE /\ UNCHANGED <<listed, vds, unsent, cut>>
  BY DEF PickFails, Deploying
<1>3. cut \in BOOLEAN
  BY TypeParts DEF IInv
<1>4. PICK port \in Ports : Error([rec EXCEPT !.port = port])
  BY PicksPorts DEF PickFails
<1> DEFINE r == [rec EXCEPT !.port = port]
<1>5. r \in RecType
  BY <1>1 DEF RecType
<1> HIDE DEF r
<1>6. Error(r)
  BY <1>4 DEF r
<1>7. rec' = [r EXCEPT !.status = "error"] /\ rec' \in RecType /\ file' \in FileType
  BY <1>1, <1>2, <1>5, <1>6, ErrorType
<1>8. rec'.status = "error"
  BY <1>5, <1>7 DEF RecType
<1>9. QED
  BY <1>2, <1>3, <1>7, <1>8, HolderEnds

\* The steps between the choice of the port and the end, after which the task has
\* the step given.
LEMMA DeployGoesOn ==
  ASSUME IInv, NEW t \in Tasks, Holds(t), DeployUnderway(task[t]),
         NEW step \in Underway, Goto(t, step),
         UNCHANGED <<registry, line, settled, cut>>, unsent' \in BOOLEAN,
         vds' \in VdsType,
         step \in {"written", "ran", "timed"} => vds'.env = task[t].port
  PROVE  IInv'
<1> DEFINE k == [task[t] EXCEPT !.step = step]
<1>1. /\ rec \in RecType /\ file \in FileType /\ settled \in BOOLEAN /\ cut \in BOOLEAN
      /\ task \in [Tasks -> TaskType] /\ UNCHANGED <<rec, listed, file>>
  BY TypeParts DEF IInv, registry
<1>2. task' = [task EXCEPT ![t] = k]
  BY DEF Goto
<1>3. k \in TaskType /\ k.kind = task[t].kind /\ k.step = step /\ k.port = task[t].port
  BY <1>1 DEF TaskType, Steps
<1>4. DeployActive(k) /\ DeployUnderway(k)
  BY <1>3 DEF DeployActive, DeployUnderway
<1>5. listed => rec.status = "deploying" /\ rec.port = task[t].port
  BY ActiveDeploys DEF IInv, LockInv, PortInv
<1> HIDE DEF k
<1>6. QED
  BY <1>1, <1>2, <1>3, <1>4, <1>5, HolderGoesOn

LEMMA DeployStepsInv ==
  ASSUME IInv, NEW t \in Tasks,
         StopOld(t) \/ WriteEnv(t) \/ StartUnit(t) \/ DeployTimer(t)
  PROVE  IInv'
<1>1. /\ rec \in RecType /\ vds \in VdsType /\ task \in [Tasks -> TaskType]
      /\ unsent \in BOOLEAN
  BY TypeParts DEF IInv
<1>2. /\ Holds(t) /\ DeployUnderway(task[t])
      /\ UNCHANGED <<registry, line, settled, cut>> /\ unsent' \in BOOLEAN
  BY <1>1 DEF StopOld, WriteEnv, StartUnit, DeployTimer, TimerSet, Deploying, DeployUnderway, Underway,
         history
<1>3. task[t].step \in {"written", "ran", "timed"} => vds.env = task[t].port
  BY <1>2 DEF IInv, PortInv
<1>4. PICK step \in Underway : /\ Goto(t, step)
                               /\ step \in {"written", "ran", "timed"} => vds'.env = task[t].port
  <2>1. CASE StopOld(t)
    BY <2>1 DEF StopOld, Underway
  <2>2. CASE WriteEnv(t)
    BY <1>1, <2>2 DEF WriteEnv, VdsType, Underway
  <2>3. CASE StartUnit(t)
    BY <1>1, <1>3, <2>3 DEF StartUnit, Started, Deploying, VdsType, Underway
  <2>4. CASE DeployTimer(t)
    BY <1>1, <1>3, <2>4 DEF DeployTimer, Deploying, VdsType, Underway
  <2>5. QED
    BY <2>1, <2>2, <2>3, <2>4
<1>5. vds' \in VdsType
  <2>1. CASE StopOld(t)
    BY <1>1, <2>1 DEF StopOld, VdsType
  <2>2. CASE WriteEnv(t)
    BY <1>1, <2>2 DEF WriteEnv, VdsType, TaskType
  <2>3. CASE StartUnit(t)
    BY <1>1, <2>3 DEF StartUnit, Started, VdsType
  <2>4. CASE DeployTimer(t)
    BY <1>1, <2>4 DEF DeployTimer, VdsType, RecType
  <2>5. QED
    BY <2>1, <2>2, <2>3, <2>4
<1>6. QED
  BY <1>2, <1>4, <1>5, DeployGoesOn

LEMMA DeployEndsInv ==
  ASSUME IInv, NEW t \in Tasks, DeployDone(t) \/ DeployFails(t)
  PROVE  IInv'
<1>1. /\ rec \in RecType /\ listed \in BOOLEAN /\ settled \in BOOLEAN /\ cut \in BOOLEAN
      /\ task \in [Tasks -> TaskType] /\ TypeOK
  BY TypeParts DEF IInv
<1>2. Holds(t) /\ Finish(t) /\ UNCHANGED <<listed, vds, unsent, cut>>
  BY DEF DeployDone, DeployFails, Deploying
<1>3. ASSUME task[t].kind = "deploy", task[t].step = "timed"
      PROVE  /\ DeployUnderway(task[t])
             /\ vds.env = task[t].port
             /\ listed => Deployed(t) \in RecType
             /\ listed => Deployed(t).status = "running" /\ Deployed(t).port = task[t].port
  <2>1. DeployUnderway(task[t])
    BY <1>3 DEF DeployUnderway, Underway
  <2>2. vds.env = task[t].port
    BY <1>3, <2>1 DEF IInv, PortInv
  <2>3. listed => task[t].port \in Ports
    BY <1>1, <2>1 DEF IInv, PortInv, RecType
  <2>4. QED
    BY <1>1, <2>1, <2>2, <2>3 DEF Deployed, RecType, Statuses
<1>4. CASE DeployDone(t)
  <2>1. /\ task[t].kind = "deploy" /\ task[t].step = "timed"
        /\ Update(Deployed(t)) /\ settled' = TRUE
    BY <1>4 DEF DeployDone, Deploying
  <2>2. CASE listed
    <3>1. rec' = Deployed(t) /\ rec' \in RecType /\ file' \in FileType
      BY <1>1, <1>3, <2>1, <2>2, UpdateType
    <3>2. rec'.status = "running" /\ rec'.port = vds.env
      BY <1>3, <2>1, <2>2, <3>1
    <3>3. QED
      BY <1>1, <1>2, <2>1, <3>1, <3>2, HolderEnds
  <2>3. CASE ~listed
    <3>1. rec' = rec /\ file' = file /\ file \in FileType
      BY <2>1, <2>3, TypeParts DEF Update, IInv
    <3>2. QED
      BY <1>1, <1>2, <2>1, <2>3, <3>1, HolderEnds
  <2>4. QED
    BY <2>2, <2>3
<1>5. CASE DeployFails(t)
  <2>1. /\ task[t].kind = "deploy"
        /\ settled' = (settled /\ task[t].step \notin Underway)
        /\ \/ Error(rec)
           \/ task[t].step = "timed" /\ listed /\ Error(Deployed(t))
    BY <1>5 DEF DeployFails
  <2>2. settled' \in BOOLEAN
    BY <2>1
  <2>3. CASE Error(rec)
    <3>1. /\ rec' = IF listed THEN [rec EXCEPT !.status = "error"] ELSE rec
          /\ rec' \in RecType /\ file' \in FileType
      BY <1>1, <2>3, ErrorType
    <3>2. (listed => rec'.status = "error") /\ rec'.port = rec.port
      BY <1>1, <3>1 DEF RecType
    <3>3. settled' => settled /\ ~DeployUnderway(task[t])
      BY <2>1 DEF DeployUnderway
    <3>4. settled' /\ listed => vds.env = rec'.port
      BY <1>2, <3>2, <3>3, Alone
    <3>5. QED
      BY <1>1, <1>2, <2>2, <3>1, <3>2, <3>4, HolderEnds
  <2>4. CASE task[t].step = "timed" /\ listed /\ Error(Deployed(t))
    <3>1. /\ rec' = [Deployed(t) EXCEPT !.status = "error"]
          /\ rec' \in RecType /\ file' \in FileType
      BY <1>1, <1>3, <2>1, <2>4, ErrorType
    <3>2. rec'.status = "error"
      BY <1>3, <2>1, <2>4, <3>1 DEF RecType
    <3>3. ~settled'
      BY <2>1, <2>4 DEF Underway
    <3>4. QED
      BY <1>1, <1>2, <2>2, <3>1, <3>2, <3>3, HolderEnds
  <2>5. QED
    BY <2>1, <2>3, <2>4
<1>6. QED
  BY <1>4, <1>5

LEMMA OpGoesOnInv ==
  ASSUME IInv, NEW t \in Tasks, OpRun(t) \/ OpTimer(t)
  PROVE  IInv'
<1>1. /\ rec \in RecType /\ file \in FileType /\ vds \in VdsType /\ settled \in BOOLEAN
      /\ unsent \in BOOLEAN /\ cut \in BOOLEAN /\ task \in [Tasks -> TaskType]
  BY TypeParts DEF IInv
<1>2. /\ Holds(t) /\ task[t].kind \in SimpleOps
      /\ UNCHANGED <<rec, listed, file, line, cut>> /\ unsent' \in BOOLEAN
  BY <1>1 DEF OpRun, OpTimer, TimerSet, registry, history, SimpleOps
<1>3. ~DeployActive(task[t]) /\ ~DeployUnderway(task[t])
  BY <1>2 DEF DeployActive, DeployUnderway, SimpleOps
<1>4. /\ ~(listed /\ rec.status = "deploying" /\ ~cut)
      /\ settled /\ listed => vds.env = rec.port
  BY <1>2, <1>3, Alone
<1>5. PICK step \in {"ran", "timed"} : task' = [task EXCEPT ![t] = [task[t] EXCEPT !.step = step]]
  BY DEF OpRun, OpTimer, Goto
<1> DEFINE k == [task[t] EXCEPT !.step = step]
<1>6. k \in TaskType /\ k.kind = task[t].kind
  BY <1>1 DEF TaskType, Steps, Underway
<1>7. ~DeployActive(k) /\ ~DeployUnderway(k)
  BY <1>2, <1>6 DEF DeployActive, DeployUnderway, SimpleOps
<1>8. /\ vds' \in VdsType /\ settled' \in BOOLEAN
      /\ settled' => settled /\ vds'.env = vds.env
  <2>1. CASE OpRun(t)
    <3>1. /\ vds' = Effect(task[t].kind, vds)
          /\ settled' = (settled /\ task[t].kind # "uninstall")
      BY <2>1 DEF OpRun
    <3>2. \/ vds' = Started(vds)
          \/ vds' = [vds EXCEPT !.proc = NoPort]
          \/ task[t].kind = "uninstall"
               /\ vds' = [unit |-> FALSE, env |-> NoPort, proc |-> NoPort, timer |-> 0]
          \/ vds' = vds
      BY <1>2, <3>1 DEF Effect, SimpleOps
    <3>3. vds' \in VdsType
      <4>1. [unit |-> FALSE, env |-> NoPort, proc |-> NoPort, timer |-> 0] \in VdsType
        BY DeployerAssumption DEF VdsType
      <4>2. Started(vds) \in VdsType /\ [vds EXCEPT !.proc = NoPort] \in VdsType
        BY <1>1 DEF Started, VdsType
      <4>3. QED
        BY <1>1, <3>2, <4>1, <4>2
    <3>4. task[t].kind # "uninstall" => vds'.env = vds.env
      BY <1>1, <3>2 DEF Started, VdsType
    <3>5. settled' \in BOOLEAN /\ (settled' => settled /\ task[t].kind # "uninstall")
      BY <3>1
    <3>6. QED
      BY <3>3, <3>4, <3>5
  <2>2. CASE OpTimer(t)
    <3>1. vds' = [vds EXCEPT !.timer = task[t].hours] /\ settled' = settled
      BY <2>2 DEF OpTimer, history
    <3>2. vds' \in VdsType /\ vds'.env = vds.env
      BY <1>1, <3>1 DEF VdsType, TaskType
    <3>3. QED
      BY <1>1, <3>1, <3>2
  <2>3. QED
    BY <2>1, <2>2
<1> HIDE DEF k
<1>9. task' = [task EXCEPT ![t] = k]
  BY <1>5 DEF k
<1>10. QED
  BY <1>1, <1>2, <1>4, <1>6, <1>7, <1>8, <1>9, HolderGoesOn

LEMMA OpEndsInv ==
  ASSUME IInv, NEW t \in Tasks, OpDone(t) \/ OpFails(t)
  PROVE  IInv'
<1>1. /\ rec \in RecType /\ file \in FileType /\ settled \in BOOLEAN /\ cut \in BOOLEAN
      /\ task \in [Tasks -> TaskType] /\ TypeOK
  BY TypeParts DEF IInv
<1>2. Holds(t) /\ Finish(t) /\ UNCHANGED <<listed, vds, settled, unsent, cut>>
  BY DEF OpDone, OpFails, history
<1>3. task[t].kind \in SimpleOps
  BY DEF OpDone, OpFails, SimpleOps
<1>4. /\ ~(listed /\ rec.status = "deploying" /\ ~cut)
      /\ settled /\ listed => vds.env = rec.port
  BY <1>2, <1>3, Alone DEF DeployActive, SimpleOps
<1>5. \/ UNCHANGED <<rec, file>>
      \/ \E status \in {"running", "stopped", "error"} :
           LET r == [rec EXCEPT !.status = status] IN Update(r) \/ UpdateFails(r)
  BY <1>3 DEF OpDone, OpFails, Error, SimpleOps
<1>6. /\ rec' \in RecType /\ file' \in FileType /\ rec'.port = rec.port
      /\ rec'.status = "deploying" => rec.status = "deploying"
  <2>1. CASE UNCHANGED <<rec, file>>
    BY <1>1, <2>1
  <2>2. ASSUME NEW status \in {"running", "stopped", "error"},
               NEW r, r = [rec EXCEPT !.status = status], Update(r) \/ UpdateFails(r)
        PROVE  <1>6
    <3>1. r \in RecType /\ r.port = rec.port /\ r.status = status
      BY <1>1, <2>2 DEF RecType, Statuses
    <3>2. QED
      BY <1>1, <2>2, <3>1, UpdateType
  <2>3. QED
    BY <1>5, <2>1, <2>2
<1>7. QED
  BY <1>1, <1>2, <1>4, <1>6, HolderEnds

LEMMA CrashInv ==
  ASSUME IInv, Crash
  PROVE  IInv'
<1>1. /\ rec \in RecType /\ listed \in BOOLEAN /\ file \in FileType /\ vds \in VdsType
      /\ settled \in BOOLEAN /\ unsent \in BOOLEAN /\ cut \in BOOLEAN
      /\ task \in [Tasks -> TaskType]
  BY TypeParts DEF IInv
<1>2. /\ task' = [t \in Tasks |-> NoTask] /\ line' = <<>>
      /\ settled' => settled /\ ~Unsaved /\ \A t \in Tasks : ~DeployUnderway(task[t])
      /\ ~cut' => ~cut /\ ~Unsaved /\ \A t \in Tasks : ~DeployActive(task[t])
      /\ rec' = file.rec /\ listed' = file.listed
      /\ UNCHANGED <<file, vds>>
  BY DEF Crash, DeployUnderway, DeployActive
<1>3. settled' \in BOOLEAN /\ unsent' \in BOOLEAN /\ cut' \in BOOLEAN
  BY DEF Crash
<1>4. TypeOK'
  <2>1. task' \in [Tasks -> TaskType] /\ line' \in Seq(Tasks)
    BY <1>2, NoTaskType
  <2>2. rec' \in RecType /\ listed' \in BOOLEAN /\ file' \in FileType /\ vds' \in VdsType
    BY <1>1, <1>2 DEF FileType
  <2>3. QED
    BY <1>3, <2>1, <2>2, TypePartsNext
<1>5. \A t \in Tasks : ~Active(task'[t]) /\ ~DeployActive(task'[t]) /\ ~DeployUnderway(task'[t])
  BY <1>2, NoTaskType, ActiveDeploys
<1>6. LockInv'
  BY <1>5 DEF LockInv
<1>7. ~Unsaved => rec' = rec /\ listed' = listed
  BY <1>2 DEF Unsaved, Saved
<1>8. PortInv'
  <2>1. settled' /\ listed' => vds'.env = rec'.port
    BY <1>2, <1>7 DEF IInv, PortInv
  <2>2. QED
    BY <1>5, <2>1 DEF PortInv
<1>9. CutInv'
  <2>1. ~(listed' /\ rec'.status = "deploying" /\ ~cut')
    BY <1>2, <1>7 DEF IInv, CutInv
  <2>2. QED
    BY <2>1 DEF CutInv
<1>10. QED
  BY <1>4, <1>6, <1>8, <1>9 DEF IInv

LEMMA NextInv == IInv /\ [Next]_vars => IInv'
<1> SUFFICES ASSUME IInv, [Next]_vars PROVE IInv'
  OBVIOUS
<1>1. CASE OwnerNext
  <2>1. CASE \/ \E t \in Tasks, h \in Hours : PatchHours(t, h)
             \/ \E h \in Hours : PatchHoursFails(h)
    BY <2>1, PatchHoursInv
  <2>2. QED
    BY <1>1, <2>1, RequestInv, DeployCallInv, DeployRequestInv, QuietInv DEF OwnerNext
<1>2. CASE SystemdStarts
  BY <1>2, QuietInv
<1>3. CASE DeployNext
  BY <1>3, DeployBeginInv, PickInv, PickFailsInv, DeployStepsInv, DeployEndsInv DEF DeployNext
<1>4. CASE OpNext
  BY <1>4, OpGoesOnInv, OpEndsInv DEF OpNext
<1>5. CASE Crash
  BY <1>5, CrashInv
<1>6. CASE UNCHANGED vars
  BY <1>6, QuietInv
<1>7. QED
  BY <1>1, <1>2, <1>3, <1>4, <1>5, <1>6 DEF Next

LEMMA Inductive == Spec => []IInv
BY InitInv, NextInv, PTL DEF Spec

-----------------------------------------------------------------------------
(* The restart timer.                                                      *)

\* The line has every task once, from when it joins to its end.
LineInv ==
  /\ \A i, j \in DOMAIN line : line[i] = line[j] => i = j
  /\ \A t \in Tasks : task[t].step \notin {"idle", "call"} <=> \E i \in DOMAIN line : line[i] = t

\* The task brings the interval that the record has.
Syncs(k) == k.kind = "sync_timer" /\ k.hours = rec.hours

\* A task in the line that was asked with another interval has one that brings the
\* record's behind it.
QueueInv ==
  listed /\ ~unsent =>
    \A i \in DOMAIN line :
      task[line[i]].kind \in {"restart", "sync_timer"} /\ task[line[i]].hours # rec.hours
        => \E j \in DOMAIN line : i < j /\ Syncs(task[line[j]])

\* The server has the record's interval, or a task will bring it.
Follows ==
  \/ vds.timer = rec.hours
  \/ \E i \in DOMAIN line : Syncs(task[line[i]]) /\ task[line[i]].step # "timed"

\* An uninstall has taken the timer away, and will end with "stopped" or "error".
Uninstalled == \E t \in Tasks : task[t].kind = "uninstall" /\ task[t].step = "ran"

TimerInv ==
  listed /\ ~unsent =>
    /\ rec.status = "running" /\ ~Uninstalled => Follows
    /\ \A t \in Tasks :
         task[t].step = "timed" =>
           IF task[t].kind = "deploy" THEN Follows ELSE vds.timer = task[t].hours

TInv == LineInv /\ QueueInv /\ TimerInv

LEMMA TimerInit == Init => TInv
<1> SUFFICES ASSUME Init PROVE TInv
  OBVIOUS
<1>1. line = <<>> /\ rec.status = "new" /\ \A t \in Tasks : task[t] = NoTask
  BY DEF Init
<1>2. DOMAIN line = {}
  BY <1>1
<1>2a. NoTask.step = "idle"
  BY DEF NoTask
<1>3. \A t \in Tasks : task[t].step = "idle"
  BY <1>1, <1>2a
<1>4. QED
  BY <1>1, <1>2, <1>3 DEF TInv, LineInv, QueueInv, TimerInv

\* A task that joins the line comes with the interval of the record; if the step
\* changes that, it is a sync_timer.
LEMMA TimerEnqueue ==
  ASSUME IInv, TInv, NEW t \in Tasks, task[t].step \in {"idle", "call"},
         NEW kind, NEW port, Enqueue(t, kind, port),
         kind = "sync_timer" \/ rec'.hours = rec.hours,
         rec'.status = rec.status,
         UNCHANGED <<listed, vds, unsent>>
  PROVE  TInv'
<1>1. line \in Seq(Tasks) /\ task \in [Tasks -> TaskType] /\ Len(line) \in Nat /\ DOMAIN line = 1 .. Len(line)
  BY TypeParts DEF IInv
<1> DEFINE k == [kind |-> kind, step |-> "wait", port |-> port, hours |-> rec'.hours]
<1>1a. PICK n \in Nat : n = Len(line) + 1
  BY <1>1
<1>2. task' = [task EXCEPT ![t] = k] /\ line' = Append(line, t)
  BY DEF Enqueue
<1>3. k.kind = kind /\ k.step = "wait" /\ k.hours = rec'.hours
  OBVIOUS
<1> HIDE DEF k
<1>4. /\ DOMAIN line' = DOMAIN line \cup {n} /\ n \notin DOMAIN line /\ line'[n] = t
      /\ \A i \in DOMAIN line : line'[i] = line[i] /\ line[i] \in Tasks /\ i < n
  BY <1>1, <1>1a, <1>2
<1>5. task'[t] = k /\ \A s \in Tasks : s # t => task'[s] = task[s]
  BY <1>1, <1>2
<1>6. \A i \in DOMAIN line : line[i] # t
  BY DEF TInv, LineInv
<1>7. \A i \in DOMAIN line : task'[line'[i]] = task[line[i]]
  BY <1>4, <1>5, <1>6
<1>8. task'[line'[n]] = k
  BY <1>4, <1>5
<1>9. LineInv'
  <2>1. \A i, j \in DOMAIN line' : line'[i] = line'[j] => i = j
    BY <1>4, <1>6 DEF TInv, LineInv
  <2>2. ASSUME NEW s \in Tasks
        PROVE  task'[s].step \notin {"idle", "call"} <=> \E i \in DOMAIN line' : line'[i] = s
    <3>1. CASE s = t
      BY <1>3, <1>4, <1>5, <3>1
    <3>2. CASE s # t
      <4>1. (\E i \in DOMAIN line' : line'[i] = s) <=> \E i \in DOMAIN line : line[i] = s
        BY <1>4, <3>2
      <4>2. QED
        BY <1>5, <3>2, <4>1 DEF TInv, LineInv
    <3>3. QED
      BY <3>1, <3>2
  <2>3. QED
    BY <2>1, <2>2 DEF LineInv
<1>10. kind = "sync_timer" => Syncs(task[line[n]])'
  BY <1>3, <1>8 DEF Syncs
<1>11. rec'.hours = rec.hours => \A i \in DOMAIN line : Syncs(task[line[i]]) <=> Syncs(task[line[i]])'
  BY <1>7 DEF Syncs
<1>12. QueueInv'
  <2> SUFFICES ASSUME listed, ~unsent, NEW i \in DOMAIN line',
                      task'[line'[i]].kind \in {"restart", "sync_timer"},
                      task'[line'[i]].hours # rec'.hours
               PROVE  \E j \in DOMAIN line' : i < j /\ Syncs(task[line[j]])'
    BY DEF QueueInv
  <2>1. i \in DOMAIN line /\ task'[line'[i]] = task[line[i]]
    BY <1>3, <1>4, <1>7, <1>8
  <2>2. CASE kind = "sync_timer"
    BY <1>4, <1>10, <2>1, <2>2
  <2>3. CASE rec'.hours = rec.hours
    <3>1. PICK j \in DOMAIN line : i < j /\ Syncs(task[line[j]])
      BY <2>1, <2>3 DEF TInv, QueueInv
    <3>2. QED
      BY <1>4, <1>11, <2>3, <3>1
  <2>4. QED
    BY <2>2, <2>3
<1>13. Follows => Follows'
  <2> SUFFICES ASSUME Follows PROVE Follows'
    OBVIOUS
  <2>1. CASE kind = "sync_timer"
    <3>1. Syncs(task[line[n]])' /\ task'[line'[n]].step # "timed" /\ n \in DOMAIN line'
      BY <1>3, <1>4, <1>8, <1>10, <2>1
    <3>2. QED
      BY <3>1 DEF Follows
  <2>2. CASE rec'.hours = rec.hours
    BY <1>4, <1>7, <1>11, <2>2 DEF Follows
  <2>3. QED
    BY <2>1, <2>2
<1>14. TimerInv'
  <2>1. ASSUME listed, ~unsent, NEW s \in Tasks, task'[s].step = "timed"
        PROVE  IF task'[s].kind = "deploy" THEN Follows' ELSE vds.timer = task'[s].hours
    <3>1. s # t /\ task'[s] = task[s]
      BY <1>3, <1>5, <2>1
    <3>2. QED
      BY <1>13, <2>1, <3>1 DEF TInv, TimerInv
  <2>2. Uninstalled => Uninstalled'
    BY <1>5 DEF Uninstalled
  <2>3. listed /\ ~unsent /\ rec'.status = "running" /\ ~Uninstalled' => Follows'
    BY <1>13, <2>2 DEF TInv, TimerInv
  <2>4. QED
    BY <2>1, <2>3 DEF TimerInv
<1>15. QED
  BY <1>9, <1>12, <1>14 DEF TInv

\* A task outside the line changes.
LEMMA TimerAside ==
  ASSUME IInv, TInv, NEW t \in Tasks, task[t].step \in {"idle", "call"},
         task'[t].step \in {"idle", "call"}, \A s \in Tasks : s # t => task'[s] = task[s],
         UNCHANGED <<rec, listed, line, vds, unsent>>
  PROVE  TInv'
<1>1. line \in Seq(Tasks) /\ task \in [Tasks -> TaskType] /\ \A i \in DOMAIN line : line[i] \in Tasks
  BY TypeParts DEF IInv
<1>2. task'[t].step \in {"idle", "call"} /\ \A s \in Tasks : s # t => task'[s] = task[s]
  OBVIOUS
<1>3. \A i \in DOMAIN line : line[i] # t
  BY DEF TInv, LineInv
<1>4. \A i \in DOMAIN line : task'[line[i]] = task[line[i]]
  BY <1>1, <1>2, <1>3
<1>5. \A i \in DOMAIN line : Syncs(task[line[i]])' <=> Syncs(task[line[i]])
  BY <1>4 DEF Syncs
<1>6. LineInv'
  BY <1>2, <1>3 DEF TInv, LineInv
<1>7. QueueInv'
  BY <1>4, <1>5 DEF TInv, QueueInv
<1>8. Follows' <=> Follows
  BY <1>4, <1>5 DEF Follows
<1>9. Uninstalled => Uninstalled'
  BY <1>2 DEF Uninstalled
<1>10. TimerInv'
  BY <1>2, <1>8, <1>9 DEF TInv, TimerInv
<1>11. QED
  BY <1>6, <1>7, <1>10 DEF TInv

\* The holder of the lock is the first in the line, and the others have not begun.
LEMMA HolderFirst ==
  ASSUME IInv, TInv, NEW t \in Tasks, Holds(t)
  PROVE  /\ line \in Seq(Tasks) /\ task \in [Tasks -> TaskType]
         /\ 1 \in DOMAIN line /\ line[1] = t /\ DOMAIN line = 1 .. Len(line) /\ Len(line) \in Nat
         /\ task[t].step \notin {"idle", "call"}
         /\ \A i \in DOMAIN line : line[i] \in Tasks /\ (i # 1 => line[i] # t)
         /\ \A s \in Tasks : s # t => task[s].step \notin {"ran", "timed"}
<1>1. line \in Seq(Tasks) /\ task \in [Tasks -> TaskType]
  BY TypeParts DEF IInv
<1>2. 1 \in DOMAIN line /\ line[1] = t /\ DOMAIN line = 1 .. Len(line) /\ Len(line) \in Nat
  BY <1>1 DEF Holds
<1>3. task[t].step \notin {"idle", "call"} /\ \A i \in DOMAIN line : i # 1 => line[i] # t
  BY <1>2 DEF TInv, LineInv
<1>4. \A i \in DOMAIN line : line[i] \in Tasks
  BY <1>1
<1>5. \A s \in Tasks : s # t => ~Active(task[s])
  BY Alone
<1>6. \A s \in Tasks : s # t => task[s].step \notin {"ran", "timed"}
  BY <1>5 DEF Active
<1>7. QED
  BY <1>1, <1>2, <1>3, <1>4, <1>6

\* The holder goes on and becomes k, the same operation.
LEMMA TimerGoesOn ==
  ASSUME IInv, TInv, NEW t \in Tasks, Holds(t), NEW k, task' = [task EXCEPT ![t] = k],
         k.kind = task[t].kind, k.hours = task[t].hours, k.step \notin {"idle", "call"},
         ~(task[t].kind = "uninstall" /\ task[t].step = "ran"),
         rec'.hours = rec.hours,
         listed => rec'.status \in {rec.status, "deploying"},
         UNCHANGED <<listed, line>>,
         \/ /\ k.step # "timed" /\ task[t].step # "timed" /\ unsent' = unsent
            /\ vds'.timer = vds.timer \/ (k.kind = "uninstall" /\ k.step = "ran")
         \/ /\ k.step = "timed" /\ TimerSet(t)
            /\ vds'.timer = IF k.kind = "deploy" THEN rec.hours ELSE task[t].hours
            /\ k.kind \in {"restart", "sync_timer", "deploy"}
  PROVE  TInv'
<1>1. /\ line \in Seq(Tasks) /\ task \in [Tasks -> TaskType]
      /\ 1 \in DOMAIN line /\ line[1] = t
      /\ task[t].step \notin {"idle", "call"}
      /\ \A i \in DOMAIN line : line[i] \in Tasks /\ (i # 1 => line[i] # t)
      /\ \A s \in Tasks : s # t => task[s].step # "timed"
  BY HolderFirst
<1>2. task'[t] = k /\ \A s \in Tasks : s # t => task'[s] = task[s]
  BY <1>1
<1>3. \A s \in Tasks : task'[s].kind = task[s].kind /\ task'[s].hours = task[s].hours
  BY <1>2
<1>4. \A i \in DOMAIN line : Syncs(task[line[i]])' <=> Syncs(task[line[i]])
  BY <1>1, <1>3 DEF Syncs
<1>5. LineInv'
  <2>1. \A s \in Tasks : task'[s].step \notin {"idle", "call"} <=> task[s].step \notin {"idle", "call"}
    BY <1>1, <1>2
  <2>2. QED
    BY <2>1 DEF TInv, LineInv
<1>6. ASSUME ~unsent PROVE QueueInv'
  BY <1>1, <1>3, <1>4, <1>6 DEF TInv, QueueInv
<1>7. Uninstalled => Uninstalled'
  BY <1>2 DEF Uninstalled
<1>8. CASE /\ k.step # "timed" /\ task[t].step # "timed" /\ unsent' = unsent
           /\ vds'.timer = vds.timer \/ (k.kind = "uninstall" /\ k.step = "ran")
  <2>1. \A s \in Tasks : task'[s].step # "timed"
    BY <1>1, <1>2, <1>8
  <2>2. \A i \in DOMAIN line : task'[line[i]].step # "timed"
    BY <1>1, <2>1
  <2>3. vds'.timer = vds.timer /\ Follows => Follows'
    BY <1>4, <2>2 DEF Follows
  <2>4. k.kind = "uninstall" /\ k.step = "ran" => Uninstalled'
    BY <1>2 DEF Uninstalled
  <2>5. listed /\ ~unsent /\ rec'.status = "running" /\ ~Uninstalled' => Follows'
    BY <1>7, <1>8, <2>3, <2>4 DEF TInv, TimerInv
  <2>6. TimerInv'
    BY <1>8, <2>1, <2>5 DEF TimerInv
  <2>7. QueueInv'
    BY <1>6, <1>8 DEF QueueInv
  <2>8. QED
    BY <1>5, <2>6, <2>7 DEF TInv
<1>9. CASE /\ k.step = "timed" /\ TimerSet(t)
           /\ vds'.timer = IF k.kind = "deploy" THEN rec.hours ELSE task[t].hours
           /\ k.kind \in {"restart", "sync_timer", "deploy"}
  <2>1. ~unsent' /\ unsent => line = <<t>> /\ vds'.timer = rec.hours
    BY <1>9 DEF TimerSet
  <2>2. ASSUME listed, ~unsent' PROVE Follows'
    <3>1. CASE vds'.timer = rec.hours
      BY <3>1 DEF Follows
    <3>2. CASE vds'.timer # rec.hours
      <4>1. task[line[1]].kind \in {"restart", "sync_timer"} /\ task[line[1]].hours # rec.hours
        BY <1>1, <1>9, <3>2
      <4>2. ~unsent
        BY <2>1, <2>2, <3>2
      <4>3. PICK j \in DOMAIN line : 1 < j /\ Syncs(task[line[j]])
        BY <1>1, <2>2, <4>1, <4>2 DEF TInv, QueueInv
      <4>4. line[j] \in Tasks /\ line[j] # t
        BY <1>1, <4>3
      <4>5. Syncs(task[line[j]])' /\ task'[line[j]].step # "timed"
        BY <1>1, <1>2, <1>4, <4>3, <4>4
      <4>6. QED
        BY <4>5 DEF Follows
    <3>3. QED
      BY <3>1, <3>2
  <2>3. \A s \in Tasks : task'[s].step = "timed" => s = t
    BY <1>1, <1>2
  <2>4. TimerInv'
    BY <1>2, <1>9, <2>2, <2>3 DEF TimerInv
  <2>5. QueueInv'
    <3>1. CASE unsent' \/ ~unsent
      BY <1>6, <3>1 DEF QueueInv
    <3>2. CASE ~unsent' /\ unsent
      <4>1. DOMAIN line = {1} /\ task'[line[1]] = k /\ vds'.timer = rec.hours
        BY <1>1, <1>2, <2>1, <3>2
      <4>2. k.kind \in {"restart", "sync_timer"} => k.hours = rec'.hours
        BY <1>9, <4>1
      <4>3. \A i \in DOMAIN line' : i = 1 /\ task'[line'[i]] = k
        BY <4>1
      <4>4. QED
        BY <4>2, <4>3 DEF QueueInv
    <3>3. QED
      BY <3>1, <3>2
  <2>6. QED
    BY <1>5, <2>4, <2>5 DEF TInv
<1>10. QED
  BY <1>8, <1>9

\* The holder ends.
LEMMA TimerEnds ==
  ASSUME IInv, TInv, NEW t \in Tasks, Holds(t), Finish(t),
         rec'.hours = rec.hours, UNCHANGED <<listed, vds, unsent>>,
         listed /\ ~unsent /\ rec'.status = "running"
           => Follows /\ ~(task[t].kind = "sync_timer" /\ task[t].step # "timed")
  PROVE  TInv'
<1>1. /\ line \in Seq(Tasks) /\ task \in [Tasks -> TaskType]
      /\ 1 \in DOMAIN line /\ line[1] = t /\ DOMAIN line = 1 .. Len(line) /\ Len(line) \in Nat
      /\ task[t].step \notin {"idle", "call"}
      /\ \A i \in DOMAIN line : line[i] \in Tasks /\ (i # 1 => line[i] # t)
      /\ \A s \in Tasks : s # t => task[s].step # "timed"
  BY HolderFirst
<1>2. task' = [task EXCEPT ![t] = NoTask] /\ line' = Tail(line)
  BY DEF Finish
<1>3. task'[t] = NoTask /\ \A s \in Tasks : s # t => task'[s] = task[s]
  BY <1>1, <1>2
<1>4. /\ DOMAIN line' = 1 .. Len(line) - 1
      /\ \A i \in 1 .. Len(line) - 1 : line'[i] = line[i + 1]
  BY <1>1, <1>2
<1>5. /\ \A i \in DOMAIN line' : i \in Int /\ i + 1 \in DOMAIN line /\ i + 1 # 1 /\ line'[i] = line[i + 1]
      /\ \A i \in DOMAIN line : i # 1 => i - 1 \in DOMAIN line' /\ line'[i - 1] = line[i] /\ i \in Int
  BY <1>1, <1>4
<1>6. /\ \A i \in DOMAIN line' : task'[line'[i]] = task[line[i + 1]] /\ line'[i] # t /\ line'[i] \in Tasks
      /\ \A i \in DOMAIN line : i # 1 => task'[line'[i - 1]] = task[line[i]]
  BY <1>1, <1>3, <1>5
<1>7. \A i \in DOMAIN line : i # 1 => (Syncs(task[line[i - 1]])' <=> Syncs(task[line[i]]))
  BY <1>6 DEF Syncs
<1>8. LineInv'
  <2>1. \A i, j \in DOMAIN line' : line'[i] = line'[j] => i = j
    BY <1>5 DEF TInv, LineInv
  <2>2. ASSUME NEW s \in Tasks
        PROVE  task'[s].step \notin {"idle", "call"} <=> \E i \in DOMAIN line' : line'[i] = s
    <3>1. CASE s = t
      BY <1>3, <1>6, <3>1 DEF NoTask
    <3>2. CASE s # t
      <4>1. (\E i \in DOMAIN line' : line'[i] = s) <=> \E i \in DOMAIN line : line[i] = s
        BY <1>1, <1>5, <3>2
      <4>2. QED
        BY <1>3, <3>2, <4>1 DEF TInv, LineInv
    <3>3. QED
      BY <3>1, <3>2
  <2>3. QED
    BY <2>1, <2>2 DEF LineInv
<1>9. QueueInv'
  <2> SUFFICES ASSUME listed, ~unsent, NEW i \in DOMAIN line',
                      task'[line'[i]].kind \in {"restart", "sync_timer"},
                      task'[line'[i]].hours # rec'.hours
               PROVE  \E j \in DOMAIN line' : i < j /\ Syncs(task[line[j]])'
    BY DEF QueueInv
  <2>1. PICK j \in DOMAIN line : i + 1 < j /\ Syncs(task[line[j]])
    BY <1>5, <1>6 DEF TInv, QueueInv
  <2>2. j # 1 /\ j - 1 \in DOMAIN line' /\ i < j - 1
    BY <1>1, <1>4, <1>5, <2>1
  <2>3. Syncs(task[line[j - 1]])'
    BY <1>7, <2>1, <2>2
  <2>4. QED
    BY <2>2, <2>3
<1>10. ASSUME listed, ~unsent, rec'.status = "running" PROVE Follows'
  <2>1. Follows /\ ~(task[t].kind = "sync_timer" /\ task[t].step # "timed")
    BY <1>10
  <2>2. CASE vds.timer = rec.hours
    BY <2>2 DEF Follows
  <2>3. CASE \E i \in DOMAIN line : Syncs(task[line[i]]) /\ task[line[i]].step # "timed"
    <3>1. PICK i \in DOMAIN line : Syncs(task[line[i]]) /\ task[line[i]].step # "timed"
      BY <2>3
    <3>2. i # 1
      BY <1>1, <2>1, <3>1 DEF Syncs
    <3>3. i - 1 \in DOMAIN line' /\ Syncs(task[line[i - 1]])' /\ task'[line'[i - 1]].step # "timed"
      BY <1>5, <1>6, <1>7, <3>1, <3>2
    <3>4. QED
      BY <3>3 DEF Follows
  <2>4. QED
    BY <2>1, <2>2, <2>3 DEF Follows
<1>11. \A s \in Tasks : task'[s].step # "timed"
  BY <1>1, <1>3 DEF NoTask
<1>12. TimerInv'
  BY <1>10, <1>11 DEF TimerInv
<1>13. QED
  BY <1>8, <1>9, <1>12 DEF TInv

LEMMA TimerQuiet ==
  ASSUME IInv, TInv, Resave \/ SystemdStarts \/ UNCHANGED vars
  PROVE  TInv'
<1>1. UNCHANGED <<rec, listed, task, line, unsent>>
  BY DEF Resave, SystemdStarts, vars, registry, history
<1>2. vds'.timer = vds.timer
  <2>1. vds \in VdsType
    BY TypeParts DEF IInv
  <2>2. QED
    BY <2>1 DEF Resave, SystemdStarts, Started, VdsType, vars
<1>3. QED
  BY <1>1, <1>2 DEF TInv, LineInv, QueueInv, TimerInv, Follows, Syncs, Uninstalled

\* Requests: what they start joins the line, what they change is the interval.
LEMMA TimerOwner ==
  ASSUME IInv, TInv, OwnerNext
  PROVE  TInv'
<1>0. /\ rec \in RecType /\ task \in [Tasks -> TaskType] /\ line \in Seq(Tasks)
      /\ NoTask.step = "idle"
  BY TypeParts DEF IInv, NoTask
<1>1. ASSUME NEW t \in Tasks, DeployCall(t) PROVE TInv'
  <2> DEFINE k == [NoTask EXCEPT !.kind = "deploy", !.step = "call"]
  <2>1. task[t].step \in {"idle", "call"} /\ UNCHANGED <<rec, listed, vds, unsent>>
    BY <1>0, <1>1 DEF DeployCall, registry, history
  <2>2. CASE Enqueue(t, "deploy", NoPort)
    BY <2>1, <2>2, TimerEnqueue
  <2>3. CASE task' = [task EXCEPT ![t] = k] /\ UNCHANGED line
    <3>1. k.step = "call"
      BY DEF NoTask
    <3> HIDE DEF k
    <3>2. task'[t] = k /\ \A s \in Tasks : s # t => task'[s] = task[s]
      BY <1>0, <2>3
    <3>3. QED
      BY <2>1, <2>3, <3>1, <3>2, TimerAside
  <2>4. QED
    BY <1>1, <2>2, <2>3 DEF DeployCall
<1>2. ASSUME NEW t \in Tasks, DeployRequest(t) PROVE TInv'
  <2>1. task[t].step \in {"idle", "call"} /\ UNCHANGED <<rec, listed, vds, unsent>>
    BY <1>2 DEF DeployRequest, registry, history
  <2>2. CASE \E port \in {vds.env, NoPort} : Enqueue(t, "deploy", port)
    BY <2>1, <2>2, TimerEnqueue
  <2>3. CASE task' = [task EXCEPT ![t] = NoTask] /\ UNCHANGED line
    <3>1. task'[t] = NoTask /\ \A s \in Tasks : s # t => task'[s] = task[s]
      BY <1>0, <2>3
    <3>2. QED
      BY <1>0, <2>1, <2>3, <3>1, TimerAside
  <2>4. QED
    BY <1>2, <2>2, <2>3 DEF DeployRequest
<1>3. ASSUME NEW t \in Tasks, NEW kind \in {"restart", "stop", "uninstall"}, Request(t, kind) PROVE TInv'
  <2>1. task[t].step \in {"idle", "call"} /\ UNCHANGED <<rec, listed, vds, unsent>>
    BY <1>0, <1>3 DEF Request, registry, history
  <2>2. Enqueue(t, kind, NoPort)
    BY <1>3 DEF Request
  <2>3. QED
    BY <2>1, <2>2, TimerEnqueue
<1>4. ASSUME NEW t \in Tasks, NEW h \in Hours, PatchHours(t, h) PROVE TInv'
  <2>1. /\ listed /\ rec' = [rec EXCEPT !.hours = h]
        /\ UNCHANGED <<listed, vds>>
    BY <1>4 DEF PatchHours, Update
  <2>2. rec'.status = rec.status
    BY <1>0, <2>1 DEF RecType
  <2>3. CASE rec.key /\ rec.status # "new"
    <3>1. task[t] = NoTask /\ Enqueue(t, "sync_timer", NoPort) /\ unsent' = unsent
      BY <1>4, <2>3 DEF PatchHours
    <3>2. QED
      BY <1>0, <2>1, <2>2, <3>1, TimerEnqueue
  <2>4. CASE ~(rec.key /\ rec.status # "new")
    <3>1. /\ unsent' = (unsent \/ line # <<>> \/ rec.status = "running")
          /\ UNCHANGED <<task, line>>
      BY <1>4, <2>4 DEF PatchHours
    <3>2. LineInv'
      BY <3>1 DEF TInv, LineInv
    <3>3. ASSUME ~unsent'
          PROVE  /\ DOMAIN line' = {} /\ \A s \in Tasks : task'[s].step # "timed"
                 /\ rec'.status # "running"
      <4>1. line = <<>> /\ line' = line /\ task' = task /\ rec'.status # "running"
        BY <2>2, <3>1, <3>3
      <4>2. DOMAIN line = {}
        BY <4>1
      <4>3. \A s \in Tasks : task[s].step \in {"idle", "call"}
        BY <4>2 DEF TInv, LineInv
      <4>4. QED
        BY <4>1, <4>2, <4>3
    <3>4. QueueInv'
      BY <3>3 DEF QueueInv
    <3>5. TimerInv'
      BY <3>3 DEF TimerInv
    <3>6. QED
      BY <3>2, <3>4, <3>5 DEF TInv
  <2>5. QED
    BY <2>3, <2>4
<1>4a. ASSUME NEW h \in Hours, PatchHoursFails(h) PROVE TInv'
  <2>1. unsent' = TRUE /\ UNCHANGED <<task, line>>
    BY <1>4a DEF PatchHoursFails
  <2>2. QED
    BY <2>1 DEF TInv, LineInv, QueueInv, TimerInv
<1>5. CASE Delete
  <2>1. ~listed' /\ UNCHANGED <<task, line>>
    BY <1>5 DEF Delete
  <2>2. QED
    BY <2>1 DEF TInv, LineInv, QueueInv, TimerInv
<1>6. CASE Resave
  BY <1>6, TimerQuiet
<1>7. QED
  BY <1>1, <1>2, <1>3, <1>4, <1>4a, <1>5, <1>6 DEF OwnerNext

LEMMA TimerDeploy ==
  ASSUME IInv, TInv, NEW t \in Tasks,
         \/ DeployBegin(t) /\ Goto(t, "begun")
         \/ Pick(t) \/ StopOld(t) \/ WriteEnv(t) \/ StartUnit(t) \/ DeployTimer(t)
  PROVE  TInv'
<1>0. rec \in RecType /\ vds \in VdsType /\ task \in [Tasks -> TaskType]
  BY TypeParts DEF IInv
<1>1. /\ Holds(t) /\ task[t].kind = "deploy" /\ task[t].step # "timed"
      /\ UNCHANGED <<listed, vds>> \/ ~DeployBegin(t)
      /\ UNCHANGED listed
  BY DEF DeployBegin, Pick, StopOld, WriteEnv, StartUnit, DeployTimer, Deploying, registry
<1>2. /\ rec'.hours = rec.hours
      /\ rec'.status \in {rec.status, "deploying"}
  <2>1. \/ rec' = rec \/ rec' = [rec EXCEPT !.status = "deploying"]
        \/ \E port : rec' = [rec EXCEPT !.port = port]
    <3>1. CASE DeployBegin(t)
      BY <3>1 DEF DeployBegin, Update, UpdateFails
    <3>2. CASE Pick(t)
      BY <3>2 DEF Pick, Update
    <3>3. CASE StopOld(t) \/ WriteEnv(t) \/ StartUnit(t) \/ DeployTimer(t)
      BY <3>3 DEF StopOld, WriteEnv, StartUnit, DeployTimer, registry
    <3>4. QED
      BY <3>1, <3>2, <3>3
  <2>2. QED
    BY <1>0, <2>1 DEF RecType
<1>3. CASE DeployTimer(t)
  <2> DEFINE k == [task[t] EXCEPT !.step = "timed"]
  <2>1. /\ task' = [task EXCEPT ![t] = k] /\ vds'.timer = rec.hours
        /\ TimerSet(t) /\ UNCHANGED line
    BY <1>0, <1>3 DEF DeployTimer, Goto, VdsType
  <2>2. k.kind = task[t].kind /\ k.hours = task[t].hours /\ k.step = "timed"
    BY <1>0 DEF TaskType
  <2> HIDE DEF k
  <2>3. QED
    BY <1>1, <1>2, <2>1, <2>2, TimerGoesOn
<1>4. CASE Pick(t)
  <2>1. PICK port : task' = [task EXCEPT ![t].step = "picked", ![t].port = port]
    BY <1>4 DEF Pick
  <2> DEFINE k == [task[t] EXCEPT !.step = "picked", !.port = port]
  <2>2. task' = [task EXCEPT ![t] = k] /\ vds' = vds /\ UNCHANGED <<line, unsent>>
    BY <1>0, <1>4, <2>1 DEF Pick, history
  <2>3. k.kind = task[t].kind /\ k.hours = task[t].hours /\ k.step = "picked"
    BY <1>0 DEF TaskType
  <2> HIDE DEF k
  <2>4. QED
    BY <1>1, <1>2, <2>2, <2>3, TimerGoesOn
<1>5. CASE (DeployBegin(t) /\ Goto(t, "begun")) \/ StopOld(t) \/ WriteEnv(t) \/ StartUnit(t)
  <2>1. PICK step \in {"begun", "stopped", "written", "ran"} : Goto(t, step)
    BY <1>5 DEF StopOld, WriteEnv, StartUnit
  <2> DEFINE k == [task[t] EXCEPT !.step = step]
  <2>2. task' = [task EXCEPT ![t] = k]
    BY <2>1 DEF Goto
  <2>3. vds'.timer = vds.timer /\ UNCHANGED unsent
    BY <1>0, <1>5 DEF DeployBegin, StopOld, WriteEnv, StartUnit, Started, VdsType, history
  <2>4. k.kind = task[t].kind /\ k.hours = task[t].hours /\ k.step = step
    BY <1>0 DEF TaskType
  <2>5. UNCHANGED line
    <3>1. CASE DeployBegin(t) /\ Goto(t, "begun")
      <4>1. line' = line \/ Finish(t)
        BY <3>1 DEF DeployBegin
      <4>2. Finish(t) => task'[t] = NoTask /\ task'[t].step = "begun"
        BY <1>0, <3>1 DEF Finish, Goto, TaskType
      <4>3. QED
        BY <4>1, <4>2 DEF NoTask
    <3>2. QED
      BY <1>5, <3>1 DEF StopOld, WriteEnv, StartUnit
  <2> HIDE DEF k
  <2>6. k.step \notin {"idle", "call", "timed"}
    BY <2>4
  <2>7. QED
    BY <1>1, <1>2, <2>2, <2>3, <2>4, <2>5, <2>6, TimerGoesOn
<1>6. QED
  BY <1>3, <1>4, <1>5

LEMMA TimerOp ==
  ASSUME IInv, TInv, NEW t \in Tasks, OpRun(t) \/ OpTimer(t)
  PROVE  TInv'
<1>0. rec \in RecType /\ vds \in VdsType /\ task \in [Tasks -> TaskType]
  BY TypeParts DEF IInv
<1>1. PICK step \in {"ran", "timed"} : task' = [task EXCEPT ![t] = [task[t] EXCEPT !.step = step]]
                                       /\ (step = "ran" <=> OpRun(t)) /\ (step = "timed" <=> OpTimer(t))
  BY DEF OpRun, OpTimer, Goto
<1> DEFINE k == [task[t] EXCEPT !.step = step]
<1>2. k.kind = task[t].kind /\ k.hours = task[t].hours /\ k.step = step
  BY <1>0 DEF TaskType
<1>3. task' = [task EXCEPT ![t] = k]
  BY <1>1
<1> HIDE DEF k
<1>4. Holds(t) /\ UNCHANGED <<rec, listed, line>>
  BY DEF OpRun, OpTimer, registry
<1>5. CASE OpRun(t)
  <2>1. /\ vds' = Effect(task[t].kind, vds) /\ task[t].kind \in SimpleOps /\ task[t].step = "wait"
        /\ unsent' = unsent
    BY <1>5 DEF OpRun
  <2>2. task[t].kind # "uninstall" => vds'.timer = vds.timer
    BY <1>0, <2>1 DEF Effect, SimpleOps, Started, VdsType
  <2>3. k.step = "ran"
    BY <1>1, <1>2, <1>5
  <2>4. QED
    BY <1>2, <1>3, <1>4, <2>1, <2>2, <2>3, TimerGoesOn
<1>6. CASE OpTimer(t)
  <2>1. /\ vds'.timer = task[t].hours /\ task[t].kind \in {"restart", "sync_timer"}
        /\ TimerSet(t)
    BY <1>0, <1>6 DEF OpTimer, VdsType
  <2>2. k.step = "timed"
    BY <1>1, <1>2, <1>6
  <2>3. QED
    BY <1>2, <1>3, <1>4, <2>1, <2>2, TimerGoesOn
<1>7. QED
  BY <1>5, <1>6

\* A task that ends with any other status than "running".
LEMMA TimerStops ==
  ASSUME IInv, TInv, NEW t \in Tasks, Holds(t), Finish(t), UNCHANGED <<listed, vds, unsent>>,
         NEW r \in RecType, r.hours = rec.hours, NEW status \in Statuses \ {"running"},
         rec' = IF listed THEN [r EXCEPT !.status = status] ELSE rec
  PROVE  TInv'
<1>1. rec'.hours = rec.hours /\ (listed => rec'.status = status)
  BY DEF RecType
<1>2. QED
  BY <1>1, TimerEnds

LEMMA TimerLast ==
  ASSUME IInv, TInv, NEW t \in Tasks,
         \/ DeployBegin(t) /\ Finish(t)
         \/ DeployDone(t) \/ PickFails(t) \/ DeployFails(t) \/ OpDone(t) \/ OpFails(t)
  PROVE  TInv'
<1>0. rec \in RecType /\ task \in [Tasks -> TaskType] /\ TypeOK
  BY TypeParts DEF IInv
<1>1. Holds(t) /\ Finish(t) /\ UNCHANGED <<listed, vds, unsent>>
  BY DEF DeployBegin, DeployDone, PickFails, DeployFails, OpDone, OpFails, Deploying, history
<1>2. CASE DeployBegin(t)
  <2>1. \/ rec' = IF listed THEN [rec EXCEPT !.status = "deploying"] ELSE rec
    BY <1>2 DEF DeployBegin, Update, UpdateFails
  <2>2. QED
    BY <1>0, <1>1, <2>1, TimerStops DEF Statuses
<1>3. CASE DeployDone(t)
  <2>1. /\ task[t].kind = "deploy" /\ task[t].step = "timed"
        /\ rec' = IF listed THEN Deployed(t) ELSE rec
    BY <1>3 DEF DeployDone, Deploying, Update
  <2>2. rec'.hours = rec.hours
    BY <1>0, <2>1 DEF Deployed, RecType
  <2>3. listed /\ ~unsent => Follows
    BY <2>1 DEF TInv, TimerInv
  <2>4. QED
    BY <1>1, <2>1, <2>2, <2>3, TimerEnds
<1>4. CASE PickFails(t)
  <2>1. PICK port \in Ports : Error([rec EXCEPT !.port = port])
    BY <1>4, PicksPorts DEF PickFails
  <2> DEFINE r == [rec EXCEPT !.port = port]
  <2>2. r \in RecType /\ r.hours = rec.hours
    BY <1>0 DEF RecType
  <2>3. Error(r)
    BY <2>1
  <2> HIDE DEF r
  <2>4. rec' = IF listed THEN [r EXCEPT !.status = "error"] ELSE rec
    BY <1>0, <2>2, <2>3, ErrorType
  <2>5. QED
    BY <1>1, <2>2, <2>4, TimerStops DEF Statuses
<1>5. CASE DeployFails(t) \/ OpFails(t)
  <2>1. CASE Error(rec)
    <3>1. rec' = IF listed THEN [rec EXCEPT !.status = "error"] ELSE rec
      BY <1>0, <2>1, ErrorType
    <3>2. QED
      BY <1>0, <1>1, <3>1, TimerStops DEF Statuses
  <2>2. CASE /\ DeployFails(t) /\ task[t].step = "timed" /\ listed /\ Error(Deployed(t))
    <3>1. task[t].kind = "deploy" /\ DeployUnderway(task[t])
      BY <2>2 DEF DeployFails, DeployUnderway, Underway
    <3>2. task[t].port \in Ports
      BY <1>0, <2>2, <3>1 DEF IInv, PortInv, RecType
    <3>3. Deployed(t) \in RecType /\ Deployed(t).hours = rec.hours
      BY <1>0, <3>2 DEF Deployed, RecType, Statuses
    <3>4. rec' = IF listed THEN [Deployed(t) EXCEPT !.status = "error"] ELSE rec
      BY <1>0, <2>2, <3>3, ErrorType
    <3>5. QED
      BY <1>1, <3>3, <3>4, TimerStops DEF Statuses
  <2>3. QED
    BY <1>5, <2>1, <2>2 DEF DeployFails, OpFails
<1>6. CASE OpDone(t)
  <2>1. CASE task[t].kind = "restart" /\ task[t].step = "timed"
    <3>1. rec' = IF listed THEN [rec EXCEPT !.status = "running"] ELSE rec
      BY <1>6, <2>1 DEF OpDone, Update
    <3>2. rec'.hours = rec.hours
      BY <1>0, <3>1 DEF RecType
    <3>3. ASSUME listed, ~unsent PROVE Follows
      <4>1. vds.timer = task[t].hours
        BY <2>1, <3>3 DEF TInv, TimerInv
      <4>2. CASE task[t].hours = rec.hours
        BY <4>1, <4>2 DEF Follows
      <4>3. CASE task[t].hours # rec.hours
        <5>1. /\ 1 \in DOMAIN line /\ line[1] = t
              /\ \A i \in DOMAIN line : line[i] \in Tasks /\ (i # 1 => line[i] # t)
              /\ \A s \in Tasks : s # t => task[s].step # "timed"
          BY <1>1, HolderFirst
        <5>2. PICK j \in DOMAIN line : 1 < j /\ Syncs(task[line[j]])
          BY <2>1, <3>3, <4>3, <5>1 DEF TInv, QueueInv
        <5>3. task[line[j]].step # "timed"
          BY <5>1, <5>2
        <5>4. QED
          BY <5>2, <5>3 DEF Follows
      <4>4. QED
        BY <4>2, <4>3
    <3>4. QED
      BY <1>1, <2>1, <3>2, <3>3, TimerEnds
  <2>2. CASE task[t].kind = "sync_timer" /\ task[t].step = "timed"
    <3>1. rec' = rec
      BY <1>6, <2>2 DEF OpDone
    <3>2. ~Uninstalled
      BY <1>1, <2>2, HolderFirst DEF Uninstalled
    <3>3. listed /\ ~unsent /\ rec'.status = "running" => Follows
      BY <3>1, <3>2 DEF TInv, TimerInv
    <3>4. QED
      BY <1>1, <2>2, <3>1, <3>3, TimerEnds
  <2>3. CASE task[t].kind \in {"stop", "uninstall"}
    <3>1. rec' = IF listed THEN [rec EXCEPT !.status = "stopped"] ELSE rec
      BY <1>6, <2>3 DEF OpDone, Update
    <3>2. QED
      BY <1>0, <1>1, <3>1, TimerStops DEF Statuses
  <2>4. QED
    BY <1>6, <2>1, <2>2, <2>3 DEF OpDone
<1>7. QED
  BY <1>2, <1>3, <1>4, <1>5, <1>6

LEMMA TimerCrash ==
  ASSUME IInv, TInv, Crash
  PROVE  TInv'
<1>1. /\ task' = [t \in Tasks |-> NoTask] /\ line' = <<>> /\ UNCHANGED vds
      /\ ~unsent' => /\ ~unsent /\ ~Unsaved /\ ~Uninstalled
                     /\ \A t \in Tasks : task[t].kind # "sync_timer"
      /\ rec' = file.rec /\ listed' = file.listed
  BY DEF Crash, Uninstalled
<1>2. NoTask.step = "idle"
  BY DEF NoTask
<1>3. DOMAIN line' = {} /\ \A t \in Tasks : task'[t].step = "idle"
  BY <1>1, <1>2
<1>4. LineInv' /\ QueueInv'
  BY <1>3 DEF LineInv, QueueInv
<1>5. line \in Seq(Tasks)
  BY TypeParts DEF IInv
<1>6. ~unsent' => rec' = rec /\ listed' = listed
  BY <1>1 DEF Unsaved, Saved
<1>7. ASSUME ~unsent', Follows PROVE vds.timer = rec.hours
  <2>1. \A i \in DOMAIN line : line[i] \in Tasks
    BY <1>5
  <2>2. \A i \in DOMAIN line : ~Syncs(task[line[i]])
    BY <1>1, <1>7, <2>1 DEF Syncs
  <2>3. QED
    BY <1>7, <2>2 DEF Follows
<1>8. ASSUME listed', ~unsent', rec'.status = "running" PROVE Follows'
  <2>1. Follows
    BY <1>1, <1>6, <1>8 DEF TInv, TimerInv
  <2>2. vds'.timer = rec'.hours
    BY <1>1, <1>6, <1>7, <1>8, <2>1
  <2>3. QED
    BY <2>2 DEF Follows
<1>9. TimerInv'
  BY <1>3, <1>8 DEF TimerInv
<1>10. QED
  BY <1>4, <1>9 DEF TInv

LEMMA TimerStep == IInv /\ TInv /\ [Next]_vars => TInv'
<1> SUFFICES ASSUME IInv, TInv, [Next]_vars PROVE TInv'
  OBVIOUS
<1>1. CASE DeployNext
  <2>1. \A t \in Tasks : DeployBegin(t) => Goto(t, "begun") \/ Finish(t)
    BY DEF DeployBegin
  <2>2. QED
    BY <1>1, <2>1, TimerDeploy, TimerLast DEF DeployNext
<1>2. CASE OpNext
  BY <1>2, TimerOp, TimerLast DEF OpNext
<1>3. QED
  BY <1>1, <1>2, TimerOwner, TimerQuiet, TimerCrash DEF Next

-----------------------------------------------------------------------------
(* Theorems.                                                               *)

\* Every variable keeps its type: a port is never missing from the record.
THEOREM DeployerTyped == Spec => []TypeOK
<1>1. IInv => TypeOK
  BY DEF IInv
<1>2. QED
  BY <1>1, Inductive, PTL

\* While a deploy is on its way the record says so, whatever else is queued, so a
\* record that says "running" is that of a bot whose last deploy ended, and the
\* port in it the one that deploy wrote to the server.
THEOREM DeployerReaches == Spec => []RunningIsReachable
<1>1. IInv => RunningIsReachable
  <2> SUFFICES ASSUME IInv, listed, rec.status = "running", settled PROVE vds.env = rec.port
    BY DEF RunningIsReachable
  <2>1. \A t \in Tasks : ~DeployActive(task[t])
    BY DEF IInv, LockInv
  <2>2. \A t \in Tasks : ~DeployUnderway(task[t])
    BY <2>1, ActiveDeploys
  <2>3. QED
    BY <2>2 DEF IInv, PortInv
<1>2. QED
  BY <1>1, Inductive, PTL

\* The panel says "deploying" while a deploy works on the server (deploy), and then
\* only: or else its status was not saved, or the site was stopped in it.
THEOREM DeployerDeploys == Spec => []DeployingIsUnderway
<1>1. IInv => DeployingIsUnderway
  BY DEF IInv, LockInv, CutInv, DeployActive, DeployingIsUnderway
<1>2. QED
  BY <1>1, Inductive, PTL

\* When no operation is under way, a bot that runs is restarted at the interval of its
\* record: each change of it starts an operation that brings it (patch_bot), none that
\* was asked earlier comes after it, and one that fails leaves no "running".  A change
\* that was not sent is made up for by the next operation that sets the timer.
THEOREM DeployerTimes == Spec => []TimerFollows
<1>1. Spec => []TInv
  BY TimerInit, TimerStep, InitInv, NextInv, PTL DEF Spec
<1>2. TInv => TimerFollows
  <2> SUFFICES ASSUME TInv, listed, rec.status = "running", line = <<>>, ~unsent
               PROVE  vds.timer = rec.hours
    BY DEF TimerFollows
  <2>1. DOMAIN line = {}
    OBVIOUS
  <2>2. ~Uninstalled
    BY <2>1 DEF TInv, LineInv, Uninstalled
  <2>3. Follows
    BY <2>2 DEF TInv, TimerInv
  <2>4. QED
    BY <2>1, <2>3 DEF Follows
<1>3. QED
  BY <1>1, <1>2, PTL
=============================================================================
