------------------------------ MODULE Deployer ------------------------------
(***************************************************************************)
(* One bot in the site's registry and the server it runs on                *)
(* (web/deployer.py, web/registry.py, the routes of web/app.py that start  *)
(* an operation).                                                          *)
(*                                                                         *)
(* An operation is a background task that works on the server over SSH     *)
(* while it holds the bot's asyncio.Lock, which is first come, first       *)
(* served.  A change of the record changes memory and then rewrites        *)
(* bots.json; when that fails the caller has an exception, memory keeps    *)
(* the change, and the site finds the older record when it starts again.   *)
(* SSH commands that change neither the record nor what systemd does are   *)
(* left out, and so are changes of host, port, token or status that the    *)
(* owner makes by hand.                                                    *)
(***************************************************************************)
EXTENDS Integers, Sequences

CONSTANTS
  Tasks,        \* operations that may be under way or wait together (a bound)
  DefaultPort,  \* api_port of a new record
  OtherPorts,   \* the ports _pick_api_port falls back to, tried in ascending order
  Foreign,      \* ports something else on the server listens on
  NoPort,
  Hours         \* restart intervals, 0 for none

Ports == {DefaultPort} \cup OtherPorts

ASSUME DeployerAssumption ==
  /\ Ports \subseteq Nat
  /\ NoPort \notin Ports
  /\ Foreign \subseteq Ports
  /\ Hours \subseteq Nat
  /\ 0 \in Hours

VARIABLES
  rec,      \* the BotRecord
  listed,   \* whether it is in the registry
  file,     \* what bots.json has of it
  task,     \* the background tasks, and deploy requests before theirs
  line,     \* the tasks at the lock in the order they came, its holder first
  vds,      \* the server
  \* History, read by the properties only.
  settled,  \* a deploy succeeded, and since then none broke off, no uninstall ran
            \* and no unsaved change was lost
  unsent,   \* the record's interval may not be on the server: a change of it was not
            \* sent, or the site was stopped before it was; and no operation set the
            \* timer since
  cut       \* the last deploy to begin could not save its status, or the site was
            \* stopped in one; or an unsaved change was lost since

history == <<settled, unsent, cut>>
registry == <<rec, listed, file>>
vars == <<registry, task, line, vds, history>>

-----------------------------------------------------------------------------
(* The record, the tasks, the lock.                                        *)

NoTask == [kind |-> "none", step |-> "idle", port |-> NoPort, hours |-> 0]

\* asyncio.Lock, taken when the task starts.
Enqueue(t, kind, port) ==
  /\ task' = [task EXCEPT ![t] = [kind |-> kind, step |-> "wait", port |-> port,
                                  hours |-> rec'.hours]]
  /\ line' = Append(line, t)

\* A slip of Holds: the operations of a bot do not wait for each other.
HoldsAny(t) == \E i \in DOMAIN line : line[i] = t

Holds(t) == line # <<>> /\ Head(line) = t

Goto(t, step) == task' = [task EXCEPT ![t].step = step]

Finish(t) ==
  /\ task' = [task EXCEPT ![t] = NoTask]
  /\ line' = Tail(line)

Saved(r, l) == [rec |-> r, listed |-> l]

\* What the site would lose if it stopped now.
Unsaved == file # Saved(rec, listed)

\* BotRegistry.update: nothing when the bot was deleted meanwhile.
Update(r) ==
  IF listed THEN rec' = r /\ file' = Saved(r, TRUE) ELSE UNCHANGED <<rec, file>>

\* The same when _save raises.
UpdateFails(r) == listed /\ rec' = r /\ UNCHANGED file

\* The change of another bot's record is saved: the whole registry is written.
Resave ==
  /\ Unsaved
  /\ file' = Saved(rec, listed)
  /\ UNCHANGED <<rec, listed, task, line, vds, history>>

-----------------------------------------------------------------------------
(* Requests of the owner.                                                  *)

\* restart_bot, stop_bot, uninstall_bot.
Request(t, kind) ==
  /\ listed
  /\ task[t] = NoTask
  /\ UNCHANGED registry
  /\ Enqueue(t, kind, NoPort)
  /\ UNCHANGED <<vds, history>>

\* deploy_bot awaits the bot's .env when there may be one.
DeployCall(t) ==
  /\ listed
  /\ task[t] = NoTask
  /\ UNCHANGED registry
  /\ IF rec.key
     THEN /\ task' = [task EXCEPT ![t] = [NoTask EXCEPT !.kind = "deploy", !.step = "call"]]
          /\ UNCHANGED line
     ELSE Enqueue(t, "deploy", NoPort)
  /\ UNCHANGED <<vds, history>>

\* The .env was read, or could not be; the operation starts if the bot is there.
DeployRequest(t) ==
  /\ task[t].step = "call"
  /\ UNCHANGED registry
  /\ IF listed
     THEN \E port \in {vds.env, NoPort} : Enqueue(t, "deploy", port)
     ELSE task' = [task EXCEPT ![t] = NoTask] /\ UNCHANGED line
  /\ UNCHANGED <<vds, history>>

\* A slip of PatchHours: the timer is renewed only for a bot that runs.
PatchHoursRunning(t, h) ==
  /\ listed
  /\ h # rec.hours
  /\ Update([rec EXCEPT !.hours = h])
  /\ IF rec.key /\ rec.status = "running"
     THEN task[t] = NoTask /\ Enqueue(t, "sync_timer", NoPort)
     ELSE UNCHANGED <<task, line>>
  /\ UNCHANGED <<listed, vds, history>>

\* patch_bot with another restartIntervalHours.
PatchHours(t, h) ==
  /\ listed
  /\ h # rec.hours
  /\ Update([rec EXCEPT !.hours = h])
  /\ IF rec.key /\ rec.status # "new"
     THEN /\ task[t] = NoTask
          /\ Enqueue(t, "sync_timer", NoPort)
          /\ UNCHANGED unsent
     ELSE /\ unsent' = (unsent \/ line # <<>> \/ rec.status = "running")
          /\ UNCHANGED <<task, line>>
  /\ UNCHANGED <<listed, vds, settled, cut>>

\* The save fails, and no sync_timer follows, nor when the owner tries again.
PatchHoursFails(h) ==
  /\ h # rec.hours
  /\ UpdateFails([rec EXCEPT !.hours = h])
  /\ unsent' = TRUE
  /\ UNCHANGED <<listed, task, line, vds, settled, cut>>

\* delete_bot, whether or not its save fails: operations under way go on.
Delete ==
  /\ listed
  /\ listed' = FALSE
  /\ file' \in {file, Saved(rec, FALSE)}
  /\ UNCHANGED <<rec, task, line, vds, history>>

-----------------------------------------------------------------------------
(* The server.                                                             *)

\* systemctl start or restart: the process reads the .env when it starts.
Started(v) == IF v.unit THEN [v EXCEPT !.proc = v.env] ELSE v

\* The restart timer, or a reboot of the server: the unit is enabled.
SystemdStarts ==
  /\ vds.unit
  /\ vds' = Started(vds)
  /\ UNCHANGED <<registry, task, line, history>>

-----------------------------------------------------------------------------
(* deploy.                                                                 *)

Deploying(t, step) == Holds(t) /\ task[t].kind = "deploy" /\ task[t].step = step

\* The steps of a deploy that has picked a port and has not finished.
Underway == {"picked", "stopped", "written", "ran", "timed"}

\* The status is set before the try: when its save fails the deploy ends, and
\* memory says "deploying".
DeployBegin(t) ==
  /\ Deploying(t, "wait")
  /\ LET begun == [rec EXCEPT !.status = "deploying"] IN
     \/ /\ Update(begun)
        /\ Goto(t, "begun")
        /\ cut' = FALSE
        /\ UNCHANGED line
     \/ /\ UpdateFails(begun)
        /\ Finish(t)
        /\ cut' = TRUE
  /\ UNCHANGED <<listed, vds, settled, unsent>>

\* A slip of Preferred: a .env without a port counts.
PreferredBlank(t) ==
  IF task[t].port # NoPort THEN {task[t].port}
  ELSE {rec.port} \cup (IF rec.key THEN {vds.env} ELSE {})

\* read_remote_env, if it succeeds, for what the request did not know.
Preferred(t) ==
  IF task[t].port # NoPort THEN {task[t].port}
  ELSE {rec.port} \cup (IF rec.key /\ vds.env # NoPort THEN {vds.env} ELSE {})

\* _pick_api_port, when these ports are busy.
FirstFree(preferred, busy) ==
  LET free == ({preferred} \cup OtherPorts) \ busy IN
  {port \in free : port = preferred \/ (preferred \notin free /\ \A p \in free : port <= p)}

\* A process that has just been started may not listen yet.
Picks(t) ==
  UNION {FirstFree(preferred, Foreign \cup own) : preferred \in Preferred(t), own \in {{}, {vds.proc}}}

\* Only another port than the record's is saved.
Pick(t) ==
  /\ Deploying(t, "begun")
  /\ \E port \in Picks(t) :
       /\ IF port = rec.port THEN UNCHANGED <<rec, file>> ELSE Update([rec EXCEPT !.port = port])
       /\ task' = [task EXCEPT ![t].step = "picked", ![t].port = port]
  /\ UNCHANGED <<listed, line, vds, history>>

\* The except of deploy, and of _simple_op: its own save may fail too.
Error(r) == Update([r EXCEPT !.status = "error"]) \/ UpdateFails([r EXCEPT !.status = "error"])

\* The save of the port fails.
PickFails(t) ==
  /\ Deploying(t, "begun")
  /\ listed
  /\ \E port \in Picks(t) \ {rec.port} : Error([rec EXCEPT !.port = port])
  /\ settled' = FALSE
  /\ Finish(t)
  /\ UNCHANGED <<listed, vds, unsent, cut>>

StopOld(t) ==
  /\ Deploying(t, "picked")
  /\ vds' = [vds EXCEPT !.proc = NoPort]
  /\ Goto(t, "stopped")
  /\ UNCHANGED <<registry, line, history>>

\* Files, packages and .env are there.
WriteEnv(t) ==
  /\ Deploying(t, "stopped")
  /\ vds' = [vds EXCEPT !.env = task[t].port]
  /\ Goto(t, "written")
  /\ UNCHANGED <<registry, line, history>>

StartUnit(t) ==
  /\ Deploying(t, "written")
  /\ vds' = Started([vds EXCEPT !.unit = TRUE])
  /\ Goto(t, "ran")
  /\ UNCHANGED <<registry, line, history>>

\* The timer is set; nobody waits who would set it again.
TimerSet(t) == unsent' = (unsent /\ ~(line = <<t>> /\ vds'.timer = rec.hours))

\* _install_userbot_restart_timer, with the interval the record has now.
DeployTimer(t) ==
  /\ Deploying(t, "ran")
  /\ vds' = [vds EXCEPT !.timer = rec.hours]
  /\ TimerSet(t)
  /\ Goto(t, "timed")
  /\ UNCHANGED <<registry, line, settled, cut>>

Deployed(t) == [rec EXCEPT !.status = "running", !.key = TRUE, !.port = task[t].port]

\* _wait_bot_health had an answer.
DeployDone(t) ==
  /\ Deploying(t, "timed")
  /\ vds.proc = task[t].port
  /\ Update(Deployed(t))
  /\ settled' = TRUE
  /\ Finish(t)
  /\ UNCHANGED <<listed, vds, unsent, cut>>

\* A slip of DeployFails: the exception is logged, and that is all.
DeployFailsSilently(t) ==
  /\ Holds(t)
  /\ task[t].kind = "deploy"
  /\ task[t].step \in Underway \cup {"begun"}
  /\ settled' = (settled /\ task[t].step \notin Underway)
  /\ Finish(t)
  /\ UNCHANGED <<registry, vds, unsent, cut>>

\* A command or a save failed: that of the success leaves the key behind.
DeployFails(t) ==
  /\ Holds(t)
  /\ task[t].kind = "deploy"
  /\ task[t].step \in Underway \cup {"begun"}
  /\ \/ Error(rec)
     \/ task[t].step = "timed" /\ vds.proc = task[t].port /\ listed /\ Error(Deployed(t))
  /\ settled' = (settled /\ task[t].step \notin Underway)
  /\ Finish(t)
  /\ UNCHANGED <<listed, vds, unsent, cut>>

-----------------------------------------------------------------------------
(* _simple_op.                                                             *)

SimpleOps == {"restart", "stop", "uninstall", "sync_timer"}

\* What the commands of each operation do, their exit codes being ignored.
Effect(kind, v) ==
  CASE kind = "restart" -> Started(v)
    [] kind = "stop" -> [v EXCEPT !.proc = NoPort]
    [] kind = "uninstall" -> [unit |-> FALSE, env |-> NoPort, proc |-> NoPort, timer |-> 0]
    [] kind = "sync_timer" -> v

OpRun(t) ==
  /\ Holds(t)
  /\ task[t].kind \in SimpleOps
  /\ task[t].step = "wait"
  /\ vds' = Effect(task[t].kind, vds)
  /\ settled' = (settled /\ task[t].kind # "uninstall")
  /\ Goto(t, "ran")
  /\ UNCHANGED <<registry, line, unsent, cut>>

\* restart and sync_timer renew the timer, with the interval they were asked with.
OpTimer(t) ==
  /\ Holds(t)
  /\ task[t].kind \in {"restart", "sync_timer"}
  /\ task[t].step = "ran"
  /\ vds' = [vds EXCEPT !.timer = task[t].hours]
  /\ TimerSet(t)
  /\ Goto(t, "timed")
  /\ UNCHANGED <<registry, line, settled, cut>>

\* on_success_status; sync_timer has none.
OpDone(t) ==
  /\ Holds(t)
  /\ \/ task[t].kind \in {"restart", "sync_timer"} /\ task[t].step = "timed"
     \/ task[t].kind \in {"stop", "uninstall"} /\ task[t].step = "ran"
  /\ CASE task[t].kind = "restart" -> Update([rec EXCEPT !.status = "running"])
       [] task[t].kind = "sync_timer" -> UNCHANGED <<rec, file>>
       [] OTHER -> Update([rec EXCEPT !.status = "stopped"])
  /\ Finish(t)
  /\ UNCHANGED <<listed, vds, history>>

\* No connection, or it is lost, or on_success_status cannot be saved.
OpFails(t) ==
  /\ Holds(t)
  /\ task[t].kind \in SimpleOps
  /\ Error(rec)
  /\ Finish(t)
  /\ UNCHANGED <<listed, vds, history>>

-----------------------------------------------------------------------------
\* The site stops and starts again: its tasks are gone, and what was not saved.
Crash ==
  /\ task' = [t \in Tasks |-> NoTask]
  /\ line' = <<>>
  /\ rec' = file.rec
  /\ listed' = file.listed
  /\ settled' = /\ settled
                /\ ~Unsaved
                /\ \A t \in Tasks : task[t].kind # "deploy" \/ task[t].step \notin Underway
  /\ unsent' = \/ unsent
               \/ Unsaved
               \/ \E t \in Tasks : \/ task[t].kind = "sync_timer"
                                   \/ task[t].kind = "uninstall" /\ task[t].step = "ran"
  /\ cut' = \/ cut
            \/ Unsaved
            \/ \E t \in Tasks : task[t].kind = "deploy" /\ task[t].step \in Underway \cup {"begun"}
  /\ UNCHANGED <<file, vds>>

Init ==
  /\ rec \in [status : {"new"}, port : {DefaultPort}, key : {FALSE}, hours : Hours]
  /\ listed = TRUE
  /\ file = Saved(rec, listed)
  /\ task = [t \in Tasks |-> NoTask]
  /\ line = <<>>
  /\ vds = [unit |-> FALSE, env |-> NoPort, proc |-> NoPort, timer |-> 0]
  /\ settled = FALSE
  /\ unsent = FALSE
  /\ cut = FALSE

OwnerNext ==
  \/ \E t \in Tasks : DeployCall(t) \/ DeployRequest(t)
  \/ \E t \in Tasks, kind \in {"restart", "stop", "uninstall"} : Request(t, kind)
  \/ \E t \in Tasks, h \in Hours : PatchHours(t, h)
  \/ \E h \in Hours : PatchHoursFails(h)
  \/ Delete \/ Resave

DeployNext ==
  \E t \in Tasks :
    \/ DeployBegin(t) \/ Pick(t) \/ PickFails(t) \/ StopOld(t) \/ WriteEnv(t) \/ StartUnit(t)
    \/ DeployTimer(t) \/ DeployDone(t) \/ DeployFails(t)

OpNext == \E t \in Tasks : OpRun(t) \/ OpTimer(t) \/ OpDone(t) \/ OpFails(t)

Next == OwnerNext \/ SystemdStarts \/ DeployNext \/ OpNext \/ Crash

Spec == Init /\ [][Next]_vars

-----------------------------------------------------------------------------
(* Properties.                                                             *)

Statuses == {"new", "deploying", "running", "stopped", "error"}

Steps == {"idle", "call", "wait", "begun"} \cup Underway

RecType == [status : Statuses, port : Ports, key : BOOLEAN, hours : Hours]

TypeOK ==
  /\ rec \in RecType
  /\ listed \in BOOLEAN
  /\ file \in [rec : RecType, listed : BOOLEAN]
  /\ task \in [Tasks -> [kind : SimpleOps \cup {"none", "deploy"}, step : Steps,
                         port : Ports \cup {NoPort}, hours : Hours]]
  /\ line \in Seq(Tasks)
  /\ vds \in [unit : BOOLEAN, env : Ports \cup {NoPort}, proc : Ports \cup {NoPort}, timer : Hours]
  /\ settled \in BOOLEAN
  /\ unsent \in BOOLEAN
  /\ cut \in BOOLEAN

\* When the panel says a bot runs, the port the site will call it at is the one it
\* was given, although a deploy changes the two in different places and other
\* operations end with "running" too: unless a deploy broke off after it had
\* picked a port, the bot was uninstalled, or the site was stopped before a change
\* that could not be saved was.
RunningIsReachable ==
  listed /\ rec.status = "running" /\ settled => vds.env = rec.port

\* While a bot is being deployed the panel says so, whatever else is asked of it, and
\* it says so only then: unless the status of the last deploy to begin could not be
\* saved (the deploy ends there, its status stays), the site was stopped in a deploy,
\* or it was stopped before a change that could not be saved was.
DeployingIsUnderway ==
  LET underway == \E t \in Tasks : /\ Holds(t)
                                   /\ task[t].kind = "deploy"
                                   /\ task[t].step \in Underway \cup {"begun"}
  IN listed => /\ underway => rec.status = "deploying"
               /\ rec.status = "deploying" /\ ~cut => underway

\* When no operation is under way, a running bot is restarted at the interval the
\* panel shows, whatever operations were queued or failed on the way.  Left out is
\* the time from a change that was not sent to the next operation that sets the
\* timer: a change while a bot without a key runs or is being worked on (its first
\* deploy is under way, or failed late and a restart with the password followed), a
\* change that could not be saved, or one the site was stopped before sending; and a
\* stop of the site in an uninstall, or before an unsaved change was saved.
TimerFollows ==
  listed /\ rec.status = "running" /\ line = <<>> /\ ~unsent => vds.timer = rec.hours

=============================================================================
