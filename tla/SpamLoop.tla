------------------------------ MODULE SpamLoop ------------------------------
(***************************************************************************)
(* The sending loops of one Telegram slot of the userbot process           *)
(* (bot/spam_scheduler.py) and the operations of BotService that start,    *)
(* restart, feed and delete them (bot/bot_service.py, bot/main.py).        *)
(*                                                                         *)
(* The registry dictionaries are keyed by the slot id, and one key is      *)
(* modelled.  What is not one is the RuntimeState object behind it:        *)
(* deleting a slot and adding it again makes a new object, while a loop or *)
(* a suspended request keeps the old one.  The slots meet in the control   *)
(* bot, whose button takes the state of the slot it shows and the key of   *)
(* the active one: a state of this slot may get its loop under another     *)
(* key, and this key a loop on another slot's state.                       *)
(* An action is one stretch of code between two awaits.                    *)
(***************************************************************************)
EXTENDS Naturals, FiniteSets

CONSTANTS
  Chats,        \* chat ids the operator configures
  Tasks,        \* asyncio tasks that may exist at the same time (a bound)
  Objs,         \* RuntimeState objects the slot may have had (a bound)
  Requests,     \* HTTP requests that may be suspended together (a bound)
  Other,        \* a RuntimeState object of another slot
  NoTask, NoObj, NoChat,
  MaxLimit,     \* largest messageLimit an operator enters (a bound)
  MaxSent,      \* sends to a chat that has no limit (a bound)
  StopOnStart   \* the STOP_SPAM_ON_START environment switch

ASSUME SpamLoopAssumption ==
  /\ NoTask \notin Tasks
  /\ NoObj \notin Objs
  /\ Other \notin Objs \cup {NoObj}
  /\ NoChat \notin Chats
  /\ IsFiniteSet(Tasks)
  /\ MaxLimit \in Nat
  /\ MaxSent \in Nat
  /\ StopOnStart \in BOOLEAN

VARIABLES
  account,      \* multi.accounts.get(slot)
  running,      \* running[o]: spam_running of RuntimeState o
  cfg,          \* cfg[o][c]: chat_configs of RuntimeState o
  started,      \* slot \in _spam_loop_started
  registered,   \* _spam_loop_tasks.get(slot)
  pc,           \* where each loop task is suspended
  cancelled,    \* tasks with a cancellation that has not reached them yet
  obj,          \* obj[t]: the RuntimeState the loop was started with
  target,       \* target[t]: the chat whose send is awaited
  elsewhere,    \* tasks that were registered under another slot's key
  req,          \* what a suspended request is waiting for
  robj,         \* the RuntimeState it looked up before it was suspended
  \* History of what the operator asked for, read by the properties only.
  wanted,       \* wanted[o]: chats whose last enable/disable was an enable
  base,         \* base[o][c]: sends counted or under way at the last patch, if too many
  astray        \* since the last restart with the slot's own state, a button has
                \* started a loop that has the key or the state of another slot

registry == <<started, registered, astray>>
loopVars == <<pc, cancelled, obj, target, elsewhere>>
reqVars  == <<req, robj>>
history  == <<wanted, base>>
vars == <<account, running, cfg, registry, loopVars, reqVars, history>>

-----------------------------------------------------------------------------
(* Chat configurations.  A limit of 0 stands for None: the loop reads      *)
(* "lim is not None and int(lim) > 0".                                     *)

Config == [configured : BOOLEAN, enabled : BOOLEAN,
           limit : 0..MaxLimit, sent : Nat]

NoConfig == [configured |-> FALSE, enabled |-> FALSE, limit |-> 0, sent |-> 0]

\* A slip of AtLimit: one send more than the limit.
AtLimitLate(k) == k.limit > 0 /\ k.sent > k.limit

\* The check made before a send and again after it.
AtLimit(k) == k.limit > 0 /\ k.sent >= k.limit

\* A slip of Counted: enabled computed from the limit alone, not from itself.
CountedAnew(k) ==
  LET n == [k EXCEPT !.configured = TRUE, !.sent = @ + 1]
  IN  [n EXCEPT !.enabled = ~AtLimit(n)]

\* A send that came back: count it, and disable the chat when that was the last.
Counted(k) ==
  LET n == [k EXCEPT !.configured = TRUE, !.sent = @ + 1]
  IN  [n EXCEPT !.enabled = @ /\ ~AtLimit(n)]

\* A slip of Disabled: a chat the loop switches off begins its count anew.
DisabledAnew(k) == [k EXCEPT !.configured = TRUE, !.enabled = FALSE, !.sent = 0]

Disabled(k) == [k EXCEPT !.configured = TRUE, !.enabled = FALSE]

\* The configurations a chat patch may turn k into: enabled or not, and
\* messageLimit left or set, or cleared (which also resets the counter).
Entry(e, l, n) == [configured |-> TRUE, enabled |-> e, limit |-> l, sent |-> n]

Patched(k) == {Entry(e, l, k.sent) : e \in BOOLEAN, l \in 0..MaxLimit}
                \cup {Entry(e, 0, 0) : e \in BOOLEAN}

-----------------------------------------------------------------------------
(* Loops and their registry.                                               *)

Alive == {t \in Tasks : pc[t] # "none"}

\* A loop that nothing has told to stop.
Active == Alive \ cancelled

InFlight(o, c) == {t \in Tasks : pc[t] = "sending" /\ obj[t] = o /\ target[t] = c}

\* start_spam_loop_background for a slot that is not marked as started: mark
\* it, create a task for RuntimeState o and register the task.
StartLoop(o) ==
  \E t \in Tasks \ Alive :
     /\ started' = TRUE
     /\ registered' = t
     /\ pc' = [pc EXCEPT ![t] = "new"]
     /\ obj' = [obj EXCEPT ![t] = o]
     /\ astray' = (o # account)

\* A slip of RestartLoop: start first (a no-op when the slot is marked as
\* started), then cancel and forget what is registered.
RestartLoopSwapped(o) ==
  /\ cancelled' = cancelled \cup ({registered} \cap Alive)
  /\ IF started
     THEN /\ started' = FALSE
          /\ registered' = NoTask
          /\ UNCHANGED <<pc, obj, astray>>
     ELSE StartLoop(o)
  /\ UNCHANGED <<target, elsewhere>>

\* restart_spam_loop_background: cancel the registered task, forget it and the
\* mark, and start anew.  The cancelled task runs its finally block later.
RestartLoop(o) ==
  /\ cancelled' = cancelled \cup ({registered} \cap Alive)
  /\ StartLoop(o)
  /\ UNCHANGED <<target, elsewhere>>

\* The same for RuntimeState o under the key of another slot, which loses its own
\* loop.
StartElsewhere(o) ==
  /\ \E t \in Tasks \ Alive :
        /\ pc' = [pc EXCEPT ![t] = "new"]
        /\ obj' = [obj EXCEPT ![t] = o]
        /\ elsewhere' = elsewhere \cup {t}
  /\ astray' = (astray \/ o = account)
  /\ UNCHANGED <<started, registered, cancelled, target>>

\* A restart under that key.
CancelElsewhere(t) ==
  /\ t \in elsewhere \cap Active
  /\ cancelled' = cancelled \cup {t}
  /\ UNCHANGED <<account, running, cfg, registry, pc, obj, target, elsewhere, reqVars, history>>

\* A slip of Unwind: the task is popped, the mark stays.
UnwindHalf(t) ==
  /\ t \in cancelled
  /\ pc' = [pc EXCEPT ![t] = "none"]
  /\ cancelled' = cancelled \ {t}
  /\ registered' = IF pc[t] = "new" \/ t \in elsewhere THEN registered ELSE NoTask
  /\ obj' = [obj EXCEPT ![t] = NoObj]
  /\ target' = [target EXCEPT ![t] = NoChat]
  /\ elsewhere' = elsewhere \ {t}
  /\ UNCHANGED <<account, running, cfg, started, astray, reqVars, history>>

\* The finally block of _runner, which forgets whatever is registered under the
\* task's key.  A task cancelled before its first step never entered the try
\* statement and skips it.
Unwind(t) ==
  /\ t \in cancelled
  /\ pc' = [pc EXCEPT ![t] = "none"]
  /\ cancelled' = cancelled \ {t}
  /\ IF pc[t] = "new" \/ t \in elsewhere
     THEN UNCHANGED registry
     ELSE started' = FALSE /\ registered' = NoTask /\ UNCHANGED astray
  /\ obj' = [obj EXCEPT ![t] = NoObj]
  /\ target' = [target EXCEPT ![t] = NoChat]
  /\ elsewhere' = elsewhere \ {t}
  /\ UNCHANGED <<account, running, cfg, reqVars, history>>

-----------------------------------------------------------------------------
(* One loop.  "idle" stands for every await at which the loop holds no     *)
(* chat: the sleeps, connect and is_user_authorized.  A loop on another    *)
(* slot's state has chats of that slot only, so here it is always idle.    *)

Enter(t) ==
  /\ t \in Active
  /\ pc[t] = "new"
  /\ pc' = [pc EXCEPT ![t] = "idle"]
  /\ UNCHANGED <<account, running, cfg, registry, cancelled, obj, target, elsewhere, reqVars, history>>

\* A wake-up with a connected, authorized client that finds chat c due.
\* When c is due is the subject of SendSchedule; here any enabled chat may be.
Due(t, c) ==
  /\ t \in Active
  /\ pc[t] = "idle"
  /\ obj[t] # Other
  /\ running[obj[t]]
  /\ cfg[obj[t]][c].enabled

\* The chat is at its limit already: disable it and send nothing.
Retire(t, c) ==
  /\ Due(t, c)
  /\ AtLimit(cfg[obj[t]][c])
  /\ cfg' = [cfg EXCEPT ![obj[t]][c] = Disabled(@)]
  /\ UNCHANGED <<account, running, registry, loopVars, reqVars, history>>

\* Commit to sending to c and await _resolve_send_plan and the send itself;
\* neither spam_running nor the limit is looked at again before the send.
Pick(t, c) ==
  /\ Due(t, c)
  /\ ~AtLimit(cfg[obj[t]][c])
  /\ \/ cfg[obj[t]][c].limit > 0
     \/ cfg[obj[t]][c].sent + Cardinality(InFlight(obj[t], c)) < MaxSent
  /\ pc' = [pc EXCEPT ![t] = "sending"]
  /\ target' = [target EXCEPT ![t] = c]
  /\ UNCHANGED <<account, running, cfg, registry, cancelled, obj, elsewhere, reqVars, history>>

\* Back to the sleeps, holding no chat.
Idle(t) ==
  /\ pc' = [pc EXCEPT ![t] = "idle"]
  /\ target' = [target EXCEPT ![t] = NoChat]

\* The send came back: re-read the chat's configuration and count it there,
\* whatever happened to it meanwhile.
Count(t) ==
  /\ t \in Active
  /\ pc[t] = "sending"
  /\ cfg' = [cfg EXCEPT ![obj[t]][target[t]] = Counted(@)]
  /\ Idle(t)
  /\ UNCHANGED <<account, running, registry, cancelled, obj, elsewhere, reqVars, history>>

\* Nothing to send, a flood wait, a forbidden chat or another error: only the
\* chat's timer changes.
GiveUp(t) ==
  /\ t \in Active
  /\ pc[t] = "sending"
  /\ Idle(t)
  /\ UNCHANGED <<account, running, cfg, registry, cancelled, obj, elsewhere, reqVars, history>>

\* Telegram does not know the peer: disable the chat.
BadPeer(t) ==
  /\ t \in Active
  /\ pc[t] = "sending"
  /\ cfg' = [cfg EXCEPT ![obj[t]][target[t]] = Disabled(@)]
  /\ Idle(t)
  /\ UNCHANGED <<account, running, registry, cancelled, obj, elsewhere, reqVars, history>>

-----------------------------------------------------------------------------
(* BotService.  A request that suspends keeps the RuntimeState it looked   *)
(* up; whoever restarts the loop looks the slot up again and fails with    *)
(* 404 when it is gone.                                                    *)

\* A slip of Suspend: no _require_account before the await.
SuspendUnchecked(r, what) ==
  /\ req[r] = "idle"
  /\ req' = [req EXCEPT ![r] = what]
  /\ robj' = [robj EXCEPT ![r] = account]

Suspend(r, what) ==
  /\ req[r] = "idle"
  /\ account # NoObj
  /\ req' = [req EXCEPT ![r] = what]
  /\ robj' = [robj EXCEPT ![r] = account]

Answer(r) ==
  /\ req' = [req EXCEPT ![r] = "idle"]
  /\ robj' = [robj EXCEPT ![r] = NoObj]

\* set_spam(True) up to _ensure_client; auth_sign_in and auth_submit_2fa up to
\* the end of the login; bulk_set_chats_enabled up to the list of dialogs.
Call(r) ==
  /\ \E what \in {"start", "refresh", "bulk"} : Suspend(r, what)
  /\ UNCHANGED <<account, running, cfg, registry, loopVars, history>>

\* _ensure_client inside set_spam: when the client had to be replaced and the
\* state it captured is running, the loop is restarted right away.
Ensured(r) ==
  /\ req[r] = "start"
  /\ \/ /\ running[robj[r]]
        /\ account # NoObj
        /\ RestartLoop(account)
        /\ req' = [req EXCEPT ![r] = "ready"]
        /\ UNCHANGED robj
     \/ /\ req' = [req EXCEPT ![r] = "ready"]
        /\ UNCHANGED <<robj, registry, loopVars>>
  /\ UNCHANGED <<account, running, cfg, history>>

\* The rest of set_spam(True), after _telethon_ready: validate_spam_start wants
\* an enabled chat, the flag is set on the captured state, the loop restarted.
StartSpam(r) ==
  /\ req[r] = "ready"
  /\ \E c \in Chats : cfg[robj[r]][c].enabled
  /\ running' = [running EXCEPT ![robj[r]] = TRUE]
  /\ IF account = NoObj
     THEN UNCHANGED <<registry, loopVars>>
     ELSE RestartLoop(account)
  /\ Answer(r)
  /\ UNCHANGED <<account, cfg, history>>

\* set_spam(False).
StopSpam ==
  /\ account # NoObj
  /\ running' = [running EXCEPT ![account] = FALSE]
  /\ UNCHANGED <<account, cfg, registry, loopVars, reqVars, history>>

\* An error answer: connection, validation, login, or a slot that is gone.
Fail(r) ==
  /\ req[r] \in {"start", "ready", "refresh", "bulk"}
  /\ Answer(r)
  /\ UNCHANGED <<account, running, cfg, registry, loopVars, history>>

\* The n sends counted or under way when a limit is set are not held against it, if
\* they pass it already.
Base(limit, n) == IF limit = 0 \/ n < limit + Cardinality(Tasks) THEN 0 ELSE n

\* upsert_chat: patch and save; a running slot then waits for its client.
UpsertChat(r, c) ==
  /\ account # NoObj
  /\ req[r] = "idle"
  /\ \E k \in Patched(cfg[account][c]) :
        /\ cfg' = [cfg EXCEPT ![account][c] = k]
        /\ wanted' = [wanted EXCEPT ![account] = IF k.enabled THEN @ \cup {c} ELSE @ \ {c}]
        /\ base' = [base EXCEPT ![account][c] =
                      Base(k.limit, k.sent + Cardinality(InFlight(account, c)))]
  /\ IF running[account] THEN Suspend(r, "refresh") ELSE UNCHANGED reqVars
  /\ UNCHANGED <<account, running, registry, loopVars>>

\* The end of upsert_chat, of bulk_set_chats_enabled and of _finalize_auth.
RefreshLoop(r) ==
  /\ req[r] = "refresh"
  /\ account # NoObj
  /\ RestartLoop(account)
  /\ Answer(r)
  /\ UNCHANGED <<account, running, cfg, history>>

\* The writes of bulk_set_chats_enabled: the chats of S get the flag on state o,
\* and enabling chats of a running slot goes on to restart its loop.
SetEnabled(r, o, S, on) ==
  /\ cfg' = [cfg EXCEPT ![o] = [c \in Chats |->
               IF c \in S THEN [@[c] EXCEPT !.configured = TRUE, !.enabled = on] ELSE @[c]]]
  /\ wanted' = [wanted EXCEPT ![o] = IF on THEN @ \cup S ELSE @ \ S]
  /\ IF on /\ running[o] /\ account # NoObj
     THEN /\ req' = [req EXCEPT ![r] = "refresh"]
          /\ robj' = [robj EXCEPT ![r] = o]
     ELSE Answer(r)
  /\ UNCHANGED <<account, running, registry, loopVars, base>>

\* With chat_ids there is nothing to wait for.
BulkSetIds(r, S, on) ==
  /\ account # NoObj
  /\ req[r] = "idle"
  /\ SetEnabled(r, account, S, on)

\* Without them the list of dialogs has arrived, and the configured chats are
\* added to it; the state is the one captured before the wait.
BulkSetAll(r, S, on) ==
  /\ req[r] = "bulk"
  /\ {c \in Chats : cfg[robj[r]][c].configured} \subseteq S
  /\ SetEnabled(r, robj[r], S, on)

DeleteChat(c) ==
  /\ account # NoObj
  /\ cfg[account][c].configured
  /\ cfg' = [cfg EXCEPT ![account][c] = NoConfig]
  /\ wanted' = [wanted EXCEPT ![account] = @ \ {c}]
  /\ base' = [base EXCEPT ![account][c] = 0]
  /\ UNCHANGED <<account, running, registry, loopVars, reqVars>>

-----------------------------------------------------------------------------
(* The spam button of the control bot.  It acts on bot_data["state"], the  *)
(* state of the slot it showed last, which may have been deleted since; the*)
(* key is active_account_id, which the API changes as well.  Any state the *)
(* slot has or had may be the one that is shown.                           *)

ButtonStop(o) ==
  /\ running[o]
  /\ running' = [running EXCEPT ![o] = FALSE]
  /\ UNCHANGED <<account, cfg, registry, loopVars, reqVars, history>>

\* The slot of the key is this one, or another; or none, when all were deleted.
ButtonStart(o) ==
  /\ ~running[o]
  /\ \E c \in Chats : cfg[o][c].enabled
  /\ running' = [running EXCEPT ![o] = TRUE]
  /\ \/ account # NoObj /\ RestartLoop(o)
     \/ StartElsewhere(o)
     \/ o # account /\ UNCHANGED <<registry, loopVars>>
  /\ UNCHANGED <<account, cfg, reqVars, history>>

\* Another slot is shown, and this one is active.
ButtonOther ==
  /\ account # NoObj
  /\ RestartLoop(Other)
  /\ UNCHANGED <<account, running, cfg, reqVars, history>>

-----------------------------------------------------------------------------
(* The slot itself.                                                        *)

\* delete_slot up to the await of client.disconnect().
DeleteSlotCall(r) ==
  /\ Suspend(r, "delete")
  /\ UNCHANGED <<account, running, cfg, registry, loopVars, history>>

\* The rest of delete_slot: whatever object the slot has by now goes; its
\* loop is not cancelled, only its spam_running is cleared.
DeleteSlot(r) ==
  /\ req[r] = "delete"
  /\ account' = NoObj
  /\ running' = [o \in Objs |-> o # account /\ running[o]]
  /\ Answer(r)
  /\ UNCHANGED <<cfg, registry, loopVars, history>>

\* add_slot: a new RuntimeState, which no loop or request has seen.
AddSlot ==
  /\ account = NoObj
  /\ \E o \in Objs :
       /\ \A t \in Alive : obj[t] # o
       /\ \A r \in Requests : robj[r] # o
       /\ account' = o
       /\ running' = [running EXCEPT ![o] = FALSE]
       /\ cfg' = [cfg EXCEPT ![o] = [c \in Chats |-> NoConfig]]
       /\ wanted' = [wanted EXCEPT ![o] = {}]
       /\ base' = [base EXCEPT ![o] = [c \in Chats |-> 0]]
  /\ UNCHANGED <<registry, loopVars, reqVars>>

\* The process dies and main() boots it again from runtime_state.json, which
\* every handler above saves before its next await.
Reboot ==
  /\ running' = [o \in Objs |-> o = account /\ running[o] /\ ~StopOnStart]
  /\ cfg' = [o \in Objs |-> IF o = account THEN cfg[o] ELSE [c \in Chats |-> NoConfig]]
  /\ wanted' = [o \in Objs |-> IF o = account THEN wanted[o] ELSE {}]
  /\ cancelled' = {}
  /\ IF account = NoObj
     THEN /\ started' = FALSE
          /\ registered' = NoTask
          /\ pc' = [t \in Tasks |-> "none"]
          /\ obj' = [t \in Tasks |-> NoObj]
     ELSE \E t \in Tasks :
          /\ started' = TRUE
          /\ registered' = t
          /\ pc' = [u \in Tasks |-> IF u = t THEN "new" ELSE "none"]
          /\ obj' = [u \in Tasks |-> IF u = t THEN account ELSE NoObj]
  /\ target' = [t \in Tasks |-> NoChat]
  /\ elsewhere' = {} /\ astray' = FALSE
  /\ req' = [r \in Requests |-> "idle"]
  /\ robj' = [r \in Requests |-> NoObj]
  /\ base' = [o \in Objs |-> IF o = account THEN base[o] ELSE [c \in Chats |-> 0]]
  /\ UNCHANGED account

-----------------------------------------------------------------------------
Init ==
  /\ account = NoObj
  /\ running = [o \in Objs |-> FALSE]
  /\ cfg = [o \in Objs |-> [c \in Chats |-> NoConfig]]
  /\ started = FALSE
  /\ registered = NoTask
  /\ pc = [t \in Tasks |-> "none"]
  /\ cancelled = {}
  /\ obj = [t \in Tasks |-> NoObj]
  /\ target = [t \in Tasks |-> NoChat]
  /\ req = [r \in Requests |-> "idle"]
  /\ robj = [r \in Requests |-> NoObj]
  /\ wanted = [o \in Objs |-> {}]
  /\ base = [o \in Objs |-> [c \in Chats |-> 0]]
  /\ elsewhere = {} /\ astray = FALSE

LoopNext ==
  \E t \in Tasks :
     \/ Enter(t) \/ Count(t) \/ GiveUp(t) \/ BadPeer(t) \/ Unwind(t) \/ CancelElsewhere(t)
     \/ \E c \in Chats : Retire(t, c) \/ Pick(t, c)

RequestNext ==
  \E r \in Requests :
     \/ Call(r) \/ Ensured(r) \/ StartSpam(r) \/ RefreshLoop(r) \/ Fail(r)
     \/ DeleteSlotCall(r) \/ DeleteSlot(r)
     \/ \E c \in Chats : UpsertChat(r, c)
     \/ \E S \in SUBSET Chats, on \in BOOLEAN : 
          BulkSetIds(r, S, on) \/ BulkSetAll(r, S, on)

OperatorNext ==
  \/ StopSpam \/ AddSlot \/ Reboot \/ ButtonOther
  \/ \E c \in Chats : DeleteChat(c)
  \/ \E o \in Objs : ButtonStop(o) \/ ButtonStart(o)

Next == LoopNext \/ RequestNext \/ OperatorNext

Spec == Init /\ [][Next]_vars

-----------------------------------------------------------------------------
(* Properties.                                                             *)

\* Every variable has its type.
TypeOK ==
  /\ account \in Objs \cup {NoObj}
  /\ running \in [Objs -> BOOLEAN]
  /\ cfg \in [Objs -> [Chats -> Config]]
  /\ started \in BOOLEAN
  /\ registered \in Tasks \cup {NoTask}
  /\ pc \in [Tasks -> {"none", "new", "idle", "sending"}]
  /\ cancelled \in SUBSET Tasks
  /\ obj \in [Tasks -> Objs \cup {NoObj, Other}]
  /\ target \in [Tasks -> Chats \cup {NoChat}]
  /\ elsewhere \in SUBSET Tasks /\ astray \in BOOLEAN
  /\ \A t \in Tasks : /\ pc[t] # "none" => obj[t] \in Objs \cup {Other}
                      /\ pc[t] = "sending" => obj[t] \in Objs /\ target[t] \in Chats
  /\ req \in [Requests -> {"idle", "start", "ready", "refresh", "bulk", "delete"}]
  /\ robj \in [Requests -> Objs \cup {NoObj}]
  /\ \A r \in Requests : req[r] # "idle" => robj[r] \in Objs
  /\ wanted \in [Objs -> SUBSET Chats]
  /\ base \in [Objs -> [Chats -> Nat]]

\* The set of started slots and the dictionary of tasks agree, and a task the
\* dictionary names is a loop of this key that runs and that nothing has cancelled,
\* through every overlap of restarts and of finally blocks of loops cancelled earlier.
RegistryConsistent ==
  /\ started <=> registered # NoTask
  /\ registered # NoTask => registered \in Active \ elsewhere
  /\ cancelled \cup elsewhere \subseteq Alive

\* A slot whose spam_running is set has a loop under its own key, on its present
\* RuntimeState, that nothing has cancelled: no overlap of start, restart, stop,
\* delete, add and reboot leaves a running slot without a loop, or with loops of an
\* old state only.  The exception is the control bot's button pressed while the slot
\* it shows (or the state it has of it) is not the active one: until the slot is
\* restarted by itself, it may have no loop, or one that another slot's restart ends.
RunningIsServed ==
  account # NoObj /\ running[account] =>
    astray \/ \E t \in Active \ elsewhere : obj[t] = account

\* Only the operator enables a chat: whatever a loop read before its await, a
\* chat the operator disabled or deleted meanwhile is never enabled by the
\* bookkeeping after the send.
OperatorWins ==
  \A o \in Objs, c \in Chats : cfg[o][c].enabled => c \in wanted[o]

\* messages_sent passes message_limit by less than the number of loops alive
\* at a time: each can have passed the check before any of them counted.  Sends
\* under way or counted when the operator last set the limit are not held
\* against it.
OvershootBounded ==
  \A o \in Objs, c \in Chats :
     LET k == cfg[o][c] IN
     k.limit > 0 =>
       \/ k.sent + Cardinality(InFlight(o, c)) <= base[o][c]
       \/ k.sent + Cardinality(InFlight(o, c)) < k.limit + Cardinality(Tasks)

\* What ChatQuota knows of a chat, and the loops that are sending to it.
Counts == [o \in Objs |-> [c \in Chats |->
           [enabled |-> cfg[o][c].enabled, limit |-> cfg[o][c].limit, sent |-> cfg[o][c].sent]]]

UnderWay == [o \in Objs |-> [c \in Chats |-> InFlight(o, c)]]

Quota == INSTANCE ChatQuota WITH
           Lists <- Objs, Senders <- Tasks, Limits <- 0..MaxLimit,
           chat <- Counts, sending <- UnderWay

\* Whatever is cancelled, restarted, deleted or rebooted between the check and the
\* bookkeeping of a send, each send that came back is counted once, a failed one
\* never, and only the operator enables a chat or resets its count.
KeepsQuota == Quota!Spec

\* The comment beside _spam_loop_started: one spam_loop for each slot.  (Only loops on
\* the slot's own state under its own key are counted.)
OneLoopPerSlot == Cardinality({t \in Active \ elsewhere : obj[t] = account}) <= 1
=============================================================================
