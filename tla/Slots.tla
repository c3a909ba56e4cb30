------------------------------- MODULE Slots -------------------------------
(***************************************************************************)
(* The account slots of one bot as three parties change them: the API of   *)
(* the site (BotService), the Telegram control bot, and restarts.          *)
(*                                                                         *)
(* All share the MultiAccountState `multi' and the table of clients.  The  *)
(* process is one asyncio loop: an action goes from await to await.  API   *)
(* requests interleave; the control bot handles one update at a time, but  *)
(* its answers, one per administrator, come when they come.  It keeps in   *)
(* bot_data the RuntimeState object it shows, which the API never touches. *)
(* An awaited handler that meets a slot that is gone raises KeyError or    *)
(* ServiceError and ends where it is.                                      *)
(***************************************************************************)
EXTENDS Naturals, Sequences, FiniteSets, SequencesExt, Functions

CONSTANTS
  Slots, Default,  \* slot ids, the legacy id `default'
  NoSlot,
  Env, Configured, \* the slots of ACCOUNTS; those in the first file
  Objs, NoObj,     \* RuntimeState objects; their number bounds those alive
  Requests,        \* API requests under way together
  Admins, NoAdmin, \* administrators of the control bot
  MaxCalls,        \* bound: API requests, buttons, texts and crashes
  MaxRestarts      \* bound: crashes of the bot

ASSUME SlotsAssumption ==
  /\ Default \in Slots /\ Env \cup Configured \subseteq Slots /\ Env \cup Configured # {} /\ NoSlot \notin Slots /\ NoObj \notin Objs
  /\ NoAdmin \notin Admins /\ MaxCalls \in Nat /\ MaxRestarts \in Nat
  /\ IsFiniteSet(Slots) /\ IsFiniteSet(Objs) /\ Cardinality(Objs) > Cardinality(Slots)

VARIABLES
  multi,             \* accounts (slot to its object), account_order, active_account_id
  filled, running,   \* the objects with settings, those with spam_running
  disk,              \* runtime_state.json
  clients, files,    \* the slots with a client, those with a session file
  pending,           \* _pending_auth
  loops,             \* slot to the object of the loop registered under it
  req,               \* API requests
  hand, wait,        \* the control bot's handler; user_data["wait"]
  shown, tc,         \* bot_data["state"]; the slot whose client is bot_data's
  calls, restarts,
  \* History: the slots answered as there and as gone; whether the API changed
  \* what is active since the control bot last chose what it shows; the objects
  \* the control bot started while it had, and those the API started when their
  \* slot was gone; the slots on which a call met a deletion, or which the
  \* control bot deleted with a sign-in of the API half done.
  promised, gone, apiSince, stale, crossed

settings == <<filled, running>>
service  == <<clients, files, pending, loops>>
control  == <<hand, wait, shown, tc>>
answers  == <<promised, gone>>
ghosts   == <<apiSince, stale, crossed>>
vars == <<multi, settings, disk, service, req, control, calls, restarts, answers, ghosts>>

\* A call has a slot; one that needs its client also what for, and the object
\* it found when it began.
Call(label, s) == [at |-> label, slot |-> s, obj |-> NoObj, does |-> "none"]
Idle == Call("idle", NoSlot)
NoWait == [kind |-> "none", slot |-> NoSlot, obj |-> NoObj, torn |-> FALSE]
Rest == [at |-> "idle", slot |-> NoSlot, who |-> NoAdmin]

Has(s) == s \in DOMAIN multi.accounts
Live == Range(multi.accounts)
Held == {wait[a].obj : a \in Admins} \cup {req[r].obj : r \in Requests}
Referenced == Live \cup {shown} \cup Range(loops) \cup Held
Fresh == Objs \ Referenced

(***************************************************************************)
(* The state file                                                          *)
(***************************************************************************)
First(s) == IF s = <<>> THEN NoSlot ELSE s[1]

\* What a sequence has of D, in its order.
Kept(seq, D) ==
  LET kept[n \in 0 .. Len(seq)] ==
        IF n = 0 THEN <<>>
        ELSE IF seq[n] \in D THEN Append(kept[n - 1], seq[n]) ELSE kept[n - 1]
  IN  kept[Len(seq)]

Others(seq, s) == Kept(seq, ToSet(seq) \ {s})

\* An order of exactly the slots D: what is kept of it, then the rest.
Completed(seq, D) ==
  LET kept == Kept(seq, D)
  IN  kept \o SetToSeq(D \ ToSet(kept))

\* A slip of Normal: the active slot is written as it is.
NormalOrder(m) == [m EXCEPT !.order = Completed(@, DOMAIN m.accounts)]

\* What save_multi_account_state makes of the state before it writes it.
Normal(m) ==
  LET D   == DOMAIN m.accounts
      ord == Completed(m.order, D)
  IN  [m EXCEPT !.order = ord, !.active = IF @ \in D THEN @ ELSE First(ord)]

\* The file of a state: its slots, and those with settings or sending.
Written(m, f, ru) ==
  LET D == DOMAIN m.accounts
  IN  [slots |-> D, filled |-> {s \in D : m.accounts[s] \in f},
       running |-> {s \in D : m.accounts[s] \in ru}, order |-> m.order, active |-> m.active]

Save(m) == multi' = Normal(m) /\ disk' = Written(Normal(m), filled', running')
Saves == Save(multi)

\* A slot with a new object, and its place in the order.
WithSlot(m, s, o) ==
  [m EXCEPT !.accounts = [x \in DOMAIN @ \cup {s} |-> IF x = s THEN o ELSE @[x]],
            !.order = IF s \in ToSet(@) THEN @ ELSE Append(@, s)]

\* What delete_slot makes of the state; the control bot's deletion differs in
\* what it does when the order is empty.
WithoutSlot(m, s) ==
  LET ord == Others(m.order, s)
  IN  [accounts |-> Restrict(m.accounts, DOMAIN m.accounts \ {s}), order |-> ord,
       active |-> IF m.active = s THEN First(ord) ELSE m.active]

\* restart_spam_loop_background registers a loop in the slot's place.
Register(s, o) == loops' = [x \in DOMAIN loops \cup {s} |-> IF x = s THEN o ELSE loops[x]]

\* A client is taken out of the table and disconnected.
PopClient(s) ==
  /\ clients' = clients \ {s}
  /\ tc' = IF tc = s /\ s \in clients THEN NoSlot ELSE tc

\* A call begins on a slot: does it meet a deletion, or a deletion it?
Busy(s) == (\E r \in Requests : req[r].slot = s) \/ hand.slot = s
Meets(s) == crossed' = IF Busy(s) THEN crossed \cup {s} ELSE crossed

(***************************************************************************)
(* API: slots                                                              *)
(***************************************************************************)
\* add_slot; the settings may come with it.
AddSlot(s, f) ==
  /\ ~Has(s) /\ Fresh # {}
  /\ LET o == CHOOSE o \in Fresh : TRUE
     IN  /\ filled' = (filled \ {o}) \cup (IF f THEN {o} ELSE {})
         /\ running' = running \ {o}
         /\ Save(WithSlot(multi, s, o))
  /\ promised' = promised \cup {s} /\ gone' = gone \ {s}
  /\ UNCHANGED <<service, req, control, restarts, ghosts>>

ActivateSlot(s) ==
  /\ Has(s)
  /\ UNCHANGED settings
  /\ Save([multi EXCEPT !.active = s]) /\ apiSince' = TRUE
  /\ UNCHANGED <<service, req, control, restarts, answers, stale, crossed>>

\* patch_slot, delete_chat and the chat patches after which nothing is sending:
\* settings are set, or cleared, on the slot's object.
PatchSlot(s) ==
  /\ Has(s)
  /\ \/ filled' = filled \cup {multi.accounts[s]}
     \/ filled' = filled \ {multi.accounts[s]}
  /\ UNCHANGED running
  /\ Saves
  /\ UNCHANGED <<service, req, control, restarts, answers, ghosts>>

\* A slip of Erase: the half-done sign-in stays.
EraseSlot(s) ==
  /\ running' = IF Has(s) THEN running \ {multi.accounts[s]} ELSE running
  /\ UNCHANGED pending /\ files' = files \ {s}
  /\ apiSince' = TRUE /\ promised' = promised \ {s}
  /\ UNCHANGED <<filled, loops, stale, restarts>>

\* A slip of Erase: the loop is not told to stop.
EraseSending(s) ==
  /\ UNCHANGED running
  /\ pending' = pending \ {s} /\ files' = files \ {s}
  /\ apiSince' = TRUE /\ promised' = promised \ {s}
  /\ UNCHANGED <<filled, loops, stale, restarts>>

\* The part of delete_slot after its await, up to the save.
Erase(s) ==
  /\ running' = IF Has(s) THEN running \ {multi.accounts[s]} ELSE running
  /\ pending' = pending \ {s} /\ files' = files \ {s}
  /\ apiSince' = TRUE /\ promised' = promised \ {s}
  /\ UNCHANGED <<filled, loops, stale, restarts>>

\* A slip of DeleteNow: the state is not saved.
DeleteUnsaved(s) ==
  /\ Erase(s) /\ multi' = Normal(WithoutSlot(multi, s)) /\ UNCHANGED disk
  /\ gone' = gone \cup {s}

DeleteNow(s) == Erase(s) /\ Save(WithoutSlot(multi, s)) /\ gone' = gone \cup {s}

\* delete_slot: without a client there is nothing to await.
DeleteSlot(r, s) ==
  /\ req[r] = Idle /\ Has(s) /\ Meets(s)
  /\ \/ /\ s \in clients /\ PopClient(s)
        /\ req' = [req EXCEPT ![r] = Call("deleting", s)]
        /\ UNCHANGED <<multi, settings, disk, files, pending, loops, restarts, answers,
                       apiSince, stale>>
     \/ /\ s \notin clients /\ DeleteNow(s)
        /\ UNCHANGED <<req, clients, tc>>
  /\ UNCHANGED <<hand, wait, shown>>

DeleteFinish(r) ==
  /\ req[r].at = "deleting" /\ DeleteNow(req[r].slot)
  /\ req' = [req EXCEPT ![r] = Idle]
  /\ UNCHANGED <<clients, control, crossed>>

(***************************************************************************)
(* API: signing in                                                         *)
(***************************************************************************)
Goto(r, label) == req' = [req EXCEPT ![r].at = label]
End(r) == req' = [req EXCEPT ![r] = Idle]

\* auth_send_code: the client is replaced by one that connects through the
\* slot's proxy.
SendCode(r, s) ==
  /\ req[r] = Idle /\ Has(s) /\ Meets(s)
  /\ PopClient(s) /\ files' = files \cup {s}
  /\ req' = [req EXCEPT ![r] = Call("connecting", s)]
  /\ UNCHANGED <<multi, settings, disk, pending, loops, hand, wait, shown, restarts, answers,
                 apiSince, stale>>

Connected(r) ==
  /\ req[r].at = "connecting"
  /\ \/ End(r) /\ UNCHANGED clients
     \/ Goto(r, "coding") /\ clients' = clients \cup {req[r].slot}
  /\ UNCHANGED <<multi, settings, disk, files, pending, loops, control, restarts, answers, ghosts>>

CodeSent(r) ==
  /\ req[r].at = "coding" /\ End(r)
  /\ \/ pending' = pending \cup {req[r].slot}
     \/ UNCHANGED pending
  /\ UNCHANGED <<multi, settings, disk, clients, files, loops, control, restarts, answers, ghosts>>

\* auth_sign_in, auth_submit_2fa
SignIn(r, s) ==
  /\ req[r] = Idle /\ Has(s) /\ s \in pending /\ Meets(s)
  /\ req' = [req EXCEPT ![r] = Call("signing", s)]
  /\ UNCHANGED <<multi, settings, disk, service, control, restarts, answers, apiSince, stale>>

\* The code is refused or a password asked for; or _finalize_auth begins.
SignedIn(r) ==
  /\ req[r].at = "signing"
  /\ \/ End(r) /\ UNCHANGED <<pending, clients>>
     \/ /\ Goto(r, "greeting")
        /\ pending' = pending \ {req[r].slot} /\ clients' = clients \cup {req[r].slot}
  /\ UNCHANGED <<multi, settings, disk, files, loops, control, restarts, answers, ghosts>>

\* The end of _finalize_auth and of an upload_session that is authorised:
\* _ensure_spam_loop looks the slot up again and raises when it is gone, and
\* the network may have failed before.
Greeted(r) ==
  /\ req[r].at \in {"greeting", "checking"} /\ End(r)
  /\ LET s == req[r].slot
     IN  \/ /\ Has(s) /\ Register(s, multi.accounts[s])
            /\ UNCHANGED settings
            /\ Saves
            /\ promised' = promised \cup {s}
         \/ UNCHANGED <<multi, settings, disk, loops, promised>>
  /\ UNCHANGED <<clients, files, pending, control, restarts, gone, ghosts>>

(***************************************************************************)
(* API: calls that need the slot's client                                  *)
(***************************************************************************)
\* _ensure_client of a slot that is there: its client, which may have to connect
\* again, or a new one.  A call that only keeps the loop is over with the client.
Ensure(r, s, does) ==
  \E at \in IF s \in clients THEN {"ready", "reaching"} ELSE {"making"} :
    /\ files' = IF at = "making" THEN files \cup {s} ELSE files
    /\ IF at = "ready" /\ does = "loop" THEN Register(s, multi.accounts[s]) /\ End(r)
       ELSE /\ req' = [req EXCEPT ![r] = [at |-> at, slot |-> s, obj |-> multi.accounts[s],
                                         does |-> does]]
            /\ UNCHANGED loops

Needs(r, s, does) ==
  /\ req[r] = Idle /\ Has(s) /\ Meets(s) /\ Ensure(r, s, does)
  /\ UNCHANGED <<multi, settings, disk, clients, pending, control, restarts, answers, apiSince,
                 stale>>

SetSpam(r, s) == Needs(r, s, "spam")
ListDialogs(r, s) == Needs(r, s, "look")

\* bulk_set_chats_enabled of all the chats there are.
BulkChats(r, s) == Needs(r, s, "chats")

\* set_spam(False) awaits nothing.
StopSpam(s) ==
  /\ Has(s)
  /\ running' = running \ {multi.accounts[s]} /\ UNCHANGED filled
  /\ Saves
  /\ UNCHANGED <<service, req, control, restarts, answers, ghosts>>

\* upsert_chat, and bulk_set_chats_enabled of named chats, when the slot sends.
PatchChat(r, s) ==
  /\ req[r] = Idle /\ Has(s) /\ multi.accounts[s] \in running /\ Meets(s)
  /\ filled' = filled \cup {multi.accounts[s]} /\ UNCHANGED running
  /\ Saves
  /\ Ensure(r, s, "loop")
  /\ UNCHANGED <<clients, pending, control, restarts, answers, apiSince, stale>>

\* The client is there: the loop is registered when it is to be, of the object
\* that the slot has now, and a slot that is gone ends the call.
Served(r, again) ==
  LET s == req[r].slot
  IN  /\ IF again \/ req[r].does = "loop" THEN
            IF Has(s) THEN Register(s, multi.accounts[s]) ELSE UNCHANGED loops
          ELSE UNCHANGED loops
      /\ IF req[r].does = "loop" \/ (again /\ ~Has(s)) THEN End(r) ELSE Goto(r, "ready")

\* The client connects again, or is replaced.
Reached(r) ==
  /\ req[r].at = "reaching"
  /\ \/ Served(r, FALSE) /\ UNCHANGED <<clients, files, tc>>
     \/ /\ Goto(r, "remaking") /\ PopClient(req[r].slot)
        /\ files' = files \cup {req[r].slot} /\ UNCHANGED loops
  /\ UNCHANGED <<multi, settings, disk, pending, hand, wait, shown, restarts, answers, ghosts>>

Made(r) ==
  /\ req[r].at \in {"making", "remaking"}
  /\ \/ End(r) /\ UNCHANGED <<clients, loops>>
     \/ /\ clients' = clients \cup {req[r].slot}
        /\ Served(r, req[r].at = "remaking" /\ req[r].obj \in running)
  /\ UNCHANGED <<multi, settings, disk, files, pending, control, restarts, answers, ghosts>>

\* The object found at first is started, whatever became of its slot; then the
\* slot is looked up again, and of one that is gone nothing is saved.
SpamStarted(r) ==
  LET s == req[r].slot
      o == req[r].obj
  IN  /\ req[r].at = "ready" /\ req[r].does = "spam" /\ End(r)
      /\ UNCHANGED filled
      /\ \/ UNCHANGED <<multi, running, disk, loops, stale>>
         \/ /\ o \in filled /\ running' = running \cup {o}
            /\ IF Has(s) THEN Register(s, multi.accounts[s]) /\ Saves
               ELSE UNCHANGED <<multi, disk, loops>>
            /\ stale' = IF Has(s) /\ multi.accounts[s] = o THEN stale ELSE stale \cup {o}
      /\ UNCHANGED <<clients, files, pending, control, restarts, answers, apiSince, crossed>>

\* The chats are set on the object found at first, and saved; then the loop.
ChatsSet(r) ==
  LET s == req[r].slot
      o == req[r].obj
  IN  /\ req[r].at = "ready" /\ req[r].does = "chats"
      /\ UNCHANGED running
      /\ \/ End(r) /\ UNCHANGED <<multi, filled, disk, files, loops>>
         \/ /\ filled' = filled \cup {o}
            /\ Saves
            /\ \/ o \in running /\ Has(s) /\ Ensure(r, s, "loop")
               \/ End(r) /\ UNCHANGED <<files, loops>>
      /\ UNCHANGED <<clients, pending, control, restarts, answers, ghosts>>

Listed(r) ==
  /\ req[r].at = "ready" /\ req[r].does = "look" /\ End(r)
  /\ UNCHANGED <<multi, settings, disk, service, control, restarts, answers, ghosts>>

(***************************************************************************)
(* API: upload_session                                                     *)
(***************************************************************************)
\* The slot is made, or its proxy set or cleared, and is not saved; the session
\* file is written.
PutSession(r, m, ru, s) ==
  /\ req' = [req EXCEPT ![r] = Call("uploading", s)]
  /\ files' = files \cup {s} /\ gone' = gone \ {s}
  /\ \/ /\ s \in DOMAIN m.accounts
        /\ filled' \in {filled, filled \cup {m.accounts[s]}, filled \ {m.accounts[s]}}
        /\ multi' = m /\ running' = ru
     \/ /\ s \notin DOMAIN m.accounts /\ Fresh # {}
        /\ \E f \in BOOLEAN :
             LET o == CHOOSE o \in Fresh : TRUE
             IN  /\ multi' = WithSlot(m, s, o)
                 /\ filled' = (filled \ {o}) \cup (IF f THEN {o} ELSE {})
                 /\ running' = ru \ {o}

\* A slot that has a client is deleted first, with an await in the middle.
UploadSession(r, s) ==
  /\ req[r] = Idle /\ Meets(s)
  /\ \/ /\ Has(s) /\ s \in clients
        /\ PopClient(s)
        /\ req' = [req EXCEPT ![r] = Call("clearing", s)]
        /\ UNCHANGED <<multi, settings, files, gone>>
     \/ /\ ~(Has(s) /\ s \in clients)
        /\ PutSession(r, multi, running, s)
        /\ UNCHANGED <<clients, tc>>
  /\ UNCHANGED <<disk, pending, loops, hand, wait, shown, restarts, promised, apiSince, stale>>

\* The deletion is saved, and the slot made again, in one go.  The object made
\* takes the place of the one deleted.
UploadCleared(r) ==
  /\ req[r].at = "clearing"
  /\ LET s == req[r].slot
         m == Normal(WithoutSlot(multi, s))
     IN  /\ PutSession(r, m, running \ {multi.accounts[x] : x \in {s} \cap DOMAIN multi.accounts}, s)
         /\ disk' = Written(m, filled, running)
         /\ pending' = pending \ {s} /\ promised' = promised \ {s}
  /\ apiSince' = TRUE
  /\ UNCHANGED <<clients, loops, control, restarts, stale, crossed>>

Uploaded(r) ==
  /\ req[r].at = "uploading"
  /\ \/ End(r) /\ UNCHANGED clients
     \/ Goto(r, "checking") /\ clients' = clients \cup {req[r].slot}
  /\ UNCHANGED <<multi, settings, disk, files, pending, loops, control, restarts, answers, ghosts>>

\* The session is not authorised: the slot is saved without a loop.
NotAuthorised(r) ==
  /\ req[r].at = "checking" /\ End(r)
  /\ UNCHANGED settings
  /\ Saves
  /\ promised' = promised \cup ({req[r].slot} \cap DOMAIN multi.accounts)
  /\ UNCHANGED <<service, control, restarts, gone, ghosts>>

(***************************************************************************)
(* The control bot: buttons                                                *)
(***************************************************************************)
\* What a text may be asked for: settings of a chat, of the slot, a post.
Asked == {"chat", "defaults", "post"}

\* The handler of one update at a time; dead once build_application has raised.
Listening == hand = Rest
Wait(a, w) == wait' = [wait EXCEPT ![a] = w]
Torn(w) == [w EXCEPT !.torn = w.kind \in Asked]
Take(label, s, a) == hand' = [at |-> label, slot |-> s, who |-> a]

\* A slip of Choose: the screen keeps the object it had.
ChooseKept(s) ==
  /\ Has(s) /\ UNCHANGED <<settings, shown>>
  /\ tc' = IF s \in clients THEN s ELSE NoSlot
  /\ apiSince' = FALSE
  /\ Save([multi EXCEPT !.active = s])

\* The slot chosen is active and shown.  multi.active_account_id is set first:
\* of a slot that is gone the handler raises with that, and nothing saved.
Choose(s) ==
  LET m == [multi EXCEPT !.active = s]
  IN  \/ /\ Has(s)
         /\ shown' = m.accounts[s] /\ tc' = IF s \in clients THEN s ELSE NoSlot
         /\ apiSince' = FALSE
         /\ UNCHANGED settings
         /\ Save(m)
      \/ /\ ~Has(s) /\ multi' = m
         /\ UNCHANGED <<settings, disk, shown, tc, apiSince>>

\* "spam": start needs a connected client and a chat to send to.  The loop of
\* the object shown is registered under the slot that is active.
PressSpam ==
  /\ Listening
  /\ UNCHANGED filled
  /\ \/ /\ shown \in running /\ running' = running \ {shown}
        /\ Saves
        /\ UNCHANGED <<loops, stale>>
     \/ /\ shown \notin running /\ shown \in filled /\ tc # NoSlot
        /\ running' = running \cup {shown}
        /\ Save(multi)
        /\ IF multi'.active = NoSlot THEN UNCHANGED loops ELSE Register(multi'.active, shown)
        /\ stale' = IF apiSince THEN stale \cup {shown} ELSE stale
  /\ UNCHANGED <<clients, files, pending, req, control, restarts, answers, apiSince, crossed>>

\* A handler that changes settings of the slot shown: with them, or without.
EditShown(outcomes) ==
  /\ \E b \in outcomes : filled' = IF b THEN filled \cup {shown} ELSE filled \ {shown}
  /\ UNCHANGED running
  /\ Saves
  /\ UNCHANGED <<service, req, hand, shown, tc, restarts, answers, ghosts>>

\* Buttons that change a chat at once: on or off; a field cleared or switched; a
\* channel picked; a field back to the default.
ToggleChats == Listening /\ EditShown({TRUE}) /\ UNCHANGED wait
ClearField  == ToggleChats
PickSource  == ToggleChats
ResetField  == ToggleChats

\* "djitr" and "dsfw" leave what is there; "gsclr" may clear the last of it.
EditDefaults ==
  /\ Listening /\ UNCHANGED wait
  /\ EditShown(IF shown \in filled THEN BOOLEAN ELSE {FALSE})

\* A button that asks for a text: the question names the chat, not the slot.
Ask(a, kind) ==
  /\ Listening
  /\ Wait(a, [kind |-> kind, slot |-> NoSlot, obj |-> shown, torn |-> FALSE])
  /\ UNCHANGED <<multi, settings, disk, service, req, hand, shown, tc, restarts, answers, ghosts>>

AskField(a) == Ask(a, "chat")
AskDefaults(a) == Ask(a, "defaults")

\* "gspst": the client must be there.
AskPost(a) == tc # NoSlot /\ Ask(a, "post")

AskNewSlot(a) ==
  /\ Listening
  /\ Wait(a, [NoWait EXCEPT !.kind = "accadd"])
  /\ UNCHANGED <<multi, settings, disk, service, req, hand, shown, tc, restarts, answers, ghosts>>

\* /start and "home" clear user_data.
GoHome(a) ==
  /\ Listening /\ wait[a] # NoWait /\ Wait(a, NoWait)
  /\ UNCHANGED <<multi, settings, disk, service, req, hand, shown, tc, restarts, answers, ghosts>>

\* "accdelok" after the disconnect: the first slot left becomes active, and its
\* object is shown.  When none is left the handler gives up, unsaved.
Drop(s, a) ==
  LET n == WithoutSlot(multi, s)
      m == IF n.order = <<>> THEN [n EXCEPT !.active = multi.active] ELSE n
  IN  /\ files' = files \ {s}
      /\ running' = IF Has(s) THEN running \ {multi.accounts[s]} ELSE running
      /\ promised' = promised \ {s}
      /\ UNCHANGED filled
      /\ \/ /\ m.active \in DOMAIN m.accounts
            /\ shown' = m.accounts[m.active]
            /\ tc' = IF m.active \in clients THEN m.active ELSE NoSlot
            /\ Save(m)
            /\ wait' = [x \in Admins |-> IF wait[x].slot = s /\ x = a THEN NoWait ELSE Torn(wait[x])]
            /\ apiSince' = FALSE /\ gone' = gone \cup {s}
         \/ /\ m.active \notin DOMAIN m.accounts
            /\ multi' = m
            /\ UNCHANGED <<disk, shown, tc, wait, apiSince, gone>>
      /\ crossed' = crossed \cup {x \in {s} : x \in pending \/ \E r \in Requests : req[r].slot = x}
      /\ UNCHANGED <<pending, loops, req, restarts, stale>>

\* "accdelok": not the last slot, judged before the await.
PressDelete(a, s) ==
  /\ Listening /\ Has(s) /\ Cardinality(DOMAIN multi.accounts) > 1
  /\ \/ /\ s \in clients /\ PopClient(s) /\ Meets(s) /\ Take("drop", s, a)
        /\ UNCHANGED <<multi, settings, disk, files, pending, loops, req, wait, shown, restarts,
                       answers, apiSince, stale>>
     \/ /\ s \notin clients /\ Drop(s, a)
        /\ UNCHANGED <<clients, hand>>

Dropped ==
  /\ hand.at = "drop" /\ hand' = Rest /\ Drop(hand.slot, hand.who)
  /\ UNCHANGED clients

\* "acc:<id>": connect the slot's client.
PressSlot(a, s) ==
  /\ Listening /\ Has(s) /\ Meets(s)
  /\ files' = files \cup {s} /\ Take("connect", s, a)
  /\ UNCHANGED <<multi, settings, disk, clients, pending, loops, req, wait, shown, tc, restarts,
                 answers, apiSince, stale>>

\* The client is kept and a loop started; of a slot gone, only the client.
SlotConnected ==
  LET s == hand.slot
  IN  /\ hand.at = "connect"
      /\ \/ hand' = Rest /\ UNCHANGED <<clients, loops>>
         \/ /\ clients' = clients \cup {s}
            /\ IF Has(s) THEN Register(s, multi.accounts[s]) /\ Take("check", s, hand.who)
               ELSE hand' = Rest /\ UNCHANGED loops
      /\ UNCHANGED <<multi, settings, disk, files, pending, req, wait, shown, tc, restarts,
                     answers, ghosts>>

\* A slip of SlotChecked: the question asked before is still open.
SlotCheckedWaiting ==
  LET s == hand.slot
  IN  /\ hand.at = "check" /\ hand' = Rest
      /\ \/ /\ Wait(hand.who, [NoWait EXCEPT !.kind = "phone", !.slot = s])
            /\ UNCHANGED <<multi, settings, disk, shown, tc, apiSince>>
         \/ /\ Choose(s)
            /\ wait' = [a \in Admins |-> IF ~Has(s) THEN wait[a]
                                         ELSE IF a = hand.who THEN wait[a] ELSE Torn(wait[a])]
      /\ UNCHANGED <<service, req, restarts, answers, stale, crossed>>

\* Not authorised: ask for the phone number.  Authorised: the slot is chosen,
\* and user_data of this administrator cleared.
SlotChecked ==
  LET s == hand.slot
  IN  /\ hand.at = "check" /\ hand' = Rest
      /\ \/ /\ Wait(hand.who, [NoWait EXCEPT !.kind = "phone", !.slot = s])
            /\ UNCHANGED <<multi, settings, disk, shown, tc, apiSince>>
         \/ /\ Choose(s)
            /\ wait' = [a \in Admins |-> IF ~Has(s) THEN wait[a]
                                         ELSE IF a = hand.who THEN NoWait ELSE Torn(wait[a])]
      /\ UNCHANGED <<service, req, restarts, answers, stale, crossed>>

(***************************************************************************)
(* The control bot: texts                                                  *)
(***************************************************************************)
\* The text that was asked for, applied to what is shown when it comes.  (A text
\* that cannot be read leaves the question open.)
AnswerField(a) ==
  Listening /\ wait[a].kind = "chat" /\ Wait(a, NoWait) /\ EditShown({TRUE})

AnswerLimits(a) == AnswerField(a)

\* "dmsg" and "dprox" may clear what was there.
AnswerDefaults(a) ==
  /\ Listening /\ wait[a].kind = "defaults" /\ Wait(a, NoWait)
  /\ EditShown(BOOLEAN)

\* A link to a post: without a client, nothing is set.
AnswerPost(a) ==
  /\ Listening /\ wait[a].kind = "post" /\ Wait(a, NoWait)
  /\ IF tc # NoSlot THEN EditShown({TRUE})
     ELSE UNCHANGED <<multi, settings, disk, service, req, hand, shown, tc, restarts, answers,
                      ghosts>>

\* "accadd": the slot is made and saved, then its client connected.
AnswerNewSlot(a, s) ==
  /\ Listening /\ wait[a].kind = "accadd" /\ ~Has(s) /\ Fresh # {} /\ Meets(s)
  /\ LET o == CHOOSE o \in Fresh : TRUE
     IN  /\ filled' = filled \ {o} /\ running' = running \ {o}
         /\ Save(WithSlot(multi, s, o))
  /\ promised' = promised \cup {s} /\ gone' = gone \ {s}
  /\ IF s \in clients THEN Wait(a, NoWait) /\ UNCHANGED <<files, hand>>
     ELSE files' = files \cup {s} /\ Take("join", s, a) /\ UNCHANGED wait
  /\ UNCHANGED <<clients, pending, loops, req, shown, tc, restarts, apiSince, stale>>

NewSlotConnected ==
  LET s == hand.slot
  IN  /\ hand.at = "join" /\ hand' = Rest
      /\ \/ Wait(hand.who, NoWait) /\ UNCHANGED <<clients, loops>>
         \/ /\ clients' = clients \cup {s}
            /\ IF Has(s) THEN Register(s, multi.accounts[s]) /\ Wait(hand.who, NoWait)
               ELSE UNCHANGED <<loops, wait>>
      /\ UNCHANGED <<multi, settings, disk, files, pending, req, shown, tc, restarts, answers,
                     ghosts>>

\* "tauth_phone": connect, and ask Telegram for a code.
AnswerPhone(a) ==
  /\ Listening /\ wait[a].kind = "phone" /\ Has(wait[a].slot) /\ Meets(wait[a].slot)
  /\ files' = files \cup {wait[a].slot} /\ Take("phone", wait[a].slot, a)
  /\ UNCHANGED <<multi, settings, disk, clients, pending, loops, req, wait, shown, tc, restarts,
                 answers, apiSince, stale>>

PhoneDone ==
  /\ hand.at = "phone" /\ hand' = Rest
  /\ \/ UNCHANGED <<clients, wait>>
     \/ clients' = clients \cup {hand.slot} /\ UNCHANGED wait
     \/ /\ clients' = clients \cup {hand.slot}
        /\ Wait(hand.who, [NoWait EXCEPT !.kind = "code", !.slot = hand.slot])
  /\ UNCHANGED <<multi, settings, disk, files, pending, loops, req, shown, tc, restarts, answers,
                 ghosts>>

\* "tauth_code" and "tauth_pwd"
AnswerCode(a) ==
  LET s == wait[a].slot
  IN  /\ Listening /\ wait[a].kind = "code"
      /\ \/ /\ s \notin clients /\ Wait(a, NoWait)
            /\ UNCHANGED <<hand, crossed>>
         \/ /\ s \in clients /\ Take("sign", s, a) /\ Meets(s)
            /\ UNCHANGED wait
      /\ UNCHANGED <<multi, settings, disk, service, req, shown, tc, restarts, answers, apiSince,
                     stale>>

\* Refused; expired; or signed in, and _after_telethon_sign_in begins.
CodeDone ==
  LET s == hand.slot
  IN  /\ hand.at = "sign"
      /\ \/ hand' = Rest /\ UNCHANGED <<wait, clients, loops>>
         \/ hand' = Rest /\ Wait(hand.who, NoWait) /\ UNCHANGED <<clients, loops>>
         \/ /\ Wait(hand.who, NoWait) /\ clients' = clients \cup {s}
            /\ IF Has(s) THEN Register(s, multi.accounts[s]) /\ Take("greet", s, hand.who)
               ELSE hand' = Rest /\ UNCHANGED loops
      /\ UNCHANGED <<multi, settings, disk, files, pending, req, shown, tc, restarts, answers,
                     ghosts>>

\* get_me has answered, or failed.
Welcomed ==
  /\ hand.at = "greet" /\ hand' = Rest
  /\ \/ UNCHANGED <<multi, settings, disk, shown, tc, wait, apiSince>>
     \/ /\ Choose(hand.slot)
        /\ wait' = [a \in Admins |-> IF Has(hand.slot) THEN Torn(wait[a]) ELSE wait[a]]
  /\ UNCHANGED <<service, req, restarts, answers, stale, crossed>>

(***************************************************************************)
(* Starts                                                                  *)
(***************************************************************************)
\* load_multi_account_state of the file and the ACCOUNTS variable.
Loaded ==
  LET D == disk.slots \cup Env
      ord == disk.order \o SetToSeq(D \ ToSet(disk.order))
  IN  [accounts |-> CHOOSE f \in [D -> Objs] : IsInjective(f), order |-> ord,
       active |-> IF disk.active \in D THEN disk.active ELSE First(ord)]

\* prune_phantom_default_slot: `default' without settings or session.
Phantom(m, f, ru) ==
  /\ Default \notin Env /\ Default \in DOMAIN m.accounts /\ Default \notin files
  /\ m.accounts[Default] \notin f \cup ru

\* build_application: the slot that is active, and its client.
Build(m, cs) ==
  IF m.active \in DOMAIN m.accounts \cap cs
    THEN hand' = [Rest EXCEPT !.at = "start"] /\ shown' = m.accounts[m.active] /\ tc' = m.active
    ELSE hand' = [Rest EXCEPT !.at = "dead"] /\ shown' = NoObj /\ tc' = NoSlot

\* main: every slot gets a client and a loop; authorised says whose session is.
\* When the active slot's is not, the first whose is becomes active.
Start(authorised) ==
  LET m == Loaded
      f == {m.accounts[s] : s \in disk.filled}
      ru == {m.accounts[s] : s \in disk.running}
      pruned == Phantom(m, f, ru)
      n == IF pruned THEN WithoutSlot(m, Default) ELSE m
      D == DOMAIN n.accounts
      moved == authorised # {} /\ n.active \notin authorised
      final == IF moved THEN [n EXCEPT !.active = First(Kept(n.order, authorised))]
               ELSE n
  IN  /\ authorised \subseteq D
      /\ filled' = f /\ running' = ru
      /\ multi' = final
      /\ IF pruned \/ moved THEN disk' = Written(final, filled', running') ELSE UNCHANGED disk
      /\ clients' = D /\ files' = files \cup D /\ pending' = {}
      /\ loops' = n.accounts
      /\ Build(final, D)
      /\ gone' = gone /\ promised' = IF pruned THEN promised \ {Default} ELSE promised
  /\ wait' = [a \in Admins |-> NoWait]
  /\ req' = [r \in Requests |-> Idle]
  /\ apiSince' = FALSE /\ stale' = {} /\ crossed' = {}

Crash ==
  /\ restarts < MaxRestarts /\ restarts' = restarts + 1
  /\ \E authorised \in SUBSET Slots : Start(authorised)

\* run_control_bot_forever: polling starts, or the application is built again.
Listen ==
  /\ hand.at = "start" /\ hand' = Rest
  /\ UNCHANGED <<multi, settings, disk, service, req, wait, shown, tc, restarts, answers, ghosts>>

Rebuild ==
  /\ hand.at = "start" /\ Build(multi, clients) /\ apiSince' = FALSE
  /\ UNCHANGED <<multi, settings, disk, service, req, wait, restarts, answers, stale, crossed>>

(***************************************************************************)
(* Specification                                                           *)
(***************************************************************************)
\* A start with a file that has the slots Configured, each with its settings.
Init ==
  /\ LET D == Env \cup Configured
         ord == SetToSeq(D)
     IN  /\ multi = [accounts |-> CHOOSE f \in [D -> Objs] : IsInjective(f), order |-> ord,
                     active |-> First(ord)]
         /\ filled = {multi.accounts[s] : s \in Configured} /\ running = {}
         /\ disk = Written(multi, filled, running)
         /\ clients = D /\ files = D /\ pending = {} /\ loops = multi.accounts
         /\ promised = D
  /\ req = [r \in Requests |-> Idle]
  /\ hand = [Rest EXCEPT !.at = "start"] /\ wait = [a \in Admins |-> NoWait]
  /\ shown = multi.accounts[multi.active] /\ tc = multi.active
  /\ calls = 0 /\ restarts = 0
  /\ gone = {} /\ apiSince = FALSE /\ stale = {} /\ crossed = {}

ApiCall ==
  \/ \E s \in Slots, f \in BOOLEAN : AddSlot(s, f)
  \/ \E s \in Slots : ActivateSlot(s) \/ PatchSlot(s) \/ StopSpam(s)
  \/ \E r \in Requests, s \in Slots :
       \/ DeleteSlot(r, s) \/ SendCode(r, s) \/ SignIn(r, s) \/ UploadSession(r, s)
       \/ SetSpam(r, s) \/ ListDialogs(r, s) \/ BulkChats(r, s) \/ PatchChat(r, s)

ApiGoesOn ==
  \E r \in Requests :
    \/ DeleteFinish(r) \/ Connected(r) \/ CodeSent(r) \/ SignedIn(r) \/ Greeted(r)
    \/ UploadCleared(r) \/ Uploaded(r) \/ NotAuthorised(r)
    \/ Reached(r) \/ Made(r) \/ SpamStarted(r) \/ ChatsSet(r) \/ Listed(r)

Update ==
  \/ PressSpam \/ ToggleChats \/ ClearField \/ PickSource \/ ResetField \/ EditDefaults
  \/ \E a \in Admins :
       \/ AskField(a) \/ AskDefaults(a) \/ AskPost(a) \/ AskNewSlot(a) \/ GoHome(a)
       \/ AnswerField(a) \/ AnswerLimits(a) \/ AnswerDefaults(a) \/ AnswerPost(a)
       \/ AnswerPhone(a) \/ AnswerCode(a)
       \/ \E s \in Slots : PressDelete(a, s) \/ PressSlot(a, s) \/ AnswerNewSlot(a, s)

BotGoesOn ==
  \/ Dropped \/ SlotConnected \/ SlotChecked \/ NewSlotConnected \/ PhoneDone \/ CodeDone
  \/ Welcomed \/ Listen \/ Rebuild

Next ==
  \/ /\ calls < MaxCalls /\ calls' = calls + 1
     /\ ApiCall \/ Update \/ Crash
  \/ /\ UNCHANGED calls
     /\ ApiGoesOn \/ BotGoesOn
Spec == Init /\ [][Next]_vars

(***************************************************************************)
(* Properties                                                              *)
(***************************************************************************)
\* Types of the variables.
TypeOK ==
  /\ DOMAIN multi.accounts \subseteq Slots /\ Live \subseteq Objs
  /\ multi.active \in Slots \cup {NoSlot}
  /\ filled \subseteq Objs /\ running \subseteq Objs
  /\ disk.filled \cup disk.running \subseteq disk.slots /\ disk.slots \subseteq Slots
  /\ clients \cup files \cup pending \subseteq Slots
  /\ DOMAIN loops \subseteq Slots /\ Range(loops) \subseteq Objs
  /\ \A r \in Requests : req[r].slot \in Slots \cup {NoSlot} /\ req[r].obj \in Objs \cup {NoObj}
  /\ hand.slot \in Slots \cup {NoSlot} /\ hand.who \in Admins \cup {NoAdmin}
  /\ \A a \in Admins : wait[a].kind \in Asked \cup {"none", "accadd", "phone", "code"}
  /\ shown \in Objs \cup {NoObj} /\ tc \in Slots \cup {NoSlot}
  /\ promised \cup gone \cup crossed \subseteq Slots /\ stale \subseteq Objs
  /\ apiSince \in BOOLEAN /\ calls \in 0 .. MaxCalls /\ restarts \in 0 .. MaxRestarts

\* Whatever handlers do to the order and the active slot across their awaits,
\* the order has every slot once, no two slots share settings, and the file
\* names one of its slots as active whenever it has one.  (The types are part of
\* it.)
FileIsWhole ==
  /\ TypeOK
  /\ ToSet(multi.order) = DOMAIN multi.accounts /\ IsInjective(multi.order)
  /\ IsInjective(multi.accounts)
  /\ ToSet(disk.order) = disk.slots /\ IsInjective(disk.order)
  /\ disk.slots # {} => disk.active \in disk.slots

\* A slot that was answered as deleted does not come back, not after a crash
\* either, unless ACCOUNTS asks for it; one that was answered as there stays,
\* in the file too, until somebody deletes it or uploads a session over it
\* (an unused `default' is pruned when the bot starts).
SlotsAsAnswered ==
  /\ gone \cap (DOMAIN multi.accounts \cup disk.slots) \subseteq Env
  /\ promised \subseteq DOMAIN multi.accounts \cap disk.slots

\* The buttons act on the slot that is active, as the screen says, unless the
\* API has activated, deleted or replaced a slot since the control bot chose.
ShownIsActive ==
  hand.at # "dead" /\ ~apiSince => Has(multi.active) /\ shown = multi.accounts[multi.active]

\* A text is applied to the slot whose screen asked for it, unless meanwhile a
\* slot was deleted, or the slot switched by another administrator.
AnswerLandsWhereAsked ==
  \A a \in Admins : wait[a].kind \in Asked /\ ~wait[a].torn => wait[a].obj = shown

\* A loop that sends for a slot that is gone, or under another slot's name, has
\* settings that the spam button started while the API had changed the slot, or
\* that a set_spam started which had begun before their slot was deleted.
SendsForItsSlot ==
  \A s \in DOMAIN loops : loops[s] \in running \ stale => Has(s) /\ multi.accounts[s] = loops[s]

\* A deleted slot leaves no client and no half-done sign-in behind, unless a
\* call on the slot was under way while it was deleted, or the control bot
\* deleted it: the API's half-done sign-ins are not its to know.
NothingLeftBehind == clients \cup pending \subseteq DOMAIN multi.accounts \cup crossed
=============================================================================
