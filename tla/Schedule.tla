------------------------------ MODULE Schedule ------------------------------
(***************************************************************************)
(* When a chat of one slot is sent to: the timers of the slot's loop       *)
(* (spam_scheduler.spam_loop), the settings they are computed from, and    *)
(* the parties that change the settings: the API and the control bot.      *)
(*                                                                         *)
(* Time is relative: a timer holds the time left, and falls due in `queue',*)
(* whose order is that of next_fire; ages stop at Horizon, beyond which    *)
(* nothing depends on them.  One loop is followed.  Another loop of the    *)
(* slot (module SpamLoop shows it may exist) is seen by what it writes.    *)
(* Limits are the matter of SpamLoop; a plan finds a text or a post to     *)
(* send, or finds none.                                                    *)
(***************************************************************************)
EXTENDS Naturals, Sequences, SequencesExt, FiniteSetsExt, Functions

CONSTANTS
  Chats, NoChat,
  Watched,   \* the chats whose history is kept (chats are alike)
  Lens,      \* lengths of intervals
  Jits,      \* how far a pause may be from its interval
  Delays,    \* start_delay_min, 0 for none
  Holds,     \* flood waits and the back-off of a forbidden chat
  MaxEdits   \* bound: changes of settings, starts and stops, other loops' sends

Horizon == Max({a + b : a \in Lens, b \in Jits} \cup Delays \cup Holds)

ASSUME ScheduleAssumption ==
  /\ NoChat \notin Chats /\ IsFiniteSet(Chats) /\ Watched \subseteq Chats
  /\ Lens \subseteq Nat \ {0} /\ Lens # {} /\ IsFiniteSet(Lens)
  /\ Jits \subseteq Nat /\ 0 \in Jits /\ IsFiniteSet(Jits)
  /\ Delays \subseteq Nat /\ 0 \in Delays /\ IsFiniteSet(Delays)
  /\ Holds \subseteq Nat \ {0} /\ IsFiniteSet(Holds) /\ MaxEdits \in Nat

VARIABLES
  cfg, std,     \* chat_configs; the defaults of the slot
  last,         \* age of last_sent_at of a chat
  running,      \* spam_running
  bumped,       \* interval_seq is not the one the loop has seen
  loop,         \* where the loop awaits, and the chat it is at
  timer, queue, \* next_fire: time left; the chats that are due, longest first
  edits,
  \* History: the last delivery of this loop to a chat, its age and the shortest
  \* pause that the settings allowed since, until that pause is over or the
  \* delivery forgotten; time left of a wait that Telegram asked for; chats
  \* whose timer was forgotten since; chats whose times were changed without a
  \* new interval_seq.
  owes, hold, forgot, unbumped

options == <<cfg, std>>
timers  == <<timer, queue>>
waits   == <<hold, forgot>>
vars == <<options, last, running, bumped, loop, timers, edits, owes, waits, unbumped>>

Opt(S) == {<<>>} \cup {<<x>> : x \in S}
Never == Horizon + 1
Absent == Horizon + 1
Ages == 0 .. Never

Options == [on : BOOLEAN, len : Opt(Lens), jit : Opt(Jits), delay : Delays]
Blank == [on |-> FALSE, len |-> <<>>, jit |-> <<>>, delay |-> 0]
Defaults == [len : Lens, jit : Jits]

(***************************************************************************)
(* Pauses                                                                  *)
(***************************************************************************)
\* effective_interval_min, effective_jitter
Interval(x, d) == IF x.len = <<>> THEN d.len ELSE x.len[1]
Jitter(x, d) == IF x.jit = <<>> THEN d.jit ELSE x.jit[1]

\* random_interval_seconds: what the next pause may be.
Pauses(x, d) ==
  LET n == Interval(x, d)
      j == Jitter(x, d)
  IN  (IF j >= n THEN 1 ELSE n - j) .. n + j

\* A slip of NextFire: a pause counts from now.
NextFireNow(c) ==
  IF last[c] # Never THEN Pauses(cfg[c], std)
  ELSE {cfg[c].delay}

\* A slip of NextFire: a chat that was sent to needs no delay.
NextFireAtOnce(c) == IF last[c] # Never THEN {0} ELSE {cfg[c].delay}

\* _schedule_next_fire: from the last send, or after the first delay.
NextFire(c) ==
  IF last[c] # Never
    THEN {IF p > last[c] THEN p - last[c] ELSE 0 : p \in Pauses(cfg[c], std)}
    ELSE {cfg[c].delay}

\* A delivery whose pause is over is no matter any more.
Free == [age |-> 0, pause |-> 0]
Kept(o) == IF o.age >= o.pause THEN Free ELSE o
Excused(S) == [c \in Watched |-> IF c \in S THEN Free ELSE owes[c]]

\* Delivered and not booked, when the loop is cancelled or the send fails.
Lost == IF loop.at = "sent" THEN {loop.chat} ELSE {}

\* What a queue has besides S, in its order.
Without(q, S) ==
  LET left[n \in 0 .. Len(q)] ==
        IF n = 0 THEN <<>>
        ELSE IF q[n] \in S THEN left[n - 1] ELSE Append(left[n - 1], q[n])
  IN  left[Len(q)]

\* A timer set: a chat with no time left falls due behind the ones that are.
Set(c, n) ==
  /\ timer' = [timer EXCEPT ![c] = n]
  /\ queue' = IF n = 0 THEN Append(Without(queue, {c}), c) ELSE Without(queue, {c})

\* next_fire.clear(), or the timers of some chats deleted.
Forget(S) ==
  /\ timer' = [c \in Chats |-> IF c \in S THEN Absent ELSE timer[c]]
  /\ queue' = Without(queue, S)
  /\ forgot' = forgot \cup {c \in S \cap Watched : hold[c] > 0}

At(label, c) == loop' = [at |-> label, chat |-> c]
Sleep == At("rest", NoChat)

(***************************************************************************)
(* The loop                                                                *)
(***************************************************************************)
\* Two seconds are over.
Wake ==
  /\ loop.at = "rest" /\ At("ask", NoChat)
  /\ bumped' = FALSE
  /\ IF bumped THEN Forget(Chats) ELSE UNCHANGED <<timers, forgot>>
  /\ unbumped' = IF bumped THEN {} ELSE unbumped
  /\ UNCHANGED <<options, last, running, edits, owes, hold>>

\* Not connected, or not authorised.
Offline ==
  /\ loop.at = "ask" /\ Sleep
  /\ Forget(Chats) /\ unbumped' = {}
  /\ UNCHANGED <<options, last, running, bumped, edits, owes, hold>>

Stopped ==
  /\ loop.at = "ask" /\ ~running /\ Sleep
  /\ Forget(Chats) /\ unbumped' = {}
  /\ UNCHANGED <<options, last, running, bumped, edits, owes, hold>>

On == {c \in Chats : cfg[c].on}

\* The timers of the chats that are on, and the first that is due.
Fill ==
  LET off == Chats \ On
      new == {c \in On : timer[c] = Absent}
  IN  \E f \in [new -> 0 .. Horizon] :
        /\ \A c \in new : f[c] \in NextFire(c)
        /\ timer' = [c \in Chats |-> IF c \in off THEN Absent ELSE IF c \in new THEN f[c] ELSE timer[c]]
        /\ \E late \in SetToSeqs({c \in new : f[c] = 0}) : queue' = Without(queue, off) \o late
        /\ forgot' = forgot \cup {c \in off \cap Watched : hold[c] > 0}
        /\ unbumped' = unbumped \ (off \cup new)

\* A slip of Chosen: of the chats that are due, the one that fell due last.
ChosenLast(q) == q[Len(q)]

Chosen(q) == Head(q)

\* From the answer to the next await without a pause.  What is sent, and that
\* it is sent, is not looked at again: the plan and the send are one wait here.
Choose ==
  /\ loop.at = "ask" /\ running
  /\ Fill
  /\ IF queue' = <<>> THEN Sleep ELSE At("send", Chosen(queue'))
  /\ UNCHANGED <<options, last, running, bumped, edits, owes, hold>>

\* The chat's turn is over: a new timer.
Reschedule(c) ==
  /\ \E n \in NextFire(c) : Set(c, n)
  /\ unbumped' = unbumped \ {c}
  /\ Sleep

\* The plan has no text and no post.
NothingToSend ==
  /\ loop.at = "send"
  /\ Reschedule(loop.chat)
  /\ UNCHANGED <<options, last, running, bumped, edits, owes, waits>>

\* Telegram has the message.
Deliver ==
  /\ loop.at = "send" /\ At("sent", loop.chat)
  /\ owes' = [c \in Watched |-> IF c = loop.chat THEN [age |-> 0, pause |-> Min(Pauses(cfg[c], std))]
                               ELSE owes[c]]
  /\ UNCHANGED <<options, last, running, bumped, timers, edits, waits, unbumped>>

\* Its answer: the send is booked.
Booked ==
  LET c == loop.chat
  IN  /\ loop.at = "sent" /\ Sleep
      /\ last' = [last EXCEPT ![c] = 0]
      /\ \E n \in Pauses(cfg[c], std) : Set(c, n)
      /\ unbumped' = unbumped \ {c}
      /\ UNCHANGED <<options, running, bumped, edits, owes, waits>>

\* A slip of HeldBack: the next pause in place of the wait.
HeldBackAsUsual ==
  LET c == loop.chat
  IN  /\ loop.at = "send" /\ Sleep
      /\ \E n \in Holds : hold' = [x \in Watched |-> IF x = c THEN n ELSE hold[x]]
      /\ \E n \in NextFire(c) : Set(c, n)
      /\ forgot' = forgot \ {c}
      /\ UNCHANGED <<options, last, running, bumped, edits, owes, unbumped>>

\* A flood or slow-mode wait, or an hour for a chat that forbids writing.
HeldBack ==
  LET c == loop.chat
  IN  /\ loop.at = "send" /\ Sleep
      /\ \E n \in Holds : Set(c, n) /\ hold' = [x \in Watched |-> IF x = c THEN n ELSE hold[x]]
      /\ forgot' = forgot \ {c}
      /\ UNCHANGED <<options, last, running, bumped, edits, owes, unbumped>>

BadPeer ==
  /\ loop.at = "send" /\ Sleep
  /\ cfg' = [cfg EXCEPT ![loop.chat].on = FALSE]
  /\ Forget({loop.chat}) /\ unbumped' = unbumped \ {loop.chat}
  /\ UNCHANGED <<std, last, running, bumped, edits, owes, hold>>

\* Any other error; the message may have been delivered all the same.
SendFails ==
  /\ loop.at \in {"send", "sent"}
  /\ owes' = Excused(Lost)
  /\ Reschedule(loop.chat)
  /\ UNCHANGED <<options, last, running, bumped, edits, waits>>

(***************************************************************************)
(* The settings                                                            *)
(***************************************************************************)
Times(x) == <<x.len, x.jit, x.delay>>
Changed(f, d) == {c \in Chats : Times(f[c]) # Times(cfg[c]) \/ d.len # std.len \/ d.jit # std.jit}

\* Settings f and d come in the place of cfg and std; deliveries to S are
\* forgotten.
Become(f, d, S) ==
  /\ cfg' = f /\ std' = d
  /\ owes' = [c \in Watched |->
                IF c \in S THEN Free
                ELSE Kept([owes[c] EXCEPT !.pause = Min({@, Min(Pauses(f[c], d))})])]

\* What the API and the control bot do with settings alike, and how they differ:
\* the API gives a change of times a new interval_seq.
ByBot(f, d) ==
  /\ Become(f, d, {}) /\ unbumped' = unbumped \cup (Watched \cap Changed(f, d))
  /\ UNCHANGED <<last, running, bumped, loop, timers, waits>>

ByApi(f, d, b) ==
  /\ Become(f, d, {})
  /\ bumped' = (bumped \/ b) /\ UNCHANGED unbumped

Chat(c, x) == [cfg EXCEPT ![c] = x]

\* restart_spam_loop_background: the loop is cancelled where it awaits.
\* Delivered and not booked, a message is forgotten.
Restart ==
  /\ Sleep /\ Forget(Chats) /\ bumped' = TRUE /\ unbumped' = {}

Untouched == UNCHANGED <<loop, timers, forgot>>

(***************************************************************************)
(* The API                                                                 *)
(***************************************************************************)
\* _apply_chat_patch of one field; a patch of several is several patches.
Patches(x) ==
  {x, [x EXCEPT !.on = ~@]}
  \cup {[x EXCEPT !.len = v] : v \in Opt(Lens)}
  \cup {[x EXCEPT !.jit = v] : v \in Opt(Jits)}
  \cup {[x EXCEPT !.delay = v] : v \in Delays}

\* upsert_chat: while the slot sends, its loop is restarted when the client can
\* be connected.  The fields of time count as changed when they are given.
UpsertChat(c) ==
  \E x \in Patches(cfg[c]), b \in BOOLEAN :
    /\ Times(x) # Times(cfg[c]) => b
    /\ \/ /\ running /\ Become(Chat(c, x), std, Lost) /\ Restart
       \/ /\ ByApi(Chat(c, x), std, b) /\ Untouched
    /\ UNCHANGED <<last, running, hold>>

\* bulk_set_chats_enabled
BulkEnable(b) ==
  /\ LET f == [c \in Chats |-> [cfg[c] EXCEPT !.on = b]]
     IN  \/ b /\ running /\ Become(f, std, Lost) /\ Restart
         \/ Become(f, std, {}) /\ Untouched /\ UNCHANGED <<bumped, unbumped>>
  /\ UNCHANGED <<last, running, hold>>

\* delete_chat: with its settings goes the time of the last send.
DeleteChat(c) ==
  /\ cfg[c] # Blank \/ last[c] # Never
  /\ Become(Chat(c, Blank), std, {c})
  /\ last' = [last EXCEPT ![c] = Never]
  /\ unbumped' = unbumped \cup ({c} \cap Watched)
  /\ UNCHANGED <<running, bumped, loop, timers, waits>>

PatchSlot ==
  /\ \E d \in Defaults, b \in BOOLEAN : (d.len # std.len \/ d.jit # std.jit => b) /\ ByApi(cfg, d, b)
  /\ UNCHANGED <<last, running, hold>> /\ Untouched

\* set_spam, and the button of the control bot, when validate_spam_start allows.
StartSpam ==
  /\ On # {} /\ running' = TRUE /\ Restart
  /\ owes' = Excused(Lost)
  /\ UNCHANGED <<options, last, hold>>

StopSpam ==
  /\ running /\ running' = FALSE
  /\ UNCHANGED <<options, last, bumped, loop, timers, owes, waits, unbumped>>

\* The process dies and starts, or the client is replaced after a sign-in.
Reboot ==
  /\ Restart
  /\ owes' = Excused(Lost)
  /\ UNCHANGED <<options, last, running, hold>>

\* Another loop of the slot has sent to a chat.
OtherBooked(c) ==
  /\ last' = [last EXCEPT ![c] = 0]
  /\ UNCHANGED <<options, running, bumped, loop, timers, owes, waits, unbumped>>

(***************************************************************************)
(* The control bot                                                         *)
(***************************************************************************)
\* "T<page>_<chat>" and "ten<chat>"; "a_on" and "a_off".
Toggle(c) == ByBot(Chat(c, [cfg[c] EXCEPT !.on = ~@]), std)
ToggleAll(b) == ByBot([c \in Chats |-> [cfg[c] EXCEPT !.on = b]], std)

ClearInterval(c) == ByBot(Chat(c, [cfg[c] EXCEPT !.len = <<>>]), std)
ClearJitter(c) == ByBot(Chat(c, [cfg[c] EXCEPT !.jit = <<>>]), std)
ClearDelay(c) == ByBot(Chat(c, [cfg[c] EXCEPT !.delay = 0]), std)

\* "djitr"
ClearStdJitter == ByBot(cfg, [std EXCEPT !.jit = 0])

\* Answers: "dint" and "djit", "cjit", "cint", "csdl".
AnswerStdTimes ==
  \/ \E n \in Lens : ByBot(cfg, [std EXCEPT !.len = n])
  \/ \E j \in Jits : ByBot(cfg, [std EXCEPT !.jit = j])

AnswerJitter(c) == \E v \in Opt(Jits) : ByBot(Chat(c, [cfg[c] EXCEPT !.jit = v]), std)
AnswerInterval(c) == \E v \in Opt(Lens) : ByBot(Chat(c, [cfg[c] EXCEPT !.len = v]), std)
AnswerDelay(c) == \E n \in Delays : ByBot(Chat(c, [cfg[c] EXCEPT !.delay = n]), std)

(***************************************************************************)
(* Time                                                                    *)
(***************************************************************************)
Older(a) == IF a < Horizon THEN a + 1 ELSE a

Tick ==
  LET t == [c \in Chats |-> IF timer[c] \in 1 .. Horizon THEN timer[c] - 1 ELSE timer[c]]
      h == [c \in Watched |-> IF hold[c] > 0 THEN hold[c] - 1 ELSE 0]
  IN  /\ last' = [c \in Chats |-> Older(last[c])]
      /\ owes' = [c \in Watched |-> Kept([owes[c] EXCEPT !.age = @ + 1])]
      /\ timer' = t /\ hold' = h /\ forgot' = {c \in forgot : h[c] > 0}
      /\ \E late \in SetToSeqs({c \in Chats : timer[c] = 1}) : queue' = queue \o late
      /\ UNCHANGED <<options, running, bumped, loop, edits, unbumped>>

(***************************************************************************)
(* Specification                                                           *)
(***************************************************************************)
\* A slot that was set up through the API and sends for the first time.
Init ==
  /\ cfg = [c \in Chats |-> [Blank EXCEPT !.on = TRUE]]
  /\ std = [len |-> Max(Lens), jit |-> 0]
  /\ last = [c \in Chats |-> Never] /\ running = TRUE /\ bumped = TRUE
  /\ loop = [at |-> "rest", chat |-> NoChat]
  /\ timer = [c \in Chats |-> Absent] /\ queue = <<>> /\ edits = 0
  /\ owes = [c \in Watched |-> Free] /\ hold = [c \in Watched |-> 0] /\ forgot = {} /\ unbumped = {}

LoopStep ==
  \/ Wake \/ Offline \/ Stopped \/ Choose \/ NothingToSend
  \/ Deliver \/ Booked \/ HeldBack \/ BadPeer \/ SendFails

ApiStep ==
  \/ PatchSlot \/ StartSpam \/ StopSpam \/ Reboot
  \/ \E b \in BOOLEAN : BulkEnable(b)
  \/ \E c \in Chats : UpsertChat(c) \/ DeleteChat(c) \/ OtherBooked(c)

BotStep ==
  \/ \E c \in Chats :
       \/ Toggle(c) \/ ClearInterval(c) \/ ClearJitter(c) \/ ClearDelay(c)
       \/ AnswerJitter(c) \/ AnswerInterval(c) \/ AnswerDelay(c)
  \/ \E b \in BOOLEAN : ToggleAll(b)
  \/ ClearStdJitter \/ AnswerStdTimes

Next ==
  \/ LoopStep \/ Tick
  \/ /\ edits < MaxEdits /\ edits' = edits + 1
     /\ ApiStep \/ BotStep

Spec == Init /\ [][Next]_vars

\* The event loop runs what is ready, the calls of Telegram end, time passes.
FairSpec == Spec /\ WF_vars(LoopStep) /\ WF_vars(Tick)

(***************************************************************************)
(* Properties                                                              *)
(***************************************************************************)
\* Types of the variables; the chats that are due are those without time left.
TypeOK ==
  /\ cfg \in [Chats -> Options] /\ std \in Defaults
  /\ last \in [Chats -> Ages] /\ owes \in [Watched -> [age : 0 .. Horizon, pause : 0 .. Horizon]]
  /\ {running, bumped} \subseteq BOOLEAN
  /\ loop.at \in {"rest", "ask", "send", "sent"} /\ loop.chat \in Chats \cup {NoChat}
  /\ timer \in [Chats -> 0 .. Absent] /\ hold \in [Watched -> 0 .. Horizon]
  /\ ToSet(queue) = {c \in Chats : timer[c] = 0} /\ IsInjective(queue)
  /\ forgot \cup unbumped \subseteq Watched /\ edits \in 0 .. MaxEdits

\* Between two messages of this loop to a chat lies the shortest pause that the
\* settings allowed since the first, unless the first was not booked (the loop
\* was cancelled, or the send ended in an error, with the message delivered)
\* or the chat deleted since.
SendsSpaced ==
  [][loop.at = "send" /\ loop'.at = "sent" /\ loop.chat \in Watched =>
       owes[loop.chat] = Free]_vars

\* A chat that Telegram asked to leave alone is left alone for that long, unless
\* the loop forgot its timers since (restarted, offline, stopped, an interval
\* changed through the API, the chat switched off).
WaitsKept ==
  [][loop.at = "ask" /\ loop'.at = "send" /\ loop'.chat \in Watched =>
       hold[loop'.chat] = 0 \/ loop'.chat \in forgot']_vars

\* The longest that the settings make a timer: the first delay, even when
\* another loop has sent to the chat meanwhile, or what is left of the pause.
Longest(c) ==
  LET most == Max({Max(Pauses(cfg[c], std)), cfg[c].delay})
  IN  IF last[c] = Never THEN cfg[c].delay ELSE IF most > last[c] THEN most - last[c] ELSE 0

\* No timer is longer than the settings in force make it, except those that
\* were running when the control bot changed the times, or the chat deleted.  (The
\* types, and what is due, are part of it.)
TimersFollow ==
  /\ TypeOK
  /\ ~bumped =>
    \A c \in (On \cap Watched) \ unbumped :
      timer[c] # Absent /\ hold[c] = 0 => timer[c] <= Longest(c)

\* While the slot sends and its client stays connected, every chat that stays on
\* gets its turn again and again.  (A client that is lost over and over makes the
\* loop forget who waited longest.)
EveryChatGetsATurn ==
  \A c \in Chats :
    <>[](cfg[c].on /\ running) /\ <>[][~Offline]_vars
      => []<>(loop.at = "send" /\ loop.chat = c)
=============================================================================
