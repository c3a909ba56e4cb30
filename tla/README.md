# exsender in TLA+

A verification development for exsender: a site that sells subscriptions and
manages rented servers, and a userbot on each of those servers that sends posts
to Telegram chats and invites users. The modules below are written from the
Python sources; `PROJECT.json` names, for each definition, the lines it stands for.

## 1. The system

Two kinds of processes, both Python with asyncio, both keeping their state in
memory and in files.

**The site** (`web/`, one process) is a FastAPI application. Handlers are atomic
between awaits. Each store (users, invoices, promo codes, referral ledger, bots,
pending registrations) is one JSON file that every change rewrites as a whole,
through a temporary file and a rename; stores are saved one after the other.

**The bot** (`bot/`, one process on each server) runs one sending loop for each
Telegram account (a *slot*), an HTTP service for the site, a Telegram bot for
control, and the inviter. Its state is one JSON file for the slots and an SQLite
file for the inviter.

| Component | State | Operations | Hard behaviour |
|---|---|---|---|
| Sending loop, `spam_scheduler.py` | `_spam_loop_tasks`, `_spam_loop_started`, `next_fire`, each chat's configuration | start, restart, cancel; choose a chat, send, count, disable at the limit | a cancelled loop unwinds after its successor was registered; limit checked before, counted after two awaits |
| Bot service, `bot_service.py` | slots, clients | set_spam, upsert_chat, bulk_set_chats_enabled, delete_chat, add/delete/patch/activate slot, login, upload_session | every one suspends for the client and then acts on state that others changed |
| State file, `state.py`, and start, `main.py` | slots, their order, the active slot | load, save, prune, restart | normalisation on load; what a restart finds |
| Inviter, `inviter/` | queue, parsed chats, blocklist; job and parse tasks | parse, start, stop, clear source | works for hours on a snapshot; crashes between commits |
| Control bot, `control_bot.py` | conversation state | the same operations by buttons | acts on whatever slot is active when the button arrives |
| Payments, `payments.py`, `app.py` | invoices | create, webhook, poll, activate | webhook and poll overlap, several saves, late answers |
| Referrals and promo codes, `referrals.py`, `admin_ops.py`, `users.py` | balance, ledger, uses, plan | commission, bonus, gift, spend, validate, use | nothing is reserved between creating and paying |
| Deployer and registry, `deployer.py`, `registry.py` | `bots.json`, a deploy state for each bot | deploy, update, restart, stop | long SSH sessions, a lock for each bot, crashes leave "deploying" |
| Proxy, `proxy.py`, `overview_cache.py` | tunnels, failure counters, cache | forward, retry, invalidate | a retry repeats a call that ran; a cache filled after it was invalidated |
| Trial limits, `trial_limits.py` | none | count, then allow | check over the network before the act |
| Registration, `register_verify.py`, `verify_bot.py`, `password_reset.py`; accounts, `users.py` | pending requests, accounts, their bots | start, verify in Telegram, complete, delete | two channels, expiry, a crash or a failed save between two files |
| Sessions and limits, changelog, health, activity, frontend, scripts | lists, counters, cookies | | no protocol between actors |

**Interaction.** The browser calls the site; the site calls the bots over HTTP in
an SSH tunnel; Crypto Bot calls the webhook and is polled; the control bot and the
HTTP layer call the same service objects; the service restarts sending loops as
tasks, and these change the slot state the service reads. The files are what
connects a process with the one that replaces it.

What makes each part correct: a running slot has exactly one loop on its present
state, limits and the operator's switches hold whatever is being sent (sending);
a payment is delivered once, with its promo days and rewards (payments); credit
is neither lost nor spent twice (referrals); nobody is invited more often than
queued, or after a refusal the inviter recorded (inviter); the registry tells the truth about a bot
(deployer); a call is carried out once (proxy); one account for each e-mail and
Telegram user (registration). The hazards are listed in `PROJECT.json`, each at
its line.

## 2. Plan

| Module | What | State |
|---|---|---|
| `SpamLoop`, `SpamLoop_proofs` | sending loops, their registry, the slot operations, reboot | done, proved |
| `ChatQuota` | abstract: what is promised of a chat with a limit; `SpamLoop` implements it | done, proved |
| `Schedule`, `Schedule_proofs` | when chats are due: intervals, flood waits, back-offs, the chat due longest; each chat's turn | done, proved |
| `Slots`, `Slots_proofs` | order, active slot, file, clients, signing in, the control bot's buttons and texts, restarts | done, proved |
| `Inviter`, `Inviter_proofs` | parse, queue, job, crashes between commits | done, proved |
| `Billing`, `Billing_proofs` | invoices, promo codes, referral credit, crashes between saves | done, proved |
| `PayPage` | composes `Billing` with the page that polls while a buyer pays | done |
| `Accounts`, `Accounts_proofs` | registration, verification, password reset, deletion, crashes and failed saves | done, proved |
| `Deployer`, `Deployer_proofs` | registry status, lock, port, restart timer, crash of the site | done, proved |
| `Relay`, `Relay_proofs` | tunnel, attempts, overview cache, trial limits | done, proved |

Each module is one component with the parties that act on it. `SpamLoop`, `Schedule` and `Slots`
look at the same bot from three sides: the tasks of one slot and their overlaps, the
time of one loop, and the slots as a whole. They share operations (`set_spam`, `delete_slot`,
`upload_session`, a reboot), each told in the detail its module needs. `ChatQuota`
is the one abstract specification; the next worth stating is a payment that is delivered once,
which `Billing` implements up to the statuses that are lost.

## 3. The modules

### SpamLoop

One slot key, the state objects that have served it, the tasks of
`_spam_loop_tasks` and the suspended requests. An action of a request is the code
between two awaits: `Call` is what the handler does before it waits for the client,
the action named after the operation is what it does after. A task is `new`, then
asleep, or about to send, or sending; `Pick` (checks and send), `Retire` (limit reached),
`Count` (bookkeeping), `GiveUp` and `BadPeer` (errors) are the segments of
`spam_loop`, `Unwind` the `finally` of a cancelled one, `RestartLoop` both halves of
`restart_spam_loop_background`. `Reboot` is the process restart, with
`STOP_SPAM_ON_START` as a constant.

The registry is keyed by slot, so one key is enough for everything but the control bot's spam button, which
takes the state it shows and the key that is active (`control_bot.py:1060`). `ButtonStart` may therefore start a state of this slot under its
own key or under another's (`StartElsewhere`; such tasks are `elsewhere`, and a restart of the other slot cancels them: `CancelElsewhere`),
and `ButtonOther` starts another slot's state (`Other`) under this key. Which slot is shown and which is active is the subject of `Slots`; here any combination may be.
`astray` is history: the last loop started with this slot's key or state was started across slots.

Left out: when a chat is due (any chat that is enabled may be; that is what
`Schedule` is about), what is sent, who the client is, saves that fail, and
what other slots do besides. `upload_session` is the deletion,
the addition and a restart in a row.

### ChatQuota

What a chat with a limit is promised, without loops, requests or a registry: a send
begins only at a chat that is enabled and below its limit (`Begin`), is counted once when
it comes back (`Finish`) or not at all (`Drop`), the one that reaches the limit disables the chat,
and only the operator enables chats and resets counts (`Edit`). `SpamLoop` maps its state to
it: `Counts` forgets what the loops do not decide by, `UnderWay` is the set of loops that are sending.

### Schedule

The loop of one slot in time. `timer` is the time left of `next_fire`, `queue` the order in which chats fell due,
`last` the age of `last_sent_at`; ages stop at `Horizon`. `Wake` is the two seconds' sleep and the look at
`interval_seq` (`bumped`: it changed), `Choose` everything from `next_fire` to the choice of the chat,
`Deliver` and `Booked` the two sides of the await of a send, `HeldBack` flood and slow-mode
waits and the hour for a forbidden chat, `BadPeer` and `SendFails` the other errors. The settings change
by the API (`UpsertChat`, `BulkEnable`, `DeleteChat`, `PatchSlot`, `StartSpam`, `StopSpam`), which bumps
`interval_seq` or restarts the loop, and by the control bot (`Toggle` to `AnswerDelay`), which does neither. A second
loop of the slot, which `SpamLoop` shows to exist, is `OtherBooked`.

Left out: limits (`SpamLoop`), what is sent, the two seconds themselves (an iteration takes no time, a tick comes between
any two), fractions of a minute.

### Slots

`multi` is the `MultiAccountState` (slots with the object of each, order, active slot), `disk` the file, `clients`, `pending` and `loops`
the tables of the process, `filled` and `running` what a `RuntimeState` object holds. API requests (`req`) are cut at
their awaits: `DeleteSlot`/`DeleteFinish`, `SendCode`/`Connected`/`CodeSent`, `SignIn`/`SignedIn`/`Greeted`,
`UploadSession`/`UploadCleared`/`Uploaded`/`NotAuthorised`. The calls that need the slot's client (`SetSpam`, `BulkChats`,
`ListDialogs`, and `PatchChat` of a slot that sends) share `_ensure_client`: `Ensure` takes the client of the table or makes one, `Reached` and `Made`
are the ends of its awaits, `Served` the loop it may restart; `SpamStarted`, `ChatsSet` and `Listed` go on with the object found at first (`req[r].obj`), whatever became of the
slot. `StopSpam` and `PatchSlot` await nothing. The control bot handles one update at a time (`hand`), keeps the object it
shows in `bot_data` (`shown`, with client `tc`) and for each administrator what it waits for (`wait`). `Normal`
and `Written` are what a save makes of the state, `Loaded`, `Phantom` and `Start` what a start makes of the file.
`promised`, `gone`, `apiSince`, `stale`, `crossed` and `torn` are history.

Left out: joining a group by its link, moving between pages, what the settings are (an object has some or none), saves that
fail, a settings file of an older format.

### Billing

All stores of the site a payment touches. `_activate_paid_invoice` never awaits,
so its saves (`GrantPlan`, `ApplyUse`, `PromoDays`, `MarkPaid`, `SpendCredit`,
`Reward`, `LedgerEntry`, `FirstBonus`) follow each other with nothing in between but
`Crash`. `status` is what the process holds, `saved` what the file holds;
`check_invoice` writes the former only. `CreateCall`/`CreateDone` and
`CheckCall`/`CheckAnswer`/`CheckDone` are the two handlers that await Crypto Bot, which
is external and modelled from the calls the site makes (`Pay`, `Expire`, `CheckAnswer`).
`plan_expires_at` is represented by the counts of what was stacked on it.
History variables (`reopened`, `charged`, `doubled`) are read by properties only.

Left out: saves that fail (the code logs and goes on with what is in memory), plans
of different prices, promo codes that are switched off or expire (a buyer's choice
less), the ledger's cap of 5000 entries, the ledger entry of the bonus (it carries no
money), signature checking. Amounts are whole cents, rounded half up. An order whose credit
covers the price and that a crash interrupts stays active and is never polled,
in the model as in the code.

`PayPage` composes this with the buyer's page: one dialog, for the newest invoice, and one timer, which asks every four
seconds whether or not the last call (20 seconds at most) was answered (`Poll`), until the first "paid" (`Told`) or until the
dialog is closed (`Close`: by the buyer, by leaving, or by a late "paid" for an earlier invoice). In `Billing` itself anybody may ask about
any invoice at any time. A second tab is not modelled: it has a dialog of its own.

### Inviter

One account. `queue` maps a user to the row in `invite_queue` (the table has one
row for a user), `job.todo` is the snapshot the job works on, `job.skip` its copy of the
blocklist. `NextRow` is the code from the head of the row loop to its next await and is
part of every action that gets there. A crash may fall between the two commits of a
segment: `Uncommitted` says what is then in the file. Only one job exists in the service
(`_job_task` is set without an await after the check), so the lock for
each account is always free. A parse has no such guarantee: two may run together.

Left out: the target, pauses' lengths, access hashes (the second snapshot they lead
to may be taken or not), members who join or leave a source during the scan.

### Accounts

Four stores, each with its memory and its file: `users` (with the index `emailIdx`), `regs`, `resets`, `bots`. A handler
that saves two of them is two actions with `step` in between, where only its second half or `Crash` may
come: `RegisterComplete`/`RegisterFinish`, `ResetComplete`/`ResetFinish`, `DeleteBots`/`DeleteUser`. `Save` may fail, which is
logged and leaves the file as it is (the registry raises). `inbox` is what Telegram holds for the bot; `HandleUpdate` handles the next
update, `AcknowledgeUpdates` is the next `getUpdates`, and after a crash unacknowledged ones come again.
`Click` is external. A token is used by nobody before its start has answered, which is after its save.

Left out: blocking of accounts, changes of names, the wording of the bot, rate limits, account and e-mail
changes by an administrator.

### Relay

The bot of one customer who is on trial (`accounts`, and `version`, which counts changes), the tunnel of the site to it (`pool`: the entry and whether it works,
`lock`, `open` connections, those `leaked`) and the calls under way. A change comes by one of three handlers (`Routes`: `_proxy`, `upload_session`,
`_proxy_inviter_bot`) or from the control bot, which the site hears nothing of (`ControlBot`). `PortFor`, `Opened`, `OpenFails` and
`Invalidate` are `_TunnelPool`; `Reach`, `SendFails`, `AnswerLost` and `Again` an attempt of `_request_via_ssh`, which is one
of `Retries`. A call that creates a slot first counts (`LookForSlot`, `CountAccounts`), over a connection that is not
followed, if its handler does so (`Counted`); a bot that does not answer counts as empty. `snap` is the cached overview, which `DeliverChange` drops
when it is `_proxy` that confirms a change. History: `extra` counts the slots created without a count, `silent` is the latest version confirmed
without dropping the overview, `miscounted` and `acked` are explained beside them.

Left out: the direct path without an SSH key, the record of failures that is shown, a restart of the site, several bots of a customer.

### Deployer

One bot: `rec` is its `BotRecord` in memory, `file` what `bots.json` has of it, `vds` what matters of the server (the unit, the port in
`.env`, the port the process read when it started, the timer's interval), `task` the
background tasks of the site and `line` the waiters at the bot's `asyncio.Lock`, which is
fair, so its head is the holder. `deploy` is cut at the commands that
change the server (`StopOld`, `WriteEnv`, `StartUnit`, `DeployTimer`) and at the writes of
the record (`DeployBegin`, `Pick`, `DeployDone`, `DeployFails`); it may fail at each. A write of the record
changes memory first (`Update`), and when `_save` raises memory keeps the change (`UpdateFails`): `DeployBegin`, `Pick` and the
successes may fail that way, as may the `except` of an operation (`Error`) and `patch_bot` (`PatchHoursFails`). `Resave` is the save for another bot,
which writes this record too; `Crash` goes back to the file.
`_simple_op` is `OpRun`, `OpTimer`, `OpDone`, `OpFails` with the commands of the operation in
`Effect`. A deploy request first waits for the `.env` (`DeployCall`, `DeployRequest`), outside the lock.
`SystemdStarts` is external: the restart timer, or a reboot of the server.
`Pick` looks for a listening process, and one that has just been started may not listen
yet, so its own port may look free or taken.

Left out: changes of host, port, token or status by hand, a second record for the same
host (it has its own lock), the first save of a new bot, a bot process that dies by itself, an uninstall whose commands
fail one by one, the text of the log.

## 4. The runs

| Run | Module, cfg | Question |
|---|---|---|
| `spam` | `MCSpamLoop`, `SpamLoop.cfg` | two loops, two state objects, a suspended request, the button of the control bot, reboots: is the registry sound, has a running slot a loop, how far is a limit passed, does bookkeeping undo the operator's switches, and is every step one of `ChatQuota`? |
| `spam_one_loop` | `MCSpamLoop`, `SpamLoopOne.cfg` | "one spam_loop for each slot": violated |
| `schedule` | `MCSchedule`, `Schedule.cfg` | do messages keep their distance, are waits kept, do timers follow the settings; liveness: does every chat get its turn? |
| `slots` | `MCSlots`, `Slots.cfg` | does the file keep what was answered, does the control bot act on the slot it shows, what do deletions leave? |
| `inviter` | `MCInviter`, `Inviter.cfg` | the safety of queue, snapshot, blocklist, stop and parse, with crashes; liveness: a job ends |
| `billing` | `MCBilling`, `Billing.cfg` | delivery, repeated delivery, bonuses and promo days over webhook, late poll and a crash |
| `billing_credit` | `MCBilling`, `BillingCredit.cfg` | credit promised, spent and recorded in the ledger |
| `billing_polling` | `MCPayPage`, `BillingPolling.cfg` | liveness: does polling alone deliver to a buyer who leaves the dialog open? |
| `billing_bonus` | `MCBilling`, `BillingBonus.cfg` | "bonus days on first": violated |
| `accounts` | `MCAccounts`, `Accounts.cfg` | one account for an e-mail and a Telegram, tokens used once and by their owner, no click lost, what a deletion leaves |
| `deployer` | `MCDeployer`, `Deployer.cfg` | two overlapping operations, crashes, deletion, systemd: does the record tell the truth about status, port and timer? |
| `relay` | `MCRelay`, `Relay.cfg` | retried calls over a tunnel that breaks: is the quota kept, are connections forgotten, how old is the overview that is shown? |

Most modules have a `TypeOK`. It is a property of its own where a theorem states it (`spam`, `inviter`,
`deployer`); in the other runs it is the first conjunct of one property: `LedgerFollowsCredit`, `OneAccountEach`,
`ConnectionsAccounted`, `FileIsWhole`, `TimersFollow`.

**Bounds.** `Requests`, `Pollers`, `Parsers`, `Calls`: how many of them are suspended together; two
show every race between two handlers, and one with a crash or a webhook shows
those of Billing. `SpamLoop`: two tasks suffice for a race and for passing a limit of 1; with a third (`SpamLoopOne`) they pile up; `MaxSent` 2: sends to a chat without a limit, which may
then get a limit of 1; one suspended request, which every other handler may cross; the proofs hold for any numbers of tasks, requests and sends
(crossings of several requests and a limit set far below what was sent (`base`) are left to them), and for `StopOnStart = TRUE`, which no run sets. `Invoices = 2`: one that
is paid before, or together with, another. `MaxCrashes = 1`: the crash may come
anywhere, and the state after it is an ordinary one (`billing_polling`: one invoice, two polls that overlap, two crashes). `MaxId = 3`, `MaxAttempts = 2`: two
users queued, cleared and queued again while a job holds the first rows.
`Gifts`/`MaxEarned`: credit for one of two invoices that each want it.
`Deployer`: two operations in the queue, of which the second may have been asked before
or after any step of the first; three ports, one more than a deploy can find taken by its own bot;
intervals on and off; crashes and failed saves are not bounded.
`Accounts`: two of each party make every conflict (two tokens for one e-mail, one Telegram for two tokens);
one reset and one bot, which conflict with nothing of their kind; one crash and one failed save, anywhere; three clicks: one more than a
token needs. `Relay`: a quota of one with three slots, so that one counted and one uncounted creation pass it; it starts with or without a slot; two attempts
(three in the code): a first and a repeated one; two changes, one to be seen by a fetch that began before it and one after; one forward that fails. `Slots`: `default`, a
slot of `ACCOUNTS` and one more; two requests and two administrators; three calls (`MaxCalls`: API requests, buttons, texts
and crashes together; their continuations are not bounded), of which at most two are crashes: a call, what
interrupts it, and what meets the result. Five objects: three slots, the one shown and one in a question, a call or a loop of a deleted slot.
`Schedule`: two chats that compete for the loop, the history of one of them (they are alike); intervals 1 and 2 with jitter 0 and 1, so that pauses
of 1 to 3 occur and a jitter as long as its interval; first delays of 0 and 3 and waits of 3, as long as the longest pause and longer than others; two changes, so that a change meets what another has left.

**Deadlock** is off where every party may have done all it is bounded to do: in the Billing runs (every invoice used and
paid), in `accounts` (every token used) and in `slots` (`MaxCalls`). It is on in the others.

**Fairness.** `PayPage!Fairness`: the activation goes on (it is a straight piece of code);
an answer that has come is handled (the event loop is fair to tasks that are
ready); every call ends (the client has a time-out of 20 seconds) and Crypto Bot answers some of them: strong fairness, since a call may
fail in between and an activation runs in between. Only an invoice whose dialog is open is asked about again and again (the
interval timer of `frontend/js/profile.js:301`); when the dialog is closed nothing is assumed, and `PollingDelivers` promises nothing. The
webhook is given no fairness at all. `Inviter!FairSpec`: every await of the job ends: an
invitation is bounded by a time-out of 45 seconds, a flood wait that is long ends
the job, pauses are finite. Nothing is assumed of operators, parsers or crashes. `Schedule!FairSpec`: the loop goes on
(the event loop runs what is ready, a send ends, by its answer or an error, and two seconds end) and time passes; nothing is assumed
of what is chosen among answers and errors. `EveryChatGetsATurn` asks besides that the chat stays on, the slot keeps sending, and
the client is not lost over and over, because `next_fire.clear()` forgets who has waited longest.

## 5. What the runs found

1. **Two loops on one slot** (`spam_one_loop`). The `finally` of a cancelled loop removes the
   slot from the registry after its successor was put there; the next restart finds
   nothing to cancel. `OvershootBounded` says what this costs: limits are passed by at
   most the number of loops less one; `RunningIsServed` says what it does not cost.
2. **A second delivery** (`billing_bonus`). A poll answered late writes "active" over "paid"; the
   invoice is then activated again and the referrer gets a second first-payment bonus.
   `GrantsExplained` shows that this and a crash before `mark_paid` are the
   only ways; `PollingDelivers` that a buyer who leaves the dialog open is served all the same.

Met while modelling, and part of the models, but not a property of any run:

- **A button across slots.** The control bot's spam button restarts the state it shows under the key of the active slot (`control_bot.py:1060`). After an `activate_slot` of the
  API the active slot loses its loop while its `spam_running` stays set, and the shown slot's loop is ended by the next restart of the other (`astray` in `RunningIsServed`).
- **A redeploy moves the bot.** The port is chosen while the old bot still listens on its own (`deployer.py:554`, stopped at
  `:591`), so that one counts as taken, although the comment at `:549` says it is kept. `RunningIsReachable` shows that the record follows.
- **A deleted slot that sends again.** `set_spam` looks the slot up, waits for its client, sets `spam_running` on what it found
  (`bot_service.py:627`) and looks the slot up again only then: when it was deleted meanwhile, the answer is 404, and the old loop, which `delete_slot` does not cancel, sends on
  (`SpamStarted`; `stale` in `SendsForItsSlot`). When the slot was made again, its loop is started and its own flag stays off.
- **A "deploying" that nobody works on.** `deployer.py:513` sets the status before the `try`; when the save fails the deploy is over and the
  panel goes on saying "deploying", as after a stop of the site in a deploy (`cut` in `DeployingIsUnderway`).
- **Intervals that are not sent.** `app.py:1383` starts `sync_timer` for bots with a key only: a change in the first deploy, or while a bot
  runs that was restarted with the password after its deploy had failed late, stays on the site; so does one whose save failed, since the second try changes nothing
  (`unsent` in `TimerFollows`).
- **A "paid" that stays undone.** Polls overlap, so a late "active" may come after the page was told "paid" and stopped asking; the site then
  holds the invoice as active until the next webhook or start (`app.py:1181`). The plan has been added (`PaidIsDelivered`, `PollingDelivers`).
- **Refusals that are not recorded.** A privacy refusal in the retry after a flood wait becomes `failed_after_wait`
  (`errors.py:221`): the row goes, the user is not blocked, and the next parse queues them again. The same happens when the process
  dies, or a time-out strikes, before the refusal is read (`lost` in `RefusalRespected`).
- **Two parses at once.** The check and the assignment of `_parse_task` (`service.py:225`) are separated by two awaits. The queue does
  not suffer (`ParsedWasQueued`, `AttemptsBounded`); the progress shown, and later refusals, do.
- **A control bot that does not come back.** `build_application` looks up the active slot and its client before the `try` that repeats
  after 15 seconds (`main.py:52`); when the active slot has none, the task ends (`hand.at = "dead"` in `Slots`).
- **Changed intervals that wait a turn.** The control bot changes times without a new `interval_seq`, which the comment at `state.py:115`
  has for this; the running timer keeps its length (`unbumped` in `TimersFollow`).
- **Forgotten waits.** Any `upsert_chat` of a slot that sends restarts its loop, which forgets flood waits (`forgot` in `WaitsKept`).
- **Fetches that cross a change.** An overview that was being fetched when a change was confirmed goes into the cache after it was
  dropped (`crossed` in `StaleOnlyFromInFlight`); an upload by the form and whatever goes through the inviter's proxy (`app.py:1583`, `1790`) drop nothing
  (`silent`), and neither does an addition whose first answer was lost: the retry is a conflict.
- **Slots that nobody counts.** The quota of a trial is enforced for the path `accounts` of the panel's proxy and for the upload form (`app.py:1497`, `1569`):
  an upload through the proxy, whatever goes through the inviter's proxy (`app.py:1801`) and the control bot create slots without it (`extra` in `QuotaKept`).

## 6. What is proved

`SpamLoop_proofs`: for any finite or infinite sets of chats, tasks, state objects and
requests and any bounds, under `SpamLoopAssumption` (the "none" values and the other slot's object are not members,
the tasks are a finite set).

| Theorem | Property | Argument |
|---|---|---|
| `SpamLoopTyped` | `TypeOK` | inductive as it stands, action by action |
| `RegistrySound` | `RegistryConsistent` | inductive given `TypeOK`; `LoopEffect` sorts every action by what it does to the registry, `Unwind` clears mark and task together |
| `RunningServed` | `RunningIsServed` | inductive given `TypeOK` and `RegistryConsistent`: a restart cancels only the task of the registry and starts one on the present object, or the button says that it started another; what another key cancels is a task of that key |
| `OperatorAlwaysWins` | `OperatorWins` | inductive given `TypeOK` |
| `LimitOvershoot` | `OvershootBounded` | inductive because it counts the sends under way with the ones counted: a send that is counted leaves the sum alone, a new one starts below the limit |
| `SpamLoopKeepsQuota` | `KeepsQuota` | `SpamLoop` implements `ChatQuota`: from `TypeOK` alone, step by step: `Pick` is `Begin`, `Count` is `Finish`, a failed or cancelled send is `Drop`, `Retire` is `Close`, the operator's calls are `Edit`, a reboot is `Restart`, and what the registry does is a stutter |

`Inviter_proofs`: for any finite set of users, any sources, parse requests, limits and bounds,
under `InviterAssumption`.

| Theorem | Property | Argument |
|---|---|---|
| `InviterTyped` | `TypeOK` | not inductive alone: the user who is blocked or invited is taken from a snapshot. `Agree` strengthens it: an id names one user in the queue, in the snapshot and between them, and no user comes twice in a snapshot |
| `InviterStops` | `StopIsPrompt` | `PromptInv`: no late invitation before a stop, nor at any point from which the job may still come to a row |
| `InviterRespectsRefusals` | `RefusalRespected` | `RefusalInv`: a user of the snapshot who is blocked is one the job knows, or the one it is at, who by `Agree` has no other entry; `LearnedInv`: whose refusal was read is blocked |
| `InviterParsesAll` | `ParsedWasQueued` | `QueuedInv`: what a scan skips is blocked, whoever is queued was inserted |
| `InviterRemovesItsOwn` | `JobRemovesItsOwn` | from `Agree` and `RefusalInv`, step by step |
| `InviterBoundsAttempts` | `AttemptsBounded` | `DueInv` counts the invitations that may still come, from a row and from an entry whose row is gone; every step that adds one adds a row, or leaves one after an invitation |

`Advance` states what `NextRow` does in one formula, and `JobAdvances` brings the three actions that
contain it to that form; the rest of each proof never looks into `NextRow`.

`Deployer_proofs`: for any number of operations at a time, any ports and intervals, under
`DeployerAssumption` ("no port" is not a port, 0 is an interval, ports and intervals are numbers).

| Theorem | Property | Argument |
|---|---|---|
| `DeployerTyped` | `TypeOK` | not inductive alone: `DeployDone` writes the task's port to the record, and `PortInv` says it was picked |
| `DeployerReaches` | `RunningIsReachable` | `LockInv`: only the head of the line has begun, and a deploy that has begun is in the record, so "running" means that none is under way; `PortInv`: the record has the port of a deploy from `Pick` on, the server from `WriteEnv` on, and both agree in between |
| `DeployerDeploys` | `DeployingIsUnderway` | the holder is the only deploy that has begun (`LockInv`), and it overwrites the status when it ends, or leaves it and says so (`CutInv`) |
| `DeployerTimes` | `TimerFollows` | the server has the record's interval or an operation in the line will bring it (`TimerInv`); an operation that was asked with an older one has such an operation behind it (`QueueInv`), since the lock is fair (`LineInv`); an uninstall that has taken the timer away ends with "stopped" or "error" (`Uninstalled`) |

`Joined`, `HolderGoesOn` and `HolderEnds` say what each kind of step leaves of the invariant; every
action is one of the three. The timer has its own three: `TimerEnqueue`, `TimerGoesOn`, `TimerEnds`.

`Relay_proofs`: for any finite sets of calls and slots, any quota and any number of attempts, under
`RelayAssumption` (the "none" values are not members; a quota and the attempts are at least one).

| Theorem | Property | Argument |
|---|---|---|
| `RelayAccountsForConnections` | `ConnectionsAccounted` | `OpenInv`: who opens a connection has the lock of the pool, and the entry is gone, so the connection that becomes the entry replaces none; whoever closes one closes the one of the entry |
| `RelayKeepsQuota` | `QuotaKept` | `RoomInv`: as long as the counts were true and not taken together, at most one call has passed, and there is room for its slot besides those created without a count; a retry asks for the same slot, which fits again |
| `RelayStaleOnlyInFlight` | `StaleOnlyFromInFlight` | `StaleInv`: no more is confirmed than the bot has done, and an overview on its way that is older than what was confirmed was on its way at the confirmation, or is older than what was confirmed silently |

`KeepOpen`, `KeepRoom` and `KeepStale` say once what a step must leave alone; each action is brought to one of them, or changes
what the invariant is about.

`Accounts_proofs`: for any sets of accounts, e-mails, Telegram users, tokens and bots and any number of crashes and failed
saves, under `AccountsAssumption` ("nobody" is no member of any set, and no token is of both kinds).

| Theorem | Property | Argument |
|---|---|---|
| `AccountsOneEach` | `OneAccountEach` | `UsersInv`: an id is given once, so what is in the file and not in memory cannot come back under an id in use; an account keeps its Telegram |
| `AccountsConfirmPasswords` | `PasswordConfirmed` | `AimInv`: each pending registration and reset, in memory and in the file, is for the account its token was given for, and was confirmed by a click of the Telegram this account has wherever it is known |
| `AccountsUseTokensOnce` | `TokenUsedOnce` | `UseInv`: a token that can still be used was used at most once before each crash |
| `AccountsLeaveNothing` | `DeletedLeaveNothing` | `SavedInv`: while saves work, memory and files agree between handlers, up to tokens that expired; inside a deletion the bots are gone already |
| `AccountsCountClicks` | `ClickCounts` | `ClickInv`: a click is among those the bot has still to handle, or is over |

The invariant is one (`IInv`); the `Keep...` lemmas say for each part which changes of the stores it survives.

`Billing_proofs`: for any sets of users and requests, any finite set of invoices, any price, discount, commission, limit of uses
and number of crashes, under `BillingAssumption` (the "none" values are not members; nobody refers themselves; percentages are
from 0 to 100; the invoices are finitely many, as a file's are, so that the promo days given for them have a sum).

| Theorem | Property | Argument |
|---|---|---|
| `BillingDelivers` | `PaidIsDelivered` | `DeliveredInv`: what the activation in progress has delivered after each of its saves; the use of a code is counted one save before its days are given, so the sum of the days lags behind |
| `BillingGrantsOnce` | `GrantsExplained` | `GrantsInv` counts the "paid" an invoice has or is about to have together with those it lost; `BonusInv`: while no invoice of a buyer lost one, a bonus was given only if an invoice is paid, so an activation that found none paid finds no bonus |
| `BillingLedger` | `LedgerFollowsCredit` | `LedgerInv`: what is credited is in the ledger or is what the activation owes it. No balance becomes negative because spending compares first; that an order's credit is at most its price needs the arithmetic of the discount (`Part`) |
| `BillingCredit` | `CreditPaidFor` | `CreditInv`: a buyer's credit is promised to one request or open invoice at a time, the balance covers it, and nothing else takes from the balance |

`IInv` joins these with `InvoicesInv` (what memory, file and Crypto Bot agree on) and `ActInv` (which invoice an activation is of).
`Lasting` says what no step takes back; most parts need little more of the steps they are not about. `PaidIsDelivered` adds up with
`FoldFunction`. `TotalIs` unfolds it to its recursive function, `SumsExist` shows that this function exists over the subsets of a finite
set, and `TotalOfOneMore` that one more at one place is one more in the sum. These are inductions on the size of a set; they are done with a set of
numbers in place of a predicate (`Induction`, from the well-foundedness of `<`), since a theorem with an operator parameter cannot be
instantiated here.

`Slots_proofs`: for any finite set of slots, any finite set of objects that is larger, any requests and administrators and any
number of calls and crashes, under `SlotsAssumption` (the "none" values are not members, some slot is configured).

| Theorem | Property | Argument |
|---|---|---|
| `SlotsFileIsWhole` | `FileIsWhole` | `Whole`: state and file are sound after every handler, and `Normal`, `WithSlot`, `WithoutSlot` and `Loaded` keep it so. What is kept of an order without repetitions is an order without repetitions (`KeptOf`), and a set that is finite has one (`SetToSeqOf`) |
| `SlotsAnswered` | `SlotsAsAnswered` | inductive given `Whole`: whoever makes a slot without saving answers later, and whoever saves, saves all slots there are |
| `SlotsShown` | `ShownIsActive` | `HandsOn`: unless the API interfered, the slot the handler is about to choose is there, and the one it is about to delete is not the last, so the branches that leave `active_account_id` unsaved or on a slot that is gone are not taken |
| `SlotsAnswersLand` | `AnswerLandsWhereAsked` | `NoneAsked`: whenever the control bot changes what it shows, every open question of a screen is torn; when the application is built again none is open |
| `SlotsSend` | `SendsForItsSlot` | `LoopsOfSlots` adds to the settings that send those of any slot: they are not under another slot's name, so that starting them later is safe; a new object is in no loop, nor held by a call; a call that starts what it found before (`SpamStarted`) finds it under its slot or makes it stale |
| `SlotsNothingLeft` | `NothingLeftBehind` | `Apart`: calls that are on a slot together have crossed, a slot that is being deleted has no client, and a call is on a slot that is there or has crossed |

The lemmas `Apart...`, `ScreenStays`, `ToldStays` and `LoopsStay` say what a step must leave alone for each part of `IInv`; each action is
brought to them. `Kept` is a recursive function where `SelectSeq` would be as good for TLC: the library's `SelectSeq` is opaque to the
provers. Its values exist by induction on the prefixes (`SelectsExist`).

`Schedule_proofs`: for any finite set of chats, any finite sets of intervals, jitters, first delays and waits, any watched chats
and any number of changes, under `ScheduleAssumption` (no interval and no wait is zero; no jitter and no delay are among the choices).

| Theorem | Property | Argument |
|---|---|---|
| `ScheduleTimersFollow` | `TimersFollow` | `Follow`: it holds of chats that are off as well, and a timer that is a wait is no longer than what is left of the wait (`hold`), so it is due when the wait is over. `Queued`: the queue is an order of the chats that are due |
| `ScheduleSendsSpaced` | `SendsSpaced` | `Spaced`: as long as a delivery's pause is not over it is at least as old as the last send, and the timer falls due no earlier than the pause ends; only the delivery the loop is at may be unbooked. So a chat that is chosen, with no time left, owes nothing |
| `ScheduleWaitsKept` | `WaitsKept` | `Held`: a wait is within the chat's timer, or the timer was forgotten since |

Three kinds of steps are treated once: `Move` (the times of the settings stay), `SettleOf` (settings are replaced) and `Tick`; `MoveKeeps`
and `SettleKeeps` have the arithmetic, and an action has only to be brought to one of them. `Max` and `Min` choose a member, which is there because a
finite set of numbers has a bound (`FiniteBounded`) and a least bound is a member (`MaxOf`). The proof corrected the property: it took the longest pause
for the longest timer, but a first delay may be longer and goes on when another loop has sent to the chat meanwhile (`Longest`;
`Schedule.cfg` has such a delay now).

Only model-checked: liveness (`PollingDelivers`, `JobEnds`, `EveryChatGetsATurn`), which needs `ENABLED` of the fair actions. Every
invariant and every action property of the passing runs is a theorem. The two violated statements are of course not theorems.

## 7. Not modelled

The components with status `not_modelled` in `PROJECT.json`, with the reason for each: user
interface, HTTP forwarding, calls of Telethon, cookies and sliding windows of one actor, counters and lists for
display, and scripts run by hand. Of the components that are modelled in part, section 3 says for each module what it leaves out:
what is shown and worded, what only reads, and, as the behaviour that would most be worth adding, joining groups by link, the
blocking of accounts, changes of a bot's record by hand, and a restart of the site with open tunnels.
