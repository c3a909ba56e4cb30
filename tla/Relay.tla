------------------------------- MODULE Relay -------------------------------
(***************************************************************************)
(* How the site talks to a customer's bot: the pool with its one SSH       *)
(* tunnel, the requests that are sent again when they fail, the quota of a *)
(* trial account, which is counted on the bot before some of the requests  *)
(* that create a slot, and the cached overview that the dashboard shows.   *)
(*                                                                         *)
(* A call is a request of the panel or a background refresh, from await to *)
(* await.  The bot is another machine: what a call does there and what the *)
(* site learns of it are two steps, and the tunnel can break at any time.  *)
(***************************************************************************)
EXTENDS Naturals, FiniteSets

CONSTANTS
  Calls,       \* calls under way together
  NoCall,
  Slots,       \* ids of account slots
  NoSlot,
  Quota,       \* TRIAL_MAX_ACCOUNTS
  Retries,     \* SSH_TUNNEL_RETRIES
  MaxChanges,  \* bound: changes the customer asks for, on the site or by the control bot
  MaxLeaked    \* bound: forwards that fail on a new connection

ASSUME RelayAssumption ==
  /\ NoCall \notin Calls /\ NoSlot \notin Slots /\ IsFiniteSet(Calls) /\ IsFiniteSet(Slots)
  /\ Quota \in Nat \ {0} /\ Retries \in Nat \ {0}
  /\ MaxChanges \in Nat /\ MaxLeaked \in Nat

VARIABLES
  accounts, version,         \* the bot: its slots, the changes it has made
  pool, lock, open, leaked,  \* the entry of _TunnelPool, its lock, the open
                             \* connections, those that no entry holds
  call,                      \* the calls under way
  snap,                      \* the cached overview, in both caches
  asked,                     \* changes asked for
  \* History: the version the site has confirmed to somebody, and the one it has
  \* without dropping the cached overview; how many slots were created without a
  \* count; whether a count that let a call pass took an unreachable bot for an empty
  \* one, or was taken while another call had passed and not yet ended.
  acked, silent, extra, miscounted

bot     == <<accounts, version>>
tunnel  == <<pool, lock, open, leaked>>
confirmed == <<acked, silent>>
history == <<confirmed, extra, miscounted>>
vars    == <<bot, tunnel, call, snap, asked, history>>

Changes == {"add", "upload", "delete"}

\* The handler: _proxy, upload_session, _proxy_inviter_bot.
Routes == {"panel", "form", "inviter"}

\* What a call remembers: where it is, what it asks of which slot, by which route, the
\* tunnel it uses, the attempt, the answer; and, as history, whether the overview was
\* dropped since it began.
Idle == [at |-> "idle", kind |-> "overview", slot |-> NoSlot, route |-> "panel", via |-> "none",
         attempt |-> 1, ok |-> FALSE, v |-> 0, crossed |-> FALSE]
NoSnap == [held |-> FALSE, v |-> 0, fresh |-> FALSE, crossed |-> FALSE]

Goto(c, label) == call' = [call EXCEPT ![c].at = label]
End(c) == call' = [call EXCEPT ![c] = Idle]
\* An exception in an attempt: nothing of it is kept.
Fail(c, label) ==
  call' = [call EXCEPT ![c].at = label, ![c].via = "none", ![c].ok = FALSE, ![c].v = 0]

(***************************************************************************)
(* The quota                                                               *)
(***************************************************************************)
\* The requests that are counted: not an upload that takes the way of the proxy, and
\* nothing that comes from the inviter.
Counted(k, route) == (k = "add" /\ route = "panel") \/ (k = "upload" /\ route = "form")

\* Calls that were counted and may still create a slot.
Passed == {x \in Calls : Counted(call[x].kind, call[x].route)
                          /\ call[x].at \notin {"exists", "count"}}

\* account_ids_on_bot: what the bot answers, or nothing when it does not.
Answers == {[ids |-> accounts, missed |-> FALSE], [ids |-> {}, missed |-> TRUE]}

\* A request begins; the form only uploads.
Ask(c, k, s, route) ==
  /\ call[c] = Idle /\ asked < MaxChanges
  /\ route = "form" => k = "upload"
  /\ asked' = asked + 1
  /\ call' = [call EXCEPT ![c] = [Idle EXCEPT !.kind = k, !.slot = s, !.route = route,
                !.at = IF ~Counted(k, route) THEN "port"
                       ELSE IF k = "upload" THEN "exists" ELSE "count"]]
  /\ UNCHANGED <<bot, tunnel, snap, history>>

\* enforce_trial_account_limit, the look for a slot that is only replaced
LookForSlot(c) ==
  /\ call[c].at = "exists"
  /\ \E a \in Answers :
       IF call[c].slot \in a.ids
       THEN Goto(c, "port") /\ miscounted' = (miscounted \/ Passed # {})
       ELSE Goto(c, "count") /\ UNCHANGED miscounted
  /\ UNCHANGED <<bot, tunnel, snap, asked, confirmed, extra>>

\* A slip of CountAccounts: one account more than the quota.
CountAccountsLate(c) ==
  /\ call[c].at = "count"
  /\ \E a \in Answers :
       IF Cardinality(a.ids) > Quota
       THEN End(c) /\ UNCHANGED miscounted
       ELSE Goto(c, "port") /\ miscounted' = (miscounted \/ a.missed \/ Passed # {})
  /\ UNCHANGED <<bot, tunnel, snap, asked, confirmed, extra>>

\* enforce_trial_account_limit, count_owner_accounts: over the limit is refused.
CountAccounts(c) ==
  /\ call[c].at = "count"
  /\ \E a \in Answers :
       IF Cardinality(a.ids) >= Quota
       THEN End(c) /\ UNCHANGED miscounted
       ELSE Goto(c, "port") /\ miscounted' = (miscounted \/ a.missed \/ Passed # {})
  /\ UNCHANGED <<bot, tunnel, snap, asked, confirmed, extra>>

(***************************************************************************)
(* The tunnel                                                              *)
(***************************************************************************)
\* An entry whose connection is closed is as good as none.
Connected == pool \in {"live", "stuck"}
Disconnected == IF Connected THEN open - 1 ELSE open

\* Whoever was using the connection finds it closed; c goes to a label.
CutAll(c, label) ==
  call' = [x \in Calls |->
             [call[x] EXCEPT !.via = IF @ = "current" THEN "cut" ELSE @,
                             !.at = IF x = c THEN label ELSE @]]

\* A slip of PortFor: two calls open a connection each.
PortForUnlocked(c) ==
  /\ call[c].at = "port"
  /\ \/ /\ pool = "live"
        /\ call' = [call EXCEPT ![c].via = "current", ![c].at = "send"]
        /\ UNCHANGED tunnel
     \/ /\ pool # "live"
        /\ lock' = c /\ open' = Disconnected /\ pool' = "none"
        /\ CutAll(c, "open")
        /\ UNCHANGED leaked
  /\ UNCHANGED <<bot, snap, asked, history>>

\* port_for, up to the await of _open
PortFor(c) ==
  /\ call[c].at = "port" /\ lock = NoCall
  /\ \/ /\ pool = "live"
        /\ call' = [call EXCEPT ![c].via = "current", ![c].at = "send"]
        /\ UNCHANGED tunnel
     \/ /\ pool # "live"
        /\ lock' = c /\ open' = Disconnected /\ pool' = "none"
        /\ CutAll(c, "open")
        /\ UNCHANGED leaked
  /\ UNCHANGED <<bot, snap, asked, history>>

\* _open, and the rest of port_for
Opened(c) ==
  /\ call[c].at = "open"
  /\ open' = open + 1 /\ pool' = "live" /\ lock' = NoCall
  /\ call' = [call EXCEPT ![c].via = "current", ![c].at = "send"]
  /\ UNCHANGED <<bot, leaked, snap, asked, history>>

\* connect fails; or it works, forward_local_port fails, and nobody closes the
\* connection.
OpenFails(c) ==
  /\ call[c].at = "open" /\ lock' = NoCall
  /\ \/ UNCHANGED <<open, leaked>>
     \/ leaked < MaxLeaked /\ leaked' = leaked + 1 /\ open' = open + 1
  /\ Fail(c, "broken")
  /\ UNCHANGED <<bot, pool, snap, asked, history>>

\* invalidate pops and closes the entry that is there, whichever failed.
Invalidate(c) ==
  /\ call[c].at = "broken" /\ lock = NoCall
  /\ open' = Disconnected /\ pool' = "none"
  /\ CutAll(c, "again")
  /\ UNCHANGED <<bot, lock, leaked, snap, asked, history>>

\* The loop of _request_via_ssh; after the last attempt the caller gets an error.
Again(c) ==
  /\ call[c].at = "again"
  /\ \/ /\ call[c].attempt < Retries
        /\ call' = [call EXCEPT ![c].at = "port", ![c].attempt = @ + 1]
     \/ call[c].attempt = Retries /\ End(c)
  /\ UNCHANGED <<bot, tunnel, snap, asked, history>>

\* The connection dies, or its listener stops answering.
TunnelBreaks ==
  /\ pool = "live"
  /\ \/ pool' = "none" /\ open' = open - 1
     \/ pool' = "stuck" /\ UNCHANGED open
  /\ CutAll(NoCall, "none")
  /\ UNCHANGED <<bot, lock, leaked, snap, asked, history>>

(***************************************************************************)
(* A request and its answer                                                *)
(***************************************************************************)
\* What the bot does: a slot is added once, replaced by an upload, deleted
\* once; the second time it is a conflict, or not found.
Effect(c) ==
  CASE call[c].kind = "add"    -> [ok |-> call[c].slot \notin accounts,
                                   ids |-> accounts \cup {call[c].slot}]
    [] call[c].kind = "upload" -> [ok |-> TRUE, ids |-> accounts \cup {call[c].slot}]
    [] call[c].kind = "delete" -> [ok |-> call[c].slot \in accounts,
                                   ids |-> accounts \ {call[c].slot}]
    [] call[c].kind = "overview" -> [ok |-> FALSE, ids |-> accounts]

\* The request arrives at the bot, which carries it out and answers.
Reach(c) ==
  /\ call[c].at = "send" /\ call[c].via = "current"
  /\ accounts' = Effect(c).ids
  /\ version' = IF Effect(c).ok THEN version + 1 ELSE version
  /\ extra' = IF accounts' \subseteq accounts \/ Counted(call[c].kind, call[c].route)
              THEN extra ELSE extra + 1
  /\ call' = [call EXCEPT ![c].at = "answer", ![c].ok = Effect(c).ok, ![c].v = version']
  /\ UNCHANGED <<tunnel, snap, asked, confirmed, miscounted>>

\* The control bot adds or deletes a slot, and the site hears nothing of it.
ControlBot(s) ==
  /\ asked < MaxChanges /\ asked' = asked + 1
  /\ version' = version + 1
  /\ \/ s \notin accounts /\ accounts' = accounts \cup {s} /\ extra' = extra + 1
     \/ s \in accounts /\ accounts' = accounts \ {s} /\ UNCHANGED extra
  /\ UNCHANGED <<tunnel, call, snap, confirmed, miscounted>>

\* The request does not arrive.  Only an error of the connection closes the
\* tunnel (_ssh_tunnel_broken), one of the reading does not.
SendFails(c) ==
  /\ call[c].at = "send"
  /\ Fail(c, "broken") \/ Fail(c, "again")
  /\ UNCHANGED <<bot, tunnel, snap, asked, history>>

\* The bot has carried it out, and the answer does not arrive.
AnswerLost(c) ==
  /\ call[c].at = "answer"
  /\ Fail(c, "again")
  /\ UNCHANGED <<bot, tunnel, snap, asked, history>>

\* refresh_overviews_live: another call.  An overview that is being fetched is as it was.
Refresh(c) ==
  call' = [x \in Calls |->
             IF x = c THEN [Idle EXCEPT !.at = "port"]
             ELSE [call[x] EXCEPT !.crossed = call[x].kind = "overview" /\ call[x] # Idle]]

Latest(v, w) == IF v > w THEN v ELSE w

\* A slip of Dropped: the cached overview is left to its refresh.
DroppedNot == snap

\* invalidate_overview_cache
Dropped == NoSnap

\* A change that the bot confirms.  _proxy drops the overview and refreshes it;
\* upload_session and the inviter's proxy do neither.
DeliverChange(c) ==
  /\ call[c].at = "answer" /\ call[c].via = "current" /\ call[c].kind \in Changes
  /\ IF ~call[c].ok THEN End(c) /\ UNCHANGED <<snap, confirmed>>
     ELSE /\ acked' = Latest(call[c].v, acked)
          /\ \/ /\ call[c].route = "panel"
                /\ snap' = Dropped
                /\ Refresh(c)
                /\ UNCHANGED silent
             \/ /\ call[c].route # "panel"
                /\ silent' = Latest(call[c].v, silent)
                /\ End(c)
                /\ UNCHANGED snap
  /\ UNCHANGED <<bot, tunnel, asked, extra, miscounted>>

\* fetch_overview puts what it got into both caches.  The proxy's copy is as old
\* as the request, the one on disk as young as the answer.
DeliverOverview(c) ==
  /\ call[c].at = "answer" /\ call[c].via = "current" /\ call[c].kind = "overview"
  /\ \E fresh \in BOOLEAN :
       snap' = [held |-> TRUE, v |-> call[c].v, fresh |-> fresh, crossed |-> call[c].crossed]
  /\ End(c)
  /\ UNCHANGED <<bot, tunnel, asked, history>>

(***************************************************************************)
(* Reading the overview                                                    *)
(***************************************************************************)
\* dashboard, bot_overview and warm_bot: fetch_overview, unless the proxy's own
\* snapshot is new enough.
FetchOverview(c) ==
  /\ call[c] = Idle /\ ~snap.fresh
  /\ Goto(c, "port")
  /\ UNCHANGED <<bot, tunnel, snap, asked, history>>

\* OVERVIEW_CACHE_TTL; the snapshot is still shown.
Ages ==
  /\ snap.fresh
  /\ snap' = [snap EXCEPT !.fresh = FALSE]
  /\ UNCHANGED <<bot, tunnel, call, asked, history>>

(***************************************************************************)
(* Specification                                                           *)
(***************************************************************************)
Init ==
  /\ accounts \in {ids \in SUBSET Slots : Cardinality(ids) <= Quota} /\ version = 0
  /\ pool = "none" /\ lock = NoCall /\ open = 0 /\ leaked = 0
  /\ call = [c \in Calls |-> Idle]
  /\ snap = NoSnap /\ asked = 0
  /\ acked = 0 /\ silent = 0 /\ extra = 0 /\ miscounted = FALSE

\* The steps of a call that has begun.
Step(c) ==
  \/ LookForSlot(c) \/ CountAccounts(c)
  \/ PortFor(c) \/ Opened(c) \/ OpenFails(c) \/ Invalidate(c) \/ Again(c)
  \/ Reach(c) \/ SendFails(c) \/ AnswerLost(c) \/ DeliverChange(c) \/ DeliverOverview(c)

Next ==
  \/ \E c \in Calls, k \in Changes, s \in Slots, route \in Routes : Ask(c, k, s, route)
  \/ \E s \in Slots : ControlBot(s)
  \/ \E c \in Calls : Step(c) \/ FetchOverview(c)
  \/ TunnelBreaks \/ Ages

Spec == Init /\ [][Next]_vars

(***************************************************************************)
(* Properties                                                              *)
(***************************************************************************)
Labels == {"idle", "exists", "count", "port", "open", "send", "answer", "broken", "again"}
CallRec == [at : Labels, kind : Changes \cup {"overview"}, slot : Slots \cup {NoSlot},
            route : Routes, via : {"none", "current", "cut"}, attempt : 1 .. Retries, ok : BOOLEAN,
            v : Nat, crossed : BOOLEAN]

\* Types of the variables.
TypeOK ==
  /\ accounts \subseteq Slots /\ version \in Nat
  /\ pool \in {"none", "live", "stuck"} /\ lock \in Calls \cup {NoCall}
  /\ open \in Nat /\ leaked \in Nat
  /\ call \in [Calls -> CallRec]
  /\ snap \in [held : BOOLEAN, v : Nat, fresh : BOOLEAN, crossed : BOOLEAN]
  /\ asked \in Nat /\ acked \in Nat /\ silent \in Nat /\ extra \in Nat
  /\ miscounted \in BOOLEAN

\* The accounts are counted over the network before the slot is created, and a
\* request may be sent several times: still a trial passes its quota only by as many
\* accounts as were created without a count (by an upload through the proxy, from the
\* inviter, by the control bot), by requests made together, or by a bot that did not
\* answer and was counted as empty; deleting, replacing and retrying do not do it.
QuotaKept ==
  ~miscounted => Cardinality(accounts) <= Quota + extra

\* The lock of the pool: however requests fail, retry and invalidate each
\* other's tunnel, the open connections are the one of the entry and those that
\* a failed forward left behind; no entry is overwritten and forgotten.  (The types
\* are part of it.)
ConnectionsAccounted ==
  /\ TypeOK
  /\ open = leaked + (IF Connected THEN 1 ELSE 0)

\* The site shows an overview older than a change it confirmed only if this overview
\* was being fetched when the change was confirmed, or if it is also older than a change
\* confirmed by a handler that drops nothing (upload_session, the inviter's proxy): what
\* was cached at any other confirmation is gone.
StaleOnlyFromInFlight ==
  snap.held /\ snap.v < acked => snap.crossed \/ snap.v < silent
=============================================================================
