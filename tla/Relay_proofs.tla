---------------------------- MODULE Relay_proofs ----------------------------
(***************************************************************************)
(* The safety of Relay for any numbers of calls, slots and attempts: no    *)
(* connection is forgotten, a trial passes its quota by what is not        *)
(* counted only, and a stale overview was under way when the change was    *)
(* confirmed, or the change was confirmed without a drop.                  *)
(***************************************************************************)
EXTENDS Relay, FiniteSetTheorems, TLAPS

(***************************************************************************)
(* Types                                                                   *)
(***************************************************************************)
\* Records of a call, one field changed.
LEMMA CallRecAt ==
  ASSUME NEW r \in CallRec, NEW l \in Labels
  PROVE  [r EXCEPT !.at = l] \in CallRec
BY DEF CallRec

LEMMA CallRecVia ==
  ASSUME NEW r \in CallRec, NEW w \in {"none", "current", "cut"}
  PROVE  [r EXCEPT !.via = w] \in CallRec
BY DEF CallRec

LEMMA CallRecAttempt ==
  ASSUME NEW r \in CallRec, NEW n \in 1 .. Retries
  PROVE  [r EXCEPT !.attempt = n] \in CallRec
BY DEF CallRec

LEMMA CallRecOk ==
  ASSUME NEW r \in CallRec, NEW b \in BOOLEAN
  PROVE  [r EXCEPT !.ok = b] \in CallRec
BY DEF CallRec

LEMMA CallRecV ==
  ASSUME NEW r \in CallRec, NEW n \in Nat
  PROVE  [r EXCEPT !.v = n] \in CallRec
BY DEF CallRec

LEMMA CallRecCrossed ==
  ASSUME NEW r \in CallRec, NEW b \in BOOLEAN
  PROVE  [r EXCEPT !.crossed = b] \in CallRec
BY DEF CallRec

LEMMA IdleTyped == Idle \in CallRec
BY RelayAssumption DEF Idle, CallRec, Labels, Routes

LEMMA FailTyped ==
  ASSUME call \in [Calls -> CallRec], NEW c \in Calls, NEW l \in Labels, Fail(c, l)
  PROVE  call' \in [Calls -> CallRec]
<1> DEFINE r == [[[[call[c] EXCEPT !.at = l] EXCEPT !.via = "none"] EXCEPT !.ok = FALSE] EXCEPT !.v = 0]
<1>1. call[c] \in CallRec
  OBVIOUS
<1>2. [call[c] EXCEPT !.at = l] \in CallRec
  BY <1>1, CallRecAt
<1>3. [[call[c] EXCEPT !.at = l] EXCEPT !.via = "none"] \in CallRec
  BY <1>2, CallRecVia
<1>4. [[[call[c] EXCEPT !.at = l] EXCEPT !.via = "none"] EXCEPT !.ok = FALSE] \in CallRec
  BY <1>3, CallRecOk
<1>5. r \in CallRec
  BY <1>4, CallRecV
<1>6. call' = [call EXCEPT ![c] = r]
  BY DEF Fail
<1>7. QED
  BY <1>5, <1>6

LEMMA GotoTyped ==
  ASSUME call \in [Calls -> CallRec], NEW c \in Calls, NEW l \in Labels, Goto(c, l)
  PROVE  call' \in [Calls -> CallRec]
BY CallRecAt DEF Goto

LEMMA EndTyped ==
  ASSUME call \in [Calls -> CallRec], NEW c \in Calls, End(c)
  PROVE  call' \in [Calls -> CallRec]
BY IdleTyped DEF End

LEMMA CutTyped ==
  ASSUME call \in [Calls -> CallRec], NEW c \in Calls \cup {NoCall}, NEW l \in Labels, CutAll(c, l)
  PROVE  call' \in [Calls -> CallRec]
<1>1. ASSUME NEW x \in Calls
      PROVE  [call[x] EXCEPT !.via = IF @ = "current" THEN "cut" ELSE @,
                             !.at = IF x = c THEN l ELSE @] \in CallRec
  BY DEF CallRec
<1>2. QED
  BY <1>1 DEF CutAll

\* A connection that is opened, or found.
LEMMA SendTyped ==
  ASSUME call \in [Calls -> CallRec], NEW c \in Calls,
         call' = [call EXCEPT ![c].via = "current", ![c].at = "send"]
  PROVE  call' \in [Calls -> CallRec]
<1>1. [call[c] EXCEPT !.via = "current"] \in CallRec
  BY CallRecVia
<1>2. [[call[c] EXCEPT !.via = "current"] EXCEPT !.at = "send"] \in CallRec
  BY <1>1, CallRecAt DEF Labels
<1>3. QED
  BY <1>2

(***************************************************************************)
(* What is open                                                            *)
(***************************************************************************)
\* Who opens a connection has the lock of the pool, whose entry is gone.  (And
\* who asks for a change asks for one of a slot.)
OpenInv ==
  /\ TypeOK
  /\ open = leaked + (IF Connected THEN 1 ELSE 0)
  /\ \A c \in Calls : call[c].at = "open" => lock = c /\ pool = "none"
  /\ \A c \in Calls : call[c].kind # "overview" => call[c].slot \in Slots

LEMMA OpenInit == Init => OpenInv
<1> SUFFICES ASSUME Init PROVE OpenInv
  OBVIOUS
<1>1. call \in [Calls -> CallRec]
  BY IdleTyped DEF Init
<1>2. snap \in [held : BOOLEAN, v : Nat, fresh : BOOLEAN, crossed : BOOLEAN]
  BY DEF Init, NoSnap
<1>3. TypeOK
  BY <1>1, <1>2 DEF Init, TypeOK
<1>4. QED
  BY <1>3 DEF Init, OpenInv, Connected, Idle

\* The call x asks for what it asked for, or for nothing any more.
Follows(x) ==
  call'[x].kind # "overview" => call[x].kind # "overview" /\ call'[x].slot = call[x].slot

\* A step that leaves the tunnel alone, and lets nobody open a connection.
LEMMA KeepOpen ==
  ASSUME OpenInv, TypeOK', UNCHANGED tunnel,
         \A x \in Calls : (call'[x].at = "open" => call[x].at = "open") /\ Follows(x)
  PROVE  OpenInv'
BY DEF OpenInv, Connected, Follows, tunnel

LEMMA RefreshTyped ==
  ASSUME call \in [Calls -> CallRec], NEW c \in Calls, Refresh(c)
  PROVE  /\ call' \in [Calls -> CallRec]
         /\ \A x \in Calls : (call'[x].at = "open" => call[x].at = "open") /\ Follows(x)
<1>1. [Idle EXCEPT !.at = "port"] \in CallRec
  BY IdleTyped, CallRecAt DEF Labels
<1>2. ASSUME NEW x \in Calls
      PROVE  [call[x] EXCEPT !.crossed = call[x].kind = "overview" /\ call[x] # Idle] \in CallRec
  BY CallRecCrossed
<1>3. call' \in [Calls -> CallRec]
  BY <1>1, <1>2 DEF Refresh
<1>4. QED
  BY <1>3 DEF Refresh, CallRec, Idle, Follows

LEMMA CutFollows ==
  ASSUME call \in [Calls -> CallRec], NEW c \in Calls \cup {NoCall}, NEW l \in Labels, CutAll(c, l)
  PROVE  \A x \in Calls : /\ Follows(x)
                          /\ call'[x].at = IF x = c THEN l ELSE call[x].at
BY DEF CutAll, CallRec, Follows

LEMMA OpenStep == OpenInv /\ [Next]_vars => OpenInv'
<1> SUFFICES ASSUME OpenInv, [Next]_vars PROVE OpenInv'
  OBVIOUS
<1> USE DEF bot, tunnel, confirmed, history
<1>0. TypeOK /\ NoCall \notin Calls
  BY RelayAssumption DEF OpenInv
<1>1. ASSUME NEW c \in Calls, NEW k \in Changes, NEW s \in Slots, NEW route \in Routes, Ask(c, k, s, route)
      PROVE  OpenInv'
  <2> DEFINE l == IF ~Counted(k, route) THEN "port" ELSE IF k = "upload" THEN "exists" ELSE "count"
             r == [Idle EXCEPT !.kind = k, !.slot = s, !.route = route, !.at = l]
  <2>1. l \in Labels \ {"open"}
    BY DEF Labels, Changes
  <2>2. r \in CallRec /\ r.at = l /\ r.slot = s
    BY <2>1, IdleTyped DEF CallRec, Idle
  <2>3. call' = [call EXCEPT ![c] = r]
    BY <1>1 DEF Ask
  <2>4. call' \in [Calls -> CallRec]
    BY <1>0, <2>2, <2>3 DEF TypeOK
  <2>5. TypeOK'
    <3>1. UNCHANGED <<bot, tunnel, snap, history>> /\ asked' = asked + 1
      BY <1>1 DEF Ask
    <3>2. QED
      BY <1>0, <2>4, <3>1 DEF TypeOK
  <2>6. \A x \in Calls : x # c => call'[x] = call[x]
    BY <1>0, <2>3 DEF TypeOK
  <2>7. call'[c].at # "open" /\ call'[c].slot \in Slots
    BY <1>0, <2>1, <2>2, <2>3 DEF TypeOK
  <2>8. UNCHANGED tunnel
    BY <1>1 DEF Ask
  <2>9. QED
    BY <1>1, <2>5, <2>6, <2>7, <2>8 DEF OpenInv, Connected
<1>2. ASSUME NEW c \in Calls, LookForSlot(c) PROVE OpenInv'
  <2>1. Goto(c, "port") \/ Goto(c, "count")
    BY <1>2 DEF LookForSlot
  <2>2. call' \in [Calls -> CallRec]
    BY <1>0, <2>1, GotoTyped DEF TypeOK, Labels
  <2>3. miscounted' \in BOOLEAN
    BY <1>0, <1>2 DEF LookForSlot, TypeOK
  <2>4. TypeOK'
    BY <1>0, <1>2, <2>2, <2>3 DEF LookForSlot, TypeOK
  <2>5. \A x \in Calls : (call'[x].at = "open" => call[x].at = "open") /\ Follows(x)
    BY <1>0, <2>1 DEF Goto, TypeOK, CallRec, Follows
  <2>6. QED
    BY <1>2, <2>4, <2>5, KeepOpen DEF LookForSlot
<1>3. ASSUME NEW c \in Calls, CountAccounts(c) PROVE OpenInv'
  <2>1. Goto(c, "port") \/ End(c)
    BY <1>3 DEF CountAccounts
  <2>2. call' \in [Calls -> CallRec]
    BY <1>0, <2>1, GotoTyped, EndTyped DEF TypeOK, Labels
  <2>3. miscounted' \in BOOLEAN
    BY <1>0, <1>3 DEF CountAccounts, TypeOK, Answers
  <2>4. TypeOK'
    BY <1>0, <1>3, <2>2, <2>3 DEF CountAccounts, TypeOK
  <2>5. \A x \in Calls : (call'[x].at = "open" => call[x].at = "open") /\ Follows(x)
    BY <1>0, <2>1 DEF Goto, End, Idle, TypeOK, CallRec, Follows
  <2>6. QED
    BY <1>3, <2>4, <2>5, KeepOpen DEF CountAccounts
<1>4. ASSUME NEW c \in Calls, PortFor(c) PROVE OpenInv'
  <2>1. CASE pool = "live"
    <3>1. call' \in [Calls -> CallRec]
      BY <1>0, <1>4, <2>1, SendTyped DEF PortFor, TypeOK
    <3>2. TypeOK'
      BY <1>0, <1>4, <2>1, <3>1 DEF PortFor, TypeOK
    <3>3. \A x \in Calls : (call'[x].at = "open" => call[x].at = "open") /\ Follows(x)
      BY <1>0, <1>4, <2>1 DEF PortFor, TypeOK, CallRec, Follows
    <3>4. QED
      BY <1>4, <2>1, <3>2, <3>3, KeepOpen DEF PortFor
  <2>2. CASE pool # "live"
    <3>1. CutAll(c, "open")
      BY <1>4, <2>2 DEF PortFor
    <3>2. call' \in [Calls -> CallRec]
      BY <1>0, <3>1, CutTyped DEF TypeOK, Labels
    <3>3. \A x \in Calls : Follows(x) /\ call'[x].at = IF x = c THEN "open" ELSE call[x].at
      BY <1>0, <3>1, CutFollows DEF TypeOK, Labels
    <3>4. \A x \in Calls : call[x].at # "open"
      BY <1>0, <1>4 DEF PortFor, OpenInv
    <3>5. lock' = c /\ open' = Disconnected /\ pool' = "none" /\ leaked' = leaked
      BY <1>4, <2>2 DEF PortFor
    <3>6. TypeOK' /\ open' = leaked' /\ ~Connected'
      BY <1>0, <1>4, <3>2, <3>5 DEF PortFor, OpenInv, TypeOK, Connected, Disconnected
    <3>7. \A x \in Calls : call'[x].kind # "overview" => call'[x].slot \in Slots
      BY <3>3 DEF Follows, OpenInv
    <3>8. QED
      BY <1>0, <3>3, <3>4, <3>5, <3>6, <3>7 DEF OpenInv, TypeOK
  <2>3. QED
    BY <2>1, <2>2
<1>5. ASSUME NEW c \in Calls, Opened(c) PROVE OpenInv'
  <2>1. call' \in [Calls -> CallRec]
    BY <1>0, <1>5, SendTyped DEF Opened, TypeOK
  <2>2. QED
    BY <1>0, <1>5, <2>1 DEF Opened, OpenInv, TypeOK, Connected
<1>6. ASSUME NEW c \in Calls, OpenFails(c) PROVE OpenInv'
  <2>1. Fail(c, "broken")
    BY <1>6 DEF OpenFails
  <2>2. call' \in [Calls -> CallRec]
    BY <1>0, <2>1, FailTyped DEF TypeOK, Labels
  <2>3. QED
    BY <1>0, <1>6, <2>1, <2>2 DEF OpenFails, Fail, OpenInv, TypeOK, Connected
<1>7. ASSUME NEW c \in Calls, Invalidate(c) PROVE OpenInv'
  <2>1. CutAll(c, "again")
    BY <1>7 DEF Invalidate
  <2>2. call' \in [Calls -> CallRec]
    BY <1>0, <2>1, CutTyped DEF TypeOK, Labels
  <2>3. \A x \in Calls : Follows(x) /\ call'[x].at = IF x = c THEN "again" ELSE call[x].at
    BY <1>0, <2>1, CutFollows DEF TypeOK, Labels
  <2>4. TypeOK' /\ open' = leaked' + (IF Connected' THEN 1 ELSE 0)
    BY <1>0, <1>7, <2>2 DEF Invalidate, OpenInv, TypeOK, Connected, Disconnected
  <2>5. \A x \in Calls : call'[x].at # "open"
    BY <1>0, <1>7, <2>3 DEF Invalidate, OpenInv
  <2>6. \A x \in Calls : call'[x].kind # "overview" => call'[x].slot \in Slots
    BY <2>3 DEF Follows, OpenInv
  <2>7. QED
    BY <2>4, <2>5, <2>6 DEF OpenInv
<1>8. ASSUME NEW c \in Calls, Again(c) PROVE OpenInv'
  <2>1. CASE End(c)
    <3>1. call' \in [Calls -> CallRec]
      BY <1>0, <2>1, EndTyped DEF TypeOK
    <3>2. QED
      BY <1>0, <1>8, <2>1, <3>1 DEF Again, End, Idle, OpenInv, TypeOK, Connected
  <2>2. CASE ~End(c)
    <3>1. /\ call[c].attempt < Retries
          /\ call' = [call EXCEPT ![c].at = "port", ![c].attempt = @ + 1]
      BY <1>8, <2>2 DEF Again
    <3>2. call[c].attempt + 1 \in 1 .. Retries
      BY <1>0, <3>1, RelayAssumption DEF TypeOK, CallRec
    <3>3. [[call[c] EXCEPT !.at = "port"] EXCEPT !.attempt = call[c].attempt + 1] \in CallRec
      BY <1>0, <3>2, CallRecAt, CallRecAttempt DEF TypeOK, Labels
    <3>4. call' = [call EXCEPT ![c] = [[call[c] EXCEPT !.at = "port"] EXCEPT !.attempt = call[c].attempt + 1]]
      BY <1>0, <3>1 DEF TypeOK, CallRec
    <3>5. call' \in [Calls -> CallRec]
      BY <1>0, <3>3, <3>4 DEF TypeOK
    <3>6. QED
      BY <1>0, <1>8, <3>1, <3>5 DEF Again, OpenInv, TypeOK, Connected
  <2>3. QED
    BY <2>1, <2>2
<1>9. ASSUME NEW c \in Calls, Reach(c) PROVE OpenInv'
  <2>1. Effect(c).ok \in BOOLEAN /\ Effect(c).ids \subseteq Slots
    <3>1. call[c].kind \in {"add", "upload"} => call[c].slot \in Slots
      BY DEF OpenInv
    <3>2. call[c].kind \in {"add", "upload", "delete", "overview"} /\ accounts \subseteq Slots
      BY <1>0 DEF TypeOK, CallRec, Changes
    <3>3. CASE call[c].kind = "add"
      BY <3>1, <3>2, <3>3 DEF Effect
    <3>4. CASE call[c].kind = "upload"
      BY <3>1, <3>2, <3>4 DEF Effect
    <3>5. CASE call[c].kind = "delete"
      <4>1. Effect(c) = [ok |-> call[c].slot \in accounts, ids |-> accounts \ {call[c].slot}]
        BY <3>5 DEF Effect
      <4>2. Effect(c).ids = accounts \ {call[c].slot}
        BY <4>1
      <4>3. Effect(c).ok \in BOOLEAN
        BY <4>1
      <4>4. QED
        BY <3>2, <4>2, <4>3
    <3>6. CASE call[c].kind = "overview"
      BY <3>1, <3>2, <3>6 DEF Effect
    <3>7. QED
      BY <3>2, <3>3, <3>4, <3>5, <3>6
  <2>2. version' \in Nat
    BY <1>0, <1>9 DEF Reach, TypeOK
  <2>3. call' \in [Calls -> CallRec]
    BY <1>0, <1>9, <2>1, <2>2, CallRecAt, CallRecOk, CallRecV DEF Reach, TypeOK, Labels
  <2>4. QED
    <3>1. TypeOK'
      BY <1>0, <1>9, <2>1, <2>2, <2>3 DEF Reach, TypeOK
    <3>2. \A x \in Calls : (call'[x].at = "open" => call[x].at = "open") /\ Follows(x)
      BY <1>0, <1>9 DEF Reach, TypeOK, CallRec, Follows
    <3>3. QED
      BY <1>9, <3>1, <3>2, KeepOpen DEF Reach
<1>10. ASSUME NEW c \in Calls, SendFails(c) \/ AnswerLost(c) PROVE OpenInv'
  <2>1. Fail(c, "broken") \/ Fail(c, "again")
    BY <1>10 DEF SendFails, AnswerLost
  <2>2. call' \in [Calls -> CallRec]
    BY <1>0, <2>1, FailTyped DEF TypeOK, Labels
  <2>3. QED
    <3>1. TypeOK'
      BY <1>0, <1>10, <2>2 DEF SendFails, AnswerLost, TypeOK
    <3>2. \A x \in Calls : (call'[x].at = "open" => call[x].at = "open") /\ Follows(x)
      BY <1>0, <2>1 DEF Fail, TypeOK, CallRec, Follows
    <3>3. QED
      BY <1>10, <3>1, <3>2, KeepOpen DEF SendFails, AnswerLost
<1>11. ASSUME NEW c \in Calls, DeliverChange(c) PROVE OpenInv'
  <2>1. Refresh(c) \/ End(c)
    BY <1>11 DEF DeliverChange
  <2>2. call' \in [Calls -> CallRec] /\ \A x \in Calls :
          (call'[x].at = "open" => call[x].at = "open") /\ Follows(x)
    <3>1. CASE Refresh(c)
      BY <1>0, <3>1, RefreshTyped DEF TypeOK
    <3>2. CASE End(c)
      BY <1>0, <3>2, EndTyped DEF End, Idle, TypeOK, CallRec, Follows
    <3>3. QED
      BY <2>1, <3>1, <3>2
  <2>3. acked' \in Nat /\ silent' \in Nat
    BY <1>0, <1>11 DEF DeliverChange, Latest, TypeOK, CallRec
  <2>4. snap' = snap \/ snap' = NoSnap
    BY <1>11 DEF DeliverChange, Dropped
  <2>5. TypeOK'
    <3>1. UNCHANGED <<bot, tunnel, asked, extra, miscounted>>
      BY <1>11 DEF DeliverChange
    <3>2. snap' \in [held : BOOLEAN, v : Nat, fresh : BOOLEAN, crossed : BOOLEAN]
      <4>1. NoSnap \in [held : BOOLEAN, v : Nat, fresh : BOOLEAN, crossed : BOOLEAN]
        BY DEF NoSnap
      <4>2. snap \in [held : BOOLEAN, v : Nat, fresh : BOOLEAN, crossed : BOOLEAN]
        BY <1>0 DEF TypeOK
      <4>3. QED
        BY <2>4, <4>1, <4>2
    <3>3. QED
      BY <1>0, <2>2, <2>3, <3>1, <3>2 DEF TypeOK
  <2>6. QED
    BY <1>11, <2>2, <2>5, KeepOpen DEF DeliverChange
<1>12. ASSUME NEW c \in Calls, DeliverOverview(c) PROVE OpenInv'
  <2>1. call' \in [Calls -> CallRec]
    BY <1>0, <1>12, EndTyped DEF DeliverOverview, TypeOK
  <2>2. snap' \in [held : BOOLEAN, v : Nat, fresh : BOOLEAN, crossed : BOOLEAN]
    BY <1>0, <1>12 DEF DeliverOverview, TypeOK, CallRec
  <2>3. QED
    BY <1>0, <1>12, <2>1, <2>2 DEF DeliverOverview, End, Idle, OpenInv, TypeOK, Connected
<1>13. ASSUME NEW c \in Calls, FetchOverview(c) PROVE OpenInv'
  <2>1. call' \in [Calls -> CallRec]
    BY <1>0, <1>13, GotoTyped DEF FetchOverview, TypeOK, Labels
  <2>2. QED
    BY <1>0, <1>13, <2>1 DEF FetchOverview, Goto, OpenInv, TypeOK, Connected
<1>14. CASE TunnelBreaks
  <2>1. CutAll(NoCall, "none")
    BY <1>14 DEF TunnelBreaks
  <2>2. \A x \in Calls : call'[x] = [call[x] EXCEPT !.via = IF @ = "current" THEN "cut" ELSE @]
    BY <1>0, <2>1 DEF CutAll, TypeOK, CallRec
  <2>3. call' \in [Calls -> CallRec]
    <3>1. ASSUME NEW x \in Calls PROVE call'[x] \in CallRec
      <4>1. call[x] \in CallRec
        BY <1>0 DEF TypeOK
      <4>2. (IF call[x].via = "current" THEN "cut" ELSE call[x].via) \in {"none", "current", "cut"}
        BY <4>1 DEF CallRec
      <4>3. QED
        BY <2>2, <4>1, <4>2, CallRecVia
    <3>2. QED
      BY <2>1, <3>1 DEF CutAll
  <2>4. \A x \in Calls : call'[x].at = call[x].at
    BY <1>0, <2>2 DEF TypeOK, CallRec
  <2>5. TypeOK' /\ open' = leaked' + (IF Connected' THEN 1 ELSE 0)
    BY <1>0, <1>14, <2>3 DEF TunnelBreaks, OpenInv, TypeOK, Connected
  <2>6. \A x \in Calls : call'[x].at # "open"
    BY <1>14, <2>4 DEF TunnelBreaks, OpenInv
  <2>7. ASSUME NEW x \in Calls, call'[x].kind # "overview" PROVE call'[x].slot \in Slots
    <3>1. call[x] \in CallRec
      BY <1>0 DEF TypeOK
    <3>2. call'[x].kind = call[x].kind /\ call'[x].slot = call[x].slot
      BY <2>2, <3>1 DEF CallRec
    <3>3. QED
      BY <2>7, <3>2 DEF OpenInv
  <2>8. QED
    BY <2>5, <2>6, <2>7 DEF OpenInv
<1>15. CASE Ages
  <2>1. snap' \in [held : BOOLEAN, v : Nat, fresh : BOOLEAN, crossed : BOOLEAN]
    BY <1>0, <1>15 DEF Ages, TypeOK
  <2>2. QED
    BY <1>0, <1>15, <2>1 DEF Ages, OpenInv, TypeOK, Connected
<1>16. CASE UNCHANGED vars
  BY <1>16 DEF vars, OpenInv, TypeOK, Connected
<1>17. ASSUME NEW s \in Slots, ControlBot(s) PROVE OpenInv'
  BY <1>0, <1>17 DEF ControlBot, OpenInv, TypeOK, Connected
<1>18. QED
  BY <1>17, <1>1, <1>2, <1>3, <1>4, <1>5, <1>6, <1>7, <1>8, <1>9, <1>10, <1>11, <1>12, <1>13, <1>14,
     <1>15, <1>16 DEF Next, Step

\* For any numbers of calls, slots and attempts: however requests fail, retry and
\* invalidate each other's tunnel, the open connections are the one of the entry
\* and those a failed forward left behind.
THEOREM RelayAccountsForConnections == Spec => []ConnectionsAccounted
<1>1. Spec => []OpenInv
  BY OpenInit, OpenStep, PTL DEF Spec
<1>2. OpenInv => ConnectionsAccounted
  BY DEF OpenInv, ConnectionsAccounted
<1>3. QED
  BY <1>1, <1>2, PTL

(***************************************************************************)
(* The quota                                                               *)
(***************************************************************************)
\* As long as every count was true and none was taken while another call had
\* passed: at most one call has, and there is room for its slot.  What is created
\* without a count makes its own room.
RoomInv ==
  ~miscounted =>
    /\ Cardinality(accounts) <= Quota + extra
    /\ \A x, y \in Passed : x = y
    /\ \A x \in Passed : Cardinality(accounts \cup {call[x].slot}) <= Quota + extra

LEMMA KeepRoom ==
  ASSUME RoomInv, UNCHANGED <<accounts, extra, miscounted>>,
         \A x \in Passed' : x \in Passed /\ call'[x].slot = call[x].slot
  PROVE  RoomInv'
BY DEF RoomInv

\* Fewer accounts are not too many.
LEMMA RoomForFewer ==
  ASSUME NEW S \in SUBSET Slots, NEW R \in SUBSET S, NEW n \in Nat, Cardinality(S) <= n
  PROVE  Cardinality(R) <= n
<1>1. IsFiniteSet(S)
  BY RelayAssumption, FS_Subset
<1>2. Cardinality(R) <= Cardinality(S) /\ Cardinality(R) \in Nat /\ Cardinality(S) \in Nat
  BY <1>1, FS_Subset, FS_CardinalityType
<1>3. QED
  BY <1>2

\* One element more is at most one account more.
LEMMA OneMore ==
  ASSUME NEW S, NEW e, IsFiniteSet(S)
  PROVE  Cardinality(S \cup {e}) \in 0 .. Cardinality(S) + 1
<1>1. Cardinality(S) \in Nat
  BY FS_CardinalityType
<1>2. CASE e \in S
  <2>1. S \cup {e} = S
    BY <1>2
  <2>2. Cardinality(S \cup {e}) = Cardinality(S)
    BY <2>1
  <2>3. QED
    BY <1>1, <2>2
<1>3. CASE e \notin S
  <2>1. Cardinality(S \cup {e}) = Cardinality(S) + 1
    BY <1>3, FS_AddElement
  <2>2. QED
    BY <1>1, <2>1
<1>4. QED
  BY <1>2, <1>3

LEMMA RoomInit == Init => RoomInv
<1> SUFFICES ASSUME Init PROVE RoomInv
  OBVIOUS
<1>1. Passed = {}
  BY DEF Init, Passed, Idle, Counted
<1>2. Cardinality(accounts) <= Quota /\ extra = 0
  BY DEF Init
<1>3. Cardinality(accounts) <= Quota + extra
  <2>1. accounts \subseteq Slots
    BY DEF Init
  <2>2. Cardinality(accounts) \in Nat
    BY <2>1, RelayAssumption, FS_Subset, FS_CardinalityType
  <2>3. QED
    BY <1>2, <2>2, RelayAssumption
<1>4. QED
  BY <1>1, <1>3 DEF RoomInv

\* What is deleted leaves the room that was.
LEMMA FewerKeep ==
  ASSUME OpenInv, RoomInv, accounts' \subseteq accounts, UNCHANGED <<extra, miscounted>>,
         Passed' \subseteq Passed, \A x \in Calls : call'[x].slot = call[x].slot
  PROVE  RoomInv'
<1>1. SUFFICES ASSUME ~miscounted PROVE RoomInv'
  BY DEF RoomInv
<1>2. accounts \subseteq Slots /\ Quota + extra \in Nat
  BY RelayAssumption DEF OpenInv, TypeOK
<1>3. Cardinality(accounts') <= Quota + extra
  BY <1>1, <1>2, RoomForFewer DEF RoomInv
<1>4. ASSUME NEW x \in Passed' PROVE Cardinality(accounts' \cup {call[x].slot}) <= Quota + extra
  <2>1. x \in Passed /\ x \in Calls /\ call[x].kind # "overview"
    BY <1>4 DEF Passed, Counted
  <2>2. accounts \cup {call[x].slot} \subseteq Slots
    BY <1>2, <2>1 DEF OpenInv
  <2>3. Cardinality(accounts \cup {call[x].slot}) <= Quota + extra
    BY <1>1, <2>1 DEF RoomInv
  <2>4. accounts' \cup {call[x].slot} \subseteq accounts \cup {call[x].slot}
    OBVIOUS
  <2>5. QED
    BY <1>2, <2>2, <2>3, <2>4, RoomForFewer
<1>5. \A x \in Passed' : x \in Calls
  BY DEF Passed
<1>6. QED
  BY <1>1, <1>3, <1>4, <1>5 DEF RoomInv

\* What is created without a count makes its own.
LEMMA MoreKeep ==
  ASSUME OpenInv, RoomInv, NEW s \in Slots, accounts' = accounts \cup {s}, extra' = extra + 1,
         UNCHANGED miscounted,
         Passed' \subseteq Passed, \A x \in Calls : call'[x].slot = call[x].slot
  PROVE  RoomInv'
<1>1. SUFFICES ASSUME ~miscounted PROVE RoomInv'
  BY DEF RoomInv
<1>2. accounts \subseteq Slots /\ Quota \in Nat /\ extra \in Nat /\ IsFiniteSet(accounts)
  BY RelayAssumption, FS_Subset DEF OpenInv, TypeOK
<1>3. Cardinality(accounts') <= Quota + extra'
  <2>1. Cardinality(accounts) \in Nat /\ Cardinality(accounts) <= Quota + extra
    BY <1>1, <1>2, FS_CardinalityType DEF RoomInv
  <2>2. Cardinality(accounts') \in 0 .. Cardinality(accounts) + 1
    BY <1>2, OneMore
  <2>3. QED
    BY <1>2, <2>1, <2>2
<1>4. ASSUME NEW x \in Passed' PROVE Cardinality(accounts' \cup {call[x].slot}) <= Quota + extra'
  <2> DEFINE room == accounts \cup {call[x].slot}
  <2>1. IsFiniteSet(room)
    BY <1>2, FS_AddElement
  <2>2. Cardinality(room) \in Nat /\ Cardinality(room) <= Quota + extra
    BY <1>1, <1>4, <2>1, FS_CardinalityType DEF RoomInv
  <2>3. accounts' \cup {call[x].slot} = room \cup {s}
    OBVIOUS
  <2>4. Cardinality(room \cup {s}) \in 0 .. Cardinality(room) + 1
    BY <2>1, OneMore
  <2> HIDE DEF room
  <2>5. Cardinality(room \cup {s}) <= Quota + extra'
    BY <1>2, <2>2, <2>4
  <2>6. QED
    BY <2>3, <2>5
<1>5. \A x \in Passed' : x \in Calls
  BY DEF Passed
<1>6. QED
  BY <1>1, <1>3, <1>4, <1>5 DEF RoomInv

LEMMA RoomStep == OpenInv /\ RoomInv /\ [Next]_vars => RoomInv'
<1> SUFFICES ASSUME OpenInv, RoomInv, [Next]_vars PROVE RoomInv'
  OBVIOUS
<1> USE DEF bot, tunnel, confirmed, history
<1>0. call \in [Calls -> CallRec] /\ accounts \subseteq Slots /\ extra \in Nat
  BY DEF OpenInv, TypeOK
<1>1. ASSUME NEW c \in Calls, NEW k \in Changes, NEW s \in Slots, NEW route \in Routes, Ask(c, k, s, route)
      PROVE  RoomInv'
  <2>1. c \notin Passed'
    BY <1>0, <1>1 DEF Ask, Passed, Changes, Idle, Counted
  <2>2. \A x \in Calls : x # c => call'[x] = call[x]
    BY <1>0, <1>1 DEF Ask
  <2>3. QED
    BY <1>1, <2>1, <2>2, KeepRoom DEF Ask, Passed
<1>2. ASSUME NEW c \in Calls, LookForSlot(c) PROVE RoomInv'
  <2>1. c \notin Passed
    BY <1>2 DEF LookForSlot, Passed
  <2>2. PICK a \in Answers :
          IF call[c].slot \in a.ids
          THEN Goto(c, "port") /\ miscounted' = (miscounted \/ Passed # {})
          ELSE Goto(c, "count") /\ UNCHANGED miscounted
    BY <1>2 DEF LookForSlot
  <2>3. UNCHANGED <<accounts, extra>>
    BY <1>2 DEF LookForSlot
  <2>4. \A x \in Calls : x # c => call'[x] = call[x]
    BY <1>0, <2>2 DEF Goto
  <2>5. CASE call[c].slot \in a.ids
    <3>1. SUFFICES ASSUME ~miscounted, Passed = {}
                   PROVE  RoomInv'
      BY <2>2, <2>3, <2>5 DEF RoomInv
    <3>2. a.ids \subseteq accounts
      BY DEF Answers
    <3>3. accounts \cup {call[c].slot} = accounts
      BY <2>5, <3>2
    <3>4. Passed' \subseteq {c}
      BY <2>4, <3>1 DEF Passed
    <3>5. call'[c].slot = call[c].slot
      BY <1>0, <2>2 DEF Goto, CallRec
    <3>6. QED
      BY <2>3, <3>1, <3>3, <3>4, <3>5 DEF RoomInv
  <2>6. CASE call[c].slot \notin a.ids
    <3>1. call'[c].at = "count"
      BY <1>0, <2>2, <2>6 DEF Goto, CallRec
    <3>2. c \notin Passed'
      BY <3>1 DEF Passed
    <3>3. QED
      BY <2>2, <2>3, <2>4, <2>6, <3>2, KeepRoom DEF Passed
  <2>7. QED
    BY <2>5, <2>6
<1>3. ASSUME NEW c \in Calls, CountAccounts(c) PROVE RoomInv'
  <2>1. PICK a \in Answers :
          IF Cardinality(a.ids) >= Quota
          THEN End(c) /\ UNCHANGED miscounted
          ELSE Goto(c, "port") /\ miscounted' = (miscounted \/ a.missed \/ Passed # {})
    BY <1>3 DEF CountAccounts
  <2>2. UNCHANGED <<accounts, extra>>
    BY <1>3 DEF CountAccounts
  <2>3. \A x \in Calls : x # c => call'[x] = call[x]
    BY <1>0, <2>1 DEF Goto, End
  <2>4. CASE Cardinality(a.ids) >= Quota
    <3>1. c \notin Passed'
      BY <1>0, <2>1, <2>4 DEF End, Idle, Passed, Counted
    <3>2. QED
      BY <2>1, <2>2, <2>3, <2>4, <3>1, KeepRoom DEF Passed
  <2>5. CASE ~(Cardinality(a.ids) >= Quota)
    <3>1. SUFFICES ASSUME ~miscounted, ~a.missed, Passed = {}
                   PROVE  RoomInv'
      BY <2>1, <2>2, <2>5 DEF RoomInv
    <3>2. a.ids = accounts
      BY <3>1 DEF Answers
    <3>3. Passed' \subseteq {c}
      BY <2>3, <3>1 DEF Passed
    <3>4. call'[c].slot = call[c].slot
      BY <1>0, <2>1, <2>5 DEF Goto, CallRec
    <3>5. Cardinality(accounts \cup {call[c].slot}) <= Quota + extra
      <4>1. IsFiniteSet(accounts)
        BY <1>0, RelayAssumption, FS_Subset
      <4>2. Cardinality(accounts) \in Nat /\ Cardinality(accounts) < Quota
        BY <2>5, <3>2, <4>1, FS_CardinalityType, RelayAssumption
      <4>3. Cardinality(accounts \cup {call[c].slot}) \in 0 .. Cardinality(accounts) + 1
        BY <4>1, OneMore
      <4>4. QED
        BY <1>0, <4>2, <4>3, RelayAssumption
    <3>6. QED
      BY <2>2, <3>1, <3>3, <3>4, <3>5 DEF RoomInv
  <2>6. QED
    BY <2>4, <2>5
<1>4. ASSUME NEW c \in Calls, Reach(c) PROVE RoomInv'
  <2>1. \A x \in Calls : /\ call'[x].kind = call[x].kind /\ call'[x].slot = call[x].slot
                          /\ call'[x].route = call[x].route
    BY <1>0, <1>4 DEF Reach, CallRec
  <2>2. \A x \in Calls : x # c => call'[x] = call[x]
    BY <1>0, <1>4 DEF Reach
  <2>3. Passed' \subseteq Passed
    BY <1>4, <2>1, <2>2 DEF Passed, Reach
  <2>4. /\ accounts' = Effect(c).ids /\ UNCHANGED miscounted
        /\ extra' = IF accounts' \subseteq accounts \/ Counted(call[c].kind, call[c].route)
                    THEN extra ELSE extra + 1
    BY <1>4 DEF Reach
  <2>5. CASE accounts' \subseteq accounts
    BY <1>0, <2>1, <2>3, <2>4, <2>5, FewerKeep
  <2>6. CASE Counted(call[c].kind, call[c].route) /\ ~(accounts' \subseteq accounts)
    <3>1. c \in Passed
      BY <1>4, <2>6 DEF Reach, Passed
    <3>2. accounts' = accounts \cup {call[c].slot}
      BY <1>0, <2>4, <2>6 DEF Effect, Counted, Routes, Changes, CallRec
    <3>3. extra' = extra
      BY <2>4, <2>6
    <3>4. SUFFICES ASSUME ~miscounted PROVE RoomInv'
      BY <2>4 DEF RoomInv
    <3>5. \A x \in Passed' : x = c
      BY <2>3, <3>1, <3>4 DEF RoomInv
    <3>6. Cardinality(accounts') <= Quota + extra'
      BY <3>1, <3>2, <3>3, <3>4 DEF RoomInv
    <3>7. accounts' \cup {call'[c].slot} = accounts'
      BY <2>1, <3>2
    <3>8. QED
      BY <3>5, <3>6, <3>7 DEF RoomInv
  <2>7. CASE ~Counted(call[c].kind, call[c].route) /\ ~(accounts' \subseteq accounts)
    <3>1. accounts' = accounts \cup {call[c].slot}
      BY <1>0, <2>4, <2>7 DEF Effect, Changes, CallRec
    <3>2. extra' = extra + 1
      BY <2>4, <2>7
    <3>3. call[c].slot \in Slots
      <4>1. call[c].kind # "overview"
        BY <2>4, <2>7 DEF Effect
      <4>2. QED
        BY <4>1 DEF OpenInv
    <3>4. QED
      BY <1>0, <2>1, <2>3, <2>4, <3>1, <3>2, <3>3, MoreKeep
  <2>8. QED
    BY <2>5, <2>6, <2>7
<1>4a. ASSUME NEW s \in Slots, ControlBot(s) PROVE RoomInv'
  <2>1. UNCHANGED <<call, miscounted>>
    BY <1>4a DEF ControlBot
  <2>2. Passed' = Passed
    BY <2>1 DEF Passed
  <2>3. CASE accounts' = accounts \cup {s} /\ extra' = extra + 1
    BY <1>0, <2>1, <2>2, <2>3, MoreKeep
  <2>4. CASE accounts' = accounts \ {s} /\ UNCHANGED extra
    BY <1>0, <2>1, <2>2, <2>4, FewerKeep
  <2>5. QED
    BY <1>4a, <2>3, <2>4 DEF ControlBot
\* The other steps create nothing, and let nobody pass.
<1>5. ASSUME NEW c \in Calls, PortFor(c) PROVE RoomInv'
  <2>1. \A x \in Passed' : x \in Passed /\ call'[x].slot = call[x].slot
    <3>1. CASE pool = "live"
      BY <1>0, <1>5, <3>1 DEF PortFor, CallRec, Passed
    <3>2. CASE pool # "live"
      <4>1. CutAll(c, "open") /\ call[c].at = "port"
        BY <1>5, <3>2 DEF PortFor
      <4>2. QED
        BY <1>0, <4>1 DEF CutAll, CallRec, Passed
    <3>3. QED
      BY <3>1, <3>2
  <2>2. QED
    BY <1>5, <2>1, KeepRoom DEF PortFor
<1>6. ASSUME NEW c \in Calls, Opened(c) PROVE RoomInv'
  <2>1. \A x \in Passed' : x \in Passed /\ call'[x].slot = call[x].slot
    BY <1>0, <1>6 DEF Opened, CallRec, Passed
  <2>2. QED
    BY <1>6, <2>1, KeepRoom DEF Opened
<1>7. ASSUME NEW c \in Calls, OpenFails(c) PROVE RoomInv'
  <2>1. \A x \in Passed' : x \in Passed /\ call'[x].slot = call[x].slot
    BY <1>0, <1>7 DEF OpenFails, Fail, CallRec, Passed
  <2>2. QED
    BY <1>7, <2>1, KeepRoom DEF OpenFails
<1>8. ASSUME NEW c \in Calls, Invalidate(c) PROVE RoomInv'
  <2>1. \A x \in Passed' : x \in Passed /\ call'[x].slot = call[x].slot
    BY <1>0, <1>8 DEF Invalidate, CutAll, CallRec, Passed
  <2>2. QED
    BY <1>8, <2>1, KeepRoom DEF Invalidate
<1>9. ASSUME NEW c \in Calls, Again(c) PROVE RoomInv'
  <2>1. \A x \in Passed' : x \in Passed /\ call'[x].slot = call[x].slot
    BY <1>0, <1>9 DEF Again, End, Idle, CallRec, Passed, Counted
  <2>2. QED
    BY <1>9, <2>1, KeepRoom DEF Again
<1>10. ASSUME NEW c \in Calls, SendFails(c) \/ AnswerLost(c) PROVE RoomInv'
  <2>1. \A x \in Passed' : x \in Passed /\ call'[x].slot = call[x].slot
    BY <1>0, <1>10 DEF SendFails, AnswerLost, Fail, CallRec, Passed
  <2>2. QED
    BY <1>10, <2>1, KeepRoom DEF SendFails, AnswerLost
<1>11. ASSUME NEW c \in Calls, DeliverChange(c) PROVE RoomInv'
  <2>1. \A x \in Passed' : x \in Passed /\ call'[x].slot = call[x].slot
    BY <1>0, <1>11 DEF DeliverChange, Refresh, End, Idle, CallRec, Passed, Counted
  <2>2. QED
    BY <1>11, <2>1, KeepRoom DEF DeliverChange
<1>12. ASSUME NEW c \in Calls, DeliverOverview(c) \/ FetchOverview(c) PROVE RoomInv'
  <2>1. \A x \in Passed' : x \in Passed /\ call'[x].slot = call[x].slot
    BY <1>0, <1>12 DEF DeliverOverview, FetchOverview, Goto, End, Idle, CallRec, Passed, Counted
  <2>2. QED
    BY <1>12, <2>1, KeepRoom DEF DeliverOverview, FetchOverview
<1>13. CASE TunnelBreaks
  <2>1. \A x \in Passed' : x \in Passed /\ call'[x].slot = call[x].slot
    BY <1>0, <1>13, RelayAssumption DEF TunnelBreaks, CutAll, CallRec, Passed
  <2>2. QED
    BY <1>13, <2>1, KeepRoom DEF TunnelBreaks
<1>14. CASE Ages \/ UNCHANGED vars
  BY <1>14 DEF Ages, vars, RoomInv, Passed
<1>15. QED
  BY <1>1, <1>2, <1>3, <1>4, <1>4a, <1>5, <1>6, <1>7, <1>8, <1>9, <1>10, <1>11, <1>12, <1>13,
     <1>14 DEF Next, Step

\* The accounts are counted over the network before the slot is created, and a
\* request may be sent several times: a trial passes its quota only by as many accounts
\* as were created without a count, by requests made together, or by a bot that did not
\* answer.
THEOREM RelayKeepsQuota == Spec => []QuotaKept
<1>1. Spec => [](OpenInv /\ RoomInv)
  BY OpenInit, OpenStep, RoomInit, RoomStep, PTL DEF Spec
<1>2. RoomInv => QuotaKept
  BY DEF RoomInv, QuotaKept
<1>3. QED
  BY <1>1, <1>2, PTL

(***************************************************************************)
(* The overview                                                            *)
(***************************************************************************)
\* The site confirms no more than the bot has done; and an answer on its way,
\* like a snapshot that is held, is older than what was confirmed only if it was
\* on its way at the confirmation, or is older than a change confirmed silently.
StaleInv ==
  /\ acked <= version
  /\ \A x \in Calls : call[x].at = "answer" =>
       /\ call[x].v <= version
       /\ call[x].kind = "overview" /\ call[x].v < acked => call[x].crossed \/ call[x].v < silent
  /\ StaleOnlyFromInFlight

\* Who waits for an answer after the step has waited before, for the same.
SameAnswers ==
  \A x \in Calls : call'[x].at = "answer" =>
    /\ call[x].at = "answer" /\ call'[x].kind = call[x].kind
    /\ call'[x].v = call[x].v /\ call'[x].crossed = call[x].crossed

LEMMA KeepStale ==
  ASSUME StaleInv, SameAnswers, UNCHANGED <<version, confirmed, snap>>
  PROVE  StaleInv'
BY DEF StaleInv, SameAnswers, StaleOnlyFromInFlight, confirmed

LEMMA StaleInit == Init => StaleInv
BY DEF Init, StaleInv, StaleOnlyFromInFlight, Idle, NoSnap

LEMMA StaleStep == OpenInv /\ StaleInv /\ [Next]_vars => StaleInv'
<1> SUFFICES ASSUME OpenInv, StaleInv, [Next]_vars PROVE StaleInv'
  OBVIOUS
<1> USE DEF bot, tunnel, confirmed, history
<1>0. call \in [Calls -> CallRec] /\ version \in Nat /\ acked \in Nat /\ silent \in Nat /\ NoCall \notin Calls
  BY RelayAssumption DEF OpenInv, TypeOK
\* What the bot answers is what it has done by now.
<1>1. ASSUME NEW c \in Calls, Reach(c) PROVE StaleInv'
  <2>1. version' \in Nat /\ version' >= version
    BY <1>0, <1>1 DEF Reach
  <2>2. call'[c].v = version'
    BY <1>0, <1>1 DEF Reach, CallRec
  <2>3. \A x \in Calls : x # c => call'[x] = call[x]
    BY <1>0, <1>1 DEF Reach
  <2>4. acked' = acked /\ silent' = silent /\ snap' = snap
    BY <1>1 DEF Reach
  <2>5. acked' <= version'
    BY <1>0, <2>1, <2>4 DEF StaleInv
  <2>6. ASSUME NEW x \in Calls, call'[x].at = "answer"
        PROVE  /\ call'[x].v <= version'
               /\ call'[x].kind = "overview" /\ call'[x].v < acked'
                    => call'[x].crossed \/ call'[x].v < silent'
    <3>1. CASE x = c
      BY <1>0, <2>1, <2>2, <2>4, <2>5, <3>1
    <3>2. CASE x # c
      <4>1. call'[x] = call[x] /\ call[x].v \in Nat
        BY <1>0, <2>3, <3>2 DEF CallRec
      <4>2. call[x].v <= version
        BY <2>6, <4>1 DEF StaleInv
      <4>3. call[x].v <= version'
        BY <1>0, <2>1, <4>1, <4>2
      <4>4. QED
        BY <2>4, <2>6, <4>1, <4>3 DEF StaleInv
    <3>3. QED
      BY <3>1, <3>2
  <2>7. QED
    BY <2>4, <2>5, <2>6 DEF StaleInv, StaleOnlyFromInFlight
\* A confirmation drops the snapshot, and marks the overviews under way.
<1>2. ASSUME NEW c \in Calls, DeliverChange(c) PROVE StaleInv'
  <2>0. call[c].v \in Nat /\ call[c].v <= version /\ version' = version
    BY <1>0, <1>2 DEF DeliverChange, StaleInv, CallRec
  <2>1. CASE call[c].ok /\ call[c].route = "panel"
    <3>1. snap' = NoSnap /\ acked' = Latest(call[c].v, acked) /\ silent' = silent /\ Refresh(c)
      BY <1>2, <2>1 DEF DeliverChange, Dropped
    <3>2. acked' <= version'
      BY <1>0, <2>0, <3>1 DEF StaleInv, Latest
    <3>3. ASSUME NEW x \in Calls, call'[x].at = "answer"
          PROVE  /\ call'[x].v <= version'
                 /\ call'[x].kind = "overview" => call'[x].crossed
      <4>1. x # c
        BY <3>1, <3>3 DEF Refresh, Idle
      <4>2. call'[x] = [call[x] EXCEPT !.crossed = call[x].kind = "overview" /\ call[x] # Idle]
        BY <3>1, <4>1 DEF Refresh
      <4>3. /\ call'[x].at = call[x].at /\ call'[x].v = call[x].v /\ call'[x].kind = call[x].kind
            /\ call'[x].crossed = (call[x].kind = "overview" /\ call[x] # Idle)
        BY <1>0, <4>2 DEF CallRec
      <4>4. call[x] # Idle
        BY <3>3, <4>3 DEF Idle
      <4>5. QED
        BY <2>0, <3>3, <4>3, <4>4 DEF StaleInv
    <3>4. StaleOnlyFromInFlight'
      BY <3>1 DEF StaleOnlyFromInFlight, NoSnap
    <3>5. QED
      BY <3>2, <3>3, <3>4 DEF StaleInv
  <2>2. CASE call[c].ok /\ call[c].route # "panel"
    <3>1. /\ snap' = snap /\ End(c)
          /\ acked' = Latest(call[c].v, acked) /\ silent' = Latest(call[c].v, silent)
      BY <1>2, <2>2 DEF DeliverChange
    <3>2. acked' <= version' /\ acked' \in Nat /\ silent' \in Nat
      BY <1>0, <2>0, <3>1 DEF StaleInv, Latest
    <3>3. \A v \in Nat : v < acked' => v < acked \/ v < silent'
      BY <1>0, <2>0, <3>1 DEF Latest
    <3>4. \A v \in Nat : v < silent => v < silent'
      BY <1>0, <2>0, <3>1 DEF Latest
    <3>5. SameAnswers
      BY <1>0, <3>1 DEF End, Idle, SameAnswers, CallRec
    <3>6. ASSUME NEW x \in Calls, call'[x].at = "answer"
          PROVE  /\ call'[x].v <= version'
                 /\ call'[x].kind = "overview" /\ call'[x].v < acked'
                      => call'[x].crossed \/ call'[x].v < silent'
      <4>1. call[x].v \in Nat
        BY <1>0 DEF CallRec
      <4>2. /\ call[x].at = "answer" /\ call'[x].kind = call[x].kind
            /\ call'[x].v = call[x].v /\ call'[x].crossed = call[x].crossed
        BY <3>5, <3>6 DEF SameAnswers
      <4>3. QED
        BY <2>0, <3>3, <3>4, <4>1, <4>2 DEF StaleInv
    <3>7. StaleOnlyFromInFlight'
      <4>1. snap.v \in Nat
        BY DEF OpenInv, TypeOK
      <4>2. QED
        BY <3>1, <3>3, <3>4, <4>1 DEF StaleInv, StaleOnlyFromInFlight
    <3>8. QED
      BY <3>2, <3>6, <3>7 DEF StaleInv
  <2>3. CASE ~call[c].ok
    <3>1. End(c) /\ UNCHANGED <<version, confirmed, snap>>
      BY <1>2, <2>3 DEF DeliverChange
    <3>2. SameAnswers
      BY <1>0, <3>1 DEF End, Idle, SameAnswers, CallRec
    <3>3. QED
      BY <3>1, <3>2, KeepStale
  <2>4. QED
    BY <2>1, <2>2, <2>3
\* The answer becomes the snapshot.
<1>3. ASSUME NEW c \in Calls, DeliverOverview(c) PROVE StaleInv'
  <2>1. /\ call[c].at = "answer" /\ call[c].kind = "overview" /\ End(c)
        /\ UNCHANGED <<version, confirmed>>
    BY <1>3 DEF DeliverOverview
  <2>2. snap'.v = call[c].v /\ snap'.crossed = call[c].crossed
    BY <1>3 DEF DeliverOverview
  <2>3. SameAnswers
    BY <1>0, <2>1 DEF End, Idle, SameAnswers, CallRec
  <2>4. StaleOnlyFromInFlight'
    BY <2>1, <2>2 DEF StaleInv, StaleOnlyFromInFlight
  <2>5. QED
    BY <2>1, <2>3, <2>4 DEF StaleInv, SameAnswers
\* The other steps bring no answer.
<1>4. ASSUME NEW c \in Calls, NEW k \in Changes, NEW s \in Slots, NEW route \in Routes, Ask(c, k, s, route)
      PROVE  StaleInv'
  <2>1. SameAnswers
    BY <1>0, <1>4 DEF Ask, Changes, Idle, SameAnswers
  <2>2. QED
    BY <1>4, <2>1, KeepStale DEF Ask
<1>5. ASSUME NEW c \in Calls, LookForSlot(c) \/ CountAccounts(c) \/ FetchOverview(c) PROVE StaleInv'
  <2>1. Goto(c, "port") \/ Goto(c, "count") \/ End(c)
    BY <1>5 DEF LookForSlot, CountAccounts, FetchOverview
  <2>2. SameAnswers
    BY <1>0, <2>1 DEF Goto, End, Idle, CallRec, SameAnswers
  <2>3. QED
    BY <1>5, <2>2, KeepStale DEF LookForSlot, CountAccounts, FetchOverview
<1>6. ASSUME NEW c \in Calls, PortFor(c) \/ Invalidate(c) PROVE StaleInv'
  <2>1. \/ CutAll(c, "open") \/ CutAll(c, "again")
        \/ call' = [call EXCEPT ![c].via = "current", ![c].at = "send"]
    BY <1>6 DEF PortFor, Invalidate
  <2>2. CASE CutAll(c, "open") \/ CutAll(c, "again")
    <3>1. PICK l \in {"open", "again"} : CutAll(c, l)
      BY <2>2
    <3>2. \A x \in Calls :
            /\ call'[x].at = IF x = c THEN l ELSE call[x].at
            /\ call'[x].kind = call[x].kind /\ call'[x].v = call[x].v
            /\ call'[x].crossed = call[x].crossed
      BY <1>0, <3>1 DEF CutAll, CallRec
    <3>3. SameAnswers
      BY <3>2 DEF SameAnswers
    <3>4. QED
      BY <1>6, <3>3, KeepStale DEF PortFor, Invalidate
  <2>3. CASE call' = [call EXCEPT ![c].via = "current", ![c].at = "send"]
    <3>1. SameAnswers
      BY <1>0, <2>3 DEF CallRec, SameAnswers
    <3>2. QED
      BY <1>6, <3>1, KeepStale DEF PortFor, Invalidate
  <2>4. QED
    BY <2>1, <2>2, <2>3
<1>7. ASSUME NEW c \in Calls, Opened(c) \/ OpenFails(c) \/ SendFails(c) \/ AnswerLost(c) PROVE StaleInv'
  <2>1. \/ Fail(c, "broken") \/ Fail(c, "again")
        \/ call' = [call EXCEPT ![c].via = "current", ![c].at = "send"]
    BY <1>7 DEF Opened, OpenFails, SendFails, AnswerLost
  <2>2. SameAnswers
    BY <1>0, <2>1 DEF Fail, CallRec, SameAnswers
  <2>3. QED
    BY <1>7, <2>2, KeepStale DEF Opened, OpenFails, SendFails, AnswerLost
<1>8. ASSUME NEW c \in Calls, Again(c) PROVE StaleInv'
  <2>1. SameAnswers
    BY <1>0, <1>8 DEF Again, End, Idle, CallRec, SameAnswers
  <2>2. QED
    BY <1>8, <2>1, KeepStale DEF Again
<1>9. CASE TunnelBreaks
  <2>1. CutAll(NoCall, "none")
    BY <1>9 DEF TunnelBreaks
  <2>2. SameAnswers
    BY <1>0, <2>1 DEF CutAll, CallRec, SameAnswers
  <2>3. QED
    BY <1>9, <2>2, KeepStale DEF TunnelBreaks
<1>10. CASE Ages
  BY <1>10 DEF Ages, StaleInv, StaleOnlyFromInFlight
<1>11. CASE UNCHANGED vars
  BY <1>11 DEF vars, StaleInv, StaleOnlyFromInFlight
\* The control bot's changes are confirmed to nobody.
<1>12. ASSUME NEW s \in Slots, ControlBot(s) PROVE StaleInv'
  <2>1. version' = version + 1 /\ UNCHANGED <<call, snap, confirmed>>
    BY <1>12 DEF ControlBot
  <2>2. \A x \in Calls : call[x].v \in Nat
    BY <1>0 DEF CallRec
  <2>3. QED
    BY <1>0, <2>1, <2>2 DEF StaleInv, StaleOnlyFromInFlight
<1>13. QED
  BY <1>12, <1>1, <1>2, <1>3, <1>4, <1>5, <1>6, <1>7, <1>8, <1>9, <1>10, <1>11 DEF Next, Step

\* The site shows an overview older than a change it confirmed only if this overview was
\* being fetched when the change was confirmed, or a handler that drops nothing confirmed
\* a change it is older than: for any numbers of requests, retries and refreshes.
THEOREM RelayStaleOnlyInFlight == Spec => []StaleOnlyFromInFlight
<1>1. Spec => [](OpenInv /\ StaleInv)
  BY OpenInit, OpenStep, StaleInit, StaleStep, PTL DEF Spec
<1>2. StaleInv => StaleOnlyFromInFlight
  BY DEF StaleInv
<1>3. QED
  BY <1>1, <1>2, PTL

=============================================================================
