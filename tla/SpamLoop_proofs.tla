--------------------------- MODULE SpamLoop_proofs ---------------------------
(***************************************************************************)
(* Proofs about SpamLoop, for any number of chats, loops, slot objects and *)
(* requests.                                                               *)
(***************************************************************************)
EXTENDS SpamLoop, FiniteSetTheorems, TLAPS

-----------------------------------------------------------------------------
(* The operators on configurations.                                        *)

LEMMA NoConfigType == NoConfig \in Config
BY SpamLoopAssumption DEF Config, NoConfig

LEMMA DisabledType == ASSUME NEW k \in Config PROVE Disabled(k) \in Config
BY DEF Config, Disabled

LEMMA CountedType == ASSUME NEW k \in Config PROVE Counted(k) \in Config
<1> DEFINE n == [k EXCEPT !.configured = TRUE, !.sent = @ + 1]
<1>1. n \in Config
  <2>1. k.sent + 1 \in Nat
    BY DEF Config
  <2>2. QED
    BY <2>1 DEF Config
<1>2. (n.enabled /\ ~AtLimit(n)) \in BOOLEAN
  OBVIOUS
<1>3. [n EXCEPT !.enabled = @ /\ ~AtLimit(n)] \in Config
  <2> HIDE DEF n
  <2> QED
    BY <1>1, <1>2 DEF Config
<1>4. QED
  BY <1>3 DEF Counted

LEMMA PatchedType ==
  ASSUME NEW k \in Config, NEW p \in Patched(k)
  PROVE  p \in Config
<1>1. 0 \in 0..MaxLimit /\ k.sent \in Nat
  BY SpamLoopAssumption DEF Config
<1>2. ASSUME NEW e \in BOOLEAN, NEW l \in 0..MaxLimit, NEW n \in Nat
      PROVE  Entry(e, l, n) \in Config
  BY DEF Entry, Config
<1>3. QED
  BY <1>1, <1>2 DEF Patched

-----------------------------------------------------------------------------
(* Type correctness.                                                       *)

LEMMA SuspendType ==
  ASSUME TypeOK, NEW r \in Requests,
         NEW what \in {"start", "refresh", "bulk", "delete"},
         Suspend(r, what)
  PROVE  /\ req' \in [Requests -> {"idle", "start", "ready", "refresh", "bulk", "delete"}]
         /\ robj' \in [Requests -> Objs \cup {NoObj}]
         /\ \A q \in Requests : req'[q] # "idle" => robj'[q] \in Objs
BY DEF TypeOK, Suspend

LEMMA AnswerType ==
  ASSUME TypeOK, NEW r \in Requests, Answer(r)
  PROVE  /\ req' \in [Requests -> {"idle", "start", "ready", "refresh", "bulk", "delete"}]
         /\ robj' \in [Requests -> Objs \cup {NoObj}]
         /\ \A q \in Requests : req'[q] # "idle" => robj'[q] \in Objs
BY DEF TypeOK, Answer

\* The variables a restart writes keep their types.
LEMMA RestartType ==
  ASSUME TypeOK, NEW o \in Objs \cup {Other}, RestartLoop(o)
  PROVE  /\ started' \in BOOLEAN /\ astray' \in BOOLEAN
         /\ registered' \in Tasks \cup {NoTask}
         /\ pc' \in [Tasks -> {"none", "new", "idle", "sending"}]
         /\ cancelled' \in SUBSET Tasks /\ elsewhere' \in SUBSET Tasks
         /\ obj' \in [Tasks -> Objs \cup {NoObj, Other}]
         /\ target' \in [Tasks -> Chats \cup {NoChat}]
         /\ \A t \in Tasks : /\ pc'[t] # "none" => obj'[t] \in Objs \cup {Other}
                             /\ pc'[t] = "sending" => obj'[t] \in Objs /\ target'[t] \in Chats
<1>1. PICK t \in Tasks \ Alive :
         /\ started' = TRUE
         /\ registered' = t
         /\ pc' = [pc EXCEPT ![t] = "new"]
         /\ obj' = [obj EXCEPT ![t] = o]
         /\ astray' = (o # account)
  BY DEF RestartLoop, StartLoop
<1>2. cancelled' \in SUBSET Tasks /\ target' = target /\ elsewhere' = elsewhere
  BY DEF RestartLoop, TypeOK, Alive
<1>3. QED
  BY <1>1, <1>2 DEF TypeOK

\* So do those that a start under another key writes.
LEMMA ElsewhereType ==
  ASSUME TypeOK, NEW o \in Objs, StartElsewhere(o)
  PROVE  /\ UNCHANGED <<started, registered, cancelled, target>>
         /\ astray' \in BOOLEAN
         /\ pc' \in [Tasks -> {"none", "new", "idle", "sending"}]
         /\ elsewhere' \in SUBSET Tasks
         /\ obj' \in [Tasks -> Objs \cup {NoObj, Other}]
         /\ \A t \in Tasks : /\ pc'[t] # "none" => obj'[t] \in Objs \cup {Other}
                             /\ pc'[t] = "sending" => obj'[t] \in Objs /\ target'[t] \in Chats
<1>1. PICK t \in Tasks \ Alive :
         /\ pc' = [pc EXCEPT ![t] = "new"]
         /\ obj' = [obj EXCEPT ![t] = o]
         /\ elsewhere' = elsewhere \cup {t}
  BY DEF StartElsewhere
<1>2. UNCHANGED <<started, registered, cancelled, target>> /\ astray' = (astray \/ o = account)
  BY DEF StartElsewhere
<1>3. QED
  BY <1>1, <1>2 DEF TypeOK

LEMMA TypeInit == Init => TypeOK
<1>2. Init => /\ cfg \in [Objs -> [Chats -> Config]]
              /\ base \in [Objs -> [Chats -> Nat]]
              /\ wanted \in [Objs -> SUBSET Chats]
  BY NoConfigType DEF Init
<1>3. Init => /\ \A t \in Tasks : pc[t] = "none"
              /\ \A r \in Requests : req[r] = "idle"
  BY DEF Init
<1>4. Init => /\ pc \in [Tasks -> {"none", "new", "idle", "sending"}]
              /\ obj \in [Tasks -> Objs \cup {NoObj, Other}]
              /\ target \in [Tasks -> Chats \cup {NoChat}]
              /\ req \in [Requests -> {"idle", "start", "ready", "refresh", "bulk", "delete"}]
              /\ robj \in [Requests -> Objs \cup {NoObj}]
              /\ running \in [Objs -> BOOLEAN]
  BY DEF Init
<1>5. Init => /\ account \in Objs \cup {NoObj}
              /\ started \in BOOLEAN
              /\ registered \in Tasks \cup {NoTask}
              /\ cancelled \in SUBSET Tasks
              /\ elsewhere \in SUBSET Tasks /\ astray \in BOOLEAN
  BY DEF Init
<1>6. QED
  BY <1>2, <1>3, <1>4, <1>5 DEF TypeOK

LEMMA TypeStep == TypeOK /\ [Next]_vars => TypeOK'
<1> SUFFICES ASSUME TypeOK, [Next]_vars PROVE TypeOK'
  OBVIOUS
<1> USE DEF loopVars, reqVars, registry, history
<1>1. ASSUME NEW t \in Tasks,
             \/ Enter(t) \/ Count(t) \/ GiveUp(t) \/ BadPeer(t) \/ Unwind(t)
             \/ CancelElsewhere(t)
             \/ \E c \in Chats : Retire(t, c) \/ Pick(t, c)
      PROVE  TypeOK'
  <2>1. CASE Enter(t)
    BY <2>1 DEF Enter, TypeOK, Active, Alive
  <2>2. CASE Count(t)
    <3>1. obj[t] \in Objs /\ target[t] \in Chats
      BY <2>2 DEF Count, TypeOK
    <3>2. Counted(cfg[obj[t]][target[t]]) \in Config
      BY <3>1, CountedType DEF TypeOK
    <3>3. QED
      BY <2>2, <3>1, <3>2 DEF Count, Idle, TypeOK
  <2>3. CASE GiveUp(t)
    BY <2>3 DEF GiveUp, Idle, TypeOK
  <2>4. CASE BadPeer(t)
    <3>1. obj[t] \in Objs /\ target[t] \in Chats
      BY <2>4 DEF BadPeer, TypeOK
    <3>2. Disabled(cfg[obj[t]][target[t]]) \in Config
      BY <3>1, DisabledType DEF TypeOK
    <3>3. QED
      BY <2>4, <3>1, <3>2 DEF BadPeer, Idle, TypeOK
  <2>5. CASE Unwind(t)
    BY <2>5 DEF Unwind, TypeOK
  <2>6. ASSUME NEW c \in Chats, Retire(t, c) PROVE TypeOK'
    <3>1. obj[t] \in Objs
      BY <2>6 DEF Retire, Due, TypeOK
    <3>2. Disabled(cfg[obj[t]][c]) \in Config
      BY <3>1, DisabledType DEF TypeOK
    <3>3. QED
      BY <2>6, <3>1, <3>2 DEF Retire, TypeOK
  <2>7. ASSUME NEW c \in Chats, Pick(t, c) PROVE TypeOK'
    <3>1. obj[t] \in Objs
      BY <2>7 DEF Pick, Due, TypeOK
    <3>2. QED
      BY <2>7, <3>1 DEF Pick, Due, TypeOK
  <2>8. CASE CancelElsewhere(t)
    BY <2>8 DEF CancelElsewhere, TypeOK
  <2>9. QED
    BY <1>1, <2>1, <2>2, <2>3, <2>4, <2>5, <2>6, <2>7, <2>8
<1>2. ASSUME NEW r \in Requests,
             \/ Call(r) \/ Ensured(r) \/ StartSpam(r) \/ RefreshLoop(r) \/ Fail(r)
             \/ DeleteSlotCall(r) \/ DeleteSlot(r)
      PROVE  TypeOK'
  <2>1. CASE Call(r)
    BY <2>1, SuspendType DEF Call, TypeOK
  <2>2. CASE Ensured(r)
    <3>1. CASE RestartLoop(account) /\ account # NoObj /\ UNCHANGED robj
               /\ req' = [req EXCEPT ![r] = "ready"]
      BY <2>2, <3>1, RestartType DEF Ensured, TypeOK
    <3>2. CASE UNCHANGED <<robj, registry, loopVars>>
               /\ req' = [req EXCEPT ![r] = "ready"]
      BY <2>2, <3>2 DEF Ensured, TypeOK
    <3>3. QED
      BY <2>2, <3>1, <3>2 DEF Ensured
  <2>3. CASE StartSpam(r)
    <3>1. running' \in [Objs -> BOOLEAN] /\ UNCHANGED <<account, cfg, history>> /\ Answer(r)
      BY <2>3 DEF StartSpam, TypeOK
    <3>2. CASE account = NoObj
      BY <2>3, <3>1, <3>2, AnswerType DEF StartSpam, TypeOK
    <3>3. CASE account # NoObj
      BY <2>3, <3>1, <3>3, AnswerType, RestartType DEF StartSpam, TypeOK
    <3>4. QED
      BY <3>2, <3>3
  <2>4. CASE RefreshLoop(r)
    BY <2>4, AnswerType, RestartType DEF RefreshLoop, TypeOK
  <2>5. CASE Fail(r)
    BY <2>5, AnswerType DEF Fail, TypeOK
  <2>6. CASE DeleteSlotCall(r)
    BY <2>6, SuspendType DEF DeleteSlotCall, TypeOK
  <2>7. CASE DeleteSlot(r)
    BY <2>7, AnswerType DEF DeleteSlot, TypeOK
  <2>8. QED
    BY <1>2, <2>1, <2>2, <2>3, <2>4, <2>5, <2>6, <2>7
<1>3. ASSUME NEW r \in Requests, NEW c \in Chats, UpsertChat(r, c)
      PROVE  TypeOK'
  <2>1. PICK k \in Patched(cfg[account][c]) :
          /\ cfg' = [cfg EXCEPT ![account][c] = k]
          /\ wanted' = [wanted EXCEPT ![account] = IF k.enabled THEN @ \cup {c} ELSE @ \ {c}]
          /\ base' = [base EXCEPT ![account][c] =
                        Base(k.limit, k.sent + Cardinality(InFlight(account, c)))]
    BY <1>3 DEF UpsertChat
  <2>2. account \in Objs
    BY <1>3 DEF UpsertChat, TypeOK
  <2>3. k \in Config
    BY <2>1, <2>2, PatchedType DEF TypeOK
  <2>4. Cardinality(InFlight(account, c)) \in Nat
    BY SpamLoopAssumption, FS_Subset, FS_CardinalityType DEF InFlight
  <2>5. Base(k.limit, k.sent + Cardinality(InFlight(account, c))) \in Nat
    BY <2>3, <2>4 DEF Config, Base
  <2>6. /\ cfg' \in [Objs -> [Chats -> Config]]
        /\ wanted' \in [Objs -> SUBSET Chats]
        /\ base' \in [Objs -> [Chats -> Nat]]
    BY <2>1, <2>2, <2>3, <2>5 DEF TypeOK
  <2>7. CASE running[account]
    BY <1>3, <2>6, <2>7, SuspendType DEF UpsertChat, TypeOK
  <2>8. CASE ~running[account]
    BY <1>3, <2>6, <2>8 DEF UpsertChat, TypeOK
  <2>9. QED
    BY <2>7, <2>8
<1>4. ASSUME NEW r \in Requests, NEW o \in Objs, NEW S \in SUBSET Chats, NEW on \in BOOLEAN,
             SetEnabled(r, o, S, on)
      PROVE  TypeOK'
  <2>1. /\ cfg' \in [Objs -> [Chats -> Config]]
        /\ wanted' \in [Objs -> SUBSET Chats]
    <3>1. ASSUME NEW c \in Chats
          PROVE  [cfg[o][c] EXCEPT !.configured = TRUE, !.enabled = on] \in Config
      <4>1. cfg[o][c] \in Config
        BY DEF TypeOK
      <4>2. QED
        BY <4>1 DEF Config
    <3>2. cfg' \in [Objs -> [Chats -> Config]]
      <4>1. [c \in Chats |-> IF c \in S
                             THEN [cfg[o][c] EXCEPT !.configured = TRUE, !.enabled = on]
                             ELSE cfg[o][c]] \in [Chats -> Config]
        BY <3>1 DEF TypeOK
      <4>2. cfg' = [cfg EXCEPT ![o] =
                      [c \in Chats |-> IF c \in S
                             THEN [cfg[o][c] EXCEPT !.configured = TRUE, !.enabled = on]
                             ELSE cfg[o][c]]]
        BY <1>4 DEF SetEnabled
      <4>3. QED
        BY <4>1, <4>2 DEF TypeOK
    <3>3. QED
      BY <1>4, <3>2 DEF SetEnabled, TypeOK
  <2>2. CASE on /\ running[o] /\ account # NoObj
    <3>1. req' = [req EXCEPT ![r] = "refresh"] /\ robj' = [robj EXCEPT ![r] = o]
      BY <1>4, <2>2 DEF SetEnabled
    <3>2. QED
      BY <1>4, <2>1, <3>1 DEF SetEnabled, TypeOK
  <2>3. CASE ~(on /\ running[o] /\ account # NoObj)
    BY <1>4, <2>1, <2>3, AnswerType DEF SetEnabled, TypeOK
  <2>4. QED
    BY <2>2, <2>3
<1>5. ASSUME NEW r \in Requests, NEW S \in SUBSET Chats, NEW on \in BOOLEAN,
             BulkSetIds(r, S, on) \/ BulkSetAll(r, S, on)
      PROVE  TypeOK'
  <2>1. CASE BulkSetIds(r, S, on)
    <3>1. account \in Objs
      BY <2>1 DEF BulkSetIds, TypeOK
    <3>2. QED
      BY <1>4, <2>1, <3>1 DEF BulkSetIds
  <2>2. CASE BulkSetAll(r, S, on)
    <3>1. robj[r] \in Objs
      BY <2>2 DEF BulkSetAll, TypeOK
    <3>2. QED
      BY <1>4, <2>2, <3>1 DEF BulkSetAll
  <2>3. QED
    BY <1>5, <2>1, <2>2
<1>6. CASE StopSpam
  BY <1>6 DEF StopSpam, TypeOK
<1>7. CASE AddSlot
  <2>1. PICK o \in Objs :
          /\ account' = o
          /\ running' = [running EXCEPT ![o] = FALSE]
          /\ cfg' = [cfg EXCEPT ![o] = [c \in Chats |-> NoConfig]]
          /\ wanted' = [wanted EXCEPT ![o] = {}]
          /\ base' = [base EXCEPT ![o] = [c \in Chats |-> 0]]
    BY <1>7 DEF AddSlot
  <2>2. [c \in Chats |-> NoConfig] \in [Chats -> Config]
    BY NoConfigType
  <2>3. QED
    BY <1>7, <2>1, <2>2 DEF AddSlot, TypeOK
<1>8. CASE Reboot
  <2>1. [c \in Chats |-> NoConfig] \in [Chats -> Config]
    BY NoConfigType
  <2>2. cfg' \in [Objs -> [Chats -> Config]]
    BY <1>8, <2>1 DEF Reboot, TypeOK
  <2>3. /\ running' \in [Objs -> BOOLEAN] /\ wanted' \in [Objs -> SUBSET Chats]
        /\ base' \in [Objs -> [Chats -> Nat]]
    BY <1>8 DEF Reboot, TypeOK
  <2>4. /\ account' \in Objs \cup {NoObj} /\ cancelled' = {} /\ elsewhere' = {}
        /\ astray' = FALSE
        /\ target' \in [Tasks -> Chats \cup {NoChat}]
        /\ req' = [r \in Requests |-> "idle"] /\ robj' \in [Requests -> Objs \cup {NoObj}]
    BY <1>8 DEF Reboot, TypeOK
  <2>5. CASE account = NoObj
    <3>1. /\ pc' = [t \in Tasks |-> "none"] /\ obj' = [t \in Tasks |-> NoObj]
          /\ started' = FALSE /\ registered' = NoTask
      BY <1>8, <2>5 DEF Reboot
    <3>2. QED
      BY <2>2, <2>3, <2>4, <3>1 DEF TypeOK
  <2>6. CASE account # NoObj
    <3>1. PICK t \in Tasks :
             /\ started' = TRUE /\ registered' = t
             /\ pc' = [u \in Tasks |-> IF u = t THEN "new" ELSE "none"]
             /\ obj' = [u \in Tasks |-> IF u = t THEN account ELSE NoObj]
      BY <1>8, <2>6 DEF Reboot
    <3>2. account \in Objs
      BY <2>6 DEF TypeOK
    <3>3. QED
      BY <2>2, <2>3, <2>4, <3>1, <3>2 DEF TypeOK
  <2>7. QED
    BY <2>5, <2>6
<1>9. ASSUME NEW c \in Chats, DeleteChat(c) PROVE TypeOK'
  <2>1. account \in Objs
    BY <1>9 DEF DeleteChat, TypeOK
  <2>2. QED
    BY <1>9, <2>1, NoConfigType DEF DeleteChat, TypeOK
<1>10. ASSUME NEW o \in Objs, ButtonStop(o) PROVE TypeOK'
  BY <1>10 DEF ButtonStop, TypeOK
<1>11. ASSUME NEW o \in Objs, ButtonStart(o) PROVE TypeOK'
  <2>1. running' \in [Objs -> BOOLEAN] /\ UNCHANGED <<account, cfg, reqVars, history>>
    BY <1>11 DEF ButtonStart, TypeOK
  <2>2. CASE RestartLoop(o)
    BY <2>1, <2>2, RestartType DEF TypeOK
  <2>3. CASE StartElsewhere(o)
    BY <2>1, <2>3, ElsewhereType DEF TypeOK
  <2>4. CASE UNCHANGED <<registry, loopVars>>
    BY <2>1, <2>4 DEF TypeOK
  <2>5. QED
    BY <1>11, <2>2, <2>3, <2>4 DEF ButtonStart
<1>12. CASE ButtonOther
  BY <1>12, RestartType DEF ButtonOther, TypeOK
<1>13. CASE UNCHANGED vars
  BY <1>13 DEF vars, TypeOK
<1>14. QED
  BY <1>1, <1>2, <1>3, <1>5, <1>6, <1>7, <1>8, <1>9, <1>10, <1>11, <1>12, <1>13
     DEF Next, LoopNext, RequestNext, OperatorNext

\* Every reachable state of every instance is well typed.
THEOREM SpamLoopTyped == Spec => []TypeOK
BY TypeInit, TypeStep, PTL DEF Spec
-----------------------------------------------------------------------------
(* The registry, and the loop that serves a running slot.                  *)

\* The slot stays as it is, or at least no state starts to run.
Quiet == account' # NoObj /\ running'[account'] => account' = account /\ running[account]

\* Nothing happens to the loops.
Still == UNCHANGED <<registry, pc, cancelled, obj, elsewhere>>

\* A loop that nobody has cancelled goes on.
GoesOn ==
  \E t \in Active, v \in {"idle", "sending"} :
     pc' = [pc EXCEPT ![t] = v] /\ UNCHANGED <<registry, cancelled, obj, elsewhere>>

\* What a step may do to the loops: reboot, restart, start one under another key, end
\* one, cancel one of another key, move one on, or nothing.
LEMMA LoopEffect ==
  ASSUME TypeOK, [Next]_vars
  PROVE  \/ Reboot
         \/ account # NoObj /\ account' = account
              /\ \E o \in Objs \cup {Other} : RestartLoop(o)
         \/ account' = account
              /\ \E o \in Objs : StartElsewhere(o) /\ running' = [running EXCEPT ![o] = TRUE]
         \/ Quiet /\ Still
         \/ Quiet /\ \E t \in Tasks : Unwind(t) \/ CancelElsewhere(t)
         \/ Quiet /\ GoesOn
<1> USE DEF loopVars, reqVars, registry, history
<1>1. ASSUME NEW t \in Tasks, Enter(t) \/ Count(t) \/ GiveUp(t) \/ BadPeer(t)
      PROVE  Quiet /\ GoesOn
  BY <1>1 DEF Enter, Count, GiveUp, BadPeer, Idle, Quiet, Still, GoesOn
<1>2. ASSUME NEW t \in Tasks, Unwind(t) \/ CancelElsewhere(t) PROVE Quiet
  BY <1>2 DEF Unwind, CancelElsewhere, Quiet
<1>3. ASSUME NEW t \in Tasks, NEW c \in Chats, Retire(t, c)
      PROVE  Quiet /\ Still
  BY <1>3 DEF Retire, Quiet, Still, GoesOn
<1>4. ASSUME NEW t \in Tasks, NEW c \in Chats, Pick(t, c)
      PROVE  Quiet /\ GoesOn
  BY <1>4 DEF Pick, Due, Quiet, Still, GoesOn
<1>5. ASSUME NEW r \in Requests, Ensured(r)
      PROVE  \/ account # NoObj /\ account' = account /\ RestartLoop(account)
             \/ Quiet /\ Still
  BY <1>5 DEF Ensured, Quiet, Still, GoesOn
<1>6. ASSUME NEW r \in Requests, StartSpam(r)
      PROVE  \/ account # NoObj /\ account' = account /\ RestartLoop(account)
             \/ Quiet /\ Still
  BY <1>6 DEF StartSpam, Quiet, Still, GoesOn
<1>7. ASSUME NEW r \in Requests, RefreshLoop(r)
      PROVE  account # NoObj /\ account' = account /\ RestartLoop(account)
  BY <1>7 DEF RefreshLoop
<1>8. ASSUME NEW r \in Requests, Call(r) \/ Fail(r) \/ DeleteSlotCall(r) \/ DeleteSlot(r)
      PROVE  Quiet /\ Still
  BY <1>8 DEF Call, Fail, DeleteSlotCall, DeleteSlot, Quiet, Still, GoesOn
<1>9. ASSUME NEW r \in Requests, NEW c \in Chats, UpsertChat(r, c)
      PROVE  Quiet /\ Still
  BY <1>9 DEF UpsertChat, Quiet, Still, GoesOn
<1>10. ASSUME NEW r \in Requests, NEW S \in SUBSET Chats, NEW on \in BOOLEAN,
              BulkSetIds(r, S, on) \/ BulkSetAll(r, S, on)
       PROVE  Quiet /\ Still
  BY <1>10 DEF BulkSetIds, BulkSetAll, SetEnabled, Quiet, Still, GoesOn
<1>11. ASSUME StopSpam \/ AddSlot \/ \E c \in Chats : DeleteChat(c)
       PROVE  Quiet /\ Still
  <2>1. CASE StopSpam
    BY <2>1 DEF StopSpam, Quiet, Still, TypeOK
  <2>2. CASE AddSlot
    BY <2>2 DEF AddSlot, Quiet, Still, TypeOK
  <2>3. CASE \E c \in Chats : DeleteChat(c)
    BY <2>3 DEF DeleteChat, Quiet, Still, GoesOn
  <2>4. QED
    BY <1>11, <2>1, <2>2, <2>3
<1>12. CASE UNCHANGED vars
  BY <1>12 DEF vars, Quiet, Still, GoesOn
<1>13. ASSUME NEW o \in Objs, ButtonStop(o) PROVE Quiet /\ Still
  BY <1>13 DEF ButtonStop, Quiet, Still, TypeOK
<1>14. ASSUME NEW o \in Objs, ButtonStart(o)
       PROVE  \/ account # NoObj /\ account' = account /\ RestartLoop(o)
              \/ account' = account /\ StartElsewhere(o) /\ running' = [running EXCEPT ![o] = TRUE]
              \/ Quiet /\ Still
  BY <1>14 DEF ButtonStart, Quiet, Still, TypeOK
<1>15. CASE ButtonOther
  BY <1>15 DEF ButtonOther
<1>16. account # NoObj => account \in Objs
  BY DEF TypeOK
<1>17. CASE LoopNext
  BY <1>17, <1>1, <1>2, <1>3, <1>4 DEF LoopNext
<1>18. CASE RequestNext
  BY <1>18, <1>5, <1>6, <1>7, <1>8, <1>9, <1>10, <1>16 DEF RequestNext
<1>19. CASE OperatorNext
  BY <1>19, <1>11, <1>13, <1>14, <1>15 DEF OperatorNext
<1>20. QED
  BY <1>12, <1>17, <1>18, <1>19
     DEF Next

LEMMA RegistryStep ==
  ASSUME TypeOK, RegistryConsistent, [Next]_vars
  PROVE  RegistryConsistent'
<1> USE DEF registry, Active, Alive
<1>1. CASE Reboot
  BY <1>1, SpamLoopAssumption DEF Reboot, RegistryConsistent, TypeOK
<1>2. ASSUME NEW o \in Objs \cup {Other}, RestartLoop(o) PROVE RegistryConsistent'
  <2>1. PICK t \in Tasks \ Alive :
          /\ started' = TRUE
          /\ registered' = t
          /\ pc' = [pc EXCEPT ![t] = "new"]
    BY <1>2 DEF RestartLoop, StartLoop
  <2>2. t \notin cancelled' /\ t \notin elsewhere'
    BY <1>2, <2>1 DEF RestartLoop, RegistryConsistent
  <2>3. cancelled' \cup elsewhere' \subseteq Alive'
    BY <1>2, <2>1 DEF RestartLoop, RegistryConsistent, TypeOK
  <2>4. QED
    BY <2>1, <2>2, <2>3, SpamLoopAssumption DEF RegistryConsistent, TypeOK
<1>3. ASSUME NEW o \in Objs, StartElsewhere(o) PROVE RegistryConsistent'
  <2>1. PICK t \in Tasks \ Alive :
          /\ pc' = [pc EXCEPT ![t] = "new"]
          /\ elsewhere' = elsewhere \cup {t}
    BY <1>3 DEF StartElsewhere
  <2>2. UNCHANGED <<started, registered, cancelled>>
    BY <1>3 DEF StartElsewhere
  <2>3. cancelled' \cup elsewhere' \subseteq Alive'
    BY <2>1, <2>2 DEF RegistryConsistent, TypeOK
  <2>4. registered' # NoTask => registered' \in Active' \ elsewhere'
    BY <2>1, <2>2 DEF RegistryConsistent, TypeOK
  <2>5. QED
    BY <2>2, <2>3, <2>4 DEF RegistryConsistent
<1>4. CASE Still
  BY <1>4 DEF RegistryConsistent, Still
<1>5. ASSUME NEW t \in Tasks, Unwind(t) PROVE RegistryConsistent'
  <2>1. t \in cancelled /\ registered # t
    BY <1>5, SpamLoopAssumption DEF Unwind, RegistryConsistent
  <2>2. /\ pc' = [pc EXCEPT ![t] = "none"]
        /\ cancelled' = cancelled \ {t} /\ elsewhere' = elsewhere \ {t}
    BY <1>5 DEF Unwind
  <2>3. cancelled' \cup elsewhere' \subseteq Alive'
    BY <2>2 DEF RegistryConsistent, TypeOK
  <2>4. CASE UNCHANGED registry
    BY <2>1, <2>2, <2>3, <2>4 DEF RegistryConsistent, TypeOK
  <2>5. CASE started' = FALSE /\ registered' = NoTask
    BY <2>3, <2>5 DEF RegistryConsistent
  <2>6. QED
    BY <1>5, <2>4, <2>5 DEF Unwind
<1>6. ASSUME NEW t \in Tasks, CancelElsewhere(t) PROVE RegistryConsistent'
  BY <1>6 DEF CancelElsewhere, RegistryConsistent
<1>7. CASE GoesOn
  BY <1>7 DEF GoesOn, RegistryConsistent, TypeOK
<1>8. QED
  BY <1>1, <1>2, <1>3, <1>4, <1>5, <1>6, <1>7, LoopEffect

\* The registry agrees with itself and names only a live, uncancelled loop.
THEOREM RegistrySound == Spec => []RegistryConsistent
<1>1. Init => RegistryConsistent
  BY SpamLoopAssumption DEF Init, RegistryConsistent
<1>2. TypeOK /\ RegistryConsistent /\ [Next]_vars => RegistryConsistent'
  BY RegistryStep
<1>3. QED
  BY <1>1, <1>2, SpamLoopTyped, PTL DEF Spec

LEMMA ServedStep ==
  ASSUME TypeOK, RegistryConsistent, RunningIsServed, [Next]_vars
  PROVE  RunningIsServed'
<1> SUFFICES ASSUME account' # NoObj, running'[account'], ~astray'
             PROVE  \E t \in Active' \ elsewhere' : obj'[t] = account'
  BY DEF RunningIsServed
<1> USE DEF registry, Active, Alive
<1>1. CASE Reboot
  BY <1>1 DEF Reboot, TypeOK
<1>2. ASSUME account # NoObj, account' = account, NEW o \in Objs \cup {Other}, RestartLoop(o)
      PROVE  \E t \in Active' \ elsewhere' : obj'[t] = account'
  <2>1. PICK t \in Tasks \ Alive :
          /\ pc' = [pc EXCEPT ![t] = "new"]
          /\ obj' = [obj EXCEPT ![t] = o]
          /\ astray' = (o # account)
    BY <1>2 DEF RestartLoop, StartLoop
  <2>2. t \notin cancelled' /\ t \notin elsewhere'
    BY <1>2, <2>1 DEF RestartLoop, RegistryConsistent
  <2>3. QED
    BY <1>2, <2>1, <2>2 DEF TypeOK
<1>3. ASSUME ~astray, account' = account, running[account]
      PROVE  \E t \in Active \ elsewhere : obj[t] = account
  BY <1>3 DEF RunningIsServed
<1>4. ASSUME Quiet, ~astray PROVE \E t \in Active \ elsewhere : obj[t] = account' /\ account' = account
  BY <1>4 DEF Quiet, RunningIsServed
<1>5. ASSUME account' = account, NEW o \in Objs, StartElsewhere(o),
             running' = [running EXCEPT ![o] = TRUE]
      PROVE  \E t \in Active' \ elsewhere' : obj'[t] = account'
  <2>1. PICK u \in Tasks \ Alive :
          /\ pc' = [pc EXCEPT ![u] = "new"]
          /\ obj' = [obj EXCEPT ![u] = o]
          /\ elsewhere' = elsewhere \cup {u}
    BY <1>5 DEF StartElsewhere
  <2>2. ~astray /\ o # account /\ cancelled' = cancelled
    BY <1>5 DEF StartElsewhere
  <2>3. running[account]
    BY <1>5, <2>2 DEF TypeOK
  <2>4. PICK t \in Active \ elsewhere : obj[t] = account
    BY <1>3, <1>5, <2>2, <2>3
  <2>5. t # u /\ pc'[t] = pc[t] /\ obj'[t] = obj[t]
    BY <2>1, <2>4 DEF TypeOK
  <2>6. QED
    BY <1>5, <2>1, <2>2, <2>4, <2>5
<1>6. CASE Quiet /\ Still
  BY <1>4, <1>6 DEF Still
<1>7. ASSUME NEW u \in Tasks, Unwind(u), Quiet
      PROVE  \E t \in Active' \ elsewhere' : obj'[t] = account'
  <2>1. astray' = astray
    BY <1>7 DEF Unwind
  <2>2. QED
    BY <1>4, <1>7, <2>1 DEF Unwind, TypeOK
<1>8. ASSUME NEW u \in Tasks, CancelElsewhere(u), Quiet
      PROVE  \E t \in Active' \ elsewhere' : obj'[t] = account'
  BY <1>4, <1>8 DEF CancelElsewhere
<1>9. CASE Quiet /\ GoesOn
  BY <1>4, <1>9 DEF GoesOn, TypeOK
<1>10. QED
  BY <1>1, <1>2, <1>5, <1>6, <1>7, <1>8, <1>9, LoopEffect

\* A running slot always has an uncancelled loop on its present state under its own
\* key, unless a button has started one across slots since the slot's last restart.
THEOREM RunningServed == Spec => []RunningIsServed
<1>1. Init => RunningIsServed
  BY DEF Init, RunningIsServed
<1>2. TypeOK /\ RegistryConsistent /\ RunningIsServed /\ [Next]_vars => RunningIsServed'
  BY ServedStep
<1>3. QED
  BY <1>1, <1>2, SpamLoopTyped, RegistrySound, PTL DEF Spec
-----------------------------------------------------------------------------
(* What the bookkeeping of a send leaves of the operator's choices.        *)

LEMMA CountedFields ==
  ASSUME NEW k \in Config
  PROVE  /\ Counted(k).limit = k.limit
         /\ Counted(k).sent = k.sent + 1
         /\ Counted(k).enabled => k.enabled
BY DEF Counted, Config

LEMMA DisabledFields ==
  ASSUME NEW k \in Config
  PROVE  /\ Disabled(k).limit = k.limit
         /\ Disabled(k).sent = k.sent
         /\ ~Disabled(k).enabled
BY DEF Disabled, Config

LEMMA OperatorWinsStep ==
  ASSUME TypeOK, OperatorWins, [Next]_vars
  PROVE  OperatorWins'
<1> SUFFICES ASSUME NEW o \in Objs, NEW c \in Chats, cfg'[o][c].enabled
             PROVE  c \in wanted'[o]
  BY DEF OperatorWins
<1> USE DEF loopVars, reqVars, registry, history
<1>1. CASE wanted' = wanted /\ (cfg'[o][c].enabled => cfg[o][c].enabled)
  BY <1>1 DEF OperatorWins
<1>2. ASSUME NEW t \in Tasks, Count(t)
      PROVE  wanted' = wanted /\ (cfg'[o][c].enabled => cfg[o][c].enabled)
  <2>1. obj[t] \in Objs /\ target[t] \in Chats /\ cfg[o][c] \in Config
    BY <1>2 DEF Count, TypeOK
  <2>2. cfg'[o][c] = cfg[o][c] \/ cfg'[o][c] = Counted(cfg[o][c])
    BY <1>2, <2>1 DEF Count, TypeOK
  <2>3. QED
    BY <1>2, <2>1, <2>2, CountedFields DEF Count
<1>3. ASSUME NEW t \in Tasks, BadPeer(t) \/ \E d \in Chats : Retire(t, d)
      PROVE  wanted' = wanted /\ (cfg'[o][c].enabled => cfg[o][c].enabled)
  <2>1. obj[t] \in Objs /\ cfg[o][c] \in Config
    BY <1>3 DEF BadPeer, Retire, Due, TypeOK
  <2>2. cfg'[o][c] = cfg[o][c] \/ cfg'[o][c] = Disabled(cfg[o][c])
    BY <1>3, <2>1 DEF BadPeer, Retire, TypeOK
  <2>3. QED
    BY <1>3, <2>1, <2>2, DisabledFields DEF BadPeer, Retire
<1>4. ASSUME NEW t \in Tasks,
             \/ Enter(t) \/ GiveUp(t) \/ Unwind(t) \/ CancelElsewhere(t)
             \/ \E d \in Chats : Pick(t, d)
      PROVE  wanted' = wanted /\ (cfg'[o][c].enabled => cfg[o][c].enabled)
  BY <1>4 DEF Enter, GiveUp, Unwind, CancelElsewhere, Pick
<1>5. ASSUME NEW r \in Requests,
             \/ Call(r) \/ Ensured(r) \/ StartSpam(r) \/ RefreshLoop(r) \/ Fail(r)
             \/ DeleteSlotCall(r) \/ DeleteSlot(r)
      PROVE  wanted' = wanted /\ (cfg'[o][c].enabled => cfg[o][c].enabled)
  BY <1>5 DEF Call, Ensured, StartSpam, RefreshLoop, Fail, DeleteSlotCall, DeleteSlot
<1>6. ASSUME NEW r \in Requests, NEW d \in Chats, UpsertChat(r, d)
      PROVE  c \in wanted'[o]
  <2>1. PICK k \in Patched(cfg[account][d]) :
          /\ cfg' = [cfg EXCEPT ![account][d] = k]
          /\ wanted' = [wanted EXCEPT ![account] = IF k.enabled THEN @ \cup {d} ELSE @ \ {d}]
    BY <1>6 DEF UpsertChat
  <2>2. account \in Objs
    BY <1>6 DEF UpsertChat, TypeOK
  <2>3. CASE o = account /\ c = d
    BY <2>1, <2>2, <2>3 DEF TypeOK
  <2>4. CASE ~(o = account /\ c = d)
    BY <2>1, <2>2, <2>4 DEF TypeOK, OperatorWins
  <2>5. QED
    BY <2>3, <2>4
<1>7. ASSUME NEW r \in Requests, NEW p \in Objs, NEW S \in SUBSET Chats, NEW on \in BOOLEAN,
             SetEnabled(r, p, S, on)
      PROVE  c \in wanted'[o]
  <2>1. /\ o # p => cfg'[o][c] = cfg[o][c] /\ wanted'[o] = wanted[o]
        /\ o = p /\ c \notin S => cfg'[o][c] = cfg[o][c]
        /\ o = p => wanted'[o] = IF on THEN wanted[o] \cup S ELSE wanted[o] \ S
    BY <1>7 DEF SetEnabled, TypeOK
  <2>2. CASE o = p /\ c \in S
    <3>1. cfg[o][c] \in Config
      BY DEF TypeOK
    <3>2. cfg'[o][c] = [cfg[o][c] EXCEPT !.configured = TRUE, !.enabled = on]
      BY <1>7, <2>2 DEF SetEnabled, TypeOK
    <3>3. cfg'[o][c].enabled = on
      BY <3>1, <3>2 DEF Config
    <3>4. QED
      BY <2>1, <2>2, <3>3
  <2>3. CASE ~(o = p /\ c \in S)
    BY <2>1, <2>3 DEF OperatorWins
  <2>4. QED
    BY <2>2, <2>3
<1>8. ASSUME NEW r \in Requests, NEW S \in SUBSET Chats, NEW on \in BOOLEAN,
             BulkSetIds(r, S, on) \/ BulkSetAll(r, S, on)
      PROVE  c \in wanted'[o]
  <2>1. BulkSetIds(r, S, on) => account \in Objs /\ SetEnabled(r, account, S, on)
    BY DEF BulkSetIds, TypeOK
  <2>2. BulkSetAll(r, S, on) => robj[r] \in Objs /\ SetEnabled(r, robj[r], S, on)
    BY DEF BulkSetAll, TypeOK
  <2>3. QED
    BY <1>7, <1>8, <2>1, <2>2
<1>9. ASSUME NEW d \in Chats, DeleteChat(d) PROVE c \in wanted'[o]
  <2>1. account \in Objs
    BY <1>9 DEF DeleteChat, TypeOK
  <2>2. /\ o # account => cfg'[o][c] = cfg[o][c] /\ wanted'[o] = wanted[o]
        /\ o = account /\ c # d => cfg'[o][c] = cfg[o][c]
        /\ o = account /\ c = d => cfg'[o][c] = NoConfig
        /\ o = account => wanted'[o] = wanted[o] \ {d}
    BY <1>9, <2>1 DEF DeleteChat, TypeOK
  <2>3. QED
    BY <2>2 DEF OperatorWins, NoConfig
<1>10. CASE StopSpam
  BY <1>1, <1>10 DEF StopSpam
<1>11. CASE AddSlot
  <2>1. PICK p \in Objs : /\ cfg' = [cfg EXCEPT ![p] = [d \in Chats |-> NoConfig]]
                          /\ wanted' = [wanted EXCEPT ![p] = {}]
    BY <1>11 DEF AddSlot
  <2>2. CASE o = p
    BY <2>1, <2>2 DEF TypeOK, NoConfig
  <2>3. CASE o # p
    BY <2>1, <2>3 DEF TypeOK, OperatorWins
  <2>4. QED
    BY <2>2, <2>3
<1>12. CASE Reboot
  <2>1. CASE o = account
    BY <1>12, <2>1 DEF Reboot, OperatorWins
  <2>2. CASE o # account
    BY <1>12, <2>2 DEF Reboot, NoConfig
  <2>3. QED
    BY <2>1, <2>2
<1>13. ASSUME ButtonOther \/ \E p \in Objs : ButtonStop(p) \/ ButtonStart(p)
       PROVE  wanted' = wanted /\ (cfg'[o][c].enabled => cfg[o][c].enabled)
  BY <1>13 DEF ButtonOther, ButtonStop, ButtonStart
<1>14. CASE UNCHANGED vars
  BY <1>1, <1>14 DEF vars
<1>15. QED
  BY <1>1, <1>2, <1>3, <1>4, <1>5, <1>6, <1>8, <1>9, <1>10, <1>11, <1>12, <1>13, <1>14
     DEF Next, LoopNext, RequestNext, OperatorNext

\* No step but the operator's own enables a chat.
THEOREM OperatorAlwaysWins == Spec => []OperatorWins
<1>1. Init => OperatorWins
  BY DEF Init, OperatorWins, NoConfig
<1>2. TypeOK /\ OperatorWins /\ [Next]_vars => OperatorWins'
  BY OperatorWinsStep
<1>3. QED
  BY <1>1, <1>2, SpamLoopTyped, PTL DEF Spec

-----------------------------------------------------------------------------
(* The message limit.                                                      *)

LEMMA InFlightFinite ==
  ASSUME NEW o, NEW c
  PROVE  /\ IsFiniteSet(InFlight(o, c))
         /\ Cardinality(InFlight(o, c)) \in Nat
         /\ Cardinality(InFlight(o, c)) <= Cardinality(Tasks)
         /\ Cardinality(Tasks) \in Nat
BY SpamLoopAssumption, FS_Subset, FS_CardinalityType DEF InFlight

LEMMA InFlightFiniteNext ==
  ASSUME NEW o, NEW c
  PROVE  /\ IsFiniteSet(InFlight(o, c)')
         /\ Cardinality(InFlight(o, c)') \in Nat
         /\ Cardinality(InFlight(o, c)') <= Cardinality(Tasks)
BY SpamLoopAssumption, FS_Subset, FS_CardinalityType DEF InFlight

\* What a step must do to chat c of state o to keep it in bounds: leave limit
\* and base alone and let no send be added, or end without a limit, or with a
\* total that the base covers or the bound allows, or below the limit.
Harmless(o, c) ==
  \/ /\ base'[o][c] = base[o][c]
     /\ cfg'[o][c].limit = cfg[o][c].limit
     /\ cfg'[o][c].sent + Cardinality(InFlight(o, c)') <=
           cfg[o][c].sent + Cardinality(InFlight(o, c))
  \/ cfg'[o][c].limit = 0
  \/ cfg'[o][c].sent + Cardinality(InFlight(o, c)') = base'[o][c]
  \/ cfg'[o][c].sent + Cardinality(InFlight(o, c)') < cfg'[o][c].limit + Cardinality(Tasks)
  \/ cfg'[o][c].sent < cfg'[o][c].limit

LEMMA HarmlessSuffices ==
  ASSUME TypeOK, TypeOK', OvershootBounded,
         \A o \in Objs, c \in Chats : Harmless(o, c)
  PROVE  OvershootBounded'
<1> SUFFICES ASSUME NEW o \in Objs, NEW c \in Chats, cfg'[o][c].limit > 0
             PROVE  \/ cfg'[o][c].sent + Cardinality(InFlight(o, c)') <= base'[o][c]
                    \/ cfg'[o][c].sent + Cardinality(InFlight(o, c)')
                         < cfg'[o][c].limit + Cardinality(Tasks)
  BY DEF OvershootBounded
<1> DEFINE n == Cardinality(InFlight(o, c))
           m == Cardinality(InFlight(o, c)')
           T == Cardinality(Tasks)
<1>1. n \in Nat /\ m \in Nat /\ T \in Nat /\ m <= T
  BY InFlightFinite, InFlightFiniteNext
<1>2. /\ cfg[o][c].sent \in Nat /\ cfg[o][c].limit \in Nat
      /\ cfg'[o][c].sent \in Nat /\ cfg'[o][c].limit \in Nat
      /\ base[o][c] \in Nat /\ base'[o][c] \in Nat
  <2>1. cfg[o][c] \in Config /\ cfg'[o][c] \in Config
    BY DEF TypeOK
  <2>2. QED
    BY <2>1, SpamLoopAssumption DEF TypeOK, Config
<1>3. cfg[o][c].limit > 0 =>
         cfg[o][c].sent + n <= base[o][c] \/ cfg[o][c].sent + n < cfg[o][c].limit + T
  BY DEF OvershootBounded
<1>4. \/ /\ base'[o][c] = base[o][c]
         /\ cfg'[o][c].limit = cfg[o][c].limit
         /\ cfg'[o][c].sent + m <= cfg[o][c].sent + n
      \/ cfg'[o][c].sent + m = base'[o][c]
      \/ cfg'[o][c].sent + m < cfg'[o][c].limit + T
      \/ cfg'[o][c].sent < cfg'[o][c].limit
  BY DEF Harmless
<1> HIDE DEF n, m, T
<1>5. cfg'[o][c].sent + m <= base'[o][c] \/ cfg'[o][c].sent + m < cfg'[o][c].limit + T
  BY <1>1, <1>2, <1>3, <1>4
<1>6. QED
  BY <1>5 DEF m, T

\* A step that adds no send under way does not raise their number.
LEMMA FewerInFlight ==
  ASSUME NEW o, NEW c, InFlight(o, c)' \subseteq InFlight(o, c)
  PROVE  Cardinality(InFlight(o, c)') <= Cardinality(InFlight(o, c))
BY InFlightFinite, FS_Subset

LEMMA OvershootStep ==
  ASSUME TypeOK, TypeOK', OvershootBounded, [Next]_vars
  PROVE  OvershootBounded'
<1> SUFFICES ASSUME NEW o \in Objs, NEW c \in Chats
             PROVE  Harmless(o, c)
  BY HarmlessSuffices
<1> USE DEF loopVars, reqVars, registry, history
<1> DEFINE n == Cardinality(InFlight(o, c))
           m == Cardinality(InFlight(o, c)')
           Kept == InFlight(o, c)' \subseteq InFlight(o, c)
<1>1. n \in Nat /\ m \in Nat /\ (Kept => m <= n)
  BY InFlightFinite, InFlightFiniteNext, FewerInFlight
<1>2. cfg[o][c] \in Config /\ cfg[o][c].sent \in Nat /\ cfg[o][c].limit \in Nat
  <2>1. cfg[o][c] \in Config
    BY DEF TypeOK
  <2>2. QED
    BY <2>1, SpamLoopAssumption DEF Config
<1>3. ASSUME base' = base, cfg'[o][c] = cfg[o][c], Kept PROVE Harmless(o, c)
  BY <1>1, <1>2, <1>3 DEF Harmless
<1>4. ASSUME NEW p \in Objs \cup {Other}, RestartLoop(p) \/ StartElsewhere(p) PROVE Kept
  <2>1. PICK t \in Tasks \ Alive : /\ pc' = [pc EXCEPT ![t] = "new"]
                                   /\ obj' = [obj EXCEPT ![t] = p]
    BY <1>4 DEF RestartLoop, StartLoop, StartElsewhere
  <2>2. target' = target
    BY <1>4 DEF RestartLoop, StartElsewhere
  <2>3. QED
    BY <2>1, <2>2 DEF InFlight, TypeOK
<1>5. ASSUME NEW t \in Tasks, Enter(t) \/ GiveUp(t) \/ Unwind(t) \/ CancelElsewhere(t)
      PROVE  Harmless(o, c)
  <2>1. Kept
    BY <1>5 DEF Enter, GiveUp, Unwind, CancelElsewhere, Idle, InFlight, TypeOK
  <2>2. QED
    BY <1>3, <1>5, <2>1 DEF Enter, GiveUp, Unwind, CancelElsewhere
<1>6. ASSUME NEW t \in Tasks, Count(t) PROVE Harmless(o, c)
  <2>1. obj[t] \in Objs /\ target[t] \in Chats
    BY <1>6 DEF Count, TypeOK
  <2>2. CASE o = obj[t] /\ c = target[t]
    <3>1. t \in InFlight(o, c) /\ InFlight(o, c)' = InFlight(o, c) \ {t}
      BY <1>6, <2>2 DEF Count, Idle, InFlight, TypeOK
    <3>2. m = n - 1
      BY <3>1, InFlightFinite, FS_RemoveElement
    <3>3. cfg'[o][c] = Counted(cfg[o][c]) /\ base' = base
      BY <1>6, <2>1, <2>2 DEF Count, TypeOK
    <3>4. QED
      BY <1>1, <1>2, <3>2, <3>3, CountedFields DEF Harmless
  <2>3. CASE ~(o = obj[t] /\ c = target[t])
    <3>1. cfg'[o][c] = cfg[o][c] /\ base' = base
      BY <1>6, <2>1, <2>3 DEF Count, TypeOK
    <3>2. Kept
      BY <1>6 DEF Count, Idle, InFlight, TypeOK
    <3>3. QED
      BY <1>3, <3>1, <3>2
  <2>4. QED
    BY <2>2, <2>3
<1>7. ASSUME NEW t \in Tasks, BadPeer(t) \/ \E d \in Chats : Retire(t, d)
      PROVE  Harmless(o, c)
  <2>1. Kept /\ base' = base
    BY <1>7 DEF BadPeer, Retire, Idle, InFlight, TypeOK
  <2>2. obj[t] \in Objs
    BY <1>7 DEF BadPeer, Retire, Due, TypeOK
  <2>3. cfg'[o][c] = cfg[o][c] \/ cfg'[o][c] = Disabled(cfg[o][c])
    BY <1>7, <2>2 DEF BadPeer, Retire, TypeOK
  <2>4. QED
    BY <1>1, <1>2, <2>1, <2>3, DisabledFields DEF Harmless
<1>8. ASSUME NEW t \in Tasks, NEW d \in Chats, Pick(t, d) PROVE Harmless(o, c)
  <2>1. cfg' = cfg /\ base' = base /\ obj[t] \in Objs
    BY <1>8 DEF Pick, Due, TypeOK
  <2>2. CASE o = obj[t] /\ c = d
    <3>1. ~AtLimit(cfg[o][c])
      BY <1>8, <2>2 DEF Pick
    <3>2. QED
      BY <1>2, <2>1, <3>1 DEF Harmless, AtLimit
  <2>3. CASE ~(o = obj[t] /\ c = d)
    <3>1. Kept
      BY <1>8, <2>3 DEF Pick, Due, InFlight, TypeOK
    <3>2. QED
      BY <1>3, <2>1, <3>1
  <2>4. QED
    BY <2>2, <2>3
<1>9. ASSUME NEW r \in Requests,
             \/ Call(r) \/ Ensured(r) \/ StartSpam(r) \/ RefreshLoop(r) \/ Fail(r)
             \/ DeleteSlotCall(r) \/ DeleteSlot(r)
      PROVE  Harmless(o, c)
  <2>1. cfg' = cfg /\ base' = base
    BY <1>9 DEF Call, Ensured, StartSpam, RefreshLoop, Fail, DeleteSlotCall, DeleteSlot
  <2>2. UNCHANGED <<pc, obj, target>> \/ (account \in Objs /\ RestartLoop(account))
    BY <1>9 DEF Call, Ensured, StartSpam, RefreshLoop, Fail, DeleteSlotCall, DeleteSlot, TypeOK
  <2>3. UNCHANGED <<pc, obj, target>> => Kept
    BY DEF InFlight
  <2>4. QED
    BY <1>3, <1>4, <2>1, <2>2, <2>3
<1>10. ASSUME NEW r \in Requests, NEW d \in Chats, UpsertChat(r, d)
       PROVE  Harmless(o, c)
  <2>1. PICK k \in Patched(cfg[account][d]) :
          /\ cfg' = [cfg EXCEPT ![account][d] = k]
          /\ base' = [base EXCEPT ![account][d] =
                        Base(k.limit, k.sent + Cardinality(InFlight(account, d)))]
    BY <1>10 DEF UpsertChat
  <2>2. account \in Objs /\ UNCHANGED <<pc, obj, target>>
    BY <1>10 DEF UpsertChat, TypeOK
  <2>3. InFlight(o, c)' = InFlight(o, c)
    BY <2>2 DEF InFlight
  <2>4. CASE o = account /\ c = d
    <3>1. cfg'[o][c] = k /\ base'[o][c] = Base(k.limit, k.sent + n)
      BY <2>1, <2>2, <2>4 DEF TypeOK
    <3>2. k \in Config
      BY <2>1, <2>2, PatchedType DEF TypeOK
    <3>3. m = n
      BY <2>3
    <3>4. QED
      BY <3>1, <3>2, <3>3 DEF Harmless, Base
  <2>5. CASE ~(o = account /\ c = d)
    <3>1. cfg'[o][c] = cfg[o][c] /\ base'[o][c] = base[o][c]
      BY <2>1, <2>2, <2>5 DEF TypeOK
    <3>2. QED
      BY <1>1, <1>2, <2>3, <3>1 DEF Harmless
  <2>6. QED
    BY <2>4, <2>5
<1>11. ASSUME NEW r \in Requests, NEW p \in Objs, NEW S \in SUBSET Chats, NEW on \in BOOLEAN,
              SetEnabled(r, p, S, on)
       PROVE  Harmless(o, c)
  <2>1. UNCHANGED <<pc, obj, target, base>>
    BY <1>11 DEF SetEnabled
  <2>2. InFlight(o, c)' = InFlight(o, c)
    BY <2>1 DEF InFlight
  <2>3. \/ cfg'[o][c] = cfg[o][c]
        \/ cfg'[o][c] = [cfg[o][c] EXCEPT !.configured = TRUE, !.enabled = on]
    BY <1>11 DEF SetEnabled, TypeOK
  <2>4. cfg'[o][c].sent = cfg[o][c].sent /\ cfg'[o][c].limit = cfg[o][c].limit
    BY <1>2, <2>3 DEF Config
  <2>5. QED
    BY <1>1, <1>2, <2>1, <2>2, <2>4 DEF Harmless
<1>12. ASSUME NEW r \in Requests, NEW S \in SUBSET Chats, NEW on \in BOOLEAN,
              BulkSetIds(r, S, on) \/ BulkSetAll(r, S, on)
       PROVE  Harmless(o, c)
  <2>1. BulkSetIds(r, S, on) => account \in Objs /\ SetEnabled(r, account, S, on)
    BY DEF BulkSetIds, TypeOK
  <2>2. BulkSetAll(r, S, on) => robj[r] \in Objs /\ SetEnabled(r, robj[r], S, on)
    BY DEF BulkSetAll, TypeOK
  <2>3. QED
    BY <1>11, <1>12, <2>1, <2>2
<1>13. ASSUME NEW d \in Chats, DeleteChat(d) PROVE Harmless(o, c)
  <2>1. account \in Objs /\ UNCHANGED <<pc, obj, target>>
    BY <1>13 DEF DeleteChat, TypeOK
  <2>2. InFlight(o, c)' = InFlight(o, c)
    BY <2>1 DEF InFlight
  <2>3. CASE o = account /\ c = d
    BY <1>13, <2>1, <2>3 DEF DeleteChat, Harmless, NoConfig, TypeOK
  <2>4. CASE ~(o = account /\ c = d)
    <3>1. cfg'[o][c] = cfg[o][c] /\ base'[o][c] = base[o][c]
      BY <1>13, <2>1, <2>4 DEF DeleteChat, TypeOK
    <3>2. QED
      BY <1>1, <1>2, <2>2, <3>1 DEF Harmless
  <2>5. QED
    BY <2>3, <2>4
<1>14. CASE StopSpam
  <2>1. Kept
    BY <1>14 DEF StopSpam, InFlight
  <2>2. QED
    BY <1>3, <1>14, <2>1 DEF StopSpam
<1>15. CASE AddSlot
  <2>1. PICK p \in Objs : /\ cfg' = [cfg EXCEPT ![p] = [d \in Chats |-> NoConfig]]
                          /\ base' = [base EXCEPT ![p] = [d \in Chats |-> 0]]
    BY <1>15 DEF AddSlot
  <2>2. InFlight(o, c)' = InFlight(o, c)
    BY <1>15 DEF AddSlot, InFlight
  <2>3. CASE o = p
    BY <2>1, <2>3 DEF Harmless, NoConfig, TypeOK
  <2>4. CASE o # p
    BY <1>1, <1>2, <2>1, <2>2, <2>4 DEF Harmless, TypeOK
  <2>5. QED
    BY <2>3, <2>4
<1>16. CASE Reboot
  <2>1. Kept
    BY <1>16 DEF Reboot, InFlight
  <2>2. CASE o = account
    <3>1. cfg'[o][c] = cfg[o][c] /\ base'[o][c] = base[o][c]
      BY <1>16, <2>2 DEF Reboot
    <3>2. QED
      BY <1>1, <1>2, <2>1, <3>1 DEF Harmless
  <2>3. CASE o # account
    BY <1>16, <2>3 DEF Reboot, Harmless, NoConfig
  <2>4. QED
    BY <2>2, <2>3
<1>17. CASE UNCHANGED vars
  <2>1. Kept
    BY <1>17 DEF vars, InFlight
  <2>2. QED
    BY <1>3, <1>17, <2>1 DEF vars
<1>18. ASSUME NEW p \in Objs, ButtonStop(p) \/ ButtonStart(p) PROVE Harmless(o, c)
  <2>1. cfg' = cfg /\ base' = base
    BY <1>18 DEF ButtonStop, ButtonStart
  <2>2. UNCHANGED <<pc, obj, target>> \/ RestartLoop(p) \/ StartElsewhere(p)
    BY <1>18 DEF ButtonStop, ButtonStart
  <2>3. UNCHANGED <<pc, obj, target>> => Kept
    BY DEF InFlight
  <2>4. QED
    BY <1>3, <1>4, <2>1, <2>2, <2>3
<1>19. CASE ButtonOther
  <2>1. Kept
    BY <1>4, <1>19 DEF ButtonOther
  <2>2. QED
    BY <1>3, <1>19, <2>1 DEF ButtonOther
<1>20. QED
  BY <1>5, <1>6, <1>7, <1>8, <1>9, <1>10, <1>12, <1>13, <1>14, <1>15, <1>16, <1>17, <1>18, <1>19
     DEF Next, LoopNext, RequestNext, OperatorNext

\* However loops are restarted, leaked and cancelled, a chat passes its limit by
\* less than the number of loops that may be alive.
THEOREM LimitOvershoot == Spec => []OvershootBounded
<1>1. Init => OvershootBounded
  BY DEF Init, OvershootBounded, NoConfig
<1>2. TypeOK /\ TypeOK' /\ OvershootBounded /\ [Next]_vars => OvershootBounded'
  BY OvershootStep
<1>3. QED
  BY <1>1, <1>2, SpamLoopTyped, PTL DEF Spec

-----------------------------------------------------------------------------
(* SpamLoop implements ChatQuota: each step of the loops, the requests and *)
(* the operator is a step of the quota, or leaves it as it is.             *)

\* What ChatQuota sees of one chat.
Seen(k) == [enabled |-> k.enabled, limit |-> k.limit, sent |-> k.sent]

\* No quota changes.
Stutter == UNCHANGED <<Counts, UnderWay>>

LEMMA SeenCounts ==
  ASSUME NEW o \in Objs, NEW c \in Chats
  PROVE  Counts[o][c] = Seen(cfg[o][c]) /\ UnderWay[o][c] = InFlight(o, c)
BY DEF Counts, Seen, UnderWay

\* The functions are equal when they are equal at every chat.
LEMMA CountsEqual ==
  ASSUME NEW F,
         F = [o \in Objs |-> [c \in Chats |-> F[o][c]]],
         \A o \in Objs, c \in Chats : Counts'[o][c] = F[o][c]
  PROVE  Counts' = F
<1>1. ASSUME NEW o \in Objs PROVE Counts'[o] = [c \in Chats |-> F[o][c]]
  <2>1. Counts'[o] = [c \in Chats |-> Counts'[o][c]]
    BY DEF Counts
  <2>2. QED
    BY <2>1
<1>2. Counts' = [o \in Objs |-> Counts'[o]]
  BY DEF Counts
<1>3. Counts' = [o \in Objs |-> [c \in Chats |-> F[o][c]]]
  BY <1>1, <1>2
<1>4. QED
  BY <1>3

LEMMA UnderWayEqual ==
  ASSUME NEW F,
         F = [o \in Objs |-> [c \in Chats |-> F[o][c]]],
         \A o \in Objs, c \in Chats : UnderWay'[o][c] = F[o][c]
  PROVE  UnderWay' = F
<1>1. ASSUME NEW o \in Objs PROVE UnderWay'[o] = [c \in Chats |-> F[o][c]]
  <2>1. UnderWay'[o] = [c \in Chats |-> UnderWay'[o][c]]
    BY DEF UnderWay
  <2>2. QED
    BY <2>1
<1>2. UnderWay' = [o \in Objs |-> UnderWay'[o]]
  BY DEF UnderWay
<1>3. UnderWay' = [o \in Objs |-> [c \in Chats |-> F[o][c]]]
  BY <1>1, <1>2
<1>4. QED
  BY <1>3

-----------------------------------------------------------------------------
(* What happens to the sends under way.                                    *)

\* Nothing, unless some task starts or stops sending.
LEMMA SameSends ==
  ASSUME \A t \in Tasks : /\ pc'[t] = "sending" <=> pc[t] = "sending"
                          /\ pc[t] = "sending" => obj'[t] = obj[t] /\ target'[t] = target[t]
  PROVE  UnderWay' = UnderWay
<1>1. ASSUME NEW o \in Objs, NEW c \in Chats PROVE InFlight(o, c)' = InFlight(o, c)
  BY DEF InFlight
<1>2. QED
  BY <1>1 DEF UnderWay

\* A loop that stops sending leaves its chat.
LEMMA SendEnds ==
  ASSUME TypeOK, NEW t \in Tasks, pc[t] = "sending", pc'[t] # "sending",
         \A u \in Tasks \ {t} : pc'[u] = pc[u] /\ obj'[u] = obj[u] /\ target'[u] = target[u]
  PROVE  /\ t \in UnderWay[obj[t]][target[t]]
         /\ UnderWay' = [UnderWay EXCEPT ![obj[t]][target[t]] = @ \ {t}]
<1>1. obj[t] \in Objs /\ target[t] \in Chats
  BY DEF TypeOK
<1>2. ASSUME NEW o \in Objs, NEW c \in Chats
      PROVE  InFlight(o, c)' = IF o = obj[t] /\ c = target[t]
                               THEN InFlight(o, c) \ {t} ELSE InFlight(o, c)
  BY DEF InFlight
<1>3. t \in InFlight(obj[t], target[t])
  BY DEF InFlight
<1> DEFINE F == [UnderWay EXCEPT ![obj[t]][target[t]] = @ \ {t}]
<1>4. ASSUME NEW o \in Objs, NEW c \in Chats PROVE UnderWay'[o][c] = F[o][c]
  <2>1. F[o][c] = IF o = obj[t] /\ c = target[t] THEN UnderWay[o][c] \ {t} ELSE UnderWay[o][c]
    BY <1>1 DEF UnderWay
  <2>2. UnderWay[o][c] = InFlight(o, c) /\ UnderWay'[o][c] = InFlight(o, c)'
    BY DEF UnderWay
  <2>3. QED
    BY <1>2, <2>1, <2>2
<1>5. F = [o \in Objs |-> [c \in Chats |-> F[o][c]]]
  BY DEF UnderWay
<1>6. UnderWay' = F
  <2> HIDE DEF F
  <2> QED
    BY <1>4, <1>5, UnderWayEqual
<1>7. QED
  BY <1>1, <1>3, <1>6 DEF UnderWay

\* A loop that starts to send joins its chat.
LEMMA SendBegins ==
  ASSUME NEW t \in Tasks, NEW o \in Objs, NEW c \in Chats,
         pc[t] # "sending", pc'[t] = "sending", obj'[t] = o, target'[t] = c,
         \A u \in Tasks \ {t} : pc'[u] = pc[u] /\ obj'[u] = obj[u] /\ target'[u] = target[u]
  PROVE  /\ t \notin UnderWay[o][c]
         /\ UnderWay' = [UnderWay EXCEPT ![o][c] = @ \cup {t}]
<1>1. ASSUME NEW p \in Objs, NEW d \in Chats
      PROVE  InFlight(p, d)' = IF p = o /\ d = c
                               THEN InFlight(p, d) \cup {t} ELSE InFlight(p, d)
  BY DEF InFlight
<1>2. t \notin InFlight(o, c)
  BY DEF InFlight
<1> DEFINE F == [UnderWay EXCEPT ![o][c] = @ \cup {t}]
<1>3. ASSUME NEW p \in Objs, NEW d \in Chats PROVE UnderWay'[p][d] = F[p][d]
  <2>1. F[p][d] = IF p = o /\ d = c THEN UnderWay[p][d] \cup {t} ELSE UnderWay[p][d]
    BY DEF UnderWay
  <2>2. UnderWay[p][d] = InFlight(p, d) /\ UnderWay'[p][d] = InFlight(p, d)'
    BY DEF UnderWay
  <2>3. QED
    BY <1>1, <2>1, <2>2
<1>4. F = [p \in Objs |-> [d \in Chats |-> F[p][d]]]
  BY DEF UnderWay
<1>5. UnderWay' = F
  <2> HIDE DEF F
  <2> QED
    BY <1>3, <1>4, UnderWayEqual
<1>6. QED
  BY <1>2, <1>5 DEF UnderWay

\* A restart starts a task that does not send yet.
LEMMA RestartSends ==
  ASSUME TypeOK, NEW o \in Objs \cup {Other}, RestartLoop(o) \/ StartElsewhere(o)
  PROVE  UnderWay' = UnderWay
<1>1. PICK t \in Tasks \ Alive :
         /\ pc' = [pc EXCEPT ![t] = "new"]
         /\ obj' = [obj EXCEPT ![t] = o]
  BY DEF RestartLoop, StartLoop, StartElsewhere
<1>2. target' = target
  BY DEF RestartLoop, StartElsewhere
<1>3. QED
  BY <1>1, <1>2, SameSends DEF TypeOK, Alive

-----------------------------------------------------------------------------
(* What happens to the configurations.                                     *)

\* One chat changes.
LEMMA OneChat ==
  ASSUME TypeOK, NEW o \in Objs, NEW c \in Chats, NEW k, cfg' = [cfg EXCEPT ![o][c] = k]
  PROVE  Counts' = [Counts EXCEPT ![o][c] = Seen(k)]
BY DEF Counts, Seen, TypeOK

LEMMA SameCounts ==
  ASSUME cfg' = cfg
  PROVE  Counts' = Counts
BY DEF Counts

\* A record with its switch off.
LEMMA SwitchedOff ==
  ASSUME NEW e, NEW l, NEW n
  PROVE  [[enabled |-> e, limit |-> l, sent |-> n] EXCEPT !.enabled = FALSE]
           = [enabled |-> FALSE, limit |-> l, sent |-> n]
<1>1. ASSUME NEW v
      PROVE  [[enabled |-> e, limit |-> l, sent |-> n] EXCEPT !.enabled = v]
               = [enabled |-> v, limit |-> l, sent |-> n]
  OBVIOUS
<1>2. QED
  BY <1>1, Zenon

\* A send that is counted, as the quota sees it.
LEMMA SeenCounted ==
  ASSUME NEW k \in Config
  PROVE  Seen(Counted(k)) = Quota!Recorded(Seen(k))
<1> DEFINE n == [k EXCEPT !.configured = TRUE, !.sent = @ + 1]
           m == [enabled |-> k.enabled, limit |-> k.limit, sent |-> k.sent + 1]
<1>1. k.limit \in Nat /\ k.sent \in Nat /\ k.enabled \in BOOLEAN
  BY SpamLoopAssumption DEF Config
<1>2. n.limit = k.limit /\ n.sent = k.sent + 1 /\ n.enabled = k.enabled
  BY DEF Config
<1>3. Quota!Open(m) <=> k.enabled /\ ~AtLimit(n)
  BY <1>1, <1>2 DEF AtLimit, Quota!Open
<1>4. Counted(k).limit = k.limit /\ Counted(k).sent = k.sent + 1
  BY <1>2 DEF Counted, Config
<1>5. Counted(k).enabled = (k.enabled /\ ~AtLimit(n))
  BY DEF Counted, Config
<1>6. [Seen(k) EXCEPT !.sent = @ + 1] = m
  BY DEF Seen
<1>7. CASE Quota!Open(m)
  <2>1. Counted(k).enabled = TRUE /\ k.enabled = TRUE
    BY <1>1, <1>3, <1>5, <1>7
  <2>2. Seen(Counted(k)) = m
    BY <1>4, <2>1 DEF Seen
  <2>3. QED
    BY <1>6, <1>7, <2>2 DEF Quota!Recorded
<1>8. CASE ~Quota!Open(m)
  <2>1. Counted(k).enabled = FALSE
    BY <1>3, <1>5, <1>8
  <2>2. Seen(Counted(k)) = [enabled |-> FALSE, limit |-> k.limit, sent |-> k.sent + 1]
    BY <1>4, <2>1 DEF Seen
  <2>3. Seen(Counted(k)) = [m EXCEPT !.enabled = FALSE]
    BY <2>2, SwitchedOff
  <2>4. QED
    BY <1>6, <1>8, <2>3 DEF Quota!Recorded
<1>9. QED
  BY <1>7, <1>8

\* A chat the loop switches off, as the quota sees it.
LEMMA DisabledCounts ==
  ASSUME TypeOK, NEW o \in Objs, NEW c \in Chats,
         Counts' = [Counts EXCEPT ![o][c] = Seen(Disabled(cfg[o][c]))]
  PROVE  Counts' = [Counts EXCEPT ![o][c].enabled = FALSE]
<1>1. ASSUME NEW k \in Config PROVE Seen(Disabled(k)) = [Seen(k) EXCEPT !.enabled = FALSE]
  <2>1. /\ Disabled(k).enabled = FALSE
        /\ Disabled(k).limit = k.limit /\ Disabled(k).sent = k.sent
    BY DEF Disabled, Config
  <2>2. Seen(Disabled(k)) = [enabled |-> FALSE, limit |-> k.limit, sent |-> k.sent]
    BY <2>1 DEF Seen
  <2>3. [Seen(k) EXCEPT !.enabled = FALSE] =
          [enabled |-> FALSE, limit |-> k.limit, sent |-> k.sent]
    BY SwitchedOff DEF Seen
  <2>4. QED
    BY <2>2, <2>3
<1>2. cfg[o][c] \in Config
  BY DEF TypeOK
<1>3. Seen(Disabled(cfg[o][c])) = [Counts[o][c] EXCEPT !.enabled = FALSE]
  BY <1>1, <1>2, SeenCounts
<1>4. QED
  BY <1>3

\* What the operator does to one list of chats is an edit of the quota.
LEMMA EditStep ==
  ASSUME TypeOK, TypeOK', NEW o \in Objs,
         \A p \in Objs \ {o} : cfg'[p] = cfg[p],
         \A c \in Chats : cfg'[o][c].sent \in {0, cfg[o][c].sent},
         UnderWay' = UnderWay
  PROVE  Quota!Edit(o)
<1> DEFINE e == [c \in Chats |-> cfg'[o][c].enabled]
           l == [c \in Chats |-> cfg'[o][c].limit]
           Z == {c \in Chats : cfg'[o][c].sent = 0}
           F == [Counts EXCEPT ![o] = [c \in Chats |->
                   [enabled |-> e[c], limit |-> l[c],
                    sent |-> IF c \in Z THEN 0 ELSE Counts[o][c].sent]]]
<1>1. e \in [Chats -> BOOLEAN] /\ l \in [Chats -> 0..MaxLimit] /\ Z \in SUBSET Chats
  <2>1. \A c \in Chats : cfg'[o][c] \in Config
    BY DEF TypeOK
  <2>2. QED
    BY <2>1 DEF Config
<1>2. ASSUME NEW p \in Objs, NEW c \in Chats PROVE Counts'[p][c] = F[p][c]
  BY DEF Counts
<1>3. F = [p \in Objs |-> [c \in Chats |-> F[p][c]]]
  BY DEF Counts
<1>4. Counts' = F
  <2> HIDE DEF F
  <2> QED
    BY <1>2, <1>3, CountsEqual
<1>5. QED
  <2> HIDE DEF e, l, Z
  <2> QED
    BY <1>1, <1>4 DEF Quota!Edit

-----------------------------------------------------------------------------
(* The steps.                                                              *)

\* Nothing of the quota changes when configurations and sends do not.
LEMMA QuietStep ==
  ASSUME cfg' = cfg, UnderWay' = UnderWay
  PROVE  Stutter
BY SameCounts DEF Stutter

LEMMA LoopRefines ==
  ASSUME TypeOK, NEW t \in Tasks,
         \/ Enter(t) \/ Count(t) \/ GiveUp(t) \/ BadPeer(t) \/ Unwind(t)
         \/ CancelElsewhere(t)
         \/ \E c \in Chats : Retire(t, c) \/ Pick(t, c)
  PROVE  Quota!Next \/ Stutter
<1> USE DEF Active
<1>1. CASE Enter(t)
  <2>1. UnderWay' = UnderWay
    BY <1>1, SameSends DEF Enter, TypeOK
  <2>2. QED
    BY <1>1, <2>1, QuietStep DEF Enter
<1>2. CASE Count(t)
  <2> DEFINE o == obj[t]  c == target[t]
  <2>1. o \in Objs /\ c \in Chats
    BY <1>2 DEF Count, TypeOK
  <2>2. t \in UnderWay[o][c] /\ UnderWay' = [UnderWay EXCEPT ![o][c] = @ \ {t}]
    BY <1>2, SendEnds DEF Count, Idle, TypeOK
  <2>3. Counts' = [Counts EXCEPT ![o][c] = Seen(Counted(cfg[o][c]))]
    BY <1>2, <2>1, OneChat DEF Count
  <2>4. Seen(Counted(cfg[o][c])) = Quota!Recorded(Counts[o][c])
    BY <2>1, SeenCounts, SeenCounted DEF TypeOK
  <2>5. Quota!Finish(o, c, t)
    BY <2>2, <2>3, <2>4 DEF Quota!Finish
  <2>6. QED
    BY <2>1, <2>5 DEF Quota!Next
<1>3. CASE GiveUp(t)
  <2>1. obj[t] \in Objs /\ target[t] \in Chats
    BY <1>3 DEF GiveUp, TypeOK
  <2>2. Quota!Drop(obj[t], target[t], t)
    BY <1>3, SendEnds, SameCounts DEF GiveUp, Idle, TypeOK, Quota!Drop
  <2>3. QED
    BY <2>1, <2>2 DEF Quota!Next
<1>4. CASE BadPeer(t)
  <2> DEFINE o == obj[t]  c == target[t]
  <2>1. o \in Objs /\ c \in Chats
    BY <1>4 DEF BadPeer, TypeOK
  <2>2. t \in UnderWay[o][c] /\ UnderWay' = [UnderWay EXCEPT ![o][c] = @ \ {t}]
    BY <1>4, SendEnds DEF BadPeer, Idle, TypeOK
  <2>3. Counts' = [Counts EXCEPT ![o][c] = Seen(Disabled(cfg[o][c]))]
    BY <1>4, <2>1, OneChat DEF BadPeer
  <2>4. Counts' = [Counts EXCEPT ![o][c].enabled = FALSE]
    BY <2>1, <2>3, DisabledCounts
  <2>5. Quota!Drop(o, c, t)
    BY <2>2, <2>4 DEF Quota!Drop
  <2>6. QED
    BY <2>1, <2>5 DEF Quota!Next
<1>5. CASE Unwind(t)
  <2>1. CASE pc[t] = "sending"
    <3>1. obj[t] \in Objs /\ target[t] \in Chats
      BY <2>1 DEF TypeOK
    <3>2. Quota!Drop(obj[t], target[t], t)
      BY <1>5, <2>1, SendEnds, SameCounts DEF Unwind, TypeOK, Quota!Drop
    <3>3. QED
      BY <3>1, <3>2 DEF Quota!Next
  <2>2. CASE pc[t] # "sending"
    <3>1. UnderWay' = UnderWay
      BY <1>5, <2>2, SameSends DEF Unwind, TypeOK
    <3>2. QED
      BY <1>5, <3>1, QuietStep DEF Unwind
  <2>3. QED
    BY <2>1, <2>2
<1>6. ASSUME NEW c \in Chats, Retire(t, c) PROVE Quota!Next
  <2>1. obj[t] \in Objs
    BY <1>6 DEF Retire, Due, TypeOK
  <2>2. Counts' = [Counts EXCEPT ![obj[t]][c] = Seen(Disabled(cfg[obj[t]][c]))]
    BY <1>6, <2>1, OneChat DEF Retire
  <2>3. Counts' = [Counts EXCEPT ![obj[t]][c].enabled = FALSE]
    BY <2>1, <2>2, DisabledCounts
  <2>4. UnderWay' = UnderWay
    BY <1>6, SameSends DEF Retire, loopVars
  <2>5. Quota!Close(obj[t], c)
    BY <2>3, <2>4 DEF Quota!Close
  <2>6. QED
    BY <2>1, <2>5 DEF Quota!Next
<1>7. ASSUME NEW c \in Chats, Pick(t, c) PROVE Quota!Next
  <2>1. obj[t] \in Objs
    BY <1>7 DEF Pick, Due, TypeOK
  <2>2. t \notin UnderWay[obj[t]][c] /\ UnderWay' = [UnderWay EXCEPT ![obj[t]][c] = @ \cup {t}]
    BY <1>7, <2>1, SendBegins DEF Pick, Due, TypeOK
  <2>3. Quota!Open(Counts[obj[t]][c])
    <3>1. cfg[obj[t]][c] \in Config
      BY <2>1 DEF TypeOK
    <3>2. cfg[obj[t]][c].limit \in Nat /\ cfg[obj[t]][c].sent \in Nat
      BY <3>1, SpamLoopAssumption DEF Config
    <3>3. QED
      BY <1>7, <2>1, <3>2 DEF Pick, Due, AtLimit, Quota!Open, Counts
  <2>4. Quota!Begin(obj[t], c, t)
    BY <1>7, <2>2, <2>3, SameCounts DEF Pick, Quota!Begin
  <2>5. QED
    BY <2>1, <2>4 DEF Quota!Next
<1>8. CASE CancelElsewhere(t)
  <2>1. UnderWay' = UnderWay
    BY <1>8, SameSends DEF CancelElsewhere
  <2>2. QED
    BY <1>8, <2>1, QuietStep DEF CancelElsewhere
<1>9. QED
  BY <1>1, <1>2, <1>3, <1>4, <1>5, <1>6, <1>7, <1>8

\* The button starts loops, and edits nothing.
LEMMA ButtonRefines ==
  ASSUME TypeOK, ButtonOther \/ \E o \in Objs : ButtonStop(o) \/ ButtonStart(o)
  PROVE  Stutter
<1>1. UNCHANGED loopVars => UnderWay' = UnderWay
  BY SameSends DEF loopVars
<1>2. CASE ButtonOther
  BY <1>2, RestartSends, QuietStep DEF ButtonOther
<1>3. ASSUME NEW o \in Objs, ButtonStop(o) PROVE Stutter
  BY <1>1, <1>3, QuietStep DEF ButtonStop
<1>4. ASSUME NEW o \in Objs, ButtonStart(o) PROVE Stutter
  BY <1>1, <1>4, RestartSends, QuietStep DEF ButtonStart
<1>5. QED
  BY <1>2, <1>3, <1>4

LEMMA RequestRefines ==
  ASSUME TypeOK, TypeOK', NEW r \in Requests,
         \/ Call(r) \/ Ensured(r) \/ StartSpam(r) \/ RefreshLoop(r) \/ Fail(r)
         \/ DeleteSlotCall(r) \/ DeleteSlot(r)
  PROVE  Stutter
<1> USE DEF loopVars
<1>1. UNCHANGED loopVars => UnderWay' = UnderWay
  BY SameSends
<1>2. account # NoObj => account \in Objs
  BY DEF TypeOK
<1>3. CASE Call(r) \/ Fail(r) \/ DeleteSlotCall(r) \/ DeleteSlot(r)
  BY <1>1, <1>3, QuietStep DEF Call, Fail, DeleteSlotCall, DeleteSlot
<1>4. CASE Ensured(r)
  BY <1>1, <1>2, <1>4, RestartSends, QuietStep DEF Ensured
<1>5. CASE StartSpam(r)
  BY <1>1, <1>2, <1>5, RestartSends, QuietStep DEF StartSpam
<1>6. CASE RefreshLoop(r)
  BY <1>2, <1>6, RestartSends, QuietStep DEF RefreshLoop
<1>7. QED
  BY <1>3, <1>4, <1>5, <1>6

\* An operation that leaves the loops alone and changes one list is an edit.
LEMMA OperatorRefines ==
  ASSUME TypeOK, TypeOK', UNCHANGED loopVars,
         \/ \E r \in Requests, c \in Chats : UpsertChat(r, c)
         \/ \E r \in Requests, S \in SUBSET Chats, on \in BOOLEAN :
               BulkSetIds(r, S, on) \/ BulkSetAll(r, S, on)
         \/ AddSlot
         \/ \E c \in Chats : DeleteChat(c)
  PROVE  Quota!Next
<1>1. UnderWay' = UnderWay
  BY SameSends DEF loopVars
<1> DEFINE OneList ==
      \E o \in Objs : /\ \A p \in Objs \ {o} : cfg'[p] = cfg[p]
                      /\ \A c \in Chats : cfg'[o][c].sent \in {0, cfg[o][c].sent}
<1>2. SUFFICES OneList
  BY <1>1, EditStep DEF Quota!Next
<1>3. ASSUME NEW r \in Requests, NEW c \in Chats, UpsertChat(r, c) PROVE OneList
  <2>1. account \in Objs
    BY <1>3 DEF UpsertChat, TypeOK
  <2>2. PICK k \in Patched(cfg[account][c]) : cfg' = [cfg EXCEPT ![account][c] = k]
    BY <1>3 DEF UpsertChat
  <2>3. k.sent \in {0, cfg[account][c].sent}
    BY <2>2 DEF Patched, Entry
  <2>4. \A p \in Objs \ {account} : cfg'[p] = cfg[p]
    BY <2>1, <2>2 DEF TypeOK
  <2>5. \A d \in Chats : cfg'[account][d] = IF d = c THEN k ELSE cfg[account][d]
    BY <2>1, <2>2 DEF TypeOK
  <2>6. QED
    BY <2>1, <2>3, <2>4, <2>5
<1>4. ASSUME NEW r \in Requests, NEW S \in SUBSET Chats, NEW on \in BOOLEAN, NEW o \in Objs,
             SetEnabled(r, o, S, on)
      PROVE  OneList
  <2>1. cfg' = [cfg EXCEPT ![o] = [c \in Chats |->
                  IF c \in S THEN [cfg[o][c] EXCEPT !.configured = TRUE, !.enabled = on]
                  ELSE cfg[o][c]]]
    BY <1>4 DEF SetEnabled
  <2>2. \A c \in Chats : cfg[o][c] \in Config
    BY DEF TypeOK
  <2>3. ASSUME NEW c \in Chats PROVE cfg'[o][c].sent = cfg[o][c].sent
    <3>1. cfg'[o][c] = IF c \in S THEN [cfg[o][c] EXCEPT !.configured = TRUE, !.enabled = on]
                       ELSE cfg[o][c]
      BY <2>1 DEF TypeOK
    <3>2. [cfg[o][c] EXCEPT !.configured = TRUE, !.enabled = on].sent = cfg[o][c].sent
      BY <2>2 DEF Config
    <3>3. QED
      BY <3>1, <3>2
  <2>4. QED
    BY <2>1, <2>3 DEF TypeOK
<1>5. ASSUME NEW r \in Requests, NEW S \in SUBSET Chats, NEW on \in BOOLEAN,
             BulkSetIds(r, S, on) \/ BulkSetAll(r, S, on)
      PROVE  OneList
  BY <1>4, <1>5 DEF BulkSetIds, BulkSetAll, TypeOK
<1>6. CASE AddSlot
  <2>1. PICK o \in Objs : cfg' = [cfg EXCEPT ![o] = [c \in Chats |-> NoConfig]]
    BY <1>6 DEF AddSlot
  <2>2. QED
    BY <2>1 DEF TypeOK, NoConfig
<1>7. ASSUME NEW c \in Chats, DeleteChat(c) PROVE OneList
  <2>1. account \in Objs /\ cfg' = [cfg EXCEPT ![account][c] = NoConfig]
    BY <1>7 DEF DeleteChat, TypeOK
  <2>2. \A p \in Objs \ {account} : cfg'[p] = cfg[p]
    BY <2>1 DEF TypeOK
  <2>3. \A d \in Chats : cfg'[account][d] = IF d = c THEN NoConfig ELSE cfg[account][d]
    BY <2>1 DEF TypeOK
  <2>4. NoConfig.sent = 0
    BY DEF NoConfig
  <2>5. QED
    BY <2>1, <2>2, <2>3, <2>4
<1>8. QED
  BY <1>3, <1>5, <1>6, <1>7

LEMMA RebootRefines ==
  ASSUME TypeOK, Reboot
  PROVE  Quota!Restart
<1> DEFINE Lost == [c \in Chats |-> [enabled |-> FALSE, limit |-> 0, sent |-> 0]]
           K == Objs \cap {account}
           F == [o \in Objs |-> IF o \in K THEN Counts[o] ELSE Lost]
<1>1. \A o \in Objs : cfg'[o] = IF o \in K THEN cfg[o] ELSE [c \in Chats |-> NoConfig]
  BY DEF Reboot
<1>2. Counts' = F
  <2>1. ASSUME NEW o \in Objs, NEW c \in Chats PROVE Counts'[o][c] = F[o][c]
    <3>1. CASE o \in K
      BY <1>1, <3>1 DEF Counts
    <3>2. CASE o \notin K
      <4>1. Counts'[o][c] = [enabled |-> NoConfig.enabled, limit |-> NoConfig.limit,
                             sent |-> NoConfig.sent]
        BY <1>1, <3>2 DEF Counts
      <4>2. QED
        BY <3>2, <4>1 DEF NoConfig
    <3>3. QED
      BY <3>1, <3>2
  <2>2. F = [o \in Objs |-> [c \in Chats |-> F[o][c]]]
    BY DEF Counts
  <2>3. QED
    <3> HIDE DEF F
    <3> QED
      BY <2>1, <2>2, CountsEqual
<1>3. \A t \in Tasks : pc'[t] # "sending"
  BY DEF Reboot
<1>4. UnderWay' = [o \in Objs |-> [c \in Chats |-> {}]]
  <2>1. ASSUME NEW o \in Objs, NEW c \in Chats PROVE InFlight(o, c)' = {}
    BY <1>3 DEF InFlight
  <2>2. QED
    BY <2>1 DEF UnderWay
<1>5. QED
  <2> HIDE DEF K
  <2>1. K \in SUBSET Objs
    BY DEF K
  <2>2. QED
    BY <1>2, <1>4, <2>1 DEF Quota!Restart

LEMMA QuotaStep ==
  ASSUME TypeOK, TypeOK', [Next]_vars
  PROVE  [Quota!Next]_(Quota!vars)
<1>1. SUFFICES Quota!Next \/ Stutter
  BY DEF Stutter, Quota!vars
<1>2. CASE LoopNext
  BY <1>2, LoopRefines DEF LoopNext
<1>3. CASE RequestNext
  <2>1. ASSUME NEW r \in Requests,
               \/ Call(r) \/ Ensured(r) \/ StartSpam(r) \/ RefreshLoop(r) \/ Fail(r)
               \/ DeleteSlotCall(r) \/ DeleteSlot(r)
        PROVE  Stutter
    BY <2>1, RequestRefines
  <2>2. ASSUME NEW r \in Requests, NEW c \in Chats, UpsertChat(r, c) PROVE Quota!Next
    BY <2>2, OperatorRefines DEF UpsertChat
  <2>3. ASSUME NEW r \in Requests, NEW S \in SUBSET Chats, NEW on \in BOOLEAN,
               BulkSetIds(r, S, on) \/ BulkSetAll(r, S, on)
        PROVE  Quota!Next
    BY <2>3, OperatorRefines DEF BulkSetIds, BulkSetAll, SetEnabled
  <2>4. QED
    BY <1>3, <2>1, <2>2, <2>3 DEF RequestNext
<1>4. CASE OperatorNext
  <2>1. CASE StopSpam
    BY <2>1, SameSends, QuietStep DEF StopSpam, loopVars
  <2>2. CASE AddSlot
    BY <2>2, OperatorRefines DEF AddSlot
  <2>3. CASE Reboot
    BY <2>3, RebootRefines DEF Quota!Next
  <2>4. ASSUME NEW c \in Chats, DeleteChat(c) PROVE Quota!Next
    BY <2>4, OperatorRefines DEF DeleteChat
  <2>5. ASSUME ButtonOther \/ \E o \in Objs : ButtonStop(o) \/ ButtonStart(o) PROVE Stutter
    BY <2>5, ButtonRefines
  <2>6. QED
    BY <1>4, <2>1, <2>2, <2>3, <2>4, <2>5 DEF OperatorNext
<1>5. CASE UNCHANGED vars
  BY <1>5, SameSends, QuietStep DEF vars, loopVars
<1>6. QED
  BY <1>2, <1>3, <1>4, <1>5 DEF Next

\* The loops implement the quota: for any chats, tasks, objects and requests, a
\* send is counted once and begins below the limit, and only the operator enables.
THEOREM SpamLoopKeepsQuota == Spec => KeepsQuota
<1>1. Init => Quota!Init
  BY DEF Init, Quota!Init, Counts, UnderWay, InFlight, NoConfig
<1>2. TypeOK /\ TypeOK' /\ [Next]_vars => [Quota!Next]_(Quota!vars)
  BY QuotaStep
<1>3. QED
  BY <1>1, <1>2, SpamLoopTyped, PTL DEF Spec, KeepsQuota, Quota!Spec
=============================================================================
