--------------------------- MODULE Inviter_proofs ---------------------------
(***************************************************************************)
(* Proofs about Inviter, for any finite set of users and any numbers of    *)
(* sources, parse requests, limits, rows and attempts.                     *)
(***************************************************************************)
EXTENDS Inviter, FiniteSetTheorems, TLAPS

-----------------------------------------------------------------------------
(* What the pieces of the actions do.                                      *)

JobType == [step : {"idle", "created", "connect", "resolve", "invite", "pause"},
            limit : Nat, todo : SUBSET Entry, skip : SUBSET Users, entry : Entry]

ParseType == [step : {"idle", "call", "created", "scan"},
              src : Sources \cup {NoSource}, force : BOOLEAN, skip : SUBSET Users]

LEMMA NoRowType == NoRow \in Row
BY DEF NoRow, Row

LEMMA NoJobType == NoJob \in JobType
BY DEF NoJob, JobType, NoEntry, Entry

LEMMA NoParseType == NoParse \in ParseType
BY DEF NoParse, ParseType

LEMMA SnapshotEntries ==
  ASSUME NEW q, NEW n, NEW e \in Snapshot(q, n)
  PROVE  e.user \in Users /\ Queued(q, e.user) /\ e.id = q[e.user].id
BY DEF Snapshot, Entries

LEMMA SnapshotType ==
  ASSUME NEW q \in [Users -> Row], NEW n
  PROVE  Snapshot(q, n) \in SUBSET Entry
BY DEF Snapshot, Entries, Entry, Row

LEMMA WithoutType ==
  ASSUME NEW q \in [Users -> Row], NEW d
  PROVE  Without(q, d) \in [Users -> Row]
BY NoRowType DEF Without

\* A row is left as it was, or is removed because one of the entries has its id.
LEMMA WithoutRow ==
  ASSUME NEW q, NEW d, NEW u \in Users
  PROVE  \/ Without(q, d)[u] = q[u] /\ \A e \in d : e.id # q[u].id
         \/ Without(q, d)[u] = NoRow /\ \E e \in d : e.id = q[u].id
BY DEF Without

LEMMA WithoutNone ==
  ASSUME NEW q \in [Users -> Row]
  PROVE  Without(q, {}) = q
BY DEF Without

\* What NextRow does, whichever of its cases applies: rows of skipped users go,
\* and the job ends or comes to an entry of another user.
Advance(j, q) ==
  \E d \in SUBSET {e \in j.todo : e.user \in j.skip} :
    /\ queue' = Without(q, d)
    /\ \/ job' = NoJob /\ stop' = FALSE
       \/ /\ ~stop
          /\ stop' = stop
          /\ \E e \in j.todo :
               /\ e.user \notin j.skip
               /\ job' = [j EXCEPT !.step = "resolve", !.todo = j.todo \ (d \cup {e}), !.entry = e]

LEMMA NextRowAdvances ==
  ASSUME NEW j \in JobType, NEW q \in [Users -> Row], NextRow(j, q)
  PROVE  Advance(j, q)
<1> DEFINE open == {e \in j.todo : e.user \notin j.skip}
<1> USE DEF Advance, EndJob
<1>1. CASE stop /\ EndJob /\ queue' = q
  <2>1. {} \in SUBSET {e \in j.todo : e.user \in j.skip}
    OBVIOUS
  <2>2. QED
    BY <1>1, <2>1, WithoutNone
<1>2. CASE open = {} /\ EndJob /\ queue' = Without(q, j.todo)
  <2>1. j.todo \in SUBSET {e \in j.todo : e.user \in j.skip}
    BY <1>2
  <2>2. QED
    BY <1>2, <2>1
<1>3. ASSUME NEW entry \in open, \A e \in open : entry.id <= e.id, ~stop,
             queue' = Without(q, {e \in j.todo : e.id < entry.id}),
             job' = [j EXCEPT !.step = "resolve",
                              !.todo = @ \ ({e \in j.todo : e.id < entry.id} \cup {entry}),
                              !.entry = entry],
             UNCHANGED stop
      PROVE  Advance(j, q)
  <2> DEFINE d == {e \in j.todo : e.id < entry.id}
  <2>1. ASSUME NEW e \in d PROVE e.user \in j.skip
    <3>1. e.id \in Nat /\ entry.id \in Nat
      BY DEF JobType, Entry
    <3>2. ~(entry.id <= e.id)
      BY <3>1
    <3>3. QED
      BY <1>3, <3>2
  <2>2. d \in SUBSET {e \in j.todo : e.user \in j.skip}
    BY <2>1
  <2>3. job' = [j EXCEPT !.step = "resolve", !.todo = j.todo \ (d \cup {entry}), !.entry = entry]
    BY <1>3 DEF JobType
  <2> HIDE DEF d
  <2>4. queue' = Without(q, d) /\ entry \in j.todo /\ entry.user \notin j.skip
    BY <1>3 DEF d
  <2>5. QED
    BY <1>3, <2>2, <2>3, <2>4
<1>4. QED
  BY <1>1, <1>2, <1>3 DEF NextRow

LEMMA AdvanceType ==
  ASSUME NEW j \in JobType, NEW q \in [Users -> Row], stop \in BOOLEAN, Advance(j, q)
  PROVE  queue' \in [Users -> Row] /\ job' \in JobType /\ stop' \in BOOLEAN
<1>1. PICK d \in SUBSET {e \in j.todo : e.user \in j.skip} :
        /\ queue' = Without(q, d)
        /\ \/ job' = NoJob /\ stop' = FALSE
           \/ /\ ~stop
              /\ stop' = stop
              /\ \E e \in j.todo :
                   job' = [j EXCEPT !.step = "resolve", !.todo = j.todo \ (d \cup {e}), !.entry = e]
  BY DEF Advance
<1>2. queue' \in [Users -> Row]
  BY <1>1, WithoutType
<1>3. ASSUME NEW e \in j.todo
      PROVE  [j EXCEPT !.step = "resolve", !.todo = j.todo \ (d \cup {e}), !.entry = e] \in JobType
  BY DEF JobType
<1>4. job' \in JobType /\ stop' \in BOOLEAN
  BY <1>1, <1>3, NoJobType
<1>5. QED
  BY <1>2, <1>4

LEMMA FreshFinite ==
  ASSUME TypeOK, NEW p \in Parsers, parse[p].src \in Sources
  PROVE  /\ Fresh(p) \in SUBSET Users
         /\ IsFiniteSet(Fresh(p))
         /\ Cardinality(Fresh(p)) \in Nat
<1>1. Members[parse[p].src] \in SUBSET Users
  BY InviterAssumption
<1>2. Fresh(p) \in SUBSET Users
  BY <1>1 DEF Fresh
<1>3. QED
  BY <1>2, InviterAssumption, FS_Subset, FS_CardinalityType

\* An insertion gives the fresh users rows with new ids and touches no other row.
LEMMA InsertEffect ==
  ASSUME TypeOK, NEW p \in Parsers, parse[p].src \in Sources, Insert(p)
  PROVE  /\ queue' \in [Users -> Row]
         /\ added' \in [Users -> Nat]
         /\ nextId' \in Nat \ {0}
         /\ nextId <= nextId'
         /\ \A u \in Users \ Fresh(p) : queue'[u] = queue[u] /\ added'[u] = added[u]
         /\ \A u \in Fresh(p) : /\ ~Queued(queue, u)
                                /\ nextId <= queue'[u].id /\ queue'[u].id < nextId'
                                /\ added'[u] = added[u] + 1
         /\ \A u, v \in Fresh(p) : u # v => queue'[u].id # queue'[v].id
<1> DEFINE F == Fresh(p)
           n == Cardinality(F)
<1>1. F \in SUBSET Users /\ n \in Nat
  BY FreshFinite
<1>2. nextId \in Nat \ {0} /\ queue \in [Users -> Row] /\ added \in [Users -> Nat]
  BY DEF TypeOK
<1>3. \A u \in F : ~Queued(queue, u)
  BY DEF Fresh
<1> HIDE DEF F, n
<1>4. PICK id \in [F -> nextId..(nextId + n - 1)] :
        /\ \A u, v \in F : u # v => id[u] # id[v]
        /\ queue' = [u \in Users |-> IF u \in F
                                     THEN [id |-> id[u], src |-> parse[p].src] ELSE queue[u]]
        /\ nextId' = nextId + n
        /\ added' = [u \in Users |-> IF u \in F THEN added[u] + 1 ELSE added[u]]
  BY DEF Insert, F, n
<1>5. \A u \in F : id[u] \in Nat /\ nextId <= id[u] /\ id[u] < nextId + n
  BY <1>1, <1>2, <1>4
<1>6. \A u \in F : queue'[u].id = id[u]
  <2> TAKE u \in F
  <2>1. queue'[u] = [id |-> id[u], src |-> parse[p].src]
    BY <1>1, <1>4
  <2>2. QED
    BY <2>1
<1>7. queue' \in [Users -> Row]
  BY <1>2, <1>4, <1>5 DEF Row
<1>8. added' \in [Users -> Nat]
  BY <1>2, <1>4
<1>9. \A u \in F : added'[u] = added[u] + 1
  BY <1>1, <1>4
<1>10. \A u \in Users \ F : queue'[u] = queue[u] /\ added'[u] = added[u]
  BY <1>4
<1>11. nextId' \in Nat \ {0} /\ nextId <= nextId'
  BY <1>1, <1>2, <1>4
<1>12. \A u \in F : nextId <= queue'[u].id /\ queue'[u].id < nextId'
  BY <1>4, <1>5, <1>6
<1>13. \A u, v \in F : u # v => queue'[u].id # queue'[v].id
  BY <1>4, <1>6
<1>14. QED
  BY <1>3, <1>7, <1>8, <1>9, <1>10, <1>11, <1>12, <1>13 DEF F

-----------------------------------------------------------------------------
(* Types.                                                                  *)

DbType ==
  /\ queue \in [Users -> Row]
  /\ nextId \in Nat \ {0}
  /\ parsed \in SUBSET Sources
  /\ blocked \in SUBSET Users

HistoryType ==
  /\ added \in [Users -> Nat]
  /\ attempts \in [Users -> Nat]
  /\ kept \in [Users -> Nat]
  /\ late \in Nat
  /\ refusal \in [Users -> {"none", "lost", "recorded"}]

LEMMA TypeParts ==
  TypeOK <=> /\ DbType
             /\ job \in JobType
             /\ stop \in BOOLEAN
             /\ parse \in [Parsers -> ParseType]
             /\ parseTask \in Parsers \cup {NoParser}
             /\ HistoryType
BY DEF TypeOK, DbType, JobType, ParseType, HistoryType

LEMMA TypePartsNext ==
  TypeOK' <=> /\ DbType'
              /\ job' \in JobType
              /\ stop' \in BOOLEAN
              /\ parse' \in [Parsers -> ParseType]
              /\ parseTask' \in Parsers \cup {NoParser}
              /\ HistoryType'
BY DEF TypeOK, DbType, JobType, ParseType, HistoryType

\* The entries a job holds: those left, and the one it is at.
HeldBy(j) == j.todo \cup (IF j.step \in {"resolve", "invite"} THEN {j.entry} ELSE {})

\* Queue q, with ids below n, and job j agree: an id belongs to one user, in the
\* queue, in the snapshot and between them, and no entry comes twice.
Agree(q, n, j) ==
  /\ \A u \in Users : q[u].id < n
  /\ \A u, v \in Users : Queued(q, u) /\ q[u].id = q[v].id => u = v
  /\ \A e \in HeldBy(j) : e.user \in Users /\ e.id # 0 /\ e.id < n
  /\ \A d, e \in HeldBy(j) : d.id = e.id \/ d.user = e.user => d = e
  /\ \A e \in HeldBy(j), u \in Users : q[u].id = e.id => u = e.user
  /\ j.step \in {"resolve", "invite"} => j.entry \notin j.todo

\* A parse under way has a source.
HasSource == \A p \in Parsers : parse[p].step # "idle" => parse[p].src \in Sources

TypeInv == TypeOK /\ HasSource /\ Agree(queue, nextId, job)

LEMMA TypeInit == Init => TypeInv
<1> SUFFICES ASSUME Init PROVE TypeInv
  OBVIOUS
<1> USE DEF Init
<1>1. DbType
  BY NoRowType DEF DbType
<1>2. HistoryType
  BY DEF HistoryType
<1>3. parse \in [Parsers -> ParseType]
  BY NoParseType
<1>4. TypeOK
  BY <1>1, <1>2, <1>3, NoJobType, TypeParts
<1>5. Agree(queue, nextId, job)
  <2>1. HeldBy(NoJob) = {} /\ NoJob.step = "idle"
    BY DEF HeldBy, NoJob
  <2>2. QED
    BY <2>1 DEF Agree, NoRow, Queued
<1>6. HasSource
  BY DEF HasSource, NoParse
<1>7. QED
  BY <1>4, <1>5, <1>6 DEF TypeInv

LEMMA Bumped ==
  ASSUME NEW f \in [Users -> Nat], NEW u
  PROVE  [f EXCEPT ![u] = @ + 1] \in [Users -> Nat]
<1> DEFINE g == [f EXCEPT ![u] = @ + 1]
<1>1. \A v \in Users : g[v] = IF v = u THEN f[v] + 1 ELSE f[v]
  OBVIOUS
<1>2. \A v \in Users : g[v] \in Nat
  BY <1>1
<1>3. QED
  BY <1>2

Refusals == [Users -> {"none", "lost", "recorded"}]

LEMMA RefusalType ==
  ASSUME refusal \in Refusals, MayLoseRefusal \/ Learn
  PROVE  refusal' \in Refusals
BY DEF Refusals, MayLoseRefusal, Learn

LEMMA EndParseType ==
  ASSUME parse \in [Parsers -> ParseType], NEW p \in Parsers, EndParse(p)
  PROVE  parse' \in [Parsers -> ParseType] /\ parseTask' \in Parsers \cup {NoParser}
BY NoParseType DEF EndParse

LEMMA JobTypeStep ==
  ASSUME TypeInv, JobNext
  PROVE  TypeOK'
<1> USE TypeParts, TypePartsNext DEF TypeInv
<1> USE DEF jobVars, parseVars, dbVars, history
<1>1. CASE BeginJob
  <2>1. [job EXCEPT !.step = "connect", !.todo = Snapshot(queue, job.limit)] \in JobType
    BY SnapshotType DEF JobType, DbType
  <2>2. job' \in JobType /\ stop' \in BOOLEAN
    BY <1>1, <2>1, NoJobType DEF BeginJob, EndJob
  <2>3. QED
    BY <1>1, <2>2 DEF BeginJob, DbType, HistoryType
<1>2. CASE Connected
  <2>1. PICK todo \in {job.todo, Snapshot(queue, job.limit)} :
          NextRow([job EXCEPT !.todo = todo, !.skip = blocked], queue)
    BY <1>2 DEF Connected
  <2>2. [job EXCEPT !.todo = todo, !.skip = blocked] \in JobType
    <3>1. todo \in SUBSET Entry
      BY SnapshotType DEF JobType, DbType
    <3>2. QED
      BY <3>1 DEF JobType, DbType
  <2>3. queue' \in [Users -> Row] /\ job' \in JobType /\ stop' \in BOOLEAN
    BY <2>1, <2>2, NextRowAdvances, AdvanceType DEF DbType
  <2>4. QED
    BY <1>2, <2>3 DEF Connected, DbType, HistoryType
<1>3. CASE JobFails
  <2>1. job' \in JobType /\ stop' \in BOOLEAN
    BY <1>3, NoJobType DEF JobFails, EndJob
  <2>2. kept' \in [Users -> Nat]
    BY <1>3, Bumped DEF JobFails, HistoryType
  <2>3. refusal' \in Refusals
    BY <1>3, RefusalType DEF JobFails, HistoryType, Refusals
  <2>4. QED
    BY <1>3, <2>1, <2>2, <2>3 DEF JobFails, DbType, HistoryType, Refusals
<1>4. CASE Resolved
  <2>1. job' \in JobType
    BY <1>4 DEF Resolved, JobType
  <2>2. attempts' \in [Users -> Nat] /\ late' \in Nat
    BY <1>4, Bumped DEF Resolved, HistoryType
  <2>3. QED
    BY <1>4, <2>1, <2>2 DEF Resolved, DbType, HistoryType
<1>5. CASE Unresolved
  <2>1. Without(queue, {job.entry}) \in [Users -> Row]
    BY WithoutType DEF DbType
  <2>2. queue' \in [Users -> Row] /\ job' \in JobType /\ stop' \in BOOLEAN
    BY <1>5, <2>1, NextRowAdvances, AdvanceType DEF Unresolved
  <2>3. QED
    BY <1>5, <2>2 DEF Unresolved, DbType, HistoryType
<1>6. ASSUME queue' = Without(queue, {job.entry}), job' = [job EXCEPT !.step = "pause"]
      PROVE  queue' \in [Users -> Row] /\ job' \in JobType
  BY <1>6, WithoutType DEF DbType, JobType
<1>7. CASE Done
  <2>1. refusal' \in Refusals
    BY <1>7, RefusalType DEF Done, HistoryType, Refusals
  <2>2. QED
    BY <1>6, <1>7, <2>1 DEF Done, DbType, HistoryType, Refusals
<1>8. CASE Refused
  <2>1. blocked' \in SUBSET Users
    BY <1>8 DEF Refused, Agree, HeldBy, DbType
  <2>2. refusal' \in Refusals
    BY <1>8, RefusalType DEF Refused, HistoryType, Refusals
  <2>3. QED
    BY <1>6, <1>8, <2>1, <2>2 DEF Refused, DbType, HistoryType, Refusals
<1>9. CASE TargetFails
  BY <1>9, NoJobType, Bumped DEF TargetFails, EndJob, DbType, HistoryType
<1>10. CASE Flooded
  BY <1>10, NoJobType, WithoutType DEF Flooded, EndJob, DbType, HistoryType
<1>11. CASE Resume
  <2>1. queue' \in [Users -> Row] /\ job' \in JobType /\ stop' \in BOOLEAN
    BY <1>11, NextRowAdvances, AdvanceType DEF Resume, DbType
  <2>2. QED
    BY <1>11, <2>1 DEF Resume, DbType, HistoryType
<1>12. QED
  BY <1>1, <1>2, <1>3, <1>4, <1>5, <1>7, <1>8, <1>9, <1>10, <1>11 DEF JobNext

LEMMA ParseTypeStep ==
  ASSUME TypeInv, ParseNext
  PROVE  TypeOK' /\ HasSource'
<1> USE TypeParts, TypePartsNext DEF TypeInv
<1> USE DEF jobVars, parseVars, dbVars, history
<1>1. PICK p \in Parsers :
        \/ \E s \in Sources, force \in BOOLEAN : ParseCall(p, s, force)
        \/ ParseStart(p) \/ ParseRefused(p) \/ Scan(p) \/ Save(p) \/ ParseFails(p)
  BY DEF ParseNext
<1>2. ASSUME NEW r \in ParseType, r.step # "idle" => r.src \in Sources,
             parse' = [parse EXCEPT ![p] = r]
      PROVE  parse' \in [Parsers -> ParseType] /\ HasSource'
  BY <1>2 DEF HasSource
<1>3. ASSUME NEW s \in Sources, NEW force \in BOOLEAN, ParseCall(p, s, force)
      PROVE  TypeOK' /\ HasSource'
  <2> DEFINE r == [NoParse EXCEPT !.step = "call", !.src = s, !.force = force]
  <2>1. r \in ParseType /\ r.src \in Sources
    BY DEF NoParse, ParseType
  <2>2. parse' = [parse EXCEPT ![p] = r]
    BY <1>3 DEF ParseCall
  <2> HIDE DEF r
  <2>3. QED
    BY <1>2, <1>3, <2>1, <2>2 DEF ParseCall, DbType, HistoryType
<1>4. CASE ParseStart(p)
  <2> DEFINE r == [parse[p] EXCEPT !.step = "created"]
  <2>1. r \in ParseType /\ r.src \in Sources
    BY <1>4 DEF ParseStart, HasSource, ParseType
  <2>2. parse' = [parse EXCEPT ![p] = r]
    BY <1>4 DEF ParseStart
  <2> HIDE DEF r
  <2>3. QED
    BY <1>2, <1>4, <2>1, <2>2 DEF ParseStart, DbType, HistoryType
<1>5. NoParse \in ParseType /\ NoParse.step = "idle"
  BY NoParseType DEF NoParse
<1>6. CASE ParseRefused(p)
  BY <1>2, <1>5, <1>6 DEF ParseRefused, DbType, HistoryType
<1>7. ASSUME EndParse(p)
      PROVE  /\ parse' \in [Parsers -> ParseType]
             /\ parseTask' \in Parsers \cup {NoParser}
             /\ HasSource'
  BY <1>2, <1>5, <1>7 DEF EndParse
<1>8. CASE Scan(p)
  <2>1. CASE EndParse(p)
    BY <1>7, <1>8, <2>1 DEF Scan, DbType, HistoryType
  <2>2. CASE ~EndParse(p)
    <3> DEFINE r == [parse[p] EXCEPT !.step = "scan", !.skip = blocked]
    <3>1. r \in ParseType /\ r.src \in Sources
      BY <1>8 DEF Scan, HasSource, ParseType, DbType
    <3>2. parse' = [parse EXCEPT ![p] = r] /\ UNCHANGED parseTask
      BY <1>8, <2>2 DEF Scan
    <3> HIDE DEF r
    <3>3. QED
      BY <1>2, <1>8, <3>1, <3>2 DEF Scan, DbType, HistoryType
  <2>3. QED
    BY <2>1, <2>2
<1>9. CASE Save(p)
  <2>1. parse[p].src \in Sources
    BY <1>9 DEF Save, HasSource
  <2>2. queue' \in [Users -> Row] /\ added' \in [Users -> Nat] /\ nextId' \in Nat \ {0}
    BY <1>9, <2>1, InsertEffect DEF Save
  <2>3. QED
    BY <1>7, <1>9, <2>1, <2>2 DEF Save, DbType, HistoryType
<1>10. CASE ParseFails(p)
  BY <1>7, <1>10 DEF ParseFails, DbType, HistoryType
<1>11. QED
  BY <1>1, <1>3, <1>4, <1>6, <1>8, <1>9, <1>10

LEMMA OperatorTypeStep ==
  ASSUME TypeInv, OperatorNext
  PROVE  TypeOK' /\ HasSource'
<1> USE TypeParts, TypePartsNext DEF TypeInv
<1> USE DEF jobVars, parseVars, dbVars, history, HasSource
<1>1. ASSUME NEW n \in Limits, StartJob(n) PROVE TypeOK' /\ HasSource'
  <2>1. job' \in JobType
    BY <1>1, NoJobType, InviterAssumption DEF StartJob, JobType
  <2>2. QED
    BY <1>1, <2>1 DEF StartJob, DbType, HistoryType
<1>2. CASE StopJob
  BY <1>2 DEF StopJob, DbType, HistoryType
<1>3. ASSUME NEW s \in Sources, ClearSource(s) PROVE TypeOK' /\ HasSource'
  <2>1. queue' \in [Users -> Row]
    BY <1>3, NoRowType DEF ClearSource, DbType
  <2>2. QED
    BY <1>3, <2>1 DEF ClearSource, DbType, HistoryType
<1>4. QED
  BY <1>1, <1>2, <1>3 DEF OperatorNext

LEMMA CrashTypeStep ==
  ASSUME TypeInv, Crash
  PROVE  TypeOK' /\ HasSource'
<1> USE TypeParts, TypePartsNext DEF TypeInv
<1>1. DbType' /\ added' \in [Users -> Nat]
  <2>1. CASE UNCHANGED <<dbVars, added>>
    BY <2>1 DEF dbVars, DbType, HistoryType
  <2>2. ASSUME NEW p \in Parsers, parse[p].step = "scan", Insert(p), UNCHANGED <<parsed, blocked>>
        PROVE  DbType' /\ added' \in [Users -> Nat]
    <3>1. parse[p].src \in Sources
      BY <2>2 DEF HasSource
    <3>2. QED
      BY <2>2, <3>1, InsertEffect DEF DbType
  <2>3. CASE /\ job.step = "invite"
             /\ blocked' = blocked \cup {job.entry.user}
             /\ UNCHANGED <<queue, nextId, parsed, added>>
    <3>1. job.entry.user \in Users
      BY <2>3 DEF Agree, HeldBy
    <3>2. QED
      BY <2>3, <3>1 DEF DbType, HistoryType
  <2>4. QED
    BY <2>1, <2>2, <2>3 DEF Crash, Uncommitted
<1>2. kept' \in [Users -> Nat]
  BY Bumped DEF Crash, HistoryType
<1>3. parse' \in [Parsers -> ParseType] /\ HasSource'
  BY NoParseType DEF Crash, HasSource, NoParse
<1>4. refusal' \in Refusals
  BY RefusalType DEF Crash, Uncommitted, HistoryType, Refusals
<1>5. QED
  BY <1>1, <1>2, <1>3, <1>4, NoJobType DEF Crash, HistoryType, Refusals

-----------------------------------------------------------------------------
(* The snapshot and the queue agree.                                       *)

\* Rows may only have gone.
Fewer(r, q) == \A u \in Users : r[u] = q[u] \/ r[u] = NoRow

LEMMA WithoutFewer ==
  ASSUME NEW q, NEW d
  PROVE  Fewer(Without(q, d), q)
BY WithoutRow DEF Fewer

LEMMA AgreeFewer ==
  ASSUME NEW q, NEW n \in Nat \ {0}, NEW j, NEW r, NEW k,
         Agree(q, n, j),
         Fewer(r, q),
         HeldBy(k) \subseteq HeldBy(j),
         k.step \in {"resolve", "invite"} => k.entry \notin k.todo
  PROVE  Agree(r, n, k)
<1>1. \A u \in Users : r[u] = q[u] \/ r[u].id = 0
  BY DEF Fewer, NoRow
<1>2. \A u \in Users : r[u].id < n
  BY <1>1 DEF Agree
<1>3. \A u, v \in Users : Queued(r, u) /\ r[u].id = r[v].id => u = v
  BY <1>1 DEF Agree, Queued
<1>4. \A e \in HeldBy(k), u \in Users : r[u].id = e.id => u = e.user
  BY <1>1 DEF Agree
<1>5. QED
  BY <1>2, <1>3, <1>4 DEF Agree

\* With no entry left there is nothing the job could disagree about.
LEMMA AgreeNoJob ==
  ASSUME NEW q, NEW n \in Nat \ {0}, NEW j, NEW r, Agree(q, n, j), Fewer(r, q)
  PROVE  Agree(r, n, NoJob)
<1>1. HeldBy(NoJob) = {} /\ NoJob.step = "idle"
  BY DEF HeldBy, NoJob
<1>2. QED
  BY <1>1, AgreeFewer

LEMMA AgreeSnapshot ==
  ASSUME NEW q \in [Users -> Row], NEW n \in Nat \ {0}, NEW j, NEW k, NEW m,
         Agree(q, n, j),
         k.todo \in {j.todo, Snapshot(q, m)},
         k.step = "connect"
  PROVE  Agree(q, n, k)
<1>1. HeldBy(k) = k.todo
  BY DEF HeldBy
<1>2. CASE k.todo = j.todo
  BY <1>1, <1>2, AgreeFewer DEF HeldBy, Fewer
<1>3. CASE k.todo = Snapshot(q, m)
  <2>1. \A e \in HeldBy(k) : e.user \in Users /\ e.id = q[e.user].id /\ Queued(q, e.user)
    BY <1>1, <1>3, SnapshotEntries
  <2>2. \A d, e \in HeldBy(k) : d.id = e.id \/ d.user = e.user => d = e
    <3> TAKE d, e \in HeldBy(k)
    <3> HAVE d.id = e.id \/ d.user = e.user
    <3>1. d.user = e.user /\ d.id = e.id
      BY <2>1 DEF Agree
    <3>2. d \in Entry /\ e \in Entry
      BY <1>1, <1>3, SnapshotType
    <3>3. QED
      BY <3>1, <3>2 DEF Entry
  <2>3. \A e \in HeldBy(k) : e.id # 0 /\ e.id < n
    BY <2>1 DEF Agree, Queued
  <2>4. \A e \in HeldBy(k), u \in Users : q[u].id = e.id => u = e.user
    BY <2>1 DEF Agree, Queued
  <2>5. QED
    BY <2>1, <2>2, <2>3, <2>4 DEF Agree
<1>4. QED
  BY <1>2, <1>3

LEMMA AgreeAdvance ==
  ASSUME NEW j \in JobType, NEW q \in [Users -> Row], NEW n \in Nat \ {0},
         Agree(q, n, j), Advance(j, q)
  PROVE  Agree(queue', n, job')
<1>1. PICK d \in SUBSET {e \in j.todo : e.user \in j.skip} :
        /\ queue' = Without(q, d)
        /\ \/ job' = NoJob
           \/ \E e \in j.todo :
                job' = [j EXCEPT !.step = "resolve", !.todo = j.todo \ (d \cup {e}), !.entry = e]
  BY DEF Advance
<1>2. CASE job' = NoJob
  BY <1>1, <1>2, AgreeNoJob, WithoutFewer
<1>3. ASSUME NEW e \in j.todo,
             job' = [j EXCEPT !.step = "resolve", !.todo = j.todo \ (d \cup {e}), !.entry = e]
      PROVE  Agree(queue', n, job')
  <2>1. job'.step = "resolve" /\ job'.todo = j.todo \ (d \cup {e}) /\ job'.entry = e
    BY <1>3 DEF JobType
  <2>2. HeldBy(job') \subseteq HeldBy(j)
    BY <2>1 DEF HeldBy
  <2>3. QED
    BY <1>1, <2>1, <2>2, AgreeFewer, WithoutFewer
<1>4. QED
  BY <1>1, <1>2, <1>3

LEMMA AgreeInsert ==
  ASSUME TypeInv, NEW p \in Parsers, parse[p].src \in Sources, Insert(p)
  PROVE  Agree(queue', nextId', job)
<1> DEFINE F == Fresh(p)
<1>1. /\ \A u \in Users \ F : queue'[u] = queue[u]
      /\ \A u \in F : nextId <= queue'[u].id /\ queue'[u].id < nextId'
      /\ \A u, v \in F : u # v => queue'[u].id # queue'[v].id
      /\ nextId <= nextId'
      /\ nextId' \in Nat
      /\ queue' \in [Users -> Row]
  BY InsertEffect DEF TypeInv
<1>2. /\ Agree(queue, nextId, job)
      /\ nextId \in Nat
      /\ queue \in [Users -> Row]
      /\ job \in JobType
  BY TypeParts DEF TypeInv, DbType
<1>3. \A e \in HeldBy(job) : e.id \in Nat
  BY <1>2 DEF HeldBy, JobType, Entry
<1>4. \A u \in Users : queue[u].id \in Nat /\ queue'[u].id \in Nat
  BY <1>1, <1>2 DEF Row
<1> HIDE DEF F
<1>5. \A u \in Users : queue'[u].id < nextId'
  BY <1>1, <1>2, <1>4 DEF Agree
<1>6. \A u, v \in Users : Queued(queue', u) /\ queue'[u].id = queue'[v].id => u = v
  <2> SUFFICES ASSUME NEW u \in Users, NEW v \in Users,
                      Queued(queue', u), queue'[u].id = queue'[v].id
               PROVE  u = v
    OBVIOUS
  <2>1. CASE u \in F /\ v \in F
    BY <1>1, <2>1
  <2>2. CASE u \notin F /\ v \notin F
    BY <1>1, <1>2, <2>2 DEF Agree, Queued
  <2>3. ASSUME NEW x \in Users, NEW y \in Users, x \in F, y \notin F
        PROVE  queue'[x].id # queue'[y].id
    <3>1. queue'[y].id < nextId /\ nextId <= queue'[x].id
      BY <1>1, <1>2, <2>3 DEF Agree
    <3>2. QED
      BY <1>2, <1>4, <3>1
  <2>4. QED
    BY <2>1, <2>2, <2>3
<1>7. \A e \in HeldBy(job) : e.user \in Users /\ e.id # 0 /\ e.id < nextId'
  BY <1>1, <1>2, <1>3 DEF Agree
<1>8. \A e \in HeldBy(job), u \in Users : queue'[u].id = e.id => u = e.user
  <2> SUFFICES ASSUME NEW e \in HeldBy(job), NEW u \in Users, queue'[u].id = e.id
               PROVE  u = e.user
    OBVIOUS
  <2>1. u \notin F
    BY <1>1, <1>2, <1>3, <1>4 DEF Agree
  <2>2. QED
    BY <1>1, <1>2, <2>1 DEF Agree
<1>9. QED
  BY <1>2, <1>5, <1>6, <1>7, <1>8 DEF Agree

LEMMA AgreeStep ==
  ASSUME TypeInv, [Next]_vars
  PROVE  Agree(queue', nextId', job')
<1> USE DEF jobVars, parseVars, dbVars, history
<1>1. /\ Agree(queue, nextId, job)
      /\ nextId \in Nat \ {0}
      /\ queue \in [Users -> Row]
      /\ job \in JobType
      /\ blocked \in SUBSET Users
  BY TypeParts DEF TypeInv, DbType
<1>2. Fewer(queue, queue)
  BY DEF Fewer
<1>3. \A d : Fewer(Without(queue, d), queue)
  BY WithoutFewer
<1>4. CASE UNCHANGED <<queue, nextId, job>>
  BY <1>1, <1>4
<1>5. CASE job' = NoJob /\ Fewer(queue', queue) /\ UNCHANGED nextId
  BY <1>1, <1>5, AgreeNoJob
<1>6. ASSUME NEW j \in JobType, NEW q \in [Users -> Row], Agree(q, nextId, j), NextRow(j, q),
             UNCHANGED nextId
      PROVE  Agree(queue', nextId', job')
  BY <1>1, <1>6, NextRowAdvances, AgreeAdvance
<1>7. CASE JobNext
  <2>1. CASE BeginJob
    <3>1. CASE EndJob
      BY <1>2, <1>5, <2>1, <3>1 DEF BeginJob, EndJob
    <3>2. CASE ~EndJob
      <4>1. job'.step = "connect" /\ job'.todo = Snapshot(queue, job.limit)
        BY <1>1, <2>1, <3>2 DEF BeginJob, JobType
      <4>2. QED
        BY <1>1, <2>1, <4>1, AgreeSnapshot DEF BeginJob
    <3>3. QED
      BY <3>1, <3>2
  <2>2. CASE Connected
    <3>1. PICK todo \in {job.todo, Snapshot(queue, job.limit)} :
            NextRow([job EXCEPT !.todo = todo, !.skip = blocked], queue)
      BY <2>2 DEF Connected
    <3> DEFINE k == [job EXCEPT !.todo = todo, !.skip = blocked]
    <3>2. k \in JobType /\ k.todo = todo /\ k.step = "connect"
      <4>1. todo \in SUBSET Entry
        BY <1>1, SnapshotType DEF JobType
      <4>2. QED
        BY <1>1, <2>2, <4>1 DEF Connected, JobType
    <3> HIDE DEF k
    <3>3. Agree(queue, nextId, k)
      BY <1>1, <3>2, AgreeSnapshot
    <3>4. QED
      BY <1>1, <1>6, <2>2, <3>1, <3>2, <3>3 DEF Connected, k
  <2>3. CASE JobFails
    BY <1>2, <1>5, <2>3 DEF JobFails, EndJob
  <2>4. ASSUME NEW s \in {"invite", "pause"}, job' = [job EXCEPT !.step = s], Fewer(queue', queue),
               job.step \in {"resolve", "invite"}, UNCHANGED nextId
        PROVE  Agree(queue', nextId', job')
    <3>1. job'.step = s /\ job'.todo = job.todo /\ job'.entry = job.entry
      BY <1>1, <2>4 DEF JobType
    <3>2. HeldBy(job') \subseteq HeldBy(job)
      BY <2>4, <3>1 DEF HeldBy
    <3>3. job.entry \notin job.todo
      BY <1>1, <2>4 DEF Agree
    <3>4. QED
      BY <1>1, <2>4, <3>1, <3>2, <3>3, AgreeFewer
  <2>5. CASE Resolved
    BY <1>2, <2>4, <2>5 DEF Resolved
  <2>6. CASE Unresolved
    <3>0. job.step = "resolve" /\ job.entry \notin job.todo
      BY <1>1, <2>6 DEF Agree, Unresolved
    <3>1. Agree(Without(queue, {job.entry}), nextId, job)
      BY <1>1, <1>3, <3>0, AgreeFewer
    <3>2. QED
      BY <1>1, <1>6, <2>6, <3>1, WithoutType DEF Unresolved
  <2>7. CASE Done
    BY <1>3, <2>4, <2>7 DEF Done
  <2>8. CASE Refused
    BY <1>3, <2>4, <2>8 DEF Refused
  <2>9. CASE TargetFails
    BY <1>2, <1>5, <2>9 DEF TargetFails, EndJob
  <2>10. CASE Flooded
    BY <1>3, <1>5, <2>10 DEF Flooded, EndJob
  <2>11. CASE Resume
    BY <1>1, <1>6, <2>11 DEF Resume
  <2>12. QED
    BY <1>7, <2>1, <2>2, <2>3, <2>5, <2>6, <2>7, <2>8, <2>9, <2>10, <2>11 DEF JobNext
<1>8. CASE ParseNext
  <2>1. PICK p \in Parsers :
          \/ \E s \in Sources, force \in BOOLEAN : ParseCall(p, s, force)
          \/ ParseStart(p) \/ ParseRefused(p) \/ Scan(p) \/ Save(p) \/ ParseFails(p)
    BY <1>8 DEF ParseNext
  <2>2. CASE Save(p)
    <3>1. parse[p].src \in Sources
      BY <2>2 DEF Save, TypeInv, HasSource
    <3>2. QED
      BY <2>2, <3>1, AgreeInsert DEF Save
  <2>3. QED
    BY <1>4, <2>1, <2>2 DEF ParseCall, ParseStart, ParseRefused, Scan, ParseFails
<1>9. CASE OperatorNext
  <2>1. ASSUME NEW n \in Limits, StartJob(n) PROVE Agree(queue', nextId', job')
    <3>1. HeldBy(job') = {} /\ job'.step = "created"
      BY <2>1 DEF StartJob, NoJob, HeldBy
    <3>2. QED
      BY <1>1, <1>2, <2>1, <3>1, AgreeFewer DEF StartJob
  <2>2. CASE StopJob
    BY <1>4, <2>2 DEF StopJob
  <2>3. ASSUME NEW s \in Sources, ClearSource(s) PROVE Agree(queue', nextId', job')
    <3>1. Fewer(queue', queue)
      BY <2>3 DEF ClearSource, Fewer
    <3>2. nextId' = nextId /\ job' = job
      BY <2>3 DEF ClearSource
    <3>3. job.step \in {"resolve", "invite"} => job.entry \notin job.todo
      BY <1>1 DEF Agree
    <3>4. QED
      BY <1>1, <3>1, <3>2, <3>3, AgreeFewer
  <2>4. QED
    BY <1>9, <2>1, <2>2, <2>3 DEF OperatorNext
<1>10. CASE Crash
  <2>1. CASE UNCHANGED <<queue, nextId>>
    BY <1>2, <1>5, <1>10, <2>1 DEF Crash
  <2>2. ASSUME NEW p \in Parsers, parse[p].step = "scan", Insert(p)
        PROVE  Agree(queue', nextId', job')
    <3>1. parse[p].src \in Sources
      BY <2>2 DEF TypeInv, HasSource
    <3>2. Agree(queue', nextId', job) /\ nextId' \in Nat \ {0}
      BY <2>2, <3>1, AgreeInsert, InsertEffect DEF TypeInv
    <3>3. Fewer(queue', queue')
      BY DEF Fewer
    <3>4. QED
      BY <1>10, <3>2, <3>3, AgreeNoJob DEF Crash
  <2>3. QED
    BY <1>10, <2>1, <2>2 DEF Crash, Uncommitted
<1>11. CASE UNCHANGED vars
  BY <1>4, <1>11 DEF vars
<1>12. QED
  BY <1>7, <1>8, <1>9, <1>10, <1>11 DEF Next

LEMMA TypeStep ==
  ASSUME TypeInv, [Next]_vars
  PROVE  TypeInv'
<1>1. Agree(queue', nextId', job')
  BY AgreeStep
<1>2. CASE JobNext
  <2>1. UNCHANGED parse
    BY <1>2 DEF JobNext, BeginJob, Connected, JobFails, Resolved, Unresolved, Done, Refused,
                TargetFails, Flooded, Resume, parseVars
  <2>2. QED
    BY <1>1, <1>2, <2>1, JobTypeStep DEF TypeInv, HasSource
<1>3. CASE ParseNext
  BY <1>1, <1>3, ParseTypeStep DEF TypeInv
<1>4. CASE OperatorNext
  BY <1>1, <1>4, OperatorTypeStep DEF TypeInv
<1>5. CASE Crash
  BY <1>1, <1>5, CrashTypeStep DEF TypeInv
<1>6. CASE UNCHANGED vars
  <2>1. TypeOK'
    BY <1>6, TypeParts, TypePartsNext
       DEF TypeInv, vars, dbVars, jobVars, parseVars, history, DbType, HistoryType
  <2>2. QED
    BY <1>1, <1>6, <2>1 DEF TypeInv, HasSource, vars, parseVars
<1>7. QED
  BY <1>2, <1>3, <1>4, <1>5, <1>6 DEF Next

\* The type invariant, with what makes it inductive.
LEMMA InviterInductive == Spec => []TypeInv
<1>1. Init => TypeInv
  BY TypeInit
<1>2. TypeInv /\ [Next]_vars => TypeInv'
  BY TypeStep
<1>3. QED
  BY <1>1, <1>2, PTL DEF Spec

\* Every variable keeps its type, whatever jobs, parses and crashes do.
THEOREM InviterTyped == Spec => []TypeOK
<1>1. TypeInv => TypeOK
  BY DEF TypeInv
<1>2. QED
  BY <1>1, InviterInductive, PTL

-----------------------------------------------------------------------------
(* A stop, a refusal, a parsed source.                                     *)

\* No invitation was made after a stop as long as nobody asked for one, and
\* none will be before the job comes to the row it is asked at.
PromptInv ==
  /\ late <= 1
  /\ Running /\ ~stop => late = 0
  /\ job.step \in {"created", "connect", "resolve"} => late = 0

\* The job knows everybody who is blocked, or is at another user.
RefusalInv ==
  /\ job.skip \subseteq blocked
  /\ job.step \in {"resolve", "invite", "pause"} =>
       \A e \in job.todo : e.user \in blocked => e.user \in job.skip
  /\ job.step \in {"resolve", "invite"} => job.entry.user \notin blocked

\* Whoever is in the queue was inserted, and whom a parse skips is blocked.
QueuedInv ==
  /\ \A p \in Parsers : parse[p].skip \subseteq blocked
  /\ \A u \in Users : Queued(queue, u) => added[u] > 0
  /\ ParsedWasQueued

\* Whose refusal the job read is blocked.
LearnedInv == \A u \in Users : refusal[u] = "recorded" => u \in blocked

SafeInv == PromptInv /\ RefusalInv /\ QueuedInv /\ LearnedInv

LEMMA SafeInit == Init => SafeInv
BY DEF Init, SafeInv, PromptInv, RefusalInv, LearnedInv, QueuedInv, ParsedWasQueued, Running, NoJob,
       NoParse, NoRow, Queued

LEMMA AdvanceSafe ==
  ASSUME NEW j \in JobType, NEW q, Advance(j, q)
  PROVE  \/ job' = NoJob
         \/ /\ ~stop /\ ~stop'
            /\ job' \in JobType
            /\ job'.step = "resolve"
            /\ job'.skip = j.skip
            /\ job'.todo \subseteq j.todo
            /\ job'.entry \in j.todo
            /\ job'.entry.user \notin j.skip
<1>1. PICK d \in SUBSET {e \in j.todo : e.user \in j.skip} :
        \/ job' = NoJob
        \/ /\ ~stop
           /\ stop' = stop
           /\ \E e \in j.todo :
                /\ e.user \notin j.skip
                /\ job' = [j EXCEPT !.step = "resolve", !.todo = j.todo \ (d \cup {e}), !.entry = e]
  BY DEF Advance
<1>2. ASSUME ~stop, stop' = stop, NEW e \in j.todo, e.user \notin j.skip,
             job' = [j EXCEPT !.step = "resolve", !.todo = j.todo \ (d \cup {e}), !.entry = e]
      PROVE  /\ ~stop /\ ~stop'
             /\ job' \in JobType
             /\ job'.step = "resolve"
             /\ job'.skip = j.skip
             /\ job'.todo \subseteq j.todo
             /\ job'.entry \in j.todo
             /\ job'.entry.user \notin j.skip
  BY <1>2 DEF JobType
<1>3. QED
  BY <1>1, <1>2

\* The job each step goes on from, when it goes on to a row.
LEMMA JobAdvances ==
  ASSUME TypeInv, JobNext,
         Connected \/ Unresolved \/ Resume
  PROVE  \E j \in JobType, q \in [Users -> Row] :
           /\ Advance(j, q)
           /\ Agree(q, nextId, j)
           /\ \/ Connected /\ j.skip = blocked /\ q = queue
                 /\ j.step = "connect" /\ job.step = "connect"
                 /\ j.todo \in {job.todo, Snapshot(queue, job.limit)}
              \/ Unresolved /\ j = job /\ job.step = "resolve" /\ q = Without(queue, {job.entry})
              \/ Resume /\ j = job /\ job.step = "pause" /\ q = queue
<1>1. /\ Agree(queue, nextId, job)
      /\ nextId \in Nat \ {0}
      /\ queue \in [Users -> Row]
      /\ job \in JobType
      /\ blocked \in SUBSET Users
  BY TypeParts DEF TypeInv, DbType
<1>2. CASE Connected
  <2>1. PICK todo \in {job.todo, Snapshot(queue, job.limit)} :
          NextRow([job EXCEPT !.todo = todo, !.skip = blocked], queue)
    BY <1>2 DEF Connected
  <2> DEFINE k == [job EXCEPT !.todo = todo, !.skip = blocked]
  <2>2. k \in JobType /\ k.todo = todo /\ k.step = "connect" /\ k.skip = blocked
    <3>1. todo \in SUBSET Entry
      BY <1>1, SnapshotType DEF JobType
    <3>2. QED
      BY <1>1, <1>2, <3>1 DEF Connected, JobType
  <2>3. NextRow(k, queue)
    BY <2>1
  <2> HIDE DEF k
  <2>4. Agree(queue, nextId, k)
    BY <1>1, <2>2, AgreeSnapshot
  <2>5. job.step = "connect"
    BY <1>2 DEF Connected
  <2>6. Advance(k, queue)
    BY <1>1, <2>2, <2>3, NextRowAdvances
  <2>7. QED
    BY <1>1, <1>2, <2>2, <2>4, <2>5, <2>6
<1>3. CASE Unresolved
  <2>1. job.step = "resolve" /\ NextRow(job, Without(queue, {job.entry}))
    BY <1>3 DEF Unresolved
  <2>2. Without(queue, {job.entry}) \in [Users -> Row]
    BY <1>1, WithoutType
  <2>3. job.entry \notin job.todo
    BY <1>1, <2>1 DEF Agree
  <2>4. Agree(Without(queue, {job.entry}), nextId, job)
    BY <1>1, <2>3, AgreeFewer, WithoutFewer
  <2>5. QED
    BY <1>1, <1>3, <2>1, <2>2, <2>4, NextRowAdvances
<1>4. CASE Resume
  BY <1>1, <1>4, NextRowAdvances DEF Resume
<1>5. QED
  BY <1>2, <1>3, <1>4

LEMMA PromptStep ==
  ASSUME TypeInv, SafeInv, [Next]_vars
  PROVE  PromptInv'
<1> USE DEF PromptInv, Running
<1> USE DEF jobVars, parseVars, dbVars, history
<1>1. PromptInv /\ job \in JobType /\ stop \in BOOLEAN
  BY TypeParts DEF SafeInv, TypeInv
<1>2. CASE job' = NoJob /\ UNCHANGED late
  BY <1>1, <1>2 DEF NoJob
<1>3. CASE UNCHANGED <<job, stop, late>>
  BY <1>1, <1>3
<1>4. CASE JobNext
  <2>1. CASE BeginJob
    <3>1. UNCHANGED late /\ job.step = "created"
      BY <2>1 DEF BeginJob
    <3>2. CASE EndJob
      BY <1>2, <3>1, <3>2 DEF EndJob
    <3>3. CASE ~EndJob
      BY <1>1, <2>1, <3>1, <3>3 DEF BeginJob
    <3>4. QED
      BY <3>2, <3>3
  <2>2. CASE Connected \/ Unresolved \/ Resume
    <3>1. PICK j \in JobType, q \in [Users -> Row] :
            Advance(j, q) /\ job.step \in {"connect", "resolve", "pause"}
      BY <1>4, <2>2, JobAdvances
    <3>2. UNCHANGED late
      BY <2>2 DEF Connected, Unresolved, Resume
    <3>3. ~stop => late = 0
      BY <1>1, <3>1
    <3>4. QED
      BY <1>1, <1>2, <3>1, <3>2, <3>3, AdvanceSafe
  <2>3. CASE Resolved
    BY <1>1, <2>3 DEF Resolved, JobType
  <2>4. CASE Done \/ Refused
    BY <1>1, <2>4 DEF Done, Refused, JobType
  <2>5. CASE JobFails \/ TargetFails \/ Flooded
    BY <1>2, <2>5 DEF JobFails, TargetFails, Flooded, EndJob
  <2>6. QED
    BY <1>4, <2>1, <2>2, <2>3, <2>4, <2>5 DEF JobNext
<1>5. CASE ParseNext
  BY <1>3, <1>5 DEF ParseNext, ParseCall, ParseStart, ParseRefused, Scan, Save, ParseFails
<1>6. CASE OperatorNext
  <2>1. CASE \E n \in Limits : StartJob(n)
    BY <2>1 DEF StartJob
  <2>2. CASE StopJob
    BY <1>1, <2>2 DEF StopJob
  <2>3. QED
    BY <1>3, <1>6, <2>1, <2>2 DEF OperatorNext, ClearSource
<1>7. CASE Crash
  BY <1>2, <1>7 DEF Crash
<1>8. CASE UNCHANGED vars
  BY <1>3, <1>8 DEF vars
<1>9. QED
  BY <1>4, <1>5, <1>6, <1>7, <1>8 DEF Next

LEMMA RefusalStep ==
  ASSUME TypeInv, SafeInv, [Next]_vars
  PROVE  RefusalInv'
<1> USE DEF RefusalInv
<1> USE DEF jobVars, parseVars, dbVars, history
<1>1. /\ RefusalInv
      /\ job \in JobType
      /\ Agree(queue, nextId, job)
  BY TypeParts DEF SafeInv, TypeInv
<1>2. CASE job' = NoJob
  BY <1>2 DEF NoJob
<1>3. CASE UNCHANGED <<job, blocked>>
  BY <1>1, <1>3
<1>4. CASE JobNext
  <2>1. CASE BeginJob
    <3>1. CASE EndJob
      BY <1>2, <3>1 DEF EndJob
    <3>2. CASE ~EndJob
      <4>1. job'.step = "connect" /\ job'.skip = job.skip
        BY <1>1, <2>1, <3>2 DEF BeginJob, JobType
      <4>2. QED
        BY <1>1, <2>1, <4>1 DEF BeginJob
    <3>3. QED
      BY <3>1, <3>2
  <2>2. CASE Connected \/ Unresolved \/ Resume
    <3>1. PICK j \in JobType, q \in [Users -> Row] :
            /\ Advance(j, q)
            /\ \/ j.skip = blocked
               \/ j = job /\ job.step \in {"resolve", "pause"}
      BY <1>4, <2>2, JobAdvances
    <3>2. UNCHANGED blocked
      BY <2>2 DEF Connected, Unresolved, Resume
    <3>3. j.skip \subseteq blocked /\ \A e \in j.todo : e.user \in blocked => e.user \in j.skip
      BY <1>1, <3>1
    <3>4. CASE job' # NoJob
      <4>1. /\ job'.step = "resolve"
            /\ job'.skip = j.skip
            /\ job'.todo \subseteq j.todo
            /\ job'.entry \in j.todo
            /\ job'.entry.user \notin j.skip
        BY <3>1, <3>4, AdvanceSafe
      <4>2. QED
        BY <3>2, <3>3, <4>1
    <3>5. QED
      BY <1>2, <3>4
  <2>3. CASE Resolved
    BY <1>1, <2>3 DEF Resolved, JobType
  <2>4. CASE Done
    BY <1>1, <2>4 DEF Done, JobType
  <2>5. CASE Refused
    <3>1. \A e \in job.todo : e.user # job.entry.user
      BY <1>1, <2>5 DEF Refused, Agree, HeldBy
    <3>2. job'.step = "pause" /\ job'.todo = job.todo /\ job'.skip = job.skip
      BY <1>1, <2>5 DEF Refused, JobType
    <3>3. blocked' = blocked \cup {job.entry.user} /\ job.step = "invite"
      BY <2>5 DEF Refused
    <3>4. QED
      BY <1>1, <3>1, <3>2, <3>3
  <2>6. CASE JobFails \/ TargetFails \/ Flooded
    BY <1>2, <2>6 DEF JobFails, TargetFails, Flooded, EndJob
  <2>7. QED
    BY <1>4, <2>1, <2>2, <2>3, <2>4, <2>5, <2>6 DEF JobNext
<1>5. CASE ParseNext
  BY <1>3, <1>5 DEF ParseNext, ParseCall, ParseStart, ParseRefused, Scan, Save, ParseFails
<1>6. CASE OperatorNext
  <2>1. CASE \E n \in Limits : StartJob(n)
    BY <2>1 DEF StartJob, NoJob
  <2>2. QED
    BY <1>3, <1>6, <2>1 DEF OperatorNext, StopJob, ClearSource
<1>7. CASE Crash
  BY <1>2, <1>7 DEF Crash
<1>8. CASE UNCHANGED vars
  BY <1>3, <1>8 DEF vars
<1>9. QED
  BY <1>4, <1>5, <1>6, <1>7, <1>8 DEF Next

LEMMA LearnedStep ==
  ASSUME TypeInv, SafeInv, [Next]_vars
  PROVE  LearnedInv'
<1> USE DEF jobVars, parseVars, dbVars, history
<1>1. /\ LearnedInv
      /\ refusal \in Refusals
  BY TypeParts DEF SafeInv, TypeInv, HistoryType, Refusals
<1>2. CASE UNCHANGED refusal /\ blocked \subseteq blocked'
  BY <1>1, <1>2 DEF LearnedInv
<1>3. CASE MayLoseRefusal /\ blocked \subseteq blocked'
  BY <1>1, <1>3 DEF LearnedInv, MayLoseRefusal, Refusals
<1>4. CASE Learn /\ blocked' = blocked \cup {job.entry.user}
  BY <1>1, <1>4 DEF LearnedInv, Learn, Refusals
<1>5. CASE JobNext
  <2>1. CASE JobFails \/ Done
    BY <1>3, <2>1 DEF JobFails, Done
  <2>2. CASE Refused
    BY <1>4, <2>2 DEF Refused
  <2>3. QED
    BY <1>2, <1>5, <2>1, <2>2
       DEF JobNext, BeginJob, Connected, Resolved, Unresolved, TargetFails, Flooded, Resume
<1>6. CASE ParseNext
  BY <1>2, <1>6 DEF ParseNext, ParseCall, ParseStart, ParseRefused, Scan, Save, ParseFails
<1>7. CASE OperatorNext
  BY <1>2, <1>7 DEF OperatorNext, StartJob, StopJob, ClearSource
<1>8. CASE Crash
  BY <1>3, <1>4, <1>8 DEF Crash, Uncommitted
<1>9. CASE UNCHANGED vars
  BY <1>2, <1>9 DEF vars
<1>10. QED
  BY <1>5, <1>6, <1>7, <1>8, <1>9 DEF Next

\* Who was in the queue before and after, or was inserted by this step.
LEMMA QueuedStep ==
  ASSUME TypeInv, SafeInv, [Next]_vars
  PROVE  /\ \A u \in Users : Queued(queue', u) => added'[u] > 0
         /\ \A u \in Users : added[u] <= added'[u]
<1> USE DEF jobVars, parseVars, dbVars, history
<1>1. /\ \A u \in Users : Queued(queue, u) => added[u] > 0
      /\ added \in [Users -> Nat]
      /\ queue \in [Users -> Row]
      /\ job \in JobType
  BY TypeParts DEF TypeInv, SafeInv, QueuedInv, DbType, HistoryType
<1>2. CASE Fewer(queue', queue) /\ UNCHANGED added
  BY <1>1, <1>2 DEF Fewer, Queued, NoRow
<1>3. \A d : Fewer(Without(queue, d), queue)
  BY WithoutFewer
<1>4. CASE UNCHANGED <<queue, added>>
  BY <1>2, <1>4 DEF Fewer
<1>5. ASSUME NEW p \in Parsers, parse[p].step = "scan", Insert(p)
      PROVE  /\ \A u \in Users : Queued(queue', u) => added'[u] > 0
             /\ \A u \in Users : added[u] <= added'[u]
  <2>1. parse[p].src \in Sources
    BY <1>5 DEF TypeInv, HasSource
  <2>2. /\ \A u \in Users \ Fresh(p) : queue'[u] = queue[u] /\ added'[u] = added[u]
        /\ \A u \in Fresh(p) : added'[u] = added[u] + 1
    BY <1>5, <2>1, InsertEffect DEF TypeInv
  <2>3. QED
    BY <1>1, <2>2 DEF Queued
<1>6. CASE JobNext
  <2>1. UNCHANGED added
    BY <1>6 DEF JobNext, BeginJob, Connected, JobFails, Resolved, Unresolved, Done, Refused,
                TargetFails, Flooded, Resume
  <2>2. CASE Connected \/ Unresolved \/ Resume
    <3>1. PICK j \in JobType, q \in [Users -> Row] :
            Advance(j, q) /\ q \in {queue, Without(queue, {job.entry})}
      BY <1>6, <2>2, JobAdvances
    <3>2. PICK d : queue' = Without(q, d)
      BY <3>1 DEF Advance
    <3>3. Fewer(queue', q) /\ Fewer(q, queue)
      BY <1>3, <3>1, <3>2, WithoutFewer DEF Fewer
    <3>4. Fewer(queue', queue)
      BY <3>3 DEF Fewer
    <3>5. QED
      BY <1>2, <2>1, <3>4
  <2>3. CASE ~(Connected \/ Unresolved \/ Resume)
    <3>1. queue' = queue \/ queue' = Without(queue, {job.entry})
      BY <1>6, <2>3 DEF JobNext, BeginJob, JobFails, Resolved, Done, Refused, TargetFails, Flooded
    <3>2. QED
      BY <1>2, <1>3, <1>4, <2>1, <3>1
  <2>4. QED
    BY <2>2, <2>3
<1>7. CASE ParseNext
  BY <1>4, <1>5, <1>7 DEF ParseNext, ParseCall, ParseStart, ParseRefused, Scan, Save, ParseFails
<1>8. CASE OperatorNext
  <2>1. ASSUME NEW s \in Sources, ClearSource(s) PROVE Fewer(queue', queue) /\ UNCHANGED added
    BY <2>1 DEF ClearSource, Fewer
  <2>2. QED
    BY <1>2, <1>4, <1>8, <2>1 DEF OperatorNext, StartJob, StopJob
<1>9. CASE Crash
  BY <1>4, <1>5, <1>9 DEF Crash, Uncommitted
<1>10. CASE UNCHANGED vars
  BY <1>4, <1>10 DEF vars
<1>11. QED
  BY <1>6, <1>7, <1>8, <1>9, <1>10 DEF Next

LEMMA ParsedStep ==
  ASSUME TypeInv, SafeInv, [Next]_vars
  PROVE  QueuedInv'
<1> USE DEF jobVars, parseVars, dbVars, history
<1>1. /\ \A u \in Users : Queued(queue', u) => added'[u] > 0
      /\ \A u \in Users : added[u] <= added'[u]
  BY QueuedStep
<1>2. /\ added \in [Users -> Nat]
      /\ added' \in [Users -> Nat]
      /\ blocked \in SUBSET Users
      /\ Members \in [Sources -> SUBSET Users]
      /\ parse \in [Parsers -> ParseType]
      /\ \A p \in Parsers : parse[p].skip \subseteq blocked
      /\ \A u \in Users : Queued(queue, u) => added[u] > 0
      /\ \A s \in parsed : \A u \in Members[s] : added[u] > 0 \/ u \in blocked
      /\ parsed \in SUBSET Sources
  <2>1. TypeOK'
    BY TypeStep DEF TypeInv
  <2>2. QED
    BY <2>1, TypeParts, TypePartsNext, InviterAssumption
       DEF TypeInv, SafeInv, QueuedInv, DbType, HistoryType, ParsedWasQueued
<1>3. blocked \subseteq blocked'
  BY DEF Next, JobNext, BeginJob, Connected, JobFails, Resolved, Unresolved, Done, Refused,
         TargetFails, Flooded, Resume, ParseNext, ParseCall, ParseStart, ParseRefused, Scan, Save,
         ParseFails, OperatorNext, StartJob, StopJob, ClearSource, Crash, Uncommitted, vars
<1>4. \A p \in Parsers : parse'[p].skip \subseteq blocked'
  <2>1. CASE UNCHANGED parse
    BY <1>2, <1>3, <2>1
  <2>2. ASSUME NEW p \in Parsers, NEW r, r.skip \subseteq blocked, parse' = [parse EXCEPT ![p] = r]
        PROVE  \A q \in Parsers : parse'[q].skip \subseteq blocked'
    BY <1>2, <1>3, <2>2
  <2>3. NoParse.skip = {}
    BY DEF NoParse
  <2>4. CASE ParseNext
    <3>1. PICK p \in Parsers :
            \/ \E s \in Sources, force \in BOOLEAN : ParseCall(p, s, force)
            \/ ParseStart(p) \/ ParseRefused(p) \/ Scan(p) \/ Save(p) \/ ParseFails(p)
      BY <2>4 DEF ParseNext
    <3>2. CASE ParseRefused(p) \/ Save(p) \/ ParseFails(p) \/ EndParse(p)
      BY <2>2, <2>3, <3>2 DEF ParseRefused, Save, ParseFails, EndParse
    <3>3. ASSUME NEW s \in Sources, NEW force \in BOOLEAN, ParseCall(p, s, force)
          PROVE  \A q \in Parsers : parse'[q].skip \subseteq blocked'
      <4> DEFINE r == [NoParse EXCEPT !.step = "call", !.src = s, !.force = force]
      <4>1. r.skip = {} /\ parse' = [parse EXCEPT ![p] = r]
        BY <3>3 DEF ParseCall, NoParse
      <4> HIDE DEF r
      <4>2. QED
        BY <2>2, <4>1
    <3>4. CASE ParseStart(p)
      <4> DEFINE r == [parse[p] EXCEPT !.step = "created"]
      <4>1. r.skip \subseteq blocked /\ parse' = [parse EXCEPT ![p] = r]
        BY <1>2, <3>4 DEF ParseStart, ParseType
      <4> HIDE DEF r
      <4>2. QED
        BY <2>2, <4>1
    <3>5. CASE Scan(p) /\ ~EndParse(p)
      <4> DEFINE r == [parse[p] EXCEPT !.step = "scan", !.skip = blocked]
      <4>1. r.skip \subseteq blocked /\ parse' = [parse EXCEPT ![p] = r]
        BY <1>2, <3>5 DEF Scan, ParseType
      <4> HIDE DEF r
      <4>2. QED
        BY <2>2, <4>1
    <3>6. QED
      BY <3>1, <3>2, <3>3, <3>4, <3>5
  <2>5. CASE Crash
    BY <2>3, <2>5 DEF Crash
  <2>6. QED
    BY <2>1, <2>4, <2>5
       DEF Next, JobNext, BeginJob, Connected, JobFails, Resolved, Unresolved, Done, Refused,
           TargetFails, Flooded, Resume, OperatorNext, StartJob, StopJob, ClearSource, vars
<1>5. ParsedWasQueued'
  <2>1. CASE UNCHANGED parsed
    BY <1>1, <1>2, <1>3, <2>1 DEF ParsedWasQueued
  <2>2. ASSUME NEW p \in Parsers, Save(p) PROVE ParsedWasQueued'
    <3>1. parse[p].src \in Sources
      BY <2>2 DEF Save, TypeInv, HasSource
    <3>2. /\ \A u \in Fresh(p) : added'[u] = added[u] + 1
          /\ Fresh(p) \in SUBSET Users
      BY <2>2, <3>1, InsertEffect, FreshFinite DEF Save, TypeInv
    <3>3. \A u \in Members[parse[p].src] : u \in Users /\ (added'[u] > 0 \/ u \in blocked)
      BY <1>1, <1>2, <3>1, <3>2 DEF Fresh
    <3>4. parsed' = parsed \cup {parse[p].src}
      BY <2>2 DEF Save
    <3>5. QED
      BY <1>1, <1>2, <1>3, <3>3, <3>4 DEF ParsedWasQueued
  <2>3. QED
    BY <2>1, <2>2
       DEF Next, JobNext, BeginJob, Connected, JobFails, Resolved, Unresolved, Done, Refused,
           TargetFails, Flooded, Resume, ParseNext, ParseCall, ParseStart, ParseRefused, Scan,
           ParseFails, OperatorNext, StartJob, StopJob, ClearSource, Crash, Uncommitted, vars
<1>6. QED
  BY <1>1, <1>4, <1>5 DEF QueuedInv

LEMMA InviterSafe == Spec => [](TypeInv /\ SafeInv)
<1>1. Init => TypeInv /\ SafeInv
  BY TypeInit, SafeInit
<1>2. TypeInv /\ SafeInv /\ [Next]_vars => TypeInv' /\ SafeInv'
  BY TypeStep, PromptStep, RefusalStep, LearnedStep, ParsedStep DEF SafeInv
<1>3. QED
  BY <1>1, <1>2, PTL DEF Spec

\* After a stop at most one more user is invited (stop_job, the row loop).
THEOREM InviterStops == Spec => []StopIsPrompt
<1>1. SafeInv => StopIsPrompt
  BY DEF SafeInv, PromptInv, StopIsPrompt
<1>2. QED
  BY <1>1, InviterSafe, PTL

\* Nobody whose refusal the job read and recorded is invited again (mark_blocked_user,
\* the blocklist a job reads).
THEOREM InviterRespectsRefusals == Spec => []RefusalRespected
<1>1. TypeInv /\ SafeInv => RefusalRespected
  BY DEF TypeInv, Agree, HeldBy, SafeInv, RefusalInv, LearnedInv, RefusalRespected
<1>2. QED
  BY <1>1, InviterSafe, PTL

\* A source that counts as parsed lost none of its members (mark_chat_parsed).
THEOREM InviterParsesAll == Spec => []ParsedWasQueued
<1>1. SafeInv => ParsedWasQueued
  BY DEF SafeInv, QueuedInv
<1>2. QED
  BY <1>1, InviterSafe, PTL

-----------------------------------------------------------------------------
(* Whose rows the job takes.                                               *)

\* No other user's row goes when the row of an entry the job holds is removed.
LEMMA AdvanceRemoves ==
  ASSUME NEW j \in JobType, NEW q \in [Users -> Row], NEW n, Agree(q, n, j), Advance(j, q),
         NEW u \in Users, Queued(q, u), ~Queued(queue', u)
  PROVE  u \in j.skip
<1>1. PICK d \in SUBSET {e \in j.todo : e.user \in j.skip} : queue' = Without(q, d)
  BY DEF Advance
<1>2. PICK e \in d : e.id = q[u].id
  BY <1>1, WithoutRow DEF Queued
<1>3. e \in HeldBy(j) /\ e.user \in j.skip
  BY <1>1, <1>2 DEF HeldBy
<1>4. QED
  BY <1>2, <1>3 DEF Agree

\* remove_queue_item by the ids of an old snapshot never takes a row that was
\* inserted since for somebody else.
THEOREM InviterRemovesItsOwn == Spec => JobRemovesItsOwn
<1>1. ASSUME TypeInv, SafeInv, [Next]_vars, NEW u \in Users,
             Queued(queue, u), ~Queued(queue', u), job' # job
      PROVE  u = job.entry.user \/ u \in blocked
  <2> USE DEF jobVars, parseVars, dbVars, history
  <2>1. /\ Agree(queue, nextId, job)
        /\ job.skip \subseteq blocked
    BY <1>1 DEF TypeInv, SafeInv, RefusalInv
  <2>2. ~UNCHANGED queue /\ ~UNCHANGED job
    BY <1>1
  <2>3. \A p \in Parsers : parse[p].step = "scan" /\ Insert(p) => Queued(queue', u)
    <3> SUFFICES ASSUME NEW p \in Parsers, parse[p].step = "scan", Insert(p)
                 PROVE  Queued(queue', u)
      OBVIOUS
    <3>1. parse[p].src \in Sources
      BY <1>1 DEF TypeInv, HasSource
    <3>2. /\ \A v \in Users \ Fresh(p) : queue'[v] = queue[v]
          /\ \A v \in Fresh(p) : ~Queued(queue, v)
      BY <1>1, <3>1, InsertEffect DEF TypeInv
    <3>3. QED
      BY <1>1, <3>2 DEF Queued
  <2>4. ~Crash
    BY <1>1, <2>2, <2>3 DEF Crash, Uncommitted
  <2>5. JobNext
    BY <1>1, <2>2, <2>4
       DEF Next, ParseNext, ParseCall, ParseStart, ParseRefused, Scan, Save, ParseFails,
           OperatorNext, StartJob, StopJob, ClearSource, vars
  <2>6. ASSUME Queued(queue, u), job.step \in {"resolve", "invite"},
               ~Queued(Without(queue, {job.entry}), u)
        PROVE  u = job.entry.user
    <3>1. job.entry.id = queue[u].id
      BY <2>6, WithoutRow DEF Queued
    <3>2. QED
      BY <2>1, <2>6, <3>1 DEF Agree, HeldBy
  <2>7. CASE Connected \/ Unresolved \/ Resume
    <3>1. PICK j \in JobType, q \in [Users -> Row] :
            /\ Advance(j, q)
            /\ Agree(q, nextId, j)
            /\ j.skip = blocked \/ j.skip = job.skip
            /\ \/ q = queue
               \/ job.step = "resolve" /\ q = Without(queue, {job.entry})
      BY <2>5, <2>7, <1>1, JobAdvances
    <3>2. CASE Queued(q, u)
      BY <1>1, <2>1, <3>1, <3>2, AdvanceRemoves
    <3>3. CASE ~Queued(q, u)
      BY <1>1, <2>6, <3>1, <3>3
    <3>4. QED
      BY <3>2, <3>3
  <2>8. CASE Done \/ Refused \/ Flooded
    BY <1>1, <2>6, <2>8 DEF Done, Refused, Flooded
  <2>9. QED
    BY <2>2, <2>5, <2>7, <2>8
       DEF JobNext, BeginJob, JobFails, Resolved, TargetFails
<1>2. TypeInv /\ SafeInv /\ [Next]_vars
        => [\A u \in Users : Queued(queue, u) /\ ~Queued(queue', u) /\ job' # job
              => u = job.entry.user \/ u \in blocked]_vars
  BY <1>1
<1>3. QED
  BY <1>2, InviterSafe, PTL DEF JobRemovesItsOwn, Spec

-----------------------------------------------------------------------------
(* How often a user is invited.                                            *)

\* The row of user u may still lead to an invitation; an entry of a snapshot may,
\* whose row is gone.
RowDue(q, j, u) == Queued(q, u) /\ ~(j.step = "invite" /\ j.entry.id = q[u].id)

Pending(j) == j.todo \cup (IF j.step = "resolve" THEN {j.entry} ELSE {})

EntryDue(q, j, u) == \E e \in Pending(j) : e.user = u /\ e.id # q[u].id

Due(q, j, u) == (IF RowDue(q, j, u) THEN 1 ELSE 0) + (IF EntryDue(q, j, u) THEN 1 ELSE 0)

\* AttemptsBounded, with the invitations that are still to come.
DueInv == \A u \in Users : attempts[u] + Due(queue, job, u) <= added[u] + kept[u]

LEMMA DueType == \A q, j, u : Due(q, j, u) \in 0..2
BY DEF Due

LEMMA DueInit == Init => DueInv
<1> SUFFICES ASSUME Init, NEW u \in Users
             PROVE  attempts[u] + Due(queue, job, u) <= added[u] + kept[u]
  BY DEF DueInv
<1>1. ~RowDue(queue, job, u)
  BY DEF Init, RowDue, Queued, NoRow
<1>2. ~EntryDue(queue, job, u)
  BY DEF Init, EntryDue, Pending, NoJob
<1>3. QED
  BY <1>1, <1>2 DEF Init, Due

\* Rows may go and entries may be given up: nothing more becomes due.
LEMMA DueFewer ==
  ASSUME NEW q, NEW n, NEW j, NEW r, NEW k, NEW u \in Users,
         Agree(q, n, j), Fewer(r, q),
         Pending(k) \subseteq Pending(j),
         j.step = "invite" => k.step = "invite" /\ k.entry = j.entry
  PROVE  Due(r, k, u) <= Due(q, j, u)
<1>1. r[u] = q[u] \/ r[u] = NoRow
  BY DEF Fewer
<1>2. RowDue(r, k, u) => RowDue(q, j, u) /\ r[u] = q[u]
  BY <1>1 DEF RowDue, Queued, NoRow
<1>3. ASSUME EntryDue(r, k, u), ~EntryDue(q, j, u)
      PROVE  RowDue(q, j, u) /\ ~RowDue(r, k, u)
  <2>1. PICK e \in Pending(j) : e.user = u /\ e.id # r[u].id /\ e.id = q[u].id
    BY <1>3 DEF EntryDue
  <2>2. ~RowDue(r, k, u)
    BY <1>2, <2>1
  <2>3. e \in HeldBy(j)
    BY <2>1 DEF Pending, HeldBy
  <2>4. Queued(q, u)
    BY <2>1, <2>3 DEF Agree, Queued
  <2>5. j.step = "invite" => j.entry.id # q[u].id
    BY <2>1, <2>3 DEF Agree, HeldBy, Pending
  <2>6. QED
    BY <2>2, <2>4, <2>5 DEF RowDue
<1>4. QED
  BY <1>2, <1>3 DEF Due

\* Once the row of the user who was invited is gone the job may go on or end.
LEMMA DueDone ==
  ASSUME NEW q, NEW n, NEW j, NEW k, NEW u \in Users,
         Agree(q, n, j), j.step = "invite",
         Pending(k) \subseteq j.todo, k.step # "invite"
  PROVE  Due(Without(q, {j.entry}), k, u) <= Due(q, j, u)
<1> DEFINE r == Without(q, {j.entry})
<1>1. \/ r[u] = q[u] /\ j.entry.id # q[u].id
      \/ r[u] = NoRow /\ j.entry.id = q[u].id
  BY WithoutRow
<1> HIDE DEF r
<1>2. RowDue(r, k, u) => RowDue(q, j, u)
  BY <1>1 DEF RowDue, Queued, NoRow
<1>3. EntryDue(r, k, u) => EntryDue(q, j, u)
  <2> SUFFICES ASSUME NEW e \in Pending(k), e.user = u, e.id # r[u].id
               PROVE  e.id # q[u].id
    BY DEF EntryDue, Pending
  <2>1. e \in j.todo /\ e \in HeldBy(j) /\ j.entry \in HeldBy(j)
    BY DEF HeldBy
  <2>2. j.entry.user # u
    BY <2>1 DEF Agree
  <2>3. j.entry.id # q[u].id
    BY <2>1, <2>2 DEF Agree
  <2>4. QED
    BY <1>1, <2>3
<1>4. QED
  BY <1>2, <1>3 DEF Due, r

\* A job that dies while it invites leaves the row, and that is counted by kept.
LEMMA DueEnd ==
  ASSUME NEW q, NEW j, NEW u \in Users
  PROVE  Due(q, NoJob, u)
           <= Due(q, j, u) + (IF j.step = "invite" /\ j.entry.id = q[u].id THEN 1 ELSE 0)
<1>1. ~EntryDue(q, NoJob, u)
  BY DEF EntryDue, Pending, NoJob
<1>2. RowDue(q, NoJob, u) => RowDue(q, j, u) \/ (j.step = "invite" /\ j.entry.id = q[u].id)
  BY DEF RowDue
<1>3. QED
  BY <1>1, <1>2 DEF Due

\* An insertion makes an invitation due only for whom a row is inserted.
LEMMA DueInsert ==
  ASSUME TypeInv, NEW p \in Parsers, parse[p].src \in Sources, Insert(p), NEW u \in Users
  PROVE  added[u] + Due(queue', job, u) <= added'[u] + Due(queue, job, u)
<1>1. /\ added \in [Users -> Nat]
      /\ Agree(queue, nextId, job)
  BY TypeParts DEF TypeInv, HistoryType
<1>2. CASE u \notin Fresh(p)
  <2>1. queue'[u] = queue[u] /\ added'[u] = added[u]
    BY <1>2, InsertEffect DEF TypeInv
  <2>2. RowDue(queue', job, u) <=> RowDue(queue, job, u)
    BY <2>1 DEF RowDue, Queued
  <2>3. EntryDue(queue', job, u) <=> EntryDue(queue, job, u)
    BY <2>1 DEF EntryDue
  <2>4. QED
    BY <1>1, <2>1, <2>2, <2>3 DEF Due
<1>3. CASE u \in Fresh(p)
  <2>1. ~Queued(queue, u) /\ added'[u] = added[u] + 1
    BY <1>3, InsertEffect DEF TypeInv
  <2>2. ~RowDue(queue, job, u)
    BY <2>1 DEF RowDue
  <2>3. EntryDue(queue', job, u) => EntryDue(queue, job, u)
    <3> SUFFICES ASSUME NEW e \in Pending(job), e.user = u
                 PROVE  e.id # queue[u].id
      BY DEF EntryDue
    <3>1. e.id # 0
      BY <1>1 DEF Agree, HeldBy, Pending
    <3>2. QED
      BY <2>1, <3>1 DEF Queued
  <2>4. QED
    BY <1>1, <2>1, <2>2, <2>3 DEF Due
<1>4. QED
  BY <1>2, <1>3

LEMMA DueAdvance ==
  ASSUME NEW j \in JobType, NEW q \in [Users -> Row], NEW n, NEW u \in Users,
         Agree(q, n, j), Advance(j, q), j.step # "invite"
  PROVE  Due(queue', job', u) <= Due(q, j, u)
<1>1. PICK d : queue' = Without(q, d)
  BY DEF Advance
<1>2. Fewer(queue', q)
  BY <1>1, WithoutFewer
<1>3. Pending(job') \subseteq Pending(j)
  BY AdvanceSafe DEF Pending, NoJob
<1>4. QED
  BY <1>2, <1>3, DueFewer

LEMMA DueStep ==
  ASSUME TypeInv, SafeInv, DueInv, [Next]_vars
  PROVE  DueInv'
<1> SUFFICES ASSUME NEW u \in Users
             PROVE  attempts'[u] + Due(queue', job', u) <= added'[u] + kept'[u]
  BY DEF DueInv
<1> USE DEF jobVars, parseVars, dbVars, history
<1>1. /\ Agree(queue, nextId, job)
      /\ job \in JobType
      /\ queue \in [Users -> Row]
      /\ added \in [Users -> Nat] /\ added' \in [Users -> Nat]
      /\ attempts \in [Users -> Nat] /\ kept \in [Users -> Nat]
      /\ Agree(queue', nextId', job')
  <2>1. TypeOK' /\ Agree(queue', nextId', job')
    BY TypeStep DEF TypeInv
  <2>2. QED
    BY <2>1, TypeParts, TypePartsNext DEF TypeInv, DbType, HistoryType
<1>2. attempts[u] + Due(queue, job, u) <= added[u] + kept[u]
  BY DEF DueInv
<1>3. Due(queue, job, u) \in 0..2 /\ Due(queue', job', u) \in 0..2
  BY DueType
<1>4. CASE Due(queue', job', u) <= Due(queue, job, u) /\ UNCHANGED <<attempts, added, kept>>
  BY <1>1, <1>2, <1>3, <1>4
<1>5. CASE UNCHANGED <<queue, job, attempts, added, kept>>
  BY <1>2, <1>5
<1>6. Fewer(queue, queue)
  BY DEF Fewer
<1>7. Pending(NoJob) = {}
  BY DEF Pending, NoJob
<1>8. ASSUME NEW q, NEW n, Agree(q, n, job)
      PROVE  Due(q, NoJob, u) <= Due(q, job, u)
               + (IF job.step = "invite" /\ job.entry.user = u THEN 1 ELSE 0)
  <2>1. job.step = "invite" /\ job.entry.id = q[u].id => job.entry.user = u
    BY <1>8 DEF Agree, HeldBy
  <2>2. Due(q, NoJob, u) \in 0..2 /\ Due(q, job, u) \in 0..2
    BY DueType
  <2>3. QED
    BY <2>1, <2>2, DueEnd
<1>9. kept' = (IF job.step = "invite" THEN [kept EXCEPT ![job.entry.user] = @ + 1] ELSE kept)
        => kept'[u] = kept[u] + (IF job.step = "invite" /\ job.entry.user = u THEN 1 ELSE 0)
  BY <1>1
<1>10. CASE JobNext
  <2>1. CASE BeginJob
    <3>1. UNCHANGED <<queue, attempts, added, kept>> /\ job.step = "created"
      BY <2>1 DEF BeginJob
    <3>2. CASE EndJob
      BY <1>1, <1>4, <1>6, <1>7, <3>1, <3>2, DueFewer DEF EndJob
    <3>3. CASE ~EndJob
      <4>1. job'.step = "connect" /\ job'.todo = Snapshot(queue, job.limit)
        BY <1>1, <2>1, <3>3 DEF BeginJob, JobType
      <4>2. ~EntryDue(queue, job', u)
        BY <4>1, SnapshotEntries DEF EntryDue, Pending
      <4>3. RowDue(queue, job', u) => RowDue(queue, job, u)
        BY <3>1 DEF RowDue
      <4>4. QED
        BY <1>4, <3>1, <4>2, <4>3 DEF Due
    <3>4. QED
      BY <3>2, <3>3
  <2>2. CASE Connected \/ Unresolved \/ Resume
    <3>1. PICK j \in JobType, q \in [Users -> Row] :
            /\ Advance(j, q)
            /\ Agree(q, nextId, j)
            /\ \/ Connected /\ j.skip = blocked /\ q = queue
                  /\ j.step = "connect" /\ job.step = "connect"
                  /\ j.todo \in {job.todo, Snapshot(queue, job.limit)}
               \/ Unresolved /\ j = job /\ job.step = "resolve" /\ q = Without(queue, {job.entry})
               \/ Resume /\ j = job /\ job.step = "pause" /\ q = queue
      BY <1>10, <2>2, JobAdvances
    <3>2. Due(queue', job', u) <= Due(q, j, u)
      BY <3>1, DueAdvance
    <3>3. UNCHANGED <<attempts, added, kept>>
      BY <2>2 DEF Connected, Unresolved, Resume
    <3>4. CASE j = job
      <4>1. Fewer(q, queue)
        BY <1>6, <3>1, WithoutFewer
      <4>2. Due(q, j, u) <= Due(queue, job, u)
        BY <1>1, <3>4, <4>1, DueFewer
      <4>3. Due(q, j, u) \in 0..2
        BY DueType
      <4>4. QED
        BY <1>3, <1>4, <3>2, <3>3, <4>2, <4>3
    <3>5. CASE j.step = "connect" /\ job.step = "connect" /\ q = queue
               /\ j.todo \in {job.todo, Snapshot(queue, job.limit)}
      <4>1. EntryDue(queue, j, u) => EntryDue(queue, job, u)
        <5>1. CASE j.todo = job.todo
          BY <3>5, <5>1 DEF EntryDue, Pending
        <5>2. CASE j.todo = Snapshot(queue, job.limit)
          BY <3>5, <5>2, SnapshotEntries DEF EntryDue, Pending
        <5>3. QED
          BY <3>5, <5>1, <5>2
      <4>2. RowDue(queue, j, u) => RowDue(queue, job, u)
        BY <3>5 DEF RowDue
      <4>3. Due(queue, j, u) <= Due(queue, job, u)
        BY <4>1, <4>2 DEF Due
      <4>4. Due(queue, j, u) \in 0..2
        BY DueType
      <4>5. QED
        BY <1>3, <1>4, <3>2, <3>3, <3>5, <4>3, <4>4
    <3>6. QED
      BY <3>1, <3>4, <3>5
  <2>3. CASE Resolved
    <3>1. /\ job.step = "resolve" /\ job'.step = "invite"
          /\ job'.entry = job.entry /\ job'.todo = job.todo
          /\ UNCHANGED <<queue, added, kept>>
          /\ attempts'[u] = attempts[u] + (IF u = job.entry.user THEN 1 ELSE 0)
      BY <1>1, <2>3 DEF Resolved, JobType
    <3>2. CASE u # job.entry.user
      <4>1. RowDue(queue, job', u) => RowDue(queue, job, u)
        BY <3>1 DEF RowDue
      <4>2. EntryDue(queue, job', u) => EntryDue(queue, job, u)
        BY <3>1 DEF EntryDue, Pending
      <4>3. QED
        BY <1>1, <1>2, <3>1, <3>2, <4>1, <4>2 DEF Due
    <3>3. CASE u = job.entry.user
      <4>1. \A e \in job.todo : e.user # u
        BY <1>1, <3>1, <3>3 DEF Agree, HeldBy
      <4>2. ~EntryDue(queue, job', u)
        BY <3>1, <4>1 DEF EntryDue, Pending
      <4>3. job.entry \in Pending(job) /\ job.entry.id # 0
        BY <1>1, <3>1 DEF Pending, Agree, HeldBy
      <4>4. CASE job.entry.id = queue[u].id
        <5>1. RowDue(queue, job, u)
          BY <3>1, <4>3, <4>4 DEF RowDue, Queued
        <5>2. ~RowDue(queue, job', u)
          BY <3>1, <4>4 DEF RowDue
        <5>3. QED
          BY <1>1, <1>2, <3>1, <3>3, <4>2, <5>1, <5>2 DEF Due
      <4>5. CASE job.entry.id # queue[u].id
        <5>1. EntryDue(queue, job, u)
          BY <3>3, <4>3, <4>5 DEF EntryDue
        <5>2. RowDue(queue, job', u) => RowDue(queue, job, u)
          BY <3>1 DEF RowDue
        <5>3. QED
          BY <1>1, <1>2, <3>1, <3>3, <4>2, <5>1, <5>2 DEF Due
      <4>6. QED
        BY <4>4, <4>5
    <3>4. QED
      BY <3>2, <3>3
  <2>4. CASE Done \/ Refused
    <3>1. /\ job.step = "invite" /\ job'.step = "pause" /\ job'.todo = job.todo
          /\ queue' = Without(queue, {job.entry})
          /\ UNCHANGED <<attempts, added, kept>>
      BY <1>1, <2>4 DEF Done, Refused, JobType
    <3>2. Pending(job') \subseteq job.todo
      BY <3>1 DEF Pending
    <3>3. QED
      BY <1>1, <1>4, <3>1, <3>2, DueDone
  <2>5. CASE Flooded
    <3>1. NoJob.step # "invite"
      BY DEF NoJob
    <3>2. QED
      BY <1>1, <1>4, <1>7, <2>5, <3>1, DueDone DEF Flooded, EndJob
  <2>6. CASE JobFails \/ TargetFails
    <3>1. /\ job' = NoJob
          /\ UNCHANGED <<queue, attempts, added>>
          /\ kept'[u] = kept[u] + (IF job.step = "invite" /\ job.entry.user = u THEN 1 ELSE 0)
      BY <1>9, <2>6 DEF JobFails, TargetFails, EndJob
    <3>2. Due(queue', job', u) <= Due(queue, job, u)
               + (IF job.step = "invite" /\ job.entry.user = u THEN 1 ELSE 0)
      BY <1>1, <1>8, <3>1
    <3>3. QED
      BY <1>1, <1>2, <1>3, <3>1, <3>2
  <2>7. QED
    BY <1>10, <2>1, <2>2, <2>3, <2>4, <2>5, <2>6 DEF JobNext
<1>11. CASE ParseNext
  <2>1. CASE \E p \in Parsers : Save(p)
    <3>1. PICK p \in Parsers : Save(p)
      BY <2>1
    <3>2. parse[p].src \in Sources
      BY <3>1 DEF Save, TypeInv, HasSource
    <3>3. added[u] + Due(queue', job, u) <= added'[u] + Due(queue, job, u)
      BY <3>1, <3>2, DueInsert DEF Save
    <3>4. UNCHANGED <<job, attempts, kept>>
      BY <3>1 DEF Save
    <3>5. QED
      BY <1>1, <1>2, <1>3, <3>3, <3>4
  <2>2. QED
    BY <1>5, <1>11, <2>1 DEF ParseNext, ParseCall, ParseStart, ParseRefused, Scan, ParseFails
<1>12. CASE OperatorNext
  <2>1. ASSUME NEW n \in Limits, StartJob(n)
        PROVE  Due(queue', job', u) <= Due(queue, job, u) /\ UNCHANGED <<attempts, added, kept>>
    <3>1. job'.todo = {} /\ job'.step = "created" /\ ~Running
      BY <2>1 DEF StartJob, NoJob
    <3>2. Pending(job') \subseteq Pending(job) /\ job.step # "invite"
      BY <3>1 DEF Pending, Running
    <3>3. UNCHANGED <<queue, attempts, added, kept>>
      BY <2>1 DEF StartJob
    <3>4. QED
      BY <1>1, <1>6, <3>2, <3>3, DueFewer
  <2>2. CASE StopJob
    BY <1>5, <2>2 DEF StopJob
  <2>3. ASSUME NEW s \in Sources, ClearSource(s)
        PROVE  Due(queue', job', u) <= Due(queue, job, u) /\ UNCHANGED <<attempts, added, kept>>
    <3>1. Fewer(queue', queue)
      BY <2>3 DEF ClearSource, Fewer
    <3>2. UNCHANGED <<job, attempts, added, kept>>
      BY <2>3 DEF ClearSource
    <3>3. QED
      BY <1>1, <3>1, <3>2, DueFewer
  <2>4. QED
    BY <1>4, <1>12, <2>1, <2>2, <2>3 DEF OperatorNext
<1>13. CASE Crash
  <2>1. /\ job' = NoJob
        /\ UNCHANGED attempts
        /\ kept'[u] = kept[u] + (IF job.step = "invite" /\ job.entry.user = u THEN 1 ELSE 0)
    BY <1>9, <1>13 DEF Crash
  <2>2. CASE UNCHANGED <<queue, added>>
    <3>1. Due(queue', job', u) <= Due(queue, job, u)
               + (IF job.step = "invite" /\ job.entry.user = u THEN 1 ELSE 0)
      BY <1>1, <1>8, <2>1, <2>2
    <3>2. QED
      BY <1>1, <1>2, <1>3, <2>1, <2>2, <3>1
  <2>3. ASSUME NEW p \in Parsers, parse[p].step = "scan", Insert(p)
        PROVE  attempts'[u] + Due(queue', job', u) <= added'[u] + kept'[u]
    <3>1. parse[p].src \in Sources
      BY <2>3 DEF TypeInv, HasSource
    <3>2. Agree(queue', nextId', job)
      BY <2>3, <3>1, AgreeInsert
    <3>3. Due(queue', job', u) <= Due(queue', job, u)
               + (IF job.step = "invite" /\ job.entry.user = u THEN 1 ELSE 0)
      BY <1>8, <2>1, <3>2
    <3>4. added[u] + Due(queue', job, u) <= added'[u] + Due(queue, job, u)
      BY <2>3, <3>1, DueInsert
    <3>5. Due(queue', job, u) \in 0..2
      BY DueType
    <3>6. QED
      BY <1>1, <1>2, <1>3, <2>1, <3>3, <3>4, <3>5
  <2>4. QED
    BY <1>13, <2>2, <2>3 DEF Crash, Uncommitted
<1>14. CASE UNCHANGED vars
  BY <1>5, <1>14 DEF vars
<1>15. QED
  BY <1>10, <1>11, <1>12, <1>13, <1>14 DEF Next

\* A user is invited once for each row inserted for them, and once more for each
\* time the row outlived the invitation, however jobs, parses, clearings of the
\* queue and crashes interleave.
THEOREM InviterBoundsAttempts == Spec => []AttemptsBounded
<1>1. TypeInv /\ SafeInv /\ [Next]_vars => (DueInv => DueInv')
  BY DueStep
<1>2. TypeInv /\ DueInv => AttemptsBounded
  <2> SUFFICES ASSUME TypeInv, DueInv, NEW u \in Users
               PROVE  attempts[u] <= added[u] + kept[u]
    BY DEF AttemptsBounded
  <2>1. attempts[u] \in Nat /\ added[u] \in Nat /\ kept[u] \in Nat
    BY TypeParts DEF TypeInv, HistoryType
  <2>2. Due(queue, job, u) \in 0..2
    BY DueType
  <2>3. QED
    BY <2>1, <2>2 DEF DueInv
<1>3. QED
  BY <1>1, <1>2, DueInit, InviterSafe, PTL DEF Spec
=============================================================================
