------------------------------ MODULE Inviter ------------------------------
(***************************************************************************)
(* The inviter of one Telegram account (bot/inviter/service.py, db.py,     *)
(* errors.py): members of source chats are parsed into a queue in SQLite,  *)
(* and a job invites them one by one from a snapshot of that queue.        *)
(*                                                                         *)
(* Every database call commits before the event loop runs anything else.   *)
(* An action is a handler, or a segment of one, up to its next await; the  *)
(* process may die between two commits of a segment (Crash).               *)
(*                                                                         *)
(* Who the target is, the waits between invites and the progress that is   *)
(* shown are left out; access hashes too, but not the second snapshot that *)
(* filling them in leads to.                                               *)
(***************************************************************************)
EXTENDS Integers, FiniteSets

CONSTANTS
  Users, Sources,
  Parsers,      \* parse requests that may be under way together (a bound)
  NoUser, NoSource, NoParser,
  Members,      \* the members of each source that parsing does not skip
  Limits,       \* limits a job may be started with, 0 for none
  MaxId,        \* no parse is asked for when so many rows were inserted (a bound)
  MaxAttempts   \* no job is started when a user was invited so often (a bound)

ASSUME InviterAssumption ==
  /\ NoUser \notin Users
  /\ NoSource \notin Sources
  /\ NoParser \notin Parsers
  /\ IsFiniteSet(Users)
  /\ Members \in [Sources -> SUBSET Users]
  /\ Limits \subseteq Nat
  /\ MaxId \in Nat
  /\ MaxAttempts \in Nat

VARIABLES
  queue,      \* invite_queue: UNIQUE(account_id, tg_user_id), so one row for a user
  nextId,     \* AUTOINCREMENT: the id of a row is never used again
  parsed,     \* parsed_chats
  blocked,    \* invite_blocklist
  job,        \* the invite job and its snapshots
  stop,       \* _stop_flag
  parse,      \* the parse requests
  parseTask,  \* the request _parse_task belongs to
  \* History, read by the properties only.
  added,      \* how often a row was inserted for each user
  attempts,   \* how often each user was invited
  kept,       \* how often a row outlived an invitation of its user
  late,       \* invitations since the operator asked the job to stop
  refusal     \* whether the job learned that a user's privacy settings refuse:
              \* "recorded", "lost" (it was refused, and did not) or "none"

dbVars == <<queue, nextId, parsed, blocked>>
jobVars == <<job, stop>>
parseVars == <<parse, parseTask>>
history == <<added, attempts, kept, late, refusal>>
vars == <<dbVars, jobVars, parseVars, history>>

-----------------------------------------------------------------------------
(* Rows, snapshots and the invite job.                                     *)

NoRow == [id |-> 0, src |-> NoSource]

Queued(q, u) == q[u].id # 0

NoEntry == [id |-> 0, user |-> NoUser]

Entries(q) == {[id |-> q[u].id, user |-> u] : u \in {v \in Users : Queued(q, v)}}

\* get_queue: ORDER BY id LIMIT n.
Snapshot(q, n) ==
  {e \in Entries(q) : n = 0 \/ Cardinality({d \in Entries(q) : d.id < e.id}) < n}

\* remove_queue_item for each of the entries: a row goes by its id.
Without(q, entries) ==
  [u \in Users |-> IF \E e \in entries : e.id = q[u].id THEN NoRow ELSE q[u]]

NoJob == [step |-> "idle", limit |-> 0, todo |-> {}, skip |-> {}, entry |-> NoEntry]

Running == job.step # "idle"

\* The finally of _run_invite_job_locked.
EndJob == job' = NoJob /\ stop' = FALSE

\* A slip of NextRow: a stop is not noticed.
NextRowDeaf(j, q) ==
  LET open == {e \in j.todo : e.user \notin j.skip} IN
  \/ /\ open = {}
     /\ EndJob
     /\ queue' = Without(q, j.todo)
  \/ \E entry \in open :
       LET passed == {e \in j.todo : e.id < entry.id} IN
       /\ \A e \in open : entry.id <= e.id
       /\ queue' = Without(q, passed)
       /\ job' = [j EXCEPT !.step = "resolve", !.todo = @ \ (passed \cup {entry}), !.entry = entry]
       /\ UNCHANGED stop

\* From the head of the row loop to its next await: rows of blocked users are
\* dropped on the way to the first one to be invited.
NextRow(j, q) ==
  LET open == {e \in j.todo : e.user \notin j.skip} IN
  \/ /\ stop
     /\ EndJob
     /\ queue' = q
  \/ /\ ~stop
     /\ open = {}
     /\ EndJob
     /\ queue' = Without(q, j.todo)
  \/ /\ ~stop
     /\ \E entry \in open :
          LET passed == {e \in j.todo : e.id < entry.id} IN
          /\ \A e \in open : entry.id <= e.id
          /\ queue' = Without(q, passed)
          /\ job' = [j EXCEPT !.step = "resolve", !.todo = @ \ (passed \cup {entry}), !.entry = entry]
          /\ UNCHANGED stop

\* start_job; the task runs later.
StartJob(n) ==
  /\ ~Running
  /\ \A u \in Users : attempts[u] < MaxAttempts
  /\ job' = [NoJob EXCEPT !.step = "created", !.limit = n]
  /\ stop' = FALSE
  /\ late' = 0
  /\ UNCHANGED <<dbVars, parseVars, added, attempts, kept, refusal>>

\* stop_job.
StopJob ==
  /\ Running
  /\ ~stop
  /\ stop' = TRUE
  /\ UNCHANGED <<dbVars, job, parseVars, history>>

\* The job takes its snapshot.
BeginJob ==
  /\ job.step = "created"
  /\ IF Entries(queue) = {}
     THEN EndJob
     ELSE /\ job' = [job EXCEPT !.step = "connect", !.todo = Snapshot(queue, job.limit)]
          /\ UNCHANGED stop
  /\ UNCHANGED <<dbVars, parseVars, history>>

\* A slip of Connected: the blocklist is not read.
ConnectedTrusting ==
  /\ job.step = "connect"
  /\ \E todo \in {job.todo, Snapshot(queue, job.limit)} :
       NextRow([job EXCEPT !.todo = todo], queue)
  /\ UNCHANGED <<nextId, parsed, blocked, parseVars, history>>

\* The client and the target are there and access hashes are filled in, after
\* which the snapshot may be taken again; then the first row.
Connected ==
  /\ job.step = "connect"
  /\ \E todo \in {job.todo, Snapshot(queue, job.limit)} :
       NextRow([job EXCEPT !.todo = todo, !.skip = blocked], queue)
  /\ UNCHANGED <<nextId, parsed, blocked, parseVars, history>>

\* Telegram may have refused, and the job does not learn it.
MayLoseRefusal ==
  \/ UNCHANGED refusal
  \/ /\ job.step = "invite"
     /\ refusal[job.entry.user] = "none"
     /\ refusal' = [refusal EXCEPT ![job.entry.user] = "lost"]

\* No client, no target, or an exception that is not an answer of Telegram's.
JobFails ==
  /\ job.step \in {"connect", "resolve", "invite"}
  /\ EndJob
  /\ kept' = IF job.step = "invite" THEN [kept EXCEPT ![job.entry.user] = @ + 1] ELSE kept
  /\ MayLoseRefusal
  /\ UNCHANGED <<dbVars, parseVars, added, attempts, late>>

\* The user is known and the invitation is sent.
Resolved ==
  /\ job.step = "resolve"
  /\ job' = [job EXCEPT !.step = "invite"]
  /\ attempts' = [attempts EXCEPT ![job.entry.user] = @ + 1]
  /\ late' = IF stop THEN late + 1 ELSE late
  /\ UNCHANGED <<dbVars, stop, parseVars, added, kept, refusal>>

\* A slip of Unresolved: the client is made anew and the row is tried again.
UnresolvedRetry ==
  /\ job.step = "resolve"
  /\ job' = [job EXCEPT !.step = "connect", !.todo = @ \cup {job.entry}]
  /\ UNCHANGED <<dbVars, stop, parseVars, history>>

\* resolve_failed, skipped_profile: the row goes, and the next one follows.
Unresolved ==
  /\ job.step = "resolve"
  /\ NextRow(job, Without(queue, {job.entry}))
  /\ UNCHANGED <<nextId, parsed, blocked, parseVars, history>>

\* A slip of Done: the row is left for another job.
DoneKept ==
  /\ job.step = "invite"
  /\ job' = [job EXCEPT !.step = "pause"]
  /\ UNCHANGED <<dbVars, stop, parseVars, history>>

\* Any result but the ones below. invite_timeout may come before a refusal, and
\* failed_after_wait stands for any exception of the retry after a flood wait, a
\* refusal too: the row goes, nobody is blocked.
Done ==
  /\ job.step = "invite"
  /\ queue' = Without(queue, {job.entry})
  /\ job' = [job EXCEPT !.step = "pause"]
  /\ MayLoseRefusal
  /\ UNCHANGED <<nextId, parsed, blocked, stop, parseVars, added, attempts, kept, late>>

\* The job reads privacy_restricted.
Learn == refusal' = [refusal EXCEPT ![job.entry.user] = "recorded"]

\* A slip of Refused: the id of the row is blocked instead of the user.
RefusedRow ==
  /\ job.step = "invite"
  /\ Learn
  /\ blocked' = blocked \cup {job.entry.id}
  /\ queue' = Without(queue, {job.entry})
  /\ job' = [job EXCEPT !.step = "pause"]
  /\ UNCHANGED <<nextId, parsed, stop, parseVars, added, attempts, kept, late>>

\* privacy_restricted: mark_blocked_user, then remove_queue_item.
Refused ==
  /\ job.step = "invite"
  /\ Learn
  /\ blocked' = blocked \cup {job.entry.user}
  /\ queue' = Without(queue, {job.entry})
  /\ job' = [job EXCEPT !.step = "pause"]
  /\ UNCHANGED <<nextId, parsed, stop, parseVars, added, attempts, kept, late>>

\* fatal_target_results: the row stays.
TargetFails ==
  /\ job.step = "invite"
  /\ EndJob
  /\ kept' = [kept EXCEPT ![job.entry.user] = @ + 1]
  /\ UNCHANGED <<dbVars, parseVars, added, attempts, late, refusal>>

\* peer_flood: the row is removed before the job ends.
Flooded ==
  /\ job.step = "invite"
  /\ queue' = Without(queue, {job.entry})
  /\ EndJob
  /\ UNCHANGED <<nextId, parsed, blocked, parseVars, history>>

\* After the cooldown and the batch pause, which a stop cuts short.
Resume ==
  /\ job.step = "pause"
  /\ NextRow(job, queue)
  /\ UNCHANGED <<nextId, parsed, blocked, parseVars, history>>

-----------------------------------------------------------------------------
(* Parsing a source into the queue.                                        *)

NoParse == [step |-> "idle", src |-> NoSource, force |-> FALSE, skip |-> {}]

\* _run_parse is under way for these requests.
Parsing == {p \in Parsers : parse[p].step \in {"created", "scan"}}

\* parse up to the await of _ensure_client.
ParseCall(p, s, force) ==
  /\ parse[p].step = "idle"
  /\ parseTask = NoParser
  /\ nextId <= MaxId
  /\ parse' = [parse EXCEPT ![p] = [NoParse EXCEPT !.step = "call", !.src = s, !.force = force]]
  /\ UNCHANGED <<dbVars, jobVars, parseTask, history>>

\* _parse_task is not read again before it is assigned.
ParseStart(p) ==
  /\ parse[p].step = "call"
  /\ parse' = [parse EXCEPT ![p].step = "created"]
  /\ parseTask' = p
  /\ UNCHANGED <<dbVars, jobVars, history>>

ParseRefused(p) ==
  /\ parse[p].step = "call"
  /\ parse' = [parse EXCEPT ![p] = NoParse]
  /\ UNCHANGED <<dbVars, jobVars, parseTask, history>>

\* The finally of _run_parse: whatever task is registered is forgotten.
EndParse(p) ==
  /\ parse' = [parse EXCEPT ![p] = NoParse]
  /\ parseTask' = NoParser

\* The source is known: it was parsed before, or the scan begins.
Scan(p) ==
  /\ parse[p].step = "created"
  /\ IF parse[p].src \in parsed /\ ~parse[p].force
     THEN EndParse(p)
     ELSE /\ parse' = [parse EXCEPT ![p].step = "scan", ![p].skip = blocked]
          /\ UNCHANGED parseTask
  /\ UNCHANGED <<dbVars, jobVars, history>>

\* The users add_users_to_queue inserts: neither blocked when the scan began nor
\* now, nor in the queue, from whatever source.
Fresh(p) ==
  {u \in Members[parse[p].src] : u \notin parse[p].skip \cup blocked /\ ~Queued(queue, u)}

\* A slip of Insert: without AUTOINCREMENT, the largest id in the table counts.
InsertReusing(p) ==
  LET top == CHOOSE n \in 0..nextId :
               /\ \A u \in Users : queue[u].id <= n
               /\ n = 0 \/ \E u \in Users : queue[u].id = n
  IN \E id \in [Fresh(p) -> (top + 1)..(top + Cardinality(Fresh(p)))] :
       /\ \A u, v \in Fresh(p) : u # v => id[u] # id[v]
       /\ queue' = [u \in Users |-> IF u \in Fresh(p)
                                    THEN [id |-> id[u], src |-> parse[p].src] ELSE queue[u]]
       /\ nextId' = nextId + Cardinality(Fresh(p))
       /\ added' = [u \in Users |-> IF u \in Fresh(p) THEN added[u] + 1 ELSE added[u]]

\* add_users_to_queue, in the order the scan met the members: one transaction.
Insert(p) ==
  \E id \in [Fresh(p) -> nextId..(nextId + Cardinality(Fresh(p)) - 1)] :
    /\ \A u, v \in Fresh(p) : u # v => id[u] # id[v]
    /\ queue' = [u \in Users |-> IF u \in Fresh(p)
                                 THEN [id |-> id[u], src |-> parse[p].src] ELSE queue[u]]
    /\ nextId' = nextId + Cardinality(Fresh(p))
    /\ added' = [u \in Users |-> IF u \in Fresh(p) THEN added[u] + 1 ELSE added[u]]

\* The scan is over; mark_chat_parsed follows the insertion.
Save(p) ==
  /\ parse[p].step = "scan"
  /\ Insert(p)
  /\ parsed' = parsed \cup {parse[p].src}
  /\ EndParse(p)
  /\ UNCHANGED <<blocked, jobVars, attempts, kept, late, refusal>>

ParseFails(p) ==
  /\ parse[p].step \in {"created", "scan"}
  /\ EndParse(p)
  /\ UNCHANGED <<dbVars, jobVars, history>>

\* clear_parsed_source_queue: the source still counts as parsed.
ClearSource(s) ==
  /\ queue' = [u \in Users |-> IF queue[u].src = s THEN NoRow ELSE queue[u]]
  /\ UNCHANGED <<nextId, parsed, blocked, jobVars, parseVars, history>>

-----------------------------------------------------------------------------
(* The process dies, perhaps between two commits.                          *)

\* A slip of Uncommitted: the source is marked before its members are inserted.
UncommittedMark ==
  \E p \in Parsers :
    /\ parse[p].step = "scan"
    /\ parsed' = parsed \cup {parse[p].src}
    /\ UNCHANGED <<queue, nextId, blocked, added, refusal>>

\* The first commit of a segment that has two: the insertion without the mark,
\* the block without the removal; or neither. A refusal may be lost.
Uncommitted ==
  \/ /\ \E p \in Parsers : parse[p].step = "scan" /\ Insert(p)
     /\ MayLoseRefusal
     /\ UNCHANGED <<parsed, blocked>>
  \/ /\ job.step = "invite"
     /\ Learn
     /\ blocked' = blocked \cup {job.entry.user}
     /\ UNCHANGED <<queue, nextId, parsed, added>>
  \/ /\ MayLoseRefusal
     /\ UNCHANGED <<dbVars, added>>

Crash ==
  /\ Running \/ Parsing # {}
  /\ Uncommitted
  /\ job' = NoJob
  /\ stop' = FALSE
  /\ parse' = [p \in Parsers |-> NoParse]
  /\ parseTask' = NoParser
  /\ kept' = IF job.step = "invite" THEN [kept EXCEPT ![job.entry.user] = @ + 1] ELSE kept
  /\ UNCHANGED <<attempts, late>>

-----------------------------------------------------------------------------
Init ==
  /\ queue = [u \in Users |-> NoRow]
  /\ nextId = 1
  /\ parsed = {}
  /\ blocked = {}
  /\ job = NoJob
  /\ stop = FALSE
  /\ parse = [p \in Parsers |-> NoParse]
  /\ parseTask = NoParser
  /\ added = [u \in Users |-> 0]
  /\ attempts = [u \in Users |-> 0]
  /\ kept = [u \in Users |-> 0]
  /\ late = 0
  /\ refusal = [u \in Users |-> "none"]

JobNext ==
  \/ BeginJob \/ Connected \/ JobFails \/ Resolved \/ Unresolved
  \/ Done \/ Refused \/ TargetFails \/ Flooded \/ Resume

ParseNext ==
  \E p \in Parsers :
    \/ \E s \in Sources, force \in BOOLEAN : ParseCall(p, s, force)
    \/ ParseStart(p) \/ ParseRefused(p) \/ Scan(p) \/ Save(p) \/ ParseFails(p)

OperatorNext ==
  \/ \E n \in Limits : StartJob(n)
  \/ StopJob
  \/ \E s \in Sources : ClearSource(s)

Next == JobNext \/ ParseNext \/ OperatorNext \/ Crash

Spec == Init /\ [][Next]_vars

\* Each await of the job ends: a result, an error or the 45 seconds of a time-out,
\* and every pause is finite.
FairSpec == Spec /\ WF_vars(JobNext)

-----------------------------------------------------------------------------
(* Properties.                                                             *)

Row == [id : Nat, src : Sources \cup {NoSource}]

Entry == [id : Nat, user : Users \cup {NoUser}]

TypeOK ==
  /\ queue \in [Users -> Row]
  /\ nextId \in Nat \ {0}
  /\ parsed \in SUBSET Sources
  /\ blocked \in SUBSET Users
  /\ job \in [step : {"idle", "created", "connect", "resolve", "invite", "pause"},
             limit : Nat, todo : SUBSET Entry, skip : SUBSET Users, entry : Entry]
  /\ stop \in BOOLEAN
  /\ parse \in [Parsers -> [step : {"idle", "call", "created", "scan"},
                            src : Sources \cup {NoSource}, force : BOOLEAN, skip : SUBSET Users]]
  /\ parseTask \in Parsers \cup {NoParser}
  /\ added \in [Users -> Nat]
  /\ attempts \in [Users -> Nat]
  /\ kept \in [Users -> Nat]
  /\ late \in Nat
  /\ refusal \in [Users -> {"none", "lost", "recorded"}]

\* Although the job works on a snapshot while the queue is cleared and filled
\* again under it, a user is invited at most once for each row inserted for them,
\* and once more for each time the row outlived the invitation.
AttemptsBounded == \A u \in Users : attempts[u] <= added[u] + kept[u]

\* A user whose refusal the job read (privacy_restricted) and could record before
\* any crash is not invited again, by this job or a later one, whatever is parsed
\* meanwhile. Refusals the job does not learn are "lost", and such a user may be
\* invited again: the retry after a flood wait turns the exception into
\* failed_after_wait, a time-out or a broken connection comes before the answer,
\* the process dies before mark_blocked_user.
RefusalRespected == job.step = "resolve" => refusal[job.entry.user] # "recorded"

\* After the operator asked the job to stop at most one more user is invited:
\* the one being resolved then.
StopIsPrompt == late <= 1

\* A source counts as parsed only when every member was queued at some time or
\* is blocked: dying during a parse does not lose the rest of the source.
ParsedWasQueued ==
  \A s \in parsed : \A u \in Members[s] : added[u] > 0 \/ u \in blocked

\* The job takes only the rows of the user it is at and of blocked users from the
\* queue: an entry of its snapshot that is out of date removes nobody else's row.
JobRemovesItsOwn ==
  [][\A u \in Users :
       Queued(queue, u) /\ ~Queued(queue', u) /\ job' # job
         => u = job.entry.user \/ u \in blocked]_vars

\* The job ends, whatever the operator does to the queue meanwhile.
JobEnds == Running ~> ~Running

=============================================================================
