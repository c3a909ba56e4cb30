------------------------------ MODULE Accounts ------------------------------
(***************************************************************************)
(* Registration, password reset and removal of the site's accounts.        *)
(*                                                                         *)
(* The site is one asyncio process.  No handler below gives up the loop    *)
(* between its first and its last change, but several save more than one   *)
(* file, and the process may die between two saves: variable step says     *)
(* which handler is between its saves, and only it or Crash may go on.     *)
(* A file is the memory's content at its last save that worked.  The       *)
(* verification bot polls Telegram: an update is acknowledged only by the  *)
(* getUpdates after the one that brought it, so a crash brings it again.   *)
(***************************************************************************)
EXTENDS Naturals, Sequences, FiniteSets, Functions

CONSTANTS
  Users,        \* account ids, each given at most once
  Emails,
  Telegrams,    \* Telegram accounts
  RegTokens,    \* tokens of pending registrations
  ResetTokens,  \* tokens of password resets
  Bots,         \* bot ids of the registry
  NoOne,
  MaxRestarts,  \* bound: crashes of the site
  MaxFailed,    \* bound: saves that fail (disk full)
  MaxClicks     \* bound: updates sent to the bot

ASSUME AccountsAssumption ==
  /\ MaxRestarts \in Nat /\ MaxFailed \in Nat /\ MaxClicks \in Nat
  /\ NoOne \notin Users \cup Emails \cup Telegrams \cup RegTokens \cup ResetTokens
  /\ RegTokens \cap ResetTokens = {}

VARIABLES
  users, usersDisk,    \* UserStore._users and users.json
  emailIdx,            \* UserStore._email_idx
  regs, regsDisk,      \* PendingRegistrationStore._by_token and its file
  resets, resetsDisk,  \* PasswordResetStore._by_token and its file
  bots, botsDisk,      \* BotRegistry._cache (the owners) and bots.json
  expired,             \* tokens whose time is over
  inbox, done,         \* updates Telegram holds; how many the bot has handled
  step,                \* the handler between two of its saves
  restarts, failed,
  \* History: whom each token was for, which Telegram sent which token, the
  \* accounts made and the passwords set with a token, the referrers deleted
  \* while a pending registration named them, the Telegrams of deleted accounts.
  aim, clicked, made, changed, orphaned, freed

stores == <<users, usersDisk, emailIdx, regs, regsDisk, resets, resetsDisk, bots, botsDisk>>
world  == <<expired, inbox, done, step, restarts, failed>>
history == <<aim, clicked, made, changed, orphaned, freed>>
vars == <<stores, world, history>>

Tokens == RegTokens \cup ResetTokens
Idle == <<"idle", NoOne>>

UserRec  == [email : Emails, telegram : Telegrams, referrer : Users \cup {NoOne},
             password : Tokens]
RegRec   == [email : Emails, referrer : Users \cup {NoOne}, telegram : Telegrams \cup {NoOne}]
ResetRec == [user : Users, verified : BOOLEAN]

(***************************************************************************)
(* The stores                                                              *)
(***************************************************************************)
Without(f, S) == Restrict(f, DOMAIN f \ S)
With(f, k, v) == [x \in DOMAIN f \cup {k} |-> IF x = k THEN v ELSE f[x]]

\* _prune_locked, the filter of _save_locked and that of _load are the same.
Unexpired(pending) == Without(pending, expired)

\* A save replaces the file, or fails and is only logged.
Save(disk, mem) ==
  \/ disk' = mem /\ UNCHANGED failed
  \/ failed < MaxFailed /\ failed' = failed + 1 /\ UNCHANGED disk

EmailTaken(e) == e \in DOMAIN emailIdx
TelegramTaken(g) == \E u \in DOMAIN users : users[u].telegram = g
Index(us) == [e \in {us[u].email : u \in DOMAIN us} |->
                CHOOSE u \in DOMAIN us : us[u].email = e]

(***************************************************************************)
(* Registration                                                            *)
(***************************************************************************)
\* register_start: the pending registration is stored before the answer is
\* given, so a token nobody is told of is a token nobody uses.
RegisterStart(t, e, r) ==
  /\ step = Idle /\ aim[t] = NoOne
  /\ ~EmailTaken(e)
  /\ r \in DOMAIN users \cup {NoOne}
  /\ regs' = With(Unexpired(regs), t, [email |-> e, referrer |-> r, telegram |-> NoOne])
  /\ Save(regsDisk, regs')
  /\ aim' = [aim EXCEPT ![t] = e]
  /\ UNCHANGED <<users, usersDisk, emailIdx, resets, resetsDisk, bots, botsDisk, expired,
                 inbox, done, step, restarts, clicked, made, changed, orphaned, freed>>

\* A slip of CreateWithHash: the Telegram was looked at when it was verified.
CreateWithHashUnchecked(u, t) ==
  /\ ~EmailTaken(regs[t].email)
  /\ users' = With(users, u, [email |-> regs[t].email, telegram |-> regs[t].telegram,
                              referrer |-> regs[t].referrer, password |-> t])
  /\ emailIdx' = With(emailIdx, regs[t].email, u)
  /\ Save(usersDisk, users')

\* create_with_hash
CreateWithHash(u, t) ==
  /\ ~EmailTaken(regs[t].email)
  /\ ~TelegramTaken(regs[t].telegram)
  /\ users' = With(users, u, [email |-> regs[t].email, telegram |-> regs[t].telegram,
                              referrer |-> regs[t].referrer, password |-> t])
  /\ emailIdx' = With(emailIdx, regs[t].email, u)
  /\ Save(usersDisk, users')

\* A slip of MarkCompleted: the entry is pruned only when it expires.
MarkCompletedKept(pending, t) == Unexpired(pending)

\* mark_completed: a completed entry is pruned at once, and not written.
MarkCompleted(pending, t) == Unexpired(Without(pending, {t}))

\* register_complete up to its first save.  A Telegram that is taken is refused
\* and leaves everything as it is.
RegisterComplete(t) ==
  /\ step = Idle /\ t \in DOMAIN regs \ expired /\ regs[t].telegram # NoOne
  /\ \/ /\ EmailTaken(regs[t].email)
        /\ regs' = MarkCompleted(regs, t)
        /\ Save(regsDisk, regs')
        /\ UNCHANGED <<users, usersDisk, emailIdx, step, made>>
     \/ /\ \E u \in Users \ UNION {made[x] : x \in RegTokens} :
             /\ CreateWithHash(u, t)
             /\ made' = [made EXCEPT ![t] = @ \cup {u}]
        /\ step' = <<"complete", t>>
        /\ UNCHANGED <<regs, regsDisk>>
  /\ UNCHANGED <<resets, resetsDisk, bots, botsDisk, expired, inbox, done, restarts,
                 aim, clicked, changed, orphaned, freed>>

\* register_complete, its second save.
RegisterFinish(t) ==
  /\ step = <<"complete", t>> /\ step' = Idle
  /\ regs' = MarkCompleted(regs, t)
  /\ Save(regsDisk, regs')
  /\ UNCHANGED <<users, usersDisk, emailIdx, resets, resetsDisk, bots, botsDisk, expired,
                 inbox, done, restarts, history>>

(***************************************************************************)
(* Password reset                                                          *)
(***************************************************************************)
\* password_reset_start
ResetStart(t, u) ==
  /\ step = Idle /\ aim[t] = NoOne
  /\ u \in DOMAIN users
  /\ resets' = With(Unexpired(resets), t, [user |-> u, verified |-> FALSE])
  /\ Save(resetsDisk, resets')
  /\ aim' = [aim EXCEPT ![t] = u]
  /\ UNCHANGED <<users, usersDisk, emailIdx, regs, regsDisk, bots, botsDisk, expired,
                 inbox, done, step, restarts, clicked, made, changed, orphaned, freed>>

\* password_reset_complete up to its first save: set_password of an account
\* that still exists.
ResetComplete(t) ==
  /\ step = Idle /\ t \in DOMAIN resets \ expired /\ resets[t].verified
  /\ resets[t].user \in DOMAIN users
  /\ users' = [users EXCEPT ![resets[t].user].password = t]
  /\ Save(usersDisk, users')
  /\ changed' = [changed EXCEPT ![t] = @ + 1]
  /\ step' = <<"reset", t>>
  /\ UNCHANGED <<emailIdx, regs, regsDisk, resets, resetsDisk, bots, botsDisk, expired,
                 inbox, done, restarts, aim, clicked, made, orphaned, freed>>

ResetFinish(t) ==
  /\ step = <<"reset", t>> /\ step' = Idle
  /\ resets' = MarkCompleted(resets, t)
  /\ Save(resetsDisk, resets')
  /\ UNCHANGED <<users, usersDisk, emailIdx, regs, regsDisk, bots, botsDisk, expired,
                 inbox, done, restarts, history>>

\* A token's time to live runs out.
Expire(t) ==
  /\ aim[t] # NoOne /\ t \notin expired
  /\ expired' = expired \cup {t}
  /\ UNCHANGED <<stores, inbox, done, step, restarts, failed, history>>

(***************************************************************************)
(* The verification bot                                                    *)
(***************************************************************************)
\* Somebody opens the link of a token from a Telegram account.
Click(t, g) ==
  /\ aim[t] # NoOne /\ <<t, g>> \notin clicked /\ Cardinality(clicked) < MaxClicks
  /\ inbox' = Append(inbox, <<t, g>>)
  /\ clicked' = clicked \cup {<<t, g>>}
  /\ UNCHANGED <<stores, expired, done, step, restarts, failed, aim, made, changed, orphaned, freed>>

\* A slip of ResetAccepts: whoever brings the token confirms it.
ResetAcceptsAnyone(t, g) ==
  /\ t \in DOMAIN resets \ expired /\ ~resets[t].verified
  /\ resets[t].user \in DOMAIN users

\* mark_verified of both stores, and the conditions handle_update puts before it
RegAccepts(t, g) ==
  /\ ~TelegramTaken(g)
  /\ t \in DOMAIN regs \ expired /\ regs[t].telegram = NoOne

ResetAccepts(t, g) ==
  /\ t \in DOMAIN resets \ expired /\ ~resets[t].verified
  /\ resets[t].user \in DOMAIN users /\ users[resets[t].user].telegram = g

\* handle_update: the token counts, or the sender is told why it does not.
HandleUpdate ==
  /\ step = Idle /\ done < Len(inbox)
  /\ LET t == inbox[done + 1][1]
         g == inbox[done + 1][2]
     IN  \/ /\ RegAccepts(t, g)
            /\ regs' = [regs EXCEPT ![t].telegram = g]
            /\ Save(regsDisk, regs')
            /\ UNCHANGED <<resets, resetsDisk>>
         \/ /\ ResetAccepts(t, g)
            /\ resets' = [resets EXCEPT ![t].verified = TRUE]
            /\ Save(resetsDisk, resets')
            /\ UNCHANGED <<regs, regsDisk>>
         \/ /\ ~RegAccepts(t, g) /\ ~ResetAccepts(t, g)
            /\ UNCHANGED <<regs, regsDisk, resets, resetsDisk, failed>>
  /\ done' = done + 1
  /\ UNCHANGED <<users, usersDisk, emailIdx, bots, botsDisk, expired, inbox, step,
                 restarts, history>>

\* A slip of AcknowledgeUpdates: the offset follows the last update that came.
AcknowledgeAll ==
  /\ done > 0 /\ inbox' = <<>> /\ done' = 0
  /\ UNCHANGED <<stores, expired, step, restarts, failed, history>>

\* getUpdates with the offset after the last update handled
AcknowledgeUpdates ==
  /\ done > 0
  /\ inbox' = SubSeq(inbox, done + 1, Len(inbox)) /\ done' = 0
  /\ UNCHANGED <<stores, expired, step, restarts, failed, history>>

(***************************************************************************)
(* The administrator, the registry, and crashes                            *)
(***************************************************************************)
\* add_bot.  The registry's save raises when it fails: the cache has the bot,
\* the caller has an error.
AddBot(u, b) ==
  /\ step = Idle /\ u \in DOMAIN users
  /\ b \notin DOMAIN bots \cup DOMAIN botsDisk
  /\ bots' = With(bots, b, u)
  /\ Save(botsDisk, bots')
  /\ UNCHANGED <<users, usersDisk, emailIdx, regs, regsDisk, resets, resetsDisk, expired,
                 inbox, done, step, restarts, history>>

\* A slip of DeleteBots: the bots go from the cache, the file is left to the next save.
DeleteBotsUnsaved(u) ==
  /\ step = Idle /\ u \in DOMAIN users
  /\ LET owned == {b \in DOMAIN bots : bots[b] = u}
     IN  /\ bots' = Without(bots, owned)
         /\ step' = <<"delete", u>>
  /\ UNCHANGED <<botsDisk, failed>>
  /\ UNCHANGED <<users, usersDisk, emailIdx, regs, regsDisk, resets, resetsDisk, expired,
                 inbox, done, restarts, history>>

\* admin_delete_user, first remove_for_owner, which saves only when it removed
\* a bot; a save that fails raises and ends the request.
DeleteBots(u) ==
  /\ step = Idle /\ u \in DOMAIN users
  /\ LET owned == {b \in DOMAIN bots : bots[b] = u}
     IN  /\ bots' = Without(bots, owned)
         /\ IF owned = {} THEN UNCHANGED <<botsDisk, failed>> ELSE Save(botsDisk, bots')
         /\ step' = IF failed' = failed THEN <<"delete", u>> ELSE Idle
  /\ UNCHANGED <<users, usersDisk, emailIdx, regs, regsDisk, resets, resetsDisk, expired,
                 inbox, done, restarts, history>>

\* users.delete, the records it leaves
Forgotten(u) ==
  [v \in DOMAIN users \ {u} |->
     IF users[v].referrer = u THEN [users[v] EXCEPT !.referrer = NoOne] ELSE users[v]]

\* users.delete: the record, its e-mail, and the references to it.
DeleteUser(u) ==
  /\ step = <<"delete", u>> /\ step' = Idle
  /\ users' = Forgotten(u)
  /\ emailIdx' = Without(emailIdx, {users[u].email})
  /\ Save(usersDisk, users')
  /\ freed' = freed \cup {users[u].telegram}
  /\ orphaned' = orphaned \cup {v \in {u} : \E t \in DOMAIN regs : regs[t].referrer = v}
  /\ UNCHANGED <<regs, regsDisk, resets, resetsDisk, bots, botsDisk, expired, inbox, done,
                 restarts, aim, clicked, made, changed>>

\* The process dies and starts again from its files.
Crash ==
  /\ restarts < MaxRestarts /\ restarts' = restarts + 1
  /\ users' = usersDisk /\ emailIdx' = Index(usersDisk)
  /\ regs' = Unexpired(regsDisk) /\ resets' = Unexpired(resetsDisk)
  /\ bots' = botsDisk
  /\ done' = 0 /\ step' = Idle
  /\ UNCHANGED <<usersDisk, regsDisk, resetsDisk, botsDisk, expired, inbox, failed, history>>

(***************************************************************************)
(* Specification                                                           *)
(***************************************************************************)
Init ==
  /\ users = <<>> /\ usersDisk = <<>> /\ emailIdx = <<>>
  /\ regs = <<>> /\ regsDisk = <<>> /\ resets = <<>> /\ resetsDisk = <<>>
  /\ bots = <<>> /\ botsDisk = <<>>
  /\ expired = {} /\ inbox = <<>> /\ done = 0 /\ step = Idle
  /\ restarts = 0 /\ failed = 0
  /\ aim = [t \in Tokens |-> NoOne] /\ clicked = {}
  /\ made = [t \in RegTokens |-> {}] /\ changed = [t \in ResetTokens |-> 0]
  /\ orphaned = {} /\ freed = {}

Finish ==
  \/ \E t \in RegTokens : RegisterFinish(t)
  \/ \E t \in ResetTokens : ResetFinish(t)
  \/ \E u \in Users : DeleteUser(u)

Next ==
  \/ \E t \in RegTokens, e \in Emails, r \in Users \cup {NoOne} : RegisterStart(t, e, r)
  \/ \E t \in RegTokens : RegisterComplete(t)
  \/ \E t \in ResetTokens, u \in Users : ResetStart(t, u)
  \/ \E t \in ResetTokens : ResetComplete(t)
  \/ Finish
  \/ \E t \in Tokens : Expire(t)
  \/ \E t \in Tokens, g \in Telegrams : Click(t, g)
  \/ HandleUpdate \/ AcknowledgeUpdates
  \/ \E u \in Users : DeleteBots(u)
  \/ \E u \in Users, b \in Bots : AddBot(u, b)
  \/ Crash

Spec == Init /\ [][Next]_vars

(***************************************************************************)
(* Properties                                                              *)
(***************************************************************************)
\* Types of the variables.
TypeOK ==
  /\ DOMAIN users \subseteq Users /\ \A u \in DOMAIN users : users[u] \in UserRec
  /\ DOMAIN usersDisk \subseteq Users /\ \A u \in DOMAIN usersDisk : usersDisk[u] \in UserRec
  /\ DOMAIN emailIdx \subseteq Emails /\ \A e \in DOMAIN emailIdx : emailIdx[e] \in Users
  /\ DOMAIN regs \subseteq RegTokens /\ \A t \in DOMAIN regs : regs[t] \in RegRec
  /\ DOMAIN regsDisk \subseteq RegTokens /\ \A t \in DOMAIN regsDisk : regsDisk[t] \in RegRec
  /\ DOMAIN resets \subseteq ResetTokens /\ \A t \in DOMAIN resets : resets[t] \in ResetRec
  /\ DOMAIN resetsDisk \subseteq ResetTokens
  /\ \A t \in DOMAIN resetsDisk : resetsDisk[t] \in ResetRec
  /\ DOMAIN bots \subseteq Bots /\ \A b \in DOMAIN bots : bots[b] \in Users
  /\ DOMAIN botsDisk \subseteq Bots /\ \A b \in DOMAIN botsDisk : botsDisk[b] \in Users
  /\ expired \subseteq Tokens /\ inbox \in Seq(Tokens \X Telegrams) /\ done \in 0 .. Len(inbox)
  /\ step \in {Idle} \cup ({"complete"} \X RegTokens) \cup ({"reset"} \X ResetTokens)
                \cup ({"delete"} \X Users)
  /\ restarts \in 0 .. MaxRestarts /\ failed \in 0 .. MaxFailed
  /\ aim \in [Tokens -> Emails \cup Users \cup {NoOne}]
  /\ clicked \subseteq Tokens \X Telegrams
  /\ made \in [RegTokens -> SUBSET Users] /\ changed \in [ResetTokens -> Nat]
  /\ orphaned \subseteq Users /\ freed \subseteq Telegrams

\* users.py keeps the e-mail index beside the records: after registrations,
\* deletions and restarts an account is found under its own e-mail and nothing
\* else is, and no two accounts share an e-mail or a Telegram, in memory or in
\* the file.  (The types are part of it.)
OneAccountEach ==
  /\ TypeOK
  /\ emailIdx = Index(users)
  /\ \A us \in {users, usersDisk} : \A u, v \in DOMAIN us :
       us[u].email = us[v].email \/ us[u].telegram = us[v].telegram => u = v

\* A password was set with a token that was meant for this account, and the
\* account's own Telegram had sent that token to the bot.
PasswordConfirmed ==
  \A us \in {users, usersDisk} : \A u \in DOMAIN us :
    /\ <<us[u].password, us[u].telegram>> \in clicked
    /\ aim[us[u].password] = IF us[u].password \in RegTokens THEN us[u].email ELSE u

\* The account is saved before the token is used up: a token makes a second
\* account, or changes the password again, only if the site died in between,
\* however many requests bring it.
TokenUsedOnce ==
  /\ \A t \in RegTokens : Cardinality(made[t]) <= 1 + restarts
  /\ \A t \in ResetTokens : changed[t] <= 1 + restarts

\* admin_delete_user takes the bots first and delete clears the references to
\* the account: as long as every save works, a bot's owner exists, in memory and
\* in the files, at every moment and after a crash, and an account names a
\* referrer that does not exist only when its registration was pending while
\* the referrer was deleted.
DeletedLeaveNothing ==
  failed = 0 =>
    /\ \A b \in DOMAIN bots : bots[b] \in DOMAIN users
    /\ \A b \in DOMAIN botsDisk : botsDisk[b] \in DOMAIN usersDisk
    /\ \A u \in DOMAIN users :
         users[u].referrer \in DOMAIN users \cup {NoOne} \cup orphaned

\* getUpdates acknowledges only what was handled, and handling saves: as long as
\* every save works no crash loses a click.  One that is not waiting any more
\* has confirmed its registration, or the registration is over or confirmed by
\* another Telegram, or the Telegram has an account, or had one.
ClickCounts ==
  failed = 0 =>
    \A click \in clicked :
      LET t == click[1]
          g == click[2]
      IN  \/ click \in Range(inbox)
          \/ t \notin DOMAIN regs \ expired \/ regs[t].telegram # NoOne
          \/ TelegramTaken(g) \/ g \in freed
=============================================================================
