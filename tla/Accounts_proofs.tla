-------------------------- MODULE Accounts_proofs --------------------------
(***************************************************************************)
(* The safety of Accounts for any numbers of accounts, tokens, Telegrams,  *)
(* bots, crashes and failed saves.                                         *)
(***************************************************************************)
EXTENDS Accounts, FiniteSetTheorems, SequenceTheorems, TLAPS

-----------------------------------------------------------------------------
(* The inductive invariant.                                                *)

\* An id that a registration was given is never given again.
Registered == UNION {made[t] : t \in RegTokens}

Distinct(us) ==
  \A u, v \in DOMAIN us : us[u].email = us[v].email \/ us[u].telegram = us[v].telegram => u = v

\* Accounts were registered, are told apart by e-mail and Telegram, and found by
\* their e-mail; an account keeps its Telegram, so the file cannot know another
\* one; and who is being deleted is still there.
UsersInv ==
  /\ DOMAIN users \cup DOMAIN usersDisk \subseteq Registered
  /\ Distinct(users) /\ Distinct(usersDisk)
  /\ emailIdx = Index(users)
  /\ \A u \in DOMAIN users \cap DOMAIN usersDisk : users[u].telegram = usersDisk[u].telegram
  /\ \A u \in Users : step = <<"delete", u>> => u \in DOMAIN users

\* A pending registration is for the e-mail its token was given for (a), and was
\* confirmed by a click (c).
RegsAimed(rs, a, c) ==
  \A t \in DOMAIN rs :
    /\ a[t] = rs[t].email
    /\ rs[t].telegram # NoOne => <<t, rs[t].telegram>> \in c

\* A reset is for the registered account its token was given for, and was confirmed
\* by a click of the Telegram that this account has wherever it is known.
ResetsAimed(rs, a, ids) == \A t \in DOMAIN rs : a[t] = rs[t].user /\ rs[t].user \in ids

ResetsClicked(rs, us, c) ==
  \A t \in DOMAIN rs :
    rs[t].verified /\ rs[t].user \in DOMAIN us => <<t, us[rs[t].user].telegram>> \in c

\* PasswordConfirmed, of the accounts us.
Confirmed(us, a, c) ==
  \A u \in DOMAIN us :
    /\ <<us[u].password, us[u].telegram>> \in c
    /\ a[us[u].password] = IF us[u].password \in RegTokens THEN us[u].email ELSE u

AimInv ==
  /\ RegsAimed(regs, aim, clicked) /\ RegsAimed(regsDisk, aim, clicked)
  /\ ResetsAimed(resets, aim, Registered) /\ ResetsAimed(resetsDisk, aim, Registered)
  /\ ResetsClicked(resets, users, clicked) /\ ResetsClicked(resetsDisk, users, clicked)
  /\ ResetsClicked(resets, usersDisk, clicked) /\ ResetsClicked(resetsDisk, usersDisk, clicked)
  /\ Confirmed(users, aim, clicked) /\ Confirmed(usersDisk, aim, clicked)
  /\ \A i \in 1 .. Len(inbox) : inbox[i] \in clicked
  /\ \A click \in clicked : aim[click[1]] # NoOne

\* A token that can still be used was used at most once before each crash.
RegUsed(t) ==
  /\ IsFiniteSet(made[t]) /\ Cardinality(made[t]) <= 1 + restarts
  /\ aim[t] = NoOne => made[t] = {}
  /\ t \in DOMAIN regs /\ step # <<"complete", t>> => Cardinality(made[t]) <= restarts

ResetUsed(t) ==
  /\ changed[t] <= 1 + restarts
  /\ aim[t] = NoOne => changed[t] = 0
  /\ t \in DOMAIN resets /\ step # <<"reset", t>> => changed[t] <= restarts

UseInv == (\A t \in RegTokens : RegUsed(t)) /\ (\A t \in ResetTokens : ResetUsed(t))

Same(f, g) == DOMAIN f = DOMAIN g /\ \A x \in DOMAIN f : f[x] = g[x]

SameBut(S, f, g) ==
  /\ DOMAIN f \ S = DOMAIN g \ S
  /\ \A x \in DOMAIN f \ S : f[x] = g[x]

Known == DOMAIN users \cup {NoOne} \cup orphaned

\* While every save works, the files say what the memory says, up to tokens that
\* have expired; who is being deleted has no bot any more.
SavedInv ==
  failed = 0 =>
    /\ Same(users, usersDisk) /\ Same(bots, botsDisk) /\ SameBut(expired, regs, regsDisk)
    /\ \A b \in DOMAIN bots : bots[b] \in DOMAIN users /\ step # <<"delete", bots[b]>>
    /\ \A u \in DOMAIN users : users[u].referrer \in Known
    /\ \A t \in DOMAIN regs : regs[t].referrer \in Known

\* The click t, g confirms nothing any more.
Over(t, g) ==
  \/ t \notin DOMAIN regs \ expired \/ regs[t].telegram # NoOne
  \/ TelegramTaken(g) \/ g \in freed

\* While every save works, a click that the bot has still to handle waits, and any
\* other is over.
ClickInv ==
  failed = 0 =>
    \A click \in clicked :
      (\E i \in done + 1 .. Len(inbox) : inbox[i] = click) \/ Over(click[1], click[2])

IInv == TypeOK /\ UsersInv /\ AimInv /\ UseInv /\ SavedInv /\ ClickInv

-----------------------------------------------------------------------------
(* Stores.                                                                 *)

LEMMA WithFacts ==
  ASSUME NEW f, NEW k, NEW v
  PROVE  /\ DOMAIN With(f, k, v) = DOMAIN f \cup {k}
         /\ With(f, k, v)[k] = v
         /\ \A x \in DOMAIN f \ {k} : With(f, k, v)[x] = f[x]
BY DEF With

LEMMA WithoutFacts ==
  ASSUME NEW f, NEW S
  PROVE  /\ DOMAIN Without(f, S) = DOMAIN f \ S
         /\ \A x \in DOMAIN f \ S : Without(f, S)[x] = f[x]
BY DEF Without, Restrict

LEMMA UnexpiredFacts ==
  ASSUME NEW f
  PROVE  /\ DOMAIN Unexpired(f) = DOMAIN f \ expired
         /\ \A x \in DOMAIN f \ expired : Unexpired(f)[x] = f[x]
BY WithoutFacts DEF Unexpired

LEMMA MarkCompletedFacts ==
  ASSUME NEW f, NEW t
  PROVE  /\ DOMAIN MarkCompleted(f, t) = DOMAIN f \ (expired \cup {t})
         /\ \A x \in DOMAIN f \ (expired \cup {t}) : MarkCompleted(f, t)[x] = f[x]
<1> DEFINE g == Without(f, {t})
<1>1. DOMAIN g = DOMAIN f \ {t} /\ \A x \in DOMAIN f \ {t} : g[x] = f[x]
  BY WithoutFacts
<1>2. /\ DOMAIN Unexpired(g) = DOMAIN g \ expired
      /\ \A x \in DOMAIN g \ expired : Unexpired(g)[x] = g[x]
  BY UnexpiredFacts
<1>3. MarkCompleted(f, t) = Unexpired(g)
  BY DEF MarkCompleted
<1>4. QED
  BY <1>1, <1>2, <1>3

\* A store of a domain and a type.
Typed(f, D, T) == DOMAIN f \subseteq D /\ \A x \in DOMAIN f : f[x] \in T

\* What is in g was in f.
Shrinks(f, g) == DOMAIN g \subseteq DOMAIN f /\ \A x \in DOMAIN g : g[x] = f[x]

LEMMA ShrinksTyped ==
  ASSUME NEW f, NEW g, NEW D, NEW T, Typed(f, D, T), Shrinks(f, g)
  PROVE  Typed(g, D, T)
BY DEF Typed, Shrinks

LEMMA UnexpiredShrinks == ASSUME NEW f PROVE Shrinks(f, Unexpired(f))
BY UnexpiredFacts DEF Shrinks

LEMMA MarkCompletedShrinks == ASSUME NEW f, NEW t PROVE Shrinks(f, MarkCompleted(f, t))
<1>1. /\ DOMAIN MarkCompleted(f, t) = DOMAIN f \ (expired \cup {t})
      /\ \A x \in DOMAIN f \ (expired \cup {t}) : MarkCompleted(f, t)[x] = f[x]
  BY MarkCompletedFacts
<1>2. QED
  BY <1>1 DEF Shrinks

LEMMA WithoutShrinks == ASSUME NEW f, NEW S PROVE Shrinks(f, Without(f, S))
BY DEF Without, Restrict, Shrinks

LEMMA WithTyped ==
  ASSUME NEW f, NEW D, NEW T, Typed(f, D, T), NEW k \in D, NEW v \in T
  PROVE  Typed(With(f, k, v), D, T)
<1>1. ASSUME NEW x \in DOMAIN With(f, k, v) PROVE With(f, k, v)[x] \in T
  BY <1>1 DEF With, Typed
<1>2. DOMAIN With(f, k, v) \subseteq D
  BY DEF With, Typed
<1>3. QED
  BY <1>1, <1>2 DEF Typed

-----------------------------------------------------------------------------
(* Types.                                                                  *)

Steps == {Idle} \cup ({"complete"} \X RegTokens) \cup ({"reset"} \X ResetTokens)
           \cup ({"delete"} \X Users)

StoresTyped ==
  /\ Typed(users, Users, UserRec) /\ Typed(usersDisk, Users, UserRec)
  /\ Typed(emailIdx, Emails, Users)
  /\ Typed(regs, RegTokens, RegRec) /\ Typed(regsDisk, RegTokens, RegRec)
  /\ Typed(resets, ResetTokens, ResetRec) /\ Typed(resetsDisk, ResetTokens, ResetRec)
  /\ Typed(bots, Bots, Users) /\ Typed(botsDisk, Bots, Users)

WorldTyped ==
  /\ expired \subseteq Tokens /\ inbox \in Seq(Tokens \X Telegrams) /\ done \in 0 .. Len(inbox)
  /\ step \in Steps
  /\ restarts \in 0 .. MaxRestarts /\ failed \in 0 .. MaxFailed

HistoryTyped ==
  /\ aim \in [Tokens -> Emails \cup Users \cup {NoOne}]
  /\ clicked \subseteq Tokens \X Telegrams
  /\ made \in [RegTokens -> SUBSET Users] /\ changed \in [ResetTokens -> Nat]
  /\ orphaned \subseteq Users /\ freed \subseteq Telegrams

LEMMA TypeParts == TypeOK <=> StoresTyped /\ WorldTyped /\ HistoryTyped
BY DEF TypeOK, StoresTyped, WorldTyped, HistoryTyped, Typed, Steps

LEMMA TypePartsNext == TypeOK' <=> StoresTyped' /\ WorldTyped' /\ HistoryTyped'
BY DEF TypeOK, StoresTyped, WorldTyped, HistoryTyped, Typed, Steps

LEMMA IndexTyped ==
  ASSUME NEW us, Typed(us, Users, UserRec)
  PROVE  Typed(Index(us), Emails, Users)
<1>1. \A u \in DOMAIN us : us[u].email \in Emails
  BY DEF Typed, UserRec
<1>2. ASSUME NEW e \in {us[u].email : u \in DOMAIN us}
      PROVE  (CHOOSE u \in DOMAIN us : us[u].email = e) \in Users
  BY DEF Typed
<1>3. QED
  BY <1>1, <1>2 DEF Typed, Index

LEMMA TypeInit == Init => TypeOK
<1> SUFFICES ASSUME Init PROVE TypeOK
  OBVIOUS
<1>1. StoresTyped
  BY DEF Init, StoresTyped, Typed
<1>2. WorldTyped
  BY AccountsAssumption DEF Init, WorldTyped, Steps
<1>3. HistoryTyped
  BY AccountsAssumption DEF Init, HistoryTyped
<1>4. QED
  BY <1>1, <1>2, <1>3, TypeParts

LEMMA IdleStep == Idle \in Steps /\ \A x : Idle # <<"complete", x>> /\ Idle # <<"reset", x>> /\ Idle # <<"delete", x>>
BY DEF Idle, Steps

\* The parts of the state that a step leaves alone keep their types.
LEMMA TypeStep == TypeOK /\ UsersInv /\ [Next]_vars => TypeOK'
<1> SUFFICES ASSUME TypeOK, UsersInv, [Next]_vars PROVE TypeOK'
  OBVIOUS
<1>0. StoresTyped /\ WorldTyped /\ HistoryTyped
  BY TypeParts
\* Who is being deleted is still there, and has the Telegram that is freed.
<1>0a. \A u \in Users : DeleteUser(u) => u \in DOMAIN users
  BY DEF DeleteUser, UsersInv
<1> USE DEF stores, world, history
<1>1. ASSUME NEW t \in RegTokens, NEW e \in Emails, NEW r \in Users \cup {NoOne}, RegisterStart(t, e, r)
      PROVE  TypeOK'
  <2> DEFINE v == [email |-> e, referrer |-> r, telegram |-> NoOne]
  <2>1. v \in RegRec
    BY DEF RegRec
  <2>2. Typed(Unexpired(regs), RegTokens, RegRec)
    BY <1>0, UnexpiredShrinks, ShrinksTyped DEF StoresTyped
  <2>3. regs' = With(Unexpired(regs), t, v)
    BY <1>1 DEF RegisterStart
  <2>4. Typed(regs', RegTokens, RegRec)
    BY <2>1, <2>2, <2>3, WithTyped
  <2>5. StoresTyped'
    BY <1>0, <1>1, <2>4 DEF RegisterStart, Save, StoresTyped
  <2>6. WorldTyped'
    BY <1>0, <1>1, AccountsAssumption DEF RegisterStart, Save, WorldTyped
  <2>7. HistoryTyped'
    BY <1>0, <1>1 DEF RegisterStart, HistoryTyped, Tokens
  <2>8. QED
    BY <2>5, <2>6, <2>7, TypePartsNext
<1>2. ASSUME NEW t \in RegTokens, RegisterComplete(t) PROVE TypeOK'
  <2>1. CASE /\ regs' = MarkCompleted(regs, t)
             /\ Save(regsDisk, regs')
             /\ UNCHANGED <<users, usersDisk, emailIdx, step, made>>
    <3>1. Typed(regs', RegTokens, RegRec)
      BY <1>0, <2>1, MarkCompletedShrinks, ShrinksTyped DEF StoresTyped
    <3>2. StoresTyped'
      BY <1>0, <1>2, <2>1, <3>1 DEF RegisterComplete, Save, StoresTyped
    <3>3. WorldTyped' /\ HistoryTyped'
      BY <1>0, <1>2, <2>1, AccountsAssumption DEF RegisterComplete, Save, WorldTyped, HistoryTyped
    <3>4. QED
      BY <3>2, <3>3, TypePartsNext
  <2>2. CASE \E u \in Users \ UNION {made[x] : x \in RegTokens} :
               /\ CreateWithHash(u, t)
               /\ made' = [made EXCEPT ![t] = @ \cup {u}]
               /\ step' = <<"complete", t>>
               /\ UNCHANGED <<regs, regsDisk>>
    <3>1. PICK u \in Users : /\ CreateWithHash(u, t)
                             /\ made' = [made EXCEPT ![t] = @ \cup {u}]
                             /\ step' = <<"complete", t>>
                             /\ UNCHANGED <<regs, regsDisk>>
      BY <2>2
    <3> DEFINE v == [email |-> regs[t].email, telegram |-> regs[t].telegram,
                     referrer |-> regs[t].referrer, password |-> t]
    <3>2. regs[t] \in RegRec /\ regs[t].telegram # NoOne
      BY <1>0, <1>2 DEF RegisterComplete, StoresTyped, Typed
    <3>3. v \in UserRec
      BY <3>2 DEF RegRec, UserRec, Tokens
    <3>4. users' = With(users, u, v) /\ emailIdx' = With(emailIdx, regs[t].email, u)
      BY <3>1 DEF CreateWithHash
    <3>5. regs[t].email \in Emails
      BY <3>2 DEF RegRec
    <3> HIDE DEF v
    <3>6. Typed(users', Users, UserRec) /\ Typed(emailIdx', Emails, Users)
      BY <1>0, <3>3, <3>4, <3>5, WithTyped DEF StoresTyped
    <3>7. StoresTyped'
      BY <1>0, <1>2, <3>1, <3>6 DEF RegisterComplete, CreateWithHash, Save, StoresTyped
    <3>8. WorldTyped'
      BY <1>0, <1>2, <3>1, AccountsAssumption
      DEF RegisterComplete, CreateWithHash, Save, WorldTyped, Steps
    <3>9. HistoryTyped'
      BY <1>0, <1>2, <3>1 DEF RegisterComplete, HistoryTyped
    <3>10. QED
      BY <3>7, <3>8, <3>9, TypePartsNext
  <2>3. QED
    BY <1>2, <2>1, <2>2 DEF RegisterComplete
<1>3. ASSUME NEW t \in RegTokens, RegisterFinish(t) PROVE TypeOK'
  <2>1. Typed(regs', RegTokens, RegRec)
    BY <1>0, <1>3, MarkCompletedShrinks, ShrinksTyped DEF RegisterFinish, StoresTyped
  <2>2. StoresTyped'
    BY <1>0, <1>3, <2>1 DEF RegisterFinish, Save, StoresTyped
  <2>3. WorldTyped'
    BY <1>0, <1>3, IdleStep, AccountsAssumption DEF RegisterFinish, Save, WorldTyped
  <2>4. HistoryTyped'
    BY <1>0, <1>3 DEF RegisterFinish, HistoryTyped
  <2>5. QED
    BY <2>2, <2>3, <2>4, TypePartsNext
<1>4. ASSUME NEW t \in ResetTokens, NEW u \in Users, ResetStart(t, u) PROVE TypeOK'
  <2> DEFINE v == [user |-> u, verified |-> FALSE]
  <2>1. v \in ResetRec
    BY DEF ResetRec
  <2>2. Typed(Unexpired(resets), ResetTokens, ResetRec)
    BY <1>0, UnexpiredShrinks, ShrinksTyped DEF StoresTyped
  <2>3. resets' = With(Unexpired(resets), t, v)
    BY <1>4 DEF ResetStart
  <2>4. Typed(resets', ResetTokens, ResetRec)
    BY <2>1, <2>2, <2>3, WithTyped
  <2>5. StoresTyped'
    BY <1>0, <1>4, <2>4 DEF ResetStart, Save, StoresTyped
  <2>6. WorldTyped'
    BY <1>0, <1>4, AccountsAssumption DEF ResetStart, Save, WorldTyped
  <2>7. HistoryTyped'
    BY <1>0, <1>4 DEF ResetStart, HistoryTyped, Tokens
  <2>8. QED
    BY <2>5, <2>6, <2>7, TypePartsNext
<1>5. ASSUME NEW t \in ResetTokens, ResetComplete(t) PROVE TypeOK'
  <2>1. Typed(users', Users, UserRec)
    BY <1>0, <1>5 DEF ResetComplete, StoresTyped, Typed, UserRec, Tokens
  <2>2. StoresTyped'
    BY <1>0, <1>5, <2>1 DEF ResetComplete, Save, StoresTyped
  <2>3. WorldTyped'
    BY <1>0, <1>5, AccountsAssumption DEF ResetComplete, Save, WorldTyped, Steps
  <2>4. HistoryTyped'
    BY <1>0, <1>5 DEF ResetComplete, HistoryTyped
  <2>5. QED
    BY <2>2, <2>3, <2>4, TypePartsNext
<1>6. ASSUME NEW t \in ResetTokens, ResetFinish(t) PROVE TypeOK'
  <2>1. Typed(resets', ResetTokens, ResetRec)
    BY <1>0, <1>6, MarkCompletedShrinks, ShrinksTyped DEF ResetFinish, StoresTyped
  <2>2. StoresTyped'
    BY <1>0, <1>6, <2>1 DEF ResetFinish, Save, StoresTyped
  <2>3. WorldTyped'
    BY <1>0, <1>6, IdleStep, AccountsAssumption DEF ResetFinish, Save, WorldTyped
  <2>4. HistoryTyped'
    BY <1>0, <1>6 DEF ResetFinish, HistoryTyped
  <2>5. QED
    BY <2>2, <2>3, <2>4, TypePartsNext
<1>7. ASSUME NEW u \in Users, DeleteUser(u), u \in DOMAIN users PROVE TypeOK'
  <2>1. Typed(users', Users, UserRec)
    <3>1. \A v \in DOMAIN users : [users[v] EXCEPT !.referrer = NoOne] \in UserRec /\ users[v] \in UserRec
      BY <1>0 DEF StoresTyped, Typed, UserRec
    <3>2. QED
      BY <1>0, <1>7, <3>1 DEF DeleteUser, Forgotten, StoresTyped, Typed
  <2>2. Typed(emailIdx', Emails, Users)
    BY <1>0, <1>7, WithoutShrinks, ShrinksTyped DEF DeleteUser, StoresTyped
  <2>3. StoresTyped'
    BY <1>0, <1>7, <2>1, <2>2 DEF DeleteUser, Save, StoresTyped
  <2>4. WorldTyped'
    BY <1>0, <1>7, IdleStep, AccountsAssumption DEF DeleteUser, Save, WorldTyped
  <2>5. users[u].telegram \in Telegrams
    BY <1>0, <1>7 DEF StoresTyped, Typed, UserRec
  <2>6. HistoryTyped'
    BY <1>0, <1>7, <2>5 DEF DeleteUser, HistoryTyped
  <2>7. QED
    BY <2>3, <2>4, <2>6, TypePartsNext
<1>8. ASSUME NEW t \in Tokens, Expire(t) PROVE TypeOK'
  <2>1. StoresTyped' /\ WorldTyped' /\ HistoryTyped'
    BY <1>0, <1>8 DEF Expire, StoresTyped, WorldTyped, HistoryTyped
  <2>2. QED
    BY <2>1, TypePartsNext
<1>9. ASSUME NEW t \in Tokens, NEW g \in Telegrams, Click(t, g) PROVE TypeOK'
  <2>1. inbox' \in Seq(Tokens \X Telegrams) /\ Len(inbox') = Len(inbox) + 1
    BY <1>0, <1>9 DEF Click, WorldTyped
  <2>2. done' \in 0 .. Len(inbox')
    BY <1>0, <1>9, <2>1 DEF Click, WorldTyped
  <2>3. WorldTyped'
    BY <1>0, <1>9, <2>1, <2>2 DEF Click, WorldTyped
  <2>4. StoresTyped' /\ HistoryTyped'
    BY <1>0, <1>9 DEF Click, StoresTyped, HistoryTyped
  <2>5. QED
    BY <2>3, <2>4, TypePartsNext
<1>10. CASE HandleUpdate
  <2> DEFINE t == inbox[done + 1][1]
             g == inbox[done + 1][2]
  <2>1. t \in Tokens /\ g \in Telegrams /\ done' \in 0 .. Len(inbox')
    BY <1>0, <1>10 DEF HandleUpdate, WorldTyped
  <2>2. Typed(regs', RegTokens, RegRec) /\ Typed(regsDisk', RegTokens, RegRec)
    <3>1. CASE RegAccepts(t, g) /\ regs' = [regs EXCEPT ![t].telegram = g] /\ Save(regsDisk, regs')
      <4>1. Typed(regs', RegTokens, RegRec)
        BY <1>0, <2>1, <3>1 DEF RegAccepts, StoresTyped, Typed, RegRec
      <4>2. QED
        BY <1>0, <3>1, <4>1 DEF Save, StoresTyped
    <3>2. CASE UNCHANGED <<regs, regsDisk>>
      BY <1>0, <3>2 DEF StoresTyped
    <3>3. QED
      BY <1>10, <3>1, <3>2 DEF HandleUpdate
  <2>3. Typed(resets', ResetTokens, ResetRec) /\ Typed(resetsDisk', ResetTokens, ResetRec)
    <3>1. CASE ResetAccepts(t, g) /\ resets' = [resets EXCEPT ![t].verified = TRUE]
                                 /\ Save(resetsDisk, resets')
      <4>1. Typed(resets', ResetTokens, ResetRec)
        BY <1>0, <2>1, <3>1 DEF ResetAccepts, StoresTyped, Typed, ResetRec
      <4>2. QED
        BY <1>0, <3>1, <4>1 DEF Save, StoresTyped
    <3>2. CASE UNCHANGED <<resets, resetsDisk>>
      BY <1>0, <3>2 DEF StoresTyped
    <3>3. QED
      BY <1>10, <3>1, <3>2 DEF HandleUpdate
  <2>4. StoresTyped'
    BY <1>0, <1>10, <2>2, <2>3 DEF HandleUpdate, StoresTyped
  <2>5. failed' \in 0 .. MaxFailed
    BY <1>0, <1>10, AccountsAssumption DEF HandleUpdate, Save, WorldTyped
  <2>6. WorldTyped'
    BY <1>0, <1>10, <2>1, <2>5 DEF HandleUpdate, WorldTyped
  <2>7. HistoryTyped'
    BY <1>0, <1>10 DEF HandleUpdate, HistoryTyped
  <2>8. QED
    BY <2>4, <2>6, <2>7, TypePartsNext
<1>11. CASE AcknowledgeUpdates
  <2>1. inbox' \in Seq(Tokens \X Telegrams) /\ done' \in 0 .. Len(inbox')
    BY <1>0, <1>11 DEF AcknowledgeUpdates, WorldTyped
  <2>2. StoresTyped' /\ WorldTyped' /\ HistoryTyped'
    BY <1>0, <1>11, <2>1 DEF AcknowledgeUpdates, StoresTyped, WorldTyped, HistoryTyped
  <2>3. QED
    BY <2>2, TypePartsNext
<1>12. ASSUME NEW u \in Users, DeleteBots(u) PROVE TypeOK'
  <2> DEFINE owned == {b \in DOMAIN bots : bots[b] = u}
  <2>1. /\ bots' = Without(bots, owned)
        /\ UNCHANGED <<botsDisk, failed>> \/ Save(botsDisk, bots')
        /\ step' \in {<<"delete", u>>, Idle}
    BY <1>12 DEF DeleteBots
  <2>2. Typed(bots', Bots, Users)
    BY <1>0, <2>1, WithoutShrinks, ShrinksTyped DEF StoresTyped
  <2>3. StoresTyped'
    BY <1>0, <1>12, <2>1, <2>2 DEF DeleteBots, Save, StoresTyped
  <2>4. WorldTyped'
    BY <1>0, <1>12, <2>1, AccountsAssumption DEF DeleteBots, Save, WorldTyped, Steps
  <2>5. HistoryTyped'
    BY <1>0, <1>12 DEF DeleteBots, HistoryTyped
  <2>6. QED
    BY <2>3, <2>4, <2>5, TypePartsNext
<1>13. ASSUME NEW u \in Users, NEW b \in Bots, AddBot(u, b) PROVE TypeOK'
  <2>1. Typed(bots', Bots, Users)
    BY <1>0, <1>13, WithTyped DEF AddBot, StoresTyped
  <2>2. StoresTyped'
    BY <1>0, <1>13, <2>1 DEF AddBot, Save, StoresTyped
  <2>3. WorldTyped' /\ HistoryTyped'
    BY <1>0, <1>13, AccountsAssumption DEF AddBot, Save, WorldTyped, HistoryTyped
  <2>4. QED
    BY <2>2, <2>3, TypePartsNext
<1>14. CASE Crash
  <2>1. Typed(emailIdx', Emails, Users)
    BY <1>0, <1>14, IndexTyped DEF Crash, StoresTyped
  <2>2. Typed(regs', RegTokens, RegRec) /\ Typed(resets', ResetTokens, ResetRec)
    BY <1>0, <1>14, UnexpiredShrinks, ShrinksTyped DEF Crash, StoresTyped
  <2>3. StoresTyped'
    BY <1>0, <1>14, <2>1, <2>2 DEF Crash, StoresTyped
  <2>4. WorldTyped'
    BY <1>0, <1>14, IdleStep, AccountsAssumption DEF Crash, WorldTyped
  <2>5. HistoryTyped'
    BY <1>0, <1>14 DEF Crash, HistoryTyped
  <2>6. QED
    BY <2>3, <2>4, <2>5, TypePartsNext
<1>15. CASE UNCHANGED vars
  <2>1. StoresTyped' /\ WorldTyped' /\ HistoryTyped'
    BY <1>0, <1>15 DEF vars, StoresTyped, WorldTyped, HistoryTyped
  <2>2. QED
    BY <2>1, TypePartsNext
<1>16. QED
  BY <1>1, <1>2, <1>3, <1>4, <1>5, <1>6, <1>7, <1>8, <1>9, <1>10, <1>11, <1>12, <1>13, <1>14,
     <1>15, <1>0a DEF Next, Finish

-----------------------------------------------------------------------------
(* Accounts.                                                               *)

\* What is different is found by what makes it different.
LEMMA IndexFacts ==
  ASSUME NEW us, Distinct(us)
  PROVE  /\ DOMAIN Index(us) = {us[u].email : u \in DOMAIN us}
         /\ \A u \in DOMAIN us : Index(us)[us[u].email] = u
<1>1. DOMAIN Index(us) = {us[u].email : u \in DOMAIN us}
  BY DEF Index
<1>2. ASSUME NEW u \in DOMAIN us PROVE Index(us)[us[u].email] = u
  <2>1. Index(us)[us[u].email] = CHOOSE v \in DOMAIN us : us[v].email = us[u].email
    BY DEF Index
  <2>2. \A v \in DOMAIN us : us[v].email = us[u].email => v = u
    BY DEF Distinct
  <2>3. QED
    BY <2>1, <2>2
<1>3. QED
  BY <1>1, <1>2

LEMMA IndexIs ==
  ASSUME NEW us, Distinct(us), NEW D, NEW f, f = [e \in D |-> f[e]],
         D = {us[u].email : u \in DOMAIN us},
         \A u \in DOMAIN us : f[us[u].email] = u
  PROVE  f = Index(us)
<1>1. Index(us) = [e \in D |-> Index(us)[e]]
  BY DEF Index
<1>2. \A e \in D : f[e] = Index(us)[e]
  BY IndexFacts
<1>3. QED
  BY <1>1, <1>2

\* A step that changes no account and gives no id away.
LEMMA KeepUsers ==
  ASSUME UsersInv, UNCHANGED <<users, usersDisk, emailIdx>>, Registered \subseteq Registered',
         \A u \in Users : step' = <<"delete", u>> => step' = step \/ u \in DOMAIN users
  PROVE  UsersInv'
BY DEF UsersInv, Distinct

LEMMA UsersInit == Init => UsersInv
<1> SUFFICES ASSUME Init PROVE UsersInv
  OBVIOUS
<1>1. Index(users) = <<>>
  BY DEF Init, Index
<1>2. QED
  BY <1>1, IdleStep DEF Init, UsersInv, Distinct

LEMMA UsersStep == TypeOK /\ UsersInv /\ [Next]_vars => UsersInv'
<1> SUFFICES ASSUME TypeOK, UsersInv, [Next]_vars PROVE UsersInv'
  OBVIOUS
<1>0. StoresTyped /\ WorldTyped /\ HistoryTyped
  BY TypeParts
<1> USE DEF stores, world, history
<1>1. ASSUME NEW t \in RegTokens, NEW e \in Emails, NEW r \in Users \cup {NoOne}, RegisterStart(t, e, r)
      PROVE  UsersInv'
  BY <1>1, KeepUsers DEF RegisterStart, Registered
<1>2. ASSUME NEW t \in RegTokens, RegisterComplete(t) PROVE UsersInv'
  <2>1. CASE UNCHANGED <<users, usersDisk, emailIdx, step, made>>
    BY <2>1, KeepUsers DEF Registered
  <2>2. CASE \E u \in Users \ Registered :
               /\ CreateWithHash(u, t)
               /\ made' = [made EXCEPT ![t] = @ \cup {u}]
               /\ step' = <<"complete", t>>
    <3>1. PICK u \in Users \ Registered : /\ CreateWithHash(u, t)
                                          /\ made' = [made EXCEPT ![t] = @ \cup {u}]
                                          /\ step' = <<"complete", t>>
      BY <2>2
    <3> DEFINE v == [email |-> regs[t].email, telegram |-> regs[t].telegram,
                     referrer |-> regs[t].referrer, password |-> t]
    <3>2. /\ users' = With(users, u, v) /\ emailIdx' = With(emailIdx, v.email, u)
          /\ v.email \notin DOMAIN emailIdx /\ \A w \in DOMAIN users : users[w].telegram # v.telegram
      BY <3>1 DEF CreateWithHash, EmailTaken, TelegramTaken
    <3> HIDE DEF v
    <3>3. u \notin DOMAIN users /\ u \notin DOMAIN usersDisk
      BY DEF UsersInv
    <3>4. /\ DOMAIN users' = DOMAIN users \cup {u} /\ users'[u] = v
          /\ \A w \in DOMAIN users : users'[w] = users[w]
      BY <3>2, <3>3 DEF With
    <3>5. \A w \in DOMAIN users : users[w].email # v.email
      <4>1. DOMAIN emailIdx = {users[w].email : w \in DOMAIN users}
        BY IndexFacts DEF UsersInv
      <4>2. QED
        BY <3>2, <4>1
    <3>6. Distinct(users')
      BY <3>2, <3>4, <3>5 DEF UsersInv, Distinct
    <3>7. usersDisk' = users' \/ usersDisk' = usersDisk
      BY <3>1 DEF CreateWithHash, Save
    <3>8. Registered' = Registered \cup {u}
      BY <1>0, <3>1 DEF Registered, HistoryTyped
    <3>9. emailIdx' = Index(users')
      <4> DEFINE D == DOMAIN emailIdx \cup {v.email}
      <4>1. emailIdx' = [e \in D |-> emailIdx'[e]]
        BY <3>2 DEF With
      <4>2. DOMAIN emailIdx = {users[w].email : w \in DOMAIN users}
        BY IndexFacts DEF UsersInv
      <4>3. D = {users'[w].email : w \in DOMAIN users'}
        BY <3>4, <4>2
      <4>4. emailIdx'[v.email] = u
        BY <3>2 DEF With
      <4>5. ASSUME NEW w \in DOMAIN users PROVE emailIdx'[users'[w].email] = w
        <5>1. emailIdx[users[w].email] = w /\ users[w].email \in DOMAIN emailIdx \ {v.email}
          BY <3>5, IndexFacts DEF UsersInv
        <5>2. emailIdx'[users[w].email] = emailIdx[users[w].email]
          BY <3>2, <5>1 DEF With
        <5>3. QED
          BY <3>4, <5>1, <5>2
      <4>6. \A w \in DOMAIN users' : emailIdx'[users'[w].email] = w
        BY <3>4, <4>4, <4>5
      <4> HIDE DEF D
      <4>7. QED
        BY <3>6, <4>1, <4>3, <4>6, IndexIs
    <3>10. Distinct(usersDisk')
      BY <3>6, <3>7 DEF UsersInv
    <3>11. \A w \in DOMAIN users' \cap DOMAIN usersDisk' : users'[w].telegram = usersDisk'[w].telegram
      BY <3>3, <3>4, <3>7 DEF UsersInv
    <3>12. DOMAIN users' \cup DOMAIN usersDisk' \subseteq Registered'
      BY <3>4, <3>7, <3>8 DEF UsersInv
    <3>13. \A w : step' # <<"delete", w>>
      BY <3>1
    <3>14. QED
      BY <3>6, <3>9, <3>10, <3>11, <3>12, <3>13 DEF UsersInv
  <2>3. QED
    BY <1>2, <2>1, <2>2 DEF RegisterComplete, Registered
<1>3. ASSUME NEW t \in RegTokens, RegisterFinish(t) PROVE UsersInv'
  BY <1>3, IdleStep, KeepUsers DEF RegisterFinish, Registered
<1>4. ASSUME NEW t \in ResetTokens, NEW u \in Users, ResetStart(t, u) PROVE UsersInv'
  BY <1>4, KeepUsers DEF ResetStart, Registered
<1>5. ASSUME NEW t \in ResetTokens, ResetComplete(t) PROVE UsersInv'
  <2>1. /\ DOMAIN users' = DOMAIN users
        /\ \A u \in DOMAIN users : users'[u].email = users[u].email /\ users'[u].telegram = users[u].telegram
    BY <1>0, <1>5 DEF ResetComplete, StoresTyped, Typed, UserRec
  <2>2. /\ usersDisk' = users' \/ usersDisk' = usersDisk
        /\ UNCHANGED <<emailIdx, made>> /\ step' = <<"reset", t>>
    BY <1>5 DEF ResetComplete, Save
  <2>3. Distinct(users')
    BY <2>1 DEF UsersInv, Distinct
  <2>4. Index(users') = Index(users)
    BY <2>1 DEF Index
  <2>5. Registered' = Registered
    BY <2>2 DEF Registered
  <2>6. Distinct(usersDisk')
    BY <2>2, <2>3 DEF UsersInv
  <2>7. \A w \in DOMAIN users' \cap DOMAIN usersDisk' : users'[w].telegram = usersDisk'[w].telegram
    BY <2>1, <2>2 DEF UsersInv
  <2>8. QED
    BY <2>1, <2>2, <2>3, <2>4, <2>5, <2>6, <2>7 DEF UsersInv
<1>6. ASSUME NEW t \in ResetTokens, ResetFinish(t) PROVE UsersInv'
  BY <1>6, IdleStep, KeepUsers DEF ResetFinish, Registered
<1>7. ASSUME NEW u \in Users, DeleteUser(u) PROVE UsersInv'
  <2>1. /\ u \in DOMAIN users /\ users' = Forgotten(u)
        /\ emailIdx' = Without(emailIdx, {users[u].email})
        /\ usersDisk' = users' \/ usersDisk' = usersDisk
        /\ made' = made /\ step' = Idle
    BY <1>7 DEF DeleteUser, Save, UsersInv
  <2>2. /\ DOMAIN users' = DOMAIN users \ {u}
        /\ \A v \in DOMAIN users' : users'[v].email = users[v].email /\ users'[v].telegram = users[v].telegram
    BY <1>0, <2>1 DEF Forgotten, StoresTyped, Typed, UserRec
  <2>3. Distinct(users')
    BY <2>2 DEF UsersInv, Distinct
  <2>4. Distinct(usersDisk')
    BY <2>1, <2>3 DEF UsersInv
  <2>5. emailIdx' = Index(users')
    <3> DEFINE D == DOMAIN emailIdx \ {users[u].email}
    <3>1. emailIdx' = [e \in D |-> emailIdx'[e]]
      BY <2>1 DEF Without, Restrict
    <3>2. DOMAIN emailIdx = {users[w].email : w \in DOMAIN users}
      BY IndexFacts DEF UsersInv
    <3>3. \A v \in DOMAIN users' : users[v].email # users[u].email
      BY <2>1, <2>2 DEF UsersInv, Distinct
    <3>4. D = {users'[w].email : w \in DOMAIN users'}
      BY <2>1, <2>2, <3>2, <3>3
    <3>5. ASSUME NEW v \in DOMAIN users' PROVE emailIdx'[users'[v].email] = v
      <4>1. users[v].email \in DOMAIN emailIdx \ {users[u].email}
        BY <2>2, <3>2, <3>3
      <4>2. emailIdx'[users[v].email] = emailIdx[users[v].email]
        BY <2>1, <4>1 DEF Without, Restrict
      <4>3. emailIdx[users[v].email] = v
        BY <2>2, IndexFacts DEF UsersInv
      <4>4. QED
        BY <2>2, <4>2, <4>3
    <3> HIDE DEF D
    <3>6. QED
      BY <2>3, <3>1, <3>4, <3>5, IndexIs
  <2>6. \A w \in DOMAIN users' \cap DOMAIN usersDisk' : users'[w].telegram = usersDisk'[w].telegram
    BY <2>1, <2>2 DEF UsersInv
  <2>7. DOMAIN users' \cup DOMAIN usersDisk' \subseteq Registered'
    BY <2>1, <2>2 DEF UsersInv, Registered
  <2>8. QED
    BY <2>1, <2>3, <2>4, <2>5, <2>6, <2>7, IdleStep DEF UsersInv
<1>8. ASSUME NEW t \in Tokens, Expire(t) PROVE UsersInv'
  BY <1>8, KeepUsers DEF Expire, Registered
<1>9. ASSUME NEW t \in Tokens, NEW g \in Telegrams, Click(t, g) PROVE UsersInv'
  BY <1>9, KeepUsers DEF Click, Registered
<1>10. CASE HandleUpdate
  BY <1>10, KeepUsers DEF HandleUpdate, Registered
<1>11. CASE AcknowledgeUpdates
  BY <1>11, KeepUsers DEF AcknowledgeUpdates, Registered
<1>12. ASSUME NEW u \in Users, DeleteBots(u) PROVE UsersInv'
  <2>1. step' \in {<<"delete", u>>, Idle} /\ u \in DOMAIN users
    BY <1>12 DEF DeleteBots
  <2>2. \A v \in Users : step' = <<"delete", v>> => v = u
    BY <2>1, IdleStep
  <2>3. QED
    BY <1>12, <2>1, <2>2, KeepUsers DEF DeleteBots, Registered
<1>13. ASSUME NEW u \in Users, NEW b \in Bots, AddBot(u, b) PROVE UsersInv'
  BY <1>13, KeepUsers DEF AddBot, Registered
<1>14. CASE Crash
  <2>1. users' = usersDisk /\ usersDisk' = usersDisk /\ emailIdx' = Index(usersDisk) /\ step' = Idle /\ made' = made
    BY <1>14 DEF Crash
  <2>2. QED
    BY <2>1, IdleStep DEF UsersInv, Registered
<1>15. CASE UNCHANGED vars
  BY <1>15, KeepUsers DEF vars, Registered
<1>16. QED
  BY <1>1, <1>2, <1>3, <1>4, <1>5, <1>6, <1>7, <1>8, <1>9, <1>10, <1>11, <1>12, <1>13, <1>14,
     <1>15 DEF Next, Finish

-----------------------------------------------------------------------------
(* Tokens and passwords.                                                   *)

\* A token is given once.
AimKept == \A t \in Tokens : aim[t] # NoOne => aim'[t] = aim[t]

LEMMA KeepRegs ==
  ASSUME StoresTyped, RegsAimed(regs, aim, clicked), RegsAimed(regsDisk, aim, clicked),
         AimKept, clicked \subseteq clicked', NEW f \in {regs, regsDisk}, NEW g, Shrinks(f, g)
  PROVE  RegsAimed(g, aim', clicked')
<1>1. RegsAimed(f, aim, clicked) /\ Typed(f, RegTokens, RegRec)
  BY DEF StoresTyped
<1>2. ASSUME NEW t \in DOMAIN g PROVE t \in DOMAIN f /\ g[t] = f[t] /\ aim'[t] = f[t].email
  <2>1. t \in DOMAIN f /\ g[t] = f[t]
    BY DEF Shrinks
  <2>2. aim[t] = f[t].email /\ f[t].email \in Emails /\ t \in Tokens
    BY <1>1, <2>1 DEF RegsAimed, Typed, RegRec, Tokens
  <2>3. QED
    BY <2>1, <2>2, AccountsAssumption DEF AimKept
<1>3. QED
  BY <1>1, <1>2 DEF RegsAimed

LEMMA KeepResets ==
  ASSUME StoresTyped, ResetsAimed(resets, aim, Registered), ResetsAimed(resetsDisk, aim, Registered),
         AimKept, Registered \subseteq Registered', NEW f \in {resets, resetsDisk}, NEW g, Shrinks(f, g)
  PROVE  ResetsAimed(g, aim', Registered')
<1>1. ResetsAimed(f, aim, Registered) /\ Typed(f, ResetTokens, ResetRec)
  BY DEF StoresTyped
<1>2. ASSUME NEW t \in DOMAIN g PROVE g[t] = f[t] /\ aim'[t] = f[t].user /\ f[t].user \in Registered
  <2>1. t \in DOMAIN f /\ g[t] = f[t]
    BY DEF Shrinks
  <2>2. aim[t] = f[t].user /\ f[t].user \in Users /\ t \in Tokens /\ f[t].user \in Registered
    BY <1>1, <2>1 DEF ResetsAimed, Typed, ResetRec, Tokens
  <2>3. QED
    BY <2>1, <2>2, AccountsAssumption DEF AimKept
<1>3. QED
  BY <1>2 DEF ResetsAimed

LEMMA KeepClicked ==
  ASSUME NEW f, NEW g, NEW us, NEW vs, NEW c, NEW d, ResetsClicked(f, us, c), c \subseteq d, Shrinks(f, g),
         DOMAIN vs \subseteq DOMAIN us, \A u \in DOMAIN vs : vs[u].telegram = us[u].telegram
  PROVE  ResetsClicked(g, vs, d)
BY DEF ResetsClicked, Shrinks

LEMMA KeepConfirmed ==
  ASSUME HistoryTyped, NEW us, Typed(us, Users, UserRec), Confirmed(us, aim, clicked),
         AimKept, clicked \subseteq clicked', NEW vs, DOMAIN vs \subseteq DOMAIN us,
         \A u \in DOMAIN vs : /\ vs[u].telegram = us[u].telegram /\ vs[u].password = us[u].password
                              /\ vs[u].email = us[u].email
  PROVE  Confirmed(vs, aim', clicked')
<1>1. ASSUME NEW u \in DOMAIN us PROVE aim'[us[u].password] = aim[us[u].password]
  <2>1. us[u] \in UserRec /\ u \in Users
    BY DEF Typed
  <2>2. us[u].password \in Tokens /\ us[u].email \in Emails
    BY <2>1 DEF UserRec
  <2>3. aim[us[u].password] \in Emails \cup Users
    BY <2>1, <2>2 DEF Confirmed
  <2>4. QED
    BY <2>2, <2>3, AccountsAssumption DEF AimKept
<1>2. QED
  BY <1>1 DEF Confirmed

\* What a step that changes no account has to show.
LEMMA KeepAim ==
  ASSUME TypeOK, AimInv, AimKept, clicked \subseteq clicked', Registered \subseteq Registered',
         UNCHANGED <<users, usersDisk>>,
         RegsAimed(regs', aim', clicked'), regsDisk' \in {regsDisk, regs'},
         ResetsAimed(resets', aim', Registered'), resetsDisk' \in {resetsDisk, resets'},
         ResetsClicked(resets', users, clicked'), ResetsClicked(resets', usersDisk, clicked'),
         \A i \in 1 .. Len(inbox') : inbox'[i] \in clicked',
         \A click \in clicked' : aim'[click[1]] # NoOne
  PROVE  AimInv'
<1>0. StoresTyped /\ HistoryTyped
  BY TypeParts
<1>1. RegsAimed(regsDisk', aim', clicked')
  <2>1. Shrinks(regsDisk, regsDisk)
    BY DEF Shrinks
  <2>2. RegsAimed(regsDisk, aim', clicked')
    BY <1>0, <2>1, KeepRegs DEF AimInv
  <2>3. QED
    BY <2>2
<1>2. ResetsAimed(resetsDisk', aim', Registered')
  <2>1. Shrinks(resetsDisk, resetsDisk)
    BY DEF Shrinks
  <2>2. ResetsAimed(resetsDisk, aim', Registered')
    BY <1>0, <2>1, KeepResets DEF AimInv
  <2>3. QED
    BY <2>2
<1>3. ResetsClicked(resetsDisk', users, clicked') /\ ResetsClicked(resetsDisk', usersDisk, clicked')
  <2>1. ResetsClicked(resetsDisk, users, clicked') /\ ResetsClicked(resetsDisk, usersDisk, clicked')
    BY DEF AimInv, ResetsClicked
  <2>2. QED
    BY <2>1
<1>4. Confirmed(users, aim', clicked') /\ Confirmed(usersDisk, aim', clicked')
  BY <1>0, KeepConfirmed DEF AimInv, StoresTyped
<1>5. QED
  BY <1>1, <1>2, <1>3, <1>4 DEF AimInv

\* What a step that changes accounts has to show.
LEMMA KeepAimUsers ==
  ASSUME TypeOK, AimInv, Registered \subseteq Registered',
         UNCHANGED <<regs, regsDisk, resets, resetsDisk, aim, clicked, inbox>>,
         usersDisk' \in {usersDisk, users'},
         Confirmed(users', aim, clicked),
         ResetsClicked(resets, users', clicked), ResetsClicked(resetsDisk, users', clicked)
  PROVE  AimInv'
<1>1. ResetsAimed(resets', aim', Registered') /\ ResetsAimed(resetsDisk', aim', Registered')
  BY DEF AimInv, ResetsAimed
<1>2. Confirmed(usersDisk', aim, clicked)
  BY DEF AimInv
<1>3. ResetsClicked(resets, usersDisk', clicked) /\ ResetsClicked(resetsDisk, usersDisk', clicked)
  BY DEF AimInv
<1>4. QED
  BY <1>1, <1>2, <1>3 DEF AimInv

LEMMA AimInit == Init => AimInv
<1> SUFFICES ASSUME Init PROVE AimInv
  OBVIOUS
<1>1. RegsAimed(regs, aim, clicked) /\ RegsAimed(regsDisk, aim, clicked)
  BY DEF Init, RegsAimed
<1>2. ResetsAimed(resets, aim, Registered) /\ ResetsAimed(resetsDisk, aim, Registered)
  BY DEF Init, ResetsAimed
<1>3. /\ ResetsClicked(resets, users, clicked) /\ ResetsClicked(resetsDisk, users, clicked)
      /\ ResetsClicked(resets, usersDisk, clicked) /\ ResetsClicked(resetsDisk, usersDisk, clicked)
  BY DEF Init, ResetsClicked
<1>4. Confirmed(users, aim, clicked) /\ Confirmed(usersDisk, aim, clicked)
  BY DEF Init, Confirmed
<1>5. (\A i \in 1 .. Len(inbox) : inbox[i] \in clicked) /\ clicked = {}
  BY DEF Init
<1>6. QED
  BY <1>1, <1>2, <1>3, <1>4, <1>5 DEF AimInv

LEMMA AimStep == TypeOK /\ UsersInv /\ AimInv /\ [Next]_vars => AimInv'
<1> SUFFICES ASSUME TypeOK, UsersInv, AimInv, [Next]_vars PROVE AimInv'
  OBVIOUS
<1>0. StoresTyped /\ WorldTyped /\ HistoryTyped
  BY TypeParts
<1>0a. \A f : Shrinks(f, f)
  BY DEF Shrinks
<1>0b. \A click \in clicked : aim[click[1]] # NoOne
  BY DEF AimInv
<1>0c. \A i \in 1 .. Len(inbox) : inbox[i] \in clicked
  BY DEF AimInv
<1>0d. \A us, c : ResetsClicked(resets, us, c) => \A t : ResetsClicked(MarkCompleted(resets, t), us, c)
  <2>1. ASSUME NEW us, NEW c, ResetsClicked(resets, us, c), NEW t
        PROVE  ResetsClicked(MarkCompleted(resets, t), us, c)
    <3>1. Shrinks(resets, MarkCompleted(resets, t))
      BY MarkCompletedShrinks
    <3>2. QED
      BY <2>1, <3>1, KeepClicked
  <2>2. QED
    BY <2>1
\* The stores of pending registrations and resets only lose entries.
<1>0e. ASSUME UNCHANGED <<users, usersDisk, aim, clicked, made>>,
              Shrinks(regs, regs'), regsDisk' \in {regsDisk, regs'},
              Shrinks(resets, resets'), resetsDisk' \in {resetsDisk, resets'},
              \A i \in 1 .. Len(inbox') : inbox'[i] \in clicked
       PROVE  AimInv'
  <2>1. AimKept /\ Registered' = Registered
    BY <1>0e DEF AimKept, Registered
  <2>2. RegsAimed(regs', aim', clicked')
    BY <1>0, <1>0e, <2>1, KeepRegs DEF AimInv
  <2>3. ResetsAimed(resets', aim', Registered')
    BY <1>0, <1>0e, <2>1, KeepResets DEF AimInv
  <2>4. ResetsClicked(resets', users, clicked') /\ ResetsClicked(resets', usersDisk, clicked')
    BY <1>0e, KeepClicked DEF AimInv
  <2>5. QED
    BY <1>0b, <1>0e, <2>1, <2>2, <2>3, <2>4, KeepAim
<1> USE DEF stores, world, history
<1>1. ASSUME NEW t \in RegTokens, NEW e \in Emails, NEW r \in Users \cup {NoOne}, RegisterStart(t, e, r)
      PROVE  AimInv'
  <2> DEFINE v == [email |-> e, referrer |-> r, telegram |-> NoOne]
  <2>1. /\ aim[t] = NoOne /\ aim' = [aim EXCEPT ![t] = e] /\ regs' = With(Unexpired(regs), t, v)
        /\ regsDisk' \in {regsDisk, regs'} /\ UNCHANGED <<users, usersDisk, resets, resetsDisk, clicked, made, inbox>>
    BY <1>1 DEF RegisterStart, Save
  <2>2. AimKept /\ Registered' = Registered /\ aim'[t] = e
    BY <1>0, <2>1 DEF AimKept, Registered, HistoryTyped, Tokens
  <2>3. RegsAimed(Unexpired(regs), aim', clicked')
    BY <1>0, <2>1, <2>2, UnexpiredShrinks, KeepRegs DEF AimInv
  <2>4. RegsAimed(regs', aim', clicked')
    BY <2>1, <2>2, <2>3 DEF RegsAimed, With
  <2>5. ResetsAimed(resets', aim', Registered')
    BY <1>0, <1>0a, <2>1, <2>2, KeepResets DEF AimInv
  <2>6. ResetsClicked(resets', users, clicked') /\ ResetsClicked(resets', usersDisk, clicked')
    BY <2>1 DEF AimInv
  <2>7. \A click \in clicked' : aim'[click[1]] # NoOne
    BY <1>0, <1>0b, <2>1, <2>2 DEF HistoryTyped, AimKept
  <2>8. QED
    BY <1>0c, <2>1, <2>2, <2>4, <2>5, <2>6, <2>7, KeepAim
<1>2. ASSUME NEW t \in RegTokens, RegisterComplete(t) PROVE AimInv'
  <2>1. CASE regs' = MarkCompleted(regs, t) /\ Save(regsDisk, regs') /\ UNCHANGED <<users, usersDisk, made>>
    <3>1. Shrinks(regs, regs')
      BY <2>1, MarkCompletedShrinks
    <3>2. QED
      BY <1>0a, <1>0c, <1>0e, <1>2, <2>1, <3>1 DEF RegisterComplete, Save
  <2>2. CASE \E u \in Users \ Registered :
               /\ CreateWithHash(u, t)
               /\ made' = [made EXCEPT ![t] = @ \cup {u}]
               /\ UNCHANGED <<regs, regsDisk>>
    <3>1. PICK u \in Users \ Registered : /\ CreateWithHash(u, t)
                                          /\ made' = [made EXCEPT ![t] = @ \cup {u}]
                                          /\ UNCHANGED <<regs, regsDisk>>
      BY <2>2
    <3> DEFINE v == [email |-> regs[t].email, telegram |-> regs[t].telegram,
                     referrer |-> regs[t].referrer, password |-> t]
    <3>2. users' = With(users, u, v) /\ usersDisk' \in {usersDisk, users'}
      BY <3>1 DEF CreateWithHash, Save
    <3>3. Registered \subseteq Registered'
      BY <1>0, <3>1 DEF Registered, HistoryTyped
    <3>4. <<t, regs[t].telegram>> \in clicked /\ aim[t] = regs[t].email
      BY <1>2 DEF RegisterComplete, AimInv, RegsAimed
    <3>5. /\ DOMAIN users' = DOMAIN users \cup {u} /\ users'[u] = v
          /\ \A w \in DOMAIN users \ {u} : users'[w] = users[w]
      BY <3>2 DEF With
    <3>6. Confirmed(users', aim, clicked)
      BY <3>4, <3>5 DEF Confirmed, AimInv
    <3>7. ResetsClicked(resets, users', clicked) /\ ResetsClicked(resetsDisk, users', clicked)
      <4>1. (\A x \in DOMAIN resets : resets[x].user # u) /\ (\A x \in DOMAIN resetsDisk : resetsDisk[x].user # u)
        BY DEF AimInv, ResetsAimed
      <4>2. QED
        BY <3>5, <4>1 DEF AimInv, ResetsClicked
    <3>8. UNCHANGED <<regs, regsDisk, resets, resetsDisk, aim, clicked, inbox>>
      BY <1>2, <3>1 DEF RegisterComplete
    <3>9. QED
      BY <3>2, <3>3, <3>6, <3>7, <3>8, KeepAimUsers
  <2>3. QED
    BY <1>2, <2>1, <2>2 DEF RegisterComplete, Registered
<1>3. ASSUME NEW t \in RegTokens, RegisterFinish(t) PROVE AimInv'
  <2>1. Shrinks(regs, regs')
    BY <1>3, MarkCompletedShrinks DEF RegisterFinish
  <2>2. QED
    BY <1>0a, <1>0c, <1>0e, <1>3, <2>1 DEF RegisterFinish, Save
<1>4. ASSUME NEW t \in ResetTokens, NEW u \in Users, ResetStart(t, u) PROVE AimInv'
  <2> DEFINE v == [user |-> u, verified |-> FALSE]
  <2>1. /\ aim[t] = NoOne /\ aim' = [aim EXCEPT ![t] = u] /\ resets' = With(Unexpired(resets), t, v)
        /\ u \in DOMAIN users /\ resetsDisk' \in {resetsDisk, resets'}
        /\ UNCHANGED <<users, usersDisk, regs, regsDisk, clicked, made, inbox>>
    BY <1>4 DEF ResetStart, Save
  <2>2. AimKept /\ Registered' = Registered /\ aim'[t] = u /\ u \in Registered
    BY <1>0, <2>1 DEF AimKept, Registered, HistoryTyped, Tokens, UsersInv
  <2>3. RegsAimed(regs', aim', clicked')
    BY <1>0, <1>0a, <2>1, <2>2, KeepRegs DEF AimInv
  <2>4. Shrinks(resets, Unexpired(resets))
    BY UnexpiredShrinks
  <2>5. ResetsAimed(Unexpired(resets), aim', Registered')
    BY <1>0, <2>2, <2>4, KeepResets DEF AimInv
  <2>6. ResetsAimed(resets', aim', Registered')
    BY <2>1, <2>2, <2>5 DEF ResetsAimed, With
  <2>7. ResetsClicked(Unexpired(resets), users, clicked') /\ ResetsClicked(Unexpired(resets), usersDisk, clicked')
    BY <2>1, <2>4, KeepClicked DEF AimInv
  <2>8. ResetsClicked(resets', users, clicked') /\ ResetsClicked(resets', usersDisk, clicked')
    BY <2>1, <2>7 DEF ResetsClicked, With
  <2>9. \A click \in clicked' : aim'[click[1]] # NoOne
    BY <1>0, <1>0b, <2>1, <2>2 DEF HistoryTyped, AimKept
  <2>10. QED
    BY <1>0c, <2>1, <2>2, <2>3, <2>6, <2>8, <2>9, KeepAim
<1>5. ASSUME NEW t \in ResetTokens, ResetComplete(t) PROVE AimInv'
  <2> DEFINE w == resets[t].user
  <2>1. /\ t \in DOMAIN resets /\ resets[t].verified /\ w \in DOMAIN users
        /\ users' = [users EXCEPT ![w].password = t] /\ usersDisk' \in {usersDisk, users'}
        /\ UNCHANGED <<regs, regsDisk, resets, resetsDisk, aim, clicked, inbox, made>>
    BY <1>5 DEF ResetComplete, Save
  <2>2. <<t, users[w].telegram>> \in clicked /\ aim[t] = w /\ t \notin RegTokens
    BY <2>1, AccountsAssumption DEF AimInv, ResetsClicked, ResetsAimed
  <2>3. /\ DOMAIN users' = DOMAIN users
        /\ \A u \in DOMAIN users : /\ users'[u].telegram = users[u].telegram
                                    /\ users'[u].email = users[u].email
                                    /\ users'[u].password = IF u = w THEN t ELSE users[u].password
    BY <1>0, <2>1 DEF StoresTyped, Typed, UserRec
  <2>4. Confirmed(users', aim, clicked)
    BY <2>2, <2>3 DEF Confirmed, AimInv
  <2>5. ResetsClicked(resets, users', clicked) /\ ResetsClicked(resetsDisk, users', clicked)
    BY <2>3 DEF AimInv, ResetsClicked
  <2>6. Registered' = Registered
    BY <2>1 DEF Registered
  <2>7. QED
    BY <2>1, <2>4, <2>5, <2>6, KeepAimUsers
<1>6. ASSUME NEW t \in ResetTokens, ResetFinish(t) PROVE AimInv'
  <2>1. Shrinks(resets, resets')
    BY <1>6, MarkCompletedShrinks DEF ResetFinish
  <2>2. QED
    BY <1>0a, <1>0c, <1>0e, <1>6, <2>1 DEF ResetFinish, Save
<1>7. ASSUME NEW u \in Users, DeleteUser(u) PROVE AimInv'
  <2>1. /\ users' = Forgotten(u) /\ usersDisk' \in {usersDisk, users'}
        /\ UNCHANGED <<regs, regsDisk, resets, resetsDisk, aim, clicked, inbox, made>>
    BY <1>7 DEF DeleteUser, Save
  <2>2. /\ DOMAIN users' = DOMAIN users \ {u}
        /\ \A v \in DOMAIN users' : /\ users'[v].telegram = users[v].telegram
                                     /\ users'[v].email = users[v].email
                                     /\ users'[v].password = users[v].password
    BY <1>0, <2>1 DEF Forgotten, StoresTyped, Typed, UserRec
  <2>3. Confirmed(users', aim, clicked)
    BY <2>2 DEF Confirmed, AimInv
  <2>4. ResetsClicked(resets, users', clicked) /\ ResetsClicked(resetsDisk, users', clicked)
    BY <2>2 DEF AimInv, ResetsClicked
  <2>5. Registered' = Registered
    BY <2>1 DEF Registered
  <2>6. QED
    BY <2>1, <2>3, <2>4, <2>5, KeepAimUsers
<1>8. ASSUME NEW t \in Tokens, Expire(t) PROVE AimInv'
  BY <1>0a, <1>0c, <1>0e, <1>8 DEF Expire
<1>9. ASSUME NEW t \in Tokens, NEW g \in Telegrams, Click(t, g) PROVE AimInv'
  <2>1. /\ aim[t] # NoOne /\ inbox' = Append(inbox, <<t, g>>) /\ clicked' = clicked \cup {<<t, g>>}
        /\ UNCHANGED <<users, usersDisk, regs, regsDisk, resets, resetsDisk, aim, made>>
    BY <1>9 DEF Click
  <2>2. AimKept /\ Registered' = Registered
    BY <2>1 DEF AimKept, Registered
  <2>3. RegsAimed(regs', aim', clicked')
    BY <1>0, <1>0a, <2>1, <2>2, KeepRegs DEF AimInv
  <2>4. ResetsAimed(resets', aim', Registered')
    BY <1>0, <1>0a, <2>1, <2>2, KeepResets DEF AimInv
  <2>5. ResetsClicked(resets', users, clicked') /\ ResetsClicked(resets', usersDisk, clicked')
    BY <2>1 DEF AimInv, ResetsClicked
  <2>6. \A i \in 1 .. Len(inbox') : inbox'[i] \in clicked'
    BY <1>0, <1>0c, <2>1 DEF WorldTyped
  <2>7. \A click \in clicked' : aim'[click[1]] # NoOne
    BY <1>0b, <2>1
  <2>8. QED
    BY <2>1, <2>2, <2>3, <2>4, <2>5, <2>6, <2>7, KeepAim
<1>10. CASE HandleUpdate
  <2> DEFINE t == inbox[done + 1][1]
             g == inbox[done + 1][2]
  <2>1. <<t, g>> \in clicked
    <3>1. inbox[done + 1] \in clicked /\ inbox[done + 1] \in Tokens \X Telegrams
      BY <1>0, <1>0c, <1>10 DEF HandleUpdate, WorldTyped
    <3>2. QED
      BY <3>1
  <2> HIDE DEF t, g
  <2>2. UNCHANGED <<users, usersDisk, aim, clicked, made, inbox>>
    BY <1>10 DEF HandleUpdate
  <2>3. AimKept /\ Registered' = Registered
    BY <2>2 DEF AimKept, Registered
  <2>4. CASE UNCHANGED <<regs, regsDisk, resets, resetsDisk>>
    BY <1>0a, <1>0c, <1>0e, <2>2, <2>4
  <2>5. CASE /\ RegAccepts(t, g) /\ regs' = [regs EXCEPT ![t].telegram = g]
             /\ Save(regsDisk, regs') /\ UNCHANGED <<resets, resetsDisk>>
    <3>1. /\ DOMAIN regs' = DOMAIN regs
          /\ \A x \in DOMAIN regs : /\ regs'[x].email = regs[x].email
                                     /\ regs'[x].telegram = IF x = t THEN g ELSE regs[x].telegram
      BY <1>0, <2>5 DEF RegAccepts, StoresTyped, Typed, RegRec
    <3>2. RegsAimed(regs', aim', clicked')
      BY <2>1, <2>2, <3>1 DEF RegsAimed, AimInv
    <3>3. ResetsAimed(resets', aim', Registered')
      BY <2>2, <2>3, <2>5 DEF AimInv
    <3>4. ResetsClicked(resets', users, clicked') /\ ResetsClicked(resets', usersDisk, clicked')
      BY <2>2, <2>5 DEF AimInv
    <3>5. QED
      BY <1>0b, <1>0c, <2>2, <2>3, <2>5, <3>2, <3>3, <3>4, KeepAim DEF Save
  <2>6. CASE /\ ResetAccepts(t, g) /\ resets' = [resets EXCEPT ![t].verified = TRUE]
             /\ Save(resetsDisk, resets') /\ UNCHANGED <<regs, regsDisk>>
    <3>0. /\ t \in DOMAIN resets /\ DOMAIN resets' = DOMAIN resets
          /\ \A x \in DOMAIN resets \ {t} : resets'[x] = resets[x]
      BY <2>6 DEF ResetAccepts
    <3>1. DOMAIN resets' = DOMAIN resets /\ \A x \in DOMAIN resets : resets'[x].user = resets[x].user
      BY <1>0, <2>6, <3>0 DEF ResetAccepts, StoresTyped, Typed, ResetRec
    <3>2. RegsAimed(regs', aim', clicked')
      BY <2>2, <2>6 DEF AimInv
    <3>3. ResetsAimed(resets', aim', Registered')
      <4>1. ResetsAimed(resets, aim, Registered)
        BY DEF AimInv
      <4>2. ResetsAimed(resets', aim, Registered)
        BY <3>1, <4>1 DEF ResetsAimed
      <4>3. QED
        BY <2>2, <2>3, <4>2
    <3>4. ResetsClicked(resets', users, clicked') /\ ResetsClicked(resets', usersDisk, clicked')
      <4>1. resets[t].user \in DOMAIN users /\ <<t, users[resets[t].user].telegram>> \in clicked
        BY <2>1, <2>6 DEF ResetAccepts
      <4>2. resets[t].user \in DOMAIN usersDisk => <<t, usersDisk[resets[t].user].telegram>> \in clicked
        BY <4>1 DEF UsersInv
      <4>3. ResetsClicked(resets, users, clicked) /\ ResetsClicked(resets, usersDisk, clicked)
        BY DEF AimInv
      <4>4. ASSUME NEW x \in DOMAIN resets', resets'[x].verified
            PROVE  /\ resets'[x].user \in DOMAIN users
                        => <<x, users[resets'[x].user].telegram>> \in clicked
                   /\ resets'[x].user \in DOMAIN usersDisk
                        => <<x, usersDisk[resets'[x].user].telegram>> \in clicked
        <5>1. CASE x = t
          BY <3>1, <4>1, <4>2, <5>1
        <5>2. CASE x # t
          <6>1. x \in DOMAIN resets /\ resets'[x] = resets[x] /\ resets[x].verified
            BY <3>0, <4>4, <5>2
          <6>2. QED
            BY <4>3, <6>1 DEF ResetsClicked
        <5>3. QED
          BY <5>1, <5>2
      <4>5. QED
        BY <2>2, <4>4 DEF ResetsClicked
    <3>5. QED
      BY <1>0b, <1>0c, <2>2, <2>3, <2>6, <3>2, <3>3, <3>4, KeepAim DEF Save
  <2>7. QED
    BY <1>10, <2>4, <2>5, <2>6 DEF HandleUpdate, t, g
<1>11. CASE AcknowledgeUpdates
  <2>1. \A i \in 1 .. Len(inbox') : inbox'[i] \in clicked
    BY <1>0, <1>0c, <1>11 DEF AcknowledgeUpdates, WorldTyped
  <2>2. QED
    BY <1>0a, <1>0e, <1>11, <2>1 DEF AcknowledgeUpdates
<1>12. ASSUME NEW u \in Users, DeleteBots(u) PROVE AimInv'
  BY <1>0a, <1>0c, <1>0e, <1>12 DEF DeleteBots
<1>13. ASSUME NEW u \in Users, NEW b \in Bots, AddBot(u, b) PROVE AimInv'
  BY <1>0a, <1>0c, <1>0e, <1>13 DEF AddBot
<1>14. CASE Crash
  <2>1. /\ users' = usersDisk /\ regs' = Unexpired(regsDisk) /\ resets' = Unexpired(resetsDisk)
        /\ UNCHANGED <<usersDisk, regsDisk, resetsDisk, inbox, aim, clicked, made>>
    BY <1>14 DEF Crash
  <2>2. AimKept /\ Registered' = Registered
    BY <2>1 DEF AimKept, Registered
  <2>3. Shrinks(regsDisk, regs') /\ Shrinks(resetsDisk, resets')
    BY <2>1, UnexpiredShrinks
  <2>4. RegsAimed(regs', aim', clicked')
    BY <1>0, <2>1, <2>2, <2>3, KeepRegs DEF AimInv
  <2>5. ResetsAimed(resets', aim', Registered')
    BY <1>0, <2>1, <2>2, <2>3, KeepResets DEF AimInv
  <2>6. ResetsClicked(resets', usersDisk, clicked')
    BY <2>1, <2>3, KeepClicked DEF AimInv
  <2>7. RegsAimed(regsDisk', aim', clicked') /\ ResetsAimed(resetsDisk', aim', Registered')
        /\ ResetsClicked(resetsDisk', usersDisk', clicked') /\ Confirmed(usersDisk', aim', clicked')
    BY <2>1, <2>2 DEF AimInv
  <2>8. QED
    BY <1>0b, <1>0c, <2>1, <2>4, <2>5, <2>6, <2>7 DEF AimInv
<1>15. CASE UNCHANGED vars
  BY <1>0a, <1>0c, <1>0e, <1>15 DEF vars
<1>16. QED
  BY <1>1, <1>2, <1>3, <1>4, <1>5, <1>6, <1>7, <1>8, <1>9, <1>10, <1>11, <1>12, <1>13, <1>14,
     <1>15 DEF Next, Finish

-----------------------------------------------------------------------------
(* The use of tokens.                                                      *)

\* What a step has to show of a token that it does not use.
LEMMA KeepRegUsed ==
  ASSUME TypeOK, UseInv, NEW t \in RegTokens, restarts' = restarts, made'[t] = made[t],
         aim'[t] = NoOne => aim[t] = NoOne,
         t \in DOMAIN regs' /\ step' # <<"complete", t>>
           => (t \in DOMAIN regs /\ step # <<"complete", t>>) \/ aim[t] = NoOne
  PROVE  RegUsed(t)'
<1>1. RegUsed(t) /\ restarts \in Nat
  BY TypeParts DEF UseInv, WorldTyped
<1>2. aim[t] = NoOne => Cardinality(made[t]) <= restarts
  BY <1>1, FS_EmptySet DEF RegUsed
<1>3. QED
  BY <1>1, <1>2 DEF RegUsed

LEMMA KeepResetUsed ==
  ASSUME TypeOK, UseInv, NEW t \in ResetTokens, restarts' = restarts, changed'[t] = changed[t],
         aim'[t] = NoOne => aim[t] = NoOne,
         t \in DOMAIN resets' /\ step' # <<"reset", t>>
           => (t \in DOMAIN resets /\ step # <<"reset", t>>) \/ aim[t] = NoOne
  PROVE  ResetUsed(t)'
<1>1. ResetUsed(t) /\ restarts \in Nat /\ changed[t] \in Nat
  BY TypeParts DEF UseInv, WorldTyped, HistoryTyped
<1>2. QED
  BY <1>1 DEF ResetUsed

\* What a step that uses no token has to show.
LEMMA KeepUse ==
  ASSUME TypeOK, UseInv, UNCHANGED <<restarts, made, changed>>,
         \A t \in Tokens : aim'[t] = NoOne => aim[t] = NoOne,
         \A t \in RegTokens :
           t \in DOMAIN regs' /\ step' # <<"complete", t>>
             => (t \in DOMAIN regs /\ step # <<"complete", t>>) \/ aim[t] = NoOne,
         \A t \in ResetTokens :
           t \in DOMAIN resets' /\ step' # <<"reset", t>>
             => (t \in DOMAIN resets /\ step # <<"reset", t>>) \/ aim[t] = NoOne
  PROVE  UseInv'
<1>1. ASSUME NEW t \in RegTokens PROVE RegUsed(t)'
  BY <1>1, KeepRegUsed DEF Tokens
<1>2. ASSUME NEW t \in ResetTokens PROVE ResetUsed(t)'
  BY <1>2, KeepResetUsed DEF Tokens
<1>3. QED
  BY <1>1, <1>2 DEF UseInv

LEMMA UseInit == Init => UseInv
<1> SUFFICES ASSUME Init PROVE UseInv
  OBVIOUS
<1>1. ASSUME NEW t \in RegTokens PROVE RegUsed(t)
  <2>1. made[t] = {} /\ restarts = 0
    BY DEF Init
  <2>2. QED
    BY <2>1, FS_EmptySet DEF RegUsed
<1>2. ASSUME NEW t \in ResetTokens PROVE ResetUsed(t)
  BY DEF Init, ResetUsed
<1>3. QED
  BY <1>1, <1>2 DEF UseInv

LEMMA UseStep == TypeOK /\ UsersInv /\ AimInv /\ UseInv /\ [Next]_vars => UseInv'
<1> SUFFICES ASSUME TypeOK, UsersInv, AimInv, UseInv, [Next]_vars PROVE UseInv'
  OBVIOUS
<1>0. StoresTyped /\ WorldTyped /\ HistoryTyped
  BY TypeParts
<1>0a. Tokens = RegTokens \cup ResetTokens /\ RegTokens \cap ResetTokens = {}
  BY AccountsAssumption DEF Tokens
<1> USE DEF stores, world, history
<1>1. ASSUME NEW t \in RegTokens, NEW e \in Emails, NEW r \in Users \cup {NoOne}, RegisterStart(t, e, r)
      PROVE  UseInv'
  <2>1. /\ aim[t] = NoOne /\ DOMAIN regs' = (DOMAIN regs \ expired) \cup {t}
        /\ UNCHANGED <<resets, step, restarts, made, changed>>
    BY <1>1, UnexpiredFacts DEF RegisterStart, With
  <2>2. \A x \in Tokens : aim'[x] = NoOne => aim[x] = NoOne
    BY <1>0, <1>1 DEF RegisterStart, HistoryTyped
  <2>3. QED
    BY <2>1, <2>2, KeepUse
<1>2. ASSUME NEW t \in RegTokens, RegisterComplete(t) PROVE UseInv'
  <2>1. CASE regs' = MarkCompleted(regs, t) /\ UNCHANGED <<step, made>>
    <3>1. DOMAIN regs' \subseteq DOMAIN regs
      BY <2>1, MarkCompletedFacts
    <3>2. QED
      BY <1>2, <2>1, <3>1, KeepUse DEF RegisterComplete
  <2>2. CASE \E u \in Users : made' = [made EXCEPT ![t] = @ \cup {u}]
                                /\ step' = <<"complete", t>> /\ regs' = regs
    <3>1. PICK u \in Users : made' = [made EXCEPT ![t] = @ \cup {u}]
      BY <2>2
    <3>2. /\ t \in DOMAIN regs /\ step = Idle /\ step' = <<"complete", t>> /\ regs' = regs
          /\ UNCHANGED <<restarts, aim, resets, changed>>
      BY <1>2, <2>2 DEF RegisterComplete
    <3>3. IsFiniteSet(made[t]) /\ Cardinality(made[t]) <= restarts
      BY <3>2, IdleStep DEF UseInv, RegUsed
    <3>4. aim[t] # NoOne
      <4>1. aim[t] = regs[t].email /\ regs[t].email \in Emails
        BY <1>0, <3>2 DEF AimInv, RegsAimed, StoresTyped, Typed, RegRec
      <4>2. QED
        BY <4>1, AccountsAssumption
    <3>5. IsFiniteSet(made'[t]) /\ Cardinality(made'[t]) <= 1 + restarts
      <4>1. made'[t] = made[t] \cup {u}
        BY <1>0, <3>1 DEF HistoryTyped
      <4>2. /\ IsFiniteSet(made[t] \cup {u}) /\ Cardinality(made[t]) \in Nat
            /\ Cardinality(made[t] \cup {u}) = Cardinality(made[t])
               \/ Cardinality(made[t] \cup {u}) = Cardinality(made[t]) + 1
        BY <3>3, FS_AddElement, FS_CardinalityType
      <4>3. restarts \in Nat
        BY <1>0 DEF WorldTyped
      <4>4. QED
        BY <3>3, <4>1, <4>2, <4>3
    <3>6. RegUsed(t)'
      BY <3>2, <3>4, <3>5 DEF RegUsed
    <3>7. ASSUME NEW x \in RegTokens, x # t PROVE RegUsed(x)'
      <4>1. made'[x] = made[x] /\ step # <<"complete", x>>
        BY <1>0, <3>1, <3>2, <3>7, IdleStep DEF HistoryTyped
      <4>2. QED
        BY <3>2, <4>1, KeepRegUsed
    <3>8. ASSUME NEW x \in ResetTokens PROVE ResetUsed(x)'
      BY <3>2, IdleStep, KeepResetUsed
    <3>9. QED
      BY <3>6, <3>7, <3>8 DEF UseInv
  <2>3. QED
    BY <1>2, <2>1, <2>2 DEF RegisterComplete
<1>3. ASSUME NEW t \in RegTokens, RegisterFinish(t) PROVE UseInv'
  <2>1. /\ DOMAIN regs' \subseteq DOMAIN regs \ {t} /\ step = <<"complete", t>>
        /\ UNCHANGED <<resets, restarts, made, changed, aim>>
    <3>1. regs' = MarkCompleted(regs, t)
      BY <1>3 DEF RegisterFinish
    <3>2. DOMAIN MarkCompleted(regs, t) = DOMAIN regs \ (expired \cup {t})
      BY MarkCompletedFacts
    <3>3. QED
      BY <1>3, <3>1, <3>2 DEF RegisterFinish
  <2>2. QED
    BY <2>1, KeepUse
<1>4. ASSUME NEW t \in ResetTokens, NEW u \in Users, ResetStart(t, u) PROVE UseInv'
  <2>1. /\ aim[t] = NoOne /\ DOMAIN resets' = (DOMAIN resets \ expired) \cup {t}
        /\ UNCHANGED <<regs, step, restarts, made, changed>>
    BY <1>4, UnexpiredFacts DEF ResetStart, With
  <2>2. \A x \in Tokens : aim'[x] = NoOne => aim[x] = NoOne
    BY <1>0, <1>4 DEF ResetStart, HistoryTyped
  <2>3. QED
    BY <2>1, <2>2, KeepUse
<1>5. ASSUME NEW t \in ResetTokens, ResetComplete(t) PROVE UseInv'
  <2>1. /\ t \in DOMAIN resets /\ step = Idle /\ step' = <<"reset", t>>
        /\ changed' = [changed EXCEPT ![t] = @ + 1]
        /\ UNCHANGED <<restarts, aim, regs, resets, made>>
    BY <1>5 DEF ResetComplete
  <2>2. changed[t] \in Nat /\ changed[t] <= restarts /\ restarts \in Nat /\ changed'[t] = changed[t] + 1
    BY <1>0, <2>1, IdleStep DEF UseInv, ResetUsed, HistoryTyped, WorldTyped
  <2>3. aim[t] # NoOne
    <3>1. aim[t] = resets[t].user /\ resets[t].user \in Users
      BY <1>0, <2>1 DEF AimInv, ResetsAimed, StoresTyped, Typed, ResetRec
    <3>2. QED
      BY <3>1, AccountsAssumption
  <2>4. ResetUsed(t)'
    BY <2>1, <2>2, <2>3 DEF ResetUsed
  <2>5. ASSUME NEW x \in ResetTokens, x # t PROVE ResetUsed(x)'
    <3>1. changed'[x] = changed[x] /\ step # <<"reset", x>>
      BY <1>0, <2>1, <2>5, IdleStep DEF HistoryTyped
    <3>2. QED
      BY <2>1, <3>1, KeepResetUsed
  <2>6. ASSUME NEW x \in RegTokens PROVE RegUsed(x)'
    BY <2>1, IdleStep, KeepRegUsed
  <2>7. QED
    BY <2>4, <2>5, <2>6 DEF UseInv
<1>6. ASSUME NEW t \in ResetTokens, ResetFinish(t) PROVE UseInv'
  <2>1. /\ DOMAIN resets' \subseteq DOMAIN resets \ {t} /\ step = <<"reset", t>>
        /\ UNCHANGED <<regs, restarts, made, changed, aim>>
    <3>1. resets' = MarkCompleted(resets, t)
      BY <1>6 DEF ResetFinish
    <3>2. DOMAIN MarkCompleted(resets, t) = DOMAIN resets \ (expired \cup {t})
      BY MarkCompletedFacts
    <3>3. QED
      BY <1>6, <3>1, <3>2 DEF ResetFinish
  <2>2. QED
    BY <2>1, KeepUse
<1>7. ASSUME NEW u \in Users, DeleteUser(u) PROVE UseInv'
  BY <1>7, KeepUse DEF DeleteUser
<1>8. ASSUME NEW t \in Tokens, Expire(t) PROVE UseInv'
  BY <1>8, KeepUse DEF Expire
<1>9. ASSUME NEW t \in Tokens, NEW g \in Telegrams, Click(t, g) PROVE UseInv'
  BY <1>9, KeepUse DEF Click
<1>10. CASE HandleUpdate
  <2>1. DOMAIN regs' = DOMAIN regs /\ DOMAIN resets' = DOMAIN resets
    BY <1>10 DEF HandleUpdate
  <2>2. QED
    BY <1>10, <2>1, KeepUse DEF HandleUpdate
<1>11. CASE AcknowledgeUpdates
  BY <1>11, KeepUse DEF AcknowledgeUpdates
<1>12. ASSUME NEW u \in Users, DeleteBots(u) PROVE UseInv'
  BY <1>12, IdleStep, KeepUse DEF DeleteBots
<1>13. ASSUME NEW u \in Users, NEW b \in Bots, AddBot(u, b) PROVE UseInv'
  BY <1>13, KeepUse DEF AddBot
<1>14. CASE Crash
  <2>1. restarts \in Nat /\ restarts' = restarts + 1 /\ UNCHANGED <<made, changed, aim>>
    BY <1>0, <1>14 DEF Crash, WorldTyped
  <2>2. ASSUME NEW x \in RegTokens PROVE RegUsed(x)'
    <3>1. RegUsed(x) /\ Cardinality(made[x]) \in Nat
      BY FS_CardinalityType DEF UseInv, RegUsed
    <3>2. QED
      BY <2>1, <3>1 DEF RegUsed
  <2>3. ASSUME NEW x \in ResetTokens PROVE ResetUsed(x)'
    <3>1. ResetUsed(x) /\ changed[x] \in Nat
      BY <1>0 DEF UseInv, HistoryTyped
    <3>2. QED
      BY <2>1, <3>1 DEF ResetUsed
  <2>4. QED
    BY <2>2, <2>3 DEF UseInv
<1>15. CASE UNCHANGED vars
  BY <1>15, KeepUse DEF vars
<1>16. QED
  BY <1>1, <1>2, <1>3, <1>4, <1>5, <1>6, <1>7, <1>8, <1>9, <1>10, <1>11, <1>12, <1>13, <1>14,
     <1>15 DEF Next, Finish

-----------------------------------------------------------------------------
(* The files.                                                              *)

\* What SavedInv says while every save works.
SavedNow ==
  /\ Same(users, usersDisk) /\ Same(bots, botsDisk) /\ SameBut(expired, regs, regsDisk)
  /\ \A b \in DOMAIN bots : bots[b] \in DOMAIN users /\ step # <<"delete", bots[b]>>
  /\ \A u \in DOMAIN users : users[u].referrer \in Known
  /\ \A t \in DOMAIN regs : regs[t].referrer \in Known

LEMMA FailedGrows == TypeOK /\ [Next]_vars /\ failed' = 0 => failed = 0
<1> SUFFICES ASSUME TypeOK, [Next]_vars, failed' = 0 PROVE failed = 0
  OBVIOUS
<1>1. failed \in Nat
  BY TypeParts DEF WorldTyped
<1>2. failed' = failed \/ failed' = failed + 1
  <2>1. CASE HandleUpdate
    BY <2>1 DEF HandleUpdate, Save
  <2>2. CASE \E u \in Users : DeleteBots(u)
    BY <2>2 DEF DeleteBots, Save
  <2>3. CASE \E t \in RegTokens : RegisterComplete(t)
    BY <2>3 DEF RegisterComplete, CreateWithHash, Save
  <2>4. CASE Crash \/ AcknowledgeUpdates \/ (\E t \in Tokens : Expire(t))
               \/ \E t \in Tokens, g \in Telegrams : Click(t, g)
    BY <2>4 DEF Crash, AcknowledgeUpdates, Expire, Click
  <2>5. CASE \/ \E t \in RegTokens, e \in Emails, r \in Users \cup {NoOne} : RegisterStart(t, e, r)
             \/ \E t \in ResetTokens, u \in Users : ResetStart(t, u)
             \/ \E t \in ResetTokens : ResetComplete(t)
             \/ \E u \in Users, b \in Bots : AddBot(u, b)
    BY <2>5 DEF RegisterStart, ResetStart, ResetComplete, AddBot, Save
  <2>6. CASE Finish
    BY <2>6 DEF Finish, RegisterFinish, ResetFinish, DeleteUser, Save
  <2>7. CASE UNCHANGED vars
    BY <2>7 DEF vars, world
  <2>8. QED
    BY <2>1, <2>2, <2>3, <2>4, <2>5, <2>6, <2>7 DEF Next
<1>3. QED
  BY <1>1, <1>2

\* What a step has to show that changes neither accounts nor bots.
LEMMA KeepSaved ==
  ASSUME SavedNow, UNCHANGED <<users, usersDisk, bots, botsDisk, orphaned>>,
         SameBut(expired', regs', regsDisk'),
         \A u \in Users : step' = <<"delete", u>> => step = step',
         \A b \in DOMAIN bots : bots[b] \in Users,
         \A t \in DOMAIN regs' : regs'[t].referrer \in Known
  PROVE  SavedNow'
<1>1. Known' = Known
  BY DEF Known
<1>2. Same(users', usersDisk') /\ Same(bots', botsDisk')
  BY DEF SavedNow
<1>3. ASSUME NEW b \in DOMAIN bots' PROVE bots'[b] \in DOMAIN users' /\ step' # <<"delete", bots'[b]>>
  BY DEF SavedNow
<1>4. QED
  BY <1>1, <1>2, <1>3 DEF SavedNow

\* The same for one that changes only tokens that are left of the registrations.
LEMMA ShrinkSaved ==
  ASSUME SavedNow, UNCHANGED <<users, usersDisk, bots, botsDisk, orphaned>>,
         Shrinks(regs, regs'), SameBut(expired', regs', regsDisk'),
         \A u \in Users : step' = <<"delete", u>> => step = step',
         \A b \in DOMAIN bots : bots[b] \in Users
  PROVE  SavedNow'
<1>1. \A t \in DOMAIN regs' : regs'[t].referrer \in Known
  BY DEF SavedNow, Shrinks
<1>2. QED
  BY <1>1, KeepSaved

LEMMA SavedInit == Init => SavedInv
BY DEF Init, SavedInv, Same, SameBut

LEMMA SavedStep == TypeOK /\ UsersInv /\ SavedInv /\ [Next]_vars => SavedInv'
<1> SUFFICES ASSUME TypeOK, UsersInv, SavedInv, [Next]_vars, failed' = 0 PROVE SavedNow'
  BY DEF SavedInv, SavedNow
<1>0. StoresTyped /\ WorldTyped /\ HistoryTyped
  BY TypeParts
<1>0a. failed = 0 /\ SavedNow
  BY FailedGrows DEF SavedInv, SavedNow
<1>0b. failed' # failed + 1
  BY <1>0a
<1>0c. \A f, S : SameBut(S, f, f)
  BY DEF SameBut
<1>0d. \A b \in DOMAIN bots : bots[b] \in Users
  BY <1>0 DEF StoresTyped, Typed
<1>0e. Shrinks(regs, regs) /\ SameBut(expired, regs, regsDisk)
  BY <1>0a DEF Shrinks, SavedNow
<1> USE DEF stores, world, history
<1>1. ASSUME NEW t \in RegTokens, NEW e \in Emails, NEW r \in Users \cup {NoOne}, RegisterStart(t, e, r)
      PROVE  SavedNow'
  <2> DEFINE v == [email |-> e, referrer |-> r, telegram |-> NoOne]
  <2>1. /\ regs' = With(Unexpired(regs), t, v) /\ regsDisk' = regs'
        /\ r \in DOMAIN users \cup {NoOne}
        /\ UNCHANGED <<users, usersDisk, bots, botsDisk, orphaned, step>>
    BY <1>0b, <1>1 DEF RegisterStart, Save
  <2>2. ASSUME NEW x \in DOMAIN regs' PROVE regs'[x].referrer \in Known
    <3>1. CASE x = t
      <4>1. regs'[x] = v
        BY <2>1, <3>1 DEF With
      <4>2. QED
        BY <2>1, <4>1 DEF Known
    <3>2. CASE x # t
      <4>1. x \in DOMAIN Unexpired(regs) /\ regs'[x] = Unexpired(regs)[x]
        BY <2>1, <3>2 DEF With
      <4>2. x \in DOMAIN regs /\ regs'[x] = regs[x]
        BY <4>1, UnexpiredShrinks DEF Shrinks
      <4>3. QED
        BY <1>0a, <4>2 DEF SavedNow
    <3>3. QED
      BY <3>1, <3>2
  <2>3. QED
    BY <1>0a, <1>0c, <1>0d, <2>1, <2>2, KeepSaved
<1>2. ASSUME NEW t \in RegTokens, RegisterComplete(t) PROVE SavedNow'
  <2>1. CASE /\ regs' = MarkCompleted(regs, t) /\ Save(regsDisk, regs')
             /\ UNCHANGED <<users, usersDisk, step>>
    <3>1. /\ regsDisk' = regs' /\ Shrinks(regs, regs')
          /\ UNCHANGED <<bots, botsDisk, orphaned>>
      BY <1>0b, <1>2, <2>1, MarkCompletedShrinks DEF RegisterComplete, Save
    <3>2. QED
      BY <1>0a, <1>0c, <1>0d, <2>1, <3>1, ShrinkSaved
  <2>2. CASE \E u \in Users : /\ CreateWithHash(u, t) /\ step' = <<"complete", t>>
                                /\ UNCHANGED <<regs, regsDisk>>
    <3>1. PICK u \in Users : CreateWithHash(u, t)
      BY <2>2
    <3> DEFINE v == [email |-> regs[t].email, telegram |-> regs[t].telegram,
                     referrer |-> regs[t].referrer, password |-> t]
    <3>2. /\ users' = With(users, u, v) /\ usersDisk' = users' /\ step' = <<"complete", t>>
          /\ UNCHANGED <<regs, regsDisk, bots, botsDisk, orphaned, expired>> /\ t \in DOMAIN regs
      BY <1>0b, <1>2, <2>2, <3>1 DEF RegisterComplete, CreateWithHash, Save
    <3>3. /\ DOMAIN users' = DOMAIN users \cup {u} /\ users'[u].referrer = regs[t].referrer
          /\ \A x \in DOMAIN users \ {u} : users'[x] = users[x]
      BY <3>2 DEF With
    <3>4. Known \subseteq Known'
      BY <3>2, <3>3 DEF Known
    <3>5. \A x \in DOMAIN users' : users'[x].referrer \in Known'
      BY <1>0a, <3>2, <3>3, <3>4 DEF SavedNow
    <3>6. \A x \in DOMAIN regs' : regs'[x].referrer \in Known'
      BY <1>0a, <3>2, <3>4 DEF SavedNow
    <3>7. Same(users', usersDisk') /\ Same(bots', botsDisk') /\ SameBut(expired', regs', regsDisk')
      BY <1>0a, <3>2 DEF SavedNow, Same
    <3>8. \A b \in DOMAIN bots' : bots'[b] \in DOMAIN users' /\ step' # <<"delete", bots'[b]>>
      BY <1>0a, <3>2, <3>3 DEF SavedNow
    <3>9. QED
      BY <3>5, <3>6, <3>7, <3>8 DEF SavedNow
  <2>3. QED
    BY <1>2, <2>1, <2>2 DEF RegisterComplete
<1>3. ASSUME NEW t \in RegTokens, RegisterFinish(t) PROVE SavedNow'
  <2>1. /\ regsDisk' = regs' /\ Shrinks(regs, regs') /\ step' = Idle
        /\ UNCHANGED <<users, usersDisk, bots, botsDisk, orphaned>>
    BY <1>0b, <1>3, MarkCompletedShrinks DEF RegisterFinish, Save
  <2>2. QED
    BY <1>0a, <1>0c, <1>0d, <2>1, IdleStep, ShrinkSaved
<1>4. ASSUME NEW t \in ResetTokens, NEW u \in Users, ResetStart(t, u) PROVE SavedNow'
  BY <1>0a, <1>0d, <1>0e, <1>4, ShrinkSaved DEF ResetStart
<1>5. ASSUME NEW t \in ResetTokens, ResetComplete(t) PROVE SavedNow'
  <2>1. /\ usersDisk' = users' /\ step' = <<"reset", t>>
        /\ UNCHANGED <<regs, regsDisk, bots, botsDisk, orphaned, expired>>
        /\ DOMAIN users' = DOMAIN users
    BY <1>0b, <1>5 DEF ResetComplete, Save
  <2>2. \A u \in DOMAIN users : users'[u].referrer = users[u].referrer
    BY <1>0, <1>5 DEF ResetComplete, StoresTyped, Typed, UserRec
  <2>3. Known' = Known
    BY <2>1 DEF Known
  <2>4. Same(users', usersDisk') /\ Same(bots', botsDisk') /\ SameBut(expired', regs', regsDisk')
    BY <1>0a, <2>1 DEF SavedNow, Same
  <2>5. QED
    BY <1>0a, <2>1, <2>2, <2>3, <2>4 DEF SavedNow
<1>6. ASSUME NEW t \in ResetTokens, ResetFinish(t) PROVE SavedNow'
  BY <1>0a, <1>0d, <1>0e, <1>6, IdleStep, ShrinkSaved DEF ResetFinish
<1>7. ASSUME NEW u \in Users, DeleteUser(u) PROVE SavedNow'
  <2>1. /\ users' = Forgotten(u) /\ usersDisk' = users' /\ step = <<"delete", u>> /\ step' = Idle
        /\ orphaned' = orphaned \cup {v \in {u} : \E t \in DOMAIN regs : regs[t].referrer = v}
        /\ UNCHANGED <<regs, regsDisk, bots, botsDisk, expired>>
    BY <1>0b, <1>7 DEF DeleteUser, Save
  <2>2. /\ DOMAIN users' = DOMAIN users \ {u}
        /\ \A v \in DOMAIN users' :
             users'[v].referrer = IF users[v].referrer = u THEN NoOne ELSE users[v].referrer
    BY <1>0, <2>1 DEF Forgotten, StoresTyped, Typed, UserRec
  <2>3. \A x \in Known : x # u => x \in Known'
    BY <2>1, <2>2 DEF Known
  <2>4. ASSUME NEW v \in DOMAIN users' PROVE users'[v].referrer \in Known'
    <3>1. users[v].referrer \in Known
      BY <1>0a, <2>2 DEF SavedNow
    <3>2. CASE users[v].referrer = u
      BY <2>2, <3>2 DEF Known
    <3>3. CASE users[v].referrer # u
      BY <2>2, <2>3, <3>1, <3>3
    <3>4. QED
      BY <3>2, <3>3
  <2>5. ASSUME NEW t \in DOMAIN regs' PROVE regs'[t].referrer \in Known'
    <3>1. regs[t].referrer \in Known /\ t \in DOMAIN regs /\ regs'[t] = regs[t]
      BY <1>0a, <2>1 DEF SavedNow
    <3>2. CASE regs[t].referrer = u
      BY <2>1, <3>1, <3>2 DEF Known
    <3>3. CASE regs[t].referrer # u
      BY <2>3, <3>1, <3>3
    <3>4. QED
      BY <3>2, <3>3
  <2>6. Same(users', usersDisk') /\ Same(bots', botsDisk') /\ SameBut(expired', regs', regsDisk')
    BY <1>0a, <2>1 DEF SavedNow, Same
  <2>7. \A b \in DOMAIN bots' : bots'[b] \in DOMAIN users' /\ step' # <<"delete", bots'[b]>>
    BY <1>0a, <2>1, <2>2, IdleStep DEF SavedNow
  <2>8. QED
    BY <2>4, <2>5, <2>6, <2>7 DEF SavedNow
<1>8. ASSUME NEW t \in Tokens, Expire(t) PROVE SavedNow'
  <2>1. SameBut(expired', regs', regsDisk')
    BY <1>0e, <1>8 DEF Expire, SameBut
  <2>2. QED
    BY <1>0a, <1>0d, <1>0e, <1>8, <2>1, ShrinkSaved DEF Expire
<1>9. ASSUME NEW t \in Tokens, NEW g \in Telegrams, Click(t, g) PROVE SavedNow'
  BY <1>0a, <1>0d, <1>0e, <1>9, ShrinkSaved DEF Click
<1>10. CASE HandleUpdate
  <2> DEFINE t == inbox[done + 1][1]
             g == inbox[done + 1][2]
  <2>1. CASE UNCHANGED <<regs, regsDisk>>
    BY <1>0a, <1>0d, <1>0e, <1>10, <2>1, ShrinkSaved DEF HandleUpdate
  <2>2. CASE t \in DOMAIN regs /\ regs' = [regs EXCEPT ![t].telegram = g] /\ Save(regsDisk, regs')
    <3>1. regsDisk' = regs' /\ DOMAIN regs' = DOMAIN regs
      BY <1>0b, <2>2 DEF Save
    <3>2. \A x \in DOMAIN regs : regs'[x].referrer = regs[x].referrer
      BY <1>0, <2>2 DEF StoresTyped, Typed, RegRec
    <3>3. \A x \in DOMAIN regs' : regs'[x].referrer \in Known
      BY <1>0a, <3>1, <3>2 DEF SavedNow
    <3>4. QED
      BY <1>0a, <1>0c, <1>0d, <1>10, <3>1, <3>3, KeepSaved DEF HandleUpdate
  <2>3. QED
    BY <1>10, <2>1, <2>2 DEF HandleUpdate, RegAccepts
<1>11. CASE AcknowledgeUpdates
  BY <1>0a, <1>0d, <1>0e, <1>11, ShrinkSaved DEF AcknowledgeUpdates
<1>12. ASSUME NEW u \in Users, DeleteBots(u) PROVE SavedNow'
  <2> DEFINE owned == {b \in DOMAIN bots : bots[b] = u}
  <2>1. /\ bots' = Without(bots, owned) /\ step' = <<"delete", u>>
        /\ botsDisk' = bots' \/ (owned = {} /\ botsDisk' = botsDisk)
        /\ UNCHANGED <<users, usersDisk, regs, regsDisk, orphaned, expired>>
    BY <1>0a, <1>12 DEF DeleteBots, Save
  <2>2. DOMAIN bots' = DOMAIN bots \ owned /\ \A b \in DOMAIN bots \ owned : bots'[b] = bots[b]
    BY <2>1 DEF Without, Restrict
  <2>3. Same(bots', botsDisk')
    <3>1. CASE botsDisk' = bots'
      BY <3>1 DEF Same
    <3>2. CASE owned = {} /\ botsDisk' = botsDisk
      <4>1. DOMAIN bots' = DOMAIN bots /\ \A b \in DOMAIN bots : bots'[b] = bots[b]
        BY <2>2, <3>2
      <4>2. QED
        BY <1>0a, <3>2, <4>1 DEF SavedNow, Same
    <3>3. QED
      BY <2>1, <3>1, <3>2
  <2>4. ASSUME NEW b \in DOMAIN bots' PROVE bots'[b] \in DOMAIN users' /\ step' # <<"delete", bots'[b]>>
    <3>1. b \in DOMAIN bots /\ bots'[b] = bots[b] /\ bots[b] # u
      BY <2>2
    <3>2. QED
      BY <1>0a, <2>1, <3>1 DEF SavedNow
  <2>5. Known' = Known
    BY <2>1 DEF Known
  <2>6. Same(users', usersDisk') /\ SameBut(expired', regs', regsDisk')
    BY <1>0a, <2>1 DEF SavedNow
  <2>7. QED
    BY <1>0a, <2>1, <2>3, <2>4, <2>5, <2>6 DEF SavedNow
<1>13. ASSUME NEW u \in Users, NEW b \in Bots, AddBot(u, b) PROVE SavedNow'
  <2>1. /\ bots' = With(bots, b, u) /\ botsDisk' = bots' /\ u \in DOMAIN users /\ step = Idle
        /\ UNCHANGED <<users, usersDisk, regs, regsDisk, orphaned, expired, step>>
    BY <1>0b, <1>13 DEF AddBot, Save
  <2>2. \A x \in DOMAIN bots' : bots'[x] \in DOMAIN users' /\ step' # <<"delete", bots'[x]>>
    BY <1>0a, <2>1, IdleStep DEF SavedNow, With
  <2>3. Known' = Known
    BY <2>1 DEF Known
  <2>4. Same(users', usersDisk') /\ Same(bots', botsDisk') /\ SameBut(expired', regs', regsDisk')
    BY <1>0a, <2>1 DEF SavedNow, Same
  <2>5. QED
    BY <1>0a, <2>1, <2>2, <2>3, <2>4 DEF SavedNow
<1>14. CASE Crash
  <2>1. /\ users' = usersDisk /\ bots' = botsDisk /\ regs' = Unexpired(regsDisk) /\ step' = Idle
        /\ UNCHANGED <<usersDisk, regsDisk, botsDisk, expired, orphaned>>
    BY <1>14 DEF Crash
  <2>2. /\ DOMAIN regs' = DOMAIN regs \ expired
        /\ \A x \in DOMAIN regs' : regs'[x] = regs[x]
        /\ SameBut(expired, regs', regsDisk)
    <3>1. DOMAIN regs' = DOMAIN regsDisk \ expired /\ \A x \in DOMAIN regs' : regs'[x] = regsDisk[x]
      BY <2>1, UnexpiredFacts
    <3>2. QED
      BY <1>0a, <3>1 DEF SavedNow, SameBut
  <2>3. /\ DOMAIN users' = DOMAIN users /\ \A x \in DOMAIN users : users'[x] = users[x]
        /\ DOMAIN bots' = DOMAIN bots /\ \A x \in DOMAIN bots : bots'[x] = bots[x]
    BY <1>0a, <2>1 DEF SavedNow, Same
  <2>4. Known' = Known
    BY <2>1, <2>3 DEF Known
  <2>5. Same(users', usersDisk') /\ Same(bots', botsDisk')
    BY <2>1 DEF Same
  <2>6. \A b \in DOMAIN bots' : bots'[b] \in DOMAIN users' /\ step' # <<"delete", bots'[b]>>
    BY <1>0a, <2>1, <2>3, IdleStep DEF SavedNow
  <2>7. \A u \in DOMAIN users' : users'[u].referrer \in Known'
    BY <1>0a, <2>3, <2>4 DEF SavedNow
  <2>8. \A t \in DOMAIN regs' : regs'[t].referrer \in Known'
    BY <1>0a, <2>2, <2>4 DEF SavedNow
  <2>9. QED
    BY <2>1, <2>2, <2>5, <2>6, <2>7, <2>8 DEF SavedNow
<1>15. CASE UNCHANGED vars
  BY <1>0a, <1>0d, <1>0e, <1>15, ShrinkSaved DEF vars
<1>16. QED
  BY <1>1, <1>2, <1>3, <1>4, <1>5, <1>6, <1>7, <1>8, <1>9, <1>10, <1>11, <1>12, <1>13, <1>14,
     <1>15 DEF Next, Finish

-----------------------------------------------------------------------------
(* Clicks.                                                                 *)

\* What happens to an account: it stays under its Telegram, or the Telegram is freed.
AccountsKept ==
  \A u \in DOMAIN users : \/ u \in DOMAIN users' /\ users'[u].telegram = users[u].telegram
                          \/ users[u].telegram \in freed'

\* What happens to a registration: what is pending was, or is for a token just given,
\* and who confirmed it stays.
RegsKept ==
  \A t \in DOMAIN regs' \ expired' :
    \/ t \in DOMAIN regs /\ (regs[t].telegram # NoOne => regs'[t].telegram # NoOne)
    \/ aim[t] = NoOne

LEMMA KeepOver ==
  ASSUME expired \subseteq expired', freed \subseteq freed', AccountsKept, RegsKept,
         NEW t \in Tokens, NEW g, aim[t] # NoOne, Over(t, g)
  PROVE  Over(t, g)'
<1>1. CASE TelegramTaken(g)
  BY <1>1 DEF AccountsKept, TelegramTaken, Over
<1>2. CASE g \in freed
  BY <1>2 DEF Over
<1>3. CASE t \notin DOMAIN regs \ expired \/ regs[t].telegram # NoOne
  BY <1>3 DEF RegsKept, Over
<1>4. QED
  BY <1>1, <1>2, <1>3 DEF Over

\* What a step has to show that handles no update.
LEMMA KeepClicks ==
  ASSUME TypeOK, AimInv, ClickInv, failed' = 0 => failed = 0,
         clicked' = clicked, inbox' = inbox, done' = done,
         failed = 0 => /\ expired \subseteq expired' /\ freed \subseteq freed'
                       /\ AccountsKept /\ RegsKept
  PROVE  ClickInv'
<1> SUFFICES ASSUME failed' = 0, NEW click \in clicked
             PROVE  (\E i \in done + 1 .. Len(inbox) : inbox[i] = click) \/ Over(click[1], click[2])'
  BY DEF ClickInv
<1>1. click[1] \in Tokens /\ aim[click[1]] # NoOne
  BY TypeParts DEF HistoryTyped, AimInv
<1>2. (\E i \in done + 1 .. Len(inbox) : inbox[i] = click) \/ Over(click[1], click[2])
  BY DEF ClickInv
<1>3. QED
  BY <1>1, <1>2, KeepOver

LEMMA ClickInit == Init => ClickInv
BY DEF Init, ClickInv

LEMMA ClickStep == TypeOK /\ UsersInv /\ AimInv /\ SavedInv /\ ClickInv /\ [Next]_vars => ClickInv'
<1> SUFFICES ASSUME TypeOK, UsersInv, AimInv, SavedInv, ClickInv, [Next]_vars PROVE ClickInv'
  OBVIOUS
<1>0. StoresTyped /\ WorldTyped /\ HistoryTyped
  BY TypeParts
<1>0a. failed' = 0 => failed = 0
  BY FailedGrows
<1>0b. users' = users => AccountsKept
  BY DEF AccountsKept
<1>0c. Shrinks(regs, regs') => RegsKept
  BY DEF Shrinks, RegsKept
<1>0d. regs' = regs => RegsKept
  BY DEF RegsKept
<1> USE DEF stores, world, history
<1>1. ASSUME NEW t \in RegTokens, NEW e \in Emails, NEW r \in Users \cup {NoOne}, RegisterStart(t, e, r)
      PROVE  ClickInv'
  <2> DEFINE v == [email |-> e, referrer |-> r, telegram |-> NoOne]
  <2>1. aim[t] = NoOne /\ regs' = With(Unexpired(regs), t, v)
    BY <1>1 DEF RegisterStart
  <2>2. ASSUME NEW x \in DOMAIN regs', x # t PROVE x \in DOMAIN regs /\ regs'[x] = regs[x]
    <3>1. x \in DOMAIN Unexpired(regs) /\ regs'[x] = Unexpired(regs)[x]
      BY <2>1, <2>2 DEF With
    <3>2. QED
      BY <3>1, UnexpiredShrinks DEF Shrinks
  <2>3. RegsKept
    BY <2>1, <2>2 DEF RegsKept
  <2>4. QED
    BY <1>0a, <1>0b, <1>1, <2>3, KeepClicks DEF RegisterStart
<1>2. ASSUME NEW t \in RegTokens, RegisterComplete(t) PROVE ClickInv'
  <2>1. CASE regs' = MarkCompleted(regs, t) /\ users' = users
    <3>1. RegsKept
      BY <1>0c, <2>1, MarkCompletedShrinks
    <3>2. QED
      BY <1>0a, <1>0b, <1>2, <2>1, <3>1, KeepClicks DEF RegisterComplete
  <2>2. CASE \E u \in Users \ Registered : CreateWithHash(u, t) /\ regs' = regs
    <3>1. PICK u \in Users \ Registered : CreateWithHash(u, t)
      BY <2>2
    <3> DEFINE v == [email |-> regs[t].email, telegram |-> regs[t].telegram,
                     referrer |-> regs[t].referrer, password |-> t]
    <3>2. users' = With(users, u, v) /\ u \notin DOMAIN users
      BY <3>1 DEF CreateWithHash, UsersInv
    <3>3. AccountsKept
      BY <3>2 DEF AccountsKept, With
    <3>4. QED
      BY <1>0a, <1>0d, <1>2, <2>2, <3>3, KeepClicks DEF RegisterComplete
  <2>3. QED
    BY <1>2, <2>1, <2>2 DEF RegisterComplete, Registered
<1>3. ASSUME NEW t \in RegTokens, RegisterFinish(t) PROVE ClickInv'
  <2>1. RegsKept
    BY <1>0c, <1>3, MarkCompletedShrinks DEF RegisterFinish
  <2>2. QED
    BY <1>0a, <1>0b, <1>3, <2>1, KeepClicks DEF RegisterFinish
<1>4. ASSUME NEW t \in ResetTokens, NEW u \in Users, ResetStart(t, u) PROVE ClickInv'
  BY <1>0a, <1>0b, <1>0d, <1>4, KeepClicks DEF ResetStart
<1>5. ASSUME NEW t \in ResetTokens, ResetComplete(t) PROVE ClickInv'
  <2>1. AccountsKept
    BY <1>0, <1>5 DEF ResetComplete, AccountsKept, StoresTyped, Typed, UserRec
  <2>2. QED
    BY <1>0a, <1>0d, <1>5, <2>1, KeepClicks DEF ResetComplete
<1>6. ASSUME NEW t \in ResetTokens, ResetFinish(t) PROVE ClickInv'
  BY <1>0a, <1>0b, <1>0d, <1>6, KeepClicks DEF ResetFinish
<1>7. ASSUME NEW u \in Users, DeleteUser(u) PROVE ClickInv'
  <2>1. users' = Forgotten(u) /\ freed' = freed \cup {users[u].telegram}
    BY <1>7 DEF DeleteUser
  <2>2. DOMAIN users' = DOMAIN users \ {u} /\ \A v \in DOMAIN users' : users'[v].telegram = users[v].telegram
    BY <1>0, <2>1 DEF Forgotten, StoresTyped, Typed, UserRec
  <2>3. AccountsKept
    BY <2>1, <2>2 DEF AccountsKept
  <2>4. QED
    BY <1>0a, <1>0d, <1>7, <2>1, <2>3, KeepClicks DEF DeleteUser
<1>8. ASSUME NEW t \in Tokens, Expire(t) PROVE ClickInv'
  BY <1>0a, <1>0b, <1>0d, <1>8, KeepClicks DEF Expire
<1>9. ASSUME NEW t \in Tokens, NEW g \in Telegrams, Click(t, g) PROVE ClickInv'
  <2>1. /\ inbox' = Append(inbox, <<t, g>>) /\ clicked' = clicked \cup {<<t, g>>}
        /\ done' = done /\ failed' = failed
        /\ UNCHANGED <<users, regs, expired, freed, aim>>
    BY <1>9 DEF Click
  <2>2. /\ Len(inbox') = Len(inbox) + 1 /\ Len(inbox) \in Nat /\ done \in 0 .. Len(inbox)
        /\ inbox'[Len(inbox) + 1] = <<t, g>>
        /\ \A i \in 1 .. Len(inbox) : inbox'[i] = inbox[i]
    BY <1>0, <2>1 DEF WorldTyped
  <2>3. SUFFICES ASSUME failed = 0, NEW click \in clicked'
                 PROVE  (\E i \in done + 1 .. Len(inbox') : inbox'[i] = click) \/ Over(click[1], click[2])'
    BY <2>1 DEF ClickInv
  <2>4. CASE click = <<t, g>>
    BY <2>2, <2>4
  <2>5. CASE click \in clicked
    <3>1. click[1] \in Tokens /\ aim[click[1]] # NoOne
      BY <1>0, <2>5 DEF HistoryTyped, AimInv
    <3>2. Over(click[1], click[2]) => Over(click[1], click[2])'
      BY <1>0b, <1>0d, <2>1, <3>1, KeepOver
    <3>3. CASE \E i \in done + 1 .. Len(inbox) : inbox[i] = click
      <4>1. PICK i \in done + 1 .. Len(inbox) : inbox[i] = click
        BY <3>3
      <4>2. i \in 1 .. Len(inbox) /\ i \in done + 1 .. Len(inbox')
        BY <2>2, <4>1
      <4>3. QED
        BY <2>2, <4>1, <4>2
    <3>4. QED
      BY <2>3, <2>5, <3>2, <3>3 DEF ClickInv
  <2>6. QED
    BY <2>1, <2>4, <2>5
<1>10. CASE HandleUpdate
  <2>0. /\ inbox[done + 1] \in Tokens \X Telegrams
        /\ done \in Nat /\ Len(inbox) \in Nat /\ done' = done + 1 /\ done < Len(inbox)
    BY <1>0, <1>10 DEF HandleUpdate, WorldTyped
  <2>1. PICK t \in Tokens, g \in Telegrams : inbox[done + 1] = <<t, g>>
    BY <2>0
  <2>2. UNCHANGED <<users, inbox, clicked, aim, expired, freed>>
    BY <1>10 DEF HandleUpdate
  <2>3. \/ RegAccepts(t, g) /\ regs' = [regs EXCEPT ![t].telegram = g]
        \/ ResetAccepts(t, g) /\ regs' = regs
        \/ ~RegAccepts(t, g) /\ regs' = regs
    BY <1>10, <2>1 DEF HandleUpdate
  <2>4. DOMAIN regs' = DOMAIN regs
    BY <2>3
  <2>5. g # NoOne
    BY <2>1, AccountsAssumption
  <2>6. ASSUME RegAccepts(t, g), regs' = [regs EXCEPT ![t].telegram = g] PROVE RegsKept /\ Over(t, g)'
    <3>1. \A x \in DOMAIN regs : regs'[x].telegram = IF x = t THEN g ELSE regs[x].telegram
      BY <1>0, <2>6 DEF StoresTyped, Typed, RegRec
    <3>2. RegsKept
      BY <2>4, <2>5, <3>1 DEF RegsKept
    <3>3. t \in DOMAIN regs
      BY <2>6 DEF RegAccepts
    <3>4. Over(t, g)'
      BY <2>4, <2>5, <3>1, <3>3 DEF Over
    <3>5. QED
      BY <3>2, <3>4
  <2>7. ASSUME regs' = regs, ResetAccepts(t, g) \/ ~RegAccepts(t, g) PROVE RegsKept /\ Over(t, g)'
    <3>1. Over(t, g)
      <4>1. CASE ResetAccepts(t, g)
        <5>1. t \in ResetTokens
          BY <1>0, <4>1 DEF ResetAccepts, StoresTyped, Typed
        <5>2. t \notin DOMAIN regs
          BY <1>0, <5>1, AccountsAssumption DEF StoresTyped, Typed
        <5>3. QED
          BY <5>2 DEF Over
      <4>2. CASE ~RegAccepts(t, g)
        BY <4>2 DEF RegAccepts, Over
      <4>3. QED
        BY <2>7, <4>1, <4>2
    <3>2. Over(t, g)'
      BY <2>2, <2>7, <3>1 DEF Over, TelegramTaken
    <3>3. QED
      BY <1>0d, <2>7, <3>2
  <2>8. RegsKept /\ Over(t, g)'
    BY <2>3, <2>6, <2>7
  <2>9. SUFFICES ASSUME failed' = 0, NEW click \in clicked
                 PROVE  (\E i \in done + 2 .. Len(inbox) : inbox[i] = click) \/ Over(click[1], click[2])'
    BY <2>0, <2>2 DEF ClickInv
  <2>10. click[1] \in Tokens /\ aim[click[1]] # NoOne
    BY <1>0 DEF HistoryTyped, AimInv
  <2>11. Over(click[1], click[2]) => Over(click[1], click[2])'
    BY <1>0b, <2>2, <2>8, <2>10, KeepOver
  <2>12. CASE \E i \in done + 1 .. Len(inbox) : inbox[i] = click
    <3>1. PICK i \in done + 1 .. Len(inbox) : inbox[i] = click
      BY <2>12
    <3>2. CASE i = done + 1
      BY <2>1, <2>8, <3>1, <3>2
    <3>3. CASE i # done + 1
      <4>1. i \in done + 2 .. Len(inbox)
        BY <2>0, <3>1, <3>3
      <4>2. QED
        BY <3>1, <4>1
    <3>4. QED
      BY <3>2, <3>3
  <2>13. QED
    BY <1>0a, <2>9, <2>11, <2>12 DEF ClickInv
<1>11. CASE AcknowledgeUpdates
  <2>1. /\ inbox' = SubSeq(inbox, done + 1, Len(inbox)) /\ done' = 0 /\ failed' = failed
        /\ UNCHANGED <<users, regs, expired, freed, aim, clicked>>
    BY <1>11 DEF AcknowledgeUpdates
  <2>2. /\ done \in Nat /\ Len(inbox) \in Nat /\ done <= Len(inbox)
        /\ Len(inbox') = Len(inbox) - done
        /\ \A i \in 1 .. Len(inbox) - done : inbox'[i] = inbox[done + i]
    BY <1>0, <2>1 DEF WorldTyped
  <2>3. SUFFICES ASSUME failed = 0, NEW click \in clicked
                 PROVE  (\E i \in done' + 1 .. Len(inbox') : inbox'[i] = click) \/ Over(click[1], click[2])'
    BY <2>1 DEF ClickInv
  <2>4. click[1] \in Tokens /\ aim[click[1]] # NoOne
    BY <1>0 DEF HistoryTyped, AimInv
  <2>5. Over(click[1], click[2]) => Over(click[1], click[2])'
    BY <1>0b, <1>0d, <2>1, <2>4, KeepOver
  <2>6. CASE \E i \in done + 1 .. Len(inbox) : inbox[i] = click
    <3>1. PICK i \in done + 1 .. Len(inbox) : inbox[i] = click
      BY <2>6
    <3>2. i - done \in 1 .. Len(inbox) - done /\ done + (i - done) = i /\ 1 = done' + 1
      BY <2>1, <2>2, <3>1
    <3>3. QED
      BY <2>2, <3>1, <3>2
  <2>7. QED
    BY <2>3, <2>5, <2>6 DEF ClickInv
<1>12. ASSUME NEW u \in Users, DeleteBots(u) PROVE ClickInv'
  BY <1>0a, <1>0b, <1>0d, <1>12, KeepClicks DEF DeleteBots
<1>13. ASSUME NEW u \in Users, NEW b \in Bots, AddBot(u, b) PROVE ClickInv'
  BY <1>0a, <1>0b, <1>0d, <1>13, KeepClicks DEF AddBot
<1>14. CASE Crash
  <2>1. /\ users' = usersDisk /\ regs' = Unexpired(regsDisk) /\ done' = 0 /\ failed' = failed
        /\ UNCHANGED <<inbox, expired, freed, aim, clicked>>
    BY <1>14 DEF Crash
  <2>2. SUFFICES ASSUME failed = 0, NEW click \in clicked
                 PROVE  (\E i \in 1 .. Len(inbox) : inbox[i] = click) \/ Over(click[1], click[2])'
    BY <2>1 DEF ClickInv
  <2>3. Same(users, usersDisk) /\ SameBut(expired, regs, regsDisk)
    BY <2>2 DEF SavedInv
  <2>4. AccountsKept
    BY <2>1, <2>3 DEF AccountsKept, Same
  <2>5. DOMAIN regs' = DOMAIN regsDisk \ expired /\ \A x \in DOMAIN regs' : regs'[x] = regsDisk[x]
    BY <2>1, UnexpiredFacts
  <2>6. RegsKept
    BY <2>3, <2>5 DEF RegsKept, SameBut
  <2>7. click[1] \in Tokens /\ aim[click[1]] # NoOne
    BY <1>0 DEF HistoryTyped, AimInv
  <2>8. Over(click[1], click[2]) => Over(click[1], click[2])'
    BY <2>1, <2>4, <2>6, <2>7, KeepOver
  <2>9. done + 1 .. Len(inbox) \subseteq 1 .. Len(inbox)
    BY <1>0 DEF WorldTyped
  <2>10. QED
    BY <2>2, <2>8, <2>9 DEF ClickInv
<1>15. CASE UNCHANGED vars
  BY <1>0a, <1>0b, <1>0d, <1>15, KeepClicks DEF vars
<1>16. QED
  BY <1>1, <1>2, <1>3, <1>4, <1>5, <1>6, <1>7, <1>8, <1>9, <1>10, <1>11, <1>12, <1>13, <1>14,
     <1>15 DEF Next, Finish

-----------------------------------------------------------------------------
(* The theorems.                                                           *)

LEMMA Inductive == Spec => []IInv
<1>1. Init => IInv
  BY TypeInit, UsersInit, AimInit, UseInit, SavedInit, ClickInit DEF IInv
<1>2. IInv /\ [Next]_vars => IInv'
  BY TypeStep, UsersStep, AimStep, UseStep, SavedStep, ClickStep DEF IInv
<1>3. QED
  BY <1>1, <1>2, PTL DEF Spec

\* Through registrations, resets, deletions, restarts and failed saves an account
\* is found under its own e-mail and under no other, and shares neither e-mail nor
\* Telegram (create_with_hash, delete and _load of users.py).
THEOREM AccountsOneEach == Spec => []OneAccountEach
<1>1. IInv => OneAccountEach
  BY DEF IInv, UsersInv, Distinct, OneAccountEach
<1>2. QED
  BY <1>1, Inductive, PTL

\* A password was set with a token given for this account, which the account's own
\* Telegram had sent to the bot (register_complete, password_reset_complete and
\* handle_update).
THEOREM AccountsConfirmPasswords == Spec => []PasswordConfirmed
<1>1. IInv => PasswordConfirmed
  BY DEF IInv, AimInv, Confirmed, PasswordConfirmed
<1>2. QED
  BY <1>1, Inductive, PTL

\* A token makes a second account, or sets the password again, only after a crash
\* between the two saves of the handler, once for each (register_complete,
\* password_reset_complete).
THEOREM AccountsUseTokensOnce == Spec => []TokenUsedOnce
<1>1. IInv => TokenUsedOnce
  BY DEF IInv, UseInv, RegUsed, ResetUsed, TokenUsedOnce
<1>2. QED
  BY <1>1, Inductive, PTL

\* While saves work, the owner of a bot exists, in memory and in the files, and a
\* referrer exists, or was deleted while a registration that names it was pending
\* (admin_delete_user, remove_for_owner and delete).
THEOREM AccountsLeaveNothing == Spec => []DeletedLeaveNothing
<1>1. IInv => DeletedLeaveNothing
  BY DEF IInv, SavedInv, Same, Known, DeletedLeaveNothing
<1>2. QED
  BY <1>1, Inductive, PTL

\* While saves work, no crash loses a click: it waits, or it has confirmed its
\* registration, or there is nothing left for it to confirm (getUpdates, its offset
\* and handle_update).
THEOREM AccountsCountClicks == Spec => []ClickCounts
<1>1. ASSUME TypeOK, ClickInv PROVE ClickCounts
  <2>1. SUFFICES ASSUME failed = 0, NEW click \in clicked
                 PROVE  click \in Range(inbox) \/ Over(click[1], click[2])
    BY DEF ClickCounts, Over
  <2>2. CASE \E i \in done + 1 .. Len(inbox) : inbox[i] = click
    <3>1. PICK i \in done + 1 .. Len(inbox) : inbox[i] = click
      BY <2>2
    <3>2. i \in DOMAIN inbox
      BY <1>1, <3>1, TypeParts DEF WorldTyped
    <3>3. QED
      BY <3>1, <3>2 DEF Range
  <2>3. QED
    BY <1>1, <2>1, <2>2 DEF ClickInv
<1>2. IInv => ClickCounts
  BY <1>1 DEF IInv
<1>3. QED
  BY <1>2, Inductive, PTL
=============================================================================
