------------------------------ MODULE Billing ------------------------------
(***************************************************************************)
(* Invoices, promo codes and referral credit of the site (web/app.py,      *)
(* web/payments.py, web/users.py, web/referrals.py, web/admin_ops.py).     *)
(*                                                                         *)
(* Each store is one JSON file rewritten as a whole by every change.       *)
(* _activate_paid_invoice never awaits, so nothing runs inside it, but the *)
(* process may die between two of its saves: an activation is a sequence   *)
(* of steps, one for each save, that only Crash can interrupt.  The steps  *)
(* of Crypto Bot commute with them and are taken between activations.      *)
(*                                                                         *)
(* Amounts are cents.  plan_expires_at is represented by what set_plan has *)
(* stacked on it, since the duration added never depends on what is left.  *)
(***************************************************************************)
EXTENDS Integers, FiniteSets, Functions

CONSTANTS
  Users, Invoices,
  Requests,      \* create-invoice requests that may be suspended together (a bound)
  Pollers,       \* check-invoice requests that may be suspended together (a bound)
  NoUser, NoInvoice,
  ReferredBy,    \* who referred each user when registering
  Price,         \* price of the plan, in cents
  Discount,      \* discount_pct of the promo code
  MaxUses,       \* max_uses of the promo code, 0 for no limit
  CommissionPct, \* REFERRAL_COMMISSION_PCT
  Gifts,         \* amounts an administrator credits
  MaxEarned,     \* gifts stop when a user has earned so much (a bound)
  MaxCrashes     \* crashes considered (a bound)

ASSUME BillingAssumption ==
  /\ NoUser \notin Users
  /\ IsFiniteSet(Invoices) /\ NoInvoice \notin Invoices
  /\ ReferredBy \in [Users -> Users \cup {NoUser}]
  /\ \A u \in Users : ReferredBy[u] # u
  /\ Price \in Nat \ {0}
  /\ Discount \in 0..100
  /\ CommissionPct \in 0..100
  /\ MaxUses \in Nat
  /\ Gifts \subseteq Nat \ {0}
  /\ MaxEarned \in Nat
  /\ MaxCrashes \in Nat

VARIABLES
  exists,    \* users in users.json
  referrer,  \* referred_by
  balance,   \* referral_balance_usd
  earned,    \* referral_earned_total
  ledger,    \* commission_usd summed over the ledger entries of each referrer
  uses,      \* uses of the promo code
  inv,       \* invoices.json, without the status
  status,    \* the status the process holds for each invoice
  saved,     \* the status in invoices.json
  granted,   \* how often set_plan has added an invoice's plan to its buyer
  extra,     \* how often the promo's bonus days were added for an invoice
  bonuses,   \* how often a buyer brought the referrer REFERRAL_BONUS_DAYS
  act,       \* the activation in progress
  creating,  \* orders whose create-invoice call is awaited
  check,     \* the invoice a poller asks Crypto Bot about
  answer,    \* the answer it has, if any
  provider,  \* the status of each invoice at Crypto Bot
  crashes,
  \* History, read by the properties only.
  reopened,  \* how often an invoice lost its "paid" after its plan was added
  charged,   \* credit spent for each invoice
  doubled    \* users with one credit promised to two open invoices

userVars == <<exists, referrer, balance, earned>>
planVars == <<granted, extra, bonuses>>
pollVars == <<check, answer>>
history == <<reopened, charged, doubled>>
vars == <<userVars, ledger, uses, inv, status, saved, planVars, act,
          creating, pollVars, provider, crashes, history>>

-----------------------------------------------------------------------------
(* Orders, prices and activations.                                         *)

Order(u, a, c, p) == [user |-> u, amount |-> a, credit |-> c, promo |-> p]

NoOrder == Order(NoUser, 0, 0, FALSE)

Orders == [user : Users, amount : 0..Price, credit : 0..Price, promo : BOOLEAN]

\* apply_promo_price, in whole cents.
Discounted(p) == IF p THEN (Price * (100 - Discount) + 50) \div 100 ELSE Price

\* The part of the price the balance covers, when the buyer asks for that.
CreditFor(u, p, wanted) ==
  IF ~wanted THEN 0
  ELSE IF balance[u] < Discounted(p) THEN balance[u] ELSE Discounted(p)

Commission(amount) == (amount * CommissionPct + 50) \div 100

NoAct == [step |-> "idle", inv |-> NoInvoice, first |-> FALSE, payee |-> NoUser, sum |-> 0]

\* No activation is under way: the event loop may run another handler.
Quiet == act.step = "idle"

Created(i) == status[i] # "none"

PaidFor(u) == {i \in Invoices : status[i] = "paid" /\ inv[i].user = u}

\* paid_before is counted here, before any save.
Activate(i, u) == [NoAct EXCEPT !.step = "plan", !.inv = i, !.first = PaidFor(u) = {}]

\* Slips of Begin: no look at the status; or one at the plan's last invoice instead.
BeginAlways(i) == act' = Activate(i, inv[i].user)

BeginOnce(i) ==
  IF status[i] = "paid" \/ granted[i] > 0
  THEN UNCHANGED act
  ELSE act' = Activate(i, inv[i].user)

\* The head of _activate_paid_invoice.
Begin(i) ==
  IF status[i] = "paid"
  THEN UNCHANGED act
  ELSE act' = Activate(i, inv[i].user)

\* Credit of u that an order or an invoice, paid for or payable, still counts on.
Promised(u) ==
  \/ \E q \in Requests : creating[q].user = u /\ creating[q].credit > 0
  \/ \E i \in Invoices : /\ inv[i].user = u
                         /\ inv[i].credit > 0
                         /\ status[i] # "paid"
                         /\ provider[i] # "expired"

-----------------------------------------------------------------------------
(* create_invoice.                                                         *)

\* PromoStore.validate.  A code that was switched off or has expired only takes
\* away choices the buyer has; the one modelled stays valid until it is used up.
PromoValid == MaxUses = 0 \/ uses < MaxUses

Promise(u, credit) ==
  doubled' = IF credit > 0 /\ Promised(u) THEN doubled \cup {u} ELSE doubled

\* Up to the await: the use of the promo and the credit are not reserved.  A
\* price of nothing is charged as one cent.
CreateCall(q, u, p, wanted) ==
  LET credit == CreditFor(u, p, wanted)
      rest == Discounted(p) - credit
  IN
  /\ Quiet
  /\ creating[q] = NoOrder
  /\ u \in exists
  /\ p => PromoValid
  /\ rest > 0 \/ credit = 0
  /\ creating' = [creating EXCEPT ![q] = Order(u, IF rest = 0 THEN 1 ELSE rest, credit, p)]
  /\ Promise(u, credit)
  /\ UNCHANGED <<userVars, ledger, uses, inv, status, saved, planVars, act,
                 pollVars, provider, crashes, reopened, charged>>

\* InvoiceStore.add.
Add(i, order) ==
  /\ ~Created(i)
  /\ inv' = [inv EXCEPT ![i] = order]
  /\ status' = [status EXCEPT ![i] = "active"]
  /\ saved' = [status EXCEPT ![i] = "active"]

\* Crypto Bot has created the invoice and named it.
CreateDone(q, i) ==
  /\ Quiet
  /\ creating[q] # NoOrder
  /\ Add(i, creating[q])
  /\ provider' = [provider EXCEPT ![i] = "active"]
  /\ creating' = [creating EXCEPT ![q] = NoOrder]
  /\ UNCHANGED <<userVars, ledger, uses, planVars, act, pollVars, crashes, history>>

CreateFail(q) ==
  /\ Quiet
  /\ creating[q] # NoOrder
  /\ creating' = [creating EXCEPT ![q] = NoOrder]
  /\ UNCHANGED <<userVars, ledger, uses, inv, status, saved, planVars, act,
                 pollVars, provider, crashes, history>>

\* The balance covers the price: a "refbal-" invoice, which Crypto Bot never
\* hears of, is added and activated at once.
CreateByCredit(i, u, p) ==
  LET credit == CreditFor(u, p, TRUE) IN
  /\ Quiet
  /\ u \in exists
  /\ p => PromoValid
  /\ credit > 0
  /\ Discounted(p) = credit
  /\ Add(i, Order(u, 0, credit, p))
  /\ act' = Activate(i, u)
  /\ Promise(u, credit)
  /\ UNCHANGED <<userVars, ledger, uses, planVars, creating, pollVars,
                 provider, crashes, reopened, charged>>

-----------------------------------------------------------------------------
(* Crypto Bot, the webhook and the polling fallback.                       *)

Pay(i) ==
  /\ Quiet
  /\ provider[i] = "active"
  /\ provider' = [provider EXCEPT ![i] = "paid"]
  /\ UNCHANGED <<userVars, ledger, uses, inv, status, saved, planVars, act,
                 creating, pollVars, crashes, history>>

Expire(i) ==
  /\ Quiet
  /\ provider[i] = "active"
  /\ provider' = [provider EXCEPT ![i] = "expired"]
  /\ UNCHANGED <<userVars, ledger, uses, inv, status, saved, planVars, act,
                 creating, pollVars, crashes, history>>

\* crypto_bot_webhook: invoice_paid, delivered any number of times.
Webhook(i) ==
  /\ Quiet
  /\ provider[i] = "paid"
  /\ Begin(i)
  /\ UNCHANGED <<userVars, ledger, uses, inv, status, saved, planVars,
                 creating, pollVars, provider, crashes, history>>

\* check_invoice up to the await of getInvoices.
CheckCall(k, i) ==
  /\ Quiet
  /\ check[k] = NoInvoice
  /\ Created(i)
  /\ status[i] # "paid"
  /\ inv[i].amount > 0
  /\ check' = [check EXCEPT ![k] = i]
  /\ UNCHANGED <<userVars, ledger, uses, inv, status, saved, planVars, act,
                 creating, answer, provider, crashes, history>>

\* Crypto Bot answers with what the invoice is at that moment.
CheckAnswer(k) ==
  /\ Quiet
  /\ check[k] # NoInvoice
  /\ answer[k] = "none"
  /\ answer' = [answer EXCEPT ![k] = provider[check[k]]]
  /\ UNCHANGED <<userVars, ledger, uses, inv, status, saved, planVars, act,
                 creating, check, provider, crashes, history>>

Answered(k) ==
  /\ check' = [check EXCEPT ![k] = NoInvoice]
  /\ answer' = [answer EXCEPT ![k] = "none"]

\* The rest of check_invoice.  The status the call was made for is not read
\* again before "expired" or "active" is written over it, in memory only.
CheckDone(k) ==
  LET i == check[k] IN
  /\ Quiet
  /\ answer[k] # "none"
  /\ Answered(k)
  /\ IF answer[k] = "paid"
     THEN Begin(i) /\ UNCHANGED <<status, reopened>>
     ELSE /\ status' = [status EXCEPT ![i] = answer[k]]
          /\ reopened' = [reopened EXCEPT ![i] = IF status[i] = "paid" THEN @ + 1 ELSE @]
          /\ UNCHANGED act
  /\ UNCHANGED <<userVars, ledger, uses, inv, saved, planVars, creating,
                 provider, crashes, charged, doubled>>

\* CryptoBotError: no rows.
CheckFail(k) ==
  /\ Quiet
  /\ check[k] # NoInvoice
  /\ answer[k] = "none"
  /\ Answered(k)
  /\ UNCHANGED <<userVars, ledger, uses, inv, status, saved, planVars, act,
                 creating, provider, crashes, history>>

-----------------------------------------------------------------------------
(* The saves of _activate_paid_invoice, in their order.                    *)

Then(step) == act' = [act EXCEPT !.step = step]

Buyer == inv[act.inv].user

\* A slip of GrantPlan: the invoice is marked as paid, and saved, before it.
GrantPlanLate ==
  /\ act.step = "plan"
  /\ IF status[act.inv] = "paid"
     THEN /\ granted' = [granted EXCEPT ![act.inv] = IF Buyer \in exists THEN @ + 1 ELSE @]
          /\ Then(IF inv[act.inv].promo THEN "use" ELSE "spend")
          /\ UNCHANGED <<status, saved>>
     ELSE /\ status' = [status EXCEPT ![act.inv] = "paid"]
          /\ saved' = [status EXCEPT ![act.inv] = "paid"]
          /\ UNCHANGED <<granted, act>>
  /\ UNCHANGED <<userVars, ledger, uses, inv, extra, bonuses, creating, pollVars,
                 provider, crashes, history>>

GrantPlan ==
  /\ act.step = "plan"
  /\ granted' = [granted EXCEPT ![act.inv] = IF Buyer \in exists THEN @ + 1 ELSE @]
  /\ Then(IF inv[act.inv].promo THEN "use" ELSE "mark")
  /\ UNCHANGED <<userVars, ledger, uses, inv, status, saved, extra, bonuses,
                 creating, pollVars, provider, crashes, history>>

ApplyUse ==
  /\ act.step = "use"
  /\ uses' = uses + 1
  /\ Then("extra")
  /\ UNCHANGED <<userVars, ledger, inv, status, saved, planVars,
                 creating, pollVars, provider, crashes, history>>

PromoDays ==
  /\ act.step = "extra"
  /\ extra' = [extra EXCEPT ![act.inv] = IF Buyer \in exists THEN @ + 1 ELSE @]
  /\ Then("mark")
  /\ UNCHANGED <<userVars, ledger, uses, inv, status, saved, granted, bonuses,
                 creating, pollVars, provider, crashes, history>>

\* InvoiceStore.mark_paid; the save writes the status of every invoice.
MarkPaid ==
  /\ act.step = "mark"
  /\ status' = [status EXCEPT ![act.inv] = "paid"]
  /\ saved' = [status EXCEPT ![act.inv] = "paid"]
  /\ Then("spend")
  /\ UNCHANGED <<userVars, ledger, uses, inv, planVars, creating, pollVars,
                 provider, crashes, history>>

\* A slip of Affordable: the whole balance is refused.
AffordableLess(u, sum) == sum < balance[u]

\* spend_referral_credit refuses more than the balance.
Affordable(u, sum) == sum <= balance[u]

\* A refusal is logged and the activation goes on.
SpendCredit ==
  LET sum == inv[act.inv].credit
      paying == Buyer \in exists /\ Affordable(Buyer, sum)
  IN
  /\ act.step = "spend"
  /\ IF paying
     THEN /\ balance' = [balance EXCEPT ![Buyer] = @ - sum]
          /\ charged' = [charged EXCEPT ![act.inv] = @ + sum]
     ELSE UNCHANGED <<balance, charged>>
  /\ Then("reward")
  /\ UNCHANGED <<exists, referrer, earned, ledger, uses, inv, status, saved,
                 planVars, creating, pollVars, provider, crashes, reopened, doubled>>

\* A slip of Credit: the total is forgotten.
CreditBalance(u, sum) ==
  /\ balance' = [balance EXCEPT ![u] = @ + sum]
  /\ UNCHANGED earned

\* add_referral_credit, to the balance and to the total.
Credit(u, sum) ==
  /\ balance' = [balance EXCEPT ![u] = @ + sum]
  /\ earned' = [earned EXCEPT ![u] = @ + sum]

\* apply_referral_rewards: nobody to reward ends the activation.
Reward ==
  LET sum == Commission(inv[act.inv].amount)
      payee == IF Buyer \in exists THEN referrer[Buyer] ELSE NoUser
  IN
  /\ act.step = "reward"
  /\ IF payee = NoUser
     THEN act' = NoAct /\ UNCHANGED <<balance, earned>>
     ELSE IF sum = 0
     THEN Then("bonus") /\ UNCHANGED <<balance, earned>>
     ELSE /\ act' = [act EXCEPT !.step = "entry", !.payee = payee, !.sum = sum]
          /\ Credit(payee, sum)
  /\ UNCHANGED <<exists, referrer, ledger, uses, inv, status, saved, planVars,
                 creating, pollVars, provider, crashes, history>>

\* ReferralLedger.add, after a commission or after a gift.
LedgerEntry ==
  /\ act.step = "entry"
  /\ ledger' = [ledger EXCEPT ![act.payee] = @ + act.sum]
  /\ IF act.inv = NoInvoice THEN act' = NoAct ELSE Then("bonus")
  /\ UNCHANGED <<userVars, uses, inv, status, saved, planVars, creating,
                 pollVars, provider, crashes, history>>

\* The first payment brings the referrer REFERRAL_BONUS_DAYS.
FirstBonus ==
  /\ act.step = "bonus"
  /\ bonuses' = [bonuses EXCEPT ![Buyer] = IF act.first THEN @ + 1 ELSE @]
  /\ act' = NoAct
  /\ UNCHANGED <<userVars, ledger, uses, inv, status, saved, granted, extra,
                 creating, pollVars, provider, crashes, history>>

-----------------------------------------------------------------------------
(* The administrator, and the process.                                     *)

\* admin_grant_referral_credit up to the first of its two saves.
Gift(u, sum) ==
  /\ Quiet
  /\ u \in exists
  /\ earned[u] + sum <= MaxEarned
  /\ Credit(u, sum)
  /\ act' = [NoAct EXCEPT !.step = "entry", !.payee = u, !.sum = sum]
  /\ UNCHANGED <<exists, referrer, ledger, uses, inv, status, saved, planVars,
                 creating, pollVars, provider, crashes, history>>

\* UserStore.delete; the invoices and the ledger stay.
DeleteUser(u) ==
  /\ Quiet
  /\ u \in exists
  /\ exists' = exists \ {u}
  /\ referrer' = [v \in Users |-> IF referrer[v] = u THEN NoUser ELSE referrer[v]]
  /\ UNCHANGED <<balance, earned, ledger, uses, inv, status, saved, planVars,
                 act, creating, pollVars, provider, crashes, history>>

\* The process dies, perhaps inside an activation, and loads the files again.
Crash ==
  /\ crashes < MaxCrashes
  /\ crashes' = crashes + 1
  /\ status' = saved
  /\ reopened' = [i \in Invoices |->
       IF i = act.inv /\ act.step \in {"use", "extra", "mark"}
       THEN reopened[i] + 1 ELSE reopened[i]]
  /\ act' = NoAct
  /\ creating' = [q \in Requests |-> NoOrder]
  /\ check' = [k \in Pollers |-> NoInvoice]
  /\ answer' = [k \in Pollers |-> "none"]
  /\ UNCHANGED <<userVars, ledger, uses, inv, saved, planVars, provider,
                 charged, doubled>>

-----------------------------------------------------------------------------
Init ==
  /\ exists = Users
  /\ referrer = ReferredBy
  /\ balance = [u \in Users |-> 0]
  /\ earned = [u \in Users |-> 0]
  /\ ledger = [u \in Users |-> 0]
  /\ uses = 0
  /\ inv = [i \in Invoices |-> NoOrder]
  /\ status = [i \in Invoices |-> "none"]
  /\ saved = [i \in Invoices |-> "none"]
  /\ granted = [i \in Invoices |-> 0]
  /\ extra = [i \in Invoices |-> 0]
  /\ bonuses = [u \in Users |-> 0]
  /\ act = NoAct
  /\ creating = [q \in Requests |-> NoOrder]
  /\ check = [k \in Pollers |-> NoInvoice]
  /\ answer = [k \in Pollers |-> "none"]
  /\ provider = [i \in Invoices |-> "none"]
  /\ crashes = 0
  /\ reopened = [i \in Invoices |-> 0]
  /\ charged = [i \in Invoices |-> 0]
  /\ doubled = {}

Activation ==
  GrantPlan \/ ApplyUse \/ PromoDays \/ MarkPaid \/ SpendCredit \/ Reward
    \/ LedgerEntry \/ FirstBonus

BuyerNext ==
  \/ \E q \in Requests :
       \/ \E u \in Users, p, wanted \in BOOLEAN : CreateCall(q, u, p, wanted)
       \/ \E i \in Invoices : CreateDone(q, i)
       \/ CreateFail(q)
  \/ \E i \in Invoices, u \in Users, p \in BOOLEAN : CreateByCredit(i, u, p)
  \/ \E i \in Invoices : Pay(i) \/ Expire(i) \/ Webhook(i)
  \/ \E k \in Pollers :
       \/ \E i \in Invoices : CheckCall(k, i)
       \/ CheckAnswer(k) \/ CheckDone(k) \/ CheckFail(k)

AdminNext ==
  \/ \E u \in Users : DeleteUser(u) \/ \E sum \in Gifts : Gift(u, sum)

Next == Activation \/ BuyerNext \/ AdminNext \/ Crash

Spec == Init /\ [][Next]_vars

-----------------------------------------------------------------------------
(* Properties.                                                             *)

\* Types of the variables; no balance is negative.
TypeOK ==
  /\ exists \in SUBSET Users
  /\ referrer \in [Users -> Users \cup {NoUser}]
  /\ balance \in [Users -> Nat]
  /\ earned \in [Users -> Nat]
  /\ ledger \in [Users -> Nat]
  /\ uses \in Nat
  /\ inv \in [Invoices -> Orders \cup {NoOrder}]
  /\ status \in [Invoices -> {"none", "active", "expired", "paid"}]
  /\ saved \in [Invoices -> {"none", "active", "expired", "paid"}]
  /\ granted \in [Invoices -> Nat]
  /\ extra \in [Invoices -> Nat]
  /\ bonuses \in [Users -> Nat]
  /\ act \in [step : {"idle", "plan", "use", "extra", "mark", "spend", "reward", "entry", "bonus"},
             inv : Invoices \cup {NoInvoice}, first : BOOLEAN,
             payee : Users \cup {NoUser}, sum : Nat]
  /\ creating \in [Requests -> Orders \cup {NoOrder}]
  /\ check \in [Pollers -> Invoices \cup {NoInvoice}]
  /\ answer \in [Pollers -> {"none", "active", "expired", "paid"}]
  /\ provider \in [Invoices -> {"none", "active", "expired", "paid"}]
  /\ crashes \in Nat
  /\ reopened \in [Invoices -> Nat]
  /\ charged \in [Invoices -> Nat]
  /\ doubled \in SUBSET Users

\* Whatever save the process dies after, and whatever answer comes late: an
\* invoice that counts as paid, in memory or in the file it will be loaded
\* from, has had its plan and its promo days added, unless its buyer is gone; and
\* promo days are never given without a use of the code having been counted.
PaidIsDelivered ==
  /\ \A i \in Invoices :
       ("paid" \in {status[i], saved[i]} /\ inv[i].user \in exists) =>
          granted[i] > 0 /\ (inv[i].promo => extra[i] > 0)
  /\ FoldFunction(LAMBDA a, b : a + b, 0, extra) <= uses

\* However webhooks and polls overlap, an invoice's plan is added a second time
\* only after the invoice has lost its "paid": to an answer written over it, or
\* to a crash before it was saved; and a buyer brings the referrer the bonus days
\* twice only when an invoice of theirs did.
GrantsExplained ==
  /\ \A i \in Invoices : granted[i] <= 1 + reopened[i]
  /\ \A u \in Users :
       bonuses[u] > 1 => \E i \in Invoices : inv[i].user = u /\ reopened[i] > 0

\* The ledger file never shows a commission or a gift the users file has not
\* credited; unless the process crashed the two agree between handlers.  (The
\* types are part of it.)
LedgerFollowsCredit ==
  /\ TypeOK
  /\ \A u \in Users :
       /\ ledger[u] <= earned[u]
       /\ crashes = 0 /\ Quiet => ledger[u] = earned[u]

\* The discount given for referral credit is taken from the balance, although
\* nothing is reserved while the invoice is open: unless the buyer had the
\* same credit promised to two open invoices, or a "paid" was lost.
CreditPaidFor ==
  \A i \in Invoices :
     LET u == inv[i].user
         settled == /\ status[i] = "paid"
                    /\ ~(act.step = "spend" /\ act.inv = i)
         lost == crashes > 0 \/ \E j \in Invoices : inv[j].user = u /\ reopened[j] > 0
     IN settled /\ u \in exists \ doubled /\ ~lost => charged[i] = inv[i].credit

\* The docstring of apply_referral_rewards: "bonus days on first".
BonusOnFirstOnly == \A u \in Users : bonuses[u] <= 1

=============================================================================
