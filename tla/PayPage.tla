------------------------------ MODULE PayPage ------------------------------
(***************************************************************************)
(* Billing with the page a buyer pays on (frontend/js/profile.js): a dialog *)
(* for the newest invoice, and one timer that asks about it every four     *)
(* seconds, whether or not the last request has been answered.             *)
(***************************************************************************)
EXTENDS Billing

VARIABLE
  page   \* the dialog of each invoice: "none", "open", "told" or "left"

pageVars == <<vars, page>>

\* startPayment: the dialog shows the new invoice, and another one no longer.
Open(i) ==
  page' = [j \in Invoices |->
             IF j = i THEN "open" ELSE IF page[j] = "open" THEN "left" ELSE page[j]]

\* The answer to create-invoice, which may not reach the page.
Create(q, i) ==
  /\ CreateDone(q, i)
  /\ Open(i) \/ UNCHANGED page

\* The timer asks, and has to wait.
Poll(k, i) ==
  /\ page[i] = "open"
  /\ CheckCall(k, i)
  /\ UNCHANGED page

\* pollInvoice has "paid" for an answer: the dialog closes and the timer ends.
Told(i) ==
  /\ Quiet
  /\ page[i] = "open"
  /\ status[i] = "paid"
  /\ page' = [page EXCEPT ![i] = "told"]
  /\ UNCHANGED vars

\* The buyer closes the dialog or the page, or a late "paid" for an earlier invoice
\* closes it.
Close(i) ==
  /\ page[i] = "open"
  /\ page' = [page EXCEPT ![i] = "left"]
  /\ UNCHANGED vars

Asked(i) == Told(i) \/ \E k \in Pollers : Poll(k, i)

-----------------------------------------------------------------------------
PageInit == Init /\ page = [i \in Invoices |-> "none"]

SiteNext ==
  \/ Activation \/ AdminNext \/ Crash
  \/ \E q \in Requests :
       \/ \E u \in Users, p, wanted \in BOOLEAN : CreateCall(q, u, p, wanted)
       \/ CreateFail(q)
  \/ \E i \in Invoices, u \in Users, p \in BOOLEAN : CreateByCredit(i, u, p)
  \/ \E i \in Invoices : Pay(i) \/ Expire(i) \/ Webhook(i)
  \/ \E k \in Pollers : CheckAnswer(k) \/ CheckDone(k) \/ CheckFail(k)

PageNext ==
  \/ SiteNext /\ UNCHANGED page
  \/ \E q \in Requests, i \in Invoices : Create(q, i)
  \/ \E i \in Invoices : Asked(i) \/ Close(i)

PageSpec == PageInit /\ [][PageNext]_pageVars

\* While its dialog is open the timer asks about the invoice again and again, every
\* call ends and Crypto Bot answers some of them, and the event loop runs what is ready.
Fairness ==
  /\ WF_vars(Activation)
  /\ \A k \in Pollers : SF_vars(CheckDone(k)) /\ SF_vars(CheckAnswer(k) \/ CheckFail(k))
  /\ \A i \in Invoices : /\ SF_pageVars(Asked(i))
                         /\ SF_vars(\E k \in Pollers : check[k] = i /\ CheckAnswer(k))

FairSpec == PageSpec /\ Fairness

-----------------------------------------------------------------------------
(* Properties.                                                             *)

\* "So webhook + polling fallback both work": without a webhook, over calls that
\* fail, answers that come late and a crash of the site, a buyer who has paid and
\* leaves the dialog open is told so, and has the plan.
PollingDelivers ==
  \A i \in Invoices :
     provider[i] = "paid" /\ page[i] = "open" ~>
        \/ inv[i].user \notin exists
        \/ page[i] = "left"
        \/ page[i] = "told" /\ granted[i] > 0

=============================================================================
