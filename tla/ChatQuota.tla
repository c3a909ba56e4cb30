----------------------------- MODULE ChatQuota -----------------------------
(***************************************************************************)
(* What the sending loops promise of a chat with a message limit, whoever  *)
(* sends and however the senders are started, cancelled and replaced: a    *)
(* send begins only at an enabled chat below its limit, each send that     *)
(* comes back is counted once and nothing else is, the last one disables   *)
(* the chat, and only the operator enables one or starts its count anew.   *)
(***************************************************************************)
EXTENDS Naturals

CONSTANTS Lists,    \* lists of chats, one for each state of the slot
          Chats,
          Senders,
          Limits    \* limits an operator may set; 0 for none

VARIABLES chat,     \* chat[o][c]: [enabled, limit, sent]
          sending   \* sending[o][c]: the senders with a send under way

vars == <<chat, sending>>

Open(k) == k.enabled /\ (k.limit = 0 \/ k.sent < k.limit)

Init ==
  /\ chat = [o \in Lists |-> [c \in Chats |-> [enabled |-> FALSE, limit |-> 0, sent |-> 0]]]
  /\ sending = [o \in Lists |-> [c \in Chats |-> {}]]

Begin(o, c, s) ==
  /\ Open(chat[o][c])
  /\ s \notin sending[o][c]
  /\ sending' = [sending EXCEPT ![o][c] = @ \cup {s}]
  /\ UNCHANGED chat

\* One send more; the chat stays enabled if yet another may follow.
Recorded(k) ==
  LET n == [k EXCEPT !.sent = @ + 1]
  IN  IF Open(n) THEN n ELSE [n EXCEPT !.enabled = FALSE]

\* The send came back.
Finish(o, c, s) ==
  /\ s \in sending[o][c]
  /\ sending' = [sending EXCEPT ![o][c] = @ \ {s}]
  /\ chat' = [chat EXCEPT ![o][c] = Recorded(@)]

\* The send failed, or its sender was cancelled: it is not counted.
Drop(o, c, s) ==
  /\ s \in sending[o][c]
  /\ sending' = [sending EXCEPT ![o][c] = @ \ {s}]
  /\ \/ UNCHANGED chat
     \/ chat' = [chat EXCEPT ![o][c].enabled = FALSE]

\* A sender finds the chat at its limit.
Close(o, c) ==
  /\ chat' = [chat EXCEPT ![o][c].enabled = FALSE]
  /\ UNCHANGED sending

\* The operator edits a list: any switches and limits, counts kept or begun anew.
Edit(o) ==
  /\ \E e \in [Chats -> BOOLEAN], l \in [Chats -> Limits], Z \in SUBSET Chats :
       chat' = [chat EXCEPT ![o] = [c \in Chats |->
                  [enabled |-> e[c], limit |-> l[c],
                   sent |-> IF c \in Z THEN 0 ELSE chat[o][c].sent]]]
  /\ UNCHANGED sending

\* The process is replaced: no send is under way, a list is kept or lost whole.
Restart ==
  /\ \E K \in SUBSET Lists :
       chat' = [o \in Lists |->
                  IF o \in K THEN chat[o]
                  ELSE [c \in Chats |-> [enabled |-> FALSE, limit |-> 0, sent |-> 0]]]
  /\ sending' = [o \in Lists |-> [c \in Chats |-> {}]]

Next ==
  \/ \E o \in Lists, c \in Chats :
       \/ Close(o, c)
       \/ \E s \in Senders : Begin(o, c, s) \/ Finish(o, c, s) \/ Drop(o, c, s)
  \/ \E o \in Lists : Edit(o)
  \/ Restart

Spec == Init /\ [][Next]_vars

=============================================================================
