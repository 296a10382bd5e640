------------------------------ MODULE PixOrders ------------------------------
(***************************************************************************)
(* What the assistant promises about money, without graph, state or        *)
(* checkpoints: users open requests in conversations, a request may order  *)
(* one payment, and what its user is told of it is true.  PixGraph         *)
(* implements this specification (PixRefinement).                          *)
(***************************************************************************)
EXTENDS Naturals

CONSTANTS
    NONE,
    Requests,
    Threads,     \* conversations
    Payees,
    Amounts,
    Messages,
    PayeesIn,    \* [Messages -> SUBSET Payees]: whom a message names
    AmountsIn,   \* [Messages -> SUBSET Amounts]: the amounts it gives
    Price        \* [Payees -> the payee's own amount, or NONE]

VARIABLES
    phase,          \* [Requests -> "idle", "open", "answered" or "lost"]
    conversation,   \* [Requests -> its thread]
    order,          \* [Requests -> its message]
    payment,        \* [Requests -> the latest payment sent for it]
    told            \* [Requests -> what its user reads of a payment]

vars == <<phase, conversation, order, payment, told>>

NoPayment == [tries |-> 0, payee |-> NONE, amount |-> NONE, outcome |-> "none",
              debited |-> FALSE]
Outcomes  == {"confirmed", "refused", "unknown"}
Reports   == {"success", "failure", "refused", "nothing"}

Init ==
    /\ phase = [r \in Requests |-> "idle"]
    /\ conversation = [r \in Requests |-> NONE]
    /\ order = [r \in Requests |-> NONE]
    /\ payment = [r \in Requests |-> NoPayment]
    /\ told = [r \in Requests |-> "nothing"]

(* A user says something in a conversation *)
Open(r, t, m) ==
    /\ phase[r] = "idle"
    /\ phase' = [phase EXCEPT ![r] = "open"]
    /\ conversation' = [conversation EXCEPT ![r] = t]
    /\ order' = [order EXCEPT ![r] = m]
    /\ UNCHANGED <<payment, told>>

(* Payee and amount come from the conversation; a price comes with its payee *)
Saying(t)        == {by \in Requests : phase[by] # "idle" /\ conversation[by] = t}
Ordered(r, p, a) ==
    /\ \E by \in Saying(conversation[r]) : p \in PayeesIn[order[by]]
    /\ \/ Price[p] = a
       \/ \E by \in Saying(conversation[r]) : a \in AmountsIn[order[by]]

(* One payment, and another attempt at it only if the bank refused it *)
Payable(r, p, a) ==
    \/ payment[r].tries = 0
    \/ /\ payment[r].outcome = "refused"
       /\ payment[r].payee = p /\ payment[r].amount = a

Pay(r) ==
    /\ phase[r] = "open"
    /\ payment'[r].tries = payment[r].tries + 1
    /\ \E p \in Payees, a \in Amounts, outcome \in Outcomes, debited \in BOOLEAN :
         /\ Payable(r, p, a)
         /\ Ordered(r, p, a)
         /\ outcome = "confirmed" => debited
         /\ outcome = "refused" => ~debited
         /\ payment' = [payment EXCEPT ![r] =
                [tries |-> @.tries + 1, payee |-> p, amount |-> a,
                 outcome |-> outcome, debited |-> debited]]
    /\ UNCHANGED <<phase, conversation, order, told>>

(* A payment is told as it was confirmed; an order that is refused is not paid *)
TrueReport(r, report) ==
    /\ report = "success" => payment[r].outcome = "confirmed"
    /\ report = "failure" => payment[r].outcome # "confirmed"
    /\ report = "refused" => payment[r].tries = 0

Answer(r, report) ==
    /\ phase[r] = "open"
    /\ TrueReport(r, report)
    /\ phase' = [phase EXCEPT ![r] = "answered"]
    /\ told' = [told EXCEPT ![r] = report]
    /\ UNCHANGED <<conversation, order, payment>>

(* The process dies: no open request is answered or paid for any more *)
Lose ==
    /\ \E r \in Requests : phase[r] = "open"
    /\ phase' = [r \in Requests |-> IF phase[r] = "open" THEN "lost" ELSE phase[r]]
    /\ UNCHANGED <<conversation, order, payment, told>>

Next ==
    \/ \E r \in Requests, t \in Threads, m \in Messages : Open(r, t, m)
    \/ \E r \in Requests : Pay(r)
    \/ \E r \in Requests, report \in Reports : Answer(r, report)
    \/ Lose

Spec == Init /\ [][Next]_vars
=============================================================================
