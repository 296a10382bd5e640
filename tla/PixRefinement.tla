--------------------------- MODULE PixRefinement ---------------------------
(***************************************************************************)
(* PixGraph implements PixOrders: the nodes, snapshots and checkpoints of  *)
(* the conversation graph, seen through what was ordered, sent to the bank *)
(* and told.                                                               *)
(***************************************************************************)
EXTENDS PixProperties

PhaseOf(step) ==
    CASE step = "idle"    -> "idle"
      [] step = "done"    -> "answered"
      [] step = "crashed" -> "lost"
      [] OTHER            -> "open"

PayeesIn  == [m \in Messages |-> {m.brcode, m.pix_key} \ {NONE}]
AmountsIn == [m \in Messages |-> {m.amount, m.numeral} \ {NONE}]
Price     == [x \in Sources |-> IF x \in QRs THEN BankQR[x].amount ELSE NONE]

(* What the bank accepts is confirmed; only a 4xx excludes that money moved *)
OutcomeOf(reply) ==
    CASE Accepted(reply)    -> "confirmed"
      [] reply \in 400..499 -> "refused"
      [] OTHER              -> "unknown"

PaymentOf(sent) ==
    LET last == sent[Len(sent)]
    IN  IF sent = << >>
        THEN [tries |-> 0, payee |-> NONE, amount |-> NONE, outcome |-> "none",
              debited |-> FALSE]
        ELSE [tries |-> Len(sent), payee |-> last.payload.beneficiary,
              amount |-> last.payload.amount, outcome |-> OutcomeOf(last.reply),
              debited |-> last.debited]

ReportOf(a) ==
    CASE MovesMoney(a) /\ a.outcome = "success" -> "success"
      [] MovesMoney(a) /\ a.outcome = "error"   -> "failure"
      [] a.kind = "refused"                     -> "refused"
      [] OTHER                                  -> "nothing"

(* An answer is read when the request is over *)
Phases   == [r \in Requests |-> PhaseOf(pc[r])]
Payments == [r \in Requests |-> PaymentOf(transfers[r])]
Reported == [r \in Requests |-> IF pc[r] = "done" THEN ReportOf(answer[r])
                                                 ELSE "nothing"]

Orders == INSTANCE PixOrders WITH
    Payees <- Sources, phase <- Phases, conversation <- thread, order <- msg,
    payment <- Payments, told <- Reported

(* Whatever the interleaving of requests, nodes, checkpoints and crashes:  *)
(* a request pays what its conversation named, tries again only what was   *)
(* refused, pays nothing after it was answered or lost, and its answer is  *)
(* true of the payment.                                                    *)
ImplementsOrders == Orders!Spec
=============================================================================
