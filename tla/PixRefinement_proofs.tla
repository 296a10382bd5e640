------------------------- MODULE PixRefinement_proofs -------------------------
(***************************************************************************)
(* Proof, for every value of the constants, that the conversation graph    *)
(* implements PixOrders.                                                   *)
(***************************************************************************)
EXTENDS PixRefinement, PixAmount_proofs

(***************************************************************************)
(* Two facts about answers that the other invariants do not need: an       *)
(* answer that was read does not change any more, since its checkpoints    *)
(* were written before, and a refused message has paid nothing.            *)
(***************************************************************************)
AnswerInv ==
    /\ \A r \in Requests : pc[r] = "done" => ~unsaved[r]
    /\ \A r \in Requests : answer[r].kind = "refused" => transfers[r] = << >>

OrdersInv == PaymentInv /\ ReportInv /\ AnswerInv

-----------------------------------------------------------------------------
(* A step of r keeps it at work, or is its reply, or leaves it where it is. *)
LEMMA StepMoves ==
  ASSUME TypeOK, NEW r \in Requests, Step(r)
  PROVE  \/ Reply(r)
         \/ SaveCheckpoint(r)
         \/ /\ pc[r] \in Steps /\ pc'[r] \in Steps
            /\ \A o \in Requests \ {r} : unsaved'[o] = unsaved[o]
<1>1. Nodes \subseteq Steps
  BY DEF Steps
<1>a. ASSUME NEW s, NEW next \in Nodes, NodeReturns(r, s, next)
      PROVE  pc'[r] \in Steps /\ \A o \in Requests \ {r} : unsaved'[o] = unsaved[o]
  BY <1>1, <1>a DEF NodeReturns, Goto, TypeOK
<1>b. ASSUME NEW w, NEW next \in Steps, Continue(r, w, next)
      PROVE  pc'[r] \in Steps /\ \A o \in Requests \ {r} : unsaved'[o] = unsaved[o]
  BY <1>b DEF Continue, Goto, TypeOK
<1>c. ASSUME NEW s, ActionReturns(r, s)
      PROVE  pc'[r] \in Steps /\ \A o \in Requests \ {r} : unsaved'[o] = unsaved[o]
  BY <1>a, <1>c DEF ActionReturns, Nodes
<1>d. ASSUME UseFallback(r), pc[r] \in Steps
      PROVE  pc'[r] \in Steps /\ \A o \in Requests \ {r} : unsaved'[o] = unsaved[o]
  BY <1>d DEF UseFallback
<1>2. CASE GuardrailBlocks(r) \/ GuardrailPasses(r)
  BY <1>1, <1>a, <1>2 DEF GuardrailBlocks, GuardrailPasses, Nodes
<1>3. CASE GuardrailFails(r) \/ BlockedResponse(r) \/ ChatResponse(r)
  BY <1>1, <1>3 DEF GuardrailFails, BlockedResponse, ChatResponse, Goto, TypeOK,
                    Nodes, Steps
<1>4. CASE ResolveAmount(r) \/ Classify(r) \/ ClassifyFails(r)
  BY <1>1, <1>a, <1>4, RouteType DEF ResolveAmount, Classify, ClassifyFails, Nodes
<1>5. CASE Fallback(r) \/ ListKeys(r) \/ ReadKey(r) \/ BRCodePreview(r)
  <2>1. pc[r] \in Steps
    BY <1>1, <1>5 DEF Fallback, ListKeys, ReadKey, BRCodePreview, Nodes
  <2> QED
    BY <1>c, <1>d, <1>5, <2>1
       DEF Fallback, ListKeys, ReadKey, BRCodePreview, Query, RejectQuery
<1>6. CASE Payment(r)
  <2>1. pc[r] \in Steps
    BY <1>1, <1>6 DEF Payment, PaymentContinues, PaymentStarts, PaymentPreview,
       PayFixed, PayCustom, RefuseUnpayable, AskAmount, UnknownAmountType, Payable,
       Nodes, Steps
  <2>2. {"withdraw", "paymentPreview", "resolveAmount"} \subseteq Steps
    BY DEF Steps
  <2> QED
    BY <1>b, <1>c, <1>d, <1>6, <2>1, <2>2
       DEF Payment, PaymentContinues, PaymentStarts, PaymentPreview, PayFixed,
           PayCustom, RefuseUnpayable, AskAmount, UnknownAmountType
<1>7. CASE PixWithdraw(r) \/ Withdraw(r)
  <2>1. pc[r] \in Steps
    BY <1>1, <1>7 DEF PixWithdraw, Withdraw, Enrich, Lookup, Validate, Transfer,
                      Nodes, Steps
  <2>2. {"withdraw", "lookup", "validate", "transfer"} \subseteq Steps
    BY DEF Steps
  <2>3. CASE PixWithdraw(r) \/ Enrich(r) \/ Lookup(r)
    BY <1>b, <2>1, <2>2, <2>3 DEF PixWithdraw, Enrich, Lookup
  <2>4. CASE Validate(r)
    BY <1>b, <1>c, <2>1, <2>2, <2>4 DEF Validate
  <2>5. CASE Transfer(r)
    BY <1>c, <1>d, <2>1, <2>5 DEF Transfer, TransferReturns
  <2> QED
    BY <1>7, <2>3, <2>4, <2>5 DEF Withdraw
<1> QED
  BY <1>2, <1>3, <1>4, <1>5, <1>6, <1>7 DEF Step

LEMMA AnswerInit == Init => AnswerInv
  BY DEF Init, AnswerInv

LEMMA AnswerNext == PaymentInv /\ AnswerInv /\ [Next]_vars => AnswerInv'
<1> SUFFICES ASSUME TypeInv, TypeOK, TransferInv, NamesInv, AnswerInv, [Next]_vars
             PROVE  AnswerInv'
  BY DEF PaymentInv, TypeInv
<1>1. ASSUME NEW r \in Requests, NEW t \in Threads, NEW m \in Messages,
             Receive(r, t, m)
      PROVE  AnswerInv'
  BY <1>1 DEF Receive, Goto, AnswerInv, TypeOK
<1>2. ASSUME NEW r \in Requests, Step(r) PROVE AnswerInv'
  <2>1. Advances(r)
    BY <1>2, StepAdvances
  <2>2. \A o \in Requests : pc'[o] = "done" => ~unsaved'[o]
    <3>1. CASE Reply(r)
      BY <3>1 DEF Reply, Goto, AnswerInv, TypeOK
    <3>2. CASE SaveCheckpoint(r)
      BY <3>2 DEF SaveCheckpoint, AnswerInv, TypeOK
    <3>3. CASE pc'[r] \in Steps /\ \A o \in Requests \ {r} : unsaved'[o] = unsaved[o]
      BY <2>1, <3>3 DEF Advances, Others, AnswerInv, Steps, Nodes
    <3> QED
      BY <1>2, <3>1, <3>2, <3>3, StepMoves
  <2>3. ASSUME NEW o \in Requests, answer'[o].kind = "refused"
        PROVE  transfers'[o] = << >>
    <3>1. CASE transfers'[o] # transfers[o]
      <4>1. o = r /\ pc[r] = "transfer"
        BY <1>2, <3>1, OnlyTransferSends DEF Transfer
      <4>2. answer[r].kind # "refused"
        BY <4>1 DEF NamesInv, Passed, Unchecked, AnswersNext
      <4> QED
        BY <2>1, <2>3, <4>1, <4>2 DEF Advances
    <3>2. CASE transfers'[o] = transfers[o]
      <4>1. CASE answer[o].kind = "refused"
        BY <3>2, <4>1 DEF AnswerInv
      <4>2. CASE answer[o].kind # "refused"
        BY <2>1, <2>3, <3>2, <4>2
           DEF Advances, Others, TransferInv, Before, Steps, Nodes
      <4> QED
        BY <4>1, <4>2
    <3> QED
      BY <3>1, <3>2
  <2> QED
    BY <2>2, <2>3 DEF AnswerInv
<1>3. ASSUME NEW r \in Requests, SaveFails(r) PROVE AnswerInv'
  BY <1>3 DEF SaveFails, Draft, Answer, AnswerInv, TypeOK
<1>4. CASE Crash
  BY <1>4 DEF Crash, Running, NoAnswer, Answer, AnswerInv, TypeOK
<1>5. CASE UNCHANGED vars \/ \E q \in QRs : QRStatusChanges(q)
  BY <1>5 DEF vars, QRStatusChanges, AnswerInv
<1> QED
  BY <1>1, <1>2, <1>3, <1>4, <1>5 DEF Next, Quiescent

LEMMA OrdersInitInv == Init => OrdersInv
  BY PaymentInit, ReportInit, AnswerInit DEF OrdersInv

LEMMA OrdersNextInv == OrdersInv /\ [Next]_vars => OrdersInv'
  BY PaymentNext, ReportNext, AnswerNext DEF OrdersInv, PaymentInv

-----------------------------------------------------------------------------
(* How the parts of a step look to PixOrders *)
LEMMA PhaseFacts ==
  /\ \A x \in Steps : PhaseOf(x) = "open"
  /\ PhaseOf("idle") = "idle" /\ PhaseOf("done") = "answered"
  /\ PhaseOf("crashed") = "lost"
  BY DEF PhaseOf, Steps, Nodes

LEMMA PaymentFacts ==
  ASSUME NEW sent \in Seq(Attempt)
  PROVE  /\ PaymentOf(sent).tries = Len(sent)
         /\ sent = << >> => PaymentOf(sent).outcome = "none"
         /\ sent # << >> =>
              /\ Len(sent) \in DOMAIN sent
              /\ PaymentOf(sent).payee = sent[Len(sent)].payload.beneficiary
              /\ PaymentOf(sent).amount = sent[Len(sent)].payload.amount
              /\ PaymentOf(sent).outcome = OutcomeOf(sent[Len(sent)].reply)
  BY DEF PaymentOf

LEMMA OutcomeFacts ==
  /\ \A reply \in Replies : OutcomeOf(reply) \in Orders!Outcomes
  /\ \A reply \in Replies : OutcomeOf(reply) = "confirmed" <=> Accepted(reply)
  /\ \A reply \in Replies : OutcomeOf(reply) = "refused" <=> reply \in 400..499
  BY RepliesAssumption DEF OutcomeOf, Accepted, Orders!Outcomes

(* The confirmed transfer of a request is its last. *)
LEMMA LastConfirmed ==
  ASSUME NEW sent \in Seq(Attempt), NEW i \in DOMAIN sent, Accepted(sent[i].reply),
         \A j \in DOMAIN sent : j > 1 => j = 2 /\ sent[1].reply \in TransferRetryable
  PROVE  i = Len(sent) /\ sent # << >>
<1>1. i \in 1..Len(sent) /\ Len(sent) \in Nat /\ DOMAIN sent = 1..Len(sent)
  OBVIOUS
<1>2. Len(sent) \in DOMAIN sent
  BY <1>1
<1>3. Len(sent) > 1 => Len(sent) = 2 /\ sent[1].reply \in TransferRetryable
  BY <1>1, <1>2
<1>4. \A reply \in TransferRetryable : ~Accepted(reply)
  BY DEF TransferRetryable, Accepted
<1>5. i = Len(sent)
  BY <1>1, <1>3, <1>4
<1> QED
  BY <1>1, <1>5

LEMMA InitImplements == Init => Orders!Init
<1> SUFFICES ASSUME Init PROVE Orders!Init
  OBVIOUS
<1>1. /\ Phases = [r \in Requests |-> "idle"]
      /\ Reported = [r \in Requests |-> "nothing"]
      /\ Payments = [r \in Requests |-> Orders!NoPayment]
  BY DEF Init, Phases, PhaseOf, Reported, Payments, PaymentOf, Orders!NoPayment
<1> QED
  BY <1>1 DEF Init, Orders!Init

LEMMA ReceiveImplements ==
  ASSUME TypeOK, NEW r \in Requests, NEW t \in Threads, NEW m \in Messages,
         Receive(r, t, m)
  PROVE  Orders!Open(r, t, m)
<1>1. \A o \in Requests : pc'[o] = IF o = r THEN "guardrail" ELSE pc[o]
  BY DEF Receive, Goto, TypeOK
<1>2. pc[r] = "idle" /\ UNCHANGED <<answer, transfers>>
      /\ thread' = [thread EXCEPT ![r] = t] /\ msg' = [msg EXCEPT ![r] = m]
  BY DEF Receive
<1>3. PhaseOf("guardrail") = "open"
  BY PhaseFacts DEF Steps, Nodes
<1>4. Phases[r] = "idle" /\ Phases' = [Phases EXCEPT ![r] = "open"]
  BY <1>1, <1>2, <1>3, PhaseFacts DEF Phases
<1>5. Payments' = Payments /\ Reported' = Reported
  BY <1>1, <1>2 DEF Payments, Reported
<1> QED
  BY <1>2, <1>4, <1>5 DEF Orders!Open

(* A reply tells the truth of the latest payment. *)
LEMMA ReplyImplements ==
  ASSUME TypeOK, OrdersInv, NEW r \in Requests, Reply(r)
  PROVE  \E report \in Orders!Reports : Orders!Answer(r, report)
<1> DEFINE report == ReportOf(answer[r])
<1>1. /\ \A o \in Requests : pc'[o] = IF o = r THEN "done" ELSE pc[o]
      /\ pc[r] = "reply" /\ UNCHANGED <<thread, msg, answer, transfers>>
  BY DEF Reply, Goto, TypeOK
<1>2. PhaseOf("reply") = "open"
  BY PhaseFacts DEF Steps
<1>3. Phases[r] = "open" /\ Phases' = [Phases EXCEPT ![r] = "answered"]
  BY <1>1, <1>2, PhaseFacts DEF Phases
<1>4. Reported' = [Reported EXCEPT ![r] = report]
  BY <1>1 DEF Reported
<1>5. Payments' = Payments /\ Payments[r] = PaymentOf(transfers[r])
  BY <1>1 DEF Payments
<1>6. report \in Orders!Reports
  BY DEF ReportOf, Orders!Reports
<1>7. Orders!TrueReport(r, report)
  <2>1. transfers[r] \in Seq(Attempt) /\ \A i \in DOMAIN transfers[r] :
          transfers[r][i].reply \in Replies
    <3>1. transfers[r] \in Seq(Attempt)
      BY DEF TypeOK
    <3>2. \A i \in DOMAIN transfers[r] : transfers[r][i] \in Attempt
      BY <3>1
    <3> QED
      BY <3>1, <3>2 DEF Attempt
  <2>2. Honest(r, answer[r], transfers[r]) /\ FallbackOnlyAfterRefusal
    BY DEF OrdersInv, ReportInv, Report, PaymentInv, TransferInv
  <2>3. CASE report = "success"
    <3>1. MovesMoney(answer[r]) /\ answer[r].outcome = "success"
      BY <2>3 DEF ReportOf
    <3>2. PICK i \in DOMAIN transfers[r] : Accepted(transfers[r][i].reply)
      BY <2>2, <3>1 DEF Honest, Confirmed
    <3>3. i = Len(transfers[r]) /\ transfers[r] # << >>
      BY <2>1, <2>2, <3>2, LastConfirmed DEF FallbackOnlyAfterRefusal
    <3>4. Payments[r].outcome = "confirmed"
      BY <1>5, <2>1, <3>2, <3>3, PaymentFacts, OutcomeFacts
    <3> QED
      BY <2>3, <3>4 DEF Orders!TrueReport
  <2>4. CASE report = "failure"
    <3>1. \A i \in DOMAIN transfers[r] : ~Accepted(transfers[r][i].reply)
      BY <2>2, <2>4 DEF ReportOf, Honest, Confirmed
    <3>2. Payments[r].outcome # "confirmed"
      BY <1>5, <2>1, <3>1, PaymentFacts, OutcomeFacts
    <3> QED
      BY <2>4, <3>2 DEF Orders!TrueReport
  <2>5. CASE report = "refused"
    <3>1. transfers[r] = << >>
      BY <2>5 DEF ReportOf, OrdersInv, AnswerInv
    <3>2. Payments[r].tries = 0
      BY <1>5, <3>1 DEF PaymentOf
    <3> QED
      BY <2>5, <3>2 DEF Orders!TrueReport
  <2> QED
    BY <2>3, <2>4, <2>5 DEF Orders!TrueReport
<1> HIDE DEF report
<1> QED
  BY <1>1, <1>3, <1>4, <1>5, <1>6, <1>7 DEF Orders!Answer

(* A transfer pays what the conversation ordered, and again only what was  *)
(* refused.                                                                *)
LEMMA TransferOrdered ==
  ASSUME TypeOK, OrdersInv, NEW r \in Requests, pc[r] = "transfer"
  PROVE  /\ work[r].withdraw_beneficiary \in Sources
         /\ work[r].withdraw_amount \in Amounts
         /\ Orders!Ordered(r, work[r].withdraw_beneficiary, work[r].withdraw_amount)
<1> DEFINE p == work[r].withdraw_beneficiary
           a == work[r].withdraw_amount
<1>1. p \in Sources /\ a \in Amounts
  <2>1. p # NONE /\ a # NONE
    BY DEF OrdersInv, PaymentInv, CoherenceInv, ValidTransfer, ValidAmount
  <2>2. p \in Optional(Sources) /\ a \in Optional(Amounts)
    BY DEF TypeOK, GraphState
  <2> QED
    BY <2>1, <2>2 DEF Optional
<1>2. p # NONE /\ a # NONE
  BY <1>1, NONEIsNoData
<1>3. \A by \in Requests : pc[by] \notin Unchecked => Phases[by] # "idle"
  BY DEF Phases, PhaseOf, TypeOK, Unchecked, Steps, Nodes, Ended
<1>4. \A by \in Requests : pc[by] \notin Unchecked => msg[by] \in Messages
  BY DEF TypeOK, Unchecked
<1>5. \E by \in Orders!Saying(thread[r]) : p \in PayeesIn[msg[by]]
  <2>1. Named(thread[r], p)
    BY <1>2 DEF OrdersInv, PaymentInv, NamesInv, Held, Refs
  <2> QED
    BY <1>2, <1>3, <1>4, <2>1 DEF Named, Said, PayeesIn, Orders!Saying
<1>6. \/ Price[p] = a
      \/ \E by \in Orders!Saying(thread[r]) : a \in AmountsIn[msg[by]]
  <2>1. PricedBy(p, a) \/ Offered(thread[r], a)
    BY <1>2 DEF OrdersInv, PaymentInv, AmountInv, Priced
  <2>2. CASE PricedBy(p, a)
    BY <1>1, <2>2 DEF PricedBy, Price
  <2>3. CASE Offered(thread[r], a)
    BY <1>2, <1>3, <1>4, <2>3 DEF Offered, Offers, AmountsIn, Orders!Saying
  <2> QED
    BY <2>1, <2>2, <2>3
<1> HIDE DEF p, a
<1>7. Orders!Ordered(r, p, a)
  BY <1>5, <1>6 DEF Orders!Ordered
<1> QED
  BY <1>1, <1>7 DEF p, a

LEMMA TransferImplements ==
  ASSUME TypeOK, OrdersInv, NEW r \in Requests, Transfer(r)
  PROVE  Orders!Pay(r)
<1> DEFINE p == work[r].withdraw_beneficiary
           a == work[r].withdraw_amount
<1>1. PICK reply \in Replies, debited \in BOOLEAN :
        /\ MayDebit(reply, debited)
        /\ transfers' = [transfers EXCEPT ![r] =
             Append(@, [account |-> account[r], payload |-> Payload(work[r]),
                        reply |-> reply, debited |-> debited])]
        /\ TransferReturns(r, reply)
  BY DEF Transfer
<1>2. /\ pc[r] = "transfer" /\ UNCHANGED <<thread, msg, answer>>
      /\ \A o \in Requests :
           pc'[o] = pc[o] \/ (o = r /\ pc'[o] = "chatResponse")
  <2>1. pc[r] = "transfer"
    BY DEF Transfer
  <2>2. (\E s : ActionReturns(r, s)) \/ UseFallback(r)
    BY <1>1 DEF TransferReturns
  <2>3. ASSUME NEW s, ActionReturns(r, s)
        PROVE  /\ UNCHANGED <<thread, msg, answer>>
               /\ pc' = [pc EXCEPT ![r] = "chatResponse"]
    BY <2>3 DEF ActionReturns, NodeReturns, Goto
  <2>4. ASSUME UseFallback(r) PROVE UNCHANGED <<pc, thread, msg, answer>>
    BY <2>4 DEF UseFallback
  <2>5. CASE UseFallback(r)
    BY <2>1, <2>4, <2>5
  <2>6. CASE \E s : ActionReturns(r, s)
    BY <2>1, <2>3, <2>6 DEF TypeOK
  <2> QED
    BY <2>2, <2>5, <2>6
<1> DEFINE new  == [account |-> account[r], payload |-> Payload(work[r]),
                    reply |-> reply, debited |-> debited]
           sent == transfers[r]
           paid == [tries |-> Len(sent) + 1, payee |-> p, amount |-> a,
                    outcome |-> OutcomeOf(reply), debited |-> debited]
<1>3. PhaseOf("transfer") = "open" /\ PhaseOf("chatResponse") = "open"
  BY PhaseFacts DEF Steps, Nodes
<1>4. Phases' = Phases /\ Phases[r] = "open" /\ Reported' = Reported
  BY <1>2, <1>3 DEF Phases, Reported
<1>5. sent \in Seq(Attempt) /\ Len(sent) \in Nat
  BY DEF TypeOK
<1>6. Payments[r].tries = Len(sent) /\ Payments[r] = PaymentOf(sent)
  BY <1>5, PaymentFacts DEF Payments
<1>7. Payments' = [Payments EXCEPT ![r] = paid]
  <2>1. \A o \in Requests : transfers'[o] = IF o = r THEN Append(sent, new) ELSE transfers[o]
    BY <1>1 DEF TypeOK
  <2>2. PaymentOf(Append(sent, new)) = paid
    <3>1. /\ Append(sent, new) # << >>
          /\ Len(Append(sent, new)) = Len(sent) + 1
          /\ Append(sent, new)[Len(sent) + 1] = new
      BY <1>5
    <3>2. /\ new.payload.beneficiary = p /\ new.payload.amount = a
          /\ new.reply = reply /\ new.debited = debited
      BY DEF Payload
    <3> HIDE DEF new
    <3> QED
      BY <3>1, <3>2 DEF PaymentOf
  <2> HIDE DEF new, paid
  <2> QED
    BY <2>1, <2>2 DEF Payments
<1>8. Orders!Payable(r, p, a)
  <2>1. CASE account[r] = "primary"
    <3>1. sent = << >>
      BY <1>2, <2>1 DEF OrdersInv, PaymentInv, TransferInv
    <3> QED
      BY <1>6, <3>1 DEF Orders!Payable, PaymentOf
  <2>2. CASE account[r] # "primary"
    <3>1. PrimaryRefused(r)
      BY <1>2, <2>2 DEF OrdersInv, PaymentInv, TransferInv
    <3>2. /\ sent # << >> /\ Len(sent) = 1
          /\ sent[1].reply \in TransferRetryable
          /\ sent[1].payload.beneficiary = p /\ sent[1].payload.amount = a
      BY <1>5, <3>1 DEF PrimaryRefused, Payload
    <3>3. OutcomeOf(sent[1].reply) = "refused"
      BY <3>2 DEF TransferRetryable, OutcomeOf
    <3> QED
      BY <1>5, <1>6, <3>2, <3>3, PaymentFacts DEF Orders!Payable
  <2> QED
    BY <2>1, <2>2
<1>9. p \in Sources /\ a \in Amounts /\ Orders!Ordered(r, p, a)
  BY <1>2, TransferOrdered
<1>10. /\ OutcomeOf(reply) \in Orders!Outcomes
       /\ OutcomeOf(reply) = "confirmed" => debited
       /\ OutcomeOf(reply) = "refused" => ~debited
  BY <1>1, OutcomeFacts DEF MayDebit
<1>11. /\ Payments'[r].tries = Payments[r].tries + 1
       /\ paid = [tries |-> Payments[r].tries + 1, payee |-> p, amount |-> a,
                  outcome |-> OutcomeOf(reply), debited |-> debited]
  BY <1>6, <1>7 DEF Payments
<1> HIDE DEF p, a, new, sent, paid
<1>12. Payments' = [Payments EXCEPT ![r] =
         [tries |-> Payments[r].tries + 1, payee |-> p, amount |-> a,
          outcome |-> OutcomeOf(reply), debited |-> debited]]
  BY <1>7, <1>11
<1> QED
  BY <1>2, <1>4, <1>8, <1>9, <1>10, <1>11, <1>12 DEF Orders!Pay

(* Every other step of a request leaves what PixOrders sees as it is. *)
LEMMA StepImplements ==
  ASSUME TypeOK, TypeOK', OrdersInv, NEW r \in Requests, Step(r)
  PROVE  [Orders!Next]_Orders!vars
<1>1. CASE Transfer(r)
  BY <1>1, TransferImplements DEF Orders!Next
<1>2. CASE Reply(r)
  BY <1>2, ReplyImplements DEF Orders!Next
<1>3. CASE ~Transfer(r) /\ ~Reply(r)
  <2>1. Advances(r) /\ transfers' = transfers
    <3>1. \A o \in Requests : transfers'[o] = transfers[o]
      BY <1>3, OnlyTransferSends
    <3> QED
      BY <3>1, StepAdvances DEF TypeOK
  <2>2. Phases' = Phases /\ Reported' = Reported
    <3>1. CASE SaveCheckpoint(r)
      BY <3>1 DEF SaveCheckpoint, Phases, Reported
    <3>2. CASE pc[r] \in Steps /\ pc'[r] \in Steps
      <4>1. \A o \in Requests : PhaseOf(pc'[o]) = PhaseOf(pc[o])
        BY <2>1, <3>2, PhaseFacts DEF Advances, Others
      <4>2. "done" \notin Steps
        BY DEF Steps, Nodes
      <4>3. ASSUME NEW o \in Requests
            PROVE  (IF pc'[o] = "done" THEN ReportOf(answer'[o]) ELSE "nothing")
                     = (IF pc[o] = "done" THEN ReportOf(answer[o]) ELSE "nothing")
        BY <2>1, <3>2, <4>2 DEF Advances, Others
      <4> QED
        BY <4>1, <4>3 DEF Phases, Reported
    <3> QED
      BY <1>3, <3>1, <3>2, StepMoves
  <2> QED
    BY <2>1, <2>2 DEF Orders!vars, Payments, Advances
<1> QED
  BY <1>1, <1>2, <1>3

LEMMA NextImplements ==
  OrdersInv /\ OrdersInv' /\ [Next]_vars => [Orders!Next]_Orders!vars
<1> SUFFICES ASSUME OrdersInv, TypeOK, TypeOK', [Next]_vars
             PROVE  [Orders!Next]_Orders!vars
  BY DEF OrdersInv, PaymentInv, TypeInv
<1>1. ASSUME NEW r \in Requests, NEW t \in Threads, NEW m \in Messages,
             Receive(r, t, m)
      PROVE  Orders!Next
  BY <1>1, ReceiveImplements DEF Orders!Next
<1>2. ASSUME NEW r \in Requests, Step(r) PROVE [Orders!Next]_Orders!vars
  BY <1>2, StepImplements
<1>3. ASSUME NEW r \in Requests, SaveFails(r) PROVE UNCHANGED Orders!vars
  <2>1. /\ UNCHANGED <<pc, thread, msg, transfers>> /\ pc[r] # "done"
        /\ \A o \in Requests \ {r} : answer'[o] = answer[o]
    BY <1>3 DEF SaveFails, Draft, TypeOK, OrdersInv, AnswerInv
  <2>2. \A o \in Requests :
          (IF pc'[o] = "done" THEN ReportOf(answer'[o]) ELSE "nothing")
            = (IF pc[o] = "done" THEN ReportOf(answer[o]) ELSE "nothing")
    BY <2>1
  <2> QED
    BY <2>1, <2>2 DEF Orders!vars, Phases, Payments, Reported
<1>4. CASE Crash
  <2>1. /\ UNCHANGED <<thread, msg, transfers>>
        /\ \A o \in Requests :
             /\ pc'[o] = IF pc[o] \in Steps THEN "crashed" ELSE pc[o]
             /\ pc[o] \notin Steps => answer'[o] = answer[o]
        /\ \E o \in Requests : pc[o] \in Steps
    BY <1>4 DEF Crash, Running
  <2>2. \A o \in Requests : pc[o] \in Steps <=> Phases[o] = "open"
    BY PhaseFacts DEF Phases, TypeOK, Ended
  <2>3. Phases' = [o \in Requests |-> IF Phases[o] = "open" THEN "lost" ELSE Phases[o]]
    <3>1. ASSUME NEW o \in Requests
          PROVE  PhaseOf(pc'[o]) = IF Phases[o] = "open" THEN "lost" ELSE PhaseOf(pc[o])
      BY <2>1, <2>2, PhaseFacts
    <3> QED
      BY <3>1 DEF Phases
  <2>4. Reported' = Reported
    <3>1. "done" \notin Steps
      BY DEF Steps, Nodes
    <3>2. ASSUME NEW o \in Requests
          PROVE  (IF pc'[o] = "done" THEN ReportOf(answer'[o]) ELSE "nothing")
                   = (IF pc[o] = "done" THEN ReportOf(answer[o]) ELSE "nothing")
      BY <2>1, <3>1
    <3> QED
      BY <3>2 DEF Reported
  <2>5. Payments' = Payments
    BY <2>1 DEF Payments
  <2>6. Orders!Lose
    BY <2>1, <2>2, <2>3, <2>4, <2>5 DEF Orders!Lose
  <2> QED
    BY <2>6 DEF Orders!Next
<1>5. CASE UNCHANGED vars \/ \E q \in QRs : QRStatusChanges(q)
  <2>1. UNCHANGED <<pc, thread, msg, answer, transfers>>
    BY <1>5 DEF vars, QRStatusChanges
  <2> QED
    BY <2>1 DEF Orders!vars, Phases, Payments, Reported
<1> QED
  BY <1>1, <1>2, <1>3, <1>4, <1>5 DEF Next, Quiescent

(* The conversation graph implements PixOrders: any number of requests,    *)
(* threads and crashes, any bank, any settings.                            *)
THEOREM GraphImplementsOrders == Spec => ImplementsOrders
<1>1. Init => OrdersInv /\ Orders!Init
  BY OrdersInitInv, InitImplements
<1>2. OrdersInv /\ [Next]_vars => OrdersInv'
  BY OrdersNextInv
<1>3. OrdersInv /\ OrdersInv' /\ [Next]_vars => [Orders!Next]_Orders!vars
  BY NextImplements
<1> QED
  BY <1>1, <1>2, <1>3, PTL DEF Spec, ImplementsOrders, Orders!Spec
=============================================================================
