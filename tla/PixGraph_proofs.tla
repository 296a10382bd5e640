--------------------------- MODULE PixGraph_proofs ---------------------------
(***************************************************************************)
(* Proofs, for every value of the constants, about the conversation graph. *)
(***************************************************************************)
EXTENDS PixProperties, TLAPS

(* The updates of the services produce graph states. *)
LEMMA EmptyStateType == EmptyState \in GraphState /\ NoData \in ActionData
  BY DEF EmptyState, NoData, GraphState, ActionData, Optional

LEMMA MessageUpdateType ==
  ASSUME NEW s \in GraphState, NEW m \in Message
  PROVE  /\ Classified(s, m) \in GraphState
         /\ ResolvesAmount(s, m) => Continued(s, m) \in GraphState
         /\ [s EXCEPT !.command = "unknown"] \in GraphState
<1>1. Classified(s, m) \in GraphState
  <2> DEFINE amount == IF /\ m.intent \in {"pix_withdraw", "pix_payment"}
                          /\ m.amount # NONE
                       THEN m.amount ELSE s.withdraw_amount
             init   == IF m.intent = "pix_withdraw" /\ m.pix_key # NONE
                       THEN "DICT" ELSE s.withdraw_init_type
             code   == IF m.intent \in {"brcode_preview", "pix_payment",
                                        "brcode_ambiguous"}
                       THEN m.brcode ELSE s.brcode
  <2>1. /\ m.intent \in Optional(Intents) /\ m.pix_key \in Optional(Keys)
        /\ amount \in Optional(Amounts)
        /\ init \in Optional(InitTypes)
        /\ code \in Optional(QRs)
    BY DEF GraphState, Message, Optional, InitTypes
  <2> HIDE DEF amount, init, code
  <2>2. [s EXCEPT !.command = m.intent, !.pix_key = m.pix_key,
                  !.withdraw_amount = amount, !.withdraw_init_type = init,
                  !.brcode = code] \in GraphState
    BY <2>1 DEF GraphState
  <2> QED
    BY <2>2 DEF Classified, amount, init, code
<1>2. ASSUME ResolvesAmount(s, m) PROVE Continued(s, m) \in GraphState
  <2>1. m.numeral \in Optional(Amounts) /\ "pix_payment" \in Optional(Intents)
    BY <1>2 DEF ResolvesAmount, Message, Optional, Intents
  <2> QED
    BY <2>1 DEF Continued, GraphState
<1>3. [s EXCEPT !.command = "unknown"] \in GraphState
  <2>1. "unknown" \in Optional(Intents)
    BY DEF Optional, Intents
  <2> QED
    BY <2>1 DEF GraphState
<1> QED
  BY <1>1, <1>2, <1>3

LEMMA ResultType ==
  ASSUME NEW s \in GraphState
  PROVE  /\ \A data \in ActionData : Succeeded(s, data) \in GraphState
         /\ Failed(s) \in GraphState
         /\ \A b \in BOOLEAN : [s EXCEPT !.is_blocked = b] \in GraphState
         /\ [s EXCEPT !.action_success = TRUE] \in GraphState
         /\ [s EXCEPT !.awaiting_amount = TRUE] \in GraphState
         /\ \A a \in Optional(Amounts) :
               [s EXCEPT !.withdraw_amount = a] \in GraphState
<1>1. \A data \in ActionData : Succeeded(s, data) \in GraphState
  BY DEF Succeeded, GraphState
<1>2. Failed(s) \in GraphState
  BY DEF Failed, GraphState
<1>3. \A b \in BOOLEAN : [s EXCEPT !.is_blocked = b] \in GraphState
  BY DEF GraphState
<1>4. [s EXCEPT !.action_success = TRUE] \in GraphState
  BY DEF GraphState
<1>5. [s EXCEPT !.awaiting_amount = TRUE] \in GraphState
  BY DEF GraphState
<1>6. \A a \in Optional(Amounts) : [s EXCEPT !.withdraw_amount = a] \in GraphState
  BY DEF GraphState
<1> QED
  BY <1>1, <1>2, <1>3, <1>4, <1>5, <1>6

LEMMA RefusedType ==
  ASSUME NEW s \in GraphState, NEW status \in Unpayable
  PROVE  [Failed(s) EXCEPT !.brcode_status = status] \in GraphState
<1>1. status \in Optional(Unpayable)
  BY DEF Optional
<1> QED
  BY <1>1 DEF Failed, GraphState

LEMMA LookedUpType ==
  ASSUME NEW s \in GraphState, NEW k \in Optional(Keys)
  PROVE  LookedUp(s, k) \in GraphState
<1>1. k \in Optional(Sources)
  BY DEF Optional, Sources
<1> QED
  BY <1>1 DEF LookedUp, GraphState

LEMMA PreviewedType ==
  ASSUME NEW s \in GraphState, NEW q \in QRs, NEW status \in QRStatuses
  PROVE  Previewed(s, q, status) \in GraphState
<1> DEFINE data == [kind |-> "preview", of |-> q, status |-> status]
           recon == IF BankQR[q].hasReconciliationId THEN q ELSE NONE
           key == IF BankQR[q].hasKeyId THEN q ELSE NONE
<1>1. data \in ActionData
  BY DEF ActionData, Optional, Sources
<1>2. /\ q \in Optional(Sources) /\ q \in Optional(QRs)
      /\ recon \in Optional(QRs) /\ key \in Optional(QRs)
  BY DEF Optional, Sources
<1>3. BankQR[q] \in QRData
  BY BankQRAssumption
<1>4. /\ BankQR[q].initType \in Optional(InitTypes)
      /\ BankQR[q].amountType \in Optional(AmountTypes)
      /\ BankQR[q].amount \in Optional(Amounts)
  BY <1>3 DEF QRData, Optional
<1> HIDE DEF data, recon, key
<1>5. [s EXCEPT !.action_success = TRUE, !.action_data = data,
                !.withdraw_beneficiary = q, !.withdraw_end_to_end_id = q,
                !.withdraw_qr_code = q,
                !.withdraw_init_type = BankQR[q].initType,
                !.withdraw_reconciliation_id = recon,
                !.withdraw_key_id = key,
                !.withdraw_amount_type = BankQR[q].amountType,
                !.withdraw_amount = BankQR[q].amount] \in GraphState
  BY <1>1, <1>2, <1>4 DEF GraphState
<1> QED
  BY <1>5 DEF Previewed, Decoded, Preview, data, recon, key

LEMMA DataType ==
  /\ KeysListed \in ActionData
  /\ \A k \in Keys : KeyDetails(k) \in ActionData
  /\ \A r \in Requests : Receipt(r) \in ActionData
  BY DEF KeysListed, KeyDetails, Receipt, ActionData, Optional, Sources

LEMMA PayloadType ==
  ASSUME NEW w \in GraphState
  PROVE  Payload(w) \in Payloads
  BY DEF Payload, Payloads, GraphState, Optional

LEMMA AnswerType ==
  ASSUME NEW s \in GraphState
  PROVE  /\ ScenarioOf(s) \in Answers
         /\ \A kind \in AnswerKinds : Answer(kind) \in Answers
<1>1. Outcome(s) \in Optional(Outcomes)
  BY DEF Outcome, Outcomes, Optional
<1>2. s.command \in Optional(Intents) /\ s.action_data \in ActionData
  BY DEF GraphState
<1>3. ScenarioOf(s) \in Answers
  BY <1>1, <1>2 DEF ScenarioOf, Answers, AnswerKinds
<1>4. NONE \in Optional(Intents) /\ NONE \in Optional(Outcomes)
  BY DEF Optional
<1>5. \A kind \in AnswerKinds : Answer(kind) \in Answers
  BY <1>4, EmptyStateType DEF Answer, Answers
<1> QED
  BY <1>3, <1>5

LEMMA RouteType == \A c : RouteIntent(c) \in Nodes
  BY DEF RouteIntent, Nodes

-----------------------------------------------------------------------------
(* Type correctness.  A payment preview is under way only for a QR Code    *)
(* that can be decoded: without it the bank's answer would have no type.   *)
PreviewDecodable ==
    \A r \in Requests : pc[r] = "paymentPreview" => Decodable(st[r])

TypeInv == TypeOK /\ PreviewDecodable

LEMMA NodeReturnsType ==
  ASSUME TypeInv, NEW r \in Requests, pc[r] # "idle",
         NEW s \in GraphState, NEW next \in Steps \ {"paymentPreview"},
         NodeReturns(r, s, next),
         transfers' \in [Requests -> Seq(Attempt)]
  PROVE  TypeInv'
<1>1. TypeOK'
  BY EmptyStateType DEF TypeInv, TypeOK, NodeReturns, Goto, Accounts
<1>2. PreviewDecodable'
  BY DEF TypeInv, TypeOK, PreviewDecodable, NodeReturns, Goto
<1> QED
  BY <1>1, <1>2 DEF TypeInv

LEMMA ContinueType ==
  ASSUME TypeInv, NEW r \in Requests, pc[r] # "idle",
         NEW w \in GraphState, NEW next \in Steps,
         next = "paymentPreview" => Decodable(st[r]),
         Continue(r, w, next), UNCHANGED transfers
  PROVE  TypeInv'
<1>1. TypeOK'
  BY DEF TypeInv, TypeOK, Continue, Goto, Accounts
<1>2. PreviewDecodable'
  BY DEF TypeInv, TypeOK, PreviewDecodable, Continue, Goto
<1> QED
  BY <1>1, <1>2 DEF TypeInv

LEMMA UseFallbackType ==
  ASSUME TypeInv, NEW r \in Requests, UseFallback(r),
         transfers' \in [Requests -> Seq(Attempt)]
  PROVE  TypeInv'
<1>1. TypeOK'
  BY DEF TypeInv, TypeOK, UseFallback, Accounts
<1>2. PreviewDecodable'
  BY DEF TypeInv, PreviewDecodable, UseFallback
<1> QED
  BY <1>1, <1>2 DEF TypeInv

LEMMA DraftType ==
  ASSUME TypeInv, NEW r \in Requests, NEW a \in Answers, Draft(r, a)
  PROVE  answer' \in [Requests -> Answers]
  BY DEF TypeInv, TypeOK, Draft

(* A query's three outcomes *)
LEMMA QueryType ==
  ASSUME TypeInv, NEW r \in Requests, pc[r] # "idle",
         NEW ok \in GraphState, Query(r, ok)
  PROVE  TypeInv'
<1>1. transfers' \in [Requests -> Seq(Attempt)] /\ st[r] \in GraphState
  BY DEF Query, TypeInv, TypeOK
<1>2. CASE ActionReturns(r, ok)
  BY <1>1, <1>2, NodeReturnsType DEF ActionReturns, Steps, Nodes
<1>3. CASE UseFallback(r)
  BY <1>1, <1>3, UseFallbackType
<1>4. CASE ActionReturns(r, Failed(st[r]))
  <2>1. Failed(st[r]) \in GraphState
    BY <1>1, ResultType
  <2> QED
    BY <1>1, <1>4, <2>1, NodeReturnsType DEF ActionReturns, Steps, Nodes
<1> QED
  BY <1>2, <1>3, <1>4 DEF Query

LEMMA RejectQueryType ==
  ASSUME TypeInv, NEW r \in Requests, pc[r] # "idle", RejectQuery(r)
  PROVE  TypeInv'
<1>1. st[r] \in GraphState /\ transfers' \in [Requests -> Seq(Attempt)]
  BY DEF TypeInv, TypeOK, RejectQuery
<1>2. Failed(st[r]) \in GraphState
  BY <1>1, ResultType
<1> QED
  BY <1>1, <1>2, NodeReturnsType DEF RejectQuery, ActionReturns, Steps, Nodes

LEMMA TypeInit == Init => TypeInv
<1> SUFFICES ASSUME Init PROVE TypeInv
  OBVIOUS
<1>1. NoAnswer \in Answers
  BY EmptyStateType, AnswerType DEF NoAnswer, AnswerKinds
<1>2. TypeOK
  BY <1>1, EmptyStateType DEF Init, TypeOK, Optional, Accounts, Steps, Nodes
<1>3. PreviewDecodable
  BY DEF Init, PreviewDecodable
<1> QED
  BY <1>2, <1>3 DEF TypeInv

(* One step of a request, action by action *)
LEMMA StepType ==
  ASSUME TypeInv, NEW r \in Requests, Step(r)
  PROVE  TypeInv'
<1> USE DEF TypeInv
<1>1. /\ st[r] \in GraphState /\ work[r] \in GraphState
      /\ transfers \in [Requests -> Seq(Attempt)]
      /\ pc[r] # "idle" => msg[r] \in Messages
  BY DEF TypeOK
<1>2. pc[r] # "idle" => msg[r] \in Message
  BY <1>1, MessagesAssumption
<1>3. \A s \in Nodes : s \in Steps \ {"paymentPreview"}
  BY DEF Steps, Nodes
<1>4. \A kind \in AnswerKinds : Answer(kind) \in Answers
  BY EmptyStateType, AnswerType
<1>5. CASE GuardrailBlocks(r)
  <2>1. [st[r] EXCEPT !.is_blocked = TRUE] \in GraphState
    BY <1>1, ResultType
  <2> QED
    BY <1>1, <1>3, <1>5, <2>1, NodeReturnsType DEF GuardrailBlocks, Nodes
<1>6. CASE GuardrailPasses(r)
  <2>1. [st[r] EXCEPT !.is_blocked = FALSE] \in GraphState
    BY <1>1, ResultType
  <2> QED
    BY <1>1, <1>3, <1>6, <2>1, NodeReturnsType DEF GuardrailPasses, Nodes
<1>7. CASE GuardrailFails(r)
  <2>1. answer' \in [Requests -> Answers]
    BY <1>4, <1>7, DraftType DEF GuardrailFails, AnswerKinds
  <2>2. TypeOK'
    BY <2>1, <1>7 DEF GuardrailFails, Goto, TypeOK, Steps
  <2>3. PreviewDecodable'
    BY <1>7 DEF GuardrailFails, Goto, PreviewDecodable, TypeOK
  <2> QED
    BY <2>2, <2>3
<1>8. CASE BlockedResponse(r)
  <2>1. answer' \in [Requests -> Answers]
    BY <1>4, <1>8, DraftType DEF BlockedResponse, AnswerKinds
  <2>2. TypeOK'
    BY <2>1, <1>8 DEF BlockedResponse, Goto, TypeOK, Steps
  <2>3. PreviewDecodable'
    BY <1>8 DEF BlockedResponse, Goto, PreviewDecodable, TypeOK
  <2> QED
    BY <2>2, <2>3
<1>9. CASE ResolveAmount(r)
  <2>1. Continued(st[r], msg[r]) \in GraphState
    BY <1>1, <1>2, <1>9, MessageUpdateType DEF ResolveAmount
  <2> QED
    BY <1>1, <1>3, <1>9, <2>1, RouteType, NodeReturnsType DEF ResolveAmount
<1>10. CASE Classify(r)
  <2>1. Classified(st[r], msg[r]) \in GraphState
    BY <1>1, <1>2, <1>10, MessageUpdateType DEF Classify
  <2> QED
    BY <1>1, <1>3, <1>10, <2>1, RouteType, NodeReturnsType DEF Classify
<1>11. CASE ClassifyFails(r)
  <2>1. [st[r] EXCEPT !.command = "unknown"] \in GraphState
    BY <1>1, <1>2, <1>11, MessageUpdateType DEF ClassifyFails
  <2> QED
    BY <1>1, <1>3, <1>11, <2>1, RouteType, NodeReturnsType DEF ClassifyFails
<1>12. CASE Fallback(r)
  <2>1. [st[r] EXCEPT !.action_success = TRUE] \in GraphState
    BY <1>1, ResultType
  <2> QED
    BY <1>1, <1>3, <1>12, <2>1, NodeReturnsType DEF Fallback, ActionReturns, Nodes
<1>13. CASE ListKeys(r)
  <2>1. Succeeded(st[r], KeysListed) \in GraphState
    BY <1>1, ResultType, DataType
  <2> QED
    BY <1>13, <2>1, QueryType, RejectQueryType DEF ListKeys
<1>14. CASE ReadKey(r)
  <2>1. st[r].pix_key # NONE =>
          Succeeded(st[r], KeyDetails(st[r].pix_key)) \in GraphState
    <3>1. st[r].pix_key # NONE => st[r].pix_key \in Keys
      BY <1>1 DEF GraphState, Optional
    <3> QED
      BY <1>1, <3>1, ResultType, DataType
  <2> QED
    BY <1>14, <2>1, QueryType, RejectQueryType DEF ReadKey
<1>15. st[r].brcode # NONE =>
         Previewed(st[r], st[r].brcode, qrStatus[st[r].brcode]) \in GraphState
  <2>1. st[r].brcode # NONE => st[r].brcode \in QRs
    BY <1>1 DEF GraphState, Optional
  <2>2. st[r].brcode # NONE => qrStatus[st[r].brcode] \in QRStatuses
    BY <2>1 DEF TypeOK
  <2> QED
    BY <1>1, <2>1, <2>2, PreviewedType
<1>16. CASE BRCodePreview(r)
  BY <1>15, <1>16, QueryType, RejectQueryType DEF BRCodePreview, Decodable
<1>17. CASE Payment(r)
  <2>1. CASE PaymentContinues(r)
    BY <1>1, <2>1, ContinueType DEF PaymentContinues, Steps
  <2>2. CASE PaymentStarts(r)
    <3>1. Failed(st[r]) \in GraphState
      BY <1>1, ResultType
    <3> QED
      BY <1>1, <1>3, <2>2, <3>1, ContinueType, NodeReturnsType
         DEF PaymentStarts, ActionReturns, Steps, Nodes
  <2>3. CASE PaymentPreview(r)
    <3>1. st[r].brcode # NONE /\ pc[r] # "idle"
      BY <2>3 DEF PaymentPreview, PreviewDecodable, Decodable
    <3>2. Failed(st[r]) \in GraphState
      BY <1>1, ResultType
    <3>3. CASE Continue(r, Previewed(st[r], st[r].brcode, qrStatus[st[r].brcode]),
                        "resolveAmount") /\ UNCHANGED transfers
      BY <1>15, <3>1, <3>3, ContinueType DEF Steps
    <3>4. CASE UseFallback(r) /\ UNCHANGED transfers
      BY <1>1, <3>4, UseFallbackType
    <3>5. CASE ActionReturns(r, Failed(st[r])) /\ UNCHANGED transfers
      BY <1>1, <1>3, <3>1, <3>2, <3>5, NodeReturnsType DEF ActionReturns, Nodes
    <3> QED
      BY <2>3, <3>3, <3>4, <3>5 DEF PaymentPreview
  <2>4. CASE RefuseUnpayable(r)
    <3>1. [Failed(work[r]) EXCEPT !.brcode_status = work[r].action_data.status]
            \in GraphState
      BY <1>1, <2>4, RefusedType DEF RefuseUnpayable
    <3> QED
      BY <1>1, <1>3, <2>4, <3>1, NodeReturnsType
         DEF RefuseUnpayable, ActionReturns, Nodes
  <2>5. CASE PayFixed(r)
    BY <1>1, <2>5, ContinueType DEF PayFixed, Payable, Steps
  <2>6. CASE PayCustom(r)
    <3>1. CustomAmount(r) \in Optional(Amounts)
      BY <1>1 DEF CustomAmount, GraphState
    <3>2. [work[r] EXCEPT !.withdraw_amount = CustomAmount(r)] \in GraphState
      BY <1>1, <3>1, ResultType
    <3> QED
      BY <1>1, <2>6, <3>2, ContinueType DEF PayCustom, Payable, Steps
  <2>7. CASE AskAmount(r)
    <3>1. [work[r] EXCEPT !.awaiting_amount = TRUE] \in GraphState
      BY <1>1, ResultType
    <3> QED
      BY <1>1, <1>3, <2>7, <3>1, NodeReturnsType
         DEF AskAmount, Payable, ActionReturns, Nodes
  <2>8. CASE UnknownAmountType(r)
    <3>1. Failed(work[r]) \in GraphState
      BY <1>1, ResultType
    <3> QED
      BY <1>1, <1>3, <2>8, <3>1, NodeReturnsType
         DEF UnknownAmountType, Payable, ActionReturns, Nodes
  <2> QED
    BY <1>17, <2>1, <2>2, <2>3, <2>4, <2>5, <2>6, <2>7, <2>8 DEF Payment
<1>18. CASE PixWithdraw(r)
  BY <1>1, <1>18, ContinueType DEF PixWithdraw, Steps
<1>19. CASE Withdraw(r)
  <2>1. CASE Enrich(r)
    BY <1>1, <2>1, ContinueType DEF Enrich, Steps
  <2>2. CASE Lookup(r)
    <3>1. LookedUp(work[r], work[r].pix_key) \in GraphState
      BY <1>1, LookedUpType DEF GraphState
    <3> QED
      BY <1>1, <2>2, <3>1, ContinueType DEF Lookup, Steps
  <2>3. CASE Validate(r)
    <3>1. Failed(st[r]) \in GraphState
      BY <1>1, ResultType
    <3> QED
      BY <1>1, <1>3, <2>3, <3>1, ContinueType, NodeReturnsType
         DEF Validate, ActionReturns, Steps, Nodes
  <2>4. CASE Transfer(r)
    <3>1. PICK reply \in Replies, debited \in BOOLEAN :
            /\ transfers' = [transfers EXCEPT ![r] =
                 Append(@, [account |-> account[r], payload |-> Payload(work[r]),
                            reply |-> reply, debited |-> debited])]
            /\ TransferReturns(r, reply)
      BY <2>4 DEF Transfer
    <3>2. [account |-> account[r], payload |-> Payload(work[r]),
           reply |-> reply, debited |-> debited] \in Attempt
      BY <1>1, PayloadType DEF TypeOK, Attempt
    <3>3. transfers' \in [Requests -> Seq(Attempt)]
      BY <1>1, <3>1, <3>2
    <3>4. pc[r] # "idle"
      BY <2>4 DEF Transfer
    <3>5. Succeeded(st[r], Receipt(r)) \in GraphState /\ Failed(st[r]) \in GraphState
      BY <1>1, ResultType, DataType
    <3>6. CASE \/ ActionReturns(r, Succeeded(st[r], Receipt(r)))
               \/ ActionReturns(r, Failed(st[r]))
      BY <1>3, <3>3, <3>4, <3>5, <3>6, NodeReturnsType DEF ActionReturns, Nodes
    <3>7. CASE UseFallback(r)
      BY <3>3, <3>7, UseFallbackType
    <3> QED
      BY <3>1, <3>6, <3>7 DEF TransferReturns
  <2> QED
    BY <1>19, <2>1, <2>2, <2>3, <2>4 DEF Withdraw
<1>20. CASE ChatResponse(r)
  <2>1. \A a \in {ScenarioOf(st[r]), Answer("apology")} : a \in Answers
    BY <1>1, <1>4, AnswerType DEF AnswerKinds
  <2>2. answer' \in [Requests -> Answers]
    BY <1>20, <2>1, DraftType DEF ChatResponse
  <2>3. TypeOK'
    BY <2>2, <1>20 DEF ChatResponse, Goto, TypeOK, Steps
  <2>4. PreviewDecodable'
    BY <1>20 DEF ChatResponse, Goto, PreviewDecodable, TypeOK
  <2> QED
    BY <2>3, <2>4
<1>21. CASE Reply(r)
  <2>1. TypeOK'
    BY <1>21, EmptyStateType DEF Reply, Goto, TypeOK, Ended
  <2>2. PreviewDecodable'
    BY <1>21 DEF Reply, Goto, PreviewDecodable, TypeOK
  <2> QED
    BY <2>1, <2>2
<1>22. CASE SaveCheckpoint(r)
  <2>1. TypeOK'
    BY <1>1, <1>22 DEF SaveCheckpoint, TypeOK
  <2>2. PreviewDecodable'
    BY <1>22 DEF SaveCheckpoint, PreviewDecodable
  <2> QED
    BY <2>1, <2>2
<1> QED
  BY <1>5, <1>6, <1>7, <1>8, <1>9, <1>10, <1>11, <1>12, <1>13, <1>14, <1>16,
     <1>17, <1>18, <1>19, <1>20, <1>21, <1>22 DEF Step

LEMMA TypeNext == TypeInv /\ [Next]_vars => TypeInv'
<1> SUFFICES ASSUME TypeInv, [Next]_vars PROVE TypeInv'
  OBVIOUS
<1>1. ASSUME NEW r \in Requests, NEW t \in Threads, NEW m \in Messages,
             Receive(r, t, m)
      PROVE  TypeInv'
  <2>1. TypeOK'
    BY <1>1 DEF Receive, Goto, TypeInv, TypeOK, Optional, Steps, Nodes
  <2>2. PreviewDecodable'
    BY <1>1 DEF Receive, Goto, TypeInv, TypeOK, PreviewDecodable
  <2> QED
    BY <2>1, <2>2 DEF TypeInv
<1>2. ASSUME NEW r \in Requests, Step(r) PROVE TypeInv'
  BY <1>2, StepType
<1>3. ASSUME NEW r \in Requests, SaveFails(r) PROVE TypeInv'
  <2>1. Answer("error500") \in Answers
    BY EmptyStateType, AnswerType DEF AnswerKinds
  <2>2. answer' \in [Requests -> Answers]
    BY <1>3, <2>1, DraftType DEF SaveFails
  <2>3. TypeOK'
    BY <1>3, <2>2 DEF SaveFails, TypeInv, TypeOK
  <2>4. PreviewDecodable'
    BY <1>3 DEF SaveFails, TypeInv, PreviewDecodable
  <2> QED
    BY <2>3, <2>4 DEF TypeInv
<1>4. CASE Crash
  <2>1. NoAnswer \in Answers
    BY EmptyStateType, AnswerType DEF NoAnswer, AnswerKinds
  <2>2. pc' \in [Requests -> Steps \cup Ended \cup {"idle"}]
    BY <1>4 DEF Crash, TypeInv, TypeOK, Ended
  <2>3. \A r \in Requests : pc'[r] # "idle" => pc[r] # "idle"
    BY <1>4 DEF Crash, Running, Steps, Nodes
  <2>4. TypeOK'
    BY <1>4, <2>1, <2>2, <2>3, EmptyStateType DEF Crash, TypeInv, TypeOK, Accounts
  <2>5. PreviewDecodable'
    BY <1>4 DEF Crash, Running, PreviewDecodable, Steps
  <2> QED
    BY <2>4, <2>5 DEF TypeInv
<1>5. ASSUME NEW q \in QRs, QRStatusChanges(q) PROVE TypeInv'
  <2>1. TypeOK'
    BY <1>5 DEF QRStatusChanges, TypeInv, TypeOK, Unpayable, QRStatuses
  <2>2. PreviewDecodable'
    BY <1>5 DEF QRStatusChanges, TypeInv, PreviewDecodable
  <2> QED
    BY <2>1, <2>2 DEF TypeInv
<1>6. CASE UNCHANGED vars
  BY <1>6 DEF vars, TypeInv, TypeOK, PreviewDecodable
<1> QED
  BY <1>1, <1>2, <1>3, <1>4, <1>5, <1>6 DEF Next, Quiescent

LEMMA TypeInvariant == Spec => []TypeInv
<1> QED
  BY TypeInit, TypeNext, PTL DEF Spec

(* Type correctness of the conversation graph, for every set of requests,  *)
(* threads, messages and QR Codes and every reply of the bank.             *)
THEOREM TypeCorrectness == Spec => []TypeOK
<1>1. TypeInv => TypeOK
  BY DEF TypeInv
<1> QED
  BY <1>1, TypeInvariant, PTL

-----------------------------------------------------------------------------
(* At most one debit.  AtMostOneDebit is not inductive: it says nothing of *)
(* a request that is about to transfer.  The strengthening follows the     *)
(* request: nothing is sent before the step "transfer"; there, either      *)
(* nothing was sent or the primary account was refused with 402 or 422,    *)
(* which the bank executes nothing of; after it, no step sends again.      *)
Querying == {"listKeys", "readKey", "brcodePreview", "paymentPreview", "transfer"}
After    == {"chatResponse", "reply", "done", "crashed"}
Before   == (Steps \ {"transfer", "chatResponse", "reply"}) \cup {"idle"}

PrimaryRefused(r) ==
    /\ Len(transfers[r]) = 1
    /\ transfers[r][1].account = "primary"
    /\ transfers[r][1].reply \in TransferRetryable
    /\ ~transfers[r][1].debited
    /\ transfers[r][1].payload = Payload(work[r])

TransferInv ==
    /\ \A r \in Requests : pc[r] \notin Querying => account[r] = "primary"
    /\ \A r \in Requests : pc[r] \in Before => transfers[r] = << >>
    /\ \A r \in Requests : pc[r] = "transfer" =>
          IF account[r] = "primary" THEN transfers[r] = << >> ELSE PrimaryRefused(r)
    /\ AtMostOneDebit
    /\ FallbackOnlyAfterRefusal

(* The request goes on to another step and sends nothing. *)
LEMMA MovesOn ==
  ASSUME TypeOK, TransferInv, NEW r \in Requests, NEW next \in Steps \cup Ended,
         pc[r] # "transfer", next \notin After => pc[r] \in Before,
         pc' = [pc EXCEPT ![r] = next],
         account'[r] = "primary",
         \A o \in Requests \ {r} : account'[o] = account[o] /\ work'[o] = work[o],
         UNCHANGED transfers
  PROVE  TransferInv'
<1>1. \A o \in Requests : pc'[o] = IF o = r THEN next ELSE pc[o]
  BY DEF TypeOK
<1>2. \A o \in Requests : pc'[o] \notin Querying => account'[o] = "primary"
  BY <1>1 DEF TransferInv
<1>3. \A o \in Requests : pc'[o] \in Before => transfers'[o] = << >>
  BY <1>1 DEF TransferInv, Before, After, Steps, Nodes
<1>4. \A o \in Requests : pc'[o] = "transfer" =>
        IF account'[o] = "primary" THEN transfers'[o] = << >> ELSE PrimaryRefused(o)'
  BY <1>1 DEF TransferInv, PrimaryRefused, After
<1>5. AtMostOneDebit' /\ FallbackOnlyAfterRefusal'
  BY DEF TransferInv, AtMostOneDebit, FallbackOnlyAfterRefusal
<1> QED
  BY <1>2, <1>3, <1>4, <1>5 DEF TransferInv

LEMMA NodeReturnsMovesOn ==
  ASSUME TypeOK, TransferInv, NEW r \in Requests, NEW s, NEW next \in Steps,
         pc[r] \in Before, NodeReturns(r, s, next), UNCHANGED transfers
  PROVE  TransferInv'
<1>1. /\ pc' = [pc EXCEPT ![r] = next] /\ account'[r] = "primary"
      /\ \A o \in Requests \ {r} : account'[o] = account[o] /\ work'[o] = work[o]
  BY DEF NodeReturns, Goto, TypeOK
<1> QED
  BY <1>1, MovesOn DEF Before, Steps, Nodes

LEMMA ContinueMovesOn ==
  ASSUME TypeOK, TransferInv, NEW r \in Requests, NEW w, NEW next \in Steps,
         pc[r] \in Before, Continue(r, w, next), UNCHANGED transfers
  PROVE  TransferInv'
<1>1. /\ pc' = [pc EXCEPT ![r] = next] /\ account'[r] = "primary"
      /\ \A o \in Requests \ {r} : account'[o] = account[o] /\ work'[o] = work[o]
  BY DEF Continue, Goto, TypeOK
<1> QED
  BY <1>1, MovesOn DEF Before, Steps, Nodes

(* Only the queue of accounts changes, away from the step "transfer". *)
LEMMA FallbackStays ==
  ASSUME TypeOK, TransferInv, NEW r \in Requests,
         pc[r] \in Querying \ {"transfer"}, UseFallback(r), UNCHANGED transfers
  PROVE  TransferInv'
<1>1. \A o \in Requests \ {r} : account'[o] = account[o]
  BY DEF UseFallback, TypeOK
<1>2. \A o \in Requests : pc'[o] \notin Querying => account'[o] = "primary"
  BY <1>1 DEF TransferInv, UseFallback
<1>3. \A o \in Requests : pc'[o] = "transfer" =>
        IF account'[o] = "primary" THEN transfers'[o] = << >> ELSE PrimaryRefused(o)'
  BY <1>1 DEF TransferInv, UseFallback, PrimaryRefused
<1>4. AtMostOneDebit' /\ FallbackOnlyAfterRefusal'
  BY DEF TransferInv, AtMostOneDebit, FallbackOnlyAfterRefusal
<1> QED
  BY <1>2, <1>3, <1>4 DEF TransferInv, UseFallback

LEMMA QueryQuiet ==
  ASSUME TypeOK, TransferInv, NEW r \in Requests, NEW ok,
         pc[r] \in {"listKeys", "readKey", "brcodePreview"},
         Query(r, ok) \/ RejectQuery(r)
  PROVE  TransferInv'
<1>1. UNCHANGED transfers /\ pc[r] \in Before /\ pc[r] \in Querying \ {"transfer"}
  BY DEF Query, RejectQuery, Before, Querying, Steps, Nodes
<1>2. ASSUME NEW s, ActionReturns(r, s) PROVE TransferInv'
  BY <1>1, <1>2, NodeReturnsMovesOn DEF ActionReturns, Steps, Nodes
<1>3. CASE UseFallback(r)
  BY <1>1, <1>3, FallbackStays
<1> QED
  BY <1>2, <1>3 DEF Query, RejectQuery

(* The one step that sends *)
LEMMA TransferSends ==
  ASSUME TypeOK, TransferInv, NEW r \in Requests, Transfer(r)
  PROVE  TransferInv'
<1>1. PICK reply \in Replies, debited \in BOOLEAN :
        /\ MayDebit(reply, debited)
        /\ transfers' = [transfers EXCEPT ![r] =
             Append(@, [account |-> account[r], payload |-> Payload(work[r]),
                        reply |-> reply, debited |-> debited])]
        /\ TransferReturns(r, reply)
  BY DEF Transfer
<1> DEFINE sent == [account |-> account[r], payload |-> Payload(work[r]),
                    reply |-> reply, debited |-> debited]
<1>2. pc[r] = "transfer"
  BY DEF Transfer
<1>3. /\ transfers[r] \in Seq(Attempt)
      /\ account[r] \in Accounts
      /\ \A o \in Requests : transfers'[o] =
            IF o = r THEN Append(transfers[r], sent) ELSE transfers[o]
  BY <1>1 DEF TypeOK
<1>4. CASE account[r] = "primary"
  <2>1. transfers[r] = << >>
    BY <1>2, <1>4 DEF TransferInv
  <2>2. transfers'[r] = << sent >>
    BY <1>3, <2>1
  <2>3. /\ DOMAIN transfers'[r] = {1} /\ transfers'[r][1] = sent
        /\ Len(transfers'[r]) = 1
    BY <2>2
  <2>4. AtMostOneDebit'
    BY <1>3, <2>3 DEF AtMostOneDebit, TransferInv
  <2>5. FallbackOnlyAfterRefusal'
    BY <1>3, <1>4, <2>3 DEF FallbackOnlyAfterRefusal, TransferInv
  <2>6. CASE UseFallback(r) /\ RetriesOnFallback(r, reply, TransferRetryable)
    <3>1. ~debited
      BY <1>1, <2>6, RepliesAssumption
         DEF MayDebit, RetriesOnFallback, TransferRetryable
    <3>2. PrimaryRefused(r)'
      BY <1>4, <2>3, <2>6, <3>1 DEF PrimaryRefused, RetriesOnFallback, UseFallback
    <3>3. \A o \in Requests \ {r} : account'[o] = account[o]
      BY <2>6 DEF UseFallback, TypeOK
    <3>4. account'[r] = "fallback" /\ pc' = pc /\ work' = work
      BY <2>6 DEF UseFallback, TypeOK
    <3>5. \A o \in Requests : pc'[o] = "transfer" =>
            IF account'[o] = "primary" THEN transfers'[o] = << >>
                                       ELSE PrimaryRefused(o)'
      BY <1>3, <3>2, <3>3, <3>4 DEF TransferInv, PrimaryRefused
    <3>6. \A o \in Requests : pc'[o] \in Before => transfers'[o] = << >>
      BY <1>2, <1>3, <3>4 DEF TransferInv, Before
    <3>7. \A o \in Requests : pc'[o] \notin Querying => account'[o] = "primary"
      BY <1>2, <3>3, <3>4 DEF TransferInv, Querying
    <3> QED
      BY <2>4, <2>5, <3>5, <3>6, <3>7 DEF TransferInv
  <2>7. ASSUME NEW s, ActionReturns(r, s) PROVE TransferInv'
    <3>1. /\ pc' = [pc EXCEPT ![r] = "chatResponse"]
          /\ account' = [account EXCEPT ![r] = "primary"]
          /\ work' = [work EXCEPT ![r] = EmptyState]
      BY <2>7 DEF ActionReturns, NodeReturns, Goto
    <3>2. /\ pc'[r] = "chatResponse" /\ account'[r] = "primary"
          /\ \A o \in Requests \ {r} : /\ pc'[o] = pc[o] /\ account'[o] = account[o]
                                       /\ work'[o] = work[o]
      BY <3>1 DEF TypeOK
    <3>3. \A o \in Requests : pc'[o] = "transfer" =>
            IF account'[o] = "primary" THEN transfers'[o] = << >>
                                       ELSE PrimaryRefused(o)'
      BY <1>3, <3>2 DEF TransferInv, PrimaryRefused
    <3>4. \A o \in Requests : pc'[o] \in Before => transfers'[o] = << >>
      BY <1>3, <3>2 DEF TransferInv, Before
    <3>5. \A o \in Requests : pc'[o] \notin Querying => account'[o] = "primary"
      BY <3>2 DEF TransferInv
    <3> QED
      BY <2>4, <2>5, <3>3, <3>4, <3>5 DEF TransferInv
  <2> QED
    BY <1>1, <2>6, <2>7 DEF TransferReturns
<1>5. CASE account[r] = "fallback"
  <2>1. PrimaryRefused(r)
    BY <1>2, <1>5 DEF TransferInv
  <2>2. Len(transfers[r]) = 1 /\ transfers'[r] = Append(transfers[r], sent)
    BY <1>3, <2>1 DEF PrimaryRefused
  <2>3. /\ DOMAIN transfers'[r] = {1, 2}
        /\ transfers'[r][1] = transfers[r][1]
        /\ transfers'[r][2] = sent
    <3> DEFINE before == transfers[r]
    <3>1. before \in Seq(Attempt) /\ Len(before) = 1
      BY <1>3, <2>2
    <3> HIDE DEF before, sent
    <3>2. /\ Len(Append(before, sent)) = 2
          /\ Append(before, sent)[1] = before[1]
          /\ Append(before, sent)[2] = sent
          /\ DOMAIN Append(before, sent) = 1..2
      BY <3>1
    <3>3. 1..2 = {1, 2}
      OBVIOUS
    <3> QED
      BY <2>2, <3>2, <3>3 DEF before
  <2>4. AtMostOneDebit'
    BY <1>3, <2>1, <2>3 DEF AtMostOneDebit, TransferInv, PrimaryRefused
  <2>5. FallbackOnlyAfterRefusal'
    BY <1>3, <1>5, <2>1, <2>3
       DEF FallbackOnlyAfterRefusal, TransferInv, PrimaryRefused
  <2>6. PICK s : ActionReturns(r, s)
    BY <1>1, <1>5 DEF TransferReturns, RetriesOnFallback
  <2>7. /\ pc' = [pc EXCEPT ![r] = "chatResponse"]
        /\ account' = [account EXCEPT ![r] = "primary"]
        /\ work' = [work EXCEPT ![r] = EmptyState]
    BY <2>6 DEF ActionReturns, NodeReturns, Goto
  <2>8. /\ pc'[r] = "chatResponse" /\ account'[r] = "primary"
        /\ \A o \in Requests \ {r} : /\ pc'[o] = pc[o] /\ account'[o] = account[o]
                                     /\ work'[o] = work[o]
    BY <2>7 DEF TypeOK
  <2>9. \A o \in Requests : pc'[o] = "transfer" =>
          IF account'[o] = "primary" THEN transfers'[o] = << >>
                                     ELSE PrimaryRefused(o)'
    BY <1>3, <2>8 DEF TransferInv, PrimaryRefused
  <2>10. \A o \in Requests : pc'[o] \in Before => transfers'[o] = << >>
    BY <1>3, <2>8 DEF TransferInv, Before
  <2>11. \A o \in Requests : pc'[o] \notin Querying => account'[o] = "primary"
    BY <2>8 DEF TransferInv
  <2> QED
    BY <2>4, <2>5, <2>9, <2>10, <2>11 DEF TransferInv
<1> QED
  BY <1>3, <1>4, <1>5 DEF Accounts

LEMMA TransferInit == Init => TransferInv
  BY DEF Init, TransferInv, AtMostOneDebit, FallbackOnlyAfterRefusal, Before, Steps, Nodes

LEMMA TransferStep ==
  ASSUME TypeOK, TransferInv, NEW r \in Requests, Step(r)
  PROVE  TransferInv'
<1>1. Nodes \subseteq Steps /\ "reply" \in Steps /\ "chatResponse" \in Steps
  BY DEF Steps, Nodes
<1>2. CASE GuardrailBlocks(r) \/ GuardrailPasses(r)
  BY <1>1, <1>2, NodeReturnsMovesOn
     DEF GuardrailBlocks, GuardrailPasses, Before, Steps, Nodes
<1>3. CASE GuardrailFails(r) \/ BlockedResponse(r) \/ ChatResponse(r)
  <2>1. /\ pc' = [pc EXCEPT ![r] = "reply"] /\ UNCHANGED <<account, work, transfers>>
        /\ pc[r] \in {"guardrail", "blockedResponse", "chatResponse"}
    BY <1>3 DEF GuardrailFails, BlockedResponse, ChatResponse, Goto
  <2>2. account'[r] = "primary"
    BY <2>1 DEF TransferInv, Querying
  <2> QED
    BY <1>1, <2>1, <2>2, MovesOn DEF After
<1>4. CASE ResolveAmount(r) \/ Classify(r) \/ ClassifyFails(r)
  BY <1>1, <1>4, RouteType, NodeReturnsMovesOn
     DEF ResolveAmount, Classify, ClassifyFails, Before, Steps, Nodes
<1>5. CASE Fallback(r)
  BY <1>1, <1>5, NodeReturnsMovesOn DEF Fallback, ActionReturns, Before, Steps, Nodes
<1>6. CASE ListKeys(r)
  BY <1>6, QueryQuiet DEF ListKeys
<1>7. CASE ReadKey(r)
  BY <1>7, QueryQuiet DEF ReadKey
<1>8. CASE BRCodePreview(r)
  BY <1>8, QueryQuiet DEF BRCodePreview
<1>9. CASE Payment(r)
  <2>1. CASE PaymentContinues(r)
    BY <2>1, ContinueMovesOn DEF PaymentContinues, Before, Steps, Nodes
  <2>2. CASE PaymentStarts(r)
    BY <2>2, ContinueMovesOn, NodeReturnsMovesOn
       DEF PaymentStarts, ActionReturns, Before, Steps, Nodes
  <2>3. CASE PaymentPreview(r)
    <3>1. /\ UNCHANGED transfers /\ pc[r] \in Before
          /\ pc[r] \in Querying \ {"transfer"}
      BY <2>3 DEF PaymentPreview, Before, Querying, Steps
    <3>2. ASSUME NEW w, Continue(r, w, "resolveAmount") PROVE TransferInv'
      BY <3>1, <3>2, ContinueMovesOn DEF Steps
    <3>3. CASE UseFallback(r)
      BY <3>1, <3>3, FallbackStays
    <3>4. ASSUME NEW s, ActionReturns(r, s) PROVE TransferInv'
      BY <1>1, <3>1, <3>4, NodeReturnsMovesOn DEF ActionReturns
    <3> QED
      BY <2>3, <3>2, <3>3, <3>4 DEF PaymentPreview
  <2>4. CASE RefuseUnpayable(r) \/ AskAmount(r) \/ UnknownAmountType(r)
    BY <1>1, <2>4, NodeReturnsMovesOn
       DEF RefuseUnpayable, AskAmount, UnknownAmountType, Payable, ActionReturns,
           Before, Steps
  <2>5. CASE PayFixed(r) \/ PayCustom(r)
    BY <2>5, ContinueMovesOn DEF PayFixed, PayCustom, Payable, Before, Steps
  <2> QED
    BY <1>9, <2>1, <2>2, <2>3, <2>4, <2>5 DEF Payment
<1>10. CASE PixWithdraw(r)
  BY <1>10, ContinueMovesOn DEF PixWithdraw, Before, Steps, Nodes
<1>11. CASE Enrich(r)
  BY <1>11, ContinueMovesOn DEF Enrich, Before, Steps
<1>12. CASE Lookup(r)
  BY <1>12, ContinueMovesOn DEF Lookup, Before, Steps
<1>13. CASE Validate(r)
  BY <1>1, <1>13, ContinueMovesOn, NodeReturnsMovesOn
     DEF Validate, ActionReturns, Before, Steps
<1>14. CASE Transfer(r)
  BY <1>14, TransferSends
<1>15. CASE Reply(r)
  <2>1. /\ pc' = [pc EXCEPT ![r] = "done"] /\ UNCHANGED <<account, work, transfers>>
        /\ pc[r] = "reply"
    BY <1>15 DEF Reply, Goto
  <2>2. account'[r] = "primary"
    BY <2>1 DEF TransferInv, Querying
  <2> QED
    BY <2>1, <2>2, MovesOn DEF After, Ended
<1>16. CASE SaveCheckpoint(r)
  BY <1>16 DEF SaveCheckpoint, TransferInv, PrimaryRefused, AtMostOneDebit,
               FallbackOnlyAfterRefusal
<1> QED
  BY <1>2, <1>3, <1>4, <1>5, <1>6, <1>7, <1>8, <1>9, <1>10, <1>11, <1>12, <1>13,
     <1>14, <1>15, <1>16 DEF Step, Withdraw

LEMMA TransferNext == TypeInv /\ TransferInv /\ [Next]_vars => TransferInv'
<1> SUFFICES ASSUME TypeOK, TransferInv, [Next]_vars PROVE TransferInv'
  BY DEF TypeInv
<1>1. ASSUME NEW r \in Requests, NEW t \in Threads, NEW m \in Messages,
             Receive(r, t, m)
      PROVE  TransferInv'
  <2>1. /\ pc' = [pc EXCEPT ![r] = "guardrail"] /\ pc[r] = "idle"
        /\ UNCHANGED <<account, work, transfers>>
    BY <1>1 DEF Receive, Goto
  <2>2. account'[r] = "primary"
    BY <2>1 DEF TransferInv, Querying
  <2> QED
    BY <2>1, <2>2, MovesOn DEF Steps, Nodes, Before
<1>2. ASSUME NEW r \in Requests, Step(r) PROVE TransferInv'
  BY <1>2, TransferStep
<1>3. ASSUME NEW r \in Requests, SaveFails(r) PROVE TransferInv'
  BY <1>3 DEF SaveFails, TransferInv, PrimaryRefused, AtMostOneDebit,
              FallbackOnlyAfterRefusal
<1>4. CASE Crash
  <2>1. \A r \in Requests :
          /\ pc'[r] = IF pc[r] \in Steps THEN "crashed" ELSE pc[r]
          /\ account'[r] = "primary"
    BY <1>4 DEF Crash, Running
  <2>2. AtMostOneDebit' /\ FallbackOnlyAfterRefusal'
    BY <1>4 DEF Crash, TransferInv, AtMostOneDebit, FallbackOnlyAfterRefusal
  <2> QED
    BY <1>4, <2>1, <2>2 DEF Crash, TransferInv, Before, Steps, Nodes
<1>5. ASSUME NEW q \in QRs, QRStatusChanges(q) PROVE TransferInv'
  BY <1>5 DEF QRStatusChanges, TransferInv, PrimaryRefused, AtMostOneDebit,
              FallbackOnlyAfterRefusal
<1>6. CASE UNCHANGED vars
  BY <1>6 DEF vars, TransferInv, PrimaryRefused, AtMostOneDebit,
              FallbackOnlyAfterRefusal
<1> QED
  BY <1>1, <1>2, <1>3, <1>4, <1>5, <1>6 DEF Next, Quiescent

LEMMA TransferInvariant == Spec => [](TypeInv /\ TransferInv)
<1>1. Init => TypeInv /\ TransferInv
  BY TypeInit, TransferInit
<1>2. (TypeInv /\ TransferInv) /\ [Next]_vars => (TypeInv /\ TransferInv)'
  BY TypeNext, TransferNext
<1> QED
  BY <1>1, <1>2, PTL DEF Spec

(* One chat request debits at most once, for every number of requests,     *)
(* threads and turns, every interleaving, crash and reply of the bank,     *)
(* provided that the bank executes nothing it answers with a 4xx.          *)
THEOREM OneDebitPerRequest == Spec => []AtMostOneDebit
<1>1. TransferInv => AtMostOneDebit
  BY DEF TransferInv
<1> QED
  BY <1>1, TransferInvariant, PTL

(* The fallback account is debited only in place of a primary account that *)
(* refused the same payload with 402 or 422.                               *)
THEOREM FallbackIsAReplacement == Spec => []FallbackOnlyAfterRefusal
<1>1. TransferInv => FallbackOnlyAfterRefusal
  BY DEF TransferInv
<1> QED
  BY <1>1, TransferInvariant, PTL

-----------------------------------------------------------------------------
(* Coherent payloads.  A graph state, saved or in a run, gets its payment  *)
(* fields from a decode, all of them at once; the dict of a withdrawal     *)
(* differs only by a key lookup, which happens for the init type DICT and  *)
(* then sends none of the QR fields.                                       *)
OfOneQR(s) ==
    /\ s.withdraw_beneficiary = s.withdraw_end_to_end_id
    /\ s.withdraw_qr_code = s.withdraw_end_to_end_id
    /\ s.withdraw_reconciliation_id \in {NONE, s.withdraw_qr_code}
    /\ s.withdraw_key_id \in {NONE, s.withdraw_qr_code}

OfOneSource(w) ==
    /\ w.withdraw_beneficiary = w.withdraw_end_to_end_id
    /\ w.withdraw_reconciliation_id \in {NONE, w.withdraw_qr_code}
    /\ w.withdraw_key_id \in {NONE, w.withdraw_qr_code}
    /\ w.withdraw_init_type \in QRInitTypes =>
         w.withdraw_qr_code = w.withdraw_end_to_end_id

CoherenceInv ==
    /\ \A t \in Threads : OfOneQR(saved[t])
    /\ \A r \in Requests : OfOneQR(st[r]) /\ OfOneSource(work[r])
    /\ \A r \in Requests : pc[r] = "resolveAmount" => OfOneQR(work[r])
    /\ \A r \in Requests : pc[r] = "lookup" => work[r].withdraw_init_type = "DICT"
    /\ \A r \in Requests : pc[r] = "transfer" => ValidTransfer(work[r])
    /\ CoherentPayload

LEMMA OneQRIsOneSource == \A s : OfOneQR(s) => OfOneSource(s)
  BY DEF OfOneQR, OfOneSource

LEMMA EmptyOfOneQR == OfOneQR(EmptyState)
  BY DEF OfOneQR, EmptyState

(* No update but a decode touches the payment fields. *)
LEMMA UpdatesKeepOneQR ==
  ASSUME NEW s \in GraphState, OfOneQR(s)
  PROVE  /\ \A m : OfOneQR(Continued(s, m)) /\ OfOneQR(Classified(s, m))
         /\ OfOneQR([s EXCEPT !.command = "unknown"])
         /\ \A b \in BOOLEAN : OfOneQR([s EXCEPT !.is_blocked = b])
         /\ \A data : OfOneQR(Succeeded(s, data))
         /\ OfOneQR(Failed(s))
         /\ OfOneQR([s EXCEPT !.action_success = TRUE])
         /\ OfOneQR([s EXCEPT !.awaiting_amount = TRUE])
         /\ \A x : OfOneQR([Failed(s) EXCEPT !.brcode_status = x])
         /\ \A a : OfOneQR([s EXCEPT !.withdraw_amount = a])
<1>1. \A m : OfOneQR(Continued(s, m)) /\ OfOneQR(Classified(s, m))
  BY DEF OfOneQR, GraphState, Continued, Classified
<1>2. /\ OfOneQR([s EXCEPT !.command = "unknown"])
      /\ \A b \in BOOLEAN : OfOneQR([s EXCEPT !.is_blocked = b])
      /\ OfOneQR([s EXCEPT !.action_success = TRUE])
      /\ OfOneQR([s EXCEPT !.awaiting_amount = TRUE])
      /\ \A a : OfOneQR([s EXCEPT !.withdraw_amount = a])
  BY DEF OfOneQR, GraphState
<1>3. \A data : OfOneQR(Succeeded(s, data))
  BY DEF OfOneQR, GraphState, Succeeded
<1>4. OfOneQR(Failed(s)) /\ \A x : OfOneQR([Failed(s) EXCEPT !.brcode_status = x])
  BY DEF OfOneQR, GraphState, Failed
<1> QED
  BY <1>1, <1>2, <1>3, <1>4

(* A decode replaces all of them. *)
LEMMA PreviewedOfOneQR ==
  ASSUME NEW s \in GraphState, NEW q, NEW status
  PROVE  OfOneQR(Previewed(s, q, status))
  BY DEF OfOneQR, Previewed, Decoded, GraphState

LEMMA LookedUpOfOneSource ==
  ASSUME NEW w \in GraphState, OfOneSource(w), w.withdraw_init_type = "DICT", NEW k
  PROVE  OfOneSource(LookedUp(w, k))
  BY DEF OfOneSource, LookedUp, GraphState, QRInitTypes

(* A valid transfer of such a dict is a coherent payload. *)
LEMMA ValidPayload ==
  ASSUME NEW w \in GraphState, OfOneSource(w), ValidTransfer(w)
  PROVE  Coherent(Payload(w))
<1>1. w.withdraw_beneficiary \in Sources
  BY DEF ValidTransfer, GraphState, Optional
<1>2. w.withdraw_init_type \in QRInitTypes =>
        /\ w.withdraw_reconciliation_id # NONE
        /\ w.withdraw_key_id # NONE
  BY DEF ValidTransfer, QRInitTypes
<1> QED
  BY <1>1, <1>2 DEF Coherent, Payload, OfOneSource

LEMMA NodeReturnsCoherent ==
  ASSUME TypeOK, CoherenceInv, NEW r \in Requests, NEW s, OfOneQR(s),
         NEW next \in Nodes, NodeReturns(r, s, next), CoherentPayload'
  PROVE  CoherenceInv'
<1>1. \A o \in Requests : /\ pc'[o] = IF o = r THEN next ELSE pc[o]
                          /\ st'[o] = IF o = r THEN s ELSE st[o]
                          /\ work'[o] = IF o = r THEN EmptyState ELSE work[o]
  BY DEF NodeReturns, Goto, TypeOK
<1>2. UNCHANGED saved
  BY DEF NodeReturns
<1> QED
  BY <1>1, <1>2, EmptyOfOneQR, OneQRIsOneSource DEF CoherenceInv, Nodes

LEMMA ContinueCoherent ==
  ASSUME TypeOK, CoherenceInv, NEW r \in Requests, NEW w, OfOneSource(w), NEW next,
         next = "resolveAmount" => OfOneQR(w),
         next = "lookup" => w.withdraw_init_type = "DICT",
         next = "transfer" => ValidTransfer(w),
         Continue(r, w, next), UNCHANGED transfers
  PROVE  CoherenceInv'
<1>1. \A o \in Requests : /\ pc'[o] = IF o = r THEN next ELSE pc[o]
                          /\ st'[o] = st[o]
                          /\ work'[o] = IF o = r THEN w ELSE work[o]
  BY DEF Continue, Goto, TypeOK
<1>2. UNCHANGED saved /\ CoherentPayload'
  BY DEF Continue, CoherenceInv, CoherentPayload
<1> QED
  BY <1>1, <1>2 DEF CoherenceInv

LEMMA UseFallbackCoherent ==
  ASSUME CoherenceInv, NEW r \in Requests, UseFallback(r), CoherentPayload'
  PROVE  CoherenceInv'
  BY DEF CoherenceInv, UseFallback

LEMMA QueryCoherent ==
  ASSUME TypeOK, CoherenceInv, NEW r \in Requests, NEW ok, OfOneQR(ok),
         Query(r, ok) \/ RejectQuery(r)
  PROVE  CoherenceInv'
<1>1. UNCHANGED transfers /\ CoherentPayload'
  BY DEF Query, RejectQuery, CoherenceInv, CoherentPayload
<1>2. OfOneQR(Failed(st[r]))
  BY UpdatesKeepOneQR DEF CoherenceInv, TypeOK
<1>3. CASE ActionReturns(r, ok)
  BY <1>1, <1>3, NodeReturnsCoherent DEF ActionReturns, Nodes
<1>4. CASE ActionReturns(r, Failed(st[r]))
  BY <1>1, <1>2, <1>4, NodeReturnsCoherent DEF ActionReturns, Nodes
<1>5. CASE UseFallback(r)
  BY <1>1, <1>5, UseFallbackCoherent
<1> QED
  BY <1>3, <1>4, <1>5 DEF Query, RejectQuery

(* Steps that leave every graph state alone *)
LEMMA GotoCoherent ==
  ASSUME TypeOK, CoherenceInv, NEW r \in Requests,
         NEW next \in {"reply", "guardrail"}, pc' = [pc EXCEPT ![r] = next],
         UNCHANGED <<st, work, saved, transfers>>
  PROVE  CoherenceInv'
<1>1. \A o \in Requests : pc'[o] = IF o = r THEN next ELSE pc[o]
  BY DEF TypeOK
<1> QED
  BY <1>1 DEF CoherenceInv, CoherentPayload

LEMMA CoherenceInit == Init => CoherenceInv
  BY EmptyOfOneQR, OneQRIsOneSource DEF Init, CoherenceInv, CoherentPayload

LEMMA CoherenceStep ==
  ASSUME TypeOK, CoherenceInv, NEW r \in Requests, Step(r)
  PROVE  CoherenceInv'
<1>1. /\ st[r] \in GraphState /\ work[r] \in GraphState
      /\ OfOneQR(st[r]) /\ OfOneSource(st[r]) /\ OfOneSource(work[r])
  BY OneQRIsOneSource DEF TypeOK, CoherenceInv
<1>2. UNCHANGED transfers => CoherentPayload'
  BY DEF CoherenceInv, CoherentPayload
<1>3. OfOneQR(Failed(st[r]))
  BY <1>1, UpdatesKeepOneQR
<1>4. CASE GuardrailBlocks(r) \/ GuardrailPasses(r)
  <2>1. \A b \in BOOLEAN : OfOneQR([st[r] EXCEPT !.is_blocked = b])
    BY <1>1, UpdatesKeepOneQR
  <2> QED
    BY <1>2, <1>4, <2>1, NodeReturnsCoherent DEF GuardrailBlocks, GuardrailPasses, Nodes
<1>5. CASE GuardrailFails(r) \/ BlockedResponse(r) \/ ChatResponse(r)
  BY <1>5, GotoCoherent DEF GuardrailFails, BlockedResponse, ChatResponse, Goto
<1>6. CASE ResolveAmount(r) \/ Classify(r) \/ ClassifyFails(r)
  <2>1. /\ OfOneQR(Continued(st[r], msg[r])) /\ OfOneQR(Classified(st[r], msg[r]))
        /\ OfOneQR([st[r] EXCEPT !.command = "unknown"])
    BY <1>1, UpdatesKeepOneQR
  <2> QED
    BY <1>2, <1>6, <2>1, RouteType, NodeReturnsCoherent
       DEF ResolveAmount, Classify, ClassifyFails
<1>7. CASE Fallback(r)
  <2>1. OfOneQR([st[r] EXCEPT !.action_success = TRUE])
    BY <1>1, UpdatesKeepOneQR
  <2> QED
    BY <1>2, <1>7, <2>1, NodeReturnsCoherent DEF Fallback, ActionReturns, Nodes
<1>8. CASE ListKeys(r) \/ ReadKey(r)
  <2>1. \A data : OfOneQR(Succeeded(st[r], data))
    BY <1>1, UpdatesKeepOneQR
  <2> QED
    BY <1>8, <2>1, QueryCoherent DEF ListKeys, ReadKey
<1>9. \A q, status : OfOneQR(Previewed(st[r], q, status))
  BY <1>1, PreviewedOfOneQR
<1>10. CASE BRCodePreview(r)
  BY <1>9, <1>10, QueryCoherent DEF BRCodePreview
<1>11. CASE Payment(r)
  <2>1. CASE PaymentContinues(r)
    BY <1>1, <2>1, ContinueCoherent DEF PaymentContinues
  <2>2. CASE PaymentStarts(r)
    BY <1>1, <1>2, <1>3, <2>2, ContinueCoherent, NodeReturnsCoherent
       DEF PaymentStarts, ActionReturns, Nodes
  <2>3. CASE PaymentPreview(r)
    <3>1. UNCHANGED transfers
      BY <2>3 DEF PaymentPreview
    <3>2. CASE Continue(r, Previewed(st[r], st[r].brcode, qrStatus[st[r].brcode]),
                        "resolveAmount")
      BY <1>9, <3>1, <3>2, OneQRIsOneSource, ContinueCoherent
    <3>3. CASE UseFallback(r)
      BY <1>2, <3>1, <3>3, UseFallbackCoherent
    <3>4. CASE ActionReturns(r, Failed(st[r]))
      BY <1>2, <1>3, <3>1, <3>4, NodeReturnsCoherent DEF ActionReturns, Nodes
    <3> QED
      BY <2>3, <3>2, <3>3, <3>4 DEF PaymentPreview
  <2>4. ASSUME pc[r] = "resolveAmount"
        PROVE  /\ OfOneQR(work[r])
               /\ OfOneQR([work[r] EXCEPT !.awaiting_amount = TRUE])
               /\ OfOneQR(Failed(work[r]))
               /\ \A x : OfOneQR([Failed(work[r]) EXCEPT !.brcode_status = x])
               /\ \A a : OfOneQR([work[r] EXCEPT !.withdraw_amount = a])
    BY <1>1, <2>4, UpdatesKeepOneQR DEF CoherenceInv
  <2>5. CASE RefuseUnpayable(r) \/ AskAmount(r) \/ UnknownAmountType(r)
    BY <1>2, <2>4, <2>5, NodeReturnsCoherent
       DEF RefuseUnpayable, AskAmount, UnknownAmountType, Payable, ActionReturns, Nodes
  <2>6. CASE PayFixed(r) \/ PayCustom(r)
    BY <2>4, <2>6, OneQRIsOneSource, ContinueCoherent DEF PayFixed, PayCustom, Payable
  <2> QED
    BY <1>11, <2>1, <2>2, <2>3, <2>5, <2>6 DEF Payment
<1>12. CASE PixWithdraw(r)
  BY <1>1, <1>12, ContinueCoherent DEF PixWithdraw
<1>13. CASE Enrich(r)
  BY <1>1, <1>13, ContinueCoherent DEF Enrich, NeedsLookup
<1>14. CASE Lookup(r)
  <2>1. work[r].withdraw_init_type = "DICT"
    BY <1>14 DEF Lookup, CoherenceInv
  <2>2. OfOneSource(LookedUp(work[r], work[r].pix_key))
    BY <1>1, <2>1, LookedUpOfOneSource
  <2> QED
    BY <1>1, <1>14, <2>2, ContinueCoherent DEF Lookup
<1>15. CASE Validate(r)
  BY <1>1, <1>2, <1>3, <1>15, ContinueCoherent, NodeReturnsCoherent
     DEF Validate, ActionReturns, Nodes
<1>16. CASE Transfer(r)
  <2>1. PICK reply \in Replies, debited \in BOOLEAN :
          /\ transfers' = [transfers EXCEPT ![r] =
               Append(@, [account |-> account[r], payload |-> Payload(work[r]),
                          reply |-> reply, debited |-> debited])]
          /\ TransferReturns(r, reply)
    BY <1>16 DEF Transfer
  <2> DEFINE sent == [account |-> account[r], payload |-> Payload(work[r]),
                      reply |-> reply, debited |-> debited]
             old == transfers[r]
  <2>2. ValidTransfer(work[r])
    BY <1>16 DEF Transfer, CoherenceInv
  <2>3. old \in Seq(Attempt)
    BY DEF TypeOK
  <2>4. \A o \in Requests : transfers'[o] = IF o = r THEN Append(old, sent)
                                                     ELSE transfers[o]
    BY <2>1 DEF TypeOK
  <2>5. sent.payload = Payload(work[r])
    OBVIOUS
  <2>6. \A i \in DOMAIN Append(old, sent) :
          Append(old, sent)[i].payload = Payload(work[r]) \/
          (i \in DOMAIN old /\ Append(old, sent)[i] = old[i])
    <3> HIDE DEF sent, old
    <3> QED
      BY <2>3, <2>5
  <2>7. CoherentPayload'
    <3>1. Coherent(Payload(work[r]))
      BY <1>1, <2>2, ValidPayload
    <3>2. \A i \in DOMAIN old : Coherent(old[i].payload)
      BY DEF CoherenceInv, CoherentPayload
    <3>3. \A i \in DOMAIN Append(old, sent) : Coherent(Append(old, sent)[i].payload)
      <4> HIDE DEF sent, old
      <4> QED
        BY <2>6, <3>1, <3>2
    <3> HIDE DEF sent, old
    <3>4. \A o \in Requests : \A i \in DOMAIN transfers[o] :
            Coherent(transfers[o][i].payload)
      BY DEF CoherenceInv, CoherentPayload
    <3> QED
      BY <2>4, <3>3, <3>4 DEF CoherentPayload
  <2>8. OfOneQR(Succeeded(st[r], Receipt(r)))
    BY <1>1, UpdatesKeepOneQR
  <2> QED
    BY <1>3, <2>1, <2>7, <2>8, NodeReturnsCoherent, UseFallbackCoherent
       DEF TransferReturns, ActionReturns, Nodes
<1>17. CASE Reply(r)
  <2>1. \A o \in Requests : /\ pc'[o] = IF o = r THEN "done" ELSE pc[o]
                            /\ st'[o] = IF o = r THEN EmptyState ELSE st[o]
    BY <1>17 DEF Reply, Goto, TypeOK
  <2> QED
    BY <1>17, <2>1, EmptyOfOneQR DEF Reply, CoherenceInv, CoherentPayload
<1>18. CASE SaveCheckpoint(r)
  <2>1. \A t \in Threads : OfOneQR(saved'[t])
    BY <1>1, <1>18 DEF SaveCheckpoint, CoherenceInv, TypeOK
  <2> QED
    BY <1>18, <2>1 DEF SaveCheckpoint, CoherenceInv, CoherentPayload
<1> QED
  BY <1>4, <1>5, <1>6, <1>7, <1>8, <1>10, <1>11, <1>12, <1>13, <1>14, <1>15, <1>16,
     <1>17, <1>18 DEF Step, Withdraw

LEMMA CoherenceNext == TypeInv /\ CoherenceInv /\ [Next]_vars => CoherenceInv'
<1> SUFFICES ASSUME TypeOK, CoherenceInv, [Next]_vars PROVE CoherenceInv'
  BY DEF TypeInv
<1>1. ASSUME NEW r \in Requests, NEW t \in Threads, NEW m \in Messages,
             Receive(r, t, m)
      PROVE  CoherenceInv'
  <2>1. \A o \in Requests : /\ pc'[o] = IF o = r THEN "guardrail" ELSE pc[o]
                            /\ st'[o] = IF o = r THEN saved[t] ELSE st[o]
    BY <1>1 DEF Receive, Goto, TypeOK
  <2> QED
    BY <1>1, <2>1 DEF Receive, CoherenceInv, CoherentPayload
<1>2. ASSUME NEW r \in Requests, Step(r) PROVE CoherenceInv'
  BY <1>2, CoherenceStep
<1>3. ASSUME NEW r \in Requests, SaveFails(r) PROVE CoherenceInv'
  BY <1>3 DEF SaveFails, CoherenceInv, CoherentPayload
<1>4. CASE Crash
  <2>1. \A r \in Requests : /\ pc'[r] = IF pc[r] \in Steps THEN "crashed" ELSE pc[r]
                            /\ st'[r] = EmptyState /\ work'[r] = EmptyState
    BY <1>4 DEF Crash, Running
  <2> QED
    BY <1>4, <2>1, EmptyOfOneQR, OneQRIsOneSource
       DEF Crash, CoherenceInv, CoherentPayload, Steps
<1>5. ASSUME NEW q \in QRs, QRStatusChanges(q) PROVE CoherenceInv'
  BY <1>5 DEF QRStatusChanges, CoherenceInv, CoherentPayload
<1>6. CASE UNCHANGED vars
  BY <1>6 DEF vars, CoherenceInv, CoherentPayload
<1> QED
  BY <1>1, <1>2, <1>3, <1>4, <1>5, <1>6 DEF Next, Quiescent

(* Every transfer names one payee with that payee's own end-to-end id and  *)
(* QR fields, over any number of turns, threads, concurrent runs and       *)
(* restarts from a checkpoint.                                             *)
THEOREM PayloadsAreCoherent == Spec => []CoherentPayload
<1>1. Init => TypeInv /\ CoherenceInv
  BY TypeInit, CoherenceInit
<1>2. (TypeInv /\ CoherenceInv) /\ [Next]_vars => (TypeInv /\ CoherenceInv)'
  BY TypeNext, CoherenceNext
<1>3. CoherenceInv => CoherentPayload
  BY DEF CoherenceInv
<1> QED
  BY <1>1, <1>2, <1>3, PTL DEF Spec
=============================================================================
