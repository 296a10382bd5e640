--------------------------- MODULE PixAmount_proofs ---------------------------
(***************************************************************************)
(* Proof, for every value of the constants, that an amount that is paid is *)
(* the QR Code's own or was said by an allowed message of the same         *)
(* conversation; and that the first message of a conversation is carried   *)
(* out, and reported, as it reads.                                         *)
(***************************************************************************)
EXTENDS PixTurns_proofs

(***************************************************************************)
(* The amount of a state comes with the beneficiary of the state, from one *)
(* decode, or from a message.  Two steps could separate the two: a lookup, *)
(* which replaces the beneficiary, is reached only without one; and a      *)
(* CUSTOM QR Code takes the amount of the state before the decode, which   *)
(* is not another QR Code's since that payment would be a continuation.    *)
(***************************************************************************)
Offers(m) == {m.amount, m.numeral}

Offered(t, a) == \E by \in Requests : /\ thread[by] = t
                                      /\ pc[by] \notin Unchecked
                                      /\ Passed(by)
                                      /\ a \in Offers(msg[by])

PricedBy(payee, a) == payee \in QRs /\ a = BankQR[payee].amount

Priced(t, s) == \/ s.withdraw_amount = NONE
                \/ PricedBy(s.withdraw_beneficiary, s.withdraw_amount)
                \/ Offered(t, s.withdraw_amount)

Owed(t, p) == PricedBy(p.beneficiary, p.amount) \/ Offered(t, p.amount)

Decoding == {"paymentPreview", "resolveAmount"}

Guarded(r) ==
    /\ pc[r] \in Decoding => ~IsContinuation(st[r])
    /\ pc[r] = "lookup" => work[r].withdraw_beneficiary = NONE

AmountInv ==
    /\ \A t \in Threads : Priced(t, saved[t])
    /\ \A r \in Requests : Priced(thread[r], st[r]) /\ Priced(thread[r], work[r])
    /\ \A r \in Requests : Guarded(r)
    /\ \A r \in Requests : \A i \in DOMAIN transfers[r] :
          Owed(thread[r], transfers[r][i].payload)

(* The updates that touch neither amount nor beneficiary *)
LEMMA UpdatesKeepPrice ==
  ASSUME NEW s \in GraphState, NEW t, Priced(t, s)
  PROVE  /\ Priced(t, [s EXCEPT !.command = "unknown"])
         /\ \A b : Priced(t, [s EXCEPT !.is_blocked = b])
         /\ Priced(t, [s EXCEPT !.action_success = TRUE])
         /\ Priced(t, [s EXCEPT !.awaiting_amount = TRUE])
         /\ \A data : Priced(t, Succeeded(s, data))
         /\ Priced(t, Failed(s))
         /\ \A b : Priced(t, [Failed(s) EXCEPT !.brcode_status = b])
<1> DEFINE Same(u) == /\ u.withdraw_amount = s.withdraw_amount
                      /\ u.withdraw_beneficiary = s.withdraw_beneficiary
<1>1. ASSUME NEW u, Same(u) PROVE Priced(t, u)
  BY <1>1 DEF Priced
<1>2. /\ Same([s EXCEPT !.command = "unknown"])
      /\ \A b : Same([s EXCEPT !.is_blocked = b])
      /\ Same([s EXCEPT !.action_success = TRUE])
      /\ Same([s EXCEPT !.awaiting_amount = TRUE])
  BY DEF GraphState
<1>3. \A data : Same(Succeeded(s, data))
  BY DEF GraphState, Succeeded
<1>4. Same(Failed(s)) /\ \A b : Same([Failed(s) EXCEPT !.brcode_status = b])
  BY DEF GraphState, Failed
<1> QED
  <2> HIDE DEF Same
  <2> QED
    BY <1>1, <1>2, <1>3, <1>4

(* The updates that set an amount, and the one that sets a beneficiary *)
LEMMA SaidPrice ==
  ASSUME NEW s \in GraphState, NEW t, Priced(t, s), NEW m \in Message, NEW u,
         u \in {Classified(s, m), Continued(s, m)}
  PROVE  Priced(t, u) \/ u.withdraw_amount \in Offers(m)
<1>1. u.withdraw_beneficiary = s.withdraw_beneficiary
  BY DEF GraphState, Classified, Continued
<1>2. u.withdraw_amount = s.withdraw_amount \/ u.withdraw_amount \in Offers(m)
  BY DEF GraphState, Classified, Continued, Offers
<1> QED
  BY <1>1, <1>2 DEF Priced

LEMMA DecodedPrice ==
  ASSUME NEW s \in GraphState, NEW q \in QRs, NEW status, NEW t
  PROVE  Priced(t, Previewed(s, q, status))
  BY DEF GraphState, Previewed, Decoded, Priced, PricedBy

LEMMA LookedUpPrice ==
  ASSUME NEW w \in GraphState, NEW t, Priced(t, w), w.withdraw_beneficiary = NONE, NEW k
  PROVE  Priced(t, LookedUp(w, k))
<1>1. LookedUp(w, k).withdraw_amount = w.withdraw_amount
  BY DEF GraphState, LookedUp
<1>2. ~PricedBy(w.withdraw_beneficiary, w.withdraw_amount)
  BY NONEIsNoData DEF PricedBy, Sources
<1> QED
  BY <1>1, <1>2 DEF Priced

LEMMA CustomPrice ==
  ASSUME NEW r \in Requests, st[r] \in GraphState, work[r] \in GraphState,
         Priced(thread[r], st[r]), Priced(thread[r], work[r]),
         OfOneQR(st[r]), ~IsContinuation(st[r]), PositiveAmount(CustomAmount(r))
  PROVE  Priced(thread[r], [work[r] EXCEPT !.withdraw_amount = CustomAmount(r)])
<1> DEFINE u == [work[r] EXCEPT !.withdraw_amount = CustomAmount(r)]
<1>1. /\ u.withdraw_amount = CustomAmount(r)
      /\ u.withdraw_beneficiary = work[r].withdraw_beneficiary
  BY DEF GraphState
<1> HIDE DEF u
<1>2. CASE Truthy(work[r].withdraw_amount)
  BY <1>1, <1>2 DEF CustomAmount, Priced
<1>3. CASE ~Truthy(work[r].withdraw_amount)
  <2>1. CustomAmount(r) = st[r].withdraw_amount /\ Truthy(st[r].withdraw_amount)
    BY <1>3 DEF CustomAmount, PositiveAmount
  <2>2. st[r].withdraw_beneficiary = NONE
    BY <2>1 DEF IsContinuation, OfOneQR
  <2>3. Offered(thread[r], st[r].withdraw_amount)
    BY <2>1, <2>2, NONEIsNoData DEF Priced, PricedBy, Sources, Truthy
  <2> QED
    BY <1>1, <2>1, <2>3 DEF Priced
<1> QED
  BY <1>2, <1>3 DEF u

LEMMA EmptyPrice == \A t : Priced(t, EmptyState)
  BY DEF Priced, EmptyState

(***************************************************************************)
(* What a step of r may do to its prices: nothing new, except that the     *)
(* classification takes what the message of r says.                        *)
(***************************************************************************)
KeepsPrice(r) == /\ Priced(thread[r], st'[r]) /\ Priced(thread[r], work'[r])
                 /\ Guarded(r)'

LEMMA NodeReturnsPrice ==
  ASSUME TypeOK, NEW r \in Requests, NEW s, NEW next \in Nodes,
         NodeReturns(r, s, next), Priced(thread[r], s)
  PROVE  KeepsPrice(r)
<1>1. st'[r] = s /\ work'[r] = EmptyState /\ pc'[r] = next
  BY DEF TypeOK, NodeReturns, Goto
<1> QED
  BY <1>1, EmptyPrice DEF KeepsPrice, Guarded, Nodes, Decoding

LEMMA ContinuePrice ==
  ASSUME TypeOK, NEW r \in Requests, NEW w, NEW next, Continue(r, w, next),
         Priced(thread[r], st[r]), Priced(thread[r], w),
         next \in Decoding => ~IsContinuation(st[r]),
         next = "lookup" => w.withdraw_beneficiary = NONE
  PROVE  KeepsPrice(r)
<1>1. st'[r] = st[r] /\ work'[r] = w /\ pc'[r] = next
  BY DEF TypeOK, Continue, Goto
<1> QED
  BY <1>1 DEF KeepsPrice, Guarded

LEMMA UseFallbackPrice ==
  ASSUME AmountInv, NEW r \in Requests, UseFallback(r)
  PROVE  KeepsPrice(r)
<1>1. UNCHANGED <<pc, st, work>>
  BY DEF UseFallback
<1> QED
  BY <1>1 DEF AmountInv, KeepsPrice, Guarded

LEMMA QueryPrice ==
  ASSUME TypeOK, AmountInv, NEW r \in Requests, NEW ok, Priced(thread[r], ok),
         Query(r, ok) \/ RejectQuery(r)
  PROVE  KeepsPrice(r)
<1>1. Priced(thread[r], Failed(st[r]))
  BY UpdatesKeepPrice DEF TypeOK, AmountInv
<1>2. ASSUME NEW s, ActionReturns(r, s), Priced(thread[r], s) PROVE KeepsPrice(r)
  BY <1>2, NodeReturnsPrice DEF ActionReturns, Nodes
<1> QED
  BY <1>1, <1>2, UseFallbackPrice DEF Query, RejectQuery

LEMMA StepPrice ==
  ASSUME TypeInv, CoherenceInv, AmountInv, NEW r \in Requests, Step(r)
  PROVE  \/ KeepsPrice(r)
         \/ /\ pc[r] = "identifyIntent" /\ pc'[r] \in Nodes \ Unchecked
            /\ work'[r] = EmptyState
            /\ st'[r].withdraw_amount \in Offers(msg[r])
<1>1. /\ st[r] \in GraphState /\ work[r] \in GraphState /\ TypeOK
      /\ Priced(thread[r], st[r]) /\ Priced(thread[r], work[r])
      /\ Guarded(r) /\ OfOneQR(st[r])
  BY DEF TypeInv, TypeOK, AmountInv, CoherenceInv
<1>a. ASSUME NEW s, NEW next \in Nodes, NodeReturns(r, s, next), Priced(thread[r], s)
      PROVE  KeepsPrice(r)
  BY <1>1, <1>a, NodeReturnsPrice
<1>b. /\ Priced(thread[r], Failed(st[r]))
      /\ Priced(thread[r], Failed(work[r]))
      /\ \A b : Priced(thread[r], [Failed(work[r]) EXCEPT !.brcode_status = b])
      /\ \A data : Priced(thread[r], Succeeded(st[r], data))
      /\ Priced(thread[r], [st[r] EXCEPT !.is_blocked = TRUE])
      /\ Priced(thread[r], [st[r] EXCEPT !.is_blocked = FALSE])
      /\ Priced(thread[r], [st[r] EXCEPT !.action_success = TRUE])
      /\ Priced(thread[r], [work[r] EXCEPT !.awaiting_amount = TRUE])
  BY <1>1, UpdatesKeepPrice
<1>c. ASSUME NEW s, ActionReturns(r, s), Priced(thread[r], s) PROVE KeepsPrice(r)
  BY <1>a, <1>c DEF ActionReturns, Nodes
<1>d. UseFallback(r) => KeepsPrice(r)
  BY UseFallbackPrice
<1>2. CASE GuardrailBlocks(r) \/ GuardrailPasses(r)
  BY <1>a, <1>b, <1>2 DEF GuardrailBlocks, GuardrailPasses, Nodes
<1>3. CASE GuardrailFails(r) \/ BlockedResponse(r) \/ ChatResponse(r)
  <2>1. /\ st'[r] = st[r] /\ work'[r] = work[r] /\ pc'[r] = "reply"
    BY <1>1, <1>3 DEF GuardrailFails, BlockedResponse, ChatResponse, Goto, TypeOK
  <2> QED
    BY <1>1, <2>1 DEF KeepsPrice, Guarded, Decoding
<1>4. CASE ResolveAmount(r) \/ Classify(r) \/ ClassifyFails(r)
  <2>1. pc[r] = "identifyIntent" /\ msg[r] \in Message
    BY <1>1, <1>4, MessagesAssumption
       DEF ResolveAmount, Classify, ClassifyFails, TypeOK
  <2>2. PICK s, c : /\ NodeReturns(r, s, RouteIntent(c))
                    /\ \/ Priced(thread[r], s)
                       \/ s.withdraw_amount \in Offers(msg[r])
    <3>1. \A u \in {Classified(st[r], msg[r]), Continued(st[r], msg[r])} :
            Priced(thread[r], u) \/ u.withdraw_amount \in Offers(msg[r])
      BY <1>1, <2>1, SaidPrice
    <3>2. Priced(thread[r], [st[r] EXCEPT !.command = "unknown"])
      BY <1>1, UpdatesKeepPrice
    <3> QED
      BY <1>4, <3>1, <3>2 DEF ResolveAmount, Classify, ClassifyFails
  <2>3. st'[r] = s /\ work'[r] = EmptyState /\ pc'[r] = RouteIntent(c)
    BY <1>1, <2>2 DEF TypeOK, NodeReturns, Goto
  <2>4. RouteIntent(c) \in Nodes \ Unchecked
    BY DEF RouteIntent, Nodes, Unchecked
  <2> QED
    BY <1>a, <2>1, <2>2, <2>3, <2>4
<1>5. CASE Fallback(r)
  BY <1>b, <1>c, <1>5 DEF Fallback
<1>6. CASE ListKeys(r) \/ ReadKey(r)
  BY <1>1, <1>b, <1>6, QueryPrice DEF ListKeys, ReadKey
<1>7. CASE BRCodePreview(r)
  <2>1. CASE Decodable(st[r])
    <3>1. st[r].brcode \in QRs
      BY <1>1, <2>1 DEF Decodable, GraphState, Optional
    <3>2. Priced(thread[r], Previewed(st[r], st[r].brcode, qrStatus[st[r].brcode]))
      BY <1>1, <3>1, DecodedPrice
    <3> QED
      BY <1>1, <1>7, <3>2, QueryPrice DEF BRCodePreview
  <2>2. CASE ~Decodable(st[r])
    BY <1>1, <1>7, <2>2, QueryPrice DEF BRCodePreview
  <2> QED
    BY <2>1, <2>2
<1>8. CASE Payment(r)
  <2>1. CASE PaymentContinues(r)
    BY <1>1, <2>1, ContinuePrice DEF PaymentContinues, Decoding
  <2>2. CASE PaymentStarts(r)
    BY <1>1, <1>b, <1>c, <2>2, ContinuePrice DEF PaymentStarts
  <2>3. CASE PaymentPreview(r)
    <3>1. st[r].brcode \in QRs /\ ~IsContinuation(st[r])
      BY <1>1, <2>3 DEF PaymentPreview, TypeInv, PreviewDecodable, Decodable,
                        GraphState, Optional, Guarded, Decoding
    <3>2. Priced(thread[r], Previewed(st[r], st[r].brcode, qrStatus[st[r].brcode]))
      BY <1>1, <3>1, DecodedPrice
    <3> QED
      BY <1>1, <1>b, <1>c, <1>d, <2>3, <3>1, <3>2, ContinuePrice DEF PaymentPreview
  <2>4. CASE RefuseUnpayable(r) \/ AskAmount(r) \/ UnknownAmountType(r)
    BY <1>b, <1>c, <2>4 DEF RefuseUnpayable, AskAmount, UnknownAmountType
  <2>5. CASE PayFixed(r)
    BY <1>1, <2>5, ContinuePrice DEF PayFixed, Decoding
  <2>6. CASE PayCustom(r)
    <3>1. ~IsContinuation(st[r]) /\ PositiveAmount(CustomAmount(r))
      BY <1>1, <2>6 DEF PayCustom, Payable, Guarded, Decoding
    <3>2. Priced(thread[r], [work[r] EXCEPT !.withdraw_amount = CustomAmount(r)])
      BY <1>1, <3>1, CustomPrice
    <3> QED
      BY <1>1, <2>6, <3>2, ContinuePrice DEF PayCustom, Decoding
  <2> QED
    BY <1>8, <2>1, <2>2, <2>3, <2>4, <2>5, <2>6 DEF Payment
<1>9. CASE PixWithdraw(r)
  BY <1>1, <1>9, ContinuePrice DEF PixWithdraw, Decoding
<1>10. CASE Enrich(r)
  BY <1>1, <1>10, ContinuePrice DEF Enrich, NeedsLookup, Decoding
<1>11. CASE Lookup(r)
  <2>1. Priced(thread[r], LookedUp(work[r], work[r].pix_key))
    BY <1>1, <1>11, LookedUpPrice DEF Lookup, Guarded
  <2> QED
    BY <1>1, <1>11, <2>1, ContinuePrice DEF Lookup, Decoding
<1>12. CASE Validate(r)
  BY <1>1, <1>b, <1>c, <1>12, ContinuePrice DEF Validate, Decoding
<1>13. CASE Transfer(r)
  BY <1>b, <1>c, <1>d, <1>13 DEF Transfer, TransferReturns
<1>14. CASE Reply(r)
  <2>1. st'[r] = EmptyState /\ work'[r] = work[r] /\ pc'[r] = "done"
    BY <1>1, <1>14 DEF Reply, Goto, TypeOK
  <2> QED
    BY <1>1, <2>1, EmptyPrice DEF KeepsPrice, Guarded, Decoding
<1>15. CASE SaveCheckpoint(r)
  BY <1>1, <1>15 DEF SaveCheckpoint, KeepsPrice, Guarded
<1> QED
  BY <1>2, <1>3, <1>4, <1>5, <1>6, <1>7, <1>8, <1>9, <1>10, <1>11, <1>12, <1>13,
     <1>14, <1>15 DEF Step, Withdraw

-----------------------------------------------------------------------------
(* What an allowed message offered stays offered: prices only gain. *)
LEMMA PricedGrows ==
  ASSUME \A by \in Requests : pc[by] \notin Unchecked /\ Passed(by) =>
            /\ pc'[by] \notin Unchecked /\ Passed(by)'
            /\ thread'[by] = thread[by] /\ msg'[by] = msg[by]
  PROVE  /\ \A t, a : Offered(t, a) => Offered(t, a)'
         /\ \A t, s : (\A a : Offered(t, a) => Offered(t, a)') /\ Priced(t, s)
                     => Priced(t, s)'
<1>1. \A t, a : Offered(t, a) => Offered(t, a)'
  BY DEF Offered
<1> QED
  BY <1>1 DEF Priced

LEMMA AllowedStays ==
  ASSUME NEW r \in Requests, Advances(r), NEW by \in Requests,
         pc[by] \notin Unchecked, Passed(by)
  PROVE  /\ pc'[by] \notin Unchecked /\ Passed(by)'
         /\ thread'[by] = thread[by] /\ msg'[by] = msg[by]
<1>1. CASE by # r
  BY <1>1 DEF Advances, Others, Passed
<1>2. CASE by = r
  BY <1>2 DEF Advances, Passed, Unchecked
<1> QED
  BY <1>1, <1>2

LEMMA AmountInit == Init => AmountInv
<1> SUFFICES ASSUME Init PROVE AmountInv
  OBVIOUS
<1>1. /\ \A r \in Requests : /\ pc[r] = "idle" /\ transfers[r] = << >>
                            /\ st[r] = EmptyState /\ work[r] = EmptyState
      /\ \A t \in Threads : saved[t] = EmptyState
  BY DEF Init
<1> QED
  BY <1>1, EmptyPrice DEF AmountInv, Guarded, Decoding

LEMMA AmountStep ==
  ASSUME TypeInv, CoherenceInv, NamesInv, NamesInv', AmountInv,
         NEW r \in Requests, Step(r)
  PROVE  AmountInv'
<1>1. TypeOK /\ Advances(r) /\ UNCHANGED <<thread, msg>>
  BY StepAdvances DEF TypeInv, Advances
<1>2. /\ \A t, a : Offered(t, a) => Offered(t, a)'
      /\ \A t, s : Priced(t, s) => Priced(t, s)'
  BY <1>1, AllowedStays, PricedGrows
<1>3. ASSUME NEW t \in Threads PROVE Priced(t, saved[t])'
  <2>1. Priced(t, saved'[t])
    BY <1>1, OnlySavesWrite DEF AmountInv
  <2> QED
    BY <1>2, <2>1 DEF Priced
<1>4. Priced(thread[r], st[r])' /\ Priced(thread[r], work[r])' /\ Guarded(r)'
  <2>1. CASE KeepsPrice(r)
    BY <1>1, <1>2, <2>1 DEF KeepsPrice, Priced
  <2>2. CASE ~KeepsPrice(r)
    <3>1. /\ pc'[r] \in Nodes \ Unchecked
          /\ work'[r] = EmptyState
          /\ st'[r].withdraw_amount \in Offers(msg[r])
      BY <2>2, StepPrice
    <3>2. Passed(r)'
      BY <3>1 DEF NamesInv, Nodes, AnswersNext
    <3>3. Offered(thread[r], st[r].withdraw_amount)'
      BY <1>1, <3>1, <3>2 DEF Offered
    <3> QED
      BY <3>1, <3>3 DEF Priced, Guarded, Nodes, Decoding, EmptyState
  <2> QED
    BY <2>1, <2>2
<1>5. ASSUME NEW o \in Requests \ {r}
      PROVE  Priced(thread[o], st[o])' /\ Priced(thread[o], work[o])' /\ Guarded(o)'
  <2>1. /\ pc'[o] = pc[o] /\ st'[o] = st[o] /\ work'[o] = work[o]
        /\ thread'[o] = thread[o]
    BY <1>1 DEF Advances, Others
  <2>2. Priced(thread[o], st[o]) /\ Priced(thread[o], work[o]) /\ Guarded(o)
    BY DEF AmountInv
  <2> QED
    BY <1>2, <2>1, <2>2 DEF Priced, Guarded
<1>6. ASSUME NEW o \in Requests, NEW i \in DOMAIN transfers'[o]
      PROVE  Owed(thread[o], transfers[o][i].payload)'
  <2>1. CASE i \in DOMAIN transfers[o] /\ transfers'[o][i] = transfers[o][i]
    BY <1>1, <1>2, <2>1 DEF AmountInv, Owed, PricedBy
  <2>2. CASE ~(i \in DOMAIN transfers[o] /\ transfers'[o][i] = transfers[o][i])
    <3>1. o = r /\ pc[r] = "transfer" /\ transfers'[r][i].payload = Payload(work[r])
      BY <1>1, <1>6, <2>2, OnlyTransferSends DEF Transfer
    <3>2. Priced(thread[r], work[r]) /\ work[r].withdraw_amount # NONE
      BY <3>1 DEF AmountInv, CoherenceInv, ValidTransfer, ValidAmount
    <3>3. /\ transfers'[r][i].payload.beneficiary = work[r].withdraw_beneficiary
          /\ transfers'[r][i].payload.amount = work[r].withdraw_amount
      BY <3>1 DEF Payload
    <3> QED
      BY <1>1, <1>2, <3>1, <3>2, <3>3 DEF Priced, Owed, PricedBy
  <2> QED
    BY <2>1, <2>2
<1> QED
  BY <1>3, <1>4, <1>5, <1>6 DEF AmountInv

LEMMA AmountNext ==
  /\ TypeInv /\ TransferInv /\ CoherenceInv /\ NamesInv /\ NamesInv' /\ AmountInv
  /\ [Next]_vars
  => AmountInv'
<1> SUFFICES ASSUME TypeInv, TransferInv, CoherenceInv, NamesInv, NamesInv',
                    AmountInv, [Next]_vars
             PROVE  AmountInv'
  OBVIOUS
<1>1. ASSUME NEW r \in Requests, NEW t \in Threads, NEW m \in Messages,
             Receive(r, t, m)
      PROVE  AmountInv'
  <2>1. /\ pc[r] = "idle" /\ pc'[r] = "guardrail" /\ thread'[r] = t
        /\ st'[r] = saved[t] /\ UNCHANGED <<work, answer, saved, transfers>>
        /\ \A o \in Requests \ {r} : /\ pc'[o] = pc[o] /\ st'[o] = st[o]
                                      /\ thread'[o] = thread[o] /\ msg'[o] = msg[o]
    BY <1>1 DEF Receive, Goto, TypeInv, TypeOK
  <2>2. /\ \A u, a : Offered(u, a) => Offered(u, a)'
        /\ \A u, s : Priced(u, s) => Priced(u, s)'
    BY <2>1, PricedGrows DEF Unchecked, Passed
  <2>3. work[r] = EmptyState /\ transfers[r] = << >>
    BY <2>1 DEF NamesInv, TransferInv, Before
  <2>4. \A u \in Threads : Priced(u, saved[u])'
    BY <2>1, <2>2 DEF AmountInv, Priced
  <2>5. Priced(thread[r], st[r])' /\ Priced(thread[r], work[r])' /\ Guarded(r)'
    BY <2>1, <2>3, <2>4 DEF Priced, EmptyState, Guarded, Decoding
  <2>6. ASSUME NEW o \in Requests \ {r}
        PROVE  Priced(thread[o], st[o])' /\ Priced(thread[o], work[o])' /\ Guarded(o)'
    <3>1. Priced(thread[o], st[o]) /\ Priced(thread[o], work[o]) /\ Guarded(o)
      BY DEF AmountInv
    <3> QED
      BY <2>1, <2>2, <3>1 DEF Priced, Guarded
  <2>7. \A o \in Requests : \A i \in DOMAIN transfers'[o] :
          Owed(thread[o], transfers[o][i].payload)'
    BY <2>1, <2>2, <2>3 DEF AmountInv, Owed, PricedBy
  <2> QED
    BY <2>4, <2>5, <2>6, <2>7 DEF AmountInv
<1>2. ASSUME NEW r \in Requests, Step(r) PROVE AmountInv'
  BY <1>2, AmountStep
<1>3. ASSUME NEW r \in Requests, SaveFails(r) PROVE AmountInv'
  <2>1. /\ UNCHANGED <<pc, thread, msg, st, work, saved, transfers>>
        /\ \A o \in Requests :
             answer'[o].kind = "refused" => answer[o].kind = "refused"
    BY <1>3 DEF SaveFails, Draft, Answer, TypeInv, TypeOK
  <2>2. /\ \A u, a : Offered(u, a) => Offered(u, a)'
        /\ \A u, s : Priced(u, s) => Priced(u, s)'
    BY <2>1, PricedGrows DEF Passed
  <2> QED
    BY <2>1, <2>2 DEF AmountInv, Priced, PricedBy, Owed, Guarded
<1>4. CASE Crash
  <2>1. /\ UNCHANGED <<thread, msg, saved, transfers>>
        /\ \A o \in Requests :
             /\ st'[o] = EmptyState /\ work'[o] = EmptyState
             /\ pc'[o] = IF pc[o] \in Steps THEN "crashed" ELSE pc[o]
             /\ answer'[o].kind = "refused" => answer[o].kind = "refused"
    BY <1>4 DEF Crash, Running, NoAnswer, Answer
  <2>2. /\ \A u, a : Offered(u, a) => Offered(u, a)'
        /\ \A u, s : Priced(u, s) => Priced(u, s)'
    BY <2>1, PricedGrows DEF Passed, Unchecked
  <2>3. \A o \in Requests : pc'[o] \notin Decoding \cup {"lookup"}
    BY <2>1 DEF Decoding, Steps
  <2> QED
    BY <2>1, <2>2, <2>3, EmptyPrice DEF AmountInv, Priced, PricedBy, Owed, Guarded, EmptyState
<1>5. CASE UNCHANGED vars \/ \E q \in QRs : QRStatusChanges(q)
  <2>1. UNCHANGED <<pc, thread, msg, st, work, answer, saved, transfers>>
    BY <1>5 DEF vars, QRStatusChanges
  <2> QED
    BY <2>1 DEF AmountInv, Priced, PricedBy, Owed, Offered, Passed, Guarded
<1> QED
  BY <1>1, <1>2, <1>3, <1>4, <1>5 DEF Next, Quiescent

(* Everything that is invariant about who is paid and how much *)
PaymentInv == TypeInv /\ TransferInv /\ CoherenceInv /\ NamesInv /\ AmountInv

LEMMA PaymentInit == Init => PaymentInv
  BY TypeInit, TransferInit, CoherenceInit, NamesInit, AmountInit DEF PaymentInv

LEMMA PaymentNext == PaymentInv /\ [Next]_vars => PaymentInv'
<1> SUFFICES ASSUME PaymentInv, [Next]_vars PROVE PaymentInv'
  OBVIOUS
<1>1. TypeInv' /\ TransferInv' /\ CoherenceInv'
  BY TypeNext, TransferNext, CoherenceNext DEF PaymentInv
<1>2. NamesInv'
  BY <1>1, NamesNext DEF PaymentInv, CoherenceInv
<1> QED
  BY <1>1, <1>2, AmountNext DEF PaymentInv

(* The amount paid is the own amount of the payee's QR Code or was said by *)
(* an allowed message of the conversation, over any number of turns,       *)
(* decodes, concurrent requests and crashes.                               *)
THEOREM AmountsAreNamed == Spec => []AmountNamedOnThread
<1>1. PaymentInv => AmountNamedOnThread
  BY DEF PaymentInv, AmountInv, Owed, PricedBy, Offered, Offers, Passed, AmountNamedOnThread
<1> QED
  BY <1>1, PaymentInit, PaymentNext, PTL DEF Spec

-----------------------------------------------------------------------------
(***************************************************************************)
(* First turns.  While a request is alone on its thread, the checkpoint it *)
(* was given is the empty one, and each node passes on what its message    *)
(* says: the graph's state is Untouched until the message is classified,   *)
(* then an order to pay or to transfer, and the dictionary of the          *)
(* withdrawal is made of this order and, for a payment, of one decode.     *)
(***************************************************************************)
Withdrawing == {"withdraw", "lookup", "validate", "transfer"}

Untouched(s) ==
    /\ s.withdraw_end_to_end_id = NONE
    /\ s.withdraw_beneficiary = NONE
    /\ s.withdraw_init_type = NONE
    /\ s.withdraw_amount = NONE
    /\ ~s.awaiting_amount
    /\ s.brcode_status = NONE

OrdersPayment(m, s) ==
    /\ m.intent = "pix_payment" /\ s.command = "pix_payment"
    /\ s.brcode = m.brcode /\ s.withdraw_amount = m.amount
    /\ s.withdraw_end_to_end_id = NONE
    /\ ~s.awaiting_amount /\ s.brcode_status = NONE

OrdersWithdrawal(m, s) ==
    /\ m.intent = "pix_withdraw" /\ s.command = "pix_withdraw"
    /\ s.pix_key = m.pix_key /\ s.withdraw_amount = m.amount
    /\ s.withdraw_beneficiary = NONE
    /\ s.withdraw_init_type = IF m.pix_key # NONE THEN "DICT" ELSE NONE

DecodedFor(m, w) ==
    /\ m.brcode # NONE
    /\ w.withdraw_beneficiary = m.brcode
    /\ w.withdraw_amount = BankQR[m.brcode].amount
    /\ w.withdraw_amount_type = BankQR[m.brcode].amountType

PaysQR(m, s, w) ==
    /\ OrdersPayment(m, s)
    /\ m.brcode # NONE /\ w.withdraw_beneficiary = m.brcode
    /\ w.withdraw_amount = AmountToPay(m)

PaysKey(m, s, w) ==
    /\ OrdersWithdrawal(m, s)
    /\ w.pix_key = m.pix_key /\ w.withdraw_amount = m.amount
    /\ w.withdraw_beneficiary \in {NONE, m.pix_key}

Pays(r, w) == PaysQR(msg[r], st[r], w) \/ PaysKey(msg[r], st[r], w)

Sent(r) == \A i \in DOMAIN transfers[r] : Follows(msg[r], transfers[r][i].payload)

FirstTurn(r) ==
    /\ pc[r] \in {"guardrail", "identifyIntent"} => Untouched(st[r])
    /\ pc[r] \in Paying => OrdersPayment(msg[r], st[r])
    /\ pc[r] = "pixWithdraw" => OrdersWithdrawal(msg[r], st[r])
    /\ pc[r] = "resolveAmount" => DecodedFor(msg[r], work[r])
    /\ pc[r] \in Withdrawing => Pays(r, work[r])
    /\ pc[r] = "chatResponse" /\ Confirmed(transfers[r]) => Outcome(st[r]) = "success"
    /\ MovesMoney(answer[r]) /\ Confirmed(transfers[r]) => answer[r].outcome = "success"
    /\ Sent(r)

Fresh(t) == \A by \in Requests : pc[by] = "idle" \/ thread[by] # t

FirstInv ==
    /\ \A r \in Requests : pc[r] = "idle" => st[r] = EmptyState
    /\ \A t \in Threads : Fresh(t) => saved[t] = EmptyState
    /\ \A r \in Requests : pc[r] # "idle" /\ AloneOnThread(r) => FirstTurn(r)

(* What the updates of a first turn make of an untouched state *)
LEMMA FirstUpdates ==
  ASSUME NEW s \in GraphState, NEW m \in Message
  PROVE  /\ Untouched(s) =>
              /\ ~ResolvesAmount(s, m)
              /\ \A b : Untouched([s EXCEPT !.is_blocked = b])
              /\ m.intent = "pix_payment" => OrdersPayment(m, Classified(s, m))
              /\ m.intent = "pix_withdraw" => OrdersWithdrawal(m, Classified(s, m))
         /\ OrdersPayment(m, s) => ~IsContinuation(s)
         /\ OrdersPayment(m, s) \/ OrdersWithdrawal(m, s) =>
              \A data : Outcome(Succeeded(s, data)) = "success"
         /\ OrdersPayment(m, s) /\ Decodable(s) =>
              \A b : DecodedFor(m, Previewed(s, s.brcode, b))
<1>1. Untouched(s) =>
        /\ ~ResolvesAmount(s, m)
        /\ \A b : Untouched([s EXCEPT !.is_blocked = b])
  BY DEF Untouched, ResolvesAmount, GraphState
<1>2. /\ Untouched(s) /\ m.intent = "pix_payment" => OrdersPayment(m, Classified(s, m))
      /\ Untouched(s) /\ m.intent = "pix_withdraw" => OrdersWithdrawal(m, Classified(s, m))
  BY DEF Untouched, Classified, OrdersPayment, OrdersWithdrawal, GraphState
<1>3. OrdersPayment(m, s) => ~IsContinuation(s)
  BY DEF OrdersPayment, IsContinuation
<1>4. ASSUME NEW data, OrdersPayment(m, s) \/ OrdersWithdrawal(m, s)
      PROVE  Outcome(Succeeded(s, data)) = "success"
  <2>1. /\ Succeeded(s, data).command = s.command /\ Succeeded(s, data).action_success
        /\ Succeeded(s, data).awaiting_amount = s.awaiting_amount
        /\ Succeeded(s, data).brcode_status = s.brcode_status
    BY DEF Succeeded, GraphState
  <2> QED
    BY <1>4, <2>1, NONEIsNoData DEF Outcome, OrdersPayment, OrdersWithdrawal
<1>5. ASSUME NEW b, OrdersPayment(m, s), Decodable(s)
      PROVE  DecodedFor(m, Previewed(s, s.brcode, b))
  BY <1>5 DEF OrdersPayment, Decodable, DecodedFor, Previewed, Decoded, GraphState
<1> QED
  BY <1>1, <1>2, <1>3, <1>4, <1>5

(* A node of r returned, and r told nothing yet. *)
LEMMA FirstReturns ==
  ASSUME TypeOK, ReportInv, NEW r \in Requests, pc[r] \notin Told,
         NEW s, NEW next \in Nodes \ {"guardrail"}, NodeReturns(r, s, next),
         next = "identifyIntent" => Untouched(s),
         next \in Paying => next = "pixPayment" /\ OrdersPayment(msg[r], s),
         next = "pixWithdraw" => OrdersWithdrawal(msg[r], s),
         next = "chatResponse" /\ Confirmed(transfers'[r]) => Outcome(s) = "success",
         \A i \in DOMAIN transfers'[r] : Follows(msg[r], transfers'[r][i].payload)
  PROVE  FirstTurn(r)'
<1>1. /\ pc'[r] = next /\ st'[r] = s /\ answer'[r] = answer[r] /\ msg'[r] = msg[r]
  BY DEF TypeOK, NodeReturns, Goto
<1>2. ~MovesMoney(answer'[r])
  BY <1>1 DEF ReportInv, Report, MovesMoney
<1> QED
  BY <1>1, <1>2 DEF FirstTurn, Sent, Nodes, Withdrawing

(* r goes on inside its node. *)
LEMMA FirstContinues ==
  ASSUME TypeOK, ReportInv, NEW r \in Requests, pc[r] \notin Told, FirstTurn(r),
         NEW w, NEW next, Continue(r, w, next), UNCHANGED transfers,
         next \in {"paymentPreview", "resolveAmount"} \cup Withdrawing,
         next \in Paying => OrdersPayment(msg[r], st[r]),
         next = "resolveAmount" => DecodedFor(msg[r], w),
         next \in Withdrawing => Pays(r, w)
  PROVE  FirstTurn(r)'
<1>1. /\ pc'[r] = next /\ st'[r] = st[r] /\ work'[r] = w
      /\ answer'[r] = answer[r] /\ msg'[r] = msg[r]
  BY DEF TypeOK, Continue, Goto
<1>2. ~MovesMoney(answer'[r]) /\ Sent(r)'
  BY <1>1 DEF ReportInv, Report, MovesMoney, FirstTurn, Sent
<1>3. next \in Withdrawing => Pays(r, work[r])'
  BY <1>1 DEF Pays
<1> QED
  BY <1>1, <1>2, <1>3 DEF FirstTurn, Withdrawing

(* r tries the fallback account. *)
LEMMA FirstFallback ==
  ASSUME ReportInv, NEW r \in Requests, pc[r] \notin Told \cup {"chatResponse"},
         FirstTurn(r), UseFallback(r),
         \A i \in DOMAIN transfers'[r] : Follows(msg[r], transfers'[r][i].payload)
  PROVE  FirstTurn(r)'
<1>1. UNCHANGED <<pc, st, work, answer, msg>>
  BY DEF UseFallback
<1>2. ~MovesMoney(answer'[r]) /\ Sent(r)'
  BY <1>1 DEF ReportInv, Report, MovesMoney, Sent
<1> QED
  BY <1>1, <1>2 DEF FirstTurn, Pays

(* What a first turn sends is what its message orders: the dictionary was  *)
(* validated, so that it has a payee, and a payment's payee is no key.     *)
LEMMA FirstSends ==
  ASSUME TypeOK, TransferInv, CoherenceInv, NEW r \in Requests,
         FirstTurn(r), Transfer(r)
  PROVE  \A i \in DOMAIN transfers'[r] : Follows(msg[r], transfers'[r][i].payload)
<1>1. pc[r] = "transfer" /\ Pays(r, work[r]) /\ Sent(r)
  BY DEF Transfer, FirstTurn, Withdrawing
<1>2. work[r].withdraw_beneficiary # NONE
  BY <1>1 DEF CoherenceInv, ValidTransfer
<1>3. /\ Payload(work[r]).beneficiary = work[r].withdraw_beneficiary
      /\ Payload(work[r]).amount = work[r].withdraw_amount
  BY DEF Payload
<1>4. Follows(msg[r], Payload(work[r]))
  BY <1>1, <1>2, <1>3
     DEF Pays, PaysQR, PaysKey, OrdersPayment, OrdersWithdrawal, Follows
<1>5. \A i \in DOMAIN transfers'[r] :
        \/ i \in DOMAIN transfers[r] /\ transfers'[r][i] = transfers[r][i]
        \/ transfers'[r][i].payload = Payload(work[r])
  <2>1. /\ transfers[r] \in Seq(Attempt)
        /\ \E attempt : /\ attempt.payload = Payload(work[r])
                        /\ transfers'[r] = Append(transfers[r], attempt)
    BY DEF Transfer, TypeOK
  <2> QED
    BY <2>1
<1> QED
  BY <1>1, <1>4, <1>5 DEF Sent

(* The steps that lead a first turn to the transfer *)
LEMMA FirstPayment ==
  ASSUME TypeInv, TransferInv, CoherenceInv, ReportInv, NEW r \in Requests,
         FirstTurn(r), Payment(r)
  PROVE  FirstTurn(r)'
<1>1. /\ pc[r] \in Paying /\ pc[r] \notin Told /\ transfers[r] = << >>
      /\ UNCHANGED transfers
  BY DEF Payment, PaymentContinues, PaymentStarts, PaymentPreview, PayFixed, PayCustom,
         RefuseUnpayable, AskAmount, UnknownAmountType, Payable, Paying, Told,
         TransferInv, Before, Steps, Nodes
<1>2. /\ OrdersPayment(msg[r], st[r]) /\ st[r] \in GraphState /\ work[r] \in GraphState
      /\ msg[r] \in Message /\ TypeOK /\ pc[r] # "idle"
  BY <1>1, MessagesAssumption DEF FirstTurn, TypeInv, TypeOK, Paying
<1>3. ASSUME NEW s, ActionReturns(r, s) PROVE FirstTurn(r)'
  BY <1>1, <1>2, <1>3, FirstReturns DEF ActionReturns, Nodes, Confirmed, Paying
<1>4. CASE PaymentContinues(r)
  BY <1>2, <1>4, FirstUpdates DEF PaymentContinues
<1>5. CASE PaymentStarts(r)
  BY <1>1, <1>2, <1>3, <1>5, FirstContinues DEF PaymentStarts, Withdrawing
<1>6. CASE PaymentPreview(r)
  <2>1. Decodable(st[r])
    BY <1>6 DEF PaymentPreview, TypeInv, PreviewDecodable
  <2>2. \A b : DecodedFor(msg[r], Previewed(st[r], st[r].brcode, b))
    BY <1>2, <2>1, FirstUpdates
  <2>3. UseFallback(r) => FirstTurn(r)'
    BY <1>1, FirstFallback DEF Paying
  <2> QED
    BY <1>1, <1>2, <1>3, <1>6, <2>2, <2>3, FirstContinues
       DEF PaymentPreview, Withdrawing
<1>7. CASE RefuseUnpayable(r) \/ AskAmount(r) \/ UnknownAmountType(r)
  BY <1>3, <1>7 DEF RefuseUnpayable, AskAmount, UnknownAmountType
<1>8. CASE PayFixed(r) \/ PayCustom(r)
  <2>1. pc[r] = "resolveAmount" /\ DecodedFor(msg[r], work[r])
    BY <1>8 DEF PayFixed, PayCustom, Payable, FirstTurn
  <2>2. PICK w : /\ Continue(r, w, "withdraw")
                 /\ w.withdraw_beneficiary = msg[r].brcode
                 /\ w.withdraw_amount = AmountToPay(msg[r])
    <3>1. CASE PayFixed(r)
      BY <2>1, <3>1 DEF PayFixed, DecodedFor, AmountToPay
    <3>2. CASE PayCustom(r)
      <4> DEFINE w == [work[r] EXCEPT !.withdraw_amount = CustomAmount(r)]
      <4>1. /\ w.withdraw_beneficiary = work[r].withdraw_beneficiary
            /\ w.withdraw_amount = CustomAmount(r)
        BY <1>2 DEF GraphState
      <4>2. CustomAmount(r) = AmountToPay(msg[r])
        BY <1>2, <2>1, <3>2
           DEF PayCustom, CustomAmount, DecodedFor, AmountToPay, OrdersPayment
      <4> QED
        BY <2>1, <3>2, <4>1, <4>2 DEF PayCustom, DecodedFor
    <3> QED
      BY <1>8, <3>1, <3>2
  <2>3. Pays(r, w)
    BY <1>2, <2>1, <2>2 DEF Pays, PaysQR, DecodedFor
  <2> QED
    BY <1>1, <1>2, <2>2, <2>3, FirstContinues DEF Withdrawing, Paying
<1> QED
  BY <1>4, <1>5, <1>6, <1>7, <1>8 DEF Payment

(* A transfer that ends without a success was not confirmed on any account. *)
LEMMA NotConfirmed ==
  ASSUME TypeOK, TransferInv, NEW r \in Requests, Transfer(r), ~UseFallback(r),
         ~ActionReturns(r, Succeeded(st[r], Receipt(r)))
  PROVE  ActionReturns(r, Failed(st[r])) /\ ~Confirmed(transfers'[r])
<1>1. pc[r] = "transfer" /\ transfers[r] \in Seq(Attempt)
  BY DEF Transfer, TypeOK
<1>2. ~Confirmed(transfers[r])
  <2>1. \/ transfers[r] = << >>
        \/ Len(transfers[r]) = 1 /\ transfers[r][1].reply \in {402, 422}
    BY <1>1 DEF TransferInv, PrimaryRefused, TransferRetryable
  <2> QED
    BY <1>1, <2>1 DEF Confirmed, Accepted
<1>3. PICK reply \in Replies :
        /\ \E attempt : /\ attempt.reply = reply
                        /\ transfers' = [transfers EXCEPT ![r] = Append(@, attempt)]
        /\ ~Accepted(reply) /\ ActionReturns(r, Failed(st[r]))
  BY DEF Transfer, TransferReturns
<1>4. PICK attempt : /\ ~Accepted(attempt.reply)
                     /\ transfers'[r] = Append(transfers[r], attempt)
  BY <1>3 DEF TypeOK
<1>5. \A i \in DOMAIN transfers'[r] :
        \/ i \in DOMAIN transfers[r] /\ transfers'[r][i] = transfers[r][i]
        \/ transfers'[r][i] = attempt
  BY <1>1, <1>4
<1> QED
  BY <1>2, <1>3, <1>4, <1>5 DEF Confirmed

LEMMA FirstWithdraw ==
  ASSUME TypeInv, TransferInv, CoherenceInv, AmountInv, ReportInv,
         NEW r \in Requests, FirstTurn(r), PixWithdraw(r) \/ Withdraw(r)
  PROVE  FirstTurn(r)'
<1>1. /\ pc[r] \in {"pixWithdraw"} \cup Withdrawing /\ pc[r] \notin Told
      /\ TypeOK /\ st[r] \in GraphState /\ work[r] \in GraphState
      /\ msg[r] \in Message
  BY MessagesAssumption
     DEF PixWithdraw, Withdraw, Enrich, Lookup, Validate, Transfer, Withdrawing, Told,
         TypeInv, TypeOK
<1>2. ASSUME NEW w, NEW next \in Withdrawing, Continue(r, w, next),
             UNCHANGED transfers, Pays(r, w)
      PROVE  FirstTurn(r)'
  BY <1>1, <1>2, FirstContinues DEF Withdrawing, Paying
<1>3. CASE PixWithdraw(r)
  <2>1. OrdersWithdrawal(msg[r], st[r])
    BY <1>3 DEF PixWithdraw, FirstTurn
  <2>2. Pays(r, st[r])
    BY <2>1 DEF Pays, PaysKey, OrdersWithdrawal
  <2> QED
    BY <1>2, <1>3, <2>2 DEF PixWithdraw, Withdrawing
<1>4. ASSUME Withdraw(r) PROVE pc[r] \in Withdrawing /\ Pays(r, work[r])
  BY <1>4 DEF Withdraw, Enrich, Lookup, Validate, Transfer, Withdrawing, FirstTurn
<1>5. CASE Enrich(r)
  BY <1>2, <1>4, <1>5 DEF Withdraw, Enrich, Withdrawing
<1>6. CASE Lookup(r)
  <2>1. Pays(r, work[r]) /\ work[r].withdraw_beneficiary = NONE
    BY <1>4, <1>6 DEF Withdraw, Lookup, AmountInv, Guarded
  <2>2. PaysKey(msg[r], st[r], work[r])
    BY <2>1 DEF Pays, PaysQR
  <2>3. PaysKey(msg[r], st[r], LookedUp(work[r], work[r].pix_key))
    BY <1>1, <2>2 DEF PaysKey, LookedUp, GraphState
  <2> QED
    BY <1>2, <1>6, <2>1, <2>3 DEF Lookup, Withdrawing, Pays
<1>7. CASE Validate(r)
  <2>1. transfers[r] = << >>
    BY <1>7 DEF Validate, TransferInv, Before, Steps
  <2>2. ASSUME ActionReturns(r, Failed(st[r])), UNCHANGED transfers
        PROVE  FirstTurn(r)'
    BY <1>1, <2>1, <2>2, FirstReturns DEF ActionReturns, Nodes, Confirmed, Paying
  <2> QED
    BY <1>2, <1>4, <1>7, <2>2 DEF Withdraw, Validate, Withdrawing
<1>8. CASE Transfer(r)
  <2>1. \A i \in DOMAIN transfers'[r] : Follows(msg[r], transfers'[r][i].payload)
    BY <1>1, <1>8, FirstSends
  <2>2. OrdersPayment(msg[r], st[r]) \/ OrdersWithdrawal(msg[r], st[r])
    BY <1>4, <1>8 DEF Withdraw, Pays, PaysQR, PaysKey
  <2>3. ASSUME NEW s, ActionReturns(r, s),
               Confirmed(transfers'[r]) => Outcome(s) = "success"
        PROVE  FirstTurn(r)'
    BY <1>1, <2>1, <2>3, FirstReturns DEF ActionReturns, Nodes, Paying
  <2>4. CASE UseFallback(r)
    BY <1>1, <1>8, <2>1, <2>4, FirstFallback DEF Transfer
  <2>5. CASE ActionReturns(r, Succeeded(st[r], Receipt(r)))
    BY <1>1, <2>2, <2>3, <2>5, FirstUpdates
  <2>6. CASE ~UseFallback(r) /\ ~ActionReturns(r, Succeeded(st[r], Receipt(r)))
    <3>1. ActionReturns(r, Failed(st[r])) /\ ~Confirmed(transfers'[r])
      BY <1>1, <1>8, <2>6, NotConfirmed
    <3> QED
      BY <2>3, <3>1
  <2> QED
    BY <2>4, <2>5, <2>6
<1> QED
  BY <1>3, <1>5, <1>6, <1>7, <1>8 DEF Withdraw

(* A query of a first turn moves no money. *)
LEMMA FirstQuery ==
  ASSUME TypeOK, TransferInv, ReportInv, NEW r \in Requests, FirstTurn(r),
         pc[r] \in {"listKeys", "readKey", "brcodePreview"},
         NEW ok, Query(r, ok) \/ RejectQuery(r)
  PROVE  FirstTurn(r)'
<1>1. UNCHANGED transfers /\ transfers[r] = << >> /\ pc[r] \notin Told \cup {"chatResponse"}
  BY DEF Query, RejectQuery, TransferInv, Before, Steps, Nodes, Told
<1>2. ASSUME NEW s, ActionReturns(r, s) PROVE FirstTurn(r)'
  BY <1>1, <1>2, FirstReturns DEF ActionReturns, Nodes, Confirmed, Paying
<1>3. CASE UseFallback(r)
  BY <1>1, <1>3, FirstFallback
<1> QED
  BY <1>2, <1>3 DEF Query, RejectQuery

(* The answer of a first turn is drafted. *)
LEMMA FirstDraft ==
  ASSUME TypeOK, NEW r \in Requests, FirstTurn(r), NEW a, Draft(r, a),
         MovesMoney(a) /\ Confirmed(transfers[r]) => a.outcome = "success",
         pc' = pc \/ pc' = [pc EXCEPT ![r] = "reply"],
         UNCHANGED <<st, work, transfers, msg>>
  PROVE  FirstTurn(r)'
<1>1. answer'[r] = answer[r] \/ answer'[r] = a
  BY DEF TypeOK, Draft
<1>2. pc'[r] = pc[r] \/ pc'[r] = "reply"
  BY DEF TypeOK
<1> QED
  BY <1>1, <1>2 DEF FirstTurn, Pays, Sent, Paying, Withdrawing

(* A step of a first turn, node by node *)
LEMMA FirstStep ==
  ASSUME TypeInv, TransferInv, CoherenceInv, AmountInv, ReportInv,
         NEW r \in Requests, FirstTurn(r), pc[r] # "idle", Step(r)
  PROVE  FirstTurn(r)'
<1>1. /\ TypeOK /\ st[r] \in GraphState /\ msg[r] \in Message
  BY MessagesAssumption DEF TypeInv, TypeOK
<1>2. ASSUME pc[r] \in {"guardrail", "identifyIntent", "fallback"}, UNCHANGED transfers,
             NEW s, NEW next \in Nodes \ {"guardrail"}, NodeReturns(r, s, next),
             next = "identifyIntent" => Untouched(s),
             next \in Paying => next = "pixPayment" /\ OrdersPayment(msg[r], s),
             next = "pixWithdraw" => OrdersWithdrawal(msg[r], s)
      PROVE  FirstTurn(r)'
  <2>1. transfers[r] = << >> /\ pc[r] \notin Told
    BY <1>2 DEF TransferInv, Before, Steps, Nodes, Told
  <2> QED
    BY <1>1, <1>2, <2>1, FirstReturns DEF Confirmed
<1>3. CASE GuardrailBlocks(r) \/ GuardrailPasses(r)
  <2>1. pc[r] = "guardrail" /\ Untouched(st[r])
    BY <1>3 DEF GuardrailBlocks, GuardrailPasses, FirstTurn
  <2>2. \A b : Untouched([st[r] EXCEPT !.is_blocked = b])
    BY <1>1, <2>1, FirstUpdates
  <2> QED
    BY <1>2, <1>3, <2>1, <2>2 DEF GuardrailBlocks, GuardrailPasses, Nodes, Paying
<1>4. CASE GuardrailFails(r) \/ BlockedResponse(r)
  BY <1>1, <1>4, FirstDraft DEF GuardrailFails, BlockedResponse, Answer, MovesMoney, Goto
<1>5. CASE ResolveAmount(r) \/ Classify(r) \/ ClassifyFails(r)
  <2>1. pc[r] = "identifyIntent" /\ Untouched(st[r]) /\ UNCHANGED transfers
    BY <1>5 DEF ResolveAmount, Classify, ClassifyFails, FirstTurn
  <2>2. PICK s, c : /\ NodeReturns(r, s, RouteIntent(c))
                    /\ c = "pix_payment" => OrdersPayment(msg[r], s)
                    /\ c = "pix_withdraw" => OrdersWithdrawal(msg[r], s)
    <3>1. CASE Classify(r)
      BY <1>1, <2>1, <3>1, FirstUpdates DEF Classify
    <3>2. CASE ClassifyFails(r)
      BY <3>2 DEF ClassifyFails
    <3>3. ~ResolveAmount(r)
      BY <1>1, <2>1, FirstUpdates DEF ResolveAmount
    <3> QED
      BY <1>5, <3>1, <3>2, <3>3
  <2>3. /\ RouteIntent(c) \in Nodes \ {"guardrail", "identifyIntent"}
        /\ RouteIntent(c) \in Paying => RouteIntent(c) = "pixPayment" /\ c = "pix_payment"
        /\ RouteIntent(c) = "pixWithdraw" => c = "pix_withdraw"
    BY DEF RouteIntent, Nodes, Paying
  <2> QED
    BY <1>2, <2>1, <2>2, <2>3
<1>6. CASE Fallback(r)
  BY <1>2, <1>6 DEF Fallback, ActionReturns, Nodes, Paying
<1>7. CASE ListKeys(r) \/ ReadKey(r) \/ BRCodePreview(r)
  BY <1>1, <1>7, FirstQuery DEF ListKeys, ReadKey, BRCodePreview
<1>8. CASE Payment(r)
  BY <1>8, FirstPayment
<1>9. CASE PixWithdraw(r) \/ Withdraw(r)
  BY <1>9, FirstWithdraw
<1>10. CASE ChatResponse(r)
  <2>1. Confirmed(transfers[r]) => ScenarioOf(st[r]).outcome = "success"
    BY <1>10 DEF ChatResponse, FirstTurn, ScenarioOf
  <2>2. ~MovesMoney(Answer("apology"))
    BY DEF MovesMoney, Answer
  <2> QED
    BY <1>1, <1>10, <2>1, <2>2, FirstDraft DEF ChatResponse, Goto
<1>11. CASE Reply(r)
  <2>1. pc'[r] = "done" /\ UNCHANGED <<answer, transfers, msg>>
    BY <1>1, <1>11 DEF Reply, Goto, TypeOK
  <2> QED
    BY <2>1 DEF FirstTurn, Sent, Paying, Withdrawing
<1>12. CASE SaveCheckpoint(r)
  BY <1>12 DEF SaveCheckpoint, FirstTurn, Pays, Sent
<1> QED
  BY <1>3, <1>4, <1>5, <1>6, <1>7, <1>8, <1>9, <1>10, <1>11, <1>12 DEF Step

(* What a request is judged by, and that it is judged at all, is its own;  *)
(* nobody becomes alone, since nobody leaves a thread.                     *)
LEMMA FirstOthers ==
  ASSUME NEW o \in Requests,
         pc'[o] = pc[o], st'[o] = st[o], work'[o] = work[o], answer'[o] = answer[o],
         transfers'[o] = transfers[o], msg'[o] = msg[o], FirstTurn(o)
  PROVE  FirstTurn(o)'
  BY DEF FirstTurn, Pays, Sent

LEMMA FirstInit == Init => FirstInv
  BY DEF Init, FirstInv

LEMMA FirstNextStep ==
  ASSUME TypeInv, TransferInv, CoherenceInv, AmountInv, ReportInv, FirstInv,
         NEW r \in Requests, Step(r)
  PROVE  FirstInv'
<1>1. TypeOK /\ Advances(r) /\ Others(r) /\ UNCHANGED <<thread, msg>>
  BY StepAdvances DEF TypeInv, Advances
<1>2. \A o \in Requests : pc'[o] = "idle" <=> pc[o] = "idle"
  BY <1>1 DEF Advances, Others
<1>3. ASSUME NEW o \in Requests, pc'[o] = "idle" PROVE st'[o] = EmptyState
  <2>1. pc[o] = "idle" /\ st[o] = EmptyState
    BY <1>2, <1>3 DEF FirstInv
  <2>2. CASE o = r
    <3>1. SaveCheckpoint(r)
      BY <2>1, <2>2 DEF Step, Payment, PaymentContinues, PaymentStarts, PaymentPreview,
         PayFixed, PayCustom, RefuseUnpayable, AskAmount, UnknownAmountType, Payable,
         ListKeys, ReadKey, BRCodePreview, Withdraw, PixWithdraw, Enrich, Lookup,
         Validate, Transfer, GuardrailBlocks, GuardrailPasses, GuardrailFails,
         BlockedResponse, ResolveAmount, Classify, ClassifyFails, Fallback,
         ChatResponse, Reply
    <3> QED
      BY <2>1, <3>1 DEF SaveCheckpoint
  <2> QED
    BY <1>1, <2>1, <2>2 DEF Others
<1>4. ASSUME NEW t \in Threads, Fresh(t)' PROVE saved'[t] = EmptyState
  <2>1. Fresh(t)
    BY <1>1, <1>2, <1>4 DEF Fresh
  <2>2. saved[t] = EmptyState /\ (thread[r] = t => st[r] = EmptyState)
    BY <2>1 DEF FirstInv, Fresh
  <2> QED
    BY <1>1, <2>2, OnlySavesWrite
<1>5. ASSUME NEW o \in Requests, pc'[o] # "idle", AloneOnThread(o)' PROVE FirstTurn(o)'
  <2>1. FirstTurn(o) /\ pc[o] # "idle"
    BY <1>1, <1>2, <1>5 DEF AloneOnThread, FirstInv
  <2> QED
    BY <1>1, <2>1, FirstStep, FirstOthers DEF Others
<1> QED
  BY <1>3, <1>4, <1>5 DEF FirstInv

LEMMA FirstNext ==
  PaymentInv /\ ReportInv /\ FirstInv /\ [Next]_vars => FirstInv'
<1> SUFFICES ASSUME PaymentInv, ReportInv, FirstInv, [Next]_vars PROVE FirstInv'
  OBVIOUS
<1>1. TypeInv /\ TypeOK /\ TransferInv /\ CoherenceInv /\ NamesInv /\ AmountInv
  BY DEF PaymentInv, TypeInv
<1>2. ASSUME NEW r \in Requests, NEW t \in Threads, NEW m \in Messages,
             Receive(r, t, m)
      PROVE  FirstInv'
  <2>1. /\ pc[r] = "idle" /\ pc'[r] = "guardrail" /\ thread'[r] = t
        /\ st'[r] = saved[t] /\ UNCHANGED <<work, answer, saved, transfers>>
        /\ \A o \in Requests \ {r} : /\ pc'[o] = pc[o] /\ st'[o] = st[o]
                                     /\ thread'[o] = thread[o] /\ msg'[o] = msg[o]
    BY <1>1, <1>2 DEF Receive, Goto, TypeOK
  <2>2. ASSUME AloneOnThread(r)' PROVE FirstTurn(r)'
    <3>1. Fresh(t)
      BY <2>1, <2>2 DEF AloneOnThread, Fresh
    <3>2. Untouched(st'[r])
      BY <2>1, <3>1 DEF FirstInv, Untouched, EmptyState
    <3>3. transfers'[r] = << >> /\ ~MovesMoney(answer'[r])
      BY <1>1, <2>1 DEF TransferInv, Before, ReportInv, Report, Told, MovesMoney
    <3> QED
      BY <2>1, <3>2, <3>3 DEF FirstTurn, Sent, Paying, Withdrawing
  <2>3. ASSUME NEW o \in Requests \ {r}, pc'[o] # "idle", AloneOnThread(o)'
        PROVE  FirstTurn(o)'
    <3>1. AloneOnThread(o) /\ pc[o] # "idle"
      BY <2>1, <2>3 DEF AloneOnThread
    <3> QED
      BY <2>1, <3>1, FirstOthers DEF FirstInv
  <2>4. ASSUME NEW u \in Threads, Fresh(u)' PROVE saved'[u] = EmptyState
    BY <2>1, <2>4 DEF Fresh, FirstInv
  <2> QED
    BY <2>1, <2>2, <2>3, <2>4 DEF FirstInv
<1>3. ASSUME NEW r \in Requests, Step(r) PROVE FirstInv'
  BY <1>1, <1>3, FirstNextStep
<1>4. ASSUME UNCHANGED <<thread, msg, saved, transfers>>,
             \A o \in Requests : /\ pc'[o] = "idle" <=> pc[o] = "idle"
                                 /\ st'[o] = st[o] \/ st'[o] = EmptyState
                                 /\ FirstTurn(o) => FirstTurn(o)'
      PROVE  FirstInv'
  BY <1>4 DEF FirstInv, Fresh, AloneOnThread
<1>5. ASSUME NEW r \in Requests, SaveFails(r) PROVE FirstInv'
  <2>1. /\ UNCHANGED <<pc, thread, msg, st, work, saved, transfers>>
        /\ Draft(r, Answer("error500")) /\ ~MovesMoney(Answer("error500"))
    BY <1>5 DEF SaveFails, Answer, MovesMoney
  <2>2. ASSUME NEW o \in Requests, FirstTurn(o) PROVE FirstTurn(o)'
    <3>1. CASE o = r
      BY <1>1, <2>1, <2>2, <3>1, FirstDraft
    <3>2. CASE o # r
      BY <1>1, <2>1, <2>2, <3>2, FirstOthers DEF Draft, TypeOK
    <3> QED
      BY <3>1, <3>2
  <2> QED
    BY <1>4, <2>1, <2>2
<1>6. CASE Crash
  <2>1. /\ UNCHANGED <<thread, msg, saved, transfers>>
        /\ \A o \in Requests :
             /\ st'[o] = EmptyState
             /\ pc'[o] = IF pc[o] \in Steps THEN "crashed" ELSE pc[o]
             /\ answer'[o] = answer[o] \/ answer'[o] = NoAnswer
    BY <1>6 DEF Crash, Running
  <2>2. "idle" \notin Steps /\ ~MovesMoney(NoAnswer)
    BY DEF Steps, Nodes, NoAnswer, Answer, MovesMoney
  <2>3. \A o \in Requests : pc'[o] \in {"idle", "done", "crashed"}
    BY <1>1, <2>1 DEF TypeOK, Ended
  <2>4. \A o \in Requests : FirstTurn(o) => FirstTurn(o)'
    BY <2>1, <2>2, <2>3 DEF FirstTurn, Sent, Paying, Withdrawing
  <2> QED
    BY <1>4, <2>1, <2>2, <2>4
<1>7. CASE UNCHANGED vars \/ \E q \in QRs : QRStatusChanges(q)
  <2>1. UNCHANGED <<pc, thread, msg, st, work, answer, saved, transfers>>
    BY <1>7 DEF vars, QRStatusChanges
  <2> QED
    BY <1>4, <2>1, FirstOthers
<1> QED
  BY <1>2, <1>3, <1>5, <1>6, <1>7 DEF Next, Quiescent

LEMMA FirstInvariant == Spec => [](PaymentInv /\ ReportInv /\ FirstInv)
<1>1. Init => PaymentInv /\ ReportInv /\ FirstInv
  BY PaymentInit, ReportInit, FirstInit
<1>2. PaymentInv /\ ReportInv /\ FirstInv /\ [Next]_vars
        => (PaymentInv /\ ReportInv /\ FirstInv)'
  BY PaymentNext, ReportNext, FirstNext DEF PaymentInv
<1> QED
  BY <1>1, <1>2, PTL DEF Spec

(* The first message of a conversation moves money only if it orders that, *)
(* and then to the payee and of the amount that it orders.                 *)
THEOREM FirstOrdersAreFollowed == Spec => []FirstOrderIsFollowed
<1>1. FirstInv => FirstOrderIsFollowed
  BY DEF FirstInv, FirstTurn, Sent, FirstOrderIsFollowed
<1> QED
  BY <1>1, FirstInvariant, PTL

(* A transfer that the bank confirmed to the first message of a            *)
(* conversation is told as a success.                                      *)
THEOREM FirstPaymentsAreReported == Spec => []FirstPaymentIsReported
<1>1. FirstInv => FirstPaymentIsReported
  BY DEF FirstInv, FirstTurn, Confirmed, FirstPaymentIsReported
<1> QED
  BY <1>1, FirstInvariant, PTL
=============================================================================
