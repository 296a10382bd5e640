--------------------------- MODULE PixTurns_proofs ---------------------------
(***************************************************************************)
(* Proofs, for every value of the constants, about a request from its      *)
(* message to its answer: whom it pays, what it tells of the payment, that *)
(* each of its steps gets on, and that its thread remembers its answer.    *)
(***************************************************************************)
EXTENDS PixGraph_proofs

(***************************************************************************)
(* A payee is what a state refers to; a state gets its references from the *)
(* message of its request or from the states of its thread.  A message     *)
(* that the guardrail let through stays allowed, so what it named once     *)
(* stays named: Named only grows.                                          *)
(***************************************************************************)
Refs(s) == {s.brcode, s.pix_key, s.withdraw_beneficiary} \ {NONE}
Held(r) == Refs(st[r]) \cup Refs(work[r])
Said(m) == {m.brcode, m.pix_key}

Unchecked == {"idle", "guardrail", "blockedResponse"}
Passed(r) == /\ answer[r].kind # "refused"
             /\ GUARDRAIL_ENABLED => ~msg[r].injection

Named(t, x) == \E by \in Requests : /\ thread[by] = t
                                    /\ pc[by] \notin Unchecked
                                    /\ Passed(by)
                                    /\ x \in Said(msg[by])

AnswersNext == {"reply", "done", "crashed"}

NamesInv ==
    /\ \A r \in Requests : pc[r] \notin Unchecked \cup AnswersNext => Passed(r)
    /\ \A r \in Requests : pc[r] \in {"idle", "guardrail"} =>
          answer[r].kind # "refused" /\ work[r] = EmptyState
    /\ \A t \in Threads : \A x \in Refs(saved[t]) : Named(t, x)
    /\ \A r \in Requests : \A x \in Held(r) : Named(thread[r], x)
    /\ \A r \in Requests : \A i \in DOMAIN transfers[r] :
          Named(thread[r], transfers[r][i].payload.beneficiary)

(* What the updates of the services refer to *)
LEMMA UpdateRefs ==
  ASSUME NEW s \in GraphState
  PROVE  /\ \A m \in Message : /\ Refs(Classified(s, m)) \subseteq Refs(s) \cup Said(m)
                               /\ Refs(Continued(s, m)) = Refs(s)
         /\ Refs([s EXCEPT !.command = "unknown"]) = Refs(s)
         /\ \A b : Refs([s EXCEPT !.is_blocked = b]) = Refs(s)
         /\ Refs([s EXCEPT !.action_success = TRUE]) = Refs(s)
         /\ Refs([s EXCEPT !.awaiting_amount = TRUE]) = Refs(s)
         /\ \A a : Refs([s EXCEPT !.withdraw_amount = a]) = Refs(s)
         /\ \A data : Refs(Succeeded(s, data)) = Refs(s)
         /\ Refs(Failed(s)) = Refs(s)
         /\ \A b : Refs([Failed(s) EXCEPT !.brcode_status = b]) = Refs(s)
         /\ Refs(LookedUp(s, s.pix_key)) \subseteq Refs(s)
<1>1. \A m \in Message : /\ Refs(Classified(s, m)) \subseteq Refs(s) \cup Said(m)
                         /\ Refs(Continued(s, m)) = Refs(s)
  BY DEF GraphState, Refs, Said, Classified, Continued
<1>2. \A data : Refs(Succeeded(s, data)) = Refs(s)
  BY DEF GraphState, Refs, Succeeded
<1>3. /\ Refs(Failed(s)) = Refs(s)
      /\ \A b : Refs([Failed(s) EXCEPT !.brcode_status = b]) = Refs(s)
  BY DEF GraphState, Refs, Failed
<1>4. Refs(LookedUp(s, s.pix_key)) \subseteq Refs(s)
  BY DEF GraphState, Refs, LookedUp
<1>5. /\ Refs([s EXCEPT !.command = "unknown"]) = Refs(s)
      /\ \A b : Refs([s EXCEPT !.is_blocked = b]) = Refs(s)
      /\ Refs([s EXCEPT !.action_success = TRUE]) = Refs(s)
      /\ Refs([s EXCEPT !.awaiting_amount = TRUE]) = Refs(s)
      /\ \A a : Refs([s EXCEPT !.withdraw_amount = a]) = Refs(s)
  BY DEF GraphState, Refs
<1> QED
  BY <1>1, <1>2, <1>3, <1>4, <1>5

LEMMA DecodeRefs ==
  ASSUME NEW s \in GraphState, NEW status, Decodable(s)
  PROVE  Refs(Previewed(s, s.brcode, status)) \subseteq Refs(s)
  BY DEF GraphState, Refs, Previewed, Decoded, Decodable

LEMMA EmptyRefs == Refs(EmptyState) = {}
  BY DEF Refs, EmptyState

(***************************************************************************)
(* What a step of r may do to what r refers to: nothing new, except that   *)
(* the classification adds what the message of r says.                     *)
(***************************************************************************)
Keeps(r) == Refs(st'[r]) \cup Refs(work'[r]) \subseteq Held(r)

LEMMA NodeReturnsKeeps ==
  ASSUME TypeOK, NEW r \in Requests, NEW s, NEW next, NodeReturns(r, s, next),
         Refs(s) \subseteq Held(r)
  PROVE  Keeps(r)
<1>1. st'[r] = s /\ work'[r] = EmptyState
  BY DEF TypeOK, NodeReturns
<1> QED
  BY <1>1, EmptyRefs DEF Keeps

LEMMA ContinueKeeps ==
  ASSUME TypeOK, NEW r \in Requests, NEW w, NEW next, Continue(r, w, next),
         Refs(w) \subseteq Held(r)
  PROVE  Keeps(r)
<1>1. st'[r] = st[r] /\ work'[r] = w
  BY DEF TypeOK, Continue
<1> QED
  BY <1>1 DEF Keeps, Held

LEMMA QueryKeeps ==
  ASSUME TypeOK, NEW r \in Requests, NEW ok, Refs(ok) \subseteq Held(r),
         Query(r, ok) \/ RejectQuery(r)
  PROVE  Keeps(r)
<1>1. Refs(Failed(st[r])) \subseteq Held(r)
  BY UpdateRefs DEF TypeOK, Held
<1>2. CASE UseFallback(r)
  BY <1>2 DEF UseFallback, Keeps, Held
<1>3. ASSUME NEW s, ActionReturns(r, s), Refs(s) \subseteq Held(r) PROVE Keeps(r)
  BY <1>3, NodeReturnsKeeps DEF ActionReturns
<1> QED
  BY <1>1, <1>2, <1>3 DEF Query, RejectQuery

LEMMA StepRefs ==
  ASSUME TypeInv, NEW r \in Requests, Step(r)
  PROVE  \/ Keeps(r)
         \/ /\ pc[r] = "identifyIntent" /\ pc'[r] \in Nodes \ Unchecked
            /\ Refs(st'[r]) \cup Refs(work'[r]) \subseteq Held(r) \cup Said(msg[r])
<1>1. /\ st[r] \in GraphState /\ work[r] \in GraphState /\ TypeOK
      /\ Refs(st[r]) \subseteq Held(r) /\ Refs(work[r]) \subseteq Held(r)
  BY DEF TypeInv, TypeOK, Held
<1>a. ASSUME NEW s, NEW next, NodeReturns(r, s, next), Refs(s) \subseteq Held(r)
      PROVE  Keeps(r)
  BY <1>1, <1>a, NodeReturnsKeeps
<1>b. /\ Refs(Failed(st[r])) \subseteq Held(r)
      /\ Refs(Failed(work[r])) \subseteq Held(r)
      /\ \A b : Refs([Failed(work[r]) EXCEPT !.brcode_status = b]) \subseteq Held(r)
      /\ \A data : Refs(Succeeded(st[r], data)) \subseteq Held(r)
      /\ Refs([st[r] EXCEPT !.is_blocked = TRUE]) \subseteq Held(r)
      /\ Refs([st[r] EXCEPT !.is_blocked = FALSE]) \subseteq Held(r)
      /\ Refs([st[r] EXCEPT !.action_success = TRUE]) \subseteq Held(r)
      /\ Refs([work[r] EXCEPT !.awaiting_amount = TRUE]) \subseteq Held(r)
      /\ \A a : Refs([work[r] EXCEPT !.withdraw_amount = a]) \subseteq Held(r)
      /\ Refs(LookedUp(work[r], work[r].pix_key)) \subseteq Held(r)
  BY <1>1, UpdateRefs
<1>2. CASE GuardrailBlocks(r) \/ GuardrailPasses(r)
  BY <1>a, <1>b, <1>2 DEF GuardrailBlocks, GuardrailPasses
<1>3. CASE GuardrailFails(r) \/ BlockedResponse(r) \/ ChatResponse(r) \/ SaveCheckpoint(r)
  BY <1>3 DEF GuardrailFails, BlockedResponse, ChatResponse, SaveCheckpoint, Keeps, Held
<1>4. CASE ResolveAmount(r) \/ Classify(r) \/ ClassifyFails(r)
  <2>1. pc[r] = "identifyIntent" /\ msg[r] \in Message
    BY <1>1, <1>4, MessagesAssumption
       DEF ResolveAmount, Classify, ClassifyFails, TypeOK
  <2>2. PICK s, c : /\ NodeReturns(r, s, RouteIntent(c))
                    /\ Refs(s) \subseteq Held(r) \cup Said(msg[r])
    BY <1>1, <1>4, <2>1, UpdateRefs DEF ResolveAmount, Classify, ClassifyFails
  <2>3. st'[r] = s /\ work'[r] = EmptyState /\ pc'[r] = RouteIntent(c)
    BY <1>1, <2>2 DEF TypeOK, NodeReturns, Goto
  <2>4. RouteIntent(c) \in Nodes \ Unchecked
    BY DEF RouteIntent, Nodes, Unchecked
  <2> QED
    BY <2>1, <2>2, <2>3, <2>4, EmptyRefs
<1>5. CASE Fallback(r)
  BY <1>a, <1>b, <1>5 DEF Fallback, ActionReturns
<1>6. CASE ListKeys(r)
  BY <1>1, <1>b, <1>6, QueryKeeps DEF ListKeys
<1>7. CASE ReadKey(r)
  BY <1>1, <1>b, <1>7, QueryKeeps DEF ReadKey
<1>8. CASE BRCodePreview(r)
  <2>1. CASE Decodable(st[r])
    <3>1. Refs(Previewed(st[r], st[r].brcode, qrStatus[st[r].brcode])) \subseteq Held(r)
      BY <1>1, <2>1, DecodeRefs
    <3> QED
      BY <1>1, <1>8, <3>1, QueryKeeps DEF BRCodePreview
  <2>2. CASE ~Decodable(st[r])
    BY <1>1, <1>8, <2>2, QueryKeeps DEF BRCodePreview
  <2> QED
    BY <2>1, <2>2
<1>9. CASE Payment(r)
  <2>1. CASE PaymentContinues(r)
    BY <1>1, <2>1, ContinueKeeps DEF PaymentContinues
  <2>2. CASE PaymentStarts(r)
    BY <1>1, <1>a, <1>b, <2>2, ContinueKeeps DEF PaymentStarts, ActionReturns
  <2>3. CASE PaymentPreview(r)
    <3>1. Refs(Previewed(st[r], st[r].brcode, qrStatus[st[r].brcode])) \subseteq Held(r)
      BY <1>1, <2>3, DecodeRefs DEF PaymentPreview, TypeInv, PreviewDecodable
    <3>2. CASE UseFallback(r)
      BY <3>2 DEF UseFallback, Keeps, Held
    <3> QED
      BY <1>1, <1>a, <1>b, <2>3, <3>1, <3>2, ContinueKeeps
         DEF PaymentPreview, ActionReturns
  <2>4. CASE RefuseUnpayable(r) \/ AskAmount(r) \/ UnknownAmountType(r)
    BY <1>a, <1>b, <2>4
       DEF RefuseUnpayable, AskAmount, UnknownAmountType, ActionReturns
  <2>5. CASE PayFixed(r) \/ PayCustom(r)
    BY <1>1, <1>b, <2>5, ContinueKeeps DEF PayFixed, PayCustom
  <2> QED
    BY <1>9, <2>1, <2>2, <2>3, <2>4, <2>5 DEF Payment
<1>10. CASE PixWithdraw(r) \/ Enrich(r)
  BY <1>1, <1>10, ContinueKeeps DEF PixWithdraw, Enrich
<1>11. CASE Lookup(r)
  BY <1>1, <1>b, <1>11, ContinueKeeps DEF Lookup
<1>12. CASE Validate(r)
  BY <1>1, <1>a, <1>b, <1>12, ContinueKeeps DEF Validate, ActionReturns
<1>13. CASE Transfer(r)
  <2>1. CASE UseFallback(r)
    BY <2>1 DEF UseFallback, Keeps, Held
  <2> QED
    BY <1>a, <1>b, <1>13, <2>1 DEF Transfer, TransferReturns, ActionReturns
<1>14. CASE Reply(r)
  BY <1>1, <1>14, EmptyRefs DEF Reply, Keeps, TypeOK
<1> QED
  BY <1>2, <1>3, <1>4, <1>5, <1>6, <1>7, <1>8, <1>9, <1>10, <1>11, <1>12, <1>13,
     <1>14 DEF Step, Withdraw

(***************************************************************************)
(* How a step of r moves on: no other request changes, none becomes        *)
(* unchecked again, and the guardrail is left for a node only by a message *)
(* it lets through.                                                        *)
(***************************************************************************)
Others(r) == \A o \in Requests \ {r} :
    /\ pc'[o] = pc[o] /\ answer'[o] = answer[o] /\ st'[o] = st[o]
    /\ work'[o] = work[o] /\ transfers'[o] = transfers[o]

Advances(r) ==
    /\ UNCHANGED <<thread, msg>>
    /\ Others(r)
    /\ \/ pc'[r] = pc[r] /\ work'[r] = work[r]
       \/ /\ pc[r] # "idle"
          /\ pc'[r] \notin {"idle", "guardrail"}
          /\ pc'[r] = "blockedResponse" => pc[r] = "guardrail"
          /\ pc[r] \in {"blockedResponse"} \cup AnswersNext => pc'[r] \in AnswersNext
          /\ pc[r] = "guardrail" =>
               \/ pc'[r] \in {"blockedResponse"} \cup AnswersNext
               \/ GUARDRAIL_ENABLED => ~msg[r].injection
    /\ answer'[r].kind = "refused" =>
         answer[r].kind = "refused" \/ pc[r] = "blockedResponse"

LEMMA NodeReturnsAdvances ==
  ASSUME TypeOK, NEW r \in Requests, NEW s, NEW next \in Nodes \ {"guardrail"},
         NodeReturns(r, s, next),
         \A o \in Requests \ {r} : transfers'[o] = transfers[o],
         pc[r] \notin Unchecked \cup AnswersNext, next # "blockedResponse"
  PROVE  Advances(r)
<1>1. /\ pc'[r] = next /\ UNCHANGED <<thread, msg, answer>>
      /\ \A o \in Requests \ {r} :
           /\ pc'[o] = pc[o] /\ st'[o] = st[o] /\ work'[o] = work[o]
  BY DEF TypeOK, NodeReturns, Goto
<1> QED
  BY <1>1 DEF Advances, Others, Nodes, Unchecked, AnswersNext

LEMMA ContinueAdvances ==
  ASSUME TypeOK, NEW r \in Requests, NEW w, NEW next,
         Continue(r, w, next), UNCHANGED transfers,
         pc[r] \notin Unchecked \cup AnswersNext,
         next \notin Unchecked
  PROVE  Advances(r)
<1>1. /\ pc'[r] = next /\ UNCHANGED <<thread, msg, answer, st>>
      /\ \A o \in Requests \ {r} : pc'[o] = pc[o] /\ work'[o] = work[o]
  BY DEF TypeOK, Continue, Goto
<1> QED
  BY <1>1 DEF Advances, Others, Unchecked, AnswersNext

LEMMA UseFallbackAdvances ==
  ASSUME NEW r \in Requests, UseFallback(r),
         \A o \in Requests \ {r} : transfers'[o] = transfers[o]
  PROVE  Advances(r)
  BY DEF UseFallback, Advances, Others

LEMMA StepAdvances ==
  ASSUME TypeOK, NEW r \in Requests, Step(r)
  PROVE  Advances(r)
<1> USE DEF Unchecked, AnswersNext
<1>1. Nodes \subseteq Steps
  BY DEF Steps
<1>a. ASSUME NEW s, ActionReturns(r, s), pc[r] \notin Unchecked \cup AnswersNext,
             \A o \in Requests \ {r} : transfers'[o] = transfers[o]
      PROVE  Advances(r)
  BY <1>a, NodeReturnsAdvances DEF ActionReturns, Nodes
<1>b. ASSUME UseFallback(r), \A o \in Requests \ {r} : transfers'[o] = transfers[o]
      PROVE  Advances(r)
  BY <1>b, UseFallbackAdvances
<1>c. ASSUME NEW ok, Query(r, ok) \/ RejectQuery(r),
             pc[r] \notin Unchecked \cup AnswersNext
      PROVE  Advances(r)
  BY <1>a, <1>b, <1>c DEF Query, RejectQuery
<1>2. CASE GuardrailBlocks(r) \/ GuardrailPasses(r)
  <2>1. /\ UNCHANGED <<thread, msg, answer, transfers>> /\ pc[r] = "guardrail"
        /\ \A o \in Requests \ {r} :
             /\ pc'[o] = pc[o] /\ st'[o] = st[o] /\ work'[o] = work[o]
        /\ \/ pc'[r] = "blockedResponse"
           \/ /\ pc'[r] = "identifyIntent"
              /\ GUARDRAIL_ENABLED => ~msg[r].injection
    BY <1>2 DEF GuardrailBlocks, GuardrailPasses, NodeReturns, Goto, TypeOK
  <2> QED
    BY <2>1 DEF Advances, Others
<1>3. CASE GuardrailFails(r) \/ BlockedResponse(r) \/ ChatResponse(r)
  <2>1. /\ UNCHANGED <<thread, msg, st, work, transfers>>
        /\ pc'[r] = "reply" /\ pc[r] # "idle"
        /\ \A o \in Requests \ {r} : pc'[o] = pc[o] /\ answer'[o] = answer[o]
    BY <1>3 DEF GuardrailFails, BlockedResponse, ChatResponse, Goto, Draft, TypeOK
  <2>2. pc[r] # "blockedResponse" =>
          (answer'[r].kind = "refused" => answer[r].kind = "refused")
    BY <1>3 DEF GuardrailFails, BlockedResponse, ChatResponse, Draft, Answer,
                ScenarioOf, TypeOK
  <2> QED
    BY <2>1, <2>2 DEF Advances, Others
<1>4. CASE ResolveAmount(r) \/ Classify(r) \/ ClassifyFails(r)
  <2>1. PICK s, c : /\ NodeReturns(r, s, RouteIntent(c))
                    /\ pc[r] = "identifyIntent" /\ UNCHANGED transfers
    BY <1>4 DEF ResolveAmount, Classify, ClassifyFails
  <2>2. RouteIntent(c) \in Nodes \ {"guardrail", "blockedResponse"}
    BY DEF RouteIntent, Nodes
  <2> QED
    BY <2>1, <2>2, NodeReturnsAdvances
<1>5. CASE Fallback(r)
  BY <1>a, <1>5 DEF Fallback
<1>6. CASE ListKeys(r) \/ ReadKey(r) \/ BRCodePreview(r)
  BY <1>c, <1>6 DEF ListKeys, ReadKey, BRCodePreview
<1>7. CASE Payment(r)
  <2>1. pc[r] \notin Unchecked \cup AnswersNext /\ UNCHANGED transfers
    BY <1>7 DEF Payment, PaymentContinues, PaymentStarts, PaymentPreview, PayFixed,
                PayCustom, RefuseUnpayable, AskAmount, UnknownAmountType, Payable
  <2>2. ASSUME NEW s, ActionReturns(r, s) PROVE Advances(r)
    BY <1>a, <2>1, <2>2
  <2>3. ASSUME NEW w, NEW next, Continue(r, w, next), next \notin Unchecked
        PROVE  Advances(r)
    BY <2>1, <2>3, ContinueAdvances
  <2>4. UseFallback(r) => Advances(r)
    BY <1>b, <2>1
  <2> QED
    BY <1>7, <2>2, <2>3, <2>4
       DEF Payment, PaymentContinues, PaymentStarts, PaymentPreview, PayFixed,
           PayCustom, RefuseUnpayable, AskAmount, UnknownAmountType
<1>8. CASE PixWithdraw(r) \/ Enrich(r) \/ Lookup(r)
  BY <1>8, ContinueAdvances DEF PixWithdraw, Enrich, Lookup
<1>9. CASE Validate(r)
  BY <1>a, <1>9, ContinueAdvances DEF Validate
<1>10. CASE Transfer(r)
  <2>1. /\ \A o \in Requests \ {r} : transfers'[o] = transfers[o]
        /\ pc[r] \notin Unchecked \cup AnswersNext
        /\ \/ \E s : ActionReturns(r, s)
           \/ UseFallback(r)
    BY <1>10 DEF Transfer, TransferReturns, TypeOK
  <2> QED
    BY <1>a, <1>b, <2>1
<1>11. CASE Reply(r)
  <2>1. /\ UNCHANGED <<thread, msg, work, answer, transfers>>
        /\ pc'[r] = "done" /\ pc[r] = "reply"
        /\ \A o \in Requests \ {r} : pc'[o] = pc[o] /\ st'[o] = st[o]
    BY <1>11 DEF Reply, Goto, TypeOK
  <2> QED
    BY <2>1 DEF Advances, Others
<1>12. CASE SaveCheckpoint(r)
  BY <1>12 DEF SaveCheckpoint, Advances, Others
<1> QED
  BY <1>2, <1>3, <1>4, <1>5, <1>6, <1>7, <1>8, <1>9, <1>10, <1>11, <1>12
     DEF Step, Withdraw

(* What an allowed message named stays named. *)
LEMMA NamedGrows ==
  ASSUME \A by \in Requests : pc[by] \notin Unchecked /\ Passed(by) =>
            /\ pc'[by] \notin Unchecked /\ Passed(by)'
            /\ thread'[by] = thread[by] /\ msg'[by] = msg[by]
  PROVE  \A t, x : Named(t, x) => Named(t, x)'
  BY DEF Named

LEMMA AdvancesGrows ==
  ASSUME NEW r \in Requests, Advances(r)
  PROVE  \A t, x : Named(t, x) => Named(t, x)'
<1>1. ASSUME NEW by \in Requests, pc[by] \notin Unchecked, Passed(by)
      PROVE  /\ pc'[by] \notin Unchecked /\ Passed(by)'
             /\ thread'[by] = thread[by] /\ msg'[by] = msg[by]
  <2>1. CASE by # r
    BY <1>1, <2>1 DEF Advances, Others, Passed
  <2>2. CASE by = r
    BY <1>1, <2>2 DEF Advances, Passed, Unchecked
  <2> QED
    BY <2>1, <2>2
<1> QED
  BY <1>1, NamedGrows

(* A step of r writes the thread's checkpoint with the state of r or not at all. *)
LEMMA OnlySavesWrite ==
  ASSUME TypeOK, NEW r \in Requests, Step(r), NEW t \in Threads
  PROVE  \/ saved'[t] = saved[t]
         \/ thread[r] = t /\ saved'[t] = st[r]
<1>1. CASE SaveCheckpoint(r)
  BY <1>1 DEF SaveCheckpoint, TypeOK
<1>2. CASE Payment(r)
  BY <1>2 DEF Payment, PaymentContinues, PaymentStarts, PaymentPreview, PayFixed,
              PayCustom, RefuseUnpayable, AskAmount, UnknownAmountType,
              ActionReturns, NodeReturns, Continue, UseFallback
<1>3. CASE ListKeys(r) \/ ReadKey(r) \/ BRCodePreview(r)
  BY <1>3 DEF ListKeys, ReadKey, BRCodePreview, Query, RejectQuery,
              ActionReturns, NodeReturns, UseFallback
<1>4. CASE Withdraw(r) \/ PixWithdraw(r)
  BY <1>4 DEF Withdraw, PixWithdraw, Enrich, Lookup, Validate, Transfer,
              TransferReturns, ActionReturns, NodeReturns, Continue, UseFallback
<1>5. CASE \/ GuardrailBlocks(r) \/ GuardrailPasses(r) \/ GuardrailFails(r)
           \/ BlockedResponse(r) \/ ResolveAmount(r) \/ Classify(r)
           \/ ClassifyFails(r) \/ Fallback(r) \/ ChatResponse(r) \/ Reply(r)
  BY <1>5 DEF GuardrailBlocks, GuardrailPasses, GuardrailFails, BlockedResponse,
              ResolveAmount, Classify, ClassifyFails, Fallback, ChatResponse,
              Reply, ActionReturns, NodeReturns
<1> QED
  BY <1>1, <1>2, <1>3, <1>4, <1>5 DEF Step

(* A step of r sends the dict of r to the bank or nothing. *)
LEMMA OnlyTransferSends ==
  ASSUME TypeOK, NEW r \in Requests, Step(r), NEW o \in Requests,
         transfers'[o] # transfers[o]
  PROVE  /\ o = r /\ Transfer(r)
         /\ \A i \in DOMAIN transfers'[r] :
              \/ i \in DOMAIN transfers[r] /\ transfers'[r][i] = transfers[r][i]
              \/ transfers'[r][i].payload = Payload(work[r])
<1>1. Transfer(r)
  BY DEF Step, Payment, PaymentContinues, PaymentStarts, PaymentPreview, PayFixed,
     PayCustom, RefuseUnpayable, AskAmount, UnknownAmountType, ListKeys, ReadKey,
     BRCodePreview, Query, RejectQuery, Withdraw, PixWithdraw, Enrich, Lookup,
     Validate, GuardrailBlocks, GuardrailPasses, GuardrailFails, BlockedResponse,
     ResolveAmount, Classify, ClassifyFails, Fallback, ChatResponse, Reply,
     SaveCheckpoint
<1>2. /\ transfers[r] \in Seq(Attempt)
      /\ \E attempt : /\ attempt.payload = Payload(work[r])
                      /\ transfers'[r] = Append(transfers[r], attempt)
  BY <1>1 DEF Transfer, TypeOK
<1>3. o = r
  BY <1>1 DEF Transfer, TypeOK
<1> QED
  BY <1>1, <1>2, <1>3

LEMMA NamesInit == Init => NamesInv
<1> SUFFICES ASSUME Init PROVE NamesInv
  OBVIOUS
<1>1. /\ \A r \in Requests : /\ pc[r] = "idle" /\ answer[r] = NoAnswer
                            /\ transfers[r] = << >> /\ work[r] = EmptyState
                            /\ Held(r) = {}
      /\ \A t \in Threads : Refs(saved[t]) = {}
  BY EmptyRefs DEF Init, Held
<1> QED
  BY <1>1 DEF NamesInv, NoAnswer, Answer, Unchecked

LEMMA NamesStep ==
  ASSUME TypeInv, NamesInv, CoherentPayload', NEW r \in Requests, Step(r)
  PROVE  NamesInv'
<1>1. TypeOK /\ Advances(r)
  BY StepAdvances DEF TypeInv
<1>2. \A t, x : Named(t, x) => Named(t, x)'
  BY <1>1, AdvancesGrows
<1>3. ASSUME NEW o \in Requests, pc'[o] \notin Unchecked \cup AnswersNext
      PROVE  Passed(o)'
  <2>1. CASE o # r
    BY <1>1, <1>3, <2>1 DEF Advances, Others, NamesInv, Passed
  <2>2. CASE o = r
    BY <1>1, <1>3, <2>2 DEF Advances, NamesInv, Passed, Unchecked, AnswersNext
  <2> QED
    BY <2>1, <2>2
<1>4. ASSUME NEW o \in Requests, pc'[o] \in {"idle", "guardrail"}
      PROVE  answer'[o].kind # "refused" /\ work'[o] = EmptyState
  <2>1. CASE o # r
    BY <1>1, <1>4, <2>1 DEF Advances, Others, NamesInv
  <2>2. CASE o = r
    BY <1>1, <1>4, <2>2 DEF Advances, NamesInv
  <2> QED
    BY <2>1, <2>2
<1>5. ASSUME NEW t \in Threads, NEW x \in Refs(saved'[t]) PROVE Named(t, x)'
  <2>1. \/ saved'[t] = saved[t]
        \/ thread[r] = t /\ saved'[t] = st[r]
    BY <1>1, OnlySavesWrite
  <2>2. x \in Refs(saved[t]) \/ (thread[r] = t /\ x \in Held(r))
    BY <1>5, <2>1 DEF Held
  <2> QED
    BY <1>2, <2>2 DEF NamesInv
<1>6. ASSUME NEW o \in Requests, NEW x \in Held(o)' PROVE Named(thread[o], x)'
  <2>1. thread' = thread /\ msg' = msg
    BY <1>1 DEF Advances
  <2>2. CASE x \in Held(o)
    BY <1>2, <2>1, <2>2 DEF NamesInv
  <2>3. CASE x \notin Held(o)
    <3>1. o = r
      BY <1>1, <1>6, <2>3 DEF Advances, Others, Held
    <3>2. pc'[r] \in Nodes \ Unchecked /\ x \in Said(msg[r])
      BY <1>6, <2>3, <3>1, StepRefs DEF Keeps, Held
    <3>3. Passed(r)'
      BY <1>3, <3>2 DEF Nodes, AnswersNext
    <3> QED
      BY <2>1, <3>1, <3>2, <3>3 DEF Named
  <2> QED
    BY <2>2, <2>3
<1>7. ASSUME NEW o \in Requests, NEW i \in DOMAIN transfers'[o]
      PROVE  Named(thread[o], transfers[o][i].payload.beneficiary)'
  <2>1. thread' = thread
    BY <1>1 DEF Advances
  <2>2. CASE transfers'[o] = transfers[o]
    BY <1>2, <1>7, <2>1, <2>2 DEF NamesInv
  <2>3. CASE transfers'[o] # transfers[o]
    <3>1. o = r /\ Transfer(r)
      BY <1>1, <2>3, OnlyTransferSends
    <3>3. \/ i \in DOMAIN transfers[r] /\ transfers'[r][i] = transfers[r][i]
          \/ transfers'[r][i].payload = Payload(work[r])
      BY <1>1, <1>7, <2>3, <3>1, OnlyTransferSends
    <3>4. CASE transfers'[r][i].payload = Payload(work[r])
      <4>1. transfers'[r][i].payload.beneficiary = work[r].withdraw_beneficiary
        BY <3>4 DEF Payload
      <4>2. work[r].withdraw_beneficiary # NONE
        BY <1>7, <3>1, <4>1, NONEIsNoData DEF CoherentPayload, Coherent
      <4>3. work[r].withdraw_beneficiary \in Held(r)
        BY <4>2 DEF Held, Refs
      <4> QED
        BY <1>2, <2>1, <3>1, <4>1, <4>3 DEF NamesInv
    <3>5. CASE i \in DOMAIN transfers[r] /\ transfers'[r][i] = transfers[r][i]
      BY <1>2, <2>1, <3>1, <3>5 DEF NamesInv
    <3> QED
      BY <3>3, <3>4, <3>5
  <2> QED
    BY <2>2, <2>3
<1> QED
  BY <1>3, <1>4, <1>5, <1>6, <1>7 DEF NamesInv

LEMMA NamesNext ==
  TypeInv /\ TransferInv /\ NamesInv /\ CoherentPayload' /\ [Next]_vars => NamesInv'
<1> SUFFICES ASSUME TypeInv, TransferInv, NamesInv, CoherentPayload', [Next]_vars
             PROVE  NamesInv'
  OBVIOUS
<1>1. ASSUME NEW r \in Requests, NEW t \in Threads, NEW m \in Messages,
             Receive(r, t, m)
      PROVE  NamesInv'
  <2>1. /\ pc[r] = "idle" /\ pc'[r] = "guardrail" /\ thread'[r] = t
        /\ st'[r] = saved[t] /\ UNCHANGED <<work, answer, saved, transfers>>
        /\ \A o \in Requests \ {r} : /\ pc'[o] = pc[o] /\ st'[o] = st[o]
                                      /\ thread'[o] = thread[o] /\ msg'[o] = msg[o]
    BY <1>1 DEF Receive, Goto, TypeInv, TypeOK
  <2>2. \A u, x : Named(u, x) => Named(u, x)'
    BY <2>1, NamedGrows DEF Unchecked, Passed
  <2>3. work[r] = EmptyState /\ transfers[r] = << >> /\ answer[r].kind # "refused"
    BY <2>1 DEF NamesInv, TransferInv, Before
  <2>4. Held(r)' = Refs(saved[t])
    BY <2>1, <2>3, EmptyRefs DEF Held
  <2>5. \A o \in Requests \ {r} : Held(o)' = Held(o)
    BY <2>1 DEF Held
  <2>6. \A o \in Requests \ {r} : Passed(o) => Passed(o)'
    BY <2>1 DEF Passed
  <2>7. \A o \in Requests : \A x \in Held(o)' : Named(thread[o], x)'
    BY <2>1, <2>2, <2>4, <2>5 DEF NamesInv
  <2>8. \A o \in Requests : \A i \in DOMAIN transfers'[o] :
          Named(thread[o], transfers[o][i].payload.beneficiary)'
    BY <2>1, <2>2, <2>3 DEF NamesInv
  <2> QED
    BY <2>1, <2>2, <2>3, <2>6, <2>7, <2>8 DEF NamesInv, Unchecked
<1>2. ASSUME NEW r \in Requests, Step(r) PROVE NamesInv'
  BY <1>2, NamesStep
<1>3. ASSUME NEW r \in Requests, SaveFails(r) PROVE NamesInv'
  <2>1. /\ UNCHANGED <<pc, thread, msg, st, work, saved, transfers>>
        /\ \A o \in Requests :
             answer'[o].kind = "refused" => answer[o].kind = "refused"
    BY <1>3 DEF SaveFails, Draft, Answer, TypeInv, TypeOK
  <2>2. \A t, x : Named(t, x) => Named(t, x)'
    BY <2>1, NamedGrows DEF Passed
  <2> QED
    BY <2>1, <2>2 DEF NamesInv, Passed, Held
<1>4. CASE Crash
  <2>1. /\ UNCHANGED <<thread, msg, saved, transfers>>
        /\ \A o \in Requests :
             /\ st'[o] = EmptyState /\ work'[o] = EmptyState
             /\ pc'[o] = IF pc[o] \in Steps THEN "crashed" ELSE pc[o]
             /\ answer'[o].kind = "refused" => answer[o].kind = "refused"
    BY <1>4 DEF Crash, Running, NoAnswer, Answer
  <2>2. \A t, x : Named(t, x) => Named(t, x)'
    BY <2>1, NamedGrows DEF Passed, Unchecked
  <2>3. \A o \in Requests : /\ Held(o)' = {}
                            /\ pc'[o] \notin AnswersNext => pc'[o] = "idle" /\ pc[o] = "idle"
    BY <2>1, EmptyRefs DEF Held, TypeInv, TypeOK, AnswersNext, Ended
  <2> QED
    BY <2>1, <2>2, <2>3 DEF NamesInv, Unchecked, AnswersNext
<1>5. CASE UNCHANGED vars \/ \E q \in QRs : QRStatusChanges(q)
  <2>1. UNCHANGED <<pc, thread, msg, st, work, answer, saved, transfers>>
    BY <1>5 DEF vars, QRStatusChanges
  <2>2. \A t, x : Named(t, x) => Named(t, x)'
    BY <2>1 DEF Named, Passed
  <2> QED
    BY <2>1, <2>2 DEF NamesInv, Passed, Held
<1> QED
  BY <1>1, <1>2, <1>3, <1>4, <1>5 DEF Next, Quiescent

(* Whoever is paid was named in the same conversation by a message that    *)
(* the guardrail let through, for any number of users, turns and crashes.  *)
THEOREM PayeesAreNamed == Spec => []PayeeNamedOnThread
<1>1. CoherenceInv => CoherentPayload
  BY DEF CoherenceInv
<1>2. Init => TypeInv /\ TransferInv /\ CoherenceInv /\ NamesInv
  BY TypeInit, TransferInit, CoherenceInit, NamesInit
<1>3. TypeInv /\ TransferInv /\ CoherenceInv /\ NamesInv /\ [Next]_vars
        => (TypeInv /\ TransferInv /\ CoherenceInv /\ NamesInv)'
  <2> SUFFICES ASSUME TypeInv, TransferInv, CoherenceInv, NamesInv, [Next]_vars
               PROVE  (TypeInv /\ TransferInv /\ CoherenceInv /\ NamesInv)'
    OBVIOUS
  <2>1. TypeInv' /\ TransferInv' /\ CoherenceInv'
    BY TypeNext, TransferNext, CoherenceNext
  <2>2. CoherentPayload'
    BY <2>1 DEF CoherenceInv
  <2> QED
    BY <2>1, <2>2, NamesNext
<1>4. NamesInv => PayeeNamedOnThread
  BY DEF NamesInv, Named, Passed, Said, PayeeNamedOnThread
<1> QED
  BY <1>2, <1>3, <1>4, PTL DEF Spec

-----------------------------------------------------------------------------
(***************************************************************************)
(* SuccessIsReal and FailureIsReal are about answers; what makes them true *)
(* was decided one or several nodes earlier.  The strengthening relates    *)
(* each node to the commands it is routed for, the state that chatResponse *)
(* tells from to the transfers made, and says that nothing is told before. *)
(***************************************************************************)
Money     == {"pix_payment", "pix_withdraw"}
ForOthers == {"listKeys", "readKey", "brcodePreview", "fallback"}
Paying    == {"pixPayment", "paymentPreview", "resolveAmount"}
Told      == {"reply", "done", "crashed"}

Confirmed(sent) == \E i \in DOMAIN sent : Accepted(sent[i].reply)

(* The state s tells what became of the transfers sent by r *)
Reports(r, s, sent) ==
    s.command \in Money =>
        \/ s.action_success /\ s.action_data = Receipt(r) /\ Confirmed(sent)
        \/ ~s.action_success /\ ~Confirmed(sent)
        \/ s.command = "pix_payment" /\ s.awaiting_amount

Honest(r, a, sent) ==
    MovesMoney(a) =>
        /\ a.outcome = "success" => a.data = Receipt(r) /\ Confirmed(sent)
        /\ a.outcome = "error" => ~Confirmed(sent)

Report(r) ==
    /\ pc[r] \in Paying => st[r].command = "pix_payment"
    /\ pc[r] = "resolveAmount" => work[r].command = "pix_payment"
    /\ pc[r] \in ForOthers => st[r].command \notin Money
    /\ pc[r] = "chatResponse" => Reports(r, st[r], transfers[r])
    /\ pc[r] \notin Told => answer[r].kind # "scenario"
    /\ Honest(r, answer[r], transfers[r])

ReportInv == \A r \in Requests : Report(r)

(* The updates that keep the command of a state *)
LEMMA CommandKept ==
  ASSUME NEW s \in GraphState
  PROVE  /\ \A data : Succeeded(s, data).command = s.command
         /\ Failed(s).command = s.command /\ ~Failed(s).action_success
         /\ \A b : [Failed(s) EXCEPT !.brcode_status = b].command = s.command
         /\ \A b : ~[Failed(s) EXCEPT !.brcode_status = b].action_success
         /\ \A q, b : Previewed(s, q, b).command = s.command
         /\ \A data : /\ Succeeded(s, data).action_success
                      /\ Succeeded(s, data).action_data = data
         /\ [s EXCEPT !.action_success = TRUE].command = s.command
         /\ [s EXCEPT !.awaiting_amount = TRUE].command = s.command
         /\ [s EXCEPT !.awaiting_amount = TRUE].awaiting_amount
  BY DEF GraphState, Succeeded, Failed, Previewed, Decoded

(* The commands a node is routed for *)
LEMMA RouteCommand ==
  ASSUME NEW c
  PROVE  /\ RouteIntent(c) \in Paying => c = "pix_payment"
         /\ RouteIntent(c) \in ForOthers => c \notin Money
         /\ RouteIntent(c) \notin Told \cup {"chatResponse", "resolveAmount"}
  BY DEF RouteIntent, Paying, ForOthers, Money, Told

(* A node of r returned, and r told nothing yet. *)
LEMMA NodeReturnsReport ==
  ASSUME TypeOK, ReportInv, NEW r \in Requests, pc[r] \notin Told,
         NEW s, NEW next, NodeReturns(r, s, next),
         next \notin Told \cup {"resolveAmount"},
         next \in Paying => s.command = "pix_payment",
         next \in ForOthers => s.command \notin Money,
         next = "chatResponse" => Reports(r, s, transfers'[r]),
         \A o \in Requests \ {r} : transfers'[o] = transfers[o]
  PROVE  ReportInv'
<1>1. Report(r)'
  <2>1. pc'[r] = next /\ st'[r] = s /\ answer'[r] = answer[r]
    BY DEF TypeOK, NodeReturns, Goto
  <2>2. answer[r].kind # "scenario"
    BY DEF ReportInv, Report
  <2>3. Honest(r, answer'[r], transfers'[r])
    BY <2>1, <2>2 DEF Honest, MovesMoney
  <2> QED
    BY <2>1, <2>2, <2>3 DEF Report
<1>2. ASSUME NEW o \in Requests \ {r} PROVE Report(o)'
  <2>1. /\ pc'[o] = pc[o] /\ st'[o] = st[o] /\ work'[o] = work[o]
        /\ answer'[o] = answer[o] /\ transfers'[o] = transfers[o]
    BY DEF TypeOK, NodeReturns, Goto
  <2> QED
    BY <2>1 DEF ReportInv, Report
<1> QED
  BY <1>1, <1>2 DEF ReportInv

(* r goes on inside its node. *)
LEMMA ContinueReport ==
  ASSUME TypeOK, ReportInv, NEW r \in Requests, pc[r] \notin Told,
         NEW w, NEW next, Continue(r, w, next), UNCHANGED transfers,
         next \notin Told \cup ForOthers \cup {"chatResponse"},
         next \in Paying => st[r].command = "pix_payment",
         next = "resolveAmount" => w.command = "pix_payment"
  PROVE  ReportInv'
<1>1. Report(r)'
  <2>1. pc'[r] = next /\ st' = st /\ work'[r] = w /\ answer' = answer
    BY DEF TypeOK, Continue, Goto
  <2>2. answer[r].kind # "scenario"
    BY DEF ReportInv, Report
  <2>3. Honest(r, answer'[r], transfers'[r])
    BY <2>1, <2>2 DEF Honest, MovesMoney
  <2> QED
    BY <2>1, <2>2, <2>3 DEF Report
<1>2. ASSUME NEW o \in Requests \ {r} PROVE Report(o)'
  <2>1. /\ pc'[o] = pc[o] /\ st'[o] = st[o] /\ work'[o] = work[o]
        /\ answer'[o] = answer[o] /\ transfers'[o] = transfers[o]
    BY DEF TypeOK, Continue, Goto
  <2> QED
    BY <2>1 DEF ReportInv, Report
<1> QED
  BY <1>1, <1>2 DEF ReportInv

(* r tries the fallback account: nothing it reports from has changed. *)
LEMMA UseFallbackReport ==
  ASSUME ReportInv, NEW r \in Requests, pc[r] \notin Told \cup {"chatResponse"},
         UseFallback(r),
         \A o \in Requests \ {r} : transfers'[o] = transfers[o]
  PROVE  ReportInv'
<1>1. UNCHANGED <<pc, st, work, answer>>
  BY DEF UseFallback
<1>2. Honest(r, answer[r], transfers'[r])
  BY DEF ReportInv, Report, Honest, MovesMoney
<1> QED
  BY <1>1, <1>2 DEF ReportInv, Report

(* A query for a command that moves no money *)
LEMMA QueryReport ==
  ASSUME TypeOK, ReportInv, NEW r \in Requests, pc[r] \in ForOthers,
         NEW ok, ok.command = st[r].command,
         Query(r, ok) \/ RejectQuery(r)
  PROVE  ReportInv'
<1>1. st[r] \in GraphState /\ st[r].command \notin Money /\ UNCHANGED transfers
  BY DEF TypeOK, ReportInv, Report, Query, RejectQuery
<1>2. pc[r] \notin Told \cup {"chatResponse"}
  BY DEF ForOthers, Told
<1>3. ASSUME NEW s, s.command = st[r].command, ActionReturns(r, s) PROVE ReportInv'
  <2>1. Reports(r, s, transfers'[r])
    BY <1>1, <1>3 DEF Reports
  <2> QED
    BY <1>1, <1>2, <1>3, <2>1, NodeReturnsReport
       DEF ActionReturns, Told, Paying, ForOthers
<1>4. CASE UseFallback(r)
  BY <1>1, <1>2, <1>4, UseFallbackReport
<1>5. Failed(st[r]).command = st[r].command
  BY <1>1, CommandKept
<1> QED
  BY <1>3, <1>4, <1>5 DEF Query, RejectQuery

(* At the transfer step nothing is confirmed yet. *)
LEMMA TransferReport ==
  ASSUME TypeOK, TransferInv, ReportInv, NEW r \in Requests, Transfer(r)
  PROVE  ReportInv'
<1>1. /\ pc[r] = "transfer" /\ pc[r] \notin Told \cup {"chatResponse"}
      /\ transfers[r] \in Seq(Attempt) /\ st[r] \in GraphState
  BY DEF Transfer, TypeOK, Told
<1>2. ~Confirmed(transfers[r])
  <2>1. \/ transfers[r] = << >>
        \/ Len(transfers[r]) = 1 /\ transfers[r][1].reply \in {402, 422}
    BY <1>1 DEF TransferInv, PrimaryRefused, TransferRetryable
  <2> QED
    BY <1>1, <2>1 DEF Confirmed, Accepted
<1>3. PICK reply \in Replies, attempt \in Attempt :
        /\ attempt.reply = reply
        /\ transfers' = [transfers EXCEPT ![r] = Append(@, attempt)]
        /\ TransferReturns(r, reply)
  <2>1. PICK reply \in Replies, debited \in BOOLEAN :
          /\ transfers' = [transfers EXCEPT ![r] =
                Append(@, [account |-> account[r], payload |-> Payload(work[r]),
                           reply |-> reply, debited |-> debited])]
          /\ TransferReturns(r, reply)
    BY DEF Transfer
  <2>2. [account |-> account[r], payload |-> Payload(work[r]), reply |-> reply,
         debited |-> debited] \in Attempt
    BY PayloadType DEF TypeOK, Attempt
  <2> QED
    BY <2>1, <2>2
<1>4. /\ transfers'[r] = Append(transfers[r], attempt)
      /\ \A o \in Requests \ {r} : transfers'[o] = transfers[o]
  BY <1>3 DEF TypeOK
<1>5. Confirmed(transfers'[r]) <=> Accepted(reply)
  <2>1. /\ DOMAIN transfers'[r] = 1..(Len(transfers[r]) + 1)
        /\ DOMAIN transfers[r] = 1..Len(transfers[r])
        /\ Len(transfers[r]) \in Nat
    BY <1>1, <1>3, <1>4
  <2>2. /\ transfers'[r][Len(transfers[r]) + 1] = attempt
        /\ \A i \in DOMAIN transfers[r] : transfers'[r][i] = transfers[r][i]
    BY <1>1, <1>3, <1>4
  <2> QED
    BY <1>2, <1>3, <2>1, <2>2 DEF Confirmed
<1>6. CASE Accepted(reply) /\ ActionReturns(r, Succeeded(st[r], Receipt(r)))
  <2>1. Reports(r, Succeeded(st[r], Receipt(r)), transfers'[r])
    BY <1>1, <1>5, <1>6, CommandKept DEF Reports
  <2> QED
    BY <1>1, <1>4, <1>6, <2>1, NodeReturnsReport
       DEF ActionReturns, Told, Paying, ForOthers
<1>7. CASE UseFallback(r)
  BY <1>1, <1>4, <1>7, UseFallbackReport
<1>8. CASE ~Accepted(reply) /\ ActionReturns(r, Failed(st[r]))
  <2>1. Reports(r, Failed(st[r]), transfers'[r])
    BY <1>1, <1>5, <1>8, CommandKept DEF Reports
  <2> QED
    BY <1>1, <1>4, <1>8, <2>1, NodeReturnsReport
       DEF ActionReturns, Told, Paying, ForOthers
<1> QED
  BY <1>3, <1>6, <1>7, <1>8 DEF TransferReturns

(* A failure reported before anything was sent *)
LEMMA FailsUnsent ==
  ASSUME TypeOK, TransferInv, ReportInv, NEW r \in Requests, pc[r] \in Before \ Told,
         NEW s, ~s.action_success \/ (s.command = "pix_payment" /\ s.awaiting_amount),
         ActionReturns(r, s), UNCHANGED transfers
  PROVE  ReportInv'
<1>1. transfers'[r] = << >>
  BY DEF TransferInv
<1>2. Reports(r, s, transfers'[r])
  BY <1>1 DEF Reports, Confirmed
<1> QED
  BY <1>2, NodeReturnsReport DEF ActionReturns, Told, Paying, ForOthers

(* r's answer is drafted and nothing else that it reports from changes *)
LEMMA DraftReport ==
  ASSUME TypeOK, ReportInv, NEW r \in Requests, NEW a, Draft(r, a),
         a.kind = "scenario" => /\ pc'[r] \in Told
                                /\ Honest(r, a, transfers[r]),
         pc' = pc \/ pc' = [pc EXCEPT ![r] = "reply"],
         UNCHANGED <<st, work, transfers>>
  PROVE  ReportInv'
<1>1. Report(r)'
  <2>1. \/ answer'[r] = answer[r] /\ answer[r].kind = "error500"
        \/ answer'[r] = a
    BY DEF TypeOK, Draft
  <2>2. Honest(r, answer'[r], transfers'[r])
    BY <2>1 DEF Honest, MovesMoney
  <2>3. pc'[r] \notin Told => answer'[r].kind # "scenario"
    BY <2>1
  <2>4. pc'[r] = pc[r] \/ pc'[r] = "reply"
    BY DEF TypeOK
  <2> QED
    BY <2>2, <2>3, <2>4 DEF ReportInv, Report, Paying, ForOthers
<1>2. ASSUME NEW o \in Requests \ {r} PROVE Report(o)'
  <2>1. /\ pc'[o] = pc[o] /\ st'[o] = st[o] /\ work'[o] = work[o]
        /\ answer'[o] = answer[o] /\ transfers'[o] = transfers[o]
    BY DEF TypeOK, Draft
  <2> QED
    BY <2>1 DEF ReportInv, Report
<1> QED
  BY <1>1, <1>2 DEF ReportInv

(* chatResponse tells the outcome of the state it is given. *)
LEMMA ScenarioHonest ==
  ASSUME NEW r, NEW s, NEW sent, Reports(r, s, sent)
  PROVE  Honest(r, ScenarioOf(s), sent)
  BY DEF Honest, MovesMoney, ScenarioOf, Outcome, Reports, Money

LEMMA ReportInit == Init => ReportInv
<1> SUFFICES ASSUME Init, NEW r \in Requests PROVE Report(r)
  BY DEF ReportInv
<1>1. pc[r] = "idle" /\ answer[r] = NoAnswer
  BY DEF Init
<1>2. Honest(r, answer[r], transfers[r]) /\ answer[r].kind # "scenario"
  BY <1>1 DEF NoAnswer, Answer, Honest, MovesMoney
<1> QED
  BY <1>1, <1>2 DEF Report, Paying, ForOthers

(* One step of a request, action by action *)
LEMMA ReportStep ==
  ASSUME TypeOK, TransferInv, ReportInv, NEW r \in Requests, Step(r)
  PROVE  ReportInv'
<1> USE DEF Told, Paying, ForOthers
<1>1. st[r] \in GraphState /\ work[r] \in GraphState
  BY DEF TypeOK
<1>2. CASE GuardrailBlocks(r) \/ GuardrailPasses(r)
  BY <1>2, NodeReturnsReport DEF GuardrailBlocks, GuardrailPasses
<1>3. CASE GuardrailFails(r) \/ BlockedResponse(r)
  BY <1>3, DraftReport DEF GuardrailFails, BlockedResponse, Answer, Goto
<1>4. CASE ResolveAmount(r) \/ Classify(r) \/ ClassifyFails(r)
  <2>1. PICK s : /\ NodeReturns(r, s, RouteIntent(s.command))
                 /\ pc[r] = "identifyIntent" /\ UNCHANGED transfers
    <3>1. /\ Continued(st[r], msg[r]).command = "pix_payment"
          /\ Classified(st[r], msg[r]).command = msg[r].intent
          /\ [st[r] EXCEPT !.command = "unknown"].command = "unknown"
      BY <1>1 DEF Continued, Classified, GraphState
    <3> QED
      BY <1>4, <3>1 DEF ResolveAmount, Classify, ClassifyFails
  <2> QED
    BY <2>1, RouteCommand, NodeReturnsReport
<1>5. CASE Fallback(r)
  <2>1. Reports(r, [st[r] EXCEPT !.action_success = TRUE], transfers'[r])
    BY <1>1, <1>5, CommandKept DEF Fallback, ReportInv, Report, Reports
  <2> QED
    BY <1>5, <2>1, NodeReturnsReport DEF Fallback, ActionReturns
<1>6. CASE ListKeys(r)
  BY <1>1, <1>6, CommandKept, QueryReport DEF ListKeys
<1>7. CASE ReadKey(r)
  BY <1>1, <1>7, CommandKept, QueryReport DEF ReadKey
<1>8. CASE BRCodePreview(r)
  BY <1>1, <1>8, CommandKept, QueryReport DEF BRCodePreview
<1>9. CASE Payment(r)
  <2>1. /\ pc[r] \in Paying /\ st[r].command = "pix_payment" /\ UNCHANGED transfers
        /\ pc[r] \in Before
    BY <1>9 DEF Payment, PaymentContinues, PaymentStarts, PaymentPreview, PayFixed,
                PayCustom, RefuseUnpayable, AskAmount, UnknownAmountType, Payable,
                ReportInv, Report, Before, Steps, Nodes
  <2>2. ASSUME NEW s, ActionReturns(r, s),
               ~s.action_success \/ (s.command = "pix_payment" /\ s.awaiting_amount)
        PROVE  ReportInv'
    BY <2>1, <2>2, FailsUnsent
  <2>3. CASE PaymentContinues(r)
    BY <2>1, <2>3, ContinueReport DEF PaymentContinues
  <2>4. CASE PaymentStarts(r)
    BY <1>1, <2>1, <2>2, <2>4, CommandKept, ContinueReport DEF PaymentStarts
  <2>5. CASE PaymentPreview(r)
    <3>1. ASSUME NEW s, s.command = "pix_payment", Continue(r, s, "resolveAmount")
          PROVE  ReportInv'
      BY <2>1, <3>1, ContinueReport
    <3>2. CASE UseFallback(r)
      BY <2>1, <3>2, UseFallbackReport
    <3> QED
      BY <1>1, <2>1, <2>2, <2>5, <3>1, <3>2, CommandKept DEF PaymentPreview
  <2>6. CASE RefuseUnpayable(r) \/ UnknownAmountType(r)
    BY <1>1, <2>2, <2>6, CommandKept DEF RefuseUnpayable, UnknownAmountType
  <2>7. CASE AskAmount(r)
    <3>1. work[r].command = "pix_payment"
      BY <2>7 DEF AskAmount, Payable, ReportInv, Report
    <3> QED
      BY <1>1, <2>2, <2>7, <3>1, CommandKept DEF AskAmount
  <2>8. CASE PayFixed(r) \/ PayCustom(r)
    BY <2>1, <2>8, ContinueReport DEF PayFixed, PayCustom
  <2> QED
    BY <1>9, <2>3, <2>4, <2>5, <2>6, <2>7, <2>8 DEF Payment
<1>10. CASE PixWithdraw(r) \/ Enrich(r) \/ Lookup(r)
  BY <1>10, ContinueReport DEF PixWithdraw, Enrich, Lookup
<1>11. CASE Validate(r)
  <2>1. pc[r] \in Before /\ pc[r] = "validate"
    BY <1>11 DEF Validate, Before, Steps
  <2> QED
    BY <1>1, <1>11, <2>1, CommandKept, ContinueReport, FailsUnsent DEF Validate
<1>12. CASE Transfer(r)
  BY <1>12, TransferReport
<1>13. CASE ChatResponse(r)
  <2>1. Reports(r, st[r], transfers[r]) /\ pc[r] = "chatResponse"
    BY <1>13 DEF ChatResponse, ReportInv, Report
  <2>2. Honest(r, ScenarioOf(st[r]), transfers[r])
    BY <2>1, ScenarioHonest
  <2>3. pc'[r] = "reply"
    BY <1>13 DEF ChatResponse, Goto, TypeOK
  <2> QED
    BY <1>13, <2>2, <2>3, DraftReport DEF ChatResponse, Goto, Answer
<1>14. CASE Reply(r)
  <2>1. /\ pc' = [pc EXCEPT ![r] = "done"] /\ UNCHANGED <<work, answer, transfers>>
        /\ st' = [st EXCEPT ![r] = EmptyState]
    BY <1>14 DEF Reply, Goto
  <2> QED
    BY <2>1 DEF TypeOK, ReportInv, Report
<1>15. CASE SaveCheckpoint(r)
  BY <1>15 DEF SaveCheckpoint, ReportInv, Report
<1> QED
  BY <1>2, <1>3, <1>4, <1>5, <1>6, <1>7, <1>8, <1>9, <1>10, <1>11, <1>12, <1>13,
     <1>14, <1>15 DEF Step, Withdraw

LEMMA ReportNext == TypeInv /\ TransferInv /\ ReportInv /\ [Next]_vars => ReportInv'
<1> SUFFICES ASSUME TypeOK, TransferInv, ReportInv, [Next]_vars PROVE ReportInv'
  BY DEF TypeInv
<1> USE DEF Told, Paying, ForOthers
<1>1. ASSUME NEW r \in Requests, NEW t \in Threads, NEW m \in Messages,
             Receive(r, t, m)
      PROVE  ReportInv'
  <2>1. /\ pc' = [pc EXCEPT ![r] = "guardrail"] /\ pc[r] = "idle"
        /\ st' = [st EXCEPT ![r] = saved[t]]
        /\ UNCHANGED <<work, answer, transfers>>
    BY <1>1 DEF Receive, Goto
  <2> QED
    BY <2>1 DEF TypeOK, ReportInv, Report
<1>2. ASSUME NEW r \in Requests, Step(r) PROVE ReportInv'
  BY <1>2, ReportStep
<1>3. ASSUME NEW r \in Requests, SaveFails(r) PROVE ReportInv'
  BY <1>3, DraftReport DEF SaveFails, Answer
<1>4. CASE Crash
  <2> SUFFICES ASSUME NEW r \in Requests PROVE Report(r)'
    BY DEF ReportInv
  <2>1. /\ pc'[r] = IF pc[r] \in Steps THEN "crashed" ELSE pc[r]
        /\ answer'[r] = IF pc[r] \in Steps THEN NoAnswer ELSE answer[r]
        /\ transfers' = transfers
    BY <1>4 DEF Crash, Running
  <2>2. pc[r] \in Steps \cup Ended \cup {"idle"}
    BY DEF TypeOK
  <2>3. pc'[r] \in Told \cup {"idle"}
    BY <2>1, <2>2 DEF Ended
  <2>4. Honest(r, NoAnswer, transfers[r]) /\ NoAnswer.kind # "scenario"
    BY DEF Honest, MovesMoney, NoAnswer, Answer
  <2> QED
    BY <2>1, <2>3, <2>4 DEF ReportInv, Report
<1>5. ASSUME NEW q \in QRs, QRStatusChanges(q) PROVE ReportInv'
  BY <1>5 DEF QRStatusChanges, ReportInv, Report
<1>6. CASE UNCHANGED vars
  BY <1>6 DEF vars, ReportInv, Report
<1> QED
  BY <1>1, <1>2, <1>3, <1>4, <1>5, <1>6 DEF Next, Quiescent

LEMMA ReportInvariant == Spec => []ReportInv
<1>1. Init => TypeInv /\ TransferInv /\ ReportInv
  BY TypeInit, TransferInit, ReportInit
<1>2. TypeInv /\ TransferInv /\ ReportInv /\ [Next]_vars
        => (TypeInv /\ TransferInv /\ ReportInv)'
  BY TypeNext, TransferNext, ReportNext
<1> QED
  BY <1>1, <1>2, PTL DEF Spec

(* A success told for a payment or a transfer is one that the bank         *)
(* confirmed in this very request, shown with its own receipt, whatever    *)
(* flags and data earlier turns left in the thread.                        *)
THEOREM SuccessesAreReal == Spec => []SuccessIsReal
<1>1. ReportInv => SuccessIsReal
  BY DEF ReportInv, Report, Honest, Confirmed, SuccessIsReal
<1> QED
  BY <1>1, ReportInvariant, PTL

(* An error told for a payment or a transfer never follows a confirmation  *)
(* of the bank in this request, on either account.                         *)
THEOREM FailuresAreReal == Spec => []FailureIsReal
<1>1. ReportInv => FailureIsReal
  BY DEF ReportInv, Report, Honest, Confirmed, FailureIsReal
<1> QED
  BY <1>1, ReportInvariant, PTL

-----------------------------------------------------------------------------
(***************************************************************************)
(* What is over is over: a request that is not inside a node holds no work *)
(* of it, one that ended holds no state and owes no checkpoint.  Only so   *)
(* does nothing change for it any more, and does no checkpoint come late.  *)
(***************************************************************************)
AtNode == Nodes \cup {"idle", "reply", "done", "crashed"}

Rest(r) ==
    /\ pc[r] \in AtNode => work[r] = EmptyState
    /\ pc[r] \in Ended => st[r] = EmptyState
    /\ pc[r] \in Ended \cup {"idle"} => ~unsaved[r]

RestInv == \A r \in Requests : Rest(r)

(* The parts of a request that Advances does not mention *)
LEMMA OthersStay ==
  ASSUME TypeOK, NEW r \in Requests, Step(r), NEW o \in Requests \ {r}
  PROVE  account'[o] = account[o] /\ unsaved'[o] = unsaved[o]
<1> USE DEF TypeOK, ActionReturns, NodeReturns, Continue, UseFallback
<1>1. CASE Payment(r)
  BY <1>1 DEF Payment, PaymentContinues, PaymentStarts, PaymentPreview, PayFixed,
              PayCustom, RefuseUnpayable, AskAmount, UnknownAmountType
<1>2. CASE ListKeys(r) \/ ReadKey(r) \/ BRCodePreview(r)
  BY <1>2 DEF ListKeys, ReadKey, BRCodePreview, Query, RejectQuery
<1>3. CASE Withdraw(r) \/ PixWithdraw(r)
  BY <1>3 DEF Withdraw, PixWithdraw, Enrich, Lookup, Validate, Transfer, TransferReturns
<1>4. CASE \/ GuardrailBlocks(r) \/ GuardrailPasses(r) \/ GuardrailFails(r)
           \/ BlockedResponse(r) \/ ResolveAmount(r) \/ Classify(r)
           \/ ClassifyFails(r) \/ Fallback(r) \/ ChatResponse(r) \/ Reply(r)
           \/ SaveCheckpoint(r)
  BY <1>4 DEF GuardrailBlocks, GuardrailPasses, GuardrailFails, BlockedResponse,
              ResolveAmount, Classify, ClassifyFails, Fallback, ChatResponse,
              Reply, SaveCheckpoint
<1> QED
  BY <1>1, <1>2, <1>3, <1>4 DEF Step

(***************************************************************************)
(* The ways in which a step of r goes on: a node returns, or goes on       *)
(* inside; a second account; the answer; the end; a checkpoint.  They lead *)
(* down the graph, never up.                                               *)
(***************************************************************************)
Goes(r) ==
    \/ \E s, next : /\ next \in Nodes /\ NodeReturns(r, s, next)
                    /\ Ahead[next] < Ahead[pc[r]]
                    /\ next = "blockedResponse" => s.is_blocked
    \/ \E w, next : /\ next \in Steps \ AtNode /\ Continue(r, w, next)
                    /\ Ahead[next] < Ahead[pc[r]]
    \/ UseFallback(r) /\ account[r] = "primary"
    \/ /\ pc[r] \in {"guardrail", "blockedResponse", "chatResponse"}
       /\ Goto(r, "reply")
       /\ \E a : /\ Draft(r, a)
                 /\ a.kind = "scenario" => a = ScenarioOf(st[r])
                 /\ a.kind = "refused" => pc[r] = "blockedResponse"
       /\ UNCHANGED <<thread, st, work, account, unsaved, saved>>
    \/ Reply(r)
    \/ SaveCheckpoint(r)

LEMMA RouteAhead ==
  ASSUME NEW c
  PROVE  /\ RouteIntent(c) \in Nodes \ {"guardrail", "blockedResponse"}
         /\ Ahead[RouteIntent(c)] < Ahead["identifyIntent"]
  BY DEF RouteIntent, Nodes, Ahead

LEMMA ActionGoes ==
  ASSUME NEW r \in Requests, NEW s, ActionReturns(r, s), pc[r] \in Steps,
         pc[r] \notin {"blockedResponse", "chatResponse", "reply"}
  PROVE  Goes(r)
<1>1. "chatResponse" \in Nodes /\ Ahead["chatResponse"] < Ahead[pc[r]]
  BY DEF Nodes, Steps, Ahead
<1> QED
  BY <1>1 DEF ActionReturns, Goes

LEMMA InsideGoes ==
  ASSUME NEW r \in Requests, NEW w, NEW next \in Steps \ AtNode, Continue(r, w, next),
         Ahead[next] < Ahead[pc[r]]
  PROVE  Goes(r)
BY DEF Goes

LEMMA QueryGoes ==
  ASSUME NEW r \in Requests, NEW ok,
         pc[r] \in {"listKeys", "readKey", "brcodePreview"}, Query(r, ok) \/ RejectQuery(r)
  PROVE  Goes(r)
<1>1. ASSUME NEW s, ActionReturns(r, s) PROVE Goes(r)
  BY <1>1, ActionGoes DEF Steps, Nodes
<1>2. UseFallback(r) /\ account[r] = "primary" => Goes(r)
  BY DEF Goes
<1> QED
  BY <1>1, <1>2 DEF Query, RejectQuery, RetriesOnFallback

LEMMA StepGoes ==
  ASSUME TypeOK, NEW r \in Requests, Step(r)
  PROVE  Goes(r)
<1>a. ASSUME NEW s, ActionReturns(r, s), pc[r] \in Steps,
             pc[r] \notin {"blockedResponse", "chatResponse", "reply"}
      PROVE  Goes(r)
  BY <1>a, ActionGoes
<1>b. UseFallback(r) /\ account[r] = "primary" => Goes(r)
  BY DEF Goes
<1>1. CASE GuardrailBlocks(r)
  <2>1. [st[r] EXCEPT !.is_blocked = TRUE].is_blocked
    BY DEF TypeOK, GraphState
  <2>2. "blockedResponse" \in Nodes /\ Ahead["blockedResponse"] < Ahead["guardrail"]
    BY DEF Nodes, Ahead
  <2> QED
    BY <1>1, <2>1, <2>2 DEF GuardrailBlocks, Goes
<1>2. CASE GuardrailPasses(r)
  <2>1. "identifyIntent" \in Nodes /\ Ahead["identifyIntent"] < Ahead["guardrail"]
    BY DEF Nodes, Ahead
  <2> QED
    BY <1>2, <2>1 DEF GuardrailPasses, Goes
<1>3. CASE GuardrailFails(r) \/ BlockedResponse(r) \/ ChatResponse(r)
  <2>1. \A kind \in AnswerKinds : Answer(kind).kind = kind
    BY DEF Answer
  <2>2. ScenarioOf(st[r]).kind = "scenario"
    BY DEF ScenarioOf
  <2>3. CASE GuardrailFails(r)
    BY <2>1, <2>3 DEF GuardrailFails, Goes, AnswerKinds
  <2>4. CASE BlockedResponse(r)
    BY <2>1, <2>4 DEF BlockedResponse, Goes, AnswerKinds
  <2>5. CASE ChatResponse(r)
    BY <2>1, <2>2, <2>5 DEF ChatResponse, Goes, AnswerKinds
  <2> QED
    BY <1>3, <2>3, <2>4, <2>5
<1>4. CASE ResolveAmount(r) \/ Classify(r) \/ ClassifyFails(r)
  <2>1. PICK s, c : NodeReturns(r, s, RouteIntent(c)) /\ pc[r] = "identifyIntent"
    BY <1>4 DEF ResolveAmount, Classify, ClassifyFails
  <2> QED
    BY <2>1, RouteAhead DEF Goes
<1>5. CASE Fallback(r)
  BY <1>a, <1>5 DEF Fallback, Steps, Nodes
<1>6. CASE ListKeys(r) \/ ReadKey(r) \/ BRCodePreview(r)
  BY <1>6, QueryGoes DEF ListKeys, ReadKey, BRCodePreview
<1>7. CASE Payment(r)
  <2> USE DEF Ahead, Steps, Nodes, AtNode
  <2>1. CASE PaymentContinues(r)
    BY <2>1, InsideGoes DEF PaymentContinues
  <2>2. CASE PaymentStarts(r)
    BY <1>a, <2>2, InsideGoes DEF PaymentStarts
  <2>3. CASE PaymentPreview(r)
    BY <1>a, <1>b, <2>3, InsideGoes DEF PaymentPreview, RetriesOnFallback
  <2>4. CASE RefuseUnpayable(r) \/ AskAmount(r) \/ UnknownAmountType(r)
    BY <1>a, <2>4 DEF RefuseUnpayable, AskAmount, UnknownAmountType, Payable
  <2>5. CASE PayFixed(r) \/ PayCustom(r)
    BY <2>5, InsideGoes DEF PayFixed, PayCustom, Payable
  <2> QED
    BY <1>7, <2>1, <2>2, <2>3, <2>4, <2>5 DEF Payment
<1>8. CASE PixWithdraw(r) \/ Withdraw(r)
  <2> USE DEF Ahead, Steps, Nodes, AtNode
  <2>1. CASE PixWithdraw(r) \/ Lookup(r)
    BY <2>1, InsideGoes DEF PixWithdraw, Lookup
  <2>2. CASE Enrich(r)
    BY <2>2, InsideGoes DEF Enrich
  <2>3. CASE Validate(r)
    BY <1>a, <2>3, InsideGoes DEF Validate
  <2>4. CASE Transfer(r)
    BY <1>a, <1>b, <2>4 DEF Transfer, TransferReturns, RetriesOnFallback
  <2> QED
    BY <1>8, <2>1, <2>2, <2>3, <2>4 DEF Withdraw
<1>9. CASE Reply(r) \/ SaveCheckpoint(r)
  BY <1>9 DEF Goes
<1> QED
  BY <1>1, <1>2, <1>3, <1>4, <1>5, <1>6, <1>7, <1>8, <1>9 DEF Step

LEMMA RestInit == Init => RestInv
BY DEF Init, RestInv, Rest, Ended

LEMMA RestStep ==
  ASSUME TypeOK, RestInv, NEW r \in Requests, Step(r)
  PROVE  RestInv'
<1>1. ASSUME NEW o \in Requests \ {r} PROVE Rest(o)'
  <2>1. /\ pc'[o] = pc[o] /\ st'[o] = st[o] /\ work'[o] = work[o]
        /\ unsaved'[o] = unsaved[o]
    BY StepAdvances, OthersStay DEF Advances, Others
  <2> QED
    BY <2>1 DEF RestInv, Rest
<1>2. Rest(r)'
  <2> USE DEF TypeOK, Goto
  <2>1. ASSUME NEW s, NEW next \in Nodes, NodeReturns(r, s, next) PROVE Rest(r)'
    <3>1. pc'[r] = next /\ work'[r] = EmptyState
      BY <2>1 DEF NodeReturns
    <3> QED
      BY <3>1 DEF Rest, Nodes, Ended
  <2>2. ASSUME NEW w, NEW next \in Steps \ AtNode, Continue(r, w, next) PROVE Rest(r)'
    <3>1. pc'[r] = next
      BY <2>2 DEF Continue
    <3> QED
      BY <2>2, <3>1 DEF Rest, Steps, AtNode, Ended
  <2>3. CASE UseFallback(r)
    BY <2>3 DEF UseFallback, RestInv, Rest
  <2>4. CASE /\ pc[r] \in {"guardrail", "blockedResponse", "chatResponse"}
             /\ Goto(r, "reply") /\ UNCHANGED <<st, work, account, unsaved, saved>>
    BY <2>4 DEF RestInv, Rest, AtNode, Nodes, Ended
  <2>5. CASE Reply(r)
    BY <2>5 DEF Reply, RestInv, Rest, AtNode, Ended
  <2>6. CASE SaveCheckpoint(r)
    BY <2>6 DEF SaveCheckpoint, RestInv, Rest
  <2>7. Goes(r)
    BY StepGoes
  <2> QED
    BY <2>1, <2>2, <2>3, <2>4, <2>5, <2>6, <2>7 DEF Goes
<1> QED
  BY <1>1, <1>2 DEF RestInv

LEMMA RestNext == TypeInv /\ RestInv /\ [Next]_vars => RestInv'
<1> SUFFICES ASSUME TypeOK, RestInv, [Next]_vars PROVE RestInv'
  BY DEF TypeInv
<1>1. ASSUME NEW r \in Requests, NEW t \in Threads, NEW m \in Messages, Receive(r, t, m)
      PROVE  RestInv'
  <2>1. /\ pc[r] = "idle" /\ pc'[r] = "guardrail" /\ work' = work
        /\ \A o \in Requests \ {r} :
             pc'[o] = pc[o] /\ st'[o] = st[o] /\ unsaved'[o] = unsaved[o]
    BY <1>1 DEF Receive, Goto, TypeOK
  <2> QED
    BY <2>1 DEF RestInv, Rest, AtNode, Ended
<1>2. ASSUME NEW r \in Requests, Step(r) PROVE RestInv'
  BY <1>2, RestStep
<1>3. ASSUME NEW r \in Requests, SaveFails(r) PROVE RestInv'
  <2>1. /\ UNCHANGED <<pc, st, work>>
        /\ \A o \in Requests : unsaved'[o] => unsaved[o]
    BY <1>3 DEF SaveFails, TypeOK
  <2> QED
    BY <2>1 DEF RestInv, Rest
<1>4. CASE Crash
  BY <1>4 DEF Crash, RestInv, Rest
<1>5. CASE UNCHANGED vars \/ \E q \in QRs : QRStatusChanges(q)
  BY <1>5 DEF vars, QRStatusChanges, RestInv, Rest
<1> QED
  BY <1>1, <1>2, <1>3, <1>4, <1>5 DEF Next, Quiescent

-----------------------------------------------------------------------------
(***************************************************************************)
(* Progress: what a request has before it gets less with every step of it. *)
(***************************************************************************)
Spare(r) == (IF unsaved[r] THEN 2 ELSE 0) + (IF account[r] = "primary" THEN 1 ELSE 0)

LEMMA RemainingIs ==
  ASSUME TypeOK, NEW r \in Requests, pc[r] # "idle"
  PROVE  /\ Ahead[pc[r]] \in 0..11 /\ Spare(r) \in 0..3
         /\ Remaining(r) = 4 * Ahead[pc[r]] + Spare(r)
         /\ Remaining(r) \in 0..47
<1>1. pc[r] \in Steps \cup Ended
  BY DEF TypeOK
<1>2. Ahead[pc[r]] \in 0..11
  BY <1>1 DEF Ahead, Steps, Nodes, Ended
<1>3. Spare(r) \in 0..3
  BY DEF Spare
<1>4. Remaining(r) = 4 * Ahead[pc[r]] + Spare(r)
  BY <1>2 DEF Remaining, Spare
<1> QED
  BY <1>2, <1>3, <1>4

LEMMA LessAhead ==
  ASSUME TypeOK, TypeOK', NEW r \in Requests, pc[r] # "idle", pc'[r] # "idle",
         Ahead[pc'[r]] < Ahead[pc[r]]
  PROVE  Remaining(r)' < Remaining(r)
<1>1. /\ Ahead[pc[r]] \in 0..11 /\ Spare(r) \in 0..3
      /\ Remaining(r) = 4 * Ahead[pc[r]] + Spare(r)
  BY RemainingIs
<1>2. pc'[r] \in Steps \cup Ended
  BY DEF TypeOK
<1>3. Ahead[pc'[r]] \in 0..11
  BY <1>2 DEF Ahead, Steps, Nodes, Ended
<1>4. Spare(r)' \in 0..3
  BY DEF Spare
<1>5. Remaining(r)' = 4 * Ahead[pc'[r]] + Spare(r)'
  BY <1>3 DEF Remaining, Spare, Ahead
<1> QED
  BY <1>1, <1>3, <1>4, <1>5

LEMMA LessSpare ==
  ASSUME TypeOK, NEW r \in Requests, pc[r] # "idle", pc'[r] = pc[r],
         Spare(r)' < Spare(r)
  PROVE  Remaining(r)' < Remaining(r)
<1>1. /\ Ahead[pc[r]] \in 0..11 /\ Spare(r) \in 0..3
      /\ Remaining(r) = 4 * Ahead[pc[r]] + Spare(r)
  BY RemainingIs
<1>2. Spare(r)' \in 0..3
  BY DEF Spare
<1>3. Remaining(r)' = 4 * Ahead[pc[r]] + Spare(r)'
  BY <1>1 DEF Remaining, Spare, Ahead
<1> QED
  BY <1>1, <1>2, <1>3

LEMMA StepGetsOn ==
  ASSUME TypeOK, TypeOK', NEW r \in Requests, Step(r), pc[r] # "idle"
  PROVE  Remaining(r)' < Remaining(r)
<1> USE DEF Goto
<1>1. ASSUME NEW s, NEW next \in Nodes, NodeReturns(r, s, next), Ahead[next] < Ahead[pc[r]]
      PROVE  Remaining(r)' < Remaining(r)
  <2>1. pc'[r] = next /\ next # "idle"
    BY <1>1 DEF NodeReturns, Nodes, TypeOK
  <2> QED
    BY <1>1, <2>1, LessAhead
<1>2. ASSUME NEW w, NEW next \in Steps \ AtNode, Continue(r, w, next),
             Ahead[next] < Ahead[pc[r]]
      PROVE  Remaining(r)' < Remaining(r)
  <2>1. pc'[r] = next /\ next # "idle"
    BY <1>2 DEF Continue, AtNode, TypeOK
  <2> QED
    BY <1>2, <2>1, LessAhead
<1>3. CASE UseFallback(r) /\ account[r] = "primary"
  <2>1. pc'[r] = pc[r] /\ unsaved'[r] = unsaved[r] /\ account'[r] = "fallback"
    BY <1>3 DEF UseFallback, TypeOK
  <2>2. Spare(r)' < Spare(r)
    BY <1>3, <2>1 DEF Spare
  <2> QED
    BY <2>1, <2>2, LessSpare
<1>4. CASE pc[r] \in {"guardrail", "blockedResponse", "chatResponse"} /\ Goto(r, "reply")
  <2>1. pc'[r] = "reply"
    BY <1>4 DEF TypeOK
  <2>2. Ahead[pc'[r]] < Ahead[pc[r]]
    BY <1>4, <2>1 DEF Ahead
  <2> QED
    BY <2>1, <2>2, LessAhead
<1>5. CASE Reply(r)
  <2>1. pc[r] = "reply" /\ pc'[r] = "done"
    BY <1>5 DEF Reply, TypeOK
  <2>2. Ahead[pc'[r]] < Ahead[pc[r]]
    BY <2>1 DEF Ahead
  <2> QED
    BY <2>1, <2>2, LessAhead
<1>6. CASE SaveCheckpoint(r)
  <2>1. /\ pc'[r] = pc[r] /\ unsaved[r] /\ ~unsaved'[r] /\ account'[r] = account[r]
    BY <1>6 DEF SaveCheckpoint, TypeOK
  <2>2. Spare(r)' < Spare(r)
    BY <2>1 DEF Spare
  <2> QED
    BY <2>1, <2>2, LessSpare
<1>7. Goes(r)
  BY StepGoes
<1> QED
  BY <1>1, <1>2, <1>3, <1>4, <1>5, <1>6, <1>7 DEF Goes

LEMMA CrashGetsOn ==
  ASSUME TypeOK, TypeOK', RestInv, TransferInv, NEW r \in Requests, Crash, pc[r] # "idle",
         Own(r)' # Own(r)
  PROVE  Remaining(r)' < Remaining(r)
<1>1. CASE pc[r] \in Steps
  <2>1. pc'[r] = "crashed"
    BY <1>1 DEF Crash, Running
  <2>2. Ahead[pc'[r]] < Ahead[pc[r]]
    BY <1>1, <2>1 DEF Ahead, Steps, Nodes
  <2> QED
    BY <2>1, <2>2, LessAhead
<1>2. CASE pc[r] \notin Steps
  <2>1. pc[r] \in Ended
    BY <1>2 DEF TypeOK
  <2>2. /\ work[r] = EmptyState /\ st[r] = EmptyState /\ ~unsaved[r]
        /\ account[r] = "primary" /\ unsaved[r] \in BOOLEAN
    BY <2>1 DEF RestInv, Rest, AtNode, Ended, TransferInv, Querying, TypeOK
  <2>3. /\ pc'[r] = pc[r] /\ st'[r] = EmptyState /\ work'[r] = EmptyState
        /\ account'[r] = "primary" /\ unsaved'[r] = FALSE /\ answer'[r] = answer[r]
        /\ transfers'[r] = transfers[r]
    BY <1>2 DEF Crash, Running
  <2> QED
    BY <2>2, <2>3 DEF Own
<1> QED
  BY <1>1, <1>2

LEMMA NextGetsOn ==
  ASSUME TypeInv, TransferInv, RestInv, [Next]_vars, NEW r \in Requests, pc[r] # "idle",
         Own(r)' # Own(r)
  PROVE  Remaining(r)' < Remaining(r)
<1>1. TypeOK /\ TypeOK'
  BY TypeNext DEF TypeInv
<1>2. ASSUME NEW o \in Requests, NEW t \in Threads, NEW m \in Messages, Receive(o, t, m)
      PROVE  FALSE
  <2>1. o # r
    BY <1>2 DEF Receive
  <2> QED
    BY <1>1, <1>2, <2>1 DEF Receive, Goto, TypeOK, Own
<1>3. ASSUME NEW o \in Requests, Step(o) PROVE Remaining(r)' < Remaining(r)
  <2>1. CASE o = r
    BY <1>1, <1>3, <2>1, StepGetsOn
  <2>2. CASE o # r
    BY <1>1, <1>3, <2>2, StepAdvances, OthersStay DEF Advances, Others, Own
  <2> QED
    BY <2>1, <2>2
<1>4. ASSUME NEW o \in Requests, SaveFails(o) PROVE Remaining(r)' < Remaining(r)
  <2>1. o = r
    BY <1>1, <1>4 DEF SaveFails, Draft, TypeOK, Own
  <2>2. pc'[r] = pc[r] /\ unsaved[r] /\ ~unsaved'[r] /\ account'[r] = account[r]
    BY <1>1, <1>4, <2>1 DEF SaveFails, TypeOK
  <2>3. Spare(r)' < Spare(r)
    BY <2>2 DEF Spare
  <2> QED
    BY <1>1, <2>2, <2>3, LessSpare
<1>5. CASE Crash
  BY <1>1, <1>5, CrashGetsOn
<1>6. CASE UNCHANGED vars \/ \E q \in QRs : QRStatusChanges(q)
  BY <1>6 DEF vars, QRStatusChanges, Own
<1> QED
  BY <1>2, <1>3, <1>4, <1>5, <1>6 DEF Next, Quiescent

(* The graph has no cycle, a retry none either, and what is over stays     *)
(* over: every step of a request leaves less before it, of 47 at most.     *)
THEOREM RequestsAlwaysGetOn == Spec => RequestsGetOn
<1> DEFINE Inv == TypeInv /\ TransferInv /\ RestInv
<1>1. Init => Inv
  BY TypeInit, TransferInit, RestInit
<1>2. Inv /\ [Next]_vars => Inv'
  BY TypeNext, TransferNext, RestNext
<1>3. Inv /\ [Next]_vars
        => [\A r \in Requests :
              pc[r] # "idle" /\ Own(r)' # Own(r) => Remaining(r)' < Remaining(r)]_vars
  BY NextGetsOn
<1> QED
  BY <1>1, <1>2, <1>3, PTL DEF Spec, RequestsGetOn

-----------------------------------------------------------------------------
(***************************************************************************)
(* What a first turn told is what the thread remembers: as long as the     *)
(* request is alone on its thread, the latest checkpoint is its own state, *)
(* or a checkpoint of it is still to be written, or it answers HTTP 500.   *)
(***************************************************************************)
Remembered(r) ==
    /\ answer[r].kind = "scenario" => ScenarioOf(saved[thread[r]]) = answer[r]
    /\ answer[r].kind = "refused"  => saved[thread[r]].is_blocked

Recalls(r) ==
    /\ pc[r] \in Steps => \/ unsaved[r]
                          \/ answer[r].kind = "error500"
                          \/ saved[thread[r]] = st[r]
    /\ pc[r] = "done" => Remembered(r)

Tells(r) ==
    /\ pc[r] = "blockedResponse" => st[r].is_blocked
    /\ pc[r] = "reply" =>
         /\ answer[r].kind = "scenario" => answer[r] = ScenarioOf(st[r])
         /\ answer[r].kind = "refused"  => st[r].is_blocked

RecallInv == \A r \in Requests : Tells(r) /\ (pc[r] # "idle" /\ AloneOnThread(r) => Recalls(r))

LEMMA RecallInit == Init => RecallInv
BY DEF Init, RecallInv, Tells

(* A step of the request that is alone *)
LEMMA StepRecalls ==
  ASSUME TypeOK, RestInv, NEW r \in Requests, Step(r), Tells(r),
         AloneOnThread(r) => Recalls(r), pc[r] # "idle"
  PROVE  Tells(r)' /\ (AloneOnThread(r) => Recalls(r)')
<1> USE DEF Goto, TypeOK, Ended
<1>1. ASSUME NEW s, NEW next \in Nodes, NodeReturns(r, s, next),
             next = "blockedResponse" => s.is_blocked
      PROVE  Tells(r)' /\ Recalls(r)'
  <2>1. pc'[r] = next /\ st'[r] = s /\ unsaved'[r]
    BY <1>1 DEF NodeReturns
  <2> QED
    BY <1>1, <2>1 DEF Tells, Recalls, Nodes
<1>2. ASSUME NEW w, NEW next \in Steps \ AtNode, Continue(r, w, next),
             Ahead[next] < Ahead[pc[r]]
      PROVE  Tells(r)' /\ (AloneOnThread(r) => Recalls(r)')
  <2>1. pc'[r] = next /\ UNCHANGED <<st, unsaved, answer, saved, thread>>
    BY <1>2 DEF Continue
  <2>2. pc[r] \notin Ended
    BY <1>2 DEF Ahead, Steps, AtNode, Nodes
  <2>3. pc[r] \in Steps
    BY <2>2
  <2> QED
    BY <2>1, <2>3 DEF Tells, Recalls, Steps, AtNode, Nodes
<1>3. CASE UseFallback(r)
  BY <1>3 DEF UseFallback, Tells, Recalls, Remembered
<1>4. ASSUME NEW a, pc[r] \in {"guardrail", "blockedResponse", "chatResponse"},
             Goto(r, "reply"), Draft(r, a),
             a.kind = "scenario" => a = ScenarioOf(st[r]),
             a.kind = "refused" => pc[r] = "blockedResponse",
             UNCHANGED <<thread, st, work, account, unsaved, saved>>
      PROVE  Tells(r)' /\ (AloneOnThread(r) => Recalls(r)')
  <2>1. /\ pc'[r] = "reply" /\ pc[r] \in Steps
        /\ answer'[r] = IF answer[r].kind = "error500" THEN answer[r] ELSE a
    BY <1>4 DEF Draft, Steps, Nodes
  <2>2. Tells(r)'
    BY <1>4, <2>1 DEF Tells, ScenarioOf, Outcome
  <2>3. AloneOnThread(r) => Recalls(r)'
    BY <1>4, <2>1 DEF Recalls
  <2> QED
    BY <2>2, <2>3
<1>5. CASE Reply(r)
  <2>1. /\ pc[r] = "reply" /\ pc'[r] = "done" /\ ~unsaved[r] /\ pc[r] \in Steps
        /\ UNCHANGED <<thread, answer, saved>>
    BY <1>5 DEF Reply, Steps
  <2>2. AloneOnThread(r) => answer[r].kind = "error500" \/ saved[thread[r]] = st[r]
    BY <2>1 DEF Recalls
  <2>3. AloneOnThread(r) => Remembered(r)
    BY <2>1, <2>2 DEF Tells, Remembered
  <2>4. Remembered(r)' = Remembered(r)
    BY <2>1 DEF Remembered, ScenarioOf, Outcome
  <2> QED
    BY <2>1, <2>3, <2>4 DEF Tells, Recalls, Steps, Nodes
<1>6. CASE SaveCheckpoint(r)
  <2>1. pc[r] \notin Ended
    BY <1>6 DEF SaveCheckpoint, RestInv, Rest
  <2>2. saved'[thread'[r]] = st'[r] /\ UNCHANGED <<pc, st, answer>>
    BY <1>6 DEF SaveCheckpoint
  <2> QED
    BY <2>1, <2>2 DEF Tells, Recalls, ScenarioOf, Outcome
<1>7. Goes(r)
  BY StepGoes
<1> QED
  BY <1>1, <1>2, <1>3, <1>4, <1>5, <1>6, <1>7 DEF Goes

LEMMA StepNotIdle ==
  ASSUME RestInv, NEW r \in Requests, Step(r)
  PROVE  pc[r] # "idle"
<1>1. CASE SaveCheckpoint(r)
  BY <1>1 DEF SaveCheckpoint, RestInv, Rest
<1>2. CASE Payment(r) \/ PixWithdraw(r) \/ Withdraw(r)
  BY <1>2 DEF Payment, PaymentContinues, PaymentStarts, PaymentPreview, PayFixed,
              PayCustom, RefuseUnpayable, AskAmount, UnknownAmountType, Payable,
              Withdraw, PixWithdraw, Enrich, Lookup, Validate, Transfer
<1>3. CASE ~(SaveCheckpoint(r) \/ Payment(r) \/ PixWithdraw(r) \/ Withdraw(r))
  BY <1>3 DEF Step, GuardrailBlocks, GuardrailPasses, GuardrailFails, BlockedResponse,
              ResolveAmount, Classify, ClassifyFails, Fallback, ChatResponse,
              ListKeys, ReadKey, BRCodePreview, Reply
<1> QED
  BY <1>1, <1>2, <1>3

(* Nobody else writes the checkpoint of a request that is alone *)
LEMMA AloneKeeps ==
  ASSUME TypeOK, RestInv, NEW r \in Requests, pc[r] # "idle", AloneOnThread(r),
         NEW o \in Requests \ {r}, Step(o)
  PROVE  saved'[thread[r]] = saved[thread[r]]
<1>1. thread[r] \in Threads
  BY DEF TypeOK
<1>2. thread[o] # thread[r]
  BY StepNotIdle DEF AloneOnThread
<1> QED
  BY <1>1, <1>2, OnlySavesWrite

LEMMA RecallOthers ==
  ASSUME NEW r \in Requests, Tells(r), AloneOnThread(r) => Recalls(r),
         pc'[r] = pc[r], st'[r] = st[r], answer'[r] = answer[r],
         unsaved'[r] = unsaved[r], thread'[r] = thread[r],
         AloneOnThread(r) => saved'[thread[r]] = saved[thread[r]]
  PROVE  Tells(r)' /\ (AloneOnThread(r) => Recalls(r)')
<1>1. Tells(r)'
  BY DEF Tells, ScenarioOf, Outcome
<1>2. AloneOnThread(r) => Recalls(r)'
  BY DEF Recalls, Remembered, ScenarioOf, Outcome
<1> QED
  BY <1>1, <1>2

LEMMA RecallNext == TypeInv /\ RestInv /\ RecallInv /\ [Next]_vars => RecallInv'
<1> SUFFICES ASSUME TypeInv, RestInv, RecallInv, [Next]_vars, NEW r \in Requests
             PROVE  Tells(r)' /\ (pc'[r] # "idle" /\ AloneOnThread(r)' => Recalls(r)')
  BY DEF RecallInv
<1>1. TypeOK /\ TypeOK'
  BY TypeNext DEF TypeInv
<1>2. Tells(r) /\ (pc[r] # "idle" /\ AloneOnThread(r) => Recalls(r))
  BY DEF RecallInv
<1>3. ASSUME NEW o \in Requests, NEW t \in Threads, NEW m \in Messages, Receive(o, t, m)
      PROVE  Tells(r)' /\ (pc'[r] # "idle" /\ AloneOnThread(r)' => Recalls(r)')
  <2>1. CASE o = r
    <3>1. pc'[r] = "guardrail" /\ unsaved'[r]
      BY <1>1, <1>3, <2>1 DEF Receive, Goto, TypeOK
    <3> QED
      BY <3>1 DEF Tells, Recalls, Steps, Nodes
  <2>2. CASE o # r
    <3>1. /\ pc'[r] = pc[r] /\ st'[r] = st[r] /\ answer'[r] = answer[r]
          /\ unsaved'[r] = unsaved[r] /\ thread'[r] = thread[r] /\ saved' = saved
      BY <1>1, <1>3, <2>2 DEF Receive, Goto, TypeOK
    <3>2. AloneOnThread(r)' => AloneOnThread(r)
      BY <1>1, <1>3, <2>2 DEF Receive, Goto, TypeOK, AloneOnThread
    <3>3. CASE pc[r] # "idle"
      BY <1>2, <3>1, <3>2, <3>3, RecallOthers
    <3>4. CASE pc[r] = "idle"
      BY <3>1, <3>4 DEF Tells
    <3> QED
      BY <3>3, <3>4
  <2> QED
    BY <2>1, <2>2
<1>4. ASSUME NEW o \in Requests, Step(o)
      PROVE  Tells(r)' /\ (pc'[r] # "idle" /\ AloneOnThread(r)' => Recalls(r)')
  <2>1. Advances(o)
    BY <1>1, <1>4, StepAdvances
  <2>2. pc[o] # "idle"
    BY <1>1, <1>4, StepNotIdle
  <2>3. (AloneOnThread(r)' => AloneOnThread(r)) /\ thread'[r] = thread[r]
    BY <1>1, <2>1, <2>2 DEF Advances, Others, AloneOnThread
  <2>4. CASE o = r
    BY <1>1, <1>2, <1>4, <2>2, <2>3, <2>4, StepRecalls
  <2>5. CASE o # r
    <3>1. /\ pc'[r] = pc[r] /\ st'[r] = st[r] /\ answer'[r] = answer[r]
          /\ unsaved'[r] = unsaved[r]
      BY <1>1, <1>4, <2>1, <2>5, OthersStay DEF Advances, Others
    <3>2. CASE pc[r] # "idle"
      <4>1. AloneOnThread(r) => saved'[thread[r]] = saved[thread[r]]
        BY <1>1, <1>4, <2>5, <3>2, AloneKeeps
      <4> QED
        BY <1>2, <2>3, <3>1, <3>2, <4>1, RecallOthers
    <3>3. CASE pc[r] = "idle"
      BY <3>1, <3>3 DEF Tells
    <3> QED
      BY <3>2, <3>3
  <2> QED
    BY <2>4, <2>5
<1>5. ASSUME NEW o \in Requests, SaveFails(o)
      PROVE  Tells(r)' /\ (pc'[r] # "idle" /\ AloneOnThread(r)' => Recalls(r)')
  <2>1. UNCHANGED <<pc, thread, st, saved>> /\ (AloneOnThread(r)' <=> AloneOnThread(r))
    BY <1>5 DEF SaveFails, AloneOnThread
  <2>2. CASE o = r
    <3>1. answer'[r].kind = "error500"
      BY <1>1, <1>5, <2>2 DEF SaveFails, Draft, Answer, TypeOK
    <3> QED
      BY <1>2, <2>1, <3>1 DEF Tells, Recalls, Remembered
  <2>3. CASE o # r
    <3>1. answer'[r] = answer[r] /\ unsaved'[r] = unsaved[r]
      BY <1>1, <1>5, <2>3 DEF SaveFails, Draft, TypeOK
    <3>2. CASE pc[r] # "idle"
      BY <1>2, <2>1, <3>1, <3>2, RecallOthers
    <3>3. CASE pc[r] = "idle"
      BY <2>1, <3>3 DEF Tells
    <3> QED
      BY <3>2, <3>3
  <2> QED
    BY <2>2, <2>3
<1>6. CASE Crash
  <2>1. /\ pc'[r] = IF pc[r] \in Steps THEN "crashed" ELSE pc[r]
        /\ answer'[r] = IF pc[r] \in Steps THEN NoAnswer ELSE answer[r]
        /\ UNCHANGED <<thread, saved>>
    BY <1>6 DEF Crash, Running
  <2>2. pc'[r] \notin Steps
    BY <2>1 DEF Steps, Nodes
  <2>3. Tells(r)'
    BY <2>2 DEF Tells, Steps, Nodes
  <2>4. AloneOnThread(r)' => AloneOnThread(r)
    BY <1>6 DEF Crash, Running, Steps, Nodes, AloneOnThread
  <2>5. pc'[r] = "done" => pc[r] = "done" /\ answer'[r] = answer[r]
    BY <2>1
  <2>6. AloneOnThread(r)' => Recalls(r)'
    BY <1>2, <2>1, <2>2, <2>4, <2>5 DEF Recalls, Remembered, ScenarioOf, Outcome
  <2> QED
    BY <2>3, <2>6
<1>7. CASE UNCHANGED vars \/ \E q \in QRs : QRStatusChanges(q)
  <2>1. UNCHANGED <<pc, thread, st, answer, unsaved, saved>>
    BY <1>7 DEF vars, QRStatusChanges
  <2>2. AloneOnThread(r)' <=> AloneOnThread(r)
    BY <2>1 DEF AloneOnThread
  <2>3. CASE pc[r] # "idle"
    BY <1>2, <2>1, <2>2, <2>3, RecallOthers
  <2>4. CASE pc[r] = "idle"
    BY <2>1, <2>4 DEF Tells
  <2> QED
    BY <2>3, <2>4
<1> QED
  BY <1>3, <1>4, <1>5, <1>6, <1>7 DEF Next, Quiescent

(* The next turn begins with what the first one was told: an answered      *)
(* first request owes no checkpoint, and nobody else writes its thread.    *)
THEOREM FirstAnswersAreRemembered == Spec => []FirstAnswerIsRemembered
<1> DEFINE Inv == TypeInv /\ RestInv /\ RecallInv
<1>1. Init => Inv
  BY TypeInit, RestInit, RecallInit
<1>2. TransferInv /\ Inv /\ [Next]_vars => Inv'
  BY TypeNext, RestNext, RecallNext
<1>3. Inv => FirstAnswerIsRemembered
  <2> SUFFICES ASSUME Inv, NEW r \in Requests, pc[r] = "done", AloneOnThread(r)
               PROVE  Remembered(r)
    BY DEF FirstAnswerIsRemembered, Remembered
  <2> QED
    BY DEF RecallInv, Recalls
<1> QED
  BY <1>1, <1>2, <1>3, TransferInit, TransferNext, PTL DEF Spec
=============================================================================
