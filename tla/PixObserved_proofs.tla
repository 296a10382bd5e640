------------------------- MODULE PixObserved_proofs -------------------------
(***************************************************************************)
(* Proofs, for every value of the constants, about what telemetry sees of  *)
(* the conversation graph.                                                 *)
(***************************************************************************)
EXTENDS PixObserved, PixTurns_proofs, AmountText_proofs, FiniteSetTheorems

(***************************************************************************)
(* Points of one instrument in a sequence: none, or exactly one.           *)
(***************************************************************************)
Has(s, p)          == \E i \in DOMAIN s : s[i] = p
None(s, instr)     == \A i \in DOMAIN s : s[i].instrument # instr
One(s, instr)      == \E i \in DOMAIN s :
                        /\ s[i].instrument = instr
                        /\ \A j \in DOMAIN s : s[j].instrument = instr => j = i

LEMMA CountNone ==
  ASSUME NEW r \in Requests, NEW instr, None(points[r], instr)
  PROVE  Count(r, instr) = 0
<1>1. {i \in DOMAIN points[r] : points[r][i].instrument = instr} = {}
  BY DEF None
<1> QED
  BY <1>1, FS_EmptySet DEF Count

LEMMA CountOne ==
  ASSUME NEW r \in Requests, NEW instr, One(points[r], instr)
  PROVE  Count(r, instr) = 1
<1>1. PICK i \in DOMAIN points[r] :
        /\ points[r][i].instrument = instr
        /\ \A j \in DOMAIN points[r] : points[r][j].instrument = instr => j = i
  BY DEF One
<1>2. {j \in DOMAIN points[r] : points[r][j].instrument = instr} = {i}
  BY <1>1
<1> QED
  BY <1>2, FS_Singleton DEF Count

LEMMA HasConcat ==
  ASSUME NEW s \in Seq(Point), NEW t \in Seq(Point), NEW p
  PROVE  Has(s \o t, p) <=> Has(s, p) \/ Has(t, p)
<1>1. /\ s \o t \in Seq(Point) /\ Len(s \o t) = Len(s) + Len(t)
      /\ \A i \in 1..(Len(s) + Len(t)) :
           (s \o t)[i] = IF i <= Len(s) THEN s[i] ELSE t[i - Len(s)]
  BY ConcatProperties
<1>2. ASSUME Has(s \o t, p) PROVE Has(s, p) \/ Has(t, p)
  BY <1>1, <1>2 DEF Has
<1>3. ASSUME NEW i \in DOMAIN s PROVE i \in DOMAIN (s \o t) /\ (s \o t)[i] = s[i]
  BY <1>1, <1>3
<1>4. ASSUME NEW i \in DOMAIN t
      PROVE  i + Len(s) \in DOMAIN (s \o t) /\ (s \o t)[i + Len(s)] = t[i]
  BY <1>1, <1>4
<1> QED
  BY <1>2, <1>3, <1>4 DEF Has

LEMMA NoneConcat ==
  ASSUME NEW s \in Seq(Point), NEW t \in Seq(Point), NEW instr
  PROVE  /\ None(s, instr) /\ None(t, instr) => None(s \o t, instr)
         /\ One(s, instr) /\ None(t, instr) => One(s \o t, instr)
         /\ None(s, instr) /\ One(t, instr) => One(s \o t, instr)
<1>1. /\ s \o t \in Seq(Point) /\ Len(s \o t) = Len(s) + Len(t)
      /\ \A i \in 1..(Len(s) + Len(t)) :
           (s \o t)[i] = IF i <= Len(s) THEN s[i] ELSE t[i - Len(s)]
  BY ConcatProperties
<1>2. ASSUME NEW i \in DOMAIN (s \o t)
      PROVE  \/ i \in DOMAIN s /\ (s \o t)[i] = s[i]
             \/ i - Len(s) \in DOMAIN t /\ (s \o t)[i] = t[i - Len(s)]
  BY <1>1, <1>2
<1>3. ASSUME NEW i \in DOMAIN s PROVE i \in DOMAIN (s \o t) /\ (s \o t)[i] = s[i]
  BY <1>1, <1>3
<1>4. ASSUME NEW i \in DOMAIN t
      PROVE  i + Len(s) \in DOMAIN (s \o t) /\ (s \o t)[i + Len(s)] = t[i]
  BY <1>1, <1>4
<1>5. None(s, instr) /\ None(t, instr) => None(s \o t, instr)
  BY <1>2 DEF None
<1>6. ASSUME One(s, instr), None(t, instr) PROVE One(s \o t, instr)
  <2>1. PICK i \in DOMAIN s :
          /\ s[i].instrument = instr
          /\ \A j \in DOMAIN s : s[j].instrument = instr => j = i
    BY <1>6 DEF One
  <2> QED
    BY <1>2, <1>3, <1>6, <2>1 DEF One, None
<1>7. ASSUME None(s, instr), One(t, instr) PROVE One(s \o t, instr)
  <2>1. PICK i \in DOMAIN t :
          /\ t[i].instrument = instr
          /\ \A j \in DOMAIN t : t[j].instrument = instr => j = i
    BY <1>7 DEF One
  <2>2. i + Len(s) \in DOMAIN (s \o t) /\ (s \o t)[i + Len(s)] = t[i]
    BY <1>4
  <2>3. ASSUME NEW j \in DOMAIN (s \o t), (s \o t)[j].instrument = instr
        PROVE  j = i + Len(s)
    <3>1. j - Len(s) \in DOMAIN t /\ (s \o t)[j] = t[j - Len(s)]
      BY <1>2, <1>7, <2>3 DEF None
    <3>2. j - Len(s) = i
      BY <2>1, <2>3, <3>1
    <3>3. i \in Int /\ j \in Int /\ Len(s) \in Int
      BY <1>1, <2>1, <2>3
    <3> QED
      BY <3>2, <3>3
  <2> QED
    BY <2>1, <2>2, <2>3 DEF One
<1> QED
  BY <1>5, <1>6, <1>7

LEMMA WhenPoints ==
  ASSUME NEW c \in BOOLEAN, NEW p, c => p \in Point
  PROVE  /\ When(c, p) \in Seq(Point)
         /\ c => Has(When(c, p), p) /\ One(When(c, p), p.instrument)
         /\ \A instr : ~c \/ p.instrument # instr => None(When(c, p), instr)
  BY DEF When, Has, One, None

(***************************************************************************)
(* What closing the span of a node adds, point by point.                   *)
(***************************************************************************)
LEMMA Closing ==
  ASSUME NEW r \in Requests, NEW reported \in BOOLEAN, Leaves(r),
         span[r] \in Spans, points[r] \in Seq(Point)
  PROVE  /\ Recorded(r, reported) \in Seq(Point)
         /\ \A p : Has(points[r], p) => Has(Recorded(r, reported), p)
         /\ ~AsksLLM(r) /\ None(points[r], "llm_token_count_total")
              => None(Recorded(r, reported), "llm_token_count_total")
         /\ pc[r] # "guardrail" \/ Raises(r) =>
              /\ None(points[r], "guardrail_block_total")
                   => None(Recorded(r, reported), "guardrail_block_total")
              /\ One(points[r], "guardrail_block_total")
                   => One(Recorded(r, reported), "guardrail_block_total")
         /\ pc[r] = "guardrail" /\ ~Raises(r) =>
              /\ None(points[r], "guardrail_block_total")
                   => One(Recorded(r, reported), "guardrail_block_total")
              /\ Has(Recorded(r, reported),
                     Measured("guardrail_block_total", r,
                              IF st'[r].is_blocked THEN "blocked" ELSE "allowed"))
         /\ span[r] \notin PixSpans =>
              /\ None(points[r], "pix_operations_total")
                   => None(Recorded(r, reported), "pix_operations_total")
              /\ One(points[r], "pix_operations_total")
                   => One(Recorded(r, reported), "pix_operations_total")
         /\ span[r] \in PixSpans /\ pc[r] # "guardrail" =>
              /\ None(points[r], "pix_operations_total")
                   => One(Recorded(r, reported), "pix_operations_total")
              /\ Has(Recorded(r, reported), Measured("pix_operations_total", r, "ok"))
<1> DEFINE result == IF Raises(r) THEN "error" ELSE "ok"
           verdict == IF st'[r].is_blocked THEN "blocked" ELSE "allowed"
           token  == Measured("llm_token_count_total", r, "ok")
           block  == Measured("guardrail_block_total", r, verdict)
           time   == Measured("graph_node_duration_seconds", r, result)
           pix    == Measured("pix_operations_total", r, result)
           asks    == reported /\ AsksLLM(r)
           decides == pc[r] = "guardrail" /\ ~Raises(r)
           acts    == span[r] \in PixSpans
           T == When(asks, token)
           D == When(decides, block)
           M == When(TRUE, time)
           O == When(acts, pix)
           P == points[r]
<1>1. /\ token \in Point /\ token.instrument = "llm_token_count_total"
      /\ block \in Point /\ block.instrument = "guardrail_block_total"
      /\ time \in Point /\ time.instrument = "graph_node_duration_seconds"
      /\ pix \in Point /\ pix.instrument = "pix_operations_total"
  BY DEF Point, Measured
<1>2. asks \in BOOLEAN /\ decides \in BOOLEAN /\ acts \in BOOLEAN
  BY DEF AsksLLM
<1>3. Recorded(r, reported) = ((P \o T) \o D) \o (M \o O)
  BY DEF Recorded, Tokens, Decision, SpanMetrics, When
<1> HIDE DEF result, verdict, token, block, time, pix, asks, decides, acts
<1>4. /\ T \in Seq(Point) /\ D \in Seq(Point) /\ M \in Seq(Point) /\ O \in Seq(Point)
      /\ decides => Has(D, block) /\ One(D, "guardrail_block_total")
      /\ acts => Has(O, pix) /\ One(O, "pix_operations_total")
      /\ \A i : ~asks \/ i # "llm_token_count_total" => None(T, i)
      /\ \A i : ~decides \/ i # "guardrail_block_total" => None(D, i)
      /\ \A i : i # "graph_node_duration_seconds" => None(M, i)
      /\ \A i : ~acts \/ i # "pix_operations_total" => None(O, i)
  BY <1>1, <1>2, WhenPoints
<1> HIDE DEF T, D, M, O, P
<1> DEFINE MO == M \o O
           PT == P \o T
           PTD == PT \o D
<1>5. /\ P \in Seq(Point) /\ MO \in Seq(Point) /\ PT \in Seq(Point)
      /\ PTD \in Seq(Point) /\ PTD \o MO \in Seq(Point)
  BY <1>4, ConcatProperties DEF P
<1>6. /\ \A p : Has(MO, p) <=> Has(M, p) \/ Has(O, p)
      /\ \A p : Has(PT, p) <=> Has(P, p) \/ Has(T, p)
  BY <1>4, <1>5, HasConcat
<1>7. /\ \A i : None(M, i) /\ None(O, i) => None(MO, i)
      /\ \A i : None(M, i) /\ One(O, i) => One(MO, i)
      /\ \A i : None(P, i) /\ None(T, i) => None(PT, i)
      /\ \A i : One(P, i) /\ None(T, i) => One(PT, i)
  BY <1>4, <1>5, NoneConcat
<1> HIDE DEF MO, PT
<1>8. /\ \A p : Has(PTD, p) <=> Has(PT, p) \/ Has(D, p)
      /\ \A i : None(PT, i) /\ None(D, i) => None(PTD, i)
      /\ \A i : One(PT, i) /\ None(D, i) => One(PTD, i)
      /\ \A i : None(PT, i) /\ One(D, i) => One(PTD, i)
  BY <1>4, <1>5, HasConcat, NoneConcat
<1> HIDE DEF PTD
<1>9. /\ \A p : Has(PTD \o MO, p) <=> Has(PTD, p) \/ Has(MO, p)
      /\ \A i : None(PTD, i) /\ None(MO, i) => None(PTD \o MO, i)
      /\ \A i : One(PTD, i) /\ None(MO, i) => One(PTD \o MO, i)
      /\ \A i : None(PTD, i) /\ One(MO, i) => One(PTD \o MO, i)
  BY <1>5, HasConcat, NoneConcat
<1>10. Recorded(r, reported) = PTD \o MO
  BY <1>3 DEF PTD, PT, MO
<1>a. ASSUME NEW i, None(T, i), None(D, i), None(M, i), None(O, i)
      PROVE  /\ None(P, i) => None(PTD \o MO, i)
             /\ One(P, i) => One(PTD \o MO, i)
  BY <1>a, <1>7, <1>8, <1>9
<1>11. \A p : Has(P, p) => Has(PTD \o MO, p)
  BY <1>6, <1>8, <1>9
<1>12. ~asks /\ None(P, "llm_token_count_total")
         => None(PTD \o MO, "llm_token_count_total")
  <2>1. ~asks => /\ None(T, "llm_token_count_total") /\ None(D, "llm_token_count_total")
                 /\ None(M, "llm_token_count_total") /\ None(O, "llm_token_count_total")
    BY <1>4
  <2> QED
    BY <1>a, <2>1
<1>13. ~decides => /\ None(P, "guardrail_block_total")
                         => None(PTD \o MO, "guardrail_block_total")
                   /\ One(P, "guardrail_block_total")
                         => One(PTD \o MO, "guardrail_block_total")
  <2>1. ~decides => /\ None(T, "guardrail_block_total") /\ None(D, "guardrail_block_total")
                /\ None(M, "guardrail_block_total") /\ None(O, "guardrail_block_total")
    BY <1>4
  <2> QED
    BY <1>a, <2>1
<1>14. decides => /\ None(P, "guardrail_block_total")
                        => One(PTD \o MO, "guardrail_block_total")
                  /\ Has(PTD \o MO, block)
  BY <1>4, <1>7, <1>8, <1>9
<1>15. ~acts => /\ None(P, "pix_operations_total")
                      => None(PTD \o MO, "pix_operations_total")
                /\ One(P, "pix_operations_total")
                      => One(PTD \o MO, "pix_operations_total")
  <2>1. ~acts => /\ None(T, "pix_operations_total") /\ None(D, "pix_operations_total")
                /\ None(M, "pix_operations_total") /\ None(O, "pix_operations_total")
    BY <1>4
  <2> QED
    BY <1>a, <2>1
<1>16. acts => /\ None(P, "pix_operations_total")
                     => One(PTD \o MO, "pix_operations_total")
               /\ Has(PTD \o MO, pix)
  BY <1>4, <1>6, <1>7, <1>8, <1>9
<1>17. pc[r] # "guardrail" => pix = Measured("pix_operations_total", r, "ok")
  BY DEF pix, result, Raises
<1> QED
  BY <1>5, <1>10, <1>11, <1>12, <1>13, <1>14, <1>15, <1>16, <1>17
     DEF P, asks, decides, acts, block, verdict

(***************************************************************************)
(* Which step follows which, as far as spans can tell.                     *)
(***************************************************************************)
Queries    == {"listKeys", "readKey", "brcodePreview"}
MoneySteps == {"pixPayment", "pixWithdraw"} \cup Inside

GuardrailMoves(r) ==
    /\ pc[r] = "guardrail"
    /\ \/ pc'[r] = "blockedResponse" /\ st'[r].is_blocked
       \/ /\ pc'[r] = "identifyIntent" /\ ~st'[r].is_blocked
          /\ GUARDRAIL_ENABLED => ~msg[r].injection
       \/ /\ pc'[r] = "reply"
          /\ GUARDRAIL_ENABLED => ~msg[r].injection

Moves(r) ==
    \/ pc'[r] = pc[r]
    \/ GuardrailMoves(r)
    \/ pc[r] = "blockedResponse" /\ pc'[r] = "reply"
    \/ /\ pc[r] = "identifyIntent"
       /\ pc'[r] \in Queries \cup {"pixPayment", "pixWithdraw", "fallback"}
    \/ pc[r] \in Queries \cup {"fallback"} /\ pc'[r] = "chatResponse"
    \/ pc[r] \in MoneySteps /\ pc'[r] \in Inside \cup {"chatResponse"}
    \/ pc[r] = "chatResponse" /\ pc'[r] = "reply"
    \/ pc[r] = "reply" /\ pc'[r] = "done"

LEMMA Places ==
  /\ Inside = {"paymentPreview", "resolveAmount", "withdraw", "lookup",
                "validate", "transfer"}
  /\ DOMAIN SpanOf = {"guardrail", "identifyIntent", "chatResponse", "pixPayment",
                      "pixWithdraw"} \cup Queries
  BY DEF Inside, Steps, Nodes, SpanOf, Queries

LEMMA StepMoves ==
  ASSUME TypeOK, NEW r \in Requests, Step(r)
  PROVE  Moves(r)
<1>n. ASSUME NEW s, NEW next, NodeReturns(r, s, next)
      PROVE  pc'[r] = next /\ st'[r] = s
  BY <1>n DEF NodeReturns, Goto, TypeOK
<1>c. ASSUME NEW w, NEW next, Continue(r, w, next) PROVE pc'[r] = next
  BY <1>c DEF Continue, Goto, TypeOK
<1>a. ASSUME NEW s, ActionReturns(r, s) PROVE pc'[r] = "chatResponse"
  BY <1>a, <1>n DEF ActionReturns
<1>f. UseFallback(r) => pc'[r] = pc[r]
  BY DEF UseFallback
<1>1. CASE GuardrailBlocks(r) \/ GuardrailPasses(r)
  <2>1. st[r] \in GraphState
    BY DEF TypeOK
  <2>2. /\ [st[r] EXCEPT !.is_blocked = TRUE].is_blocked
        /\ ~[st[r] EXCEPT !.is_blocked = FALSE].is_blocked
    BY <2>1 DEF GraphState
  <2> QED
    BY <1>1, <1>n, <2>2 DEF GuardrailBlocks, GuardrailPasses, Moves, GuardrailMoves
<1>2. CASE GuardrailFails(r) \/ BlockedResponse(r) \/ ChatResponse(r) \/ Reply(r)
  BY <1>2 DEF GuardrailFails, BlockedResponse, ChatResponse, Reply, Goto, TypeOK,
              Moves, GuardrailMoves
<1>3. CASE ResolveAmount(r) \/ Classify(r) \/ ClassifyFails(r)
  <2>1. PICK s, c : pc[r] = "identifyIntent" /\ NodeReturns(r, s, RouteIntent(c))
    BY <1>3 DEF ResolveAmount, Classify, ClassifyFails
  <2>2. RouteIntent(c) \in Queries \cup {"pixPayment", "pixWithdraw", "fallback"}
    BY DEF RouteIntent, Queries
  <2> QED
    BY <1>n, <2>1, <2>2 DEF Moves
<1>4. CASE Fallback(r)
  BY <1>4, <1>a DEF Fallback, Moves
<1>5. CASE ListKeys(r) \/ ReadKey(r) \/ BRCodePreview(r)
  BY <1>5, <1>a, <1>f DEF ListKeys, ReadKey, BRCodePreview, Query, RejectQuery,
                          Moves, Queries
<1>6. CASE Payment(r)
  <2>1. pc[r] \in {"pixPayment", "paymentPreview", "resolveAmount"}
    BY <1>6 DEF Payment, PaymentContinues, PaymentStarts, PaymentPreview, PayFixed,
                PayCustom, RefuseUnpayable, AskAmount, UnknownAmountType, Payable
  <2>2. pc'[r] \in Inside \cup {"chatResponse"} \/ pc'[r] = pc[r]
    BY <1>6, <1>a, <1>c, <1>f, Places
       DEF Payment, PaymentContinues, PaymentStarts, PaymentPreview, PayFixed,
           PayCustom, RefuseUnpayable, AskAmount, UnknownAmountType
  <2> QED
    BY <2>1, <2>2, Places DEF Moves, MoneySteps
<1>7. CASE PixWithdraw(r) \/ Withdraw(r)
  <2>1. pc[r] \in {"pixWithdraw", "withdraw", "lookup", "validate", "transfer"}
    BY <1>7 DEF PixWithdraw, Withdraw, Enrich, Lookup, Validate, Transfer
  <2>2. pc'[r] \in Inside \cup {"chatResponse"} \/ pc'[r] = pc[r]
    BY <1>7, <1>a, <1>c, <1>f, Places
       DEF PixWithdraw, Withdraw, Enrich, Lookup, Validate, Transfer, TransferReturns
  <2> QED
    BY <2>1, <2>2, Places DEF Moves, MoneySteps
<1>8. CASE SaveCheckpoint(r)
  BY <1>8 DEF SaveCheckpoint, Moves
<1> QED
  BY <1>1, <1>2, <1>3, <1>4, <1>5, <1>6, <1>7, <1>8 DEF Step

(***************************************************************************)
(* The properties count points; what makes the counts right is where the   *)
(* request is: its span is that of the node it is in, the guardrail counts *)
(* when it is left, an operation when its node is left for chatResponse,   *)
(* and a message that a heuristic matched never reaches a node with an LLM. *)
(***************************************************************************)
Block(verdict) == [instrument |-> "guardrail_block_total",
                   of |-> "graph.guardrail.check", result |-> verdict]
Pix(name)      == [instrument |-> "pix_operations_total", of |-> name, result |-> "ok"]

SpanFits(r) ==
    /\ span[r] \in Optional(Spans) /\ points[r] \in Seq(Point)
    /\ pc[r] \in DOMAIN SpanOf => span[r] = SpanOf[pc[r]]
    /\ pc[r] \in Inside => span[r] \in MoneySpans
    /\ pc[r] \notin DOMAIN SpanOf \cup Inside => span[r] = NONE

Decided(r) ==
    /\ pc[r] \in {"idle", "guardrail"} => None(points[r], "guardrail_block_total")
    /\ \/ None(points[r], "guardrail_block_total")
       \/ One(points[r], "guardrail_block_total")
    /\ pc[r] = "blockedResponse" \/ answer[r].kind = "refused"
         => Has(points[r], Block("blocked"))
    /\ pc[r] \in Steps \ {"guardrail", "blockedResponse", "reply"}
         => Has(points[r], Block("allowed"))
    /\ transfers[r] # << >> => Has(points[r], Block("allowed"))

Operated(r) ==
    /\ pc[r] \notin After => None(points[r], "pix_operations_total")
    /\ transfers[r] # << >> =>
         \/ pc[r] \in MoneySteps
         \/ /\ pc[r] \in After /\ One(points[r], "pix_operations_total")
            /\ \E name \in MoneySpans : Has(points[r], Pix(name))
         \/ pc[r] = "crashed" /\ None(points[r], "pix_operations_total")

Spent(r) ==
    /\ pc[r] = "idle" => None(points[r], "llm_token_count_total")
    /\ pc[r] # "idle" /\ msg[r].injection /\ GUARDRAIL_ENABLED =>
         /\ pc[r] \in {"guardrail", "blockedResponse"} \cup AnswersNext
         /\ None(points[r], "llm_token_count_total")

Watched(r) == SpanFits(r) /\ Decided(r) /\ Operated(r) /\ Spent(r)
WatchInv   == \A r \in Requests : Watched(r)

(* What an action of PixGraph can do to a request *)
Fate(r) ==
    /\ pc[r] # "idle" => msg'[r] = msg[r]
    /\ \/ Moves(r)
       \/ pc[r] = "idle" /\ pc'[r] = "guardrail"
       \/ pc[r] \in Steps /\ pc'[r] = "crashed"
    /\ answer'[r].kind = "refused" =>
         answer[r].kind = "refused" \/ pc[r] = "blockedResponse"
    /\ transfers'[r] # transfers[r] => pc[r] = "transfer"

LEMMA NextFate ==
  ASSUME TypeOK, [Next]_vars, NEW o \in Requests
  PROVE  Fate(o)
<1>1. ASSUME NEW r \in Requests, NEW t \in Threads, NEW m \in Messages,
             Receive(r, t, m)
      PROVE  Fate(o)
  BY <1>1 DEF Receive, Goto, TypeOK, Fate, Moves
<1>2. ASSUME NEW r \in Requests, Step(r) PROVE Fate(o)
  <2>1. Advances(r)
    BY <1>2, StepAdvances
  <2>2. transfers'[o] # transfers[o] => pc[o] = "transfer"
    BY <1>2, OnlyTransferSends DEF Transfer
  <2>3. CASE o = r
    BY <1>2, <2>1, <2>2, <2>3, StepMoves DEF Advances, Fate
  <2>4. CASE o # r
    BY <2>1, <2>2, <2>4 DEF Advances, Others, Fate, Moves
  <2> QED
    BY <2>3, <2>4
<1>3. ASSUME NEW r \in Requests, SaveFails(r) PROVE Fate(o)
  BY <1>3 DEF SaveFails, Draft, Answer, TypeOK, Fate, Moves
<1>4. CASE Crash
  BY <1>4 DEF Crash, Running, NoAnswer, Answer, TypeOK, Fate, Moves
<1>5. CASE UNCHANGED vars \/ \E q \in QRs : QRStatusChanges(q)
  BY <1>5 DEF vars, QRStatusChanges, Fate, Moves
<1> QED
  BY <1>1, <1>2, <1>3, <1>4, <1>5 DEF Next, Quiescent

LEMMA SpanNames ==
  /\ \A node \in DOMAIN SpanOf : SpanOf[node] \in Spans
  /\ SpanOf["pixPayment"] \in MoneySpans /\ SpanOf["pixWithdraw"] \in MoneySpans
  /\ MoneySpans \subseteq PixSpans /\ PixSpans \subseteq Spans
  /\ \A node \in Queries : SpanOf[node] \in PixSpans
  /\ SpanOf["guardrail"] = "graph.guardrail.check"
  /\ \A node \in {"guardrail", "identifyIntent", "chatResponse"} :
        SpanOf[node] \notin PixSpans
<1>1. MoneySpans \subseteq Spans
  BY DEF MoneySpans, Spans, SpanOf
<1>2. \A node \in DOMAIN SpanOf : SpanOf[node] \in Spans
  BY DEF Spans
<1>3. \A node \in Queries : SpanOf[node] \in PixSpans
  BY <1>2, Places DEF SpanOf, PixSpans, LLMSpans, Queries
<1> QED
  BY <1>1, <1>2, <1>3 DEF SpanOf, MoneySpans, PixSpans, LLMSpans

(* The span of a node is open from its first step to its last. *)
LEMMA SpansFit ==
  ASSUME NEW r \in Requests, NEW reported \in BOOLEAN, SpanFits(r), Fate(r),
         span'[r] = SpanAfter(r), points'[r] = Recorded(r, reported)
  PROVE  /\ SpanFits(r)'
         /\ Leaves(r) => span[r] \in Spans
         /\ ~Leaves(r) => points'[r] = points[r]
<1>1. \A node \in DOMAIN SpanOf : SpanOf[node] \in Spans
  BY SpanNames
<1>2. SpanOf["pixPayment"] \in MoneySpans /\ SpanOf["pixWithdraw"] \in MoneySpans
  BY SpanNames
<1>3. MoneySpans \subseteq Spans
  BY SpanNames
<1>4. Leaves(r) => span[r] \in Spans
  BY DEF Leaves, SpanFits, Optional
<1>5. points'[r] \in Seq(Point) /\ (~Leaves(r) => points'[r] = points[r])
  BY <1>4, Closing DEF Recorded, SpanFits
<1>6. CASE pc'[r] = pc[r]
  <2>1. span'[r] = span[r]
    BY <1>6 DEF SpanAfter
  <2> QED
    BY <1>4, <1>5, <1>6, <2>1 DEF SpanFits
<1>7. CASE pc'[r] # pc[r] /\ pc'[r] \in Inside
  <2>1. span'[r] = span[r]
    BY <1>7, Places DEF SpanAfter, Queries
  <2>2. pc[r] \in MoneySteps
    BY <1>7, Places DEF Fate, Moves, GuardrailMoves, Queries
  <2>3. span[r] \in MoneySpans
    BY <1>2, <2>2, Places DEF SpanFits, MoneySteps
  <2> QED
    BY <1>3, <1>4, <1>5, <1>7, <2>1, <2>3, Places DEF SpanFits, Queries, Optional
<1>8. CASE pc'[r] # pc[r] /\ pc'[r] \notin Inside
  <2>1. span'[r] = IF pc'[r] \in DOMAIN SpanOf THEN SpanOf[pc'[r]] ELSE NONE
    BY <1>8 DEF SpanAfter
  <2> QED
    BY <1>1, <1>4, <1>5, <1>8, <2>1 DEF SpanFits, Optional
<1> QED
  BY <1>6, <1>7, <1>8

(* A request that leaves no span records nothing and stays accounted for. *)
LEMMA QuietStep ==
  ASSUME NEW r \in Requests, Watched(r), Fate(r), ~Leaves(r), SpanFits(r)',
         points'[r] = points[r], pc[r] \in Steps \cup Ended \cup {"idle"}
  PROVE  Watched(r)'
<1>1. \/ pc'[r] = pc[r]
      \/ pc[r] = "idle" /\ pc'[r] = "guardrail"
      \/ pc[r] = "blockedResponse" /\ pc'[r] = "reply"
      \/ pc[r] = "fallback" /\ pc'[r] = "chatResponse"
      \/ pc[r] \in MoneySteps /\ pc'[r] \in Inside
      \/ pc[r] = "reply" /\ pc'[r] = "done"
      \/ pc[r] \in Steps /\ pc'[r] = "crashed"
  <2>1. ASSUME pc[r] \in DOMAIN SpanOf \cup Inside, pc'[r] # pc[r]
        PROVE  pc'[r] \notin Nodes \cup {"reply"}
    <3>1. span[r] \in Spans
      BY <2>1, SpanNames DEF Watched, SpanFits
    <3> QED
      BY <2>1, <3>1, NONEIsNoSpan DEF Leaves
  <2> QED
    BY <2>1, Places DEF Fate, Moves, GuardrailMoves, Queries, MoneySteps, Nodes
<1>2. Decided(r)'
  BY <1>1, Places DEF Watched, Decided, Fate, MoneySteps, Steps, Nodes
<1>3. Operated(r)'
  BY <1>1, Places DEF Watched, Operated, Fate, MoneySteps, Steps, Nodes, After
<1>4. Spent(r)'
  BY <1>1, Places DEF Watched, Spent, Fate, MoneySteps, Steps, Nodes, AnswersNext
<1> QED
  BY <1>2, <1>3, <1>4 DEF Watched

(* A request that leaves a span was in a node, and goes to another. *)
LEMMA LoudMoves ==
  ASSUME NEW r \in Requests, Watched(r), Fate(r), Leaves(r)
  PROVE  /\ span[r] = SpanOf[pc[r]] \/ pc[r] \in MoneySteps
         /\ pc[r] \in MoneySteps => span[r] \in MoneySpans
         /\ \/ GuardrailMoves(r)
            \/ /\ pc[r] = "identifyIntent"
               /\ pc'[r] \in Queries \cup {"pixPayment", "pixWithdraw", "fallback"}
            \/ pc[r] \in Queries \cup MoneySteps /\ pc'[r] = "chatResponse"
            \/ pc[r] = "chatResponse" /\ pc'[r] = "reply"
<1>1. pc[r] \in DOMAIN SpanOf \cup Inside
  BY DEF Watched, SpanFits, Leaves
<1>2. pc[r] \in MoneySteps => span[r] \in MoneySpans
  BY SpanNames, Places DEF Watched, SpanFits, MoneySteps
<1>3. span[r] = SpanOf[pc[r]] \/ pc[r] \in MoneySteps
  BY <1>1 DEF Watched, SpanFits, MoneySteps
<1>4. pc'[r] # pc[r] /\ pc'[r] \in Nodes \cup {"reply"}
  BY DEF Leaves
<1> QED
  BY <1>1, <1>2, <1>3, <1>4, Places DEF Fate, Moves, Nodes, Queries, MoneySteps

LEMMA LoudStep ==
  ASSUME NEW r \in Requests, NEW reported \in BOOLEAN, Watched(r), Fate(r), Leaves(r),
         SpanFits(r)', span[r] \in Spans, points'[r] = Recorded(r, reported),
         pc[r] \in Steps \cup Ended \cup {"idle"}
  PROVE  Watched(r)'
<1> DEFINE D == "guardrail_block_total"
           O == "pix_operations_total"
           T == "llm_token_count_total"
<1>1. /\ span[r] = SpanOf[pc[r]] \/ pc[r] \in MoneySteps
      /\ pc[r] \in MoneySteps => span[r] \in MoneySpans
  BY LoudMoves
<1>2. \/ GuardrailMoves(r)
      \/ /\ pc[r] = "identifyIntent"
         /\ pc'[r] \in Queries \cup {"pixPayment", "pixWithdraw", "fallback"}
      \/ pc[r] \in Queries \cup MoneySteps /\ pc'[r] = "chatResponse"
      \/ pc[r] = "chatResponse" /\ pc'[r] = "reply"
  BY LoudMoves
<1>3. points[r] \in Seq(Point)
  BY DEF Watched, SpanFits
<1>4. \A p : Has(points[r], p) => Has(points'[r], p)
  BY <1>3, Closing
<1>5. pc[r] # "guardrail" \/ Raises(r) =>
        /\ None(points[r], D) => None(points'[r], D)
        /\ One(points[r], D) => One(points'[r], D)
  BY <1>3, Closing
<1>6. pc[r] = "guardrail" /\ ~Raises(r) =>
        /\ None(points[r], D) => One(points'[r], D)
        /\ Has(points'[r], Block(IF st'[r].is_blocked THEN "blocked" ELSE "allowed"))
  <2>1. pc[r] = "guardrail" => span[r] = "graph.guardrail.check"
    BY <1>1, SpanNames, Places DEF MoneySteps
  <2> QED
    BY <1>3, <2>1, Closing DEF Measured, Block
<1>7. span[r] \notin PixSpans =>
        /\ None(points[r], O) => None(points'[r], O)
        /\ One(points[r], O) => One(points'[r], O)
  BY <1>3, Closing
<1>8. span[r] \in PixSpans /\ pc[r] # "guardrail" =>
        /\ None(points[r], O) => One(points'[r], O)
        /\ Has(points'[r], Pix(span[r]))
  BY <1>3, Closing DEF Measured, Pix
<1>9. ~AsksLLM(r) /\ None(points[r], T) => None(points'[r], T)
  BY <1>3, Closing
<1> HIDE DEF D, O, T
<1>10. Decided(r)'
  <2>1. CASE pc[r] = "guardrail" /\ ~Raises(r)
    <3>1. None(points[r], D)
      BY <2>1 DEF Watched, Decided, D
    <3>2. \/ pc'[r] = "blockedResponse" /\ st'[r].is_blocked
          \/ pc'[r] = "identifyIntent" /\ ~st'[r].is_blocked
      BY <1>2, <2>1, Places DEF GuardrailMoves, Raises, Queries, MoneySteps
    <3> QED
      BY <1>4, <1>6, <2>1, <3>1, <3>2 DEF Watched, Decided, Fate, D, Steps, Nodes
  <2>2. CASE pc[r] # "guardrail" \/ Raises(r)
    <3>1. None(points'[r], D) \/ One(points'[r], D)
      BY <1>5, <2>2 DEF Watched, Decided, D
    <3>2. pc[r] # "guardrail" => pc[r] \in Steps \ {"guardrail", "blockedResponse", "reply"}
      BY <1>2, Places DEF GuardrailMoves, Queries, MoneySteps, Steps, Nodes
    <3>3. /\ pc'[r] \notin {"idle", "guardrail", "blockedResponse"}
          /\ Raises(r) => pc'[r] = "reply" /\ pc[r] = "guardrail"
      BY <1>2, <2>2, Places DEF GuardrailMoves, Raises, Queries, MoneySteps
    <3>4. answer'[r].kind = "refused" => answer[r].kind = "refused"
      BY <1>2, Places DEF Fate, GuardrailMoves, Queries, MoneySteps
    <3>5. transfers'[r] # << >> /\ pc[r] = "guardrail" => transfers[r] # << >>
      BY DEF Fate
    <3> QED
      BY <1>4, <2>2, <3>1, <3>2, <3>3, <3>4, <3>5 DEF Watched, Decided, D
  <2> QED
    BY <2>1, <2>2
<1>11. Operated(r)'
  <2>1. CASE pc[r] \in MoneySteps
    <3>1. /\ pc[r] \notin After \cup {"guardrail"} /\ pc'[r] = "chatResponse"
          /\ span[r] \in PixSpans /\ span[r] \in MoneySpans
      BY <1>1, <1>2, <2>1, SpanNames, Places
         DEF GuardrailMoves, Queries, MoneySteps, After
    <3> QED
      BY <1>8, <3>1 DEF Watched, Operated, After, O
  <2>2. CASE pc[r] \notin MoneySteps
    <3>1. transfers'[r] = transfers[r]
      BY <2>2, Places DEF Fate, MoneySteps
    <3>2. CASE pc[r] \in Queries
      <4>1. pc[r] \notin After \cup MoneySteps /\ pc'[r] = "chatResponse"
        BY <1>2, <3>2, Places DEF GuardrailMoves, Queries, MoneySteps, After
      <4> QED
        BY <3>1, <4>1 DEF Watched, Operated, After
    <3>3. CASE pc[r] \notin Queries
      <4>1. span[r] \notin PixSpans
        BY <1>1, <1>2, <2>2, <3>3, SpanNames DEF GuardrailMoves
      <4>2. pc[r] # "crashed" /\ (pc[r] \in After => pc'[r] \in After)
        BY <1>2, <2>2, <3>3 DEF GuardrailMoves, After
      <4> QED
        BY <1>4, <1>7, <2>2, <3>1, <4>1, <4>2 DEF Watched, Operated, O
    <3> QED
      BY <3>2, <3>3
  <2> QED
    BY <2>1, <2>2
<1>12. Spent(r)'
  <2>1. pc[r] # "idle" /\ msg'[r] = msg[r]
    BY <1>2, Places DEF GuardrailMoves, Queries, MoneySteps, Fate
  <2>2. ASSUME msg[r].injection, GUARDRAIL_ENABLED
        PROVE  /\ pc[r] = "guardrail" /\ pc'[r] = "blockedResponse"
               /\ None(points'[r], T)
    <3>1. /\ pc[r] \in {"guardrail", "blockedResponse"} \cup AnswersNext
          /\ None(points[r], T)
      BY <2>1, <2>2 DEF Watched, Spent, T
    <3>2. pc[r] = "guardrail" /\ pc'[r] = "blockedResponse"
      BY <1>2, <2>2, <3>1, Places DEF GuardrailMoves, Queries, MoneySteps, AnswersNext
    <3> QED
      BY <1>9, <2>2, <3>1, <3>2 DEF AsksLLM
  <2>3. pc'[r] # "idle"
    BY <1>2, Places DEF GuardrailMoves, Queries
  <2> QED
    BY <2>1, <2>2, <2>3 DEF Spent, T
<1> QED
  BY <1>10, <1>11, <1>12 DEF Watched

-----------------------------------------------------------------------------
LEMMA WatchInit == ObservedInit => TypeInv /\ WatchInv
<1> SUFFICES ASSUME ObservedInit PROVE WatchInv
  BY TypeInit DEF ObservedInit
<1>1. ASSUME NEW r \in Requests
      PROVE  /\ pc[r] = "idle" /\ span[r] = NONE /\ points[r] = << >>
             /\ answer[r].kind # "refused" /\ transfers[r] = << >>
  BY DEF ObservedInit, Init, NoAnswer, Answer
<1>2. \A instr : None(<< >>, instr)
  BY DEF None
<1>3. "idle" \notin Steps \cup DOMAIN SpanOf \cup Inside
  BY Places DEF Queries, Steps, Nodes
<1>4. ASSUME NEW r \in Requests PROVE Watched(r)
  <2>1. NONE \in Optional(Spans) /\ << >> \in Seq(Point)
    BY DEF Optional
  <2>2. SpanFits(r)
    BY <1>1, <1>3, <2>1 DEF SpanFits
  <2>3. Decided(r) /\ Operated(r) /\ Spent(r)
    BY <1>1, <1>2, <1>3 DEF Decided, Operated, Spent
  <2> QED
    BY <2>2, <2>3 DEF Watched
<1> QED
  BY <1>4 DEF WatchInv

LEMMA WatchNext ==
  TypeInv /\ WatchInv /\ [ObservedNext]_ovars => TypeInv' /\ WatchInv'
<1> SUFFICES ASSUME TypeInv, WatchInv, [ObservedNext]_ovars PROVE TypeInv' /\ WatchInv'
  OBVIOUS
<1>1. [Next]_vars
  BY DEF ObservedNext, ovars, vars
<1>2. TypeInv' /\ TypeOK
  BY <1>1, TypeNext DEF TypeInv
<1>3. ASSUME Observe, NEW r \in Requests PROVE Watched(r)'
  <2>1. PICK reported \in BOOLEAN :
          span'[r] = SpanAfter(r) /\ points'[r] = Recorded(r, reported)
    BY <1>3 DEF Observe
  <2>2. Watched(r) /\ SpanFits(r) /\ pc[r] \in Steps \cup Ended \cup {"idle"}
    BY <1>2 DEF WatchInv, Watched, TypeOK
  <2>3. Fate(r)
    BY <1>1, <1>2, NextFate
  <2>4. /\ SpanFits(r)'
        /\ Leaves(r) => span[r] \in Spans
        /\ ~Leaves(r) => points'[r] = points[r]
    BY <2>1, <2>2, <2>3, SpansFit
  <2> QED
    BY <2>1, <2>2, <2>3, <2>4, QuietStep, LoudStep
<1>4. ASSUME UNCHANGED ovars, NEW r \in Requests PROVE Watched(r)'
  <2>1. UNCHANGED <<pc, msg, answer, transfers, span, points>> /\ Watched(r)
    BY <1>4 DEF ovars, WatchInv
  <2>2. SpanFits(r)' /\ Decided(r)'
    BY <2>1 DEF Watched, SpanFits, Decided
  <2>3. Operated(r)' /\ Spent(r)'
    BY <2>1 DEF Watched, Operated, Spent
  <2> QED
    BY <2>2, <2>3 DEF Watched
<1> QED
  BY <1>2, <1>3, <1>4 DEF ObservedNext, WatchInv

LEMMA WatchInvariant == ObservedSpec => [](TypeInv /\ WatchInv)
  BY WatchInit, WatchNext, PTL DEF ObservedSpec

LEMMA ObservedTypeInit == ObservedInit => ObservedTypeOK
  BY DEF ObservedInit, ObservedTypeOK, Optional

LEMMA ObservedTypeNext ==
  ObservedTypeOK /\ WatchInv' /\ [ObservedNext]_ovars => ObservedTypeOK'
<1> SUFFICES ASSUME ObservedTypeOK, WatchInv', [ObservedNext]_ovars
             PROVE  ObservedTypeOK'
  OBVIOUS
<1>1. CASE Observe
  <2>1. PICK reported \in BOOLEAN :
          /\ span' = [r \in Requests |-> SpanAfter(r)]
          /\ points' = [r \in Requests |-> Recorded(r, reported)]
    BY <1>1 DEF Observe
  <2>2. \A r \in Requests : span'[r] \in Optional(Spans) /\ points'[r] \in Seq(Point)
    BY DEF WatchInv, Watched, SpanFits
  <2> QED
    BY <2>1, <2>2 DEF ObservedTypeOK
<1>2. CASE UNCHANGED ovars
  BY <1>2 DEF ovars, ObservedTypeOK
<1> QED
  BY <1>1, <1>2 DEF ObservedNext

(* Telemetry only watches: whatever spans and points it keeps, the requests *)
(* behave as they would without it, so that each theorem about the graph is *)
(* one about the graph that is observed.                                    *)
THEOREM TelemetryOnlyWatches == ObservedSpec => Spec
<1>1. ObservedInit => Init
  BY DEF ObservedInit
<1>2. [ObservedNext]_ovars => [Next]_vars
  BY DEF ObservedNext, ovars, vars
<1> QED
  BY <1>1, <1>2, PTL DEF ObservedSpec, Spec

(* Telemetry records what the dashboards know: the points of a request are *)
(* of the instruments and results that domain_metrics.py declares.         *)
THEOREM ObservedTypes == ObservedSpec => []ObservedTypeOK
  BY ObservedTypeInit, ObservedTypeNext, WatchInvariant, PTL DEF ObservedSpec

(* The guardrail's counter agrees with what came of every message, however *)
(* the run that carried it ended.                                          *)
THEOREM DecisionsAreCounted == ObservedSpec => []DecisionIsCounted
<1>1. ASSUME WatchInv, NEW r \in Requests
      PROVE  /\ Count(r, "guardrail_block_total") <= 1
             /\ answer[r].kind = "refused" =>
                  Counted(r, "guardrail_block_total", "graph.guardrail.check", "blocked")
             /\ transfers[r] # << >> =>
                  Counted(r, "guardrail_block_total", "graph.guardrail.check", "allowed")
  <2>1. Decided(r)
    BY <1>1 DEF WatchInv, Watched
  <2>2. Count(r, "guardrail_block_total") \in {0, 1}
    BY <2>1, CountNone, CountOne DEF Decided
  <2>3. \A verdict : Has(points[r], Block(verdict)) =>
          Counted(r, "guardrail_block_total", "graph.guardrail.check", verdict)
    BY DEF Has, Block, Counted
  <2> QED
    BY <2>1, <2>2, <2>3 DEF Decided
<1>2. WatchInv => DecisionIsCounted
  BY <1>1 DEF DecisionIsCounted
<1> QED
  BY <1>2, WatchInvariant, PTL

(* A message that matches a heuristic spends no token: it never reaches a  *)
(* node that asks an LLM.                                                  *)
THEOREM InjectionsSpendNoTokens == ObservedSpec => []NoTokensForInjections
<1>1. WatchInv => NoTokensForInjections
  BY CountNone DEF WatchInv, Watched, Spent, NoTokensForInjections
<1> QED
  BY <1>1, WatchInvariant, PTL

(* No money moves unobserved: a transfer is under way in the span of its   *)
(* operation, or that operation was counted once, unless a crash took it.  *)
THEOREM MoneyIsObserved == ObservedSpec => []MoneyIsCountedOnce
<1>1. ASSUME WatchInv, TypeOK, NEW r \in Requests, transfers[r] # << >>
      PROVE  \/ span[r] \in MoneySpans /\ Count(r, "pix_operations_total") = 0
             \/ /\ span[r] \notin MoneySpans /\ Count(r, "pix_operations_total") = 1
                /\ \E name \in MoneySpans, result \in {"ok", "error"} :
                     Counted(r, "pix_operations_total", name, result)
             \/ pc[r] = "crashed" /\ Count(r, "pix_operations_total") = 0
  <2>1. SpanFits(r) /\ Operated(r)
    BY <1>1 DEF WatchInv, Watched
  <2>2. CASE pc[r] \in MoneySteps
    <3>1. span[r] \in MoneySpans
      BY <2>1, <2>2, SpanNames, Places DEF SpanFits, MoneySteps
    <3>2. None(points[r], "pix_operations_total")
      BY <2>1, <2>2, Places DEF Operated, MoneySteps, After
    <3> QED
      BY <3>1, <3>2, CountNone
  <2>3. CASE pc[r] \in After /\ One(points[r], "pix_operations_total")
    <3>1. span[r] \notin MoneySpans
      BY <2>1, <2>3, SpanNames, NONEIsNoSpan, Places DEF SpanFits, After, Queries
    <3>2. pc[r] \notin MoneySteps /\ ~None(points[r], "pix_operations_total")
      BY <2>3, Places DEF After, MoneySteps, One, None
    <3>3. PICK name \in MoneySpans : Has(points[r], Pix(name))
      BY <1>1, <2>1, <3>2 DEF Operated
    <3>4. Counted(r, "pix_operations_total", name, "ok")
      BY <3>3 DEF Has, Pix, Counted
    <3> QED
      BY <2>3, <3>1, <3>4, CountOne
  <2>4. CASE pc[r] = "crashed" /\ None(points[r], "pix_operations_total")
    BY <2>4, CountNone
  <2> QED
    BY <1>1, <2>1, <2>2, <2>3, <2>4 DEF Operated
<1>2. TypeOK /\ WatchInv => MoneyIsCountedOnce
  BY <1>1 DEF MoneyIsCountedOnce
<1>3. TypeInv => TypeOK
  BY DEF TypeInv
<1> QED
  BY <1>2, <1>3, WatchInvariant, PTL

(* Whatever the conversation, an amount that its user will write in one of *)
(* the documented formats is read as it is written: so is every amount up  *)
(* to 999,99, not only those that the run tries.                           *)
THEOREM AmountsAreRead == ObservedSpec => []ReadsDocumentedAmounts
<1>1. ReadsDocumentedAmounts
  <2>1. ASSUME NEW reais \in {0, 1, 10, 100}, NEW cents \in {0, 5, 50, 99}
        PROVE  ReadAsWritten(reais, cents)
    <3>1. reais \in AllReais /\ cents \in AllCents
      BY DEF AllReais, AllCents
    <3> QED
      BY <3>1, AmountsAreReadAsWritten
  <2> QED
    BY <2>1 DEF ReadsDocumentedAmounts
<1> QED
  BY <1>1, PTL
=============================================================================
