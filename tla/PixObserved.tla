----------------------------- MODULE PixObserved -----------------------------
(***************************************************************************)
(* What telemetry sees of the conversation graph.  A node that does work   *)
(* runs inside domain_span (src/core/observability/domain.py): the span is *)
(* opened when the graph reaches the node and closed, whatever happens,    *)
(* when the node returns or raises; closing it records the data points of  *)
(* domain_metrics.py.  Spans watch: no action of PixGraph depends on them. *)
(*                                                                         *)
(* Durations and attribute values are left out.  `points' is everything    *)
(* that was recorded; whether a batch was exported before a crash is not   *)
(* modelled.                                                               *)
(***************************************************************************)
EXTENDS PixProperties, AmountText

VARIABLES
    span,       \* [Requests -> the open domain span, or NONE]
    points      \* [Requests -> the metric points recorded for it, in order]

ovars == <<pc, thread, msg, st, work, account, unsaved, answer, saved,
           transfers, qrStatus, span, points>>

(* blockedResponse and fallback open no span *)
SpanOf == [guardrail      |-> "graph.guardrail.check",
           identifyIntent |-> "graph.intent.identify",
           listKeys       |-> "pix.keys.list",
           readKey        |-> "pix.keys.read",
           brcodePreview  |-> "pix.brcode.preview",
           pixPayment     |-> "pix.payment.execute",
           pixWithdraw    |-> "pix.withdraw.execute",
           chatResponse   |-> "llm.response.generate"]

Spans     == {SpanOf[n] : n \in DOMAIN SpanOf}
LLMSpans  == {"graph.guardrail.check", "graph.intent.identify", "llm.response.generate"}
PixSpans  == Spans \ LLMSpans
MoneySpans == {"pix.payment.execute", "pix.withdraw.execute"}

ASSUME NONEIsNoSpan == NONE \notin Spans

Point ==
    [instrument: {"graph_node_duration_seconds", "pix_operations_total"},
     of: Spans, result: {"ok", "error"}]
    \cup [instrument: {"guardrail_block_total"}, of: Spans, result: {"blocked", "allowed"}]
    \cup [instrument: {"llm_token_count_total"}, of: Spans, result: {"ok"}]

ObservedInit == Init /\ span  = [r \in Requests |-> NONE]
                     /\ points = [r \in Requests |-> << >>]

-----------------------------------------------------------------------------
(* The node of r is over: the graph goes to another one or the run ends *)
Leaves(r)  == /\ pc'[r] # pc[r] /\ span[r] # NONE
              /\ pc'[r] \in Nodes \cup {"reply"}

(* Only the guardrail raises: the services turn every failure into a state *)
Raises(r)  == pc[r] = "guardrail" /\ pc'[r] = "reply"

(* Slip: the safeguard model is asked before the heuristics *)
AsksLLMFirst(r) ==
    \/ pc[r] = "guardrail" /\ GUARDRAIL_ENABLED
    \/ pc[r] = "identifyIntent" /\ ~ResolvesAmount(st[r], msg[r])
    \/ pc[r] = "chatResponse"

(* The node asked an LLM: not after a heuristic match, nor for an amount *)
AsksLLM(r) ==
    \/ pc[r] = "guardrail" /\ GUARDRAIL_ENABLED /\ ~msg[r].injection
    \/ pc[r] = "identifyIntent" /\ ~ResolvesAmount(st[r], msg[r])
    \/ pc[r] = "chatResponse"

When(c, point) == IF c THEN << point >> ELSE << >>
Measured(instrument, r, result) ==
    [instrument |-> instrument, of |-> span[r], result |-> result]

(* LLMService and GuardrailService: usage is counted when the provider     *)
(* reports it, before the answer is known to be usable                     *)
Tokens(r, reported) ==
    When(reported /\ AsksLLM(r), Measured("llm_token_count_total", r, "ok"))

(* Slip: the decision counted is the one of the turn before *)
EarlierDecision(r) ==
    When(pc[r] = "guardrail" /\ ~Raises(r),
         Measured("guardrail_block_total", r,
                  IF st[r].is_blocked THEN "blocked" ELSE "allowed"))

(* Slip: the decision has the names of the other results *)
DecisionUnnamed(r) ==
    When(pc[r] = "guardrail" /\ ~Raises(r),
         Measured("guardrail_block_total", r,
                  IF st'[r].is_blocked THEN "error" ELSE "ok"))

(* The guardrail node counts its decision once it has one *)
Decision(r) ==
    When(pc[r] = "guardrail" /\ ~Raises(r),
         Measured("guardrail_block_total", r,
                  IF st'[r].is_blocked THEN "blocked" ELSE "allowed"))

(* Slip: payments are not counted as operations *)
SpanMetricsOfKeys(r) ==
    LET result == IF Raises(r) THEN "error" ELSE "ok"
    IN  << Measured("graph_node_duration_seconds", r, result) >>
        \o When(span[r] \in PixSpans \ MoneySpans, Measured("pix_operations_total", r, result))

(* record_span_metrics: the node's duration, and the operation's result;   *)
(* an error is an exception that leaves the node                           *)
SpanMetrics(r) ==
    LET result == IF Raises(r) THEN "error" ELSE "ok"
    IN  << Measured("graph_node_duration_seconds", r, result) >>
        \o When(span[r] \in PixSpans, Measured("pix_operations_total", r, result))

(* domain_span: what a step does to the span and the points of r *)
Recorded(r, reported) ==
    IF Leaves(r) THEN points[r] \o Tokens(r, reported) \o Decision(r) \o SpanMetrics(r)
                 ELSE points[r]

(* Steps inside a node leave its span open *)
Inside == Steps \ (Nodes \cup {"reply"})

SpanAfter(r) ==
    CASE pc'[r] = pc[r] \/ pc'[r] \in Inside           -> span[r]
      [] pc'[r] # pc[r] /\ pc'[r] \in DOMAIN SpanOf    -> SpanOf[pc'[r]]
      [] OTHER                                         -> NONE

Observe ==
    /\ span' = [r \in Requests |-> SpanAfter(r)]
    /\ \E reported \in BOOLEAN : points' = [r \in Requests |-> Recorded(r, reported)]

ObservedNext == Next /\ Observe

ObservedSpec ==
    /\ ObservedInit
    /\ [][ObservedNext]_ovars
    /\ \A r \in Requests : WF_ovars(Step(r) /\ Observe)

-----------------------------------------------------------------------------
Count(r, instrument) ==
    Cardinality({i \in DOMAIN points[r] : points[r][i].instrument = instrument})
Counted(r, instrument, of, result) ==
    \E i \in DOMAIN points[r] :
        points[r][i] = [instrument |-> instrument, of |-> of, result |-> result]

(* What telemetry holds is of its kind: a point has one of the results that *)
(* the dashboards know.                                                     *)
ObservedTypeOK ==
    /\ span \in [Requests -> Optional(Spans)]
    /\ points \in [Requests -> Seq(Point)]

(* No money moves unobserved: from the first transfer on, the span of a    *)
(* payment or a withdrawal is open, or that one operation was counted,     *)
(* once, with nothing else; only a crash loses the count.                  *)
MoneyIsCountedOnce ==
    \A r \in Requests : transfers[r] # << >> =>
        \/ span[r] \in MoneySpans /\ Count(r, "pix_operations_total") = 0
        \/ /\ span[r] \notin MoneySpans /\ Count(r, "pix_operations_total") = 1
           /\ \E name \in MoneySpans, result \in {"ok", "error"} :
                Counted(r, "pix_operations_total", name, result)
        \/ pc[r] = "crashed" /\ Count(r, "pix_operations_total") = 0

(* The guardrail's counter agrees with what came of the message: counted   *)
(* once per message that got past the guardrail node, "blocked" for those  *)
(* that were refused and for no message that reached the bank.             *)
DecisionIsCounted ==
    \A r \in Requests :
        /\ Count(r, "guardrail_block_total") <= 1
        /\ answer[r].kind = "refused" =>
             Counted(r, "guardrail_block_total", "graph.guardrail.check", "blocked")
        /\ transfers[r] # << >> =>
             Counted(r, "guardrail_block_total", "graph.guardrail.check", "allowed")

(* A message that matches a heuristic spends no token, whatever its user   *)
(* asked for before.                                                       *)
NoTokensForInjections ==
    \A r \in Requests :
        pc[r] # "idle" /\ msg[r].injection /\ GUARDRAIL_ENABLED =>
            Count(r, "llm_token_count_total") = 0

(* When a message is there to be read, an amount that its user wrote in one *)
(* of the documented formats will be found as it was written, and zero will *)
(* be taken for no amount.                                                  *)
ReadsDocumentedAmounts ==
    \A r \in Requests : pc[r] = "guardrail" =>
        \A reais \in {0, 1, 10, 100}, cents \in {0, 5, 50, 99} :
            ReadAsWritten(reais, cents)

-----------------------------------------------------------------------------
(* observability_spec.md: when the bank answers 5xx to a transfer, the     *)
(* span of the withdrawal node is marked ERROR; a span is so marked just   *)
(* when its operation is counted with result "error".                      *)
FailedTransferIsAnError ==
    \A r \in Requests, result \in {"ok", "error"} :
        /\ Counted(r, "pix_operations_total", "pix.withdraw.execute", result)
        /\ \E i \in DOMAIN transfers[r] : transfers[r][i].reply \in 500..599
        => result = "error"
=============================================================================
