--------------------------- MODULE PixProperties ---------------------------
(***************************************************************************)
(* What the conversation graph must guarantee, over what the bank was sent *)
(* (transfers), what users said (msg, thread) and what they were told      *)
(* (answer).                                                               *)
(***************************************************************************)
EXTENDS PixGraph

(* Every variable holds a value of its kind. *)
TypeOK ==
    /\ pc \in [Requests -> Steps \cup Ended \cup {"idle"}]
    /\ thread \in [Requests -> Optional(Threads)]
    /\ msg \in [Requests -> Optional(Messages)]
    /\ st \in [Requests -> GraphState]
    /\ work \in [Requests -> GraphState]
    /\ account \in [Requests -> Accounts]
    /\ unsaved \in [Requests -> BOOLEAN]
    /\ answer \in [Requests -> Answers]
    /\ saved \in [Threads -> GraphState]
    /\ transfers \in [Requests -> Seq(Attempt)]
    /\ qrStatus \in [QRs -> QRStatuses]
    /\ \A r \in Requests : pc[r] # "idle" => thread[r] \in Threads /\ msg[r] \in Messages

(* One chat request moves money at most once, whatever the bank answers to *)
(* the first transfer and whether or not the fallback account is tried.    *)
AtMostOneDebit ==
    \A r \in Requests : \A i, j \in DOMAIN transfers[r] :
        transfers[r][i].debited /\ transfers[r][j].debited => i = j

(* The fallback account pays only what the primary account was refused     *)
(* with 402 or 422: the primary account is tried first, then the same      *)
(* payload goes out once more, and never a third time.                     *)
FallbackOnlyAfterRefusal ==
    \A r \in Requests : \A i \in DOMAIN transfers[r] :
        /\ transfers[r][1].account = "primary"
        /\ i > 1 => /\ i = 2
                    /\ transfers[r][1].reply \in TransferRetryable
                    /\ transfers[r][2].account = "fallback"
                    /\ transfers[r][2].payload = transfers[r][1].payload

(* The fields of one transfer come from one answer of the bank: over any   *)
(* number of turns, lookups and decodes, a payload never joins the payee   *)
(* of one QR Code or key with the end-to-end id or the reconciliation of   *)
(* another, and a QR transfer carries all the fields of its QR Code.       *)
Coherent(p) ==
    /\ p.beneficiary \in Sources
    /\ p.endToEndId = p.beneficiary
    /\ p.initType \in QRInitTypes =>
         /\ p.qrCode = p.beneficiary
         /\ p.reconciliationId = p.beneficiary
         /\ p.keyId = p.beneficiary

CoherentPayload ==
    \A r \in Requests : \A i \in DOMAIN transfers[r] :
        Coherent(transfers[r][i].payload)

(* Whoever is paid was named, in the same conversation, by a message the   *)
(* guardrail let through: no other thread, no blocked message and no       *)
(* crash makes a payee.                                                    *)
PayeeNamedOnThread ==
    \A r \in Requests : \A i \in DOMAIN transfers[r] :
        \E by \in Requests :
            /\ thread[by] = thread[r]
            /\ transfers[r][i].payload.beneficiary \in {msg[by].brcode, msg[by].pix_key}
            /\ answer[by].kind # "refused"
            /\ GUARDRAIL_ENABLED => ~msg[by].injection

(* The amount that is paid is the own amount of the QR Code that is paid,  *)
(* or was said in the same conversation by a message the guardrail let     *)
(* through: it never comes from another thread, from a blocked message or  *)
(* from a QR Code that was decoded earlier.                                *)
AmountNamedOnThread ==
    \A r \in Requests : \A i \in DOMAIN transfers[r] :
        LET paid == transfers[r][i].payload
        IN  \/ /\ paid.beneficiary \in QRs
               /\ paid.amount = BankQR[paid.beneficiary].amount
            \/ \E by \in Requests :
                  /\ thread[by] = thread[r]
                  /\ paid.amount \in {msg[by].amount, msg[by].numeral}
                  /\ answer[by].kind # "refused"
                  /\ GUARDRAIL_ENABLED => ~msg[by].injection

(* A success told to the user is a transfer that the bank accepted in this *)
(* very request, and the data presented is its receipt.                    *)
MovesMoney(a) == a.kind = "scenario" /\ a.command \in {"pix_payment", "pix_withdraw"}

SuccessIsReal ==
    \A r \in Requests :
        MovesMoney(answer[r]) /\ answer[r].outcome = "success" =>
            /\ answer[r].data = Receipt(r)
            /\ \E i \in DOMAIN transfers[r] : Accepted(transfers[r][i].reply)

(* A failure told to the user is not a transfer the bank confirmed: an     *)
(* error scenario never follows a confirmation of the same request.        *)
FailureIsReal ==
    \A r \in Requests :
        MovesMoney(answer[r]) /\ answer[r].outcome = "error" =>
            \A i \in DOMAIN transfers[r] : ~Accepted(transfers[r][i].reply)

(* The first message of a conversation is carried out as it reads: while no *)
(* other message was received on its thread, only an order to pay or to    *)
(* transfer moves money, to the QR Code or the key it names, of the amount *)
(* it names or, if the QR Code has one of its own, of that amount.         *)
AloneOnThread(r) == \A by \in Requests \ {r} : pc[by] = "idle" \/ thread[by] # thread[r]

AmountToPay(m) ==
    LET qr == BankQR[m.brcode]
    IN  IF qr.amountType = "CUSTOM" /\ ~Truthy(qr.amount) THEN m.amount ELSE qr.amount

Follows(m, paid) ==
    \/ /\ m.intent = "pix_payment" /\ m.brcode # NONE
       /\ paid.beneficiary = m.brcode /\ paid.amount = AmountToPay(m)
    \/ /\ m.intent = "pix_withdraw" /\ m.pix_key # NONE
       /\ paid.beneficiary = m.pix_key /\ paid.amount = m.amount

FirstOrderIsFollowed ==
    \A r \in Requests : pc[r] # "idle" /\ AloneOnThread(r) =>
        \A i \in DOMAIN transfers[r] : Follows(msg[r], transfers[r][i].payload)

(* In the first turn of a conversation, a transfer that the bank confirmed *)
(* is told as a success: nothing an earlier turn could leave (a pending    *)
(* amount, a refused status) hides it.                                     *)
FirstPaymentIsReported ==
    \A r \in Requests :
        /\ pc[r] # "idle" /\ AloneOnThread(r)
        /\ MovesMoney(answer[r])
        /\ \E i \in DOMAIN transfers[r] : Accepted(transfers[r][i].reply)
        => answer[r].outcome = "success"

(* What a conversation was told is what its next turn begins with: when    *)
(* its first message was answered, the checkpoint of the thread is the     *)
(* state that the answer tells, or says that the message was refused.  A   *)
(* checkpoint that is late, refused or of another thread is never passed   *)
(* over with such an answer.                                               *)
FirstAnswerIsRemembered ==
    \A r \in Requests : pc[r] = "done" /\ AloneOnThread(r) =>
        /\ answer[r].kind = "scenario" => ScenarioOf(saved[thread[r]]) = answer[r]
        /\ answer[r].kind = "refused"  => saved[thread[r]].is_blocked

(* The work a request has before it: nodes, a second account, a checkpoint *)
Ahead ==
    [guardrail |-> 11, identifyIntent |-> 10, pixPayment |-> 9, paymentPreview |-> 8,
     resolveAmount |-> 7, pixWithdraw |-> 7, withdraw |-> 6, lookup |-> 5, validate |-> 4,
     transfer |-> 3, listKeys |-> 3, readKey |-> 3, brcodePreview |-> 3, fallback |-> 3,
     chatResponse |-> 2, blockedResponse |-> 2, reply |-> 1, done |-> 0, crashed |-> 0]
Remaining(r) ==
    4 * Ahead[pc[r]] + (IF unsaved[r] THEN 2 ELSE 0) + (IF account[r] = "primary" THEN 1 ELSE 0)
Own(r) == <<pc[r], st[r], work[r], account[r], unsaved[r], answer[r], transfers[r]>>

(* No node, retry or checkpoint is come back to: whatever the bank and the *)
(* LLM answer, each step of a request leaves less work before it, so that  *)
(* its calls are bounded, and a request that is over stays as it is.       *)
RequestsGetOn ==
    [][\A r \in Requests :
         pc[r] # "idle" /\ Own(r)' # Own(r) => Remaining(r)' < Remaining(r)]_vars

(* Every request that was received ends: answered, or lost with the        *)
(* process.                                                                *)
EveryRequestEnds ==
    \A r \in Requests : pc[r] = "guardrail" ~> pc[r] \in Ended

-----------------------------------------------------------------------------
(* What the documents say of the conversation and the code does not do *)

(* readme.md: pix_payment pays the QR Code the user sent ("decode QR ->    *)
(* ... -> execute transfer"): what an order to pay a QR Code pays is that  *)
(* QR Code.                                                                *)
PaysTheOrderedQRCode ==
    \A r \in Requests :
        pc[r] # "idle" /\ msg[r].intent = "pix_payment" /\ msg[r].brcode # NONE =>
            \A i \in DOMAIN transfers[r] :
                transfers[r][i].payload.beneficiary = msg[r].brcode

(* readme.md: pix_withdraw transfers to a key, the one the user named. *)
WithdrawPaysTheNamedKey ==
    \A r \in Requests :
        pc[r] # "idle" /\ msg[r].intent = "pix_withdraw" /\ msg[r].pix_key # NONE =>
            \A i \in DOMAIN transfers[r] :
                transfers[r][i].payload.beneficiary = msg[r].pix_key

(* readme.md: list_keys, read_key and brcode_preview only consult. *)
ConsultationNeverPays ==
    \A r \in Requests :
        pc[r] # "idle" /\ msg[r].intent \in {"list_keys", "read_key", "brcode_preview"} =>
            transfers[r] = << >>

(* chat_response.py: a QR Code that is PAID or EXPIRED cannot be paid: no  *)
(* transfer goes out for it once the thread was told so.                   *)
RefusedQRCodeStaysUnpaid ==
    [][\A r \in Requests : transfers'[r] # transfers[r] =>
         ~ \E told \in Requests :
              /\ pc[told] = "done" /\ thread[told] = thread[r]
              /\ answer[told].outcome = "blocked"
              /\ answer[told].data.of = transfers'[r][Len(transfers'[r])].payload.beneficiary]_vars

(* chat_response.py: pix_payment_blocked says the payment is not possible, *)
(* pix_payment_awaiting that an amount is needed; neither is the answer to *)
(* a payment that went through.                                            *)
PaidIsReportedPaid ==
    \A r \in Requests :
        /\ MovesMoney(answer[r])
        /\ \E i \in DOMAIN transfers[r] : Accepted(transfers[r][i].reply)
        => answer[r].outcome = "success"
=============================================================================
