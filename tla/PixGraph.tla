------------------------------ MODULE PixGraph ------------------------------
(***************************************************************************)
(* The conversation graph of the assistant: POST /chat requests run the    *)
(* LangGraph nodes of src/graph/graph.py one after the other, each request *)
(* on its own snapshot of the thread's state, and the banking API and the  *)
(* checkpoint database are shared by all of them.                          *)
(*                                                                         *)
(* A request is a coroutine of one event loop: an action is what happens   *)
(* between two awaits of the source.  A call to the bank is one action:    *)
(* build_headers awaits the token, the request itself is synchronous.      *)
(* Checkpoints are written while the next node runs (LangGraph's default   *)
(* durability), so a node's update reaches the thread in a step of its     *)
(* own, and a crash may lose it.                                           *)
(***************************************************************************)
EXTENDS PixState, FiniteSets

CONSTANTS
    Threads,              \* values of the thread-id header
    Messages,             \* the user messages that can be sent
    Replies,              \* HTTP statuses of the bank; 0: no usable answer
    Scores,               \* scores of the safeguard model
    GUARDRAIL_THRESHOLD,
    GUARDRAIL_ENABLED,    \* BOOLEAN settings
    HAS_FIN_ACCOUNT,      \* FIN_ACCOUNT_ID is configured
    HAS_FALLBACK,         \* FIN_ACCOUNT_ID_FALLBACK is configured
    HAS_HASH_SECRET,      \* TRANSACTION_HASH_SECRET is configured
    MaxActive             \* bound: requests in progress at once

ASSUME MessagesAssumption == Messages \subseteq Message
ASSUME RepliesAssumption  == Replies \subseteq Nat
ASSUME SettingsAssumption ==
    {GUARDRAIL_ENABLED, HAS_FIN_ACCOUNT, HAS_FALLBACK, HAS_HASH_SECRET}
        \subseteq BOOLEAN

KeyRetryable      == {404, 402, 422}   \* pix_key_service, brcode_preview_service
TransferRetryable == {402, 422}        \* pix_withdraw_service

VARIABLES
    pc,         \* [Requests -> node or step the request is at]
    thread,     \* [Requests -> the thread it runs on]
    msg,        \* [Requests -> the message it carries]
    st,         \* [Requests -> its snapshot of the graph state]
    work,       \* [Requests -> the dict handed to PixWithdrawService]
    account,    \* [Requests -> the account the next bank call uses]
    unsaved,    \* [Requests -> a checkpoint of it is still to be written]
    answer,     \* [Requests -> the answer]
    saved,      \* [Threads -> state in the latest checkpoint]
    transfers,  \* [Requests -> the POST /transfer calls it made, in order]
    qrStatus    \* [QRs -> status at the bank]

vars == <<pc, thread, msg, st, work, account, unsaved, answer, saved,
          transfers, qrStatus>>

Nodes == {"guardrail", "blockedResponse", "identifyIntent", "listKeys",
          "readKey", "brcodePreview", "pixPayment", "pixWithdraw",
          "fallback", "chatResponse"}
Ended == {"done", "crashed"}
Steps == Nodes \cup {"paymentPreview", "resolveAmount", "withdraw", "lookup",
                     "validate", "transfer", "reply"}

Accounts == {"primary", "fallback"}
Attempt  == [account: Accounts, payload: Payloads, reply: Replies,
             debited: BOOLEAN]

Running == {r \in Requests : pc[r] \in Steps}

Init ==
    /\ pc = [r \in Requests |-> "idle"]
    /\ thread = [r \in Requests |-> NONE]
    /\ msg = [r \in Requests |-> NONE]
    /\ st = [r \in Requests |-> EmptyState]
    /\ work = [r \in Requests |-> EmptyState]
    /\ account = [r \in Requests |-> "primary"]
    /\ unsaved = [r \in Requests |-> FALSE]
    /\ answer = [r \in Requests |-> NoAnswer]
    /\ saved = [t \in Threads |-> EmptyState]
    /\ transfers = [r \in Requests |-> << >>]
    /\ qrStatus \in [QRs -> QRStatuses]
    /\ \A q \in QRs : BankQR[q].wellFormed \/ qrStatus[q] = "ACTIVE"

-----------------------------------------------------------------------------
(* Helpers of the actions *)

Goto(r, step) == pc' = [pc EXCEPT ![r] = step]

(* A node returned: its update becomes the request's state, a checkpoint   *)
(* is due, and the graph goes on to the next node.                         *)
NodeReturns(r, s, next) ==
    /\ Goto(r, next)
    /\ st' = [st EXCEPT ![r] = s]
    /\ work' = [work EXCEPT ![r] = EmptyState]
    /\ account' = [account EXCEPT ![r] = "primary"]
    /\ unsaved' = [unsaved EXCEPT ![r] = TRUE]
    /\ UNCHANGED <<thread, msg, answer, saved, qrStatus>>

(* The action node of a request is over: the answer is written next *)
ActionReturns(r, s) == NodeReturns(r, s, "chatResponse")

(* Work inside a node: nothing the graph or other requests can see changes; *)
(* the next call to the bank starts again with the primary account.         *)
Continue(r, w, step) ==
    /\ Goto(r, step)
    /\ work' = [work EXCEPT ![r] = w]
    /\ account' = [account EXCEPT ![r] = "primary"]
    /\ UNCHANGED <<thread, msg, st, unsaved, answer, saved, qrStatus>>

(* raise_for_status lets the answer through, and it can be read *)
Accepted(reply) == reply # 0 /\ reply \notin 400..599

(* Slips: a failure of any kind is retried; the retry is retried *)
RetriesOnAnyFailure(r, reply, retryable) ==
    account[r] = "primary" /\ ~Accepted(reply) /\ HAS_FALLBACK
RetriesAgain(r, reply, retryable) == reply \in retryable /\ HAS_FALLBACK

(* The fallback account is tried once, after a retryable refusal only *)
RetriesOnFallback(r, reply, retryable) ==
    account[r] = "primary" /\ reply \in retryable /\ HAS_FALLBACK

UseFallback(r) ==
    /\ account' = [account EXCEPT ![r] = "fallback"]
    /\ UNCHANGED <<pc, thread, msg, st, work, unsaved, answer, saved, qrStatus>>

(* What the request will answer; once the run has failed, HTTP 500 *)
Draft(r, a) ==
    answer' = [answer EXCEPT ![r] = IF @.kind = "error500" THEN @ ELSE a]

-----------------------------------------------------------------------------
(* POST /chat: the thread's latest checkpoint is loaded, the run starts;   *)
(* its first checkpoint is the loaded state with the new message.          *)
Receive(r, t, m) ==
    /\ pc[r] = "idle"
    /\ Cardinality(Running) < MaxActive
    /\ thread' = [thread EXCEPT ![r] = t]
    /\ msg' = [msg EXCEPT ![r] = m]
    /\ st' = [st EXCEPT ![r] = saved[t]]
    /\ unsaved' = [unsaved EXCEPT ![r] = TRUE]
    /\ Goto(r, "guardrail")
    /\ UNCHANGED <<work, account, answer, saved, transfers, qrStatus>>

(* guardrail: heuristics, then the safeguard model *)
GuardrailBlocks(r) ==
    /\ pc[r] = "guardrail"
    /\ GUARDRAIL_ENABLED
    /\ msg[r].injection \/ \E score \in Scores : score > GUARDRAIL_THRESHOLD
    /\ NodeReturns(r, [st[r] EXCEPT !.is_blocked = TRUE], "blockedResponse")
    /\ UNCHANGED transfers

GuardrailPasses(r) ==
    /\ pc[r] = "guardrail"
    /\ \/ ~GUARDRAIL_ENABLED
       \/ /\ ~msg[r].injection
          /\ \E score \in Scores : ~(score > GUARDRAIL_THRESHOLD)
    /\ NodeReturns(r, [st[r] EXCEPT !.is_blocked = FALSE], "identifyIntent")
    /\ UNCHANGED transfers

(* The safeguard model fails or answers nothing usable: HTTP 500 *)
GuardrailFails(r) ==
    /\ pc[r] = "guardrail"
    /\ GUARDRAIL_ENABLED /\ ~msg[r].injection
    /\ Draft(r, Answer("error500"))
    /\ Goto(r, "reply")
    /\ UNCHANGED <<thread, msg, st, work, account, unsaved, saved, transfers, qrStatus>>

BlockedResponse(r) ==
    /\ pc[r] = "blockedResponse"
    /\ Draft(r, Answer("refused"))
    /\ Goto(r, "reply")
    /\ UNCHANGED <<thread, msg, st, work, account, unsaved, saved, transfers, qrStatus>>

(* identifyIntent: an amount that was asked for, or the classifier *)
ResolveAmount(r) ==
    /\ pc[r] = "identifyIntent"
    /\ ResolvesAmount(st[r], msg[r])
    /\ NodeReturns(r, Continued(st[r], msg[r]), RouteIntent("pix_payment"))
    /\ UNCHANGED transfers

Classify(r) ==
    /\ pc[r] = "identifyIntent"
    /\ ~ResolvesAmount(st[r], msg[r])
    /\ NodeReturns(r, Classified(st[r], msg[r]), RouteIntent(msg[r].intent))
    /\ UNCHANGED transfers

ClassifyFails(r) ==
    /\ pc[r] = "identifyIntent"
    /\ ~ResolvesAmount(st[r], msg[r])
    /\ NodeReturns(r, [st[r] EXCEPT !.command = "unknown"], RouteIntent("unknown"))
    /\ UNCHANGED transfers

Fallback(r) ==
    /\ pc[r] = "fallback"
    /\ ActionReturns(r, [st[r] EXCEPT !.action_success = TRUE])
    /\ UNCHANGED transfers

-----------------------------------------------------------------------------
(* Queries to the bank, with the fallback account on a retryable refusal *)
Query(r, ok) ==
    /\ \E reply \in Replies :
         \/ Accepted(reply) /\ ActionReturns(r, ok)
         \/ RetriesOnFallback(r, reply, KeyRetryable) /\ UseFallback(r)
         \/ /\ ~Accepted(reply) /\ ~RetriesOnFallback(r, reply, KeyRetryable)
            /\ ActionReturns(r, Failed(st[r]))
    /\ UNCHANGED transfers

RejectQuery(r) == ActionReturns(r, Failed(st[r])) /\ UNCHANGED transfers

ListKeys(r) ==
    /\ pc[r] = "listKeys"
    /\ IF HAS_FIN_ACCOUNT THEN Query(r, Succeeded(st[r], KeysListed))
                          ELSE RejectQuery(r)

ReadKey(r) ==
    /\ pc[r] = "readKey"
    /\ IF HAS_FIN_ACCOUNT /\ st[r].pix_key # NONE
       THEN Query(r, Succeeded(st[r], KeyDetails(st[r].pix_key)))
       ELSE RejectQuery(r)

BRCodePreview(r) ==
    /\ pc[r] = "brcodePreview"
    /\ IF HAS_FIN_ACCOUNT /\ Decodable(st[r])
       THEN Query(r, Previewed(st[r], st[r].brcode, qrStatus[st[r].brcode]))
       ELSE RejectQuery(r)

-----------------------------------------------------------------------------
(* pixPayment: continuation, or decode -> status -> amount -> transfer *)
PaymentContinues(r) ==
    /\ pc[r] = "pixPayment"
    /\ IsContinuation(st[r])
    /\ Continue(r, st[r], "withdraw")
    /\ UNCHANGED transfers

PaymentStarts(r) ==
    /\ pc[r] = "pixPayment"
    /\ ~IsContinuation(st[r])
    /\ IF HAS_FIN_ACCOUNT /\ Decodable(st[r])
       THEN Continue(r, st[r], "paymentPreview")
       ELSE ActionReturns(r, Failed(st[r]))
    /\ UNCHANGED transfers

PaymentPreview(r) ==
    /\ pc[r] = "paymentPreview"
    /\ \E reply \in Replies :
         \/ /\ Accepted(reply)
            /\ Continue(r, Previewed(st[r], st[r].brcode, qrStatus[st[r].brcode]),
                        "resolveAmount")
         \/ RetriesOnFallback(r, reply, KeyRetryable) /\ UseFallback(r)
         \/ /\ ~Accepted(reply) /\ ~RetriesOnFallback(r, reply, KeyRetryable)
            /\ ActionReturns(r, Failed(st[r]))
    /\ UNCHANGED transfers

(* PAID and EXPIRED are refused; the decoded fields are kept all the same *)
RefuseUnpayable(r) ==
    /\ pc[r] = "resolveAmount"
    /\ work[r].action_data.status \in Unpayable
    /\ ActionReturns(r, [Failed(work[r]) EXCEPT
                           !.brcode_status = work[r].action_data.status])
    /\ UNCHANGED transfers

Payable(r) ==
    /\ pc[r] = "resolveAmount"
    /\ work[r].action_data.status \notin Unpayable

PayFixed(r) ==
    /\ Payable(r)
    /\ work[r].withdraw_amount_type = "FIXED"
    /\ Continue(r, work[r], "withdraw")
    /\ UNCHANGED transfers

(* The amount of the QR Code, or else the one the thread holds *)
CustomAmount(r) == IF Truthy(work[r].withdraw_amount)
                   THEN work[r].withdraw_amount
                   ELSE st[r].withdraw_amount

PositiveAmount(a) == Truthy(a) /\ a > 0

PayCustom(r) ==
    /\ Payable(r)
    /\ work[r].withdraw_amount_type = "CUSTOM"
    /\ PositiveAmount(CustomAmount(r))
    /\ Continue(r, [work[r] EXCEPT !.withdraw_amount = CustomAmount(r)], "withdraw")
    /\ UNCHANGED transfers

AskAmount(r) ==
    /\ Payable(r)
    /\ work[r].withdraw_amount_type = "CUSTOM"
    /\ ~PositiveAmount(CustomAmount(r))
    /\ ActionReturns(r, [work[r] EXCEPT !.awaiting_amount = TRUE])
    /\ UNCHANGED transfers

UnknownAmountType(r) ==
    /\ Payable(r)
    /\ work[r].withdraw_amount_type \notin {"FIXED", "CUSTOM"}
    /\ ActionReturns(r, Failed(work[r]))
    /\ UNCHANGED transfers

-----------------------------------------------------------------------------
(* PixWithdrawService.execute, called by pixWithdraw and by pixPayment *)
PixWithdraw(r) ==
    /\ pc[r] = "pixWithdraw"
    /\ Continue(r, st[r], "withdraw")
    /\ UNCHANGED transfers

Enrich(r) ==
    /\ pc[r] = "withdraw"
    /\ Continue(r, work[r], IF NeedsLookup(work[r]) /\ HAS_FIN_ACCOUNT
                            THEN "lookup" ELSE "validate")
    /\ UNCHANGED transfers

(* The beneficiary of the key, on the primary account; errors are dropped *)
Lookup(r) ==
    /\ pc[r] = "lookup"
    /\ \E reply \in Replies :
         Continue(r, IF Accepted(reply) THEN LookedUp(work[r], work[r].pix_key)
                                    ELSE work[r], "validate")
    /\ UNCHANGED transfers

Validate(r) ==
    /\ pc[r] = "validate"
    /\ IF ValidTransfer(work[r]) /\ HAS_HASH_SECRET /\ HAS_FIN_ACCOUNT
       THEN Continue(r, work[r], "transfer")
       ELSE ActionReturns(r, Failed(st[r]))
    /\ UNCHANGED transfers

(* The bank executes what it accepts and nothing it refuses with 4xx; a    *)
(* 5xx or a lost or unreadable answer tells nothing.                       *)
MayDebit(reply, debited) ==
    /\ Accepted(reply) => debited
    /\ reply \in 400..499 => ~debited

TransferReturns(r, reply) ==
    \/ Accepted(reply) /\ ActionReturns(r, Succeeded(st[r], Receipt(r)))
    \/ RetriesOnFallback(r, reply, TransferRetryable) /\ UseFallback(r)
    \/ /\ ~Accepted(reply) /\ ~RetriesOnFallback(r, reply, TransferRetryable)
       /\ ActionReturns(r, Failed(st[r]))

Transfer(r) ==
    /\ pc[r] = "transfer"
    /\ \E reply \in Replies, debited \in BOOLEAN :
         /\ MayDebit(reply, debited)
         /\ transfers' = [transfers EXCEPT ![r] =
                Append(@, [account |-> account[r], payload |-> Payload(work[r]),
                           reply |-> reply, debited |-> debited])]
         /\ TransferReturns(r, reply)

-----------------------------------------------------------------------------
(* chatResponse: the scenario is told by the LLM, or an apology *)
ChatResponse(r) ==
    /\ pc[r] = "chatResponse"
    /\ \E a \in {ScenarioOf(st[r]), Answer("apology")} : Draft(r, a)
    /\ Goto(r, "reply")
    /\ UNCHANGED <<thread, msg, st, work, account, unsaved, saved, transfers, qrStatus>>

(* Slip: the answer does not wait for the checkpoint *)
ReplyEarly(r) ==
    /\ pc[r] = "reply"
    /\ Goto(r, "done")
    /\ st' = [st EXCEPT ![r] = EmptyState]
    /\ UNCHANGED <<thread, msg, work, account, unsaved, answer, saved, transfers, qrStatus>>

(* The run ends once its checkpoints are written; its memory is released *)
Reply(r) ==
    /\ pc[r] = "reply"
    /\ ~unsaved[r]
    /\ Goto(r, "done")
    /\ st' = [st EXCEPT ![r] = EmptyState]
    /\ UNCHANGED <<thread, msg, work, account, unsaved, answer, saved, transfers, qrStatus>>

(* Slip: checkpoints are not told apart by thread *)
SaveCheckpointUnkeyed(r) ==
    /\ unsaved[r]
    /\ saved' = [t \in Threads |-> st[r]]
    /\ unsaved' = [unsaved EXCEPT ![r] = FALSE]
    /\ UNCHANGED <<pc, thread, msg, st, work, account, answer, transfers, qrStatus>>

(* The latest checkpoint of the thread becomes this request's state *)
SaveCheckpoint(r) ==
    /\ unsaved[r]
    /\ saved' = [saved EXCEPT ![thread[r]] = st[r]]
    /\ unsaved' = [unsaved EXCEPT ![r] = FALSE]
    /\ UNCHANGED <<pc, thread, msg, st, work, account, answer, transfers, qrStatus>>

(* The database refuses a checkpoint: the run goes on and answers HTTP 500 *)
SaveFails(r) ==
    /\ unsaved[r]
    /\ unsaved' = [unsaved EXCEPT ![r] = FALSE]
    /\ Draft(r, Answer("error500"))
    /\ UNCHANGED <<pc, thread, msg, st, work, account, saved, transfers, qrStatus>>

(* The process dies with every request in progress; it restarts empty *)
Crash ==
    /\ Running # {}
    /\ pc' = [r \in Requests |-> IF r \in Running THEN "crashed" ELSE pc[r]]
    /\ st' = [r \in Requests |-> EmptyState]
    /\ work' = [r \in Requests |-> EmptyState]
    /\ account' = [r \in Requests |-> "primary"]
    /\ unsaved' = [r \in Requests |-> FALSE]
    /\ answer' = [r \in Requests |-> IF r \in Running THEN NoAnswer ELSE answer[r]]
    /\ UNCHANGED <<thread, msg, saved, transfers, qrStatus>>

(* At the bank: an active QR Code gets paid by someone, or expires.  What   *)
(* is no BRCode is unknown to the bank and keeps the status it began with. *)
QRStatusChanges(q) ==
    /\ BankQR[q].wellFormed
    /\ qrStatus[q] = "ACTIVE"
    /\ \E status \in Unpayable : qrStatus' = [qrStatus EXCEPT ![q] = status]
    /\ UNCHANGED <<pc, thread, msg, st, work, account, unsaved, answer, saved, transfers>>

(* Nothing left to serve *)
Quiescent == /\ \A r \in Requests : pc[r] \in Ended
             /\ UNCHANGED vars

Withdraw(r) == Enrich(r) \/ Lookup(r) \/ Validate(r) \/ Transfer(r)

Payment(r) ==
    \/ PaymentContinues(r) \/ PaymentStarts(r) \/ PaymentPreview(r)
    \/ RefuseUnpayable(r) \/ PayFixed(r) \/ PayCustom(r) \/ AskAmount(r)
    \/ UnknownAmountType(r)

Step(r) ==
    \/ GuardrailBlocks(r) \/ GuardrailPasses(r) \/ GuardrailFails(r)
    \/ BlockedResponse(r)
    \/ ResolveAmount(r) \/ Classify(r) \/ ClassifyFails(r) \/ Fallback(r)
    \/ ListKeys(r) \/ ReadKey(r) \/ BRCodePreview(r)
    \/ Payment(r) \/ PixWithdraw(r) \/ Withdraw(r)
    \/ ChatResponse(r) \/ Reply(r) \/ SaveCheckpoint(r)

Next ==
    \/ \E r \in Requests, t \in Threads, m \in Messages : Receive(r, t, m)
    \/ \E r \in Requests : Step(r) \/ SaveFails(r)
    \/ Crash
    \/ \E q \in QRs : QRStatusChanges(q)
    \/ Quiescent

Spec == Init /\ [][Next]_vars

(***************************************************************************)
(* The event loop resumes every coroutine whose await has completed; that  *)
(* the bank, the LLM and the database answer at last, one way or another,  *)
(* is assumed (the code sets no timeout).  Nothing obliges users, crashes  *)
(* or the bank's QR Codes.                                                 *)
(***************************************************************************)
FairSpec == Spec /\ \A r \in Requests : WF_vars(Step(r))
=============================================================================
