------------------------------ MODULE PixState ------------------------------
(***************************************************************************)
(* The graph state of the assistant (src/graph/state.py) and the decisions *)
(* its services take on it: what a classified message writes, what a       *)
(* decoded QR Code or a looked-up key writes, which transfers are valid,   *)
(* what is sent to the bank, and which scenario the answer tells.          *)
(*                                                                         *)
(* Abstractions.  A QR Code, a Pix key and an amount are opaque; the       *)
(* beneficiary block, the end-to-end id, the QR text, the reconciliation   *)
(* id and the key id that the bank returns are represented by the QR Code  *)
(* or key they were returned FOR, which is what the properties compare.    *)
(* Amounts are integers in tenths of a cent, so that a third decimal       *)
(* place exists.  The wording of errors, the nominal amount and the        *)
(* message history, which no decision reads, are left out.                 *)
(***************************************************************************)
EXTENDS Integers, Sequences

CONSTANTS
    NONE,       \* Python's None
    Requests,   \* POST /chat requests
    QRs,        \* BRCode texts
    Keys,       \* Pix keys
    Amounts,    \* amounts a message or a QR Code can carry
    BankQR      \* [QRs -> QRData]: what the bank decodes each QR Code to

InitTypes     == {"DICT", "MANUAL", "STATIC_QR_CODE", "DYNAMIC_QR_CODE", "other"}
QRInitTypes   == {"STATIC_QR_CODE", "DYNAMIC_QR_CODE"}
AmountTypes   == {"FIXED", "CUSTOM", "other"}
QRStatuses    == {"ACTIVE", "PAID", "EXPIRED"}
Unpayable     == {"PAID", "EXPIRED"}
Intents       == {"list_keys", "read_key", "pix_withdraw", "brcode_preview",
                  "pix_payment", "brcode_ambiguous", "unknown", "other"}

Optional(S) == S \cup {NONE}
Sources     == QRs \cup Keys

(***************************************************************************)
(* What the bank knows of a QR Code: whether its text passes the local     *)
(* format check, and the fields of BRCodePreviewResponseDTO that decisions *)
(* read (an optional field is present or absent).                          *)
(***************************************************************************)
QRData == [wellFormed: BOOLEAN, initType: InitTypes, amountType: AmountTypes,
           amount: Optional(Amounts), hasPixKey: BOOLEAN,
           hasReconciliationId: BOOLEAN, hasKeyId: BOOLEAN]

ASSUME AmountsAreInts    == Amounts \subseteq Int
ASSUME BankQRAssumption  == BankQR \in [QRs -> QRData]
ASSUME NONEIsNoData      == NONE \notin Amounts \cup Sources /\ NONE \notin Unpayable

(***************************************************************************)
(* A user message, as what the classifier extracts from it and what the    *)
(* amount pattern finds in it: `numeral' is the first positive number in   *)
(* the text, whatever it stands for; `injection' says that the text        *)
(* matches a heuristic of the guardrail.                                   *)
(***************************************************************************)
Message == [intent: Intents, pix_key: Optional(Keys), brcode: Optional(QRs),
            amount: Optional(Amounts),
            numeral: Optional({a \in Amounts : a > 0}),
            injection: BOOLEAN]

ActionData == [kind: {"none", "keys", "key", "preview", "receipt"},
               of: Optional(Sources \cup Requests),
               status: Optional(QRStatuses)]
NoData == [kind |-> "none", of |-> NONE, status |-> NONE]

GraphState ==
    [is_blocked: BOOLEAN, command: Optional(Intents),
     pix_key: Optional(Keys), brcode: Optional(QRs),
     action_success: BOOLEAN, action_data: ActionData,
     awaiting_amount: BOOLEAN, brcode_status: Optional(Unpayable),
     withdraw_amount: Optional(Amounts),
     withdraw_init_type: Optional(InitTypes),
     withdraw_beneficiary: Optional(Sources),
     withdraw_end_to_end_id: Optional(Sources),
     withdraw_qr_code: Optional(QRs),
     withdraw_reconciliation_id: Optional(QRs),
     withdraw_key_id: Optional(QRs),
     withdraw_amount_type: Optional(AmountTypes)]

EmptyState ==
    [is_blocked |-> FALSE, command |-> NONE, pix_key |-> NONE, brcode |-> NONE,
     action_success |-> FALSE, action_data |-> NoData,
     awaiting_amount |-> FALSE, brcode_status |-> NONE,
     withdraw_amount |-> NONE, withdraw_init_type |-> NONE,
     withdraw_beneficiary |-> NONE, withdraw_end_to_end_id |-> NONE,
     withdraw_qr_code |-> NONE, withdraw_reconciliation_id |-> NONE,
     withdraw_key_id |-> NONE, withdraw_amount_type |-> NONE]

-----------------------------------------------------------------------------
(* Python truthiness of an amount. *)
Truthy(a) == a # NONE /\ a # 0

(* _handle_continuation: a pending amount question and a number in the text *)
ResolvesAmount(s, m) == s.awaiting_amount /\ m.numeral # NONE

Continued(s, m) == [s EXCEPT !.command = "pix_payment",
                             !.withdraw_amount = m.numeral,
                             !.awaiting_amount = FALSE]

(* Slip: a number of the text goes before the amount the classifier found *)
ClassifiedByNumeral(s, m) ==
    [s EXCEPT
       !.command = m.intent, !.pix_key = m.pix_key, !.brcode = m.brcode,
       !.withdraw_amount = IF m.numeral # NONE THEN m.numeral ELSE m.amount,
       !.withdraw_init_type = IF m.intent = "pix_withdraw" THEN "DICT" ELSE @]

(* The state update IntentService.classify returns for a classified message *)
Classified(s, m) ==
    [s EXCEPT
       !.command = m.intent,
       !.pix_key = m.pix_key,
       !.withdraw_amount =
           IF m.intent \in {"pix_withdraw", "pix_payment"} /\ m.amount # NONE
           THEN m.amount ELSE @,
       !.withdraw_init_type =
           IF m.intent = "pix_withdraw" /\ m.pix_key # NONE THEN "DICT" ELSE @,
       !.brcode =
           IF m.intent \in {"brcode_preview", "pix_payment", "brcode_ambiguous"}
           THEN m.brcode ELSE @]

(* Slip: an edge is missing for the intents that have no node *)
RouteByName(command) ==
    CASE command = "list_keys"      -> "listKeys"
      [] command = "read_key"       -> "readKey"
      [] command = "pix_withdraw"   -> "pixWithdraw"
      [] command = "brcode_preview" -> "brcodePreview"
      [] command = "pix_payment"    -> "pixPayment"
      [] OTHER                      -> command

(* Slip: what is not understood is classified again *)
RouteBack(command) ==
    IF command = "unknown" THEN "identifyIntent" ELSE "fallback"

(* route_intent: the node of an intent *)
RouteIntent(command) ==
    CASE command = "list_keys"      -> "listKeys"
      [] command = "read_key"       -> "readKey"
      [] command = "pix_withdraw"   -> "pixWithdraw"
      [] command = "brcode_preview" -> "brcodePreview"
      [] command = "pix_payment"    -> "pixPayment"
      [] OTHER                      -> "fallback"

(* Slips: a flag is left as an earlier turn set it *)
Unflagged(s, data) == [s EXCEPT !.action_data = data]
Unchanged(s)       == s

(* Results of an action: success flag and data, the rest untouched *)
Succeeded(s, data) == [s EXCEPT !.action_success = TRUE, !.action_data = data]
Failed(s)          == [s EXCEPT !.action_success = FALSE]

KeysListed      == [kind |-> "keys", of |-> NONE, status |-> NONE]
KeyDetails(k)   == [kind |-> "key", of |-> k, status |-> NONE]
Receipt(r)      == [kind |-> "receipt", of |-> r, status |-> NONE]

(* The payload check that precedes a decode *)
Decodable(s) == s.brcode # NONE /\ BankQR[s.brcode].wellFormed

(* BRCodePreviewService._enrich_state: one decode sets all payment fields *)
Decoded(s, q) ==
    [s EXCEPT
       !.withdraw_beneficiary = q,
       !.withdraw_end_to_end_id = q,
       !.withdraw_qr_code = q,
       !.withdraw_init_type = BankQR[q].initType,
       !.withdraw_reconciliation_id =
           IF BankQR[q].hasReconciliationId THEN q ELSE NONE,
       !.withdraw_key_id = IF BankQR[q].hasKeyId THEN q ELSE NONE,
       !.withdraw_amount_type = BankQR[q].amountType,
       !.withdraw_amount = BankQR[q].amount]

Preview(q, status) == [kind |-> "preview", of |-> q, status |-> status]

(* Slip: an end-to-end id that the thread already has is kept *)
PreviewedKeepingId(s, q, status) ==
    [Decoded(s, q) EXCEPT
       !.action_success = TRUE,
       !.action_data = Preview(q, status),
       !.withdraw_end_to_end_id =
           IF s.withdraw_end_to_end_id = NONE THEN @ ELSE s.withdraw_end_to_end_id]

(* What a successful preview returns to its caller *)
Previewed(s, q, status) ==
    [Decoded(s, q) EXCEPT !.action_success = TRUE,
                          !.action_data = Preview(q, status)]

(* PixPaymentService._is_continuation *)
IsContinuation(s) == s.withdraw_end_to_end_id # NONE /\ Truthy(s.withdraw_amount)

(* PixWithdrawService._enrich_state: the lookup is needed, and its effect *)
NeedsLookup(w) == /\ w.withdraw_init_type = "DICT"
                  /\ w.pix_key # NONE
                  /\ w.withdraw_beneficiary = NONE

LookedUp(w, k) == [w EXCEPT !.withdraw_beneficiary = k,
                            !.withdraw_end_to_end_id = k]

(* PixWithdrawService._validate.  An amount is as it is written: one with a *)
(* third decimal place, be it a zero, is a number that is no multiple of 10 *)
ValidAmount(a) == a # NONE /\ a > 0 /\ a % 10 = 0

HasPixKey(source) == source \in Keys \/ BankQR[source].hasPixKey

ValidTransfer(w) ==
    /\ ValidAmount(w.withdraw_amount)
    /\ w.withdraw_beneficiary # NONE
    /\ \/ w.withdraw_init_type = "MANUAL"
       \/ /\ w.withdraw_init_type = "DICT"
          /\ w.withdraw_end_to_end_id # NONE
          /\ HasPixKey(w.withdraw_beneficiary)
       \/ /\ w.withdraw_init_type \in QRInitTypes
          /\ w.withdraw_end_to_end_id # NONE
          /\ w.withdraw_qr_code # NONE
          /\ w.withdraw_reconciliation_id # NONE
          /\ w.withdraw_key_id # NONE

(* PixWithdrawService._build_payload: the QR fields go with QR init types *)
Payload(w) ==
    LET ForQR(field) ==
            IF w.withdraw_init_type \in QRInitTypes THEN field ELSE NONE
    IN  [beneficiary |-> w.withdraw_beneficiary,
         amount |-> w.withdraw_amount,
         initType |-> w.withdraw_init_type,
         endToEndId |-> w.withdraw_end_to_end_id,
         qrCode |-> ForQR(w.withdraw_qr_code),
         reconciliationId |-> ForQR(w.withdraw_reconciliation_id),
         keyId |-> ForQR(w.withdraw_key_id)]

Payloads == [beneficiary: Optional(Sources), amount: Optional(Amounts),
             initType: Optional(InitTypes), endToEndId: Optional(Sources),
             qrCode: Optional(QRs), reconciliationId: Optional(QRs),
             keyId: Optional(QRs)]

-----------------------------------------------------------------------------
(* ResponseService._resolve_scenario: the command and how it ended *)
Outcome(s) ==
    CASE s.command = "unknown"                -> "unknown"
      [] s.command = "brcode_ambiguous"       -> "success"
      [] /\ s.command = "pix_payment"
         /\ s.awaiting_amount                 -> "awaiting"
      [] /\ s.command = "pix_payment"
         /\ ~s.awaiting_amount
         /\ s.brcode_status \in Unpayable     -> "blocked"
      [] OTHER -> IF s.action_success THEN "success" ELSE "error"

AnswerKinds == {"none", "scenario", "refused", "apology", "error500"}
Outcomes    == {"unknown", "success", "error", "awaiting", "blocked"}
Answers     == [kind: AnswerKinds, command: Optional(Intents),
                outcome: Optional(Outcomes), data: ActionData]

Answer(kind)    == [kind |-> kind, command |-> NONE, outcome |-> NONE, data |-> NoData]
NoAnswer        == Answer("none")
ScenarioOf(s)   == [kind |-> "scenario", command |-> s.command,
                    outcome |-> Outcome(s), data |-> s.action_data]
=============================================================================
