----------------------------- MODULE MCPixGraph -----------------------------
(* Instances of PixGraph for TLC: QR Codes, messages and symmetry *)
EXTENDS PixRefinement, AmountText, TLC

CONSTANTS QFixed, QCustom, QOpen, QOdd, QBroken, KMail, KCpf

R50    == 50000      \* R$ 50,00 in tenths of a cent
R80    == 80000
Frac   == 10005      \* R$ 10,005: a third decimal place
Cut    == 10000      \* what is read of it in a text
Digits == 990000     \* what is read of a text with a BRCode or a CPF

MCAmounts == {0, R50, R80, Frac, Cut, Digits}

(* The numerals of the messages below are what the amount pattern finds *)
ASSUME NumeralsAssumption ==
    /\ ExtractAmount(<< 5, 0, OTHER_CHAR >>) = R50               \* "50 reais"
    /\ ExtractAmount(<< OTHER_CHAR, 1, 0, COMMA, 0, 0, 5 >>) = Cut
    /\ ExtractAmount(<< OTHER_CHAR, 9, 9, 0 >>) = Digits
    /\ ExtractAmount(<< OTHER_CHAR >>) = NONE

Found(a) == CASE a = 0 -> NONE [] a = Frac -> Cut [] OTHER -> a

MCKeys    == {KMail, KCpf}

Fixed == [wellFormed |-> TRUE, initType |-> "DYNAMIC_QR_CODE",
          amountType |-> "FIXED", amount |-> R80, hasPixKey |-> TRUE,
          hasReconciliationId |-> TRUE, hasKeyId |-> TRUE]
Custom == [Fixed EXCEPT !.amountType = "CUSTOM", !.amount = NONE]
\* an amount to be confirmed, and no key id: a static code
Open   == [Custom EXCEPT !.initType = "STATIC_QR_CODE", !.amount = R80,
                         !.hasPixKey = FALSE, !.hasKeyId = FALSE]
Odd    == [Custom EXCEPT !.amountType = "other"]
Broken == [Fixed EXCEPT !.wellFormed = FALSE]

DataOf(q) == CASE q = QFixed  -> Fixed
               [] q = QCustom -> Custom
               [] q = QOpen   -> Open
               [] q = QOdd    -> Odd
               [] q = QBroken -> Broken

MCBankQR == [q \in QRs |-> DataOf(q)]

-----------------------------------------------------------------------------
Text(intent) == [intent |-> intent, pix_key |-> NONE, brcode |-> NONE,
                 amount |-> NONE, numeral |-> NONE, injection |-> FALSE]

Small     == Text("unknown")                          \* "ola"
Cash(a)   == [Text("unknown") EXCEPT !.numeral = Found(a)]
List      == Text("list_keys")
Read(k)   == [Text("read_key") EXCEPT !.pix_key = k,
                 !.numeral = IF k = KCpf THEN Digits ELSE NONE]
Send(k, a) == [Text("pix_withdraw") EXCEPT !.pix_key = k, !.amount = a,
                 !.numeral = Found(a)]
About(intent, q) == [Text(intent) EXCEPT !.brcode = q, !.numeral = Digits]
Pay(q)    == About("pix_payment", q)
PayWith(q, a) == [Pay(q) EXCEPT !.amount = a]
Consult(q) == About("brcode_preview", q)
Inject(k) == [Send(k, R50) EXCEPT !.injection = TRUE]

TurnMessages == {Pay(QCustom), Pay(QFixed), Consult(QFixed), Cash(R50),
                 Read(KCpf), Send(KMail, R50), Send(NONE, R50)}

\* operations of every kind one after the other: what each leaves to the next
MixedMessages == {Pay(QOdd), Pay(QFixed), Consult(QFixed), List, Read(KCpf),
                  Send(KMail, R50), Send(NONE, R50)}

\* every intent, every kind of QR Code, every amount
MenuMessages ==
    {Small, List, Read(KMail), Read(NONE), Send(KMail, R50), Send(KMail, Frac),
     Send(NONE, 0), About("brcode_ambiguous", QOpen), Text("other"), Inject(KMail),
     PayWith(QCustom, R50), PayWith(QCustom, 0), Text("pix_payment")}
    \cup {Pay(q) : q \in QRs} \cup {Consult(q) : q \in QRs}

\* two users at once: a QR Code read or ordered, its amount, transfers to a key,
\* one of them an injection
PairMessages == {Pay(QCustom), Consult(QCustom), Cash(R50), Send(KMail, R50),
                 Inject(KCpf)}

RequestSymmetry == Permutations(Requests)
UserSymmetry    == RequestSymmetry \cup Permutations(Threads)
=============================================================================
