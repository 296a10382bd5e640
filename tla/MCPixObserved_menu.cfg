SPECIFICATION ObservedSpec
CONSTANTS
  NONE = NONE
  QFixed = QFixed
  QCustom = QCustom
  QOpen = QOpen
  QOdd = QOdd
  QBroken = QBroken
  KMail = KMail
  KCpf = KCpf
  Amounts <- MCAmounts
  Keys <- MCKeys
  BankQR <- MCBankQR
  Requests = {r1}
  Threads = {t1}
  QRs = {QCustom, QOpen, QOdd, QBroken}
  Messages <- MenuMessages
  Replies = {0, 201, 402, 404, 500}
  Scores = {7, 8}
  GUARDRAIL_THRESHOLD = 7
  GUARDRAIL_ENABLED = TRUE
  HAS_FIN_ACCOUNT = TRUE
  HAS_FALLBACK = TRUE
  HAS_HASH_SECRET = TRUE
  MaxActive = 1
INVARIANTS
  ReadsDocumentedAmounts
  TypeOK
  ObservedTypeOK
  MoneyIsCountedOnce
  DecisionIsCounted
  NoTokensForInjections
  AtMostOneDebit
  FallbackOnlyAfterRefusal
  FirstOrderIsFollowed
  FirstPaymentIsReported
PROPERTIES
  RequestsGetOn
  EveryRequestEnds
