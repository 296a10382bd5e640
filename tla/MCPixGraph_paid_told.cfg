SPECIFICATION Spec
CONSTANTS
  NONE = NONE
  QFixed = QFixed
  QCustom = QCustom
  QOpen = QOpen
  QOdd = QOdd
  QBroken = QBroken
  KMail = KMail
  KCpf = KCpf
  Amounts <- MCAmounts
  Keys <- MCKeys
  BankQR <- MCBankQR
  Requests = {r1, r2}
  Threads = {t1}
  QRs = {QFixed, QCustom}
  Messages <- TurnMessages
  Replies = {0, 200, 402}
  Scores = {7, 8}
  GUARDRAIL_THRESHOLD = 7
  GUARDRAIL_ENABLED = TRUE
  HAS_FIN_ACCOUNT = TRUE
  HAS_FALLBACK = TRUE
  HAS_HASH_SECRET = TRUE
  MaxActive = 1
INVARIANTS
  PaidIsReportedPaid
