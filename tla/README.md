# A TLA+ model of the PIX assistant

The repository is a FastAPI service with which users manage PIX, the Brazilian
instant payment system, in conversation: `POST /chat` runs a LangGraph graph
whose nodes ask an LLM what the user wants, call the banking API and have the
LLM word the answer. These modules model what that code does with money, with the
state of a conversation, with the bank's access token, with the life of the
server process and with what telemetry records of all that; TLC checks small
instances, TLAPS proves the main invariants for every value of the constants.

Paths below are relative to the repository (`src/...` is its source directory).

## 1. The system

| Component | State it keeps | Operations | Works with |
|---|---|---|---|
| Chat endpoint (`src/chat/router.py`, `src/main.py`) | none; a request is a coroutine | `POST /chat`, HTTP 500 on any exception | invokes the graph on the `thread-id` of the request |
| Conversation graph (`src/graph`) | `GraphState`, one per thread, in PostgreSQL checkpoints | 10 nodes, 3 conditional edges | every service; checkpoints after each node |
| Guardrail (`guardrail_service.py`) | none | heuristics, then the safeguard model's score | LLM |
| Intent classification (`intent_service.py`, `identify_intent.py`) | none | classify, resolve a pending amount | LLM; writes `command` and the fields it extracts |
| PIX keys (`pix_key_service.py`) | none | list, read | bank, with the fallback account |
| BRCode preview (`brcode_preview_service.py`) | none | validate, decode | bank; writes the `withdraw_*` fields |
| PIX payment (`pix_payment_service.py`) | none | continue, decode, check status, settle the amount, pay | preview and withdrawal services |
| PIX withdrawal (`pix_withdraw_service.py`) | none | look a key up, validate, build, transfer | bank, with the fallback account |
| Answers (`response_service.py`) | none | pick the scenario, have it worded | LLM |
| Banking client and authentication (`infrastructure/banking`) | `token` and its date, per request | `login`, `get_valid_token`, the HTTP calls | bank; Redis |
| Redis cache (`cache_service.py`) | `banking:access_token` with a ttl | get, set | shared by every request |
| LLM service (`llm_service.py`) | none | a structured call, the count of its tokens | LLM; the classifier and the answers |
| Server process (`src/main.py`) | the app, its checkpointer with ONE connection | boot, lifespan, stop | telemetry, PostgreSQL, every request |
| Health check (`health_check.py`) | none | ping Redis, `SELECT 1` on the checkpointer's connection | Redis, PostgreSQL |
| Telemetry (`core/observability`) | `_state` (providers, instrumentors), the cache of instruments, handlers of the root logger | set up, shut down, spans, points | around everything; never decides |
| Masking, logging middleware, configuration | none; the settings | rewrite, log and pass on, read the environment | around everything |

What is hard here. A conversation spans many requests, and the fields that one
request leaves in the state (a decoded QR Code, a pending amount, a status, a
result flag) are read by later ones that mean something else. Two requests of
one thread run on snapshots of the same state and overwrite each other's
checkpoints. The process can die, or the database refuse a checkpoint, between
a transfer and the record of it. The bank can execute a transfer whose answer
is lost. A transfer is tried again on a second account. The access token is
shared through a cache that answers late, loses keys and fails, with a ttl that
is counted from another instant than the token's own life. Telemetry is set up
in stages that can fail one by one, and finds its instruments by the address of
an object that may be gone. The process serves every checkpoint over one
connection that nobody opens again.

What makes each part correct: money moves at most once per request, to a payee
named in this conversation, with fields that belong together; what the user is
told agrees with what the bank confirmed, and the thread remembers what its user
was told; every step of a request leaves less work before it, and every request
ends; a caller of
`get_valid_token` gets a token the bank issued and that is not stale by more
than the delays of the system, after a bounded number of logins. For the process:
no request is served before it is wired; a 200 from `/health` is not older than
the request, nor is a 503. For telemetry: what exports can be stopped, what is
counted arrives at a provider that was set up with an empty cache, and what it counts
of money, decisions and tokens is what happened.

## 2. Modules

| Module | What it holds |
|---|---|
| `PixState` | the graph state and the pure decisions of the services on it: state updates, routing, validity of a transfer, payload, scenario |
| `PixGraph` (extends it) | the requests: one action per node or per stretch between two awaits, checkpoints, crashes, the bank |
| `PixProperties` (extends it) | what the graph must guarantee, and what the documents say of it |
| `PixOrders` | the abstract specification: conversations, orders, payments and reports, without graph, state or checkpoints |
| `PixRefinement` (extends `PixProperties`) | the refinement mapping under which `PixGraph` implements `PixOrders` |
| `AmountText` (extends `PixState`) | the amount that `identify_intent.py` reads in a text, as a function on sequences of characters |
| `AmountText_proofs` | what `AmountText` reads in a text with an amount in it |
| `PixObserved` (extends `PixProperties`) | the graph composed with telemetry: the span of each node, the points it records |
| `MCPixGraph`, `MCPixObserved` | QR Codes, messages and symmetry for TLC |
| `PixGraph_proofs` | theorems about `PixGraph`: types, debits, coherent payloads |
| `PixTurns_proofs` (extends it) | theorems about the turns of a conversation: who is paid, what is told of it and remembered, that requests get on |
| `PixAmount_proofs` (extends it) | theorems about how much is paid; first turns of a conversation |
| `PixRefinement_proofs` | the theorem that `PixGraph` implements `PixOrders` |
| `PixObserved_proofs` | theorems about what telemetry counts of the graph, and that it only watches |
| `BankingAuth` | the token over time: `get_valid_token`, `login`, the cache, the event loop; its properties |
| `BankTokens` | the abstract specification of it: tokens in circulation, calls, logins, grants; `BankingAuth` implements it |
| `MCBankingAuth` | symmetry for TLC |
| `BankingAuth_proofs` | theorems about `BankingAuth`: calls, dates of tokens, the implementation of `BankTokens` |
| `Telemetry` | the set-up, shutdown and instrument cache of `core/observability`, with every way they can stop half-way |
| `Service` (extends it) | the life of the process: boot, lifespan, requests to `/health` and `/chat`, stop, crash, restart; Redis, PostgreSQL and the connection |
| `Availability` | the abstract specification of it: a life of the process, the services that are up, questions and answers; `Service` implements it |
| `MCService` | three environments for TLC |
| `Service_proofs` | theorems about `Service`, the implementation of `Availability` included |

Operators whose comment begins with "Slip" are wrong on purpose: each is a
definition as a plausible mistake in the code would have it, and shows that a
property notices. No specification uses them.

### PixGraph and the code

`Receive` is the router handing a message to `graph.ainvoke`: LangGraph loads
the thread's latest checkpoint into `st[r]`. The node a request is at is
`pc[r]`; a node that calls the bank more than once has a step per call:

| Source | Steps |
|---|---|
| `guardrail_node`, `GuardrailService.check` | `GuardrailBlocks`, `GuardrailPasses`, `GuardrailFails`, `BlockedResponse` |
| `identify_intent`, `IntentService.classify`, `route_intent` | `ResolveAmount`, `Classify`, `ClassifyFails` |
| `list_keys_node`, `read_key_node`, `PixKeyService` | `ListKeys`, `ReadKey` |
| `brcode_preview_node`, `BRCodePreviewService` | `BRCodePreview` |
| `pix_payment_node`, `PixPaymentService` | `PaymentContinues`, `PaymentStarts`, `PaymentPreview`, `RefuseUnpayable`, `PayFixed`, `PayCustom`, `AskAmount`, `UnknownAmountType` |
| `pix_withdraw_node`, `PixWithdrawService` | `PixWithdraw`, `Enrich`, `Lookup`, `Validate`, `Transfer` |
| `fallback_node`, `ResponseService` | `Fallback`, `ChatResponse` |
| router, LangGraph's checkpointer | `Reply`, `SaveCheckpoint`, `SaveFails` |
| the world | `Crash`, `QRStatusChanges`, and `MayDebit` for what the bank executes |

`NodeReturns` is what LangGraph does after a node: merge its update, schedule a
checkpoint, follow the edge. `work[r]` is the dictionary that
`PixPaymentService` builds with `{**state, **preview}` and hands to
`PixWithdrawService`: it is not the graph's state, and a payment returns only
the fields of its result, which is why `TransferReturns` updates `st[r]`.
`transfers[r]` is a record of the `POST .../transfer` calls, with the payload,
the reply and whether the bank executed it; no action reads it.

### BankingAuth and the code

`get_valid_token` awaits the cache (`ReadCache`), returns what it found
(`CacheHit`), or what the instance holds and has not dated as expired
(`MemoryHit`), or logs in (`Login`, `BankIssues`, `LoginReturns`) and awaits the
`SET` (`StoreToken`, `LoggedIn`). `LoginFails`, `LoginUndated` (a null
`expiresIn` makes the addition raise after `self.token` was set) and
`StoreFails` end in `Retry`, the `except` clause. `ReadFails` is outside the
`try`, as in the code. The `POST` is synchronous: while it lasts no other
coroutine runs, which `LoopFree` says; Redis itself, and time, do go on. A token
is represented by the instant at which it expires at the bank, `LIFETIME` after its
issue; `EXPIRES_IN` is what the code takes for that: the `expiresIn` of the answer, or
3600 seconds if the answer has none, which may be more. `NewInstance` is
the next chat request in a slot: `GraphProcessor` builds a client of its own.

### BankTokens

What a bank call may expect of `get_valid_token`, without Redis, loop and retries.
A client asks (`Begin`), posts logins, `MAX_RETRIES + 1` at most (`Post`), and is
granted a token in circulation that is not older than the bound (`Grant`), or is
refused, because the cache cannot be read or after exactly that many logins
(`Refuse`). Tokens come into circulation from the bank only (`Issue`) and may get
lost at any step. The mapping of `BankingAuth` gathers as `Circulating` what the cache,
the clients, their answers and the pending `SET`s hold; a call asks while its step
is inside `get_valid_token`; what it was granted is the token it ended with. Reads
of the cache, retries and the `SET` of Redis are stuttering steps or lose tokens.

### PixOrders and PixRefinement

`PixOrders` knows requests, what they say and one payment each. `Pay` sends it,
or sends it once more if the bank refused it; payee and amount were named in the
conversation, or the amount is the payee's price; only an open request pays, and
`Answer` closes it with a report that is true of the payment. The mapping reads a
phase off `pc`, the payment off `transfers`, the report off `answer`; every node,
checkpoint and lookup is a stuttering step, and a crash is `Lose`.

### PixObserved and the code

`domain_span` wraps each node but `blockedResponse` and `fallback`. Its span is
open while the request is at the node (`SpanAfter`), and when the node is left
`Recorded` appends, in the order of the code, the tokens that the LLM services
count if the provider reports them, the guardrail's decision, and the points of
`record_span_metrics`, whose result is "error" only if an exception leaves the
node (`Raises`). `ObservedNext` is each step of `PixGraph` with what telemetry
sees of it. Points that the code gives no result have "ok" here.

### Telemetry, Service and the code

A provider is its signal and the number of the set-up that built it. `SetUpRaises`
is a `setup` whose provider x cannot be built: those before x are held and at
work, `enabled` is still false. `ShutDownRaises` is a `shutdown` in which the
provider of x raises, after it stopped or without: the ones before x are stopped,
`_state` is as it was. `Instrument` and `Uninstrument` may fail for any of the libraries.

`Measure` is `_instruments()` with `get_meter`: the meter of the held provider if that
still exports (`HeldMeter`), or one that exports nothing (`SilentMeter`). The cache is
keyed by the meter's address and does not keep the meter alive. The held provider keeps
its meter until it is dropped itself; the API keeps, for the life of the process, the first
provider it was given (`global`) and every proxy it handed out before (`pinned` are the
addresses that are never free again); the no-op meter of a stopped provider is gone at
once. Any other address can be any later meter's. `setup` and `shutdown` leave the cache
alone: `Reset` is an action of its own, and `fresh` records whether the cache was empty when
the held meter provider was set up; only a property reads it.

`Service` composes this with the process. `Start`, `SetUpTelemetry`, `WireApp` and
`EnterLifespan` are `initialize_application` and `lifespan` in their order, each of
which may fail (`FailToStart`). `Ping`, `Select` and `Report` are the stretches of
`health_check` between its awaits, while Redis, PostgreSQL and the connection fail
and recover. `ChatSaves` and `ChatAnswers` are `POST /chat` as far
as it needs the connection, up to its last checkpoint: `PixGraph` has the rest.
`TearDown`, `SetUpAgain`, `DropInstruments` and `RecordPoint` are what the tests do with
the public API in their process, in any order. One discipline of theirs is stated
(`Clean`): telemetry is set up only while `_state` holds no provider, for `main.py` calls it
once and every test shuts it down first. Without it `NoOrphanExporter` fails: two set-ups
in a row, the first of which raised, leave an exporter nobody holds. That the instruments
are reset is not assumed, since some callers do it (`in_memory_metrics`) and some do not
(`in_memory_spans`, `test_observability_setup.py`, `test_io_instrumentation.py`). Hence
what `domain_metrics.py:5` says of its instruments, that they are "cached per
meter-provider", is not what the code does: after a shutdown, a point recorded with no
exporter at work, and another set-up, the new meter can have the address of the no-op
meter of that point, finds its instruments in the cache, and counts nothing. (Without the
conjunct `fresh`, TLC finds this behaviour as a counterexample to `CleanSetUpCounts`.)
And with metrics off each point leaves an entry of its own, for the API hands out another
proxy each time. `CleanSetUpCounts` is what remains true: it says how far a caller
can rely on the cache, which the server, setting up once and with an empty one, does.

`seen` records, while a request is in progress, in which conditions Redis and the
connection were; the properties read it, no action does.

### Availability

What a probe or a user may conclude from an answer, without boot, telemetry and the
stages of a health check. A life of the process begins with all that it holds (`Boot`:
the connection of the checkpointer), may lose it and does not get it back in that life
(`Change`), takes requests until it closes, and ends in order or not (`Die`). A 200
says that each service it vouches for was up at some moment of the request, a 503 that
one was down, and a 500 is for `/chat` only. The mapping reads the life off `phase`, what
is up off Redis and the connection, what was observed off `seen`. The stages of the boot and
of a probe, and all that telemetry does, are stuttering steps.

### Abstractions

- QR Codes, keys and amounts are opaque. What the bank returned for a QR Code or
  a key (beneficiary, end-to-end id, reconciliation id...) is represented by that
  QR Code or key, which lets a property say that two fields belong together.
  Amounts are tenths of a cent, so that a third decimal place exists. The code refuses
  one that is written, even as a zero (a `Decimal` "80.000"): such an amount is to be
  represented by a number that is no multiple of 10, as `Frac` of `MCPixGraph` is.
- What an LLM says is a choice: a message is given as what the classifier would
  extract from it; the classifier can also fail; the safeguard's score is any of
  `Scores`. `numeral` is what the amount pattern of `identify_intent` finds in
  the text, whatever that number stands for; `NumeralsAssumption` of `MCPixGraph`
  has TLC compute the numerals of the instance with `AmountText`.
- A bank reply is its HTTP status; 0 is no usable answer (a lost connection, a
  body that cannot be parsed). `Accepted` is what `raise_for_status` lets through, any
  status but 4xx and 5xx: it means executed, 4xx not executed, anything else may be
  either.
- Left out because no decision reads them: message history, wording of errors,
  `action_error`, nominal amount, additional info. The decoded beneficiary is
  assumed complete for the `MANUAL` init type.
- LangGraph's default durability writes checkpoints while the next node runs;
  writes of one request are in order, so only the latest pending one is kept.
  A failing load of a checkpoint is a request not received.
- Redis is configured, as it is in the served application (`src/main.py`). The
  graph built at import time in `src/graph/factory.py`, without cache or
  checkpointer, is not modelled. `PixGraph` takes the token for granted: a call
  whose token cannot be obtained is a reply of 0 there (for a transfer, one
  that was not executed).
- Durations, attribute values and the export of a batch are left out of
  `PixObserved`; what a crash takes with it is only the points of the open span.
- A decode of a malformed BRCode never reaches the bank, so such a QR Code has no
  changing status.
- `LIFETIME` and `EXPIRES_IN` are positive (`LifetimeAssumption`): a ttl of 0 would be stored
  without expiry by `cache_service.set`.

## 3. What TLC checks

| Run | Instance | What it shows |
|---|---|---|
| `graph_turns` | 2 requests one after the other, 1 thread, a fixed QR Code and one of an unknown amount type, 7 messages of every kind of operation, replies 0/200/402 | `CoherentPayload`, `SuccessIsReal`, `FailureIsReal`: across turns, lost checkpoints and crashes a payload never joins two answers of the bank, a success told is a transfer confirmed in this request, an error told is not. `ImplementsOrders`: every step is one of `PixOrders` |
| `graph_pair` | 2 requests at once, or one after the other, on 1 or 2 threads, a custom QR Code read, ordered and given its amount, with an injection | `PayeeNamedOnThread`, `AmountNamedOnThread`, `ImplementsOrders`: no interleaving of checkpoints pays someone, or an amount, that the conversation did not name; `FirstOrderIsFollowed`: nothing of another conversation reaches a first turn; `FirstAnswerIsRemembered`: the checkpoint that a first turn leaves is the state its answer tells |
| `observed_menu` | 1 request, every intent, 4 kinds of QR Code (custom, static with an amount, unknown amount type, malformed), amounts 0 and with a third decimal place; one status of each class the code distinguishes; spans and points | `TypeOK`, `ObservedTypeOK`, `AtMostOneDebit`, `FallbackOnlyAfterRefusal`; `FirstOrderIsFollowed`, `FirstPaymentIsReported`: the documents' promises, which the runs below refute for later turns, hold of a first one; `MoneyIsCountedOnce`, `DecisionIsCounted`, `NoTokensForInjections`: what telemetry counts is what happened; `ReadsDocumentedAmounts` on 16 amounts in every documented format among words and punctuation; `RequestsGetOn`: each step leaves less work; and, under fairness, `EveryRequestEnds` |
| `auth_shared` | 2 clients, waits of 1, a token that lives for 3 units and is taken to live for 4, 9 units of time | `ServedTokenIsIssued`; `StaleByDelaysOnly`: a token handed out is past its date by five waits at most, and by what its lifetime was taken too long |
| `auth_retries` | 2 clients, the code's 3 retries, fair scheduling | `TypeOK`, `NoLoginOverAGoodToken`, `GivesUpAfterAllRetries`, `ImplementsTokens`: every step is one of `BankTokens`; `CallsGetOn`: each step leaves fewer before it; and, under fairness, `EveryCallEnds` |
| `service_life` | 1 client, 3 environments (off, all on, traces only), 2 set-ups per process, 2 addresses | `TypeOK`, `ServesWhenWired`, `NoOrphanExporter`; `CleanSetUpCounts`: a meter provider that was set up with an empty cache gets what is counted until it is shut down, whatever was set up, recorded and stopped before; `OkIsCurrent`, `OutageIsCurrent`: good news and bad are true of the time of the request; `ImplementsAvailability`: every step is one of `Availability`; and, under fairness, `EveryRequestIsAnswered` |

Six more runs show that the code does not do what its documents say; each
finds a counterexample, and `PROJECT.json` quotes the document:

- `graph_stale_qr`: a QR Code is consulted, then another is ordered to be paid.
  `_is_continuation` sees an end-to-end id and an amount and pays the first one.
- `graph_stale_key`: a QR Code is decoded, then a transfer to a key is ordered.
  `_enrich_state` sees a beneficiary, skips the lookup and pays the QR Code's
  payee.
- `graph_consult_pays`: an amount is awaited and the user asks to read a CPF
  key. The digits are taken for the amount and the QR Code is paid.
- `graph_refused_paid`: a QR Code is refused as PAID or EXPIRED, its fields stay,
  and the next order pays it as a continuation, without a status check.
- `graph_paid_told`: `brcode_status` or `awaiting_amount` of an earlier turn
  makes the answer to an executed payment "blocked" or "amount needed".
- `observed_failures`: the bank answers 500 to a transfer, the service returns the
  failure as a state, and the span of the node closes as ok.

### Bounds and why they are enough

- *Requests.* The hazards across turns need one request that leaves something
  behind and one that finds it: two requests on a thread. Those between
  conversations need two at once, on two threads or one. `MaxActive` is 1 where
  the question is about turns, 2 where it is about interleavings.
- *Messages.* Each instance has the messages that write or read the state the
  question is about: an order and a consultation of each QR Code, an amount, a
  key, a transfer with and without a key. `observed_menu` has one of every kind.
- *Replies.* 402 and 422 are treated alike by both services, 404 by one; what is accepted,
  500 and 0 differ in what they tell of the debit. `observed_menu` has one of each of
  these classes, with 201 for what is accepted, `graph_turns` one of each that the
  transfer distinguishes.
- *Scores.* One on each side of the threshold, the threshold itself included.
- *Time.* `MaxNow` is two of the lifetimes that the code takes for one, and one unit: a
  token can be issued, cached late, expire, be kept under another token's date and be
  replaced, and a token of the first instants could be handed out as late as the bound
  allows. The bound, `5 * MaxDelay + Overrun`, is exact: with one unit less this instance
  violates it. The worst case needs an `EXPIRES_IN` of 4 waits (a retry then reads an older
  token that is still cached), which is why it is 4 here, and `LIFETIME` is 3 so that
  `Overrun` is not zero.
- *Retries.* 3, the code's, in `auth_retries`; 1 in `auth_shared`, since what
  matters there is that a call comes back after a failure, not how often.
- *Telemetry.* Two set-ups: one at boot and one after a shutdown, either of which may
  raise if the tests make it; two addresses, so that a meter can get that of a dead one,
  or one of them be kept for good; when both are, no other meter is asked for. No
  library is instrumented in the run, since no property but a type reads which are; the
  theorems have any. One client: requests to
  `/health` share nothing but what the environment does to the dependencies at any
  moment.
- Sequences, statuses and counters have no other bound: the graph has no cycle,
  so the calls of a request are bounded by the code.

### Fairness

`EveryRequestEnds` assumes `WF` of the steps of each request: asyncio resumes a
coroutine whose await completed, and LangGraph starts the next node of a run
that is not over. That the bank, the LLM and the database answer or fail at last
is an assumption: the code sets no timeout on its HTTP calls. The refusal of a
checkpoint, a crash and a user's next message are not fair.

`EveryRequestIsAnswered` assumes `WF` of the handling of each request, for the same
reason; a probe of a connection that is lost fails, it does not wait. Boot, stop,
failures and recoveries are not fair: the run does not claim that a service comes
back.

`EveryCallEnds` assumes `SF` of the steps of each client: its steps are disabled
whenever another coroutine holds the loop in a synchronous POST, and the ready
queue of asyncio is first in, first out, so a client that is ready again and
again does get its turn. Time and the loss of the cache key are not fair.

Deadlock is checked everywhere. `Quiescent` of `PixGraph` is the only stuttering
step, enabled when every request is over.

## 4. What is proved

The eight proof modules are checked by `tlapm` with no gaps. Those about the graph
hold for any sets of requests, threads, QR Codes, keys, amounts and messages, any
settings, scores and replies; those about the token for any number of clients and
retries, any lifetimes and any bounds; those about the process for any number of
clients, libraries, addresses and set-ups and any environments. They use the
assumptions named in `PixState`, `PixGraph`, `PixObserved`, `BankingAuth`,
`Telemetry` and `Service` only: amounts are integers, `BankQR` and `Messages` are of their kind,
`NONE` is neither an amount, a QR Code, a key, a status nor a span, replies are naturals, settings
are Booleans; retries and bounds are naturals, the lifetime and what it is taken for positive; a
process can set telemetry up at least once, and `NONE` and `NOOP` are no numbers.

| Theorem | What it says |
|---|---|
| `TypeCorrectness` | `Spec => []TypeOK` of the graph |
| `OneDebitPerRequest` | `Spec => []AtMostOneDebit`: however many requests run, however the bank answers, one request moves money once at most |
| `FallbackIsAReplacement` | `Spec => []FallbackOnlyAfterRefusal`: the second attempt follows a 402 or 422, carries the same payload, and is the last |
| `PayloadsAreCoherent` | `Spec => []CoherentPayload`: over any number of turns, threads, crashes and lost checkpoints the fields of a transfer belong together |
| `SuccessesAreReal`, `FailuresAreReal` | `Spec => []SuccessIsReal`, `Spec => []FailureIsReal`: what is told agrees with what the bank confirmed in this request |
| `PayeesAreNamed` | `Spec => []PayeeNamedOnThread`: every payee was named by an allowed message of the conversation |
| `AmountsAreNamed` | `Spec => []AmountNamedOnThread`: every amount was given in the conversation or is the payee's price |
| `GraphImplementsOrders` | `Spec => ImplementsOrders`: the graph implements `PixOrders` |
| `FirstOrdersAreFollowed` | `Spec => []FirstOrderIsFollowed`: the first message of a conversation moves money only if it orders that, to the payee and of the amount that it orders |
| `FirstPaymentsAreReported` | `Spec => []FirstPaymentIsReported`: and what the bank confirmed of it is told as a success |
| `FirstAnswersAreRemembered` | `Spec => []FirstAnswerIsRemembered`: what a conversation was first told is what its next turn begins with |
| `RequestsAlwaysGetOn` | `Spec => RequestsGetOn`: each step of a request leaves less work before it, 47 at most to begin with, and a request that is over stays as it is |
| `AmountsAreReadAsWritten` | an amount up to 999,99, in any documented format and among any of the words, is read as it is written |
| `AmountsAreRead` | `ObservedSpec => []ReadsDocumentedAmounts`, an instance of it |
| `TelemetryOnlyWatches` | `ObservedSpec => Spec`: every theorem about the graph is one about the observed graph |
| `ObservedTypes`, `DecisionsAreCounted` | `ObservedSpec => []ObservedTypeOK`, `ObservedSpec => []DecisionIsCounted` |
| `InjectionsSpendNoTokens` | `ObservedSpec => []NoTokensForInjections`: no LLM is asked about a message that a heuristic matched |
| `MoneyIsObserved` | `ObservedSpec => []MoneyIsCountedOnce`: what moves money is in its span or counted once |
| `AuthTypeCorrectness` | `Spec => []TypeOK` of the token, the argument of `get_valid_token` included |
| `ServedTokensAreIssued` | `Spec => []ServedTokenIsIssued`: None is never handed out |
| `NoLoginOverGoodTokens`, `CallsGiveUpInTime` | the action properties `NoLoginOverAGoodToken` and `GivesUpAfterAllRetries` |
| `TokensAreStaleByDelaysOnly` | the action property `StaleByDelaysOnly`: a token handed out is past its date by five waits at most, and by what its lifetime was taken too long |
| `EveryStepGetsOn` | `Spec => CallsGetOn`: each step of `get_valid_token` ends the call or leaves fewer steps before it |
| `AuthImplementsTokens` | `Spec => ImplementsTokens`: `BankingAuth` implements `BankTokens` |
| `ServiceTypes` | `Spec => []TypeOK` of the process and its telemetry |
| `AnswersAreCurrent` | `Spec => []OkIsCurrent`: a 200 vouches only for what was up since the request came |
| `OutagesAreCurrent` | `Spec => []OutageIsCurrent`: a 503 names something that was down since the request came |
| `ServiceImplementsAvailability` | `Spec => ImplementsAvailability`: `Service` implements `Availability` |
| `ExportersAreHeld` | `Spec => []NoOrphanExporter`: whatever set-ups and shutdowns raise, an exporter at work is held |
| `CleanSetUpsCount` | `Spec => []CleanSetUpCounts`: what is counted reaches a provider that was set up with an empty cache, whichever addresses its meter and earlier ones had |
| `ServiceIsWired` | `Spec => []ServesWhenWired` |

The arguments.

- *Types* (`TypeInv`): `TypeOK` alone is not inductive. A decode is made for a
  QR Code that is well formed and present, which was checked a step before it:
  `PreviewDecodable` carries that fact to the step that uses it. The lemmas
  `...Type` state that each update of a service gives a graph state again; the
  step lemma has one case per action.
- *Debits* (`TransferInv`): what a request has sent is determined by the step it
  is at and by the account of its next call. It has sent nothing before the
  transfer step; at that step either nothing (primary account next) or one
  refused attempt with the payload it is about to repeat (fallback next); later,
  one attempt, or two of which the first was refused. A refusal with 402 or 422
  did not move money (`MayDebit`), so at most the last attempt did.
  `MovesOn` and `FallbackStays` say that other steps keep the relation.
- *Coherence* (`CoherenceInv`): every snapshot and every checkpoint is `OfOneQR`,
  its payment fields stem from one decode or are all empty, and the dictionary of
  a withdrawal is `OfOneSource`, where a lookup, made for the init type DICT only,
  may have replaced the beneficiary together with the end-to-end id. It holds
  because the lookup writes to the dictionary and never to the graph's state,
  because a decode writes all the fields in one update, and because checkpoints
  are snapshots of whole states. `Validate` then excludes the incomplete cases,
  and the payload takes the QR fields for QR init types only.

- *Reports* (`ReportInv`): `SuccessIsReal` speaks of an answer, but was decided
  nodes before. The strengthening ties each node to the commands it is routed for
  (a query or the fallback node never runs for a payment), says of the state that
  `chatResponse` tells from that its flag agrees with the transfers (`Reports`:
  succeeded with its receipt and a 200, or failed without one, or waiting for an
  amount), and that nothing is told earlier. That no 200 precedes the transfer
  step comes from `TransferInv`.
- *Payees* (`NamesInv`): every QR Code, key and payee that a state, a checkpoint,
  a withdrawal's dictionary or a transfer refers to is `Named` by a message of the
  thread that passed the guardrail. A step refers to nothing new, except that the
  classification adds what its own message says (`StepRefs`); a message that
  passed stays so (`StepAdvances`), hence `Named` only grows (`NamedGrows`). That
  a transfer has a payee at all comes from `CoherentPayload`.
- *Amounts* (`AmountInv`): the amount of a state comes with the beneficiary of the
  state, from one decode, or was given by a message of the thread that passed. Two
  steps could separate amount and beneficiary: a lookup replaces the beneficiary,
  but is reached only without one, and a CUSTOM QR Code takes the amount of the
  state before the decode, which is not another QR Code's, since that payment would
  have been a continuation.
- *First turns* (`FirstInv`): the findings all need something that an earlier turn left
  behind; without it the code does what its documents say. A thread on which nothing
  was received has the empty checkpoint, since a checkpoint is written by a request of
  that thread only; hence a request alone on its thread starts `Untouched`, its
  classification makes of that an order to pay or to transfer and nothing else, no
  continuation and no pending amount can intervene, and the dictionary of the
  withdrawal has the payee and the amount of this order, up to the transfer. The
  invariant says so for each node; that nobody becomes alone again makes it inductive.
- *What is remembered* (`RecallInv`): a checkpoint is written late, can be refused and
  can be overwritten by another request of the thread. While a request is alone on its
  thread nobody else writes its checkpoint, for whoever is not alone any more stays so
  (`StepRecalls`, `RecallOthers`); hence the latest checkpoint is its own state, or is
  still owed, or it was answered with an HTTP 500. `Tells` ties the answer to the state it
  is drawn from, and `Reply` waits for the checkpoint that is owed.
- *Getting on* (`Goes`, `RestInv`): the provable half of `EveryRequestEnds`. `Goes` lists
  the ways in which a request moves, each of which leads down the order `Ahead` of the
  nodes, or stays at the transfer and uses up the one fallback account; a checkpoint that
  is written or refused takes away what the node added (`Remaining`). `RestInv` says that
  what is over owes no checkpoint, so that it does not move again. For `get_valid_token`
  the measure is the steps of an attempt times the retries that are left. What is left to
  TLC is that a step is enabled and taken.
- *Refinement*: initial states map to initial states; each action maps to `Open`,
  `Pay`, `Answer`, `Lose` or a stutter. `Transfer` is the one that maps to `Pay`;
  that its payee and amount are `Ordered` comes from the two invariants above, that
  it is `Payable` from `TransferInv`, that an answer is a `TrueReport` from
  `ReportInv`.
- *Telemetry of the graph* (`WatchInv`): the properties count points; what makes the
  counts right is where the request is. Its span is that of the node it is in, from
  the first step to the last (`SpanFits`); the decision is counted when the guardrail
  is left, the operation when its node is left for `chatResponse`, and a message that
  a heuristic matched is nowhere else than on its way to the refusal. `StepMoves`
  reduces the actions of the graph to the moves between nodes, `Closing` says which
  points the end of a span adds, and `QuietStep` and `LoudStep` are the two kinds of
  step.
- *Token* (`AuthInv`): what a call has done is a matter of the step it is at: its
  logins are its retries, plus one once it has posted; its result is pending; a
  stored token is one. A token that the call dated is covered by the instance's
  date, and a login is entered only when that date is over, so that a later login
  of the same call finds it over as well, even when an undated answer has
  overwritten the token in between.

- *Dates of tokens* (`DatesInv`): a token is the instant at which it expires. A wait
  takes `MaxDelay` at most (`WaitInv`), so an answer read from the bank is one wait
  old, a token sent to the cache or stored there two, Redis drops what it stored two
  waits past its date, and what is found is used within three (`HeldInv`,
  `CachedInv`). The worst case is a token found in the cache after the instance had
  dated another one: its own date says the token is good up to five waits late. A
  lifetime that was taken too long adds `Overrun` to each of these dates.
  `DatesStep` and its parts say what each step does to the four kinds of holder;
  `Quantities` has the arithmetic.
- *Implementation of BankTokens*: `CirculationStep` says that no step of a client puts a
  token into circulation but the answer of the bank, `InsideImplements` and
  `EndImplements` map the steps within a call and its ends; that a grant is in time
  comes from `ServedInTime`, that a refusal comes after all logins from `AuthInv`.

- *Process* (`RequestsInv`, `TelemetryInv`, `WiringInv`): `OkIsCurrent` speaks of
  answers; inductively, what a request in progress found up, and what is up now,
  was seen up since it came. For telemetry: nothing is set up before boot does it,
  every exporter is held, and (`CacheInv`) while a provider that found the cache empty
  is at work and its meter was not asked for yet, no other meter is asked for either, so
  that the cache stays empty and what is found under the meter's address was put there by
  itself.
  `TelemetrySteps` and `LifeSteps` reduce the actions to what they do to
  each part. `OutageIsCurrent` has the same form as `OkIsCurrent`: what a probe found
  down was seen down.
- *Implementation of Availability*: each action maps to the abstract step of its name
  or to a stutter; that an answer is `True` comes from the two invariants above, that
  what is held is there when a life begins from `EnterLifespan`, which opens the
  connection, and that it does not come back from `LoseConnection` being the only
  other step of a life that touches it.
- *Amounts in texts* (`ReadsDigits`): whatever stands before the leftmost run of digits,
  and however long the run is, `ExtractAmount` reads that run and the decimals behind it.
  In the texts of the property no digit stands before the amount and none continues it,
  so that the run is the amount's; its value, for three digits or fewer, follows from
  unfolding the recursive function that often. The value of longer numerals would need
  induction over data.

What stays with TLC: the three liveness properties `EveryRequestEnds`, `EveryCallEnds`
and `EveryRequestIsAnswered` (fairness and `ENABLED` are beyond the prover), and the
counterexamples. Every invariant and every action property of a passing run, and each
of the three implementations, is stated by a theorem.

## 5. What is not modelled, and why

- The LLM and the prompts: their results are inputs of the model; the choice of a
  provider and its parameters decides nothing else.
- URLs, headers, HMAC, JWT, CRC of a BRCode: computed and sent, never decided on,
  except the local BRCode check, which is one Boolean of a QR Code.
- Masking: a pure rewriting of strings, character by character; no state depends
  on it. The logging middleware is modelled as far as it passes requests on.
- Sampling, the protocol of the exporters and the correlation ids in log records:
  no decision reads them.
- OpenTelemetry's own global providers, which are set once per process, are modelled for
  metrics only (`global`). What instrumentations ask the API for is theirs.
- Configuration: reading and validating the environment. Its values are constants,
  and the `OTEL_*` toggles are chosen anew at every boot.
- Answers the LLM gives for a stale `action_data`: only that a success presents
  its own receipt is checked.
- A bank that never answers: nothing in the code ends the wait.

## 6. Plan

Done, in this order: the conversation graph with its proofs; the access token; the
abstract specification `PixOrders` with the refinement, checked and proved; the
parsing of amounts; telemetry over set-up, shutdown and the graph; the server
process with its health check; the bound on stale tokens and the abstract
specification `BankTokens`, both proved; first turns; the abstract specification
`Availability`, checked and proved; the measures by which requests and calls get on;
what a conversation remembers; the amounts that are read in texts. What would add most
now: the bank calls with their token, that is `build_headers` composed with
`BankingAuth`, a 401 for a token the bank revoked, and what stays in the cache then.
