---------------------------- MODULE Service_proofs ----------------------------
(***************************************************************************)
(* Proofs about the server process, for every number of clients, set-ups,  *)
(* libraries and addresses.                                                *)
(***************************************************************************)
EXTENDS Service, TLAPS

(***************************************************************************)
(* Requests: they are in progress only while the process serves, and what  *)
(* a request has found up, like all that is up now, was seen up since it   *)
(* came.  OkIsCurrent alone is not inductive.                              *)
(***************************************************************************)
RequestTypes ==
    /\ phase \in Phases
    /\ redis \in BOOLEAN /\ postgres \in BOOLEAN
    /\ connection \in {"none", "open", "lost"}
    /\ at \in [Clients -> Places]
    /\ kind \in [Clients -> Kinds]
    /\ services \in [Clients -> SUBSET Probed]
    /\ status \in [Clients -> {0, 200, 500, 503}]
    /\ seen \in [Clients -> SUBSET (Probed \X BOOLEAN)]

Vouched(c) == \A service \in Needed[kind[c]] : <<service, TRUE>> \in seen[c]
Outage(c)  == \E service \in Probed : <<service, FALSE>> \in seen[c]

Current(c) ==
    /\ status[c] = 200 => Vouched(c)
    /\ status[c] = 503 => Outage(c)

(* The services probed so far *)
Done(c) == IF at[c] = "select" THEN {"redis"}
           ELSE IF at[c] = "answer" THEN Probed ELSE {}

Seen(c) ==
    /\ Condition(redis, connection) \subseteq seen[c]
    /\ \A service \in services[c] : <<service, TRUE>> \in seen[c]
    /\ \A service \in Done(c) \ services[c] : <<service, FALSE>> \in seen[c]

RequestInv(c) ==
    /\ Served(c) => phase \in {"serving", "stopping"} /\ Seen(c)
    /\ at[c] \in {"ping", "select", "answer"} => kind[c] = "health"
    /\ at[c] \in {"graph", "saved"} => kind[c] = "chat"
    /\ at[c] = "saved" => <<"postgresql", TRUE>> \in seen[c]
    /\ Current(c)

RequestsInv == RequestTypes /\ \A c \in Clients : RequestInv(c)

LEMMA RequestsStart ==
  ASSUME Init PROVE RequestsInv
<1>1. RequestTypes
  BY DEF Init, RequestTypes, Phases, Places, Kinds, Probed
<1>2. ASSUME NEW c \in Clients PROVE RequestInv(c)
  BY DEF Init, RequestInv, Served, Current
<1> QED
  BY <1>1, <1>2 DEF RequestsInv

(* The server's steps leave the requests alone *)
LEMMA ServerStepKeeps ==
  ASSUME RequestsInv, UNCHANGED <<redis, connection, rvars>>,
         phase' \in Phases, postgres' \in BOOLEAN,
         phase \in {"serving", "stopping"} => phase' \in {"serving", "stopping"}
  PROVE  RequestsInv'
<1>1. RequestTypes'
  BY DEF RequestsInv, RequestTypes, rvars
<1>2. ASSUME NEW c \in Clients PROVE RequestInv(c)'
  BY DEF RequestsInv, RequestInv, Served, Seen, Done, Current, Vouched, Outage, Condition, rvars
<1> QED
  BY <1>1, <1>2 DEF RequestsInv

LEMMA OpeningKeeps ==
  ASSUME RequestsInv, EnterLifespan
  PROVE  RequestsInv'
<1>1. phase = "starting" /\ phase' = "serving" /\ connection' = "open"
      /\ UNCHANGED <<redis, postgres, rvars>>
  BY DEF EnterLifespan
<1>2. RequestTypes'
  BY <1>1 DEF RequestsInv, RequestTypes, rvars, Phases
<1>3. ASSUME NEW c \in Clients PROVE RequestInv(c)'
  BY <1>1 DEF RequestsInv, RequestInv, Served, Current, Vouched, Outage, rvars
<1> QED
  BY <1>2, <1>3 DEF RequestsInv

LEMMA ExitKeeps ==
  ASSUME RequestsInv, Exit
  PROVE  RequestsInv'
<1>1. /\ phase' = "down" /\ connection' = "none"
      /\ at' = [c \in Clients |-> IF Served(c) THEN "idle" ELSE at[c]]
      /\ services' = [c \in Clients |-> {}]
      /\ UNCHANGED <<redis, postgres, kind, status, seen>>
  BY DEF Exit
<1>2. RequestTypes'
  BY <1>1 DEF RequestsInv, RequestTypes, Phases, Places
<1>3. ASSUME NEW c \in Clients PROVE RequestInv(c)'
  <2>1. at'[c] \in {"idle", "answered"}
    BY <1>1 DEF Served
  <2> QED
    BY <1>1, <2>1 DEF RequestsInv, RequestInv, Served, Current, Vouched, Outage
<1> QED
  BY <1>2, <1>3 DEF RequestsInv

LEMMA ConditionType ==
  ASSUME NEW r \in BOOLEAN, NEW conn
  PROVE  Condition(r, conn) \in SUBSET (Probed \X BOOLEAN)
<1>1. (conn = "open") \in BOOLEAN
  OBVIOUS
<1>2. "redis" \in Probed /\ "postgresql" \in Probed
  BY DEF Probed
<1>3. <<"redis", r>> \in Probed \X BOOLEAN
  BY <1>2
<1>4. <<"postgresql", conn = "open">> \in Probed \X BOOLEAN
  BY <1>1, <1>2
<1> QED
  BY <1>3, <1>4 DEF Condition

(* A step that leaves what a client's request knows alone *)
LEMMA OthersKeep ==
  ASSUME NEW d \in Clients, RequestInv(d), UNCHANGED <<phase, redis, connection>>,
         at'[d] = at[d], kind'[d] = kind[d], services'[d] = services[d],
         status'[d] = status[d], seen'[d] = seen[d]
  PROVE  RequestInv(d)'
<1>1. Served(d)' <=> Served(d)
  BY DEF Served
<1>2. Done(d)' = Done(d)
  BY DEF Done
<1>3. Condition(redis, connection)' = Condition(redis, connection)
  BY DEF Condition
<1>4. Seen(d) => Seen(d)'
  BY <1>2, <1>3 DEF Seen
<1>5. Current(d) => Current(d)'
  BY DEF Current, Vouched, Outage
<1> QED
  BY <1>1, <1>4, <1>5 DEF RequestInv

(* Whatever changes, every request in progress is a witness of it *)
Changes ==
    /\ redis' \in BOOLEAN /\ postgres' \in BOOLEAN
    /\ connection' = connection \/ LoseConnection
    /\ Witness(redis', connection')
    /\ UNCHANGED <<tvars, phase, settings, traced, at, kind, services, status>>

LEMMA DependenciesChange ==
  ASSUME RequestTypes, RedisChanges \/ PostgresFails \/ ConnectionDrops
  PROVE  Changes
<1>1. CASE RedisChanges
  BY <1>1 DEF RedisChanges, Witness, Changes, RequestTypes, pvars
<1>2. CASE PostgresFails \/ ConnectionDrops
  <2>1. redis' = redis
    BY <1>2 DEF PostgresFails, ConnectionDrops
  <2> QED
    BY <1>2, <2>1 DEF PostgresFails, ConnectionDrops, Witness, Changes, RequestTypes
<1> QED
  BY <1>1, <1>2

LEMMA DependenciesKeep ==
  ASSUME RequestsInv, RedisChanges \/ PostgresFails \/ ConnectionDrops
  PROVE  RequestsInv'
<1>1. Changes
  BY DependenciesChange DEF RequestsInv
<1>2. UNCHANGED <<phase, at, kind, services, status>>
  BY <1>1 DEF Changes
<1>3. seen' = [c \in Clients |-> IF Served(c)
                  THEN seen[c] \cup Condition(redis', connection') ELSE seen[c]]
  BY <1>1 DEF Changes, Witness
<1>4. RequestTypes'
  <2>1. connection' \in {"none", "open", "lost"}
    BY <1>1 DEF Changes, LoseConnection, RequestsInv, RequestTypes
  <2>2. redis' \in BOOLEAN /\ postgres' \in BOOLEAN
    BY <1>1 DEF Changes
  <2>3. seen' \in [Clients -> SUBSET (Probed \X BOOLEAN)]
    <3>1. Condition(redis', connection') \in SUBSET (Probed \X BOOLEAN)
      BY <2>2, ConditionType
    <3> QED
      BY <1>3, <3>1 DEF RequestsInv, RequestTypes
  <2> QED
    BY <1>2, <2>1, <2>2, <2>3 DEF RequestsInv, RequestTypes
<1>5. ASSUME NEW c \in Clients PROVE RequestInv(c)'
  <2>1. /\ seen[c] \subseteq seen'[c]
        /\ Served(c) => Condition(redis', connection') \subseteq seen'[c]
    BY <1>3
  <2> QED
    BY <1>2, <2>1 DEF RequestsInv, RequestInv, Served, Seen, Done, Current, Vouched, Outage
<1> QED
  BY <1>4, <1>5 DEF RequestsInv

LEMMA ArrivalKeeps ==
  ASSUME RequestsInv, NEW c \in Clients, NEW k \in Kinds, Arrive(c, k)
  PROVE  RequestsInv'
<1>1. /\ phase = "serving" /\ UNCHANGED <<phase, redis, postgres, connection>>
      /\ at' = [at EXCEPT ![c] = IF k = "health" THEN "ping" ELSE "graph"]
      /\ kind' = [kind EXCEPT ![c] = k]
      /\ services' = [services EXCEPT ![c] = {}]
      /\ status' = [status EXCEPT ![c] = 0]
      /\ seen' = [seen EXCEPT ![c] = Condition(redis, connection)]
  BY DEF Arrive, pvars
<1>2. RequestTypes'
  <2>1. Condition(redis, connection) \in SUBSET (Probed \X BOOLEAN)
    BY ConditionType DEF RequestsInv, RequestTypes
  <2> QED
    BY <1>1, <2>1 DEF RequestsInv, RequestTypes, Places
<1>3. ASSUME NEW d \in Clients PROVE RequestInv(d)'
  <2>1. CASE d = c
    <3>1. /\ at'[c] = IF k = "health" THEN "ping" ELSE "graph"
          /\ kind'[c] = k /\ services'[c] = {} /\ status'[c] = 0
          /\ seen'[c] = Condition(redis', connection') /\ phase' = "serving"
      BY <1>1 DEF RequestsInv, RequestTypes
    <3>2. Seen(c)' /\ Current(c)'
      BY <3>1 DEF Seen, Done, Current
    <3> QED
      BY <2>1, <3>1, <3>2 DEF RequestInv, Kinds
  <2>2. CASE d # c
    BY <1>1, <2>2, OthersKeep DEF RequestsInv, RequestTypes
  <2> QED
    BY <2>1, <2>2
<1> QED
  BY <1>2, <1>3 DEF RequestsInv

LEMMA ProbeKeeps ==
  ASSUME RequestsInv, NEW c \in Clients, Ping(c) \/ Select(c)
  PROVE  RequestsInv'
<1> DEFINE Probes(service, up, next) ==
        /\ Probe(c, service, up, next)
        /\ <<service, up>> \in Condition(redis, connection)
        /\ \/ at[c] = "ping" /\ next = "select" /\ service = "redis"
           \/ at[c] = "select" /\ next = "answer" /\ service = "postgresql"
<1>1. PICK service \in Probed, up \in BOOLEAN, next \in {"select", "answer"} :
        Probes(service, up, next)
  <2>1. redis \in BOOLEAN /\ (connection = "open") \in BOOLEAN
    BY DEF RequestsInv, RequestTypes
  <2>2. "redis" \in Probed /\ "postgresql" \in Probed
    BY DEF Probed
  <2>3. CASE Ping(c)
    <3>1. Probes("redis", redis, "select")
      BY <2>3 DEF Ping, Condition
    <3> HIDE DEF Probes
    <3> QED
      BY <2>1, <2>2, <3>1, Zenon
  <2>4. CASE Select(c)
    <3>1. Probes("postgresql", connection = "open", "answer")
      BY <2>4 DEF Select, Condition
    <3> HIDE DEF Probes
    <3> QED
      BY <2>1, <2>2, <3>1, Zenon
  <2> QED
    BY <2>3, <2>4
<1>2. /\ UNCHANGED <<phase, redis, postgres, connection, kind, status, seen>>
      /\ at' = [at EXCEPT ![c] = next]
      /\ services' = [services EXCEPT ![c] = IF up THEN @ \cup {service} ELSE @]
  BY <1>1 DEF Probe, pvars
<1>3. RequestTypes'
  BY <1>1, <1>2 DEF RequestsInv, RequestTypes, Places
<1>4. ASSUME NEW d \in Clients PROVE RequestInv(d)'
  <2>1. CASE d = c
    <3>1. /\ Served(c) /\ at'[c] = next /\ kind[c] = "health"
          /\ services'[c] = IF up THEN services[c] \cup {service} ELSE services[c]
      BY <1>1, <1>2 DEF RequestsInv, RequestTypes, RequestInv, Served
    <3>2. Seen(c) /\ phase \in {"serving", "stopping"} /\ Current(c)
      BY <3>1 DEF RequestsInv, RequestInv
    <3>3. <<service, up>> \in seen[c]
      BY <1>1, <3>2 DEF Seen
    <3>4. \A x \in services'[c] : <<x, TRUE>> \in seen[c]
      BY <3>1, <3>2, <3>3 DEF Seen
    <3>5. \A x \in Done(c)' \ services'[c] : <<x, FALSE>> \in seen[c]
      <4>1. Done(c)' \subseteq Done(c) \cup {service}
        BY <1>1, <3>1 DEF Done, Probed
      <4>2. services[c] \subseteq services'[c] /\ (up => service \in services'[c])
        BY <3>1
      <4>3. ~up => <<service, FALSE>> \in seen[c]
        BY <1>1, <3>3
      <4> QED
        BY <3>2, <4>1, <4>2, <4>3 DEF Seen
    <3>6. Condition(redis', connection') \subseteq seen'[c]
      BY <1>2, <3>2 DEF Seen
    <3>7. Seen(c)'
      BY <1>2, <3>4, <3>5, <3>6 DEF Seen
    <3>8. Current(c)'
      BY <1>2, <3>2 DEF Current, Vouched, Outage
    <3> QED
      BY <1>2, <2>1, <3>1, <3>2, <3>7, <3>8 DEF RequestInv
  <2>2. CASE d # c
    BY <1>2, <2>2, OthersKeep DEF RequestsInv, RequestTypes
  <2> QED
    BY <2>1, <2>2
<1> QED
  BY <1>3, <1>4 DEF RequestsInv

(* The connection is there when the last checkpoint is written *)
LEMMA SavingKeeps ==
  ASSUME RequestsInv, NEW c \in Clients, ChatSaves(c)
  PROVE  RequestsInv'
<1>1. /\ at[c] = "graph" /\ (connection = "open") = TRUE
      /\ UNCHANGED <<phase, redis, postgres, connection, kind, services, status, seen>>
      /\ at' = [at EXCEPT ![c] = "saved"]
  BY DEF ChatSaves, pvars
<1>2. RequestTypes'
  BY <1>1 DEF RequestsInv, RequestTypes, Places
<1>3. ASSUME NEW d \in Clients PROVE RequestInv(d)'
  <2>1. CASE d = c
    <3>1. Served(c) /\ at'[c] = "saved" /\ kind[c] = "chat"
      BY <1>1 DEF RequestsInv, RequestTypes, RequestInv, Served
    <3>2. Seen(c) /\ phase \in {"serving", "stopping"} /\ Current(c)
      BY <3>1 DEF RequestsInv, RequestInv
    <3>3. <<"postgresql", TRUE>> \in seen[c]
      BY <1>1, <3>2, Zenon DEF Seen, Condition
    <3>4. Seen(c)' /\ Current(c)'
      <4>1. Done(c)' = {} /\ Condition(redis, connection)' = Condition(redis, connection)
        BY <1>1, <3>1 DEF Done, Condition
      <4> QED
        BY <1>1, <3>2, <4>1 DEF Seen, Current, Vouched, Outage
    <3> QED
      BY <1>1, <2>1, <3>1, <3>2, <3>3, <3>4 DEF RequestInv
  <2>2. CASE d # c
    BY <1>1, <2>2, OthersKeep DEF RequestsInv, RequestTypes
  <2> QED
    BY <2>1, <2>2
<1> QED
  BY <1>2, <1>3 DEF RequestsInv

(* What an answer says was the case during the request *)
Told(c, http) ==
    /\ http = 200 => Vouched(c)
    /\ http = 503 => Outage(c)
    /\ http = 500 => kind[c] = "chat"

LEMMA AnswersTell ==
  ASSUME RequestsInv, NEW c \in Clients, Report(c) \/ ChatAnswers(c)
  PROVE  Served(c) /\ \E http \in {200, 500, 503} : Answers(c, http) /\ Told(c, http)
<1>1. Served(c)
  BY DEF Report, ChatAnswers, Served
<1>2. RequestInv(c) /\ Seen(c)
  BY <1>1 DEF RequestsInv, RequestInv
<1>3. CASE Report(c)
  <2>1. kind[c] = "health" /\ Done(c) = Probed /\ services[c] \subseteq Probed
    BY <1>2, <1>3 DEF Report, Done, RequestInv, RequestsInv, RequestTypes
  <2>2. CASE services[c] = Probed
    <3>1. Answers(c, 200)
      BY <1>3, <2>2 DEF Report
    <3>2. Needed[kind[c]] = services[c]
      BY <2>1, <2>2 DEF Needed
    <3>3. \A service \in services[c] : <<service, TRUE>> \in seen[c]
      BY <1>2 DEF Seen
    <3>4. Vouched(c)
      BY <3>2, <3>3 DEF Vouched
    <3>5. Told(c, 200)
      BY <3>4 DEF Told
    <3> QED
      BY <1>1, <3>1, <3>5
  <2>3. CASE services[c] # Probed
    <3>1. Outage(c)
      BY <1>2, <2>1, <2>3 DEF Outage, Seen
    <3>2. Answers(c, 503)
      BY <1>3, <2>3 DEF Report
    <3>3. Told(c, 503)
      BY <3>1 DEF Told
    <3> QED
      BY <1>1, <3>2, <3>3
  <2> QED
    BY <2>2, <2>3
<1>4. CASE ChatAnswers(c)
  <2>1. kind[c] = "chat"
    BY <1>2, <1>4 DEF ChatAnswers, RequestInv
  <2>2. CASE Answers(c, 500)
    BY <1>1, <2>1, <2>2 DEF Told
  <2>3. CASE at[c] = "saved" /\ Answers(c, 200)
    <3>1. Needed[kind[c]] = {"postgresql"} /\ <<"postgresql", TRUE>> \in seen[c]
      BY <1>2, <2>1, <2>3 DEF RequestInv, Needed
    <3>2. Told(c, 200)
      BY <3>1 DEF Told, Vouched
    <3> QED
      BY <1>1, <2>3, <3>2
  <2> QED
    BY <1>4, <2>2, <2>3 DEF ChatAnswers
<1> QED
  BY <1>3, <1>4

LEMMA AnswerKeeps ==
  ASSUME RequestsInv, NEW c \in Clients, Report(c) \/ ChatAnswers(c)
  PROVE  RequestsInv'
<1>1. PICK http \in {200, 500, 503} : Answers(c, http) /\ Told(c, http)
  BY AnswersTell
<1>2. /\ UNCHANGED <<phase, redis, postgres, connection, kind, seen>>
      /\ services' = [services EXCEPT ![c] = {}]
      /\ at' = [at EXCEPT ![c] = "answered"]
      /\ status' = [status EXCEPT ![c] = http]
  BY <1>1 DEF Answers, pvars
<1>3. RequestTypes'
  BY <1>1, <1>2 DEF RequestsInv, RequestTypes, Places
<1>4. ASSUME NEW d \in Clients PROVE RequestInv(d)'
  <2>1. CASE d = c
    <3>1. at'[c] = "answered" /\ status'[c] = http
      BY <1>2 DEF RequestsInv, RequestTypes
    <3>2. kind'[c] = kind[c] /\ seen'[c] = seen[c]
      BY <1>2
    <3>3. (Vouched(c) => Vouched(c)') /\ (Outage(c) => Outage(c)')
      BY <3>2 DEF Vouched, Outage
    <3>4. Current(c)'
      BY <1>1, <3>1, <3>3 DEF Told, Current
    <3> QED
      BY <2>1, <3>1, <3>4 DEF RequestInv, Served
  <2>2. CASE d # c
    BY <1>2, <2>2, OthersKeep DEF RequestsInv, RequestTypes
  <2> QED
    BY <2>1, <2>2
<1> QED
  BY <1>3, <1>4 DEF RequestsInv

(* Callers of the public API of the observability package *)
Outsider == TearDown \/ DropInstruments \/ RecordPoint \/ \E s \in Environments : SetUpAgain(s)

LEMMA RequestsKeep ==
  ASSUME RequestsInv, [Next]_svars
  PROVE  RequestsInv'
<1>1. phase \in Phases /\ postgres \in BOOLEAN
  BY DEF RequestsInv, RequestTypes
<1>2. CASE UNCHANGED svars
  BY <1>1, <1>2, ServerStepKeeps DEF svars, pvars
<1>3. CASE Start \/ SetUpTelemetry \/ WireApp \/ Stop
  BY <1>1, <1>3, ServerStepKeeps DEF Start, SetUpTelemetry, WireApp, Stop, Phases
<1>4. CASE PostgresRecovers \/ Outsider
  BY <1>1, <1>4, ServerStepKeeps DEF PostgresRecovers, Outsider, TearDown, SetUpAgain,
     DropInstruments, RecordPoint, pvars
<1>5. CASE FailToStart \/ Stopped \/ Crash
  BY <1>5, ExitKeeps DEF FailToStart, Stopped, Crash
<1>6. ASSUME NEW c \in Clients, Handle(c) \/ ChatMeasures(c) \/ \E k \in Kinds : Arrive(c, k)
      PROVE  RequestsInv'
  <2>1. CASE Handle(c)
    BY <2>1, ProbeKeeps, SavingKeeps, AnswerKeeps DEF Handle
  <2>2. CASE ChatMeasures(c)
    BY <1>1, <2>2, ServerStepKeeps DEF ChatMeasures, pvars
  <2>3. CASE \E k \in Kinds : Arrive(c, k)
    BY <2>3, ArrivalKeeps
  <2> QED
    BY <1>6, <2>1, <2>2, <2>3
<1> QED
  BY <1>2, <1>3, <1>4, <1>5, <1>6, OpeningKeeps, DependenciesKeep DEF Next, Outsider

(* An answer 200 vouches only for what was up since the request came, for  *)
(* any number of clients and any order of failures, recoveries, restarts.  *)
THEOREM AnswersAreCurrent == Spec => []OkIsCurrent
<1>1. Init => RequestsInv
  BY RequestsStart
<1>2. RequestsInv /\ [Next]_svars => RequestsInv'
  BY RequestsKeep
<1>3. RequestsInv => OkIsCurrent
  BY DEF RequestsInv, RequestInv, Current, Vouched, OkIsCurrent
<1> QED
  BY <1>1, <1>2, <1>3, PTL DEF Spec

(* Nor does a health check report an outage that was over, or never was,   *)
(* in its time.                                                            *)
THEOREM OutagesAreCurrent == Spec => []OutageIsCurrent
<1>1. Init => RequestsInv
  BY RequestsStart
<1>2. RequestsInv /\ [Next]_svars => RequestsInv'
  BY RequestsKeep
<1>3. RequestsInv => OutageIsCurrent
  BY DEF RequestsInv, RequestInv, Current, Vouched, Outage, OutageIsCurrent
<1> QED
  BY <1>1, <1>2, <1>3, PTL DEF Spec

-----------------------------------------------------------------------------
(***************************************************************************)
(* What a step can do to telemetry: a set-up from a clean state, a         *)
(* measurement, a shutdown, a reset, the end of the process, or nothing.   *)
(***************************************************************************)
SetUp(s)    == SetUpSkipped(s) \/ SetUpCompletes(s) \/ SetUpRaises(s)
ShutDown    == ShutDownCompletes \/ ShutDownRaises
BootSetUp   == phase = "importing" /\ SetUp(settings)
CleanSetUp  == \E s \in Environments : Clean /\ setups < MaxSetups /\ SetUp(s)

LEMMA TelemetrySteps ==
  ASSUME [Next]_svars
  PROVE  \/ UNCHANGED tvars
         \/ BootSetUp
         \/ CleanSetUp
         \/ ShutDown \/ Reset \/ Measure
         \/ Forget /\ phase' = "down"
<1>1. CASE UNCHANGED svars
  BY <1>1 DEF svars
<1>2. CASE Start \/ WireApp \/ EnterLifespan \/ Stop
  BY <1>2 DEF Start, WireApp, EnterLifespan, Stop
<1>3. CASE SetUpTelemetry
  BY <1>3 DEF SetUpTelemetry, BootSetUp, SetUp
<1>4. CASE FailToStart \/ Stopped \/ Crash
  BY <1>4 DEF FailToStart, Stopped, Crash, Exit
<1>5. CASE RedisChanges \/ PostgresFails \/ PostgresRecovers \/ ConnectionDrops
  BY <1>5 DEF RedisChanges, PostgresFails, PostgresRecovers, ConnectionDrops
<1>6. ASSUME NEW c \in Clients, (\E k \in Kinds : Arrive(c, k)) \/ Handle(c)
      PROVE  UNCHANGED tvars
  BY <1>6 DEF Arrive, Handle, Ping, Select, Probe, Report, ChatSaves, ChatAnswers, Answers
<1>7. ASSUME RecordPoint \/ \E c \in Clients : ChatMeasures(c)
      PROVE  Measure
  BY <1>7 DEF ChatMeasures, RecordPoint
<1>8. CASE TearDown \/ DropInstruments
  BY <1>8 DEF TearDown, DropInstruments, ShutDown
<1>9. ASSUME NEW s \in Environments, SetUpAgain(s)
      PROVE  CleanSetUp
  BY <1>9 DEF SetUpAgain, CleanSetUp, SetUp
<1> QED
  BY <1>1, <1>2, <1>3, <1>4, <1>5, <1>6, <1>7, <1>8, <1>9 DEF Next

(***************************************************************************)
(* What a step can do to the life of the process: one of its stages, the   *)
(* end, or nothing but a connection that is lost; telemetry is used by a   *)
(* process that serves.                                                    *)
(***************************************************************************)
Running == /\ phase \in {"down", "importing", "imported"} => UNCHANGED tvars
           /\ UNCHANGED connection \/ LoseConnection

LEMMA LifeSteps ==
  ASSUME [Next]_svars, RequestsInv
  PROVE  \/ Start \/ SetUpTelemetry \/ WireApp \/ EnterLifespan \/ Stop
         \/ Exit
         \/ UNCHANGED <<phase, settings, traced>> /\ Running
<1> USE DEF Running
<1>1. CASE UNCHANGED svars
  BY <1>1 DEF svars, pvars
<1>2. CASE FailToStart \/ Stopped \/ Crash
  BY <1>2 DEF FailToStart, Stopped, Crash
<1>3. CASE RedisChanges \/ PostgresFails \/ PostgresRecovers \/ ConnectionDrops
  BY <1>3 DEF RedisChanges, PostgresFails, PostgresRecovers, ConnectionDrops, pvars
<1>4. ASSUME NEW c \in Clients, (\E k \in Kinds : Arrive(c, k)) \/ Handle(c)
      PROVE  UNCHANGED <<tvars, pvars>>
  BY <1>4 DEF Arrive, Handle, Ping, Select, Probe, Report, ChatSaves, ChatAnswers, Answers
<1>5. ASSUME NEW c \in Clients, ChatMeasures(c)
      PROVE  UNCHANGED pvars /\ phase \in {"serving", "stopping"}
  BY <1>5 DEF ChatMeasures, RequestsInv, RequestInv, Served
<1>6. CASE Outsider
  BY <1>6 DEF Outsider, TearDown, SetUpAgain, DropInstruments, RecordPoint, pvars
<1> QED
  BY <1>1, <1>2, <1>3, <1>4, <1>5, <1>6 DEF Next, Outsider, pvars

-----------------------------------------------------------------------------
(***************************************************************************)
(* The telemetry of a process: its types, that nothing was set up before   *)
(* the boot does it, that every exporter is held, and, of a set-up that    *)
(* found the cache empty, that it stays empty until the provider's meter   *)
(* is asked for the first time: until then no other meter is asked for.    *)
(***************************************************************************)
Unused == /\ held = Nothing /\ setups = 0 /\ running = {} /\ meter = NONE
          /\ cache = NoCache

CacheInv ==
    /\ meter # NONE => held["metrics"] # NONE
    /\ fresh /\ meter # NONE => cache[meter] \in {NONE, held["metrics"]}
    /\ fresh /\ meter = NONE /\ Provider("metrics") \in running => cache = NoCache

Consistent == TelemetryTypeOK /\ NoOrphanExporter /\ CacheInv

TelemetryInv ==
    /\ settings \in Environments
    /\ phase \in {"down", "importing"} => Unused
    /\ Consistent

LEMMA TelemetryStarts ==
  ASSUME TelemetryInit, settings \in Environments
  PROVE  TelemetryInv
<1>1. held \in [Signals -> Setups \cup {NONE}]
  BY DEF TelemetryInit, Nothing
<1>2. cache \in [Addresses -> Setups \cup {NOOP, NONE}]
  BY DEF TelemetryInit, NoCache
<1>3. setups \in 0..MaxSetups
  BY SetupsAssumption DEF TelemetryInit
<1>4. TelemetryTypeOK
  BY <1>1, <1>2, <1>3 DEF TelemetryInit, TelemetryTypeOK
<1> QED
  BY <1>4 DEF TelemetryInit, TelemetryInv, Consistent, Unused, NoOrphanExporter, CacheInv

(* Building providers where none is held *)
LEMMA BuildKeeps ==
  ASSUME Consistent, Clean, setups < MaxSetups,
         NEW built \in SUBSET Signals, Build(built),
         patched' \subseteq Instrumentors, registered' \subseteq Instrumentors,
         enabled' \in BOOLEAN
  PROVE  Consistent'
<1> USE SetupsAssumption, MarkersAssumption DEF Consistent
<1>1. setups + 1 \in Setups
  BY DEF TelemetryTypeOK, Setups
<1>2. held = Nothing /\ running = {}
  <2>1. ASSUME NEW p \in running PROVE FALSE
    <3>1. p[1] \in Signals /\ p[2] \in Setups /\ held[p[1]] = p[2]
      BY DEF TelemetryTypeOK, NoOrphanExporter
    <3> QED
      BY <3>1 DEF Clean, Nothing, Setups
  <2> QED
    BY <2>1 DEF Clean
<1>3. meter = NONE
  BY <1>2 DEF CacheInv, Nothing, Signals
<1>4. /\ running' = built \X {setups + 1}
      /\ held' = [x \in Signals |-> IF x \in built THEN setups + 1 ELSE NONE]
      /\ meter' = NONE
      /\ UNCHANGED <<pinned, cache>>
  BY <1>2, <1>3 DEF Build, Nothing
<1>5. TelemetryTypeOK'
  <2>1. held' \in [Signals -> Setups \cup {NONE}] /\ running' \subseteq Signals \X Setups
    BY <1>1, <1>4
  <2>2. setups' \in 0..MaxSetups /\ handlers' \subseteq Setups
    BY <1>1 DEF Build, TelemetryTypeOK, Setups
  <2>3. global' \in Setups \cup {NONE} /\ fresh' \in BOOLEAN
    BY <1>1 DEF Build, TelemetryTypeOK
  <2> QED
    BY <1>4, <2>1, <2>2, <2>3 DEF TelemetryTypeOK
<1>6. NoOrphanExporter'
  BY <1>4 DEF NoOrphanExporter
<1>7. CacheInv'
  <2>1. Provider("metrics")' \in running' => "metrics" \in built
    BY <1>4 DEF Provider
  <2>2. "metrics" \in built /\ fresh' => cache = NoCache
    BY DEF Build
  <2> QED
    BY <1>4, <2>1, <2>2 DEF CacheInv
<1> QED
  BY <1>5, <1>6, <1>7

LEMMA SetUpKeeps ==
  ASSUME Consistent, Clean, setups < MaxSetups, NEW s, SetUp(s)
  PROVE  Consistent'
<1>1. CASE SetUpSkipped(s)
  BY <1>1 DEF SetUpSkipped, tvars, Consistent, TelemetryTypeOK, NoOrphanExporter, CacheInv,
     Provider
<1>2. CASE SetUpCompletes(s)
  <2>1. Requested(s) \in SUBSET Signals /\ Build(Requested(s))
    BY <1>2 DEF SetUpCompletes, Requested, Signals
  <2>2. patched' \subseteq Instrumentors /\ registered' \subseteq Instrumentors
        /\ enabled' \in BOOLEAN
    BY <1>2 DEF SetUpCompletes, Instrument, Consistent, TelemetryTypeOK
  <2> QED
    BY <2>1, <2>2, BuildKeeps
<1>3. CASE SetUpRaises(s)
  <2>1. PICK x \in Requested(s) : Build(Requested(s) \cap Before(x))
    BY <1>3 DEF SetUpRaises
  <2>2. Requested(s) \cap Before(x) \in SUBSET Signals
    BY DEF Requested, Signals
  <2>3. patched' \subseteq Instrumentors /\ registered' \subseteq Instrumentors
        /\ enabled' \in BOOLEAN
    BY <1>3 DEF SetUpRaises, Consistent, TelemetryTypeOK
  <2> QED
    BY <2>1, <2>2, <2>3, BuildKeeps
<1> QED
  BY <1>1, <1>2, <1>3 DEF SetUp

LEMMA ShutDownKeeps ==
  ASSUME Consistent, ShutDown
  PROVE  Consistent'
<1> USE DEF Consistent
<1>1. /\ patched' \subseteq Instrumentors /\ registered' \subseteq Instrumentors
      /\ UNCHANGED <<setups, handlers, global, pinned, cache, fresh>>
  BY DEF ShutDown, ShutDownCompletes, ShutDownRaises, Uninstrument, TelemetryTypeOK
<1>2. CASE ShutDownCompletes
  <2>1. running' = {}
    <3>1. ASSUME NEW p \in running PROVE p \in {Provider(x) : x \in Signals}
      <4>1. p[1] \in Signals /\ p = <<p[1], p[2]>> /\ held[p[1]] = p[2]
        BY DEF TelemetryTypeOK, NoOrphanExporter
      <4> QED
        BY <4>1 DEF Provider
    <3> QED
      BY <1>2, <3>1 DEF ShutDownCompletes
  <2>2. held' = Nothing /\ meter' = NONE /\ enabled' = FALSE
    BY <1>2 DEF ShutDownCompletes
  <2> QED
    BY <1>1, <2>1, <2>2 DEF TelemetryTypeOK, NoOrphanExporter, CacheInv, Nothing, Signals
<1>3. CASE ShutDownRaises
  <2>1. running' \subseteq running /\ UNCHANGED <<enabled, held, meter>>
    BY <1>3 DEF ShutDownRaises
  <2> QED
    BY <1>1, <2>1 DEF TelemetryTypeOK, NoOrphanExporter, CacheInv, Provider
<1> QED
  BY <1>2, <1>3 DEF ShutDown

LEMMA ResetKeeps ==
  ASSUME Consistent, Reset
  PROVE  Consistent'
<1>1. cache' = NoCache /\ cache' \in [Addresses -> Setups \cup {NOOP, NONE}]
  BY DEF Reset, NoCache
<1>2. UNCHANGED <<enabled, held, registered, setups, running, handlers, patched, global,
                  meter, pinned, fresh>>
  BY DEF Reset
<1>3. TelemetryTypeOK' /\ NoOrphanExporter'
  BY <1>1, <1>2 DEF Consistent, TelemetryTypeOK, NoOrphanExporter
<1>4. CacheInv'
  BY <1>1, <1>2 DEF Consistent, CacheInv, TelemetryTypeOK, NoCache
<1> QED
  BY <1>3, <1>4 DEF Consistent

LEMMA InstrumentsType ==
  ASSUME TelemetryTypeOK, NEW a \in Addresses, NEW owner \in Setups \cup {NOOP},
         Instruments(a, owner)
  PROVE  /\ cache' \in [Addresses -> Setups \cup {NOOP, NONE}]
         /\ cache'[a] = IF cache[a] = NONE THEN owner ELSE cache[a]
         /\ \A b \in Addresses \ {a} : cache'[b] = cache[b]
BY DEF Instruments, TelemetryTypeOK

LEMMA MeasureKeeps ==
  ASSUME Consistent, Measure
  PROVE  Consistent'
<1> USE DEF Consistent
<1>1. UNCHANGED <<enabled, held, registered, setups, running, handlers, patched, global,
                  fresh, Provider("metrics")>>
  BY DEF Measure, Kept, Provider
<1>2. CASE HeldMeter /\ Provider("metrics") \in running
  <2>1. held["metrics"] \in Setups
    BY <1>2 DEF TelemetryTypeOK, Provider
  <2>2. PICK a \in Addresses :
          /\ IF meter # NONE THEN a = meter ELSE a \notin pinned
          /\ meter' = a
          /\ pinned' = IF global = held["metrics"] THEN pinned \cup {a} ELSE pinned
          /\ Instruments(a, held["metrics"])
    BY <1>2 DEF HeldMeter
  <2>3. /\ cache' \in [Addresses -> Setups \cup {NOOP, NONE}]
        /\ cache'[a] = IF cache[a] = NONE THEN held["metrics"] ELSE cache[a]
    BY <2>1, <2>2, InstrumentsType
  <2>4. held["metrics"] # NONE /\ a # NONE
    BY <2>1, MarkersAssumption DEF Setups
  <2>5. fresh => cache[a] \in {NONE, held["metrics"]}
    BY <1>2, <2>2 DEF CacheInv, NoCache
  <2>6. CacheInv'
    BY <1>1, <2>2, <2>3, <2>4, <2>5 DEF CacheInv
  <2>7. TelemetryTypeOK'
    BY <1>1, <2>2, <2>3 DEF TelemetryTypeOK
  <2> QED
    BY <1>1, <2>6, <2>7 DEF NoOrphanExporter
<1>3. CASE SilentMeter /\ Provider("metrics") \notin running
  <2>1. PICK a \in Addresses \ (pinned \cup {meter}) :
          /\ pinned' = IF global = NONE THEN pinned \cup {a} ELSE pinned
          /\ Instruments(a, NOOP)
          /\ UNCHANGED meter
    BY <1>3 DEF SilentMeter
  <2>2. /\ cache' \in [Addresses -> Setups \cup {NOOP, NONE}]
        /\ meter \in Addresses => cache'[meter] = cache[meter]
    BY <2>1, InstrumentsType
  <2>3. TelemetryTypeOK'
    BY <1>1, <2>1, <2>2 DEF TelemetryTypeOK
  <2>4. CacheInv'
    BY <1>1, <1>3, <2>1, <2>2 DEF CacheInv, TelemetryTypeOK
  <2> QED
    BY <1>1, <2>3, <2>4 DEF NoOrphanExporter
<1> QED
  BY <1>2, <1>3 DEF Measure

LEMMA TelemetryKeeps ==
  ASSUME TelemetryInv, RequestsInv, [Next]_svars
  PROVE  TelemetryInv'
<1>1. settings' \in Environments
  BY LifeSteps DEF TelemetryInv, pvars, Start, SetUpTelemetry, WireApp, EnterLifespan,
     Exit, Stop
<1>2. \/ Forget
      \/ phase' \in {"down", "importing"} =>
           phase \in {"down", "importing"} /\ UNCHANGED tvars
  <2>1. CASE Start \/ SetUpTelemetry \/ WireApp \/ EnterLifespan \/ Stop
    BY <2>1 DEF Start, SetUpTelemetry, WireApp, EnterLifespan, Stop
  <2>2. CASE Exit
    BY <2>2 DEF Exit
  <2>3. CASE UNCHANGED <<phase, settings, traced>> /\ Running
    BY <2>3 DEF Running
  <2> QED
    BY <2>1, <2>2, <2>3, LifeSteps
<1>3. Forget => Unused'
  BY DEF Forget, Unused
<1>4. phase' \in {"down", "importing"} => Unused'
  BY <1>2, <1>3 DEF TelemetryInv, Unused, tvars
<1>5. Consistent'
  <2>1. CASE UNCHANGED tvars
    BY <2>1 DEF TelemetryInv, Consistent, tvars, TelemetryTypeOK, NoOrphanExporter, CacheInv,
       Provider
  <2>2. CASE BootSetUp
    <3>1. Clean /\ setups < MaxSetups
      BY <2>2, SetupsAssumption DEF BootSetUp, TelemetryInv, Unused, Clean
    <3> QED
      BY <2>2, <3>1, SetUpKeeps DEF BootSetUp, TelemetryInv
  <2>3. CASE CleanSetUp
    BY <2>3, SetUpKeeps DEF CleanSetUp, TelemetryInv
  <2>4. CASE ShutDown \/ Reset \/ Measure
    BY <2>4, ShutDownKeeps, ResetKeeps, MeasureKeeps DEF TelemetryInv
  <2>5. CASE Forget
    <3>1. held' \in [Signals -> Setups \cup {NONE}]
      BY <2>5 DEF Forget, Nothing
    <3>2. cache' \in [Addresses -> Setups \cup {NOOP, NONE}]
      BY <2>5 DEF Forget, NoCache
    <3>3. setups' \in 0..MaxSetups
      BY <2>5, SetupsAssumption DEF Forget
    <3>4. TelemetryTypeOK'
      BY <2>5, <3>1, <3>2, <3>3 DEF Forget, TelemetryTypeOK
    <3> QED
      BY <2>5, <3>4 DEF Forget, Consistent, NoOrphanExporter, CacheInv
  <2> QED
    BY <2>1, <2>2, <2>3, <2>4, <2>5, TelemetrySteps
<1> QED
  BY <1>1, <1>4, <1>5 DEF TelemetryInv

(* Whatever exports is held, so that shutdown can stop it: for any number  *)
(* of set-ups and shutdowns, each of which may raise at any stage.         *)
THEOREM ExportersAreHeld == Spec => []NoOrphanExporter
<1>1. Init => TelemetryInv /\ RequestsInv
  BY TelemetryStarts, RequestsStart DEF Init
<1>2. TelemetryInv /\ RequestsInv /\ [Next]_svars => TelemetryInv' /\ RequestsInv'
  BY TelemetryKeeps, RequestsKeep
<1>3. TelemetryInv => NoOrphanExporter
  BY DEF TelemetryInv, Consistent
<1> QED
  BY <1>1, <1>2, <1>3, PTL DEF Spec

(* A meter provider that was set up with an empty cache records in its own *)
(* instruments until it is shut down, however many set-ups, shutdowns and  *)
(* points came before, and whatever address its meter has.                 *)
THEOREM CleanSetUpsCount == Spec => []CleanSetUpCounts
<1>1. Init => TelemetryInv /\ RequestsInv
  BY TelemetryStarts, RequestsStart DEF Init
<1>2. TelemetryInv /\ RequestsInv /\ [Next]_svars => TelemetryInv' /\ RequestsInv'
  BY TelemetryKeeps, RequestsKeep
<1>3. TelemetryInv => CleanSetUpCounts
  BY DEF TelemetryInv, Consistent, CacheInv, CleanSetUpCounts
<1> QED
  BY <1>1, <1>2, <1>3, PTL DEF Spec
-----------------------------------------------------------------------------
(* What is done at each stage of the boot before the next one *)
WiringInv ==
    /\ phase = "imported" /\ settings.OTEL_ENABLED => enabled
    /\ phase = "starting" /\ settings.OTEL_ENABLED => traced
    /\ ServesWhenWired

LEMMA WiringKeeps ==
  ASSUME WiringInv, RequestsInv, [Next]_svars
  PROVE  WiringInv'
<1>1. CASE Start
  BY <1>1 DEF Start, WiringInv, ServesWhenWired
<1>2. CASE SetUpTelemetry
  BY <1>2 DEF SetUpTelemetry, SetUpSkipped, SetUpCompletes, tvars, WiringInv, ServesWhenWired
<1>3. CASE WireApp
  BY <1>3 DEF WireApp, WiringInv, ServesWhenWired
<1>4. CASE EnterLifespan
  BY <1>4 DEF EnterLifespan, WiringInv, ServesWhenWired
<1>5. CASE Stop
  BY <1>5 DEF Stop, WiringInv, ServesWhenWired
<1>6. CASE Exit
  BY <1>6 DEF Exit, WiringInv, ServesWhenWired
<1>7. CASE UNCHANGED <<phase, settings, traced>> /\ Running
  <2>1. connection # "none" => connection' # "none"
    BY <1>7 DEF Running, LoseConnection
  <2> QED
    BY <1>7, <2>1 DEF Running, WiringInv, ServesWhenWired, tvars
<1> QED
  BY <1>1, <1>2, <1>3, <1>4, <1>5, <1>6, <1>7, LifeSteps

(* Requests are served only by a process that is wired completely, however *)
(* often it fails to start, dies and starts again with other settings.     *)
THEOREM ServiceIsWired == Spec => []ServesWhenWired
<1>1. Init => WiringInv /\ RequestsInv
  BY RequestsStart DEF Init, WiringInv, ServesWhenWired
<1>2. WiringInv /\ RequestsInv /\ [Next]_svars => WiringInv' /\ RequestsInv'
  BY WiringKeeps, RequestsKeep
<1>3. WiringInv => ServesWhenWired
  BY DEF WiringInv
<1> QED
  BY <1>1, <1>2, <1>3, PTL DEF Spec

(* Every variable holds a value of its kind, for any environments, clients *)
(* and set-ups: the types are what the invariants above rest on.           *)
THEOREM ServiceTypes == Spec => []TypeOK
<1> DEFINE Flag == traced \in BOOLEAN
           TypeInv == TelemetryInv /\ RequestsInv /\ Flag
<1>1. Init => TypeInv
  BY TelemetryStarts, RequestsStart DEF Init
<1>2. TypeInv /\ [Next]_svars => TypeInv'
  <2> SUFFICES ASSUME TypeInv, [Next]_svars PROVE TypeInv'
    OBVIOUS
  <2>1. TelemetryInv' /\ RequestsInv'
    BY TelemetryKeeps, RequestsKeep
  <2>2. Flag'
    <3>1. enabled \in BOOLEAN
      BY DEF TelemetryInv, Consistent, TelemetryTypeOK
    <3> QED
      BY <3>1, LifeSteps DEF Start, SetUpTelemetry, WireApp, EnterLifespan, Stop, Exit
  <2> QED
    BY <2>1, <2>2
<1>3. TypeInv => TypeOK
  BY DEF TelemetryInv, Consistent, RequestsInv, RequestTypes, TypeOK
<1> QED
  BY <1>1, <1>2, <1>3, PTL DEF Spec
-----------------------------------------------------------------------------
(***************************************************************************)
(* The process implements Availability: each of its steps is one of what   *)
(* its users can see, or none.                                             *)
(***************************************************************************)
Life == IF phase = "serving" THEN "on" ELSE IF phase = "stopping" THEN "closing" ELSE "off"
UpsOf(r, conn) == {service \in Probed : <<service, TRUE>> \in Condition(r, conn)}
Ups  == UpsOf(redis, connection)
Open == [c \in Clients |-> Served(c)]

LEMMA UpsAre ==
  ASSUME NEW r \in BOOLEAN, NEW conn
  PROVE  /\ UpsOf(r, conn) = (IF r THEN {"redis"} ELSE {})
                   \cup (IF conn = "open" THEN {"postgresql"} ELSE {})
         /\ View!Now(UpsOf(r, conn)) = Condition(r, conn)
<1>1. ASSUME NEW service \in Probed
      PROVE  <<service, TRUE>> \in Condition(r, conn) <=>
               \/ service = "redis" /\ r
               \/ service = "postgresql" /\ conn = "open"
  BY <1>1 DEF Condition, Probed
<1>2. UpsOf(r, conn) = (IF r THEN {"redis"} ELSE {})
              \cup (IF conn = "open" THEN {"postgresql"} ELSE {})
  BY <1>1 DEF UpsOf, Probed
<1>3. /\ ("redis" \in UpsOf(r, conn)) = r
      /\ ("postgresql" \in UpsOf(r, conn)) = (conn = "open")
  BY <1>2
<1>4. View!Now(UpsOf(r, conn)) = {<<"redis", "redis" \in UpsOf(r, conn)>>,
                                  <<"postgresql", "postgresql" \in UpsOf(r, conn)>>}
  BY DEF View!Now, Probed
<1> QED
  BY <1>2, <1>3, <1>4 DEF Condition

LEMMA OpenIs ==
  ASSUME UNCHANGED at PROVE UNCHANGED Open
<1>1. ASSUME NEW c \in Clients PROVE Served(c)' = Served(c)
  BY DEF Served
<1> QED
  BY <1>1 DEF Open

LEMMA ViewStarts ==
  ASSUME Init PROVE View!Init
<1>1. Ups \in SUBSET (Probed \ {"postgresql"})
  BY UpsAre DEF Init, Probed, Ups
<1>2. Life = "off" /\ Open = [c \in Clients |-> FALSE]
  BY DEF Init, Life, Open, Served
<1>3. kind \in [Clients -> Kinds]
  BY DEF Init, Kinds
<1> QED
  BY <1>1, <1>2, <1>3 DEF Init, View!Init, Ups, UpsOf, Life, Open

(* The stages of a life *)
LEMMA LivesAreViewed ==
  ASSUME RequestsInv, RequestsInv', WiringInv,
         Start \/ SetUpTelemetry \/ WireApp \/ EnterLifespan \/ Stop \/ Exit
  PROVE  [View!Next]_(View!vars)
<1> USE DEF View!vars
<1>1. redis \in BOOLEAN /\ redis' \in BOOLEAN
  BY DEF RequestsInv, RequestTypes
<1>2. CASE Start \/ SetUpTelemetry \/ WireApp
  <2>1. UNCHANGED <<redis, connection, rvars>> /\ Life = "off" /\ Life' = "off"
    BY <1>2 DEF Start, SetUpTelemetry, WireApp, Life
  <2>2. UNCHANGED <<Life, Ups, Open, kind, status, seen>>
    BY <2>1, OpenIs DEF Ups, UpsOf, Condition, rvars
  <2> QED
    BY <2>2 DEF Life, Ups, UpsOf, Open
<1>3. CASE EnterLifespan
  <2>1. UNCHANGED <<redis, rvars>> /\ Life = "off" /\ Life' = "on" /\ connection' = "open"
    BY <1>3 DEF EnterLifespan, Life
  <2>2. UNCHANGED <<Open, kind, status, seen>>
    BY <2>1, OpenIs DEF rvars
  <2>3. Ups' = Ups \cup {"postgresql"}
    BY <1>1, <2>1, UpsAre DEF Ups
  <2>4. View!Boot
    BY <2>1, <2>2, <2>3 DEF View!Boot, Life, Ups, UpsOf, Open
  <2> QED
    BY <2>4 DEF View!Next
<1>4. CASE Stop
  <2>1. UNCHANGED <<redis, connection, rvars>> /\ Life = "on" /\ Life' = "closing"
    BY <1>4 DEF Stop, Life
  <2>2. UNCHANGED <<Ups, Open, kind, status, seen>>
    BY <2>1, OpenIs DEF Ups, UpsOf, Condition, rvars
  <2>3. View!Close
    BY <2>1, <2>2 DEF View!Close, Life, Ups, UpsOf, Open
  <2> QED
    BY <2>3 DEF View!Next
<1>5. CASE Exit
  <2>1. Life' = "off" /\ connection' = "none" /\ UNCHANGED <<redis, kind, status, seen>>
    BY <1>5 DEF Exit, Life
  <2>2. Open' = [c \in Clients |-> FALSE]
    BY <1>5 DEF Exit, Open, Served
  <2>3. Ups' = Ups \ {"postgresql"}
    <3>1. Ups' = IF redis THEN {"redis"} ELSE {}
      BY <1>1, <2>1, UpsAre DEF Ups
    <3> QED
      BY <1>1, <3>1, UpsAre DEF Ups
  <2>4. View!Die
    BY <2>1, <2>2, <2>3 DEF View!Die, Life, Ups, UpsOf, Open
  <2> QED
    BY <2>4 DEF View!Next
<1> QED
  BY <1>2, <1>3, <1>4, <1>5

LEMMA ChangesAreViewed ==
  ASSUME RequestsInv, RequestsInv', Changes
  PROVE  View!Change
<1>1. redis \in BOOLEAN /\ redis' \in BOOLEAN
  BY DEF RequestsInv, RequestTypes
<1>2. UNCHANGED <<Life, Open, kind, status>>
  BY OpenIs DEF Changes, Life
<1>3. Ups' \subseteq Probed
  BY DEF Ups, UpsOf
<1>4. Ups' \cap {"postgresql"} \subseteq Ups
  <2>1. connection' = "open" => connection = "open"
    BY DEF Changes, LoseConnection
  <2>2. "postgresql" \in Ups' => connection' = "open"
    BY <1>1, UpsAre DEF Ups
  <2>3. connection = "open" => "postgresql" \in Ups
    BY <1>1, UpsAre DEF Ups
  <2> QED
    BY <2>1, <2>2, <2>3
<1>5. seen' = [c \in Clients |-> IF Open[c] THEN seen[c] \cup View!Now(Ups') ELSE seen[c]]
  <2>1. View!Now(Ups') = Condition(redis', connection')
    BY <1>1, UpsAre DEF Ups
  <2> QED
    BY <2>1 DEF Changes, Witness, Open
<1> QED
  BY <1>2, <1>3, <1>4, <1>5 DEF View!Change, Life, Ups, UpsOf, Open

(* A request: it is asked, probed without anybody noticing, and answered *)
LEMMA RequestsAreViewed ==
  ASSUME RequestsInv, RequestsInv', NEW c \in Clients,
         (\E k \in Kinds : Arrive(c, k)) \/ Handle(c)
  PROVE  [View!Next]_(View!vars)
<1> USE DEF View!vars
<1>1. redis \in BOOLEAN /\ at \in [Clients -> Places]
  BY DEF RequestsInv, RequestTypes
<1>2. UNCHANGED <<phase, redis, connection>>
  BY DEF Arrive, Handle, Ping, Select, Probe, Report, ChatSaves, ChatAnswers, Answers, pvars
<1>3. UNCHANGED <<Life, Ups>>
  BY <1>2 DEF Life, Ups, UpsOf, Condition
<1>4. ASSUME NEW k \in Kinds, Arrive(c, k)
      PROVE  [View!Next]_(View!vars)
  <2>1. /\ phase = "serving" /\ ~Served(c)
        /\ at' = [at EXCEPT ![c] = IF k = "health" THEN "ping" ELSE "graph"]
        /\ kind' = [kind EXCEPT ![c] = k]
        /\ status' = [status EXCEPT ![c] = 0]
        /\ seen' = [seen EXCEPT ![c] = Condition(redis, connection)]
    BY <1>4 DEF Arrive
  <2>2. Open' = [Open EXCEPT ![c] = TRUE] /\ ~Open[c]
    BY <1>1, <2>1 DEF Open, Served
  <2>3. seen' = [seen EXCEPT ![c] = View!Now(Ups)]
    BY <1>1, <2>1, UpsAre DEF Ups
  <2>4. View!Ask(c, k)
    BY <1>3, <2>1, <2>2, <2>3 DEF View!Ask, Life, Ups, UpsOf, Open
  <2> QED
    BY <2>4 DEF View!Next
<1>5. CASE Ping(c) \/ Select(c) \/ ChatSaves(c)
  <2>1. at[c] \in {"ping", "select", "graph"} /\ UNCHANGED <<kind, status, seen>>
    BY <1>5 DEF Ping, Select, Probe, ChatSaves
  <2>2. PICK next \in {"select", "answer", "saved"} : at' = [at EXCEPT ![c] = next]
    BY <1>5 DEF Ping, Select, Probe, ChatSaves
  <2>3. UNCHANGED Open
    BY <1>1, <2>1, <2>2 DEF Open, Served
  <2> QED
    BY <1>3, <2>1, <2>3 DEF Life, Ups, UpsOf, Open
<1>6. CASE Report(c) \/ ChatAnswers(c)
  <2>1. PICK http \in {200, 500, 503} : Answers(c, http) /\ Told(c, http)
    BY <1>6, AnswersTell
  <2>2. Open' = [Open EXCEPT ![c] = FALSE] /\ Open[c]
    <3>1. at' = [at EXCEPT ![c] = "answered"] /\ Served(c)
      BY <1>6, <2>1, AnswersTell DEF Answers
    <3>2. ~Served(c)'
      BY <1>1, <3>1 DEF Served
    <3>3. ASSUME NEW d \in Clients, d # c PROVE Served(d)' = Served(d)
      BY <1>1, <3>1, <3>3 DEF Served
    <3>4. Served(c)' = FALSE /\ Open' = [d \in Clients |-> Served(d)']
      BY <3>2 DEF Open
    <3> QED
      BY <3>1, <3>3, <3>4 DEF Open
  <2>3. status' = [status EXCEPT ![c] = http] /\ UNCHANGED <<kind, seen>>
    BY <2>1 DEF Answers
  <2>4. View!True(c, http)
    BY <2>1 DEF Told, Vouched, Outage, View!True
  <2>5. View!Answer(c, http)
    BY <1>3, <2>2, <2>3, <2>4 DEF View!Answer, Life, Ups, UpsOf, Open
  <2> QED
    BY <2>5 DEF View!Next
<1> QED
  BY <1>4, <1>5, <1>6 DEF Handle

LEMMA StepsAreViewed ==
  ASSUME RequestsInv, RequestsInv', WiringInv, [Next]_svars
  PROVE  [View!Next]_(View!vars)
<1>1. CASE Start \/ SetUpTelemetry \/ WireApp \/ EnterLifespan \/ Stop
          \/ FailToStart \/ Stopped \/ Crash
  BY <1>1, LivesAreViewed DEF FailToStart, Stopped, Crash
<1>2. CASE RedisChanges \/ PostgresFails \/ ConnectionDrops
  BY <1>2, ChangesAreViewed, DependenciesChange DEF RequestsInv, View!Next
<1>3. ASSUME NEW c \in Clients, (\E k \in Kinds : Arrive(c, k)) \/ Handle(c)
      PROVE  [View!Next]_(View!vars)
  BY <1>3, RequestsAreViewed
<1>4. ASSUME UNCHANGED <<phase, connection, redis, rvars>>
      PROVE  [View!Next]_(View!vars)
  <2>1. UNCHANGED <<Life, Ups, Open, kind, status, seen>>
    BY <1>4, OpenIs DEF Life, Ups, UpsOf, Condition, rvars
  <2> QED
    BY <2>1 DEF View!vars, Life, Ups, UpsOf, Open
<1>5. CASE Outsider \/ PostgresRecovers \/ UNCHANGED svars
          \/ \E c \in Clients : ChatMeasures(c)
  BY <1>4, <1>5 DEF Outsider, TearDown, SetUpAgain, DropInstruments, RecordPoint,
     PostgresRecovers, ChatMeasures, svars, pvars
<1> QED
  BY <1>1, <1>2, <1>3, <1>5 DEF Next, Outsider

(* What probes and users conclude from answers is so, for any number of    *)
(* clients, lives and failures: Service implements Availability.           *)
THEOREM ServiceImplementsAvailability == Spec => ImplementsAvailability
<1>1. Init => RequestsInv /\ WiringInv /\ View!Init
  BY RequestsStart, ViewStarts DEF Init, WiringInv, ServesWhenWired
<1>2. RequestsInv /\ WiringInv /\ [Next]_svars => RequestsInv' /\ WiringInv'
  BY RequestsKeep, WiringKeeps
<1>3. RequestsInv /\ RequestsInv' /\ WiringInv /\ [Next]_svars => [View!Next]_(View!vars)
  BY StepsAreViewed
<1> QED
  BY <1>1, <1>2, <1>3, PTL DEF Spec, ImplementsAvailability, View!Spec
=============================================================================
