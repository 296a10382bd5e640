------------------------------- MODULE Service -------------------------------
(***************************************************************************)
(* The life of the server process (src/main.py) and what its clients see   *)
(* of it: import with telemetry set-up, wiring of the app, the lifespan    *)
(* that opens THE connection of the checkpointer, requests, stop, crash    *)
(* and the restart by the container's policy; GET /health, which probes    *)
(* Redis and that connection (src/core/health_check.py), and POST /chat as *)
(* far as it needs the connection and records metrics.                     *)
(*                                                                         *)
(* The tests use the public API of the observability package while an app  *)
(* lives in their process: TearDown, SetUpAgain, DropInstruments and       *)
(* RecordPoint are those calls.                                            *)
(***************************************************************************)
EXTENDS Telemetry

CONSTANTS
    Clients,        \* those who send requests, one at a time each
    Environments    \* the OTEL_* settings the process may be started with

ASSUME EnvironmentsAssumption == Environments \subseteq Settings

Phases == {"down", "importing", "imported", "starting", "serving", "stopping"}
Kinds  == {"health", "chat"}
Probed == {"redis", "postgresql"}
Places == {"idle", "ping", "select", "graph", "saved", "answer", "answered"}

(* What an answer 200 vouches for *)
Needed == [health |-> Probed, chat |-> {"postgresql"}]

VARIABLES
    phase,       \* where the process is in its life
    settings,    \* the settings it was started with
    traced,      \* the app is instrumented
    redis,       \* Redis answers
    postgres,    \* the PostgreSQL server accepts connections
    connection,  \* the checkpointer's: "none", "open" or "lost"
    at,          \* [Clients -> where its request is]
    kind,        \* [Clients -> what it asked for]
    services,    \* [Clients -> the services its health check has found up; the
                 \*             dictionary ends with the request]
    status,      \* [Clients -> HTTP status of its answer, or 0]
    seen         \* [Clients -> <<service, up or not>>: what was the case at some
                 \*             moment of its request; only properties read it]

pvars == <<phase, settings, traced, connection>>
rvars == <<at, kind, services, status, seen>>
svars == <<tvars, pvars, redis, postgres, rvars>>

Served(c) == at[c] \notin {"idle", "answered"}

(* What is up for this process now: its connection, not the server *)
Condition(r, conn) == {<<"redis", r>>, <<"postgresql", conn = "open">>}

Init ==
    /\ TelemetryInit
    /\ phase = "down"
    /\ settings \in Environments
    /\ traced = FALSE
    /\ redis \in BOOLEAN
    /\ postgres \in BOOLEAN
    /\ connection = "none"
    /\ at = [c \in Clients |-> "idle"]
    /\ kind = [c \in Clients |-> "health"]
    /\ services = [c \in Clients |-> {}]
    /\ status = [c \in Clients |-> 0]
    /\ seen = [c \in Clients |-> {}]

-----------------------------------------------------------------------------
(* initialize_application, then the lifespan *)
Start ==
    /\ phase = "down"
    /\ phase' = "importing"
    /\ settings' \in Environments
    /\ UNCHANGED <<tvars, traced, connection, redis, postgres, rvars>>

SetUpTelemetry ==
    /\ phase = "importing"
    /\ phase' = "imported"
    /\ SetUpSkipped(settings) \/ SetUpCompletes(settings)
    /\ UNCHANGED <<settings, traced, connection, redis, postgres, rvars>>

(* instrument_fastapi_app: nothing unless telemetry is enabled by now *)
WireApp ==
    /\ phase = "imported"
    /\ phase' = "starting"
    /\ traced' = enabled
    /\ UNCHANGED <<tvars, settings, connection, redis, postgres, rvars>>

(* Slip: requests are accepted before the checkpointer is there *)
EnterLifespanEarly ==
    /\ phase = "starting"
    /\ phase' = "serving"
    /\ connection' = IF postgres THEN "open" ELSE "none"
    /\ UNCHANGED <<tvars, settings, traced, redis, postgres, rvars>>

EnterLifespan ==
    /\ phase = "starting"
    /\ postgres
    /\ phase' = "serving"
    /\ connection' = "open"
    /\ UNCHANGED <<tvars, settings, traced, redis, postgres, rvars>>

(* The process is gone and with it all that it kept in memory; requests in *)
(* progress are cut off                                                    *)
Exit ==
    /\ phase' = "down"
    /\ traced' = FALSE
    /\ connection' = "none"
    /\ Forget
    /\ at' = [c \in Clients |-> IF Served(c) THEN "idle" ELSE at[c]]
    /\ services' = [c \in Clients |-> {}]
    /\ UNCHANGED <<settings, redis, postgres, kind, status, seen>>

(* Telemetry or the checkpointer cannot be set up: no server *)
FailToStart ==
    /\ \/ phase = "importing" /\ settings.OTEL_ENABLED
       \/ phase = "starting"
    /\ Exit

(* SIGTERM: requests in progress are awaited, then the lifespan ends *)
Stop ==
    /\ phase = "serving"
    /\ phase' = "stopping"
    /\ UNCHANGED <<tvars, settings, traced, connection, redis, postgres, rvars>>

Stopped ==
    /\ phase = "stopping"
    /\ \A c \in Clients : ~Served(c)
    /\ Exit

Crash == phase # "down" /\ Exit

-----------------------------------------------------------------------------
(* The services the process depends on *)
Witness(r, conn) ==
    seen' = [c \in Clients |-> IF Served(c) THEN seen[c] \cup Condition(r, conn)
                                           ELSE seen[c]]

RedisChanges ==
    /\ redis' = ~redis
    /\ Witness(redis', connection)
    /\ UNCHANGED <<tvars, pvars, postgres, at, kind, services, status>>

(* A connection that is lost is not opened again by anyone *)
LoseConnection == connection' = IF connection = "open" THEN "lost" ELSE connection

PostgresFails ==
    /\ postgres
    /\ postgres' = FALSE
    /\ LoseConnection
    /\ Witness(redis, connection')
    /\ UNCHANGED <<tvars, phase, settings, traced, redis, at, kind, services, status>>

PostgresRecovers ==
    /\ ~postgres
    /\ postgres' = TRUE
    /\ UNCHANGED <<tvars, pvars, redis, rvars>>

ConnectionDrops ==
    /\ connection = "open"
    /\ LoseConnection
    /\ Witness(redis, connection')
    /\ UNCHANGED <<tvars, phase, settings, traced, redis, postgres, at, kind, services,
                   status>>

-----------------------------------------------------------------------------
(* Slip: a path without a handler *)
ArriveByName(c, k) ==
    /\ phase = "serving"
    /\ ~Served(c)
    /\ at' = [at EXCEPT ![c] = k]
    /\ kind' = [kind EXCEPT ![c] = k]
    /\ services' = [services EXCEPT ![c] = {}]
    /\ status' = [status EXCEPT ![c] = 0]
    /\ seen' = [seen EXCEPT ![c] = Condition(redis, connection)]
    /\ UNCHANGED <<tvars, pvars, redis, postgres>>

(* Requests pass the logging middleware, which answers nothing by itself *)
Arrive(c, k) ==
    /\ phase = "serving"
    /\ ~Served(c)
    /\ at' = [at EXCEPT ![c] = IF k = "health" THEN "ping" ELSE "graph"]
    /\ kind' = [kind EXCEPT ![c] = k]
    /\ services' = [services EXCEPT ![c] = {}]
    /\ status' = [status EXCEPT ![c] = 0]
    /\ seen' = [seen EXCEPT ![c] = Condition(redis, connection)]
    /\ UNCHANGED <<tvars, pvars, redis, postgres>>

(* Slip: the second result takes the place of the first *)
ProbeReplaces(c, service, up, next) ==
    /\ at' = [at EXCEPT ![c] = next]
    /\ services' = [services EXCEPT ![c] = IF up THEN {service} ELSE @]
    /\ UNCHANGED <<tvars, pvars, redis, postgres, kind, status, seen>>

Probe(c, service, up, next) ==
    /\ at' = [at EXCEPT ![c] = next]
    /\ services' = [services EXCEPT ![c] = IF up THEN @ \cup {service} ELSE @]
    /\ UNCHANGED <<tvars, pvars, redis, postgres, kind, status, seen>>

Ping(c) == at[c] = "ping" /\ Probe(c, "redis", redis, "select")

(* Slip: a connection of its own would be probed *)
SelectAnew(c) == at[c] = "select" /\ Probe(c, "postgresql", postgres, "answer")

(* Slip: the probe waits for a connection that works *)
SelectWaits(c) ==
    at[c] = "select" /\ connection = "open" /\ Probe(c, "postgresql", TRUE, "answer")

(* SELECT 1 on the checkpointer's connection *)
Select(c) == at[c] = "select" /\ Probe(c, "postgresql", connection = "open", "answer")

Answers(c, http) ==
    /\ at' = [at EXCEPT ![c] = "answered"]
    /\ status' = [status EXCEPT ![c] = http]
    /\ services' = [services EXCEPT ![c] = {}]
    /\ UNCHANGED <<tvars, pvars, redis, postgres, kind, seen>>

Report(c) ==
    /\ at[c] = "answer"
    /\ Answers(c, IF services[c] = Probed THEN 200 ELSE 503)

(* A conversation: points are recorded, checkpoints need the connection *)
ChatMeasures(c) ==
    /\ at[c] = "graph"
    /\ Measure
    /\ UNCHANGED <<pvars, redis, postgres, rvars>>

(* The last checkpoint is written *)
ChatSaves(c) ==
    /\ at[c] = "graph" /\ connection = "open"
    /\ at' = [at EXCEPT ![c] = "saved"]
    /\ UNCHANGED <<tvars, pvars, redis, postgres, kind, services, status, seen>>

(* 500 whatever fails, the writing of the answer after the last checkpoint *)
(* included                                                                *)
ChatAnswers(c) ==
    \/ at[c] \in {"graph", "saved"} /\ Answers(c, 500)
    \/ at[c] = "saved" /\ Answers(c, 200)

-----------------------------------------------------------------------------
(* Callers of the public API: telemetry is shut down, set up again from a  *)
(* clean state, the instruments are dropped, a point is recorded           *)
TearDown ==
    /\ phase = "serving"
    /\ ShutDownCompletes \/ ShutDownRaises
    /\ UNCHANGED <<pvars, redis, postgres, rvars>>

SetUpAgain(s) ==
    /\ phase = "serving" /\ Clean /\ setups < MaxSetups
    /\ SetUpSkipped(s) \/ SetUpCompletes(s) \/ SetUpRaises(s)
    /\ UNCHANGED <<pvars, redis, postgres, rvars>>

DropInstruments ==
    /\ phase = "serving"
    /\ Reset
    /\ UNCHANGED <<pvars, redis, postgres, rvars>>

RecordPoint ==
    /\ phase = "serving"
    /\ Measure
    /\ UNCHANGED <<pvars, redis, postgres, rvars>>

Handle(c) == Ping(c) \/ Select(c) \/ Report(c) \/ ChatSaves(c) \/ ChatAnswers(c)

Next ==
    \/ Start \/ SetUpTelemetry \/ WireApp \/ EnterLifespan \/ FailToStart
    \/ Stop \/ Stopped \/ Crash
    \/ RedisChanges \/ PostgresFails \/ PostgresRecovers \/ ConnectionDrops
    \/ \E c \in Clients : \/ \E k \in Kinds : Arrive(c, k)
                          \/ Handle(c) \/ ChatMeasures(c)
    \/ TearDown \/ DropInstruments \/ RecordPoint
    \/ \E s \in Environments : SetUpAgain(s)

Spec == Init /\ [][Next]_svars

(* The event loop resumes what is ready; the container's restart policy    *)
(* starts the process again                                                *)
FairSpec == Spec /\ \A c \in Clients : WF_svars(Handle(c))

-----------------------------------------------------------------------------
(* Every variable holds a value of its kind. *)
TypeOK ==
    /\ TelemetryTypeOK
    /\ phase \in Phases
    /\ settings \in Environments
    /\ {traced, redis, postgres} \subseteq BOOLEAN
    /\ connection \in {"none", "open", "lost"}
    /\ at \in [Clients -> Places]
    /\ kind \in [Clients -> Kinds]
    /\ services \in [Clients -> SUBSET Probed]
    /\ status \in [Clients -> {0, 200, 500, 503}]
    /\ seen \in [Clients -> SUBSET (Probed \X BOOLEAN)]

(* Whatever exports can be stopped, and exports alone: an exporter at work *)
(* belongs to the provider that _state holds for its signal, so shutdown   *)
(* reaches it and nothing is exported twice -- after set-ups that raised   *)
(* half-way and shutdowns that raised half-way too.                        *)
NoOrphanExporter ==
    \A p \in running : held[p[1]] = p[2]

(* What a caller can rely on: set up with an empty cache, a meter provider *)
(* gets what is counted until it is shut down, be it the first of the      *)
(* process or not, and whatever failed, stopped or was dropped before.  A  *)
(* cache that is left from before a shutdown, which nothing but Reset      *)
(* empties, may hold other instruments under the address of its meter.     *)
CleanSetUpCounts ==
    fresh /\ meter # NONE => cache[meter] \in {NONE, held["metrics"]}

(* No request is served before the wiring is complete: the checkpointer is *)
(* there, and the app is instrumented if telemetry was on at boot.         *)
ServesWhenWired ==
    phase \in {"serving", "stopping"} =>
        /\ connection # "none"
        /\ settings.OTEL_ENABLED => traced

(* An answer 200 is never older than the request: each service it vouches  *)
(* for was up at some moment since the request came.  A connection lost    *)
(* before that is never up again, be the server back or not, so this       *)
(* process answers 503 and 500 from then on.                               *)
OkIsCurrent ==
    \A c \in Clients : status[c] = 200 =>
        \A service \in Needed[kind[c]] : <<service, TRUE>> \in seen[c]

(* Nor is a 503: a service that the health check reports down was down at  *)
(* some moment since the request came, so that nobody restarts a process   *)
(* that was well throughout.                                               *)
OutageIsCurrent ==
    \A c \in Clients : status[c] = 503 =>
        \E service \in Probed : <<service, FALSE>> \in seen[c]

View == INSTANCE Availability WITH
    Services <- Probed, Held <- {"postgresql"},
    life <- IF phase = "serving" THEN "on"
            ELSE IF phase = "stopping" THEN "closing" ELSE "off",
    up <- {service \in Probed : <<service, TRUE>> \in Condition(redis, connection)},
    open <- [c \in Clients |-> Served(c)], asked <- kind, answer <- status,
    observed <- seen

(* Whatever fails, recovers, stops or dies, in boot, probes and telemetry: *)
(* requests are taken only by a process that has all it holds for good,    *)
(* what it loses it never gets back in this life, and its answers say what *)
(* was the case during the request.                                        *)
ImplementsAvailability == View!Spec

(* Every request is answered, unless the process dies under it. *)
EveryRequestIsAnswered ==
    \A c \in Clients : Served(c) ~> (at[c] = "answered" \/ phase = "down")
=============================================================================
