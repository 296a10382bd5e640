------------------------------ MODULE Telemetry ------------------------------
(***************************************************************************)
(* The set-up and shutdown of OpenTelemetry in one process                 *)
(* (src/core/observability/telemetry.py): which providers the module       *)
(* holds, which exporters run, which log handlers and instrumentations are *)
(* in place, and the cache of metric instruments of domain_metrics.py.     *)
(*                                                                         *)
(* setup() and shutdown() are synchronous: nothing of the process runs     *)
(* between two of their stages, but a stage may raise and leave the rest   *)
(* undone.  A provider is named by its signal and the number of the set-up *)
(* that built it.  The cache is keyed by id(meter), the meter's address,   *)
(* which the interpreter gives to another object once the meter is gone.   *)
(***************************************************************************)
EXTENDS Naturals, FiniteSets

CONSTANTS
    NONE,           \* Python's None
    NOOP,           \* instruments of a no-op or proxy meter
    Instrumentors,  \* the libraries instrument_io and instrument_llm patch
    Addresses,      \* addresses that a meter can have
    MaxSetups       \* bound: set-ups in one process

ASSUME SetupsAssumption  == MaxSetups \in Nat \ {0}
ASSUME MarkersAssumption == NONE \notin Nat /\ NOOP \notin Nat /\ NONE \notin Addresses

Signals  == {"traces", "metrics", "logs"}
Settings == [OTEL_ENABLED: BOOLEAN, OTEL_METRICS_ENABLED: BOOLEAN,
             OTEL_LOGS_EXPORT_ENABLED: BOOLEAN]
Setups   == 1..MaxSetups

VARIABLES
    enabled,      \* _state.enabled
    held,         \* [Signals -> set-up whose provider _state holds, or NONE]
    registered,   \* _state.instrumentors
    setups,       \* how many set-ups have built providers
    running,      \* the providers whose exporter is at work
    handlers,     \* set-ups whose handler is on the root logger
    patched,      \* the libraries that are instrumented
    global,       \* the set-up whose meter provider the API keeps, or NONE
    meter,        \* address of the held provider's domain meter, or NONE
    pinned,       \* addresses of meters that live as long as the process
    cache,        \* [Addresses -> whose instruments _cache has there]
    fresh         \* the cache was empty when the held meter provider was set up;
                  \* only a property reads it

tvars == <<enabled, held, registered, setups, running, handlers, patched,
           global, meter, pinned, cache, fresh>>

TelemetryTypeOK ==
    /\ enabled \in BOOLEAN
    /\ held \in [Signals -> Setups \cup {NONE}]
    /\ registered \subseteq Instrumentors
    /\ setups \in 0..MaxSetups
    /\ running \subseteq Signals \X Setups
    /\ handlers \subseteq Setups
    /\ patched \subseteq Instrumentors
    /\ global \in Setups \cup {NONE}
    /\ meter \in Addresses \cup {NONE}
    /\ pinned \subseteq Addresses
    /\ cache \in [Addresses -> Setups \cup {NOOP, NONE}]
    /\ fresh \in BOOLEAN

Nothing == [x \in Signals |-> NONE]
NoCache == [a \in Addresses |-> NONE]

(* The module as import leaves it *)
TelemetryInit ==
    /\ enabled = FALSE
    /\ held = Nothing
    /\ registered = {}
    /\ setups = 0
    /\ running = {}
    /\ handlers = {}
    /\ patched = {}
    /\ global = NONE
    /\ meter = NONE
    /\ pinned = {}
    /\ cache = NoCache
    /\ fresh = TRUE

(* The process ends *)
Forget ==
    /\ enabled' = FALSE
    /\ held' = Nothing
    /\ registered' = {}
    /\ setups' = 0
    /\ running' = {}
    /\ handlers' = {}
    /\ patched' = {}
    /\ global' = NONE
    /\ meter' = NONE
    /\ pinned' = {}
    /\ cache' = NoCache
    /\ fresh' = TRUE

-----------------------------------------------------------------------------
(* setup: tracing, then metrics and logs unless their toggle is off *)
Requested(s) == {"traces"}
    \cup (IF s.OTEL_METRICS_ENABLED THEN {"metrics"} ELSE {})
    \cup (IF s.OTEL_LOGS_EXPORT_ENABLED THEN {"logs"} ELSE {})

Before(x) == CASE x = "traces"  -> {}
               [] x = "metrics" -> {"traces"}
               [] x = "logs"    -> {"traces", "metrics"}

(* Providers of these signals are built, held and begin to export.  The    *)
(* API accepts a meter provider once in a process (external).              *)
Build(built) ==
    /\ setups' = setups + 1
    /\ held' = [x \in Signals |-> IF x \in built THEN setups + 1 ELSE held[x]]
    /\ running' = running \cup (built \X {setups + 1})
    /\ handlers' = IF "logs" \in built THEN handlers \cup {setups + 1} ELSE handlers
    /\ meter' = IF "metrics" \in built THEN NONE ELSE meter
    /\ global' = IF "metrics" \in built /\ global = NONE THEN setups + 1 ELSE global
    /\ fresh' = IF "metrics" \in built THEN cache = NoCache ELSE fresh
    /\ UNCHANGED <<pinned, cache>>

(* Disabled, or enabled already: setup returns at once *)
SetUpSkipped(s) ==
    /\ ~s.OTEL_ENABLED \/ enabled
    /\ UNCHANGED tvars

(* _safe_instrument: an instrumentation that fails is skipped *)
Instrument ==
    \E done \in SUBSET Instrumentors :
       /\ patched' = patched \cup done
       /\ registered' = registered \cup done

(* `enabled' is set last *)
SetUpCompletes(s) ==
    /\ s.OTEL_ENABLED /\ ~enabled
    /\ Build(Requested(s))
    /\ Instrument
    /\ enabled' = TRUE

(* A provider cannot be built: setup raises and keeps what it has built *)
SetUpRaises(s) ==
    /\ s.OTEL_ENABLED /\ ~enabled
    /\ \E x \in Requested(s) : Build(Requested(s) \cap Before(x))
    /\ UNCHANGED <<enabled, registered, patched>>

-----------------------------------------------------------------------------
(* shutdown first removes the instrumentations; those that fail stay *)
Uninstrument ==
    /\ \E undone \in SUBSET registered : patched' = patched \ undone
    /\ registered' = {}

Provider(x) == <<x, held[x]>>

ShutDownCompletes ==
    /\ Uninstrument
    /\ running' = running \ {Provider(x) : x \in Signals}
    /\ held' = Nothing
    /\ meter' = NONE
    /\ enabled' = FALSE
    /\ UNCHANGED <<setups, handlers, global, pinned, cache, fresh>>

(* Slip: _state is emptied although the providers after x still export *)
ShutDownForgets ==
    /\ Uninstrument
    /\ \E x \in Signals :
         /\ held[x] # NONE
         /\ running' = running \ {Provider(y) : y \in Before(x)}
    /\ held' = Nothing
    /\ meter' = NONE
    /\ enabled' = FALSE
    /\ UNCHANGED <<setups, handlers, global, pinned, cache, fresh>>

(* The provider of x raises, stopped or not: _state is left as it was *)
ShutDownRaises ==
    /\ Uninstrument
    /\ \E x \in Signals :
         /\ held[x] # NONE
         /\ \E stopped \in {Before(x), Before(x) \cup {x}} :
              running' = running \ {Provider(y) : y \in stopped}
    /\ UNCHANGED <<enabled, held, setups, handlers, global, meter, pinned, cache, fresh>>

(* domain_metrics.reset, which neither setup nor shutdown calls *)
Reset ==
    /\ cache' = NoCache
    /\ UNCHANGED <<enabled, held, registered, setups, running, handlers, patched,
                   global, meter, pinned, fresh>>

-----------------------------------------------------------------------------
(* _instruments: the instruments of the meter at address a, built at need *)
Instruments(a, owner) ==
    cache' = [cache EXCEPT ![a] = IF @ = NONE THEN owner ELSE @]

(* The meter of the held provider, made when it is first asked for.  It    *)
(* lives as long as its provider, which the API's never goes.              *)
HeldMeter ==
    \E a \in Addresses :
       /\ IF meter # NONE THEN a = meter ELSE a \notin pinned
       /\ meter' = a
       /\ pinned' = IF global = held["metrics"] THEN pinned \cup {a} ELSE pinned
       /\ Instruments(a, held["metrics"])

(* A meter that exports nothing: of a provider that is shut down, gone at  *)
(* once, or the API's proxy for one that is yet to be set, which it keeps  *)
SilentMeter ==
    \E a \in Addresses \ (pinned \cup {meter}) :
       /\ pinned' = IF global = NONE THEN pinned \cup {a} ELSE pinned
       /\ Instruments(a, NOOP)
       /\ UNCHANGED meter

Kept == <<enabled, held, registered, setups, running, handlers, patched, global, fresh>>

(* Slip: get_meter asks the API, whose provider is that of the first set-up *)
MeasureOfAPI ==
    /\ \E a \in Addresses :
          /\ IF meter # NONE THEN a = meter ELSE a \notin pinned
          /\ meter' = IF Provider("metrics") \in running THEN a ELSE meter
          /\ Instruments(a, IF <<"metrics", global>> \in running THEN global ELSE NOOP)
    /\ UNCHANGED <<Kept, pinned>>

(* A point is recorded, on the meter that get_meter finds *)
Measure ==
    /\ IF Provider("metrics") \in running THEN HeldMeter ELSE SilentMeter
    /\ UNCHANGED Kept

(* _state holds no provider: so it is after import and after a shutdown *)
Clean == held = Nothing
=============================================================================
