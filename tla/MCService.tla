------------------------------ MODULE MCService ------------------------------
(* Instances of Service for TLC *)
EXTENDS Service

Off    == [OTEL_ENABLED |-> FALSE, OTEL_METRICS_ENABLED |-> TRUE,
           OTEL_LOGS_EXPORT_ENABLED |-> TRUE]
On     == [Off EXCEPT !.OTEL_ENABLED = TRUE]
Traces == [On EXCEPT !.OTEL_METRICS_ENABLED = FALSE, !.OTEL_LOGS_EXPORT_ENABLED = FALSE]

MCEnvironments == {Off, On, Traces}
=============================================================================
