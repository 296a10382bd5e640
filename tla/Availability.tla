---------------------------- MODULE Availability ----------------------------
(***************************************************************************)
(* What those who probe and use the server may conclude from its answers,  *)
(* without boot, telemetry and the stages of a health check: a life of the *)
(* process begins with all that it holds, what it loses of that is lost    *)
(* for this life, and answers are true of the time of the request.         *)
(* Service implements this specification.                                  *)
(***************************************************************************)
CONSTANTS
    Clients, Kinds, Services,
    Held,       \* services of which a life holds one connection
    Needed      \* [Kinds -> the services an answer 200 vouches for]

VARIABLES
    life,       \* "off", "on" or "closing"
    up,         \* the services that are up for the process
    open,       \* [Clients -> a request is in progress]
    asked,      \* [Clients -> what the latest request asked for]
    answer,     \* [Clients -> its HTTP status, or 0]
    observed    \* [Clients -> what was the case at some moment of it]

vars == <<life, up, open, asked, answer, observed>>

Now(ups) == {<<service, service \in ups>> : service \in Services}

Init ==
    /\ life = "off"
    /\ up \in SUBSET (Services \ Held)
    /\ open = [c \in Clients |-> FALSE]
    /\ asked \in [Clients -> Kinds]
    /\ answer = [c \in Clients |-> 0]
    /\ observed = [c \in Clients |-> {}]

(* Services come and go, but what the process holds is not opened again *)
Change ==
    /\ up' \in SUBSET Services
    /\ up' \cap Held \subseteq up
    /\ observed' = [c \in Clients |-> IF open[c] THEN observed[c] \cup Now(up')
                                                ELSE observed[c]]
    /\ UNCHANGED <<life, open, asked, answer>>

Boot ==
    /\ life = "off"
    /\ life' = "on"
    /\ up' = up \cup Held
    /\ UNCHANGED <<open, asked, answer, observed>>

Close ==
    /\ life = "on"
    /\ life' = "closing"
    /\ UNCHANGED <<up, open, asked, answer, observed>>

(* The end of a life, in order or not: nobody is answered any more *)
Die ==
    /\ life' = "off"
    /\ up' = up \ Held
    /\ open' = [c \in Clients |-> FALSE]
    /\ UNCHANGED <<asked, answer, observed>>

Ask(c, k) ==
    /\ life = "on"
    /\ ~open[c]
    /\ open' = [open EXCEPT ![c] = TRUE]
    /\ asked' = [asked EXCEPT ![c] = k]
    /\ answer' = [answer EXCEPT ![c] = 0]
    /\ observed' = [observed EXCEPT ![c] = Now(up)]
    /\ UNCHANGED <<life, up>>

True(c, http) ==
    \/ http = 200 /\ \A service \in Needed[asked[c]] : <<service, TRUE>> \in observed[c]
    \/ http = 503 /\ \E service \in Services : <<service, FALSE>> \in observed[c]
    \/ http = 500 /\ asked[c] = "chat"

Answer(c, http) ==
    /\ open[c]
    /\ True(c, http)
    /\ open' = [open EXCEPT ![c] = FALSE]
    /\ answer' = [answer EXCEPT ![c] = http]
    /\ UNCHANGED <<life, up, asked, observed>>

Next ==
    \/ Change \/ Boot \/ Close \/ Die
    \/ \E c \in Clients : \/ \E k \in Kinds : Ask(c, k)
                          \/ \E http \in {200, 500, 503} : Answer(c, http)

Spec == Init /\ [][Next]_vars
=============================================================================
