------------------------------ MODULE BankTokens ------------------------------
(***************************************************************************)
(* What the bank calls of a request may expect of get_valid_token, without *)
(* Redis, the event loop and the retries: a client asks, logins are posted *)
(* a limited number of times, and it is granted a token that the bank      *)
(* issued and that is not stale, or told why not.  BankingAuth implements  *)
(* this specification.                                                     *)
(***************************************************************************)
EXTENDS Naturals

CONSTANTS Clients, NoToken, MAX_RETRIES, LIFETIME, Staleness

VARIABLES
    now,       \* the clock
    tokens,    \* those in circulation, each the instant it expires
    asking,    \* [Clients -> a call is in progress]
    posts,     \* [Clients -> logins posted by it]
    outcome,   \* [Clients -> how the latest call ended]
    granted    \* [Clients -> the token it was granted, or NoToken]

vars == <<now, tokens, asking, posts, outcome, granted>>

Init ==
    /\ now = 0
    /\ tokens = {}
    /\ asking = [c \in Clients |-> FALSE]
    /\ posts = [c \in Clients |-> 0]
    /\ outcome = [c \in Clients |-> "pending"]
    /\ granted = [c \in Clients |-> NoToken]

(* A token comes from the bank and nowhere else; it may get lost *)
Issue ==
    /\ tokens' \subseteq tokens \cup {now + LIFETIME}
    /\ UNCHANGED <<now, asking, posts, outcome, granted>>

(* A client's own call, or the end of what was granted to it before *)
Begin(c, asks) ==
    /\ ~asking[c]
    /\ tokens' \subseteq tokens
    /\ asking' = [asking EXCEPT ![c] = asks]
    /\ outcome' = [outcome EXCEPT ![c] = "pending"]
    /\ granted' = [granted EXCEPT ![c] = NoToken]
    /\ UNCHANGED <<now, posts>>

Post(c) ==
    /\ asking[c]
    /\ posts[c] <= MAX_RETRIES
    /\ posts' = [posts EXCEPT ![c] = @ + 1]
    /\ UNCHANGED <<now, tokens, asking, outcome, granted>>

End(c, how, token) ==
    /\ asking[c]
    /\ tokens' \subseteq tokens
    /\ asking' = [asking EXCEPT ![c] = FALSE]
    /\ posts' = [posts EXCEPT ![c] = 0]
    /\ outcome' = [outcome EXCEPT ![c] = how]
    /\ granted' = [granted EXCEPT ![c] = token]
    /\ UNCHANGED now

(* Staleness: see StaleByDelaysOnly of BankingAuth *)
Grant(c) ==
    \E token \in tokens \ {NoToken} :
        /\ now < token + Staleness
        /\ End(c, "token", token)

Refuse(c) ==
    \/ End(c, "cache", NoToken)
    \/ posts[c] = MAX_RETRIES + 1 /\ End(c, "exhausted", NoToken)

Tick ==
    /\ now' = now + 1
    /\ UNCHANGED <<tokens, asking, posts, outcome, granted>>

Next ==
    \/ Issue \/ Tick
    \/ \E c \in Clients : \/ \E asks \in BOOLEAN : Begin(c, asks)
                          \/ Post(c) \/ Grant(c) \/ Refuse(c)

Spec == Init /\ [][Next]_vars
=============================================================================
