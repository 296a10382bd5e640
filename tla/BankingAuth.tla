----------------------------- MODULE BankingAuth -----------------------------
(***************************************************************************)
(* The access token of the banking API: BankingAuth.get_valid_token and    *)
(* login, over the Redis cache that every request shares.                  *)
(*                                                                         *)
(* A client is a slot for chat requests: each request has a BankingAuth    *)
(* instance and asks it for a token before each of its bank calls, one     *)
(* after the other.  The requests of the process are coroutines of one     *)
(* event loop: Redis calls are awaited, so that others run meanwhile, but  *)
(* the POST to the bank is synchronous and holds the loop until it         *)
(* returns.                                                                *)
(*                                                                         *)
(* A token is represented by the instant it expires at the bank, which is  *)
(* all that is asked of it; NoToken is Python's None.  There is one clock, *)
(* and a wait (for Redis, the bank or the loop) lasts MaxDelay at most.    *)
(***************************************************************************)
EXTENDS Naturals

CONSTANTS
    Clients,    \* chat requests at work, all given the shared cache
    MAX_RETRIES,\* retries of get_valid_token: 3 in the code
    LIFETIME,   \* the validity of a token at the bank
    EXPIRES_IN, \* what login takes for it: expiresIn, or 3600 without one
    MaxDelay,   \* bound: duration of one wait
    MaxNow      \* bound: the clock

ASSUME RetriesAssumption  == MAX_RETRIES \in Nat
ASSUME LifetimeAssumption == LIFETIME \in Nat \ {0} /\ EXPIRES_IN \in Nat \ {0}
ASSUME BoundsAssumption   == MaxDelay \in Nat /\ MaxNow \in Nat

NoToken == 0

VARIABLES
    now,         \* the clock
    cache,       \* "banking:access_token": the token, and when Redis drops it
    pc,          \* [Clients -> where the call is]
    due,         \* [Clients -> when its current wait is over at the latest]
    seen,        \* [Clients -> the token Redis answered]
    reply,       \* [Clients -> the accessToken in the bank's answer]
    token,       \* [Clients -> self.token]
    expiration,  \* [Clients -> self.token_expiration_time]
    retries,     \* [Clients -> the argument of the running call]
    logins,      \* [Clients -> logins tried by the running call]
    obtained,    \* [Clients -> the date that the running call gave to a token]
    result       \* [Clients -> how the latest call ended; a token: self.token]

clientVars == <<pc, due, seen, reply, token, expiration, retries, logins,
                obtained, result>>
vars == <<now, cache, clientVars>>

Pcs     == {"idle", "get", "got", "login", "response", "set", "stored"}
Results == {"pending", "token", "cache", "exhausted"}
Empty   == [token |-> NoToken, until |-> 0]

Init ==
    /\ now = 0
    /\ cache = Empty
    /\ pc = [c \in Clients |-> "idle"]
    /\ due = [c \in Clients |-> 0]
    /\ seen = [c \in Clients |-> NoToken]
    /\ reply = [c \in Clients |-> NoToken]
    /\ token = [c \in Clients |-> NoToken]
    /\ expiration = [c \in Clients |-> 0]
    /\ retries = [c \in Clients |-> 0]
    /\ logins = [c \in Clients |-> 0]
    /\ obtained = [c \in Clients |-> NoToken]
    /\ result = [c \in Clients |-> "pending"]

-----------------------------------------------------------------------------
Goto(c, step) ==
    /\ pc' = [pc EXCEPT ![c] = step]
    /\ due' = [due EXCEPT ![c] = IF step = "idle" THEN 0 ELSE now + MaxDelay]

(* No other coroutine holds the event loop in a synchronous POST *)
LoopFree(c) == \A o \in Clients \ {c} : pc[o] \notin {"login", "response"}

(* What GET banking:access_token finds *)
Cached == IF now < cache.until THEN cache.token ELSE NoToken

(* Slip: the token is stored without a ttl *)
StoredForGood(t) == [token |-> t, until |-> MaxNow + 1]

(* Slip: the date of the token is stored in its place *)
StoredDate(t) == [token |-> now + EXPIRES_IN, until |-> now + EXPIRES_IN]

(* What SET banking:access_token with the ttl of the token leaves *)
Stored(t) == [token |-> t, until |-> now + EXPIRES_IN]

(* Slip: only the cache is asked *)
InMemoryIgnored(c) == FALSE

InMemory(c) == token[c] # NoToken /\ now < expiration[c]

Ends(c, kind) ==
    /\ Goto(c, "idle")
    /\ result' = [result EXCEPT ![c] = kind]
    /\ retries' = [retries EXCEPT ![c] = 0]
    /\ logins' = [logins EXCEPT ![c] = 0]
    /\ obtained' = [obtained EXCEPT ![c] = NoToken]

(* Slip: one retry too many *)
RetryOnceMore(c) ==
    \/ /\ retries[c] <= MAX_RETRIES
       /\ retries' = [retries EXCEPT ![c] = @ + 1]
       /\ Goto(c, "get")
       /\ UNCHANGED <<logins, obtained, result>>
    \/ /\ retries[c] > MAX_RETRIES
       /\ Ends(c, "exhausted")

(* Slip: one retry too few *)
RetryOnceLess(c) ==
    \/ /\ retries[c] + 1 < MAX_RETRIES
       /\ retries' = [retries EXCEPT ![c] = @ + 1]
       /\ Goto(c, "get")
       /\ UNCHANGED <<logins, obtained, result>>
    \/ /\ retries[c] + 1 >= MAX_RETRIES
       /\ Ends(c, "exhausted")

(* Slip: get_valid_token() without its argument is a call from the start *)
RetryUncounted(c) ==
    /\ Goto(c, "get")
    /\ logins' = [logins EXCEPT ![c] = 0]
    /\ obtained' = [obtained EXCEPT ![c] = NoToken]
    /\ UNCHANGED <<retries, result>>

(* login raised: get_valid_token(retries + 1), or the last exception *)
Retry(c) ==
    \/ /\ retries[c] < MAX_RETRIES
       /\ retries' = [retries EXCEPT ![c] = @ + 1]
       /\ Goto(c, "get")
       /\ UNCHANGED <<logins, obtained, result>>
    \/ /\ ~(retries[c] < MAX_RETRIES)
       /\ Ends(c, "exhausted")

-----------------------------------------------------------------------------
(* Another chat request: GraphProcessor builds an instance of its own *)
NewInstance(c) ==
    /\ pc[c] = "idle" /\ LoopFree(c)
    /\ token' = [token EXCEPT ![c] = NoToken]
    /\ expiration' = [expiration EXCEPT ![c] = 0]
    /\ result' = [result EXCEPT ![c] = "pending"]
    /\ UNCHANGED <<now, cache, pc, due, seen, reply, retries, logins, obtained>>

(* The instance is asked for a token *)
Call(c) ==
    /\ pc[c] = "idle" /\ LoopFree(c)
    /\ Goto(c, "get")
    /\ result' = [result EXCEPT ![c] = "pending"]
    /\ UNCHANGED <<now, cache, seen, reply, token, expiration, retries, logins,
                   obtained>>

(* Redis answers; the coroutine resumes later *)
ReadCache(c) ==
    /\ pc[c] = "get"
    /\ Goto(c, "got")
    /\ seen' = [seen EXCEPT ![c] = Cached]
    /\ UNCHANGED <<now, cache, reply, token, expiration, retries, logins,
                   obtained, result>>

(* The read is outside the try block: its failure is the caller's *)
ReadFails(c) ==
    /\ pc[c] = "get" /\ LoopFree(c)
    /\ Ends(c, "cache")
    /\ UNCHANGED <<now, cache, seen, reply, token, expiration>>

CacheHit(c) ==
    /\ pc[c] = "got" /\ LoopFree(c)
    /\ seen[c] # NoToken
    /\ token' = [token EXCEPT ![c] = seen[c]]
    /\ seen' = [seen EXCEPT ![c] = NoToken]
    /\ Ends(c, "token")
    /\ UNCHANGED <<now, cache, reply, expiration>>

MemoryHit(c) ==
    /\ pc[c] = "got" /\ LoopFree(c)
    /\ seen[c] = NoToken
    /\ InMemory(c)
    /\ Ends(c, "token")
    /\ UNCHANGED <<now, cache, seen, reply, token, expiration>>

(* The assertion is signed and posted *)
Login(c) ==
    /\ pc[c] = "got" /\ LoopFree(c)
    /\ seen[c] = NoToken
    /\ ~InMemory(c)
    /\ Goto(c, "login")
    /\ logins' = [logins EXCEPT ![c] = @ + 1]
    /\ UNCHANGED <<now, cache, seen, reply, token, expiration, retries,
                   obtained, result>>

(* The bank issues a token; its answer may lack the accessToken *)
BankIssues(c) ==
    /\ pc[c] = "login"
    /\ Goto(c, "response")
    /\ \E t \in {NoToken, now + LIFETIME} : reply' = [reply EXCEPT ![c] = t]
    /\ UNCHANGED <<now, cache, seen, token, expiration, retries, logins,
                   obtained, result>>

(* A setting or the key is missing, the bank refuses, or no answer that    *)
(* can be read comes back                                                  *)
LoginFails(c) ==
    /\ pc[c] = "login"
    /\ Retry(c)
    /\ UNCHANGED <<now, cache, seen, reply, token, expiration>>

LoginReturns(c) ==
    /\ pc[c] = "response"
    /\ Goto(c, "set")
    /\ token' = [token EXCEPT ![c] = reply[c]]
    /\ expiration' = [expiration EXCEPT ![c] = now + EXPIRES_IN]
    /\ obtained' = [obtained EXCEPT ![c] = IF reply[c] = NoToken THEN NoToken
                                            ELSE now + EXPIRES_IN]
    /\ reply' = [reply EXCEPT ![c] = NoToken]
    /\ UNCHANGED <<now, cache, seen, retries, logins, result>>

(* expiresIn is null: the token is kept, its date is not computed *)
LoginUndated(c) ==
    /\ pc[c] = "response"
    /\ token' = [token EXCEPT ![c] = reply[c]]
    /\ reply' = [reply EXCEPT ![c] = NoToken]
    /\ Retry(c)
    /\ UNCHANGED <<now, cache, seen, expiration>>

(* Redis stores the token (it refuses None); the coroutine resumes later *)
StoreToken(c) ==
    /\ pc[c] = "set"
    /\ token[c] # NoToken
    /\ Goto(c, "stored")
    /\ cache' = Stored(token[c])
    /\ UNCHANGED <<now, seen, reply, token, expiration, retries, logins,
                   obtained, result>>

(* Slip: the error of the SET is only logged *)
StoreFailsSilently(c) ==
    /\ pc[c] = "set" /\ LoopFree(c)
    /\ Ends(c, "token")
    /\ UNCHANGED <<now, cache, seen, reply, token, expiration>>

(* The SET raises, whether or not Redis executed it: the login failed *)
StoreFails(c) ==
    /\ pc[c] = "set" /\ LoopFree(c)
    /\ Retry(c)
    /\ \/ UNCHANGED cache
       \/ token[c] # NoToken /\ cache' = Stored(token[c])
    /\ UNCHANGED <<now, seen, reply, token, expiration>>

LoggedIn(c) ==
    /\ pc[c] = "stored" /\ LoopFree(c)
    /\ Ends(c, "token")
    /\ UNCHANGED <<now, cache, seen, reply, token, expiration>>

(* Redis restarts or evicts the key *)
CacheLost ==
    /\ cache # Empty
    /\ cache' = Empty
    /\ UNCHANGED <<now, clientVars>>

(* Time passes, up to the end of the shortest wait *)
Tick ==
    /\ now < MaxNow
    /\ \A c \in Clients : pc[c] # "idle" => now < due[c]
    /\ now' = now + 1
    /\ UNCHANGED <<cache, clientVars>>

Step(c) ==
    \/ ReadCache(c) \/ ReadFails(c) \/ CacheHit(c) \/ MemoryHit(c)
    \/ Login(c) \/ BankIssues(c) \/ LoginFails(c) \/ LoginReturns(c)
    \/ LoginUndated(c) \/ StoreToken(c) \/ StoreFails(c) \/ LoggedIn(c)

Next ==
    \/ \E c \in Clients : NewInstance(c) \/ Call(c) \/ Step(c)
    \/ CacheLost \/ Tick

Spec == Init /\ [][Next]_vars

(***************************************************************************)
(* The event loop resumes coroutines in the order they became ready, so    *)
(* that none waits for ever while others come and go; Redis and the bank   *)
(* answer at last, one way or another.                                     *)
(***************************************************************************)
FairSpec == Spec /\ \A c \in Clients : SF_vars(Step(c))

-----------------------------------------------------------------------------
(* Every variable holds a value of its kind. *)
TypeOK ==
    /\ now \in Nat
    /\ cache \in [token: Nat, until: Nat]
    /\ pc \in [Clients -> Pcs]
    /\ \A v \in {due, seen, reply, token, expiration, logins, obtained} :
         v \in [Clients -> Nat]
    /\ retries \in [Clients -> 0..MAX_RETRIES]
    /\ result \in [Clients -> Results]

(* The steps at which a call ends, and at which it posts a login *)
EndsNow(c) == pc[c] # "idle" /\ pc'[c] = "idle"
LogsIn(c)  == pc[c] = "got" /\ pc'[c] = "login"

(* How far past its date a token can be                                    *)
Overrun   == IF EXPIRES_IN > LIFETIME THEN EXPIRES_IN - LIFETIME ELSE 0
Staleness == 5 * MaxDelay + Overrun

(* A caller gets a token that the bank issued, never None, whichever of    *)
(* the cache, the instance or a login it comes from and whatever failed    *)
(* on the way.                                                             *)
ServedTokenIsIssued ==
    \A c \in Clients : result[c] = "token" => token[c] # NoToken

(* The age of a token is counted only from when its answer was read, or    *)
(* from when Redis stored it, and an instance keeps its own date for a     *)
(* token that the cache gave it.  Over any interleaving of logins and late *)
(* SETs, a token that is handed out is past its date by a few waits only,  *)
(* and by what the lifetime was taken too long.                            *)
StaleByDelaysOnly ==
    [][\A c \in Clients :
         EndsNow(c) /\ result'[c] = "token" => now < token'[c] + Staleness]_vars

(* A call that got a token and dated it never logs in again before that    *)
(* date, even if Redis would not store the token.                          *)
NoLoginOverAGoodToken ==
    [][\A c \in Clients : LogsIn(c) => obtained[c] <= now]_vars

(* A call tries MAX_RETRIES + 1 logins at most, and gives up after no      *)
(* fewer.                                                                  *)
GivesUpAfterAllRetries ==
    [][\A c \in Clients :
         /\ LogsIn(c) => logins[c] <= MAX_RETRIES
         /\ EndsNow(c) /\ result'[c] = "exhausted" => logins[c] = MAX_RETRIES + 1]_vars

(* What a call has before it at most: the steps of the attempt it is at,   *)
(* and of the retries that are left.                                       *)
Ahead == [get |-> 6, got |-> 5, login |-> 4, response |-> 3, set |-> 2, stored |-> 1,
          idle |-> 0]
Remaining(c) == 6 * (MAX_RETRIES - retries[c]) + Ahead[pc[c]]
Local(c)     == <<pc[c], seen[c], reply[c], token[c], retries[c], logins[c], result[c]>>

(* get_valid_token calls itself and never goes round in circles: whatever  *)
(* Redis and the bank do, each step of a call ends it or leaves fewer      *)
(* steps before it.                                                        *)
CallsGetOn ==
    [][\A c \in Clients :
         pc[c] # "idle" /\ Local(c)' # Local(c) =>
             pc'[c] = "idle" \/ Remaining(c)' < Remaining(c)]_vars

(* The tokens that Redis, an answer or an instance holds *)
Circulating ==
    ({cache.token} \cup UNION {{seen[c], reply[c], token[c]} : c \in Clients}) \ {NoToken}

Asking  == [c \in Clients |-> pc[c] # "idle"]
Granted == [c \in Clients |-> IF result[c] = "token" THEN token[c] ELSE NoToken]

Tokens == INSTANCE BankTokens WITH
    tokens <- Circulating, asking <- Asking, posts <- logins, outcome <- result,
    granted <- Granted

(* Whatever Redis loses or answers late and however calls interleave: what *)
(* circulates was issued by the bank at that very instant, a call is only  *)
(* granted a token that circulates and is not stale, it gives up only when *)
(* its logins are used up, and what it was granted stays until it asks     *)
(* again.                                                                  *)
ImplementsTokens == Tokens!Spec

(* Every call ends, with a token or with an exception.                     *)
EveryCallEnds == \A c \in Clients : pc[c] = "get" ~> pc[c] = "idle"
=============================================================================
