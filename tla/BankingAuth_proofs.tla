-------------------------- MODULE BankingAuth_proofs --------------------------
(***************************************************************************)
(* Proofs, for every number of clients, retries and delays, about the      *)
(* access token of the banking API.                                        *)
(***************************************************************************)
EXTENDS BankingAuth, TLAPS

(***************************************************************************)
(* None of the properties is inductive.  What a call has done so far is a  *)
(* matter of the step it is at: how many logins it tried, that its result  *)
(* is pending, that there is a token once it is stored.  A token that the  *)
(* call got and dated is covered by the date of the instance, and a login  *)
(* is entered only when that date is over.                                 *)
(***************************************************************************)
BeforeLogin == {"get", "got"}
AfterLogin  == {"login", "response", "set", "stored"}

CallInv(c) ==
    /\ pc[c] = "idle" => retries[c] = 0 /\ logins[c] = 0 /\ obtained[c] = NoToken
    /\ pc[c] \in BeforeLogin => logins[c] = retries[c]
    /\ pc[c] \in AfterLogin => logins[c] = retries[c] + 1
    /\ pc[c] # "idle" => result[c] = "pending"
    /\ result[c] = "token" \/ pc[c] = "stored" => token[c] # NoToken
    /\ obtained[c] <= expiration[c]
    /\ token[c] = NoToken \/ pc[c] \in {"login", "response"} => obtained[c] <= now

(* The variables of the clients, one by one *)
Typed ==
    /\ now \in Nat /\ cache \in [token: Nat, until: Nat]
    /\ pc \in [Clients -> Pcs] /\ result \in [Clients -> Results]
    /\ due \in [Clients -> Nat] /\ seen \in [Clients -> Nat]
    /\ reply \in [Clients -> Nat] /\ token \in [Clients -> Nat]
    /\ expiration \in [Clients -> Nat] /\ logins \in [Clients -> Nat]
    /\ obtained \in [Clients -> Nat]
    /\ retries \in [Clients -> 0..MAX_RETRIES]

AuthInv == Typed /\ \A c \in Clients : CallInv(c)

LEMMA AuthInit == Init => AuthInv
<1> SUFFICES ASSUME Init PROVE AuthInv
  OBVIOUS
<1>1. Typed
  BY RetriesAssumption DEF Init, Typed, Empty, NoToken, Pcs, Results
<1>2. \A c \in Clients : CallInv(c)
  <2> SUFFICES ASSUME NEW c \in Clients PROVE CallInv(c)
    OBVIOUS
  <2>1. /\ pc[c] = "idle" /\ reply[c] = 0 /\ token[c] = 0 /\ expiration[c] = 0
        /\ retries[c] = 0 /\ logins[c] = 0 /\ obtained[c] = 0
        /\ result[c] = "pending" /\ now = 0
    BY DEF Init, NoToken
  <2> QED
    BY <2>1, LifetimeAssumption DEF CallInv, NoToken, BeforeLogin, AfterLogin
<1> QED
  BY <1>1, <1>2 DEF AuthInv

LEMMA StepTypes ==
  ASSUME Typed, NEW c \in Clients, Step(c) \/ NewInstance(c) \/ Call(c)
  PROVE  Typed'
<1> USE LifetimeAssumption, BoundsAssumption, RetriesAssumption DEF Typed, Pcs, Results, NoToken
<1>1. ASSUME NEW kind \in Results, Ends(c, kind)
      PROVE  /\ pc' \in [Clients -> Pcs] /\ due' \in [Clients -> Nat]
             /\ result' \in [Clients -> Results]
             /\ retries' \in [Clients -> 0..MAX_RETRIES]
             /\ logins' \in [Clients -> Nat] /\ obtained' \in [Clients -> Nat]
  BY <1>1 DEF Ends, Goto
<1>2. ASSUME Retry(c)
      PROVE  /\ pc' \in [Clients -> Pcs] /\ due' \in [Clients -> Nat]
             /\ result' \in [Clients -> Results]
             /\ retries' \in [Clients -> 0..MAX_RETRIES]
             /\ logins' \in [Clients -> Nat] /\ obtained' \in [Clients -> Nat]
  <2>1. CASE Ends(c, "exhausted")
    BY <1>1, <2>1
  <2>2. CASE ~Ends(c, "exhausted")
    BY <1>2, <2>2 DEF Retry, Goto
  <2> QED
    BY <2>1, <2>2
<1>3. CASE NewInstance(c) \/ Call(c)
  BY <1>3 DEF NewInstance, Call, Goto
<1>4. CASE ReadCache(c)
  BY <1>4 DEF ReadCache, Goto, Cached
<1>5. CASE ReadFails(c) \/ MemoryHit(c) \/ LoggedIn(c) \/ CacheHit(c)
  BY <1>1, <1>5 DEF ReadFails, MemoryHit, LoggedIn, CacheHit
<1>6. CASE Login(c) \/ BankIssues(c) \/ LoginReturns(c)
  BY <1>6 DEF Login, BankIssues, LoginReturns, Goto
<1>7. CASE LoginFails(c) \/ LoginUndated(c)
  BY <1>2, <1>7 DEF LoginFails, LoginUndated
<1>8. CASE StoreToken(c)
  BY <1>8 DEF StoreToken, Stored, Goto
<1>9. CASE StoreFails(c)
  BY <1>2, <1>9 DEF StoreFails, Stored
<1> QED
  BY <1>3, <1>4, <1>5, <1>6, <1>7, <1>8, <1>9 DEF Step

LEMMA StepInv ==
  ASSUME AuthInv, NEW c \in Clients, Step(c) \/ NewInstance(c) \/ Call(c)
  PROVE  CallInv(c)'
<1> USE DEF BeforeLogin, AfterLogin, NoToken
<1>1. Typed /\ CallInv(c)
  BY DEF AuthInv
<1>2. /\ retries[c] \in Nat /\ logins[c] \in Nat /\ obtained[c] \in Nat
      /\ reply[c] \in Nat /\ token[c] \in Nat /\ expiration[c] \in Nat
      /\ seen[c] \in Nat /\ now \in Nat /\ LIFETIME \in Nat /\ pc[c] \in Pcs
  BY <1>1, LifetimeAssumption, RetriesAssumption DEF Typed
<1>3. ASSUME NEW kind, Ends(c, kind)
      PROVE  /\ pc'[c] = "idle" /\ result'[c] = kind /\ retries'[c] = 0
             /\ logins'[c] = 0 /\ obtained'[c] = 0
  BY <1>1, <1>3 DEF Ends, Goto, Typed
<1>4. ASSUME NEW step, Goto(c, step) PROVE pc'[c] = step
  BY <1>1, <1>4 DEF Goto, Typed
<1>5. ASSUME Retry(c)
      PROVE  \/ /\ pc'[c] = "get" /\ retries'[c] = retries[c] + 1
                /\ logins'[c] = logins[c] /\ obtained'[c] = obtained[c]
                /\ result'[c] = result[c]
             \/ /\ pc'[c] = "idle" /\ result'[c] = "exhausted" /\ retries'[c] = 0
                /\ logins'[c] = 0 /\ obtained'[c] = 0
  BY <1>1, <1>3, <1>4, <1>5 DEF Retry, Typed
<1>6. CASE NewInstance(c)
  BY <1>1, <1>2, <1>6 DEF NewInstance, CallInv, Typed
<1>7. CASE Call(c)
  BY <1>1, <1>2, <1>4, <1>7 DEF Call, CallInv, Typed
<1>8. CASE ReadCache(c)
  BY <1>1, <1>2, <1>4, <1>8 DEF ReadCache, CallInv
<1>9. CASE ReadFails(c)
  BY <1>1, <1>2, <1>3, <1>9 DEF ReadFails, CallInv
<1>10. CASE CacheHit(c)
  BY <1>1, <1>2, <1>3, <1>10 DEF CacheHit, CallInv, Typed
<1>11. CASE MemoryHit(c)
  BY <1>1, <1>2, <1>3, <1>11 DEF MemoryHit, InMemory, CallInv
<1>12. CASE Login(c)
  BY <1>1, <1>2, <1>4, <1>12 DEF Login, InMemory, CallInv, Typed
<1>13. CASE BankIssues(c)
  BY <1>1, <1>2, <1>4, <1>13 DEF BankIssues, CallInv, Typed
<1>14. CASE LoginFails(c)
  BY <1>1, <1>2, <1>5, <1>14 DEF LoginFails, CallInv
<1>15. CASE LoginReturns(c)
  BY <1>1, <1>2, <1>4, <1>15, LifetimeAssumption, BoundsAssumption DEF LoginReturns, CallInv, Typed
<1>16. CASE LoginUndated(c)
  BY <1>1, <1>2, <1>5, <1>16 DEF LoginUndated, CallInv, Typed
<1>17. CASE StoreToken(c)
  BY <1>1, <1>2, <1>4, <1>17 DEF StoreToken, CallInv
<1>18. CASE StoreFails(c)
  BY <1>1, <1>2, <1>5, <1>18 DEF StoreFails, CallInv
<1>19. CASE LoggedIn(c)
  BY <1>1, <1>2, <1>3, <1>19 DEF LoggedIn, CallInv
<1> QED
  BY <1>6, <1>7, <1>8, <1>9, <1>10, <1>11, <1>12, <1>13, <1>14, <1>15, <1>16,
     <1>17, <1>18, <1>19 DEF Step

(* A client's step is its own. *)
LEMMA OthersKeep ==
  ASSUME Typed, NEW c \in Clients, Step(c) \/ NewInstance(c) \/ Call(c),
         NEW o \in Clients \ {c}
  PROVE  /\ now' = now /\ pc'[o] = pc[o] /\ due'[o] = due[o] /\ seen'[o] = seen[o]
         /\ reply'[o] = reply[o] /\ token'[o] = token[o] /\ expiration'[o] = expiration[o]
         /\ retries'[o] = retries[o] /\ logins'[o] = logins[o]
         /\ obtained'[o] = obtained[o] /\ result'[o] = result[o]
<1> USE DEF Typed, Goto, Ends, Retry
<1>1. CASE NewInstance(c) \/ Call(c) \/ ReadCache(c) \/ Login(c)
  BY <1>1 DEF NewInstance, Call, ReadCache, Login
<1>2. CASE ReadFails(c) \/ CacheHit(c) \/ MemoryHit(c) \/ LoggedIn(c)
  BY <1>2 DEF ReadFails, CacheHit, MemoryHit, LoggedIn
<1>3. CASE BankIssues(c) \/ LoginReturns(c) \/ StoreToken(c)
  BY <1>3 DEF BankIssues, LoginReturns, StoreToken
<1>4. CASE LoginFails(c) \/ LoginUndated(c) \/ StoreFails(c)
  BY <1>4 DEF LoginFails, LoginUndated, StoreFails
<1> QED
  BY <1>1, <1>2, <1>3, <1>4 DEF Step

LEMMA AuthNext == AuthInv /\ [Next]_vars => AuthInv'
<1> SUFFICES ASSUME AuthInv, [Next]_vars PROVE AuthInv'
  OBVIOUS
<1>1. Typed
  BY DEF AuthInv
<1>2. ASSUME NEW c \in Clients, Step(c) \/ NewInstance(c) \/ Call(c) PROVE AuthInv'
  <2>1. Typed'
    BY <1>1, <1>2, StepTypes
  <2>2. CallInv(c)'
    BY <1>2, StepInv
  <2>3. ASSUME NEW o \in Clients \ {c} PROVE CallInv(o)'
    BY <1>1, <1>2, OthersKeep DEF AuthInv, CallInv
  <2> QED
    BY <2>1, <2>2, <2>3 DEF AuthInv
<1>3. CASE CacheLost \/ UNCHANGED vars
  <2>1. Typed'
    BY <1>1, <1>3 DEF CacheLost, vars, clientVars, Typed, Empty, NoToken
  <2>2. \A c \in Clients : CallInv(c)'
    BY <1>3 DEF CacheLost, vars, clientVars, AuthInv, CallInv
  <2> QED
    BY <2>1, <2>2 DEF AuthInv
<1>4. CASE Tick
  <2>1. Typed'
    BY <1>1, <1>4 DEF Tick, clientVars, Typed
  <2>2. ASSUME NEW c \in Clients PROVE CallInv(c)'
    <3>1. /\ reply[c] \in Nat /\ obtained[c] \in Nat /\ now \in Nat
          /\ LIFETIME \in Nat /\ now' = now + 1 /\ UNCHANGED clientVars
      BY <1>1, <1>4, LifetimeAssumption DEF Tick, Typed
    <3> QED
      BY <3>1 DEF clientVars, AuthInv, CallInv
  <2> QED
    BY <2>1, <2>2 DEF AuthInv
<1> QED
  BY <1>2, <1>3, <1>4 DEF Next

LEMMA AuthInvariant == Spec => []AuthInv
<1> QED
  BY AuthInit, AuthNext, PTL DEF Spec

(* Type correctness of the token cache and its clients: in particular the  *)
(* argument of get_valid_token never exceeds MAX_RETRIES.                  *)
THEOREM AuthTypeCorrectness == Spec => []TypeOK
<1>1. AuthInv => TypeOK
  BY DEF AuthInv, Typed, TypeOK
<1> QED
  BY <1>1, AuthInvariant, PTL

(* get_valid_token never returns None as a token, whatever the bank left   *)
(* out of its answer and whatever Redis refused.                           *)
THEOREM ServedTokensAreIssued == Spec => []ServedTokenIsIssued
<1>1. AuthInv => ServedTokenIsIssued
  BY DEF AuthInv, CallInv, ServedTokenIsIssued
<1> QED
  BY <1>1, AuthInvariant, PTL

(* The only step that posts a login is Login. *)
LEMMA LoginStep ==
  ASSUME AuthInv, [Next]_vars, NEW c \in Clients, LogsIn(c)
  PROVE  Login(c)
<1>1. Typed
  BY DEF AuthInv
<1>2. PICK o \in Clients : Step(o) \/ NewInstance(o) \/ Call(o)
  BY DEF Next, CacheLost, Tick, vars, clientVars, LogsIn
<1>3. o = c
  BY <1>1, <1>2, OthersKeep DEF LogsIn
<1> QED
  BY <1>1, <1>2, <1>3 DEF LogsIn, Step, NewInstance, Call, ReadCache, ReadFails, CacheHit,
     MemoryHit, BankIssues, LoginFails, LoginReturns, LoginUndated, StoreToken,
     StoreFails, LoggedIn, Goto, Ends, Retry, Typed

(* A call that got and dated a token posts no login while it is good.      *)
THEOREM NoLoginOverGoodTokens == Spec => NoLoginOverAGoodToken
<1>1. ASSUME AuthInv, [Next]_vars, NEW c \in Clients, LogsIn(c)
      PROVE  obtained[c] <= now
  <2>1. Login(c) /\ CallInv(c) /\ Typed
    BY <1>1, LoginStep DEF AuthInv
  <2>2. obtained[c] \in Nat /\ expiration[c] \in Nat /\ now \in Nat
    BY <2>1 DEF Typed
  <2> QED
    BY <2>1, <2>2 DEF Login, InMemory, CallInv, NoToken
<1>2. AuthInv /\ [Next]_vars
        => [\A c \in Clients : LogsIn(c) => obtained[c] <= now]_vars
  BY <1>1
<1> QED
  BY <1>2, AuthInvariant, PTL DEF Spec, NoLoginOverAGoodToken

(* A call gives up only from a login that failed, its retries used up. *)
LEMMA GivesUpStep ==
  ASSUME AuthInv, [Next]_vars, NEW c \in Clients, EndsNow(c),
         result'[c] = "exhausted"
  PROVE  pc[c] \in AfterLogin /\ ~(retries[c] < MAX_RETRIES)
<1>1. Typed
  BY DEF AuthInv
<1>2. PICK o \in Clients : Step(o) \/ NewInstance(o) \/ Call(o)
  BY DEF Next, CacheLost, Tick, vars, clientVars, EndsNow
<1>3. o = c
  BY <1>1, <1>2, OthersKeep DEF EndsNow
<1>4. CASE LoginFails(c) \/ LoginUndated(c) \/ StoreFails(c)
  BY <1>1, <1>4 DEF EndsNow, LoginFails, LoginUndated, StoreFails, Retry, Goto, Typed,
                    AfterLogin
<1>5. CASE ReadFails(c) \/ CacheHit(c) \/ MemoryHit(c) \/ LoggedIn(c)
  BY <1>1, <1>5 DEF ReadFails, CacheHit, MemoryHit, LoggedIn, Ends, Typed
<1>6. CASE ~(\/ LoginFails(c) \/ LoginUndated(c) \/ StoreFails(c) \/ ReadFails(c)
             \/ CacheHit(c) \/ MemoryHit(c) \/ LoggedIn(c))
  BY <1>1, <1>2, <1>3, <1>6
     DEF EndsNow, Step, NewInstance, Call, ReadCache, Login, BankIssues,
         LoginReturns, StoreToken, Goto, Typed
<1> QED
  BY <1>4, <1>5, <1>6

(* A call gives up after MAX_RETRIES + 1 logins, no fewer and no more.     *)
THEOREM CallsGiveUpInTime == Spec => GivesUpAfterAllRetries
<1>1. ASSUME AuthInv, [Next]_vars, NEW c \in Clients
      PROVE  /\ LogsIn(c) => logins[c] <= MAX_RETRIES
             /\ EndsNow(c) /\ result'[c] = "exhausted" => logins[c] = MAX_RETRIES + 1
  <2>1. CallInv(c) /\ retries[c] \in 0..MAX_RETRIES /\ MAX_RETRIES \in Nat
    BY <1>1, RetriesAssumption DEF AuthInv, Typed
  <2>2. LogsIn(c) => logins[c] <= MAX_RETRIES
    BY <2>1 DEF LogsIn, CallInv, BeforeLogin
  <2>3. EndsNow(c) /\ result'[c] = "exhausted" => logins[c] = MAX_RETRIES + 1
    BY <1>1, <2>1, GivesUpStep DEF CallInv
  <2> QED
    BY <2>2, <2>3
<1>2. AuthInv /\ [Next]_vars
        => [\A c \in Clients :
             /\ LogsIn(c) => logins[c] <= MAX_RETRIES
             /\ EndsNow(c) /\ result'[c] = "exhausted" => logins[c] = MAX_RETRIES + 1]_vars
  BY <1>1
<1> QED
  BY <1>2, AuthInvariant, PTL DEF Spec, GivesUpAfterAllRetries

(***************************************************************************)
(* A call never goes round in circles: its own steps lead through the      *)
(* stages of an attempt, one by one, and from one attempt to the next      *)
(* while retries are left.  Remaining counts them, and is a number from    *)
(* the first step of the call on.                                          *)
(***************************************************************************)
LEMMA RemainingIsBounded ==
  ASSUME AuthInv, NEW c \in Clients
  PROVE  Remaining(c) \in 0..(6 * (MAX_RETRIES + 1))
<1>1. pc[c] \in Pcs /\ retries[c] \in 0..MAX_RETRIES /\ MAX_RETRIES \in Nat
  BY RetriesAssumption DEF AuthInv, Typed
<1>2. Ahead[pc[c]] \in 0..6
  BY <1>1 DEF Ahead, Pcs
<1> QED
  BY <1>1, <1>2 DEF Remaining

LEMMA AdvanceGetsOn ==
  ASSUME AuthInv, NEW c \in Clients, retries'[c] = retries[c], pc'[c] \in Pcs,
         Ahead[pc'[c]] < Ahead[pc[c]]
  PROVE  Remaining(c)' < Remaining(c)
<1>1. pc[c] \in Pcs /\ retries[c] \in 0..MAX_RETRIES /\ MAX_RETRIES \in Nat
  BY RetriesAssumption DEF AuthInv, Typed
<1>2. Ahead[pc[c]] \in 0..6 /\ Ahead[pc'[c]] \in 0..6
  BY <1>1 DEF Ahead, Pcs
<1>3. Remaining(c)' = 6 * (MAX_RETRIES - retries[c]) + Ahead[pc'[c]]
  BY DEF Remaining, Ahead
<1> QED
  BY <1>1, <1>2, <1>3 DEF Remaining

LEMMA RetryGetsOn ==
  ASSUME AuthInv, NEW c \in Clients, pc[c] # "idle", Retry(c)
  PROVE  pc'[c] = "idle" \/ Remaining(c)' < Remaining(c)
<1>1. /\ pc \in [Clients -> Pcs] /\ retries \in [Clients -> 0..MAX_RETRIES]
      /\ MAX_RETRIES \in Nat
  BY RetriesAssumption DEF AuthInv, Typed
<1>2. CASE Ends(c, "exhausted")
  BY <1>1, <1>2 DEF Ends, Goto
<1>3. CASE retries'[c] = retries[c] + 1 /\ pc'[c] = "get"
  <2>1. Ahead[pc[c]] \in 1..6 /\ Ahead["get"] = 6
    BY <1>1 DEF Ahead, Pcs
  <2>2. Remaining(c)' = 6 * (MAX_RETRIES - (retries[c] + 1)) + 6
    BY <1>3, <2>1 DEF Remaining, Ahead
  <2> QED
    BY <1>1, <2>1, <2>2 DEF Remaining
<1> QED
  BY <1>1, <1>2, <1>3 DEF Retry, Goto

LEMMA StepGetsOn ==
  ASSUME AuthInv, NEW c \in Clients, Step(c)
  PROVE  pc'[c] = "idle" \/ Remaining(c)' < Remaining(c)
<1>1. pc \in [Clients -> Pcs]
  BY DEF AuthInv, Typed
<1>2. CASE ReadFails(c) \/ CacheHit(c) \/ MemoryHit(c) \/ LoggedIn(c)
  BY <1>1, <1>2 DEF ReadFails, CacheHit, MemoryHit, LoggedIn, Ends, Goto
<1>3. CASE ReadCache(c) \/ Login(c) \/ BankIssues(c) \/ LoginReturns(c) \/ StoreToken(c)
  <2>1. UNCHANGED retries
    BY <1>3 DEF ReadCache, Login, BankIssues, LoginReturns, StoreToken
  <2>2. pc'[c] \in Pcs /\ Ahead[pc'[c]] < Ahead[pc[c]]
    BY <1>1, <1>3
       DEF ReadCache, Login, BankIssues, LoginReturns, StoreToken, Goto, Ahead, Pcs
  <2> QED
    BY <2>1, <2>2, AdvanceGetsOn
<1>4. CASE LoginFails(c) \/ LoginUndated(c) \/ StoreFails(c)
  BY <1>4, RetryGetsOn DEF LoginFails, LoginUndated, StoreFails
<1> QED
  BY <1>2, <1>3, <1>4 DEF Step

(* get_valid_token, which calls itself, comes to an end: no step of a call *)
(* leaves as many steps before it, for any number of retries and clients.  *)
THEOREM EveryStepGetsOn == Spec => CallsGetOn
<1>1. ASSUME AuthInv, [Next]_vars, NEW c \in Clients, pc[c] # "idle", Local(c)' # Local(c)
      PROVE  pc'[c] = "idle" \/ Remaining(c)' < Remaining(c)
  <2>1. PICK o \in Clients : Step(o) \/ NewInstance(o) \/ Call(o)
    BY <1>1 DEF Next, CacheLost, Tick, vars, clientVars, Local
  <2>2. o = c
    BY <1>1, <2>1, OthersKeep DEF AuthInv, Local
  <2>3. Step(c)
    BY <1>1, <2>1, <2>2 DEF NewInstance, Call
  <2> QED
    BY <1>1, <2>3, StepGetsOn
<1>2. AuthInv /\ [Next]_vars
        => [\A c \in Clients : pc[c] # "idle" /\ Local(c)' # Local(c) =>
              pc'[c] = "idle" \/ Remaining(c)' < Remaining(c)]_vars
  BY <1>1
<1> QED
  BY <1>2, AuthInvariant, PTL DEF Spec, CallsGetOn
-----------------------------------------------------------------------------
(***************************************************************************)
(* How far past its date a token can be is a matter of the waits since the *)
(* bank issued it.  Its answer is read one wait later at the latest, the   *)
(* token is sent to Redis then and stored within another wait, for a whole *)
(* lifetime: Redis drops it two waits after its date at the latest, and    *)
(* what Redis answered is used within one more.  An instance keeps its own *)
(* date for a token that is another's: one of an undated answer, which is  *)
(* younger than that date, or one that the cache gave it.  The latter was  *)
(* not in the cache when the instance last asked before its own login, or  *)
(* the instance would have taken it; so that login began when the token    *)
(* was sent to Redis, or before, and ended three waits later at the latest.*)
(* A lifetime that was taken too long adds its Overrun to every date.      *)
(***************************************************************************)
Live == cache.token # NoToken /\ now < cache.until

WaitInv(c) ==
    /\ pc[c] # "idle" => now <= due[c] /\ due[c] <= now + MaxDelay
    /\ expiration[c] <= now + EXPIRES_IN

HeldInv(c) ==
    /\ pc[c] = "response" /\ reply[c] # NoToken =>
         due[c] + LIFETIME <= reply[c] + MaxDelay /\ expiration[c] <= reply[c] + Overrun
    /\ pc[c] = "set" /\ token[c] # NoToken => due[c] + LIFETIME <= token[c] + 2 * MaxDelay
    /\ pc[c] = "stored" => due[c] + LIFETIME <= token[c] + 3 * MaxDelay
    /\ pc[c] = "got" /\ seen[c] # NoToken =>
         /\ due[c] < seen[c] + 3 * MaxDelay + Overrun
         /\ expiration[c] <= seen[c] + 5 * MaxDelay + Overrun
    /\ token[c] # NoToken => expiration[c] <= token[c] + 5 * MaxDelay + Overrun

CachedInv(c) ==
    Live =>
      /\ expiration[c] <= cache.token + 5 * MaxDelay + Overrun
      /\ pc[c] = "got" /\ seen[c] = NoToken =>
           due[c] + LIFETIME <= cache.token + 3 * MaxDelay
      /\ pc[c] = "login" => due[c] + LIFETIME <= cache.token + 4 * MaxDelay
      /\ pc[c] = "response" => due[c] + LIFETIME <= cache.token + 5 * MaxDelay

DatesInv ==
    /\ AuthInv
    /\ Live => cache.until <= cache.token + 2 * MaxDelay + Overrun
    /\ \A c \in Clients : WaitInv(c) /\ HeldInv(c) /\ CachedInv(c)

LEMMA DatesInit == Init => DatesInv
<1> SUFFICES ASSUME Init PROVE DatesInv
  OBVIOUS
<1>1. AuthInv /\ ~Live
  BY AuthInit DEF Init, Live, Empty
<1>2. ASSUME NEW c \in Clients PROVE WaitInv(c) /\ HeldInv(c) /\ CachedInv(c)
  <2>1. pc[c] = "idle" /\ token[c] = 0 /\ expiration[c] = 0 /\ now = 0
    BY DEF Init, NoToken
  <2> QED
    BY <1>1, <2>1, LifetimeAssumption DEF WaitInv, HeldInv, CachedInv, NoToken
<1> QED
  BY <1>1, <1>2 DEF DatesInv

(* The quantities of one client, for arithmetic *)
LEMMA Quantities ==
  ASSUME Typed, NEW c \in Clients
  PROVE  /\ now \in Nat /\ cache.token \in Nat /\ cache.until \in Nat
         /\ due[c] \in Nat /\ seen[c] \in Nat /\ reply[c] \in Nat /\ token[c] \in Nat
         /\ expiration[c] \in Nat /\ MaxDelay \in Nat /\ LIFETIME \in Nat /\ LIFETIME > 0
      /\ EXPIRES_IN \in Nat /\ Overrun \in Nat /\ EXPIRES_IN <= LIFETIME + Overrun
         /\ EXPIRES_IN \in Nat /\ Overrun \in Nat /\ EXPIRES_IN <= LIFETIME + Overrun
BY LifetimeAssumption, BoundsAssumption DEF Typed, Overrun

(* Only a client that sends its token to Redis writes to the cache, and it *)
(* stores the token it holds.                                              *)
LEMMA CacheStep ==
  ASSUME Typed, NEW c \in Clients, Step(c) \/ NewInstance(c) \/ Call(c)
  PROVE  /\ now' = now
         /\ \/ cache' = cache
            \/ /\ pc[c] = "set" /\ token[c] # NoToken /\ cache' = Stored(token[c])
               /\ pc'[c] \in {"idle", "get", "stored"} /\ expiration' = expiration
<1>1. CASE StoreToken(c)
  BY <1>1 DEF StoreToken, Goto, Typed
<1>2. CASE StoreFails(c)
  BY <1>2 DEF StoreFails, Retry, Ends, Goto, Typed
<1>3. CASE ~StoreToken(c) /\ ~StoreFails(c)
  BY <1>3 DEF Step, NewInstance, Call, ReadCache, ReadFails, CacheHit, MemoryHit, Login,
     BankIssues, LoginFails, LoginReturns, LoginUndated, LoggedIn
<1> QED
  BY <1>1, <1>2, <1>3

(* A token that is in the cache after a step was there before, or has just *)
(* been stored, two waits after it was issued at the latest.               *)
LEMMA LiveStep ==
  ASSUME DatesInv, NEW c \in Clients, Step(c) \/ NewInstance(c) \/ Call(c), Live'
  PROVE  /\ (cache.until <= cache.token + 2 * MaxDelay + Overrun)'
         /\ \/ Live /\ cache' = cache
            \/ /\ (now + LIFETIME <= cache.token + 2 * MaxDelay)'
               /\ pc'[c] \in {"idle", "get", "stored"} /\ expiration' = expiration
<1>1. /\ AuthInv /\ Typed /\ WaitInv(c) /\ HeldInv(c)
      /\ Live => cache.until <= cache.token + 2 * MaxDelay + Overrun
  BY DEF DatesInv, AuthInv
<1>2. now' = now
  BY <1>1, CacheStep
<1>3. CASE cache' = cache
  BY <1>1, <1>2, <1>3 DEF Live
<1>4. CASE cache' # cache
  <2>1. /\ pc[c] = "set" /\ token[c] # NoToken /\ cache' = Stored(token[c])
        /\ pc'[c] \in {"idle", "get", "stored"} /\ expiration' = expiration
    BY <1>1, <1>4, CacheStep
  <2>2. cache'.token = token[c] /\ cache'.until = now + EXPIRES_IN
    BY <2>1 DEF Stored
  <2>3. now <= due[c] /\ due[c] + LIFETIME <= token[c] + 2 * MaxDelay
    BY <1>1, <2>1 DEF WaitInv, HeldInv
  <2>4. now + LIFETIME <= token[c] + 2 * MaxDelay
    BY <1>1, <2>3, Quantities
  <2>5. now + EXPIRES_IN <= token[c] + 2 * MaxDelay + Overrun
    BY <1>1, <2>4, Quantities
  <2> QED
    BY <1>2, <2>1, <2>2, <2>4, <2>5
<1> QED
  BY <1>3, <1>4

(* The client of a step that leaves "idle" or goes on begins a new wait.   *)
LEMMA WaitStep ==
  ASSUME Typed, NEW c \in Clients, Step(c) \/ Call(c)
  PROVE  pc'[c] # "idle" => due'[c] = now + MaxDelay
<1> USE DEF Typed, Goto, Ends, Retry
<1>1. CASE Call(c) \/ ReadCache(c) \/ Login(c) \/ BankIssues(c) \/ LoginReturns(c) \/ StoreToken(c)
  BY <1>1 DEF Call, ReadCache, Login, BankIssues, LoginReturns, StoreToken
<1>2. CASE ReadFails(c) \/ CacheHit(c) \/ MemoryHit(c) \/ LoggedIn(c)
  BY <1>2 DEF ReadFails, CacheHit, MemoryHit, LoggedIn
<1>3. CASE LoginFails(c) \/ LoginUndated(c) \/ StoreFails(c)
  BY <1>3 DEF LoginFails, LoginUndated, StoreFails
<1> QED
  BY <1>1, <1>2, <1>3 DEF Step

(* What a client's own step leaves of its dates *)
LEMMA DatesStep ==
  ASSUME DatesInv, NEW c \in Clients, Step(c) \/ NewInstance(c) \/ Call(c)
  PROVE  (WaitInv(c) /\ HeldInv(c) /\ CachedInv(c))'
<1> USE DEF NoToken
<1>1. /\ Typed /\ WaitInv(c) /\ HeldInv(c) /\ CachedInv(c)
      /\ Live => cache.until <= cache.token + 2 * MaxDelay + Overrun
  BY DEF DatesInv, AuthInv
<1>2. /\ now \in Nat /\ cache.token \in Nat /\ cache.until \in Nat
      /\ due[c] \in Nat /\ seen[c] \in Nat /\ reply[c] \in Nat /\ token[c] \in Nat
      /\ expiration[c] \in Nat /\ MaxDelay \in Nat /\ LIFETIME \in Nat /\ LIFETIME > 0
      /\ EXPIRES_IN \in Nat /\ Overrun \in Nat /\ EXPIRES_IN <= LIFETIME + Overrun
  BY <1>1, Quantities
<1>3. now' = now
  BY <1>1, CacheStep
<1>4. ASSUME Step(c) \/ Call(c) PROVE pc'[c] # "idle" => due'[c] = now + MaxDelay
  BY <1>1, <1>4, WaitStep
<1>5. ASSUME NEW kind, Ends(c, kind) PROVE pc'[c] = "idle"
  BY <1>1, <1>5 DEF Ends, Goto, Typed
<1>6. ASSUME NEW step, Goto(c, step) PROVE pc'[c] = step
  BY <1>1, <1>6 DEF Goto, Typed
<1>7. ASSUME Retry(c) PROVE pc'[c] \in {"idle", "get"}
  BY <1>1, <1>5, <1>6, <1>7 DEF Retry
<1>8. \/ NewInstance(c) /\ expiration'[c] = 0
      \/ LoginReturns(c) /\ expiration'[c] = now + EXPIRES_IN
      \/ ~NewInstance(c) /\ ~LoginReturns(c) /\ expiration' = expiration
  BY <1>1 DEF Typed, Step, NewInstance, Call, ReadCache, ReadFails, CacheHit, MemoryHit, Login,
     BankIssues, LoginFails, LoginReturns, LoginUndated, StoreToken, StoreFails, LoggedIn
<1>9. WaitInv(c)'
  <2>1. expiration'[c] <= now + EXPIRES_IN
    BY <1>1, <1>2, <1>8 DEF WaitInv
  <2>2. CASE NewInstance(c)
    BY <1>3, <2>1, <2>2 DEF NewInstance, WaitInv
  <2>3. CASE ~NewInstance(c)
    BY <1>2, <1>3, <1>4, <2>1, <2>3 DEF WaitInv
  <2> QED
    BY <2>2, <2>3
<1>10. HeldInv(c)'
  <2>1. CASE NewInstance(c)
    BY <1>1, <1>2, <2>1 DEF NewInstance, HeldInv, Typed
  <2>2. CASE Call(c)
    BY <1>1, <1>6, <2>2 DEF Call, HeldInv
  <2>3. CASE ReadCache(c)
    <3>1. pc'[c] = "got" /\ seen'[c] = Cached /\ due'[c] = now + MaxDelay
      BY <1>1, <1>4, <1>6, <2>3 DEF ReadCache, Step, Typed
    <3>2. Cached # 0 => Live /\ Cached = cache.token
      BY DEF Cached, Live
    <3> QED
      BY <1>1, <1>2, <2>3, <3>1, <3>2 DEF ReadCache, HeldInv, CachedInv, Live
  <2>4. CASE CacheHit(c)
    BY <1>1, <1>2, <1>5, <2>4 DEF CacheHit, HeldInv, Typed
  <2>5. CASE ReadFails(c) \/ MemoryHit(c) \/ LoggedIn(c)
    BY <1>1, <1>5, <2>5 DEF ReadFails, MemoryHit, LoggedIn, HeldInv
  <2>6. CASE Login(c)
    BY <1>1, <1>6, <2>6 DEF Login, HeldInv
  <2>7. CASE BankIssues(c)
    <3>1. pc'[c] = "response" /\ reply'[c] \in {0, now + LIFETIME} /\ due'[c] = now + MaxDelay
      BY <1>1, <1>4, <1>6, <2>7 DEF BankIssues, Step, Typed
    <3> QED
      BY <1>1, <1>2, <2>7, <3>1 DEF BankIssues, HeldInv, WaitInv
  <2>8. CASE LoginFails(c) \/ StoreFails(c)
    BY <1>1, <1>7, <2>8 DEF LoginFails, StoreFails, HeldInv
  <2>9. CASE LoginReturns(c)
    <3>1. /\ pc[c] = "response" /\ pc'[c] = "set" /\ due'[c] = now + MaxDelay
          /\ token'[c] = reply[c] /\ expiration'[c] = now + EXPIRES_IN
      BY <1>1, <1>4, <1>6, <2>9 DEF LoginReturns, Step, Typed
    <3> QED
      BY <1>1, <1>2, <2>9, <3>1 DEF HeldInv, WaitInv
  <2>10. CASE LoginUndated(c)
    BY <1>1, <1>2, <1>7, <2>10 DEF LoginUndated, HeldInv, Typed
  <2>11. CASE StoreToken(c)
    <3>1. /\ pc[c] = "set" /\ pc'[c] = "stored" /\ due'[c] = now + MaxDelay
          /\ token[c] # 0 /\ token' = token
      BY <1>1, <1>4, <1>6, <2>11 DEF StoreToken, Step
    <3> QED
      BY <1>1, <1>2, <2>11, <3>1 DEF StoreToken, HeldInv, WaitInv
  <2> QED
    BY <2>1, <2>2, <2>3, <2>4, <2>5, <2>6, <2>7, <2>8, <2>9, <2>10, <2>11 DEF Step
<1>11. ASSUME Live' PROVE CachedInv(c)'
  <2>1. CASE Live /\ cache' = cache
    <3>1. CASE NewInstance(c)
      BY <1>2, <1>8, <2>1, <3>1, <1>1 DEF NewInstance, CachedInv, LoginReturns
    <3>2. CASE ReadCache(c)
      <4>1. pc'[c] = "got" /\ seen'[c] # 0
        BY <1>1, <1>6, <2>1, <3>2 DEF ReadCache, Cached, Live, Typed
      <4> QED
        BY <1>1, <1>8, <2>1, <3>2, <4>1
           DEF CachedInv, ReadCache, NewInstance, LoginReturns
    <3>3. CASE Login(c)
      <4>1. pc'[c] = "login" /\ due'[c] = now + MaxDelay /\ pc[c] = "got" /\ seen[c] = 0
        BY <1>4, <1>6, <3>3 DEF Login, Step
      <4> QED
        BY <1>1, <1>2, <1>8, <2>1, <3>3, <4>1 DEF CachedInv, WaitInv, Login
    <3>4. CASE BankIssues(c)
      <4>1. pc'[c] = "response" /\ due'[c] = now + MaxDelay /\ pc[c] = "login"
        BY <1>4, <1>6, <3>4 DEF BankIssues, Step
      <4> QED
        BY <1>1, <1>2, <1>8, <2>1, <3>4, <4>1 DEF CachedInv, WaitInv, BankIssues
    <3>5. CASE LoginReturns(c)
      <4>1. pc'[c] = "set" /\ pc[c] = "response" /\ expiration'[c] = now + EXPIRES_IN
        BY <1>1, <1>6, <3>5 DEF LoginReturns, Typed
      <4> QED
        BY <1>1, <1>2, <2>1, <4>1 DEF CachedInv, WaitInv
    <3>6. CASE ~(\/ NewInstance(c) \/ ReadCache(c) \/ Login(c) \/ BankIssues(c)
                 \/ LoginReturns(c))
      <4>1. pc'[c] \in {"idle", "get", "stored"}
        BY <1>5, <1>6, <1>7, <3>6 DEF Step, Call, ReadFails, CacheHit, MemoryHit,
           LoginFails, LoginUndated, StoreToken, StoreFails, LoggedIn
      <4> QED
        BY <1>1, <1>8, <2>1, <3>6, <4>1 DEF CachedInv
    <3> QED
      BY <3>1, <3>2, <3>3, <3>4, <3>5, <3>6
  <2>2. CASE /\ (now + LIFETIME <= cache.token + 2 * MaxDelay)'
             /\ pc'[c] \in {"idle", "get", "stored"} /\ expiration' = expiration
    <3>1. cache'.token \in Nat
      BY <1>1, StepTypes DEF Typed
    <3> QED
      BY <1>1, <1>2, <1>3, <2>2, <3>1 DEF CachedInv, WaitInv
  <2> QED
    BY <1>11, <2>1, <2>2, LiveStep
<1> QED
  BY <1>9, <1>10, <1>11 DEF CachedInv

(* What it leaves of those of the other clients *)
LEMMA OthersDates ==
  ASSUME DatesInv, NEW c \in Clients, Step(c) \/ NewInstance(c) \/ Call(c),
         NEW o \in Clients \ {c}
  PROVE  (WaitInv(o) /\ HeldInv(o) /\ CachedInv(o))'
<1>1. Typed /\ WaitInv(o) /\ HeldInv(o) /\ CachedInv(o)
  BY DEF DatesInv, AuthInv
<1>2. /\ now' = now /\ pc'[o] = pc[o] /\ due'[o] = due[o] /\ seen'[o] = seen[o]
      /\ reply'[o] = reply[o] /\ token'[o] = token[o] /\ expiration'[o] = expiration[o]
  BY <1>1, OthersKeep
<1>3. WaitInv(o)' /\ HeldInv(o)'
  BY <1>1, <1>2 DEF WaitInv, HeldInv
<1>4. ASSUME Live' PROVE CachedInv(o)'
  <2>1. CASE Live /\ cache' = cache
    BY <1>1, <1>2, <2>1 DEF CachedInv
  <2>2. CASE (now + LIFETIME <= cache.token + 2 * MaxDelay)'
    <3>1. cache'.token \in Nat
      BY <1>1, StepTypes DEF Typed
    <3>2. /\ now \in Nat /\ due[o] \in Nat /\ expiration[o] \in Nat /\ MaxDelay \in Nat
          /\ LIFETIME \in Nat /\ EXPIRES_IN \in Nat /\ Overrun \in Nat
          /\ EXPIRES_IN <= LIFETIME + Overrun
      BY <1>1, Quantities
    <3> QED
      BY <1>1, <1>2, <2>2, <3>1, <3>2 DEF CachedInv, WaitInv
  <2> QED
    BY <1>4, <2>1, <2>2, LiveStep
<1> QED
  BY <1>3, <1>4 DEF CachedInv

LEMMA DatesNext == DatesInv /\ [Next]_vars => DatesInv'
<1> SUFFICES ASSUME DatesInv, [Next]_vars PROVE DatesInv'
  OBVIOUS
<1>1. AuthInv'
  BY AuthNext DEF DatesInv
<1>2. ASSUME NEW c \in Clients, Step(c) \/ NewInstance(c) \/ Call(c) PROVE DatesInv'
  <2>1. Live' => (cache.until <= cache.token + 2 * MaxDelay + Overrun)'
    BY <1>2, LiveStep
  <2> QED
    BY <1>1, <1>2, <2>1, DatesStep, OthersDates DEF DatesInv
<1>3. CASE CacheLost \/ UNCHANGED vars
  <2>1. Live' => Live /\ cache' = cache
    BY <1>3 DEF CacheLost, Live, Empty, vars
  <2>2. now' = now /\ UNCHANGED clientVars
    BY <1>3 DEF CacheLost, vars
  <2> QED
    BY <1>1, <2>1, <2>2 DEF DatesInv, WaitInv, HeldInv, CachedInv, clientVars
<1>4. CASE Tick
  <2>1. /\ now' = now + 1 /\ cache' = cache /\ UNCHANGED clientVars /\ Typed
        /\ \A c \in Clients : pc[c] # "idle" => now < due[c]
    BY <1>4 DEF Tick, DatesInv, AuthInv
  <2>2. Live' => Live
    BY <2>1 DEF Live, Typed
  <2>3. ASSUME NEW c \in Clients PROVE (WaitInv(c) /\ HeldInv(c) /\ CachedInv(c))'
    <3>1. WaitInv(c) /\ HeldInv(c) /\ CachedInv(c)
      BY DEF DatesInv
    <3>2. WaitInv(c)'
      BY <2>1, <3>1, Quantities DEF WaitInv, clientVars
    <3>3. HeldInv(c)' /\ CachedInv(c)'
      BY <2>1, <2>2, <3>1 DEF HeldInv, CachedInv, clientVars
    <3> QED
      BY <3>2, <3>3
  <2> QED
    BY <1>1, <2>1, <2>2, <2>3 DEF DatesInv
<1> QED
  BY <1>2, <1>3, <1>4 DEF Next

LEMMA DatesInvariant == Spec => []DatesInv
<1> QED
  BY DatesInit, DatesNext, PTL DEF Spec

(* The steps that hand a token out. *)
LEMMA TokenStep ==
  ASSUME Typed, [Next]_vars, NEW c \in Clients, EndsNow(c), result'[c] = "token"
  PROVE  CacheHit(c) \/ MemoryHit(c) \/ LoggedIn(c)
<1>1. PICK o \in Clients : Step(o) \/ NewInstance(o) \/ Call(o)
  BY DEF Next, CacheLost, Tick, vars, clientVars, EndsNow
<1>2. o = c
  BY <1>1, OthersKeep DEF EndsNow
<1>3. CASE ReadFails(c) \/ LoginFails(c) \/ LoginUndated(c) \/ StoreFails(c)
  BY <1>3 DEF ReadFails, LoginFails, LoginUndated, StoreFails, Retry, Ends, EndsNow, Goto, Typed
<1>4. CASE \/ NewInstance(c) \/ Call(c) \/ ReadCache(c) \/ Login(c) \/ BankIssues(c)
           \/ LoginReturns(c) \/ StoreToken(c)
  BY <1>4 DEF NewInstance, Call, ReadCache, Login, BankIssues, LoginReturns, StoreToken, EndsNow,
     Goto, Typed
<1> QED
  BY <1>1, <1>2, <1>3, <1>4 DEF Step

(* Each of them hands it out in time. *)
LEMMA ServedInTime ==
  ASSUME DatesInv, NEW c \in Clients, CacheHit(c) \/ MemoryHit(c) \/ LoggedIn(c)
  PROVE  now < token'[c] + Staleness
<1>1. Typed /\ WaitInv(c) /\ HeldInv(c) /\ CallInv(c)
  BY DEF DatesInv, AuthInv
<1>2. /\ now \in Nat /\ due[c] \in Nat /\ seen[c] \in Nat /\ token[c] \in Nat
      /\ expiration[c] \in Nat /\ MaxDelay \in Nat /\ LIFETIME \in Nat /\ LIFETIME > 0
      /\ EXPIRES_IN \in Nat /\ Overrun \in Nat /\ EXPIRES_IN <= LIFETIME + Overrun
  BY <1>1, Quantities
<1> USE DEF Staleness
<1>3. CASE CacheHit(c)
  BY <1>1, <1>2, <1>3 DEF CacheHit, WaitInv, HeldInv, Typed
<1>4. CASE MemoryHit(c)
  BY <1>1, <1>2, <1>4 DEF MemoryHit, InMemory, HeldInv
<1>5. CASE LoggedIn(c)
  BY <1>1, <1>2, <1>5 DEF LoggedIn, WaitInv, HeldInv
<1> QED
  BY <1>3, <1>4, <1>5

(* However logins and late SETs interleave, whatever the cache loses and   *)
(* however often calls are retried: a token that get_valid_token hands out *)
(* is past its date at the bank by less than five waits and the Overrun.   *)
THEOREM TokensAreStaleByDelaysOnly == Spec => StaleByDelaysOnly
<1>1. ASSUME DatesInv, [Next]_vars, NEW c \in Clients, EndsNow(c), result'[c] = "token"
      PROVE  now < token'[c] + Staleness
  BY <1>1, TokenStep, ServedInTime DEF DatesInv, AuthInv
<1>2. DatesInv /\ [Next]_vars
        => [\A c \in Clients :
             EndsNow(c) /\ result'[c] = "token" => now < token'[c] + Staleness]_vars
  BY <1>1
<1> QED
  BY <1>2, DatesInvariant, PTL DEF Spec, StaleByDelaysOnly

-----------------------------------------------------------------------------
(***************************************************************************)
(* BankingAuth implements BankTokens.  What circulates is copied from the  *)
(* cache to a client, from an answer to its client and from a client to    *)
(* the cache; only BankIssues adds to it.                                  *)
(***************************************************************************)
LEMMA CirculationFacts ==
  ASSUME NEW t
  PROVE  t \in Circulating <=>
           /\ t # NoToken
           /\ \/ t = cache.token
              \/ \E c \in Clients : t = seen[c] \/ t = reply[c] \/ t = token[c]
BY DEF Circulating

LEMMA CirculationStep ==
  ASSUME Typed, NEW c \in Clients, Step(c) \/ NewInstance(c) \/ Call(c)
  PROVE  /\ Circulating' \subseteq Circulating \cup {now + LIFETIME}
         /\ ~BankIssues(c) => Circulating' \subseteq Circulating
<1>1. cache'.token \in {cache.token, token[c]}
  BY CacheStep DEF Stored
<1>2. seen'[c] \in {seen[c], cache.token, NoToken}
  <2>1. CASE ReadCache(c)
    BY <2>1 DEF ReadCache, Cached, Typed
  <2>2. CASE ~ReadCache(c)
    BY <2>2 DEF Typed, Step, NewInstance, Call, ReadFails, CacheHit, MemoryHit, Login,
       BankIssues, LoginFails, LoginReturns, LoginUndated, StoreToken, StoreFails, LoggedIn
  <2> QED
    BY <2>1, <2>2
<1>3. /\ reply'[c] \in {reply[c], NoToken, now + LIFETIME}
      /\ ~BankIssues(c) => reply'[c] \in {reply[c], NoToken}
  BY DEF Typed, Step, NewInstance, Call, ReadCache, ReadFails, CacheHit, MemoryHit, Login,
     BankIssues, LoginFails, LoginReturns, LoginUndated, StoreToken, StoreFails, LoggedIn
<1>4. token'[c] \in {token[c], seen[c], reply[c], NoToken}
  BY DEF Typed, Step, NewInstance, Call, ReadCache, ReadFails, CacheHit, MemoryHit, Login,
     BankIssues, LoginFails, LoginReturns, LoginUndated, StoreToken, StoreFails, LoggedIn
<1>5. \A o \in Clients \ {c} : seen'[o] = seen[o] /\ reply'[o] = reply[o] /\ token'[o] = token[o]
  BY OthersKeep
<1>6. ASSUME NEW t \in Circulating'
      PROVE  t \in Circulating \/ (BankIssues(c) /\ t = now + LIFETIME)
  <2>1. /\ t # NoToken
        /\ \/ t = cache'.token
           \/ \E o \in Clients : t = seen'[o] \/ t = reply'[o] \/ t = token'[o]
    BY <1>6 DEF Circulating
  <2>2. CASE t = cache'.token
    BY <1>1, <2>1, <2>2, CirculationFacts
  <2>3. CASE t = seen'[c] \/ t = reply'[c] \/ t = token'[c]
    BY <1>2, <1>3, <1>4, <2>1, <2>3, CirculationFacts
  <2>4. CASE \E o \in Clients \ {c} : t = seen'[o] \/ t = reply'[o] \/ t = token'[o]
    BY <1>5, <2>1, <2>4, CirculationFacts
  <2> QED
    BY <2>1, <2>2, <2>3, <2>4
<1> QED
  BY <1>6

(* What BankTokens sees of a step of c is what it does to c.               *)
LEMMA SeenOfStep ==
  ASSUME AuthInv, NEW c \in Clients, Step(c) \/ NewInstance(c) \/ Call(c)
  PROVE  /\ now' = now
         /\ Asking' = [Asking EXCEPT ![c] = pc'[c] # "idle"]
         /\ logins' = [logins EXCEPT ![c] = logins'[c]]
         /\ result' = [result EXCEPT ![c] = result'[c]]
         /\ Granted' = [Granted EXCEPT ![c] = Granted'[c]]
<1>1. Typed /\ Typed'
  BY StepTypes DEF AuthInv
<1>2. \A o \in Clients \ {c} :
        /\ pc'[o] = pc[o] /\ token'[o] = token[o] /\ logins'[o] = logins[o]
        /\ result'[o] = result[o]
  BY <1>1, OthersKeep
<1>3. now' = now
  BY <1>1, CacheStep
<1>4. Asking' = [Asking EXCEPT ![c] = pc'[c] # "idle"]
  BY <1>2 DEF Asking
<1>5. /\ logins' = [logins EXCEPT ![c] = logins'[c]]
      /\ result' = [result EXCEPT ![c] = result'[c]]
  BY <1>1, <1>2 DEF Typed
<1>6. Granted' = [Granted EXCEPT ![c] = Granted'[c]]
  BY <1>2 DEF Granted
<1> QED
  BY <1>3, <1>4, <1>5, <1>6

(* The end of a call *)
LEMMA EndImplements ==
  ASSUME AuthInv, NEW c \in Clients, Step(c), NEW how \in Results, Ends(c, how),
         pc[c] # "idle"
  PROVE  Tokens!End(c, how, IF how = "token" THEN token'[c] ELSE NoToken)
<1>1. /\ now' = now
      /\ Asking' = [Asking EXCEPT ![c] = pc'[c] # "idle"]
      /\ logins' = [logins EXCEPT ![c] = logins'[c]]
      /\ result' = [result EXCEPT ![c] = result'[c]]
      /\ Granted' = [Granted EXCEPT ![c] = Granted'[c]]
  BY SeenOfStep
<1>2. pc'[c] = "idle" /\ logins'[c] = 0 /\ result'[c] = how
  BY DEF Ends, Goto, AuthInv, Typed
<1>3. Granted'[c] = IF how = "token" THEN token'[c] ELSE NoToken
  BY <1>2 DEF Granted
<1>4. Circulating' \subseteq Circulating
  BY <1>2, CirculationStep DEF AuthInv, Typed, BankIssues, Goto
<1>5. Asking[c] /\ (pc'[c] # "idle") = FALSE
  BY <1>2 DEF Asking
<1> QED
  BY <1>1, <1>2, <1>3, <1>4, <1>5 DEF Tokens!End

(* A step inside a call, or one that only moves tokens *)
LEMMA InsideImplements ==
  ASSUME AuthInv, NEW c \in Clients, Step(c), pc[c] # "idle", pc'[c] # "idle",
         logins'[c] = logins[c], result'[c] = result[c]
  PROVE  Tokens!Issue
<1>1. /\ now' = now
      /\ Asking' = [Asking EXCEPT ![c] = pc'[c] # "idle"]
      /\ logins' = [logins EXCEPT ![c] = logins'[c]]
      /\ result' = [result EXCEPT ![c] = result'[c]]
      /\ Granted' = [Granted EXCEPT ![c] = Granted'[c]]
  BY SeenOfStep
<1>2. Granted'[c] = NoToken /\ Granted[c] = NoToken
  BY DEF Granted, AuthInv, CallInv
<1>3. Asking' = Asking
  <2>1. \A o \in Clients \ {c} : pc'[o] = pc[o]
    BY OthersKeep DEF AuthInv
  <2>2. \A o \in Clients : pc'[o] # "idle" <=> pc[o] # "idle"
    BY <2>1
  <2> QED
    BY <2>2 DEF Asking
<1>4. Granted' = Granted
  BY <1>1, <1>2 DEF Granted
<1>5. logins' = logins /\ result' = result
  BY <1>1 DEF AuthInv, Typed
<1>6. Circulating' \subseteq Circulating \cup {now + LIFETIME}
  BY CirculationStep DEF AuthInv
<1> QED
  BY <1>1, <1>3, <1>4, <1>5, <1>6 DEF Tokens!Issue

LEMMA StepImplements ==
  ASSUME DatesInv, NEW c \in Clients, Step(c)
  PROVE  Tokens!Next
<1>1. /\ AuthInv /\ Typed /\ Typed' /\ CallInv(c) /\ CallInv(c)'
      /\ Circulating' \subseteq Circulating \cup {now + LIFETIME}
      /\ ~BankIssues(c) => Circulating' \subseteq Circulating
  BY StepTypes, StepInv, CirculationStep DEF DatesInv, AuthInv
<1>2. ASSUME Retry(c), pc[c] \in AfterLogin PROVE Tokens!Next
  <2>1. CASE Ends(c, "exhausted")
    <3>1. logins[c] = MAX_RETRIES + 1
      <4>1. retries[c] \in 0..MAX_RETRIES /\ logins[c] = retries[c] + 1
        BY <1>1, <1>2 DEF Typed, CallInv
      <4>2. ~(retries[c] < MAX_RETRIES)
        BY <1>1, <1>2, <2>1 DEF Retry, Ends, Goto, Typed
      <4> QED
        BY <4>1, <4>2, RetriesAssumption
    <3>2. Tokens!End(c, "exhausted", NoToken)
      BY <1>1, <1>2, <2>1, EndImplements DEF AfterLogin, Results
    <3> QED
      BY <3>1, <3>2 DEF Tokens!Next, Tokens!Refuse
  <2>2. CASE ~Ends(c, "exhausted")
    <3>1. pc'[c] = "get" /\ logins' = logins /\ result' = result
      BY <1>1, <1>2, <2>2 DEF Retry, Goto, Typed
    <3> QED
      BY <1>1, <1>2, <3>1, InsideImplements DEF AfterLogin, Tokens!Next
  <2> QED
    BY <2>1, <2>2
<1>3. CASE LoginFails(c) \/ LoginUndated(c) \/ StoreFails(c)
  BY <1>2, <1>3 DEF LoginFails, LoginUndated, StoreFails, AfterLogin
<1>4. CASE ReadFails(c)
  <2>1. Tokens!End(c, "cache", NoToken)
    BY <1>1, <1>4, EndImplements DEF ReadFails, Results
  <2> QED
    BY <2>1 DEF Tokens!Next, Tokens!Refuse
<1>5. CASE CacheHit(c) \/ MemoryHit(c) \/ LoggedIn(c)
  <2>1. Ends(c, "token") /\ pc[c] # "idle"
    BY <1>5 DEF CacheHit, MemoryHit, LoggedIn
  <2>2. Tokens!End(c, "token", token'[c])
    BY <1>1, <2>1, EndImplements DEF Results
  <2>3. token'[c] # NoToken /\ token'[c] \in Circulating
    <3>1. token'[c] \in {token[c], seen[c]}
      BY <1>1, <1>5 DEF CacheHit, MemoryHit, LoggedIn, Typed
    <3>2. result'[c] = "token"
      BY <1>1, <2>1 DEF Ends, Typed
    <3> QED
      BY <1>1, <3>1, <3>2, CirculationFacts DEF CallInv
  <2>4. now < token'[c] + Staleness
    BY <1>5, ServedInTime
  <2> QED
    BY <2>2, <2>3, <2>4 DEF Tokens!Next, Tokens!Grant
<1>6. CASE Login(c)
  <2>1. /\ now' = now
        /\ logins' = [logins EXCEPT ![c] = logins'[c]]
        /\ UNCHANGED <<cache, seen, reply, token, result>>
    BY <1>1, <1>6, SeenOfStep DEF Login
  <2>2. logins[c] <= MAX_RETRIES /\ logins'[c] = logins[c] + 1
    BY <1>1, <1>6, RetriesAssumption DEF Login, CallInv, BeforeLogin, Typed
  <2>3. Asking' = Asking /\ Asking[c]
    <3>1. \A o \in Clients : pc'[o] # "idle" <=> pc[o] # "idle"
      BY <1>1, <1>6 DEF Login, Goto, Typed
    <3> QED
      BY <1>6, <3>1 DEF Asking, Login
  <2>4. Circulating' = Circulating /\ Granted' = Granted
    BY <2>1 DEF Circulating, Granted
  <2> QED
    BY <2>1, <2>2, <2>3, <2>4 DEF Tokens!Next, Tokens!Post
<1>7. CASE ReadCache(c) \/ BankIssues(c) \/ LoginReturns(c) \/ StoreToken(c)
  <2>1. /\ pc[c] # "idle" /\ pc'[c] # "idle" /\ logins' = logins /\ result' = result
    BY <1>1, <1>7 DEF ReadCache, BankIssues, LoginReturns, StoreToken, Goto, Typed
  <2> QED
    BY <1>1, <2>1, InsideImplements DEF Tokens!Next
<1> QED
  BY <1>3, <1>4, <1>5, <1>6, <1>7 DEF Step

LEMMA BeginImplements ==
  ASSUME AuthInv, NEW c \in Clients, NewInstance(c) \/ Call(c)
  PROVE  Tokens!Next
<1>1. /\ now' = now
      /\ Asking' = [Asking EXCEPT ![c] = pc'[c] # "idle"]
      /\ result' = [result EXCEPT ![c] = result'[c]]
      /\ Granted' = [Granted EXCEPT ![c] = Granted'[c]]
  BY SeenOfStep
<1>2. pc[c] = "idle" /\ result'[c] = "pending" /\ logins' = logins
  BY DEF NewInstance, Call, AuthInv, Typed
<1>3. ~Asking[c] /\ Granted'[c] = NoToken
  BY <1>2 DEF Asking, Granted
<1>4. Circulating' \subseteq Circulating
  BY <1>2, CirculationStep DEF BankIssues, AuthInv
<1>5. Tokens!Begin(c, pc'[c] # "idle")
  BY <1>1, <1>2, <1>3, <1>4 DEF Tokens!Begin
<1>6. (pc'[c] # "idle") \in BOOLEAN
  OBVIOUS
<1> QED
  BY <1>5, <1>6 DEF Tokens!Next

LEMMA NextImplements == DatesInv /\ [Next]_vars => [Tokens!Next]_Tokens!vars
<1> SUFFICES ASSUME DatesInv, [Next]_vars PROVE [Tokens!Next]_Tokens!vars
  OBVIOUS
<1>1. ASSUME NEW c \in Clients, NewInstance(c) \/ Call(c) \/ Step(c) PROVE Tokens!Next
  BY <1>1, StepImplements, BeginImplements DEF DatesInv
<1>2. CASE CacheLost
  <2>1. Circulating' \subseteq Circulating
    BY <1>2 DEF CacheLost, clientVars, Circulating, Empty
  <2> QED
    BY <1>2, <2>1 DEF CacheLost, clientVars, Tokens!Next, Tokens!Issue, Asking, Granted
<1>3. CASE Tick
  BY <1>3 DEF Tick, clientVars, Tokens!Next, Tokens!Tick, Circulating, Asking, Granted
<1>4. CASE UNCHANGED vars
  BY <1>4 DEF vars, clientVars, Tokens!vars, Circulating, Asking, Granted
<1> QED
  BY <1>1, <1>2, <1>3, <1>4 DEF Next

(* The cache, the retries and the coroutines implement BankTokens: any     *)
(* number of clients and retries, any lifetime and delays.                 *)
THEOREM AuthImplementsTokens == Spec => ImplementsTokens
<1>1. Init => Tokens!Init
  <2> SUFFICES ASSUME Init PROVE Tokens!Init
    OBVIOUS
  <2>1. Circulating = {}
    BY CirculationFacts DEF Init, Empty
  <2> QED
    BY <2>1 DEF Init, Tokens!Init, Asking, Granted
<1> QED
  BY <1>1, NextImplements, DatesInvariant, PTL DEF Spec, ImplementsTokens, Tokens!Spec
=============================================================================
