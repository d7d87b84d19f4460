------------------------------ MODULE Gateway ------------------------------
(***************************************************************************)
(* The request pipeline of the gateway (gateway.py: chat_completion,       *)
(* chat_completion_stream, _call_with_fallback) with the authentication in *)
(* front of it (app.py: require_key), over the key store, the exact-match  *)
(* (L1) cache and the semantic (L2) cache.                                 *)
(*                                                                         *)
(* The server is one asyncio event loop: the code of a handler between two *)
(* awaits is one step, and other handlers run only while this one waits    *)
(* for a provider or for the client of a stream.  A request therefore has  *)
(* one arrival step (everything up to the provider call), zero or one      *)
(* failover, any number of stream chunks, and one final step.              *)
(***************************************************************************)
EXTENDS Store, SemanticLookup

CONSTANTS
    Requests,         \* identities of client requests
    Payloads,         \* what clients send: a set of Payload records
    Teams,            \* team ids
    Providers,        \* upstream provider names
    Upstreams,        \* upstream model names
    AutoModel,        \* the automatic model alias
    None,             \* an absent field
    Routes,           \* Routes[m]: provider, upstream model and fallback of m
    Declared,         \* the models in config.routes; the rest are dynamic
    DefaultFamily,    \* provider family of a model not in config.routes
    RawTierModel,     \* _resolve_auto_model of the tier of the raw prompt
    PrunedTierModel,  \* the same for the pruned prompt
    Context,          \* Context[q]: system prompt and temperature bucket of q
    Hash(_),          \* SHA-256 of the joined parts of a namespace
    Blank,            \* prompts with no user text
    EstTokens,        \* EstTokens[q]: projected tokens, prompt + completion
    Price,            \* Price[u]: cost of one token of upstream model u
    MaxTokens,        \* bound: tokens one answer is billed
    Configured,       \* providers that have an adapter
    CanStream,        \* providers whose adapter has stream_chat
    NullUsage,        \* providers that may answer with "usage": null
    CacheEnabled,     \* config.cache_enabled
    L1Ttl,            \* config.cache_ttl_seconds; 0: entries never expire
    L2Ttl,            \* payload.ttl_seconds, or its default
    Tau,              \* the base similarity threshold
    Seed,             \* Seed[k]: row of k in the configuration, or Absent
    Employees,        \* keys that belong to a registered employee
    EmployeeRow,      \* the row require_key creates for an employee
    KeyRows,          \* KeyRows[k]: rows an operator or a login may give k
    MaxTime,          \* bound on the clock
    MaxCrashes        \* bound on process restarts

Payload == [key : Keys, model : Models \cup {AutoModel, None},
            prompt : Prompts \cup {None}, team : Teams,
            no_store : BOOLEAN, stream : BOOLEAN,
            ttl_ok : BOOLEAN]   \* ttl_seconds is a number, or not given

Route == [provider : Providers, upstream : Upstreams,
          fallback : Models \cup {None}]

ASSUME PayloadAssumption ==
    /\ Payloads \subseteq Payload
    /\ AutoModel \notin Models /\ None \notin Models /\ None # AutoModel
    /\ None \notin Prompts /\ None \notin Payload

ASSUME RoutingAssumption ==
    /\ Routes \in [Models -> Route]
    /\ Declared \subseteq Models
    /\ RawTierModel \in [Prompts -> Models \cup {None}]
    /\ PrunedTierModel \in [Prompts -> Models]

ASSUME AccountAssumption ==
    /\ Absent \notin KeyRow
    /\ KeyRows \in [Keys -> SUBSET KeyRow]
    /\ Seed \in [Keys -> KeyRow \cup {Absent}]
    /\ \A k \in Keys : Seed[k] \in KeyRows[k] \cup {Absent}
    /\ Employees \subseteq Keys
    /\ EmployeeRow \in KeyRow
    /\ \A k \in Employees : EmployeeRow \in KeyRows[k]

ASSUME ChargeAssumption ==
    /\ EstTokens \in [Prompts -> Nat]
    /\ Price \in [Upstreams -> Nat]
    /\ MaxTokens \in Nat \ {0}
    /\ L1Ttl \in Nat /\ L2Ttl \in Nat
    /\ Tau \in 0..(Scale - 1)
    /\ MaxTime \in Nat /\ MaxCrashes \in Nat
    /\ CacheEnabled \in BOOLEAN
    /\ IsFiniteSet(Requests)

VARIABLES
    req,       \* req[r]: the state of request r
    l1,        \* the exact-match cache, by cache key
    l2,        \* the entries of the semantic cache
    now,       \* the clock
    crashes,   \* restarts of the process so far
    peak       \* peak[k]: most requests of k ever in flight at once

cacheVars == <<l1, l2>>
envVars == <<now, crashes>>
vars == <<storeVars, req, cacheVars, envVars, peak>>

(***************************************************************************)
(* The state of a request.  "tokens" is what it was billed, whether the    *)
(* provider reported it or the adapter estimated it, and for a stream in   *)
(* progress the chunks so far; "resp" names the request a response was     *)
(* produced for and the model that produced it, and tells whether its      *)
(* usage is an object or null.                                             *)
(***************************************************************************)
Waiting == {"primary", "fallback", "stream"}

Response == [by : Requests, upstream : Upstreams, counted : BOOLEAN]

Request == [phase : {"new", "done"} \cup Waiting, status : Nat,
            in : Payloads \cup {None}, admit : BOOLEAN, tokens : Nat,
            resp : Response \cup {None}, tier : {"none", "l1", "l2", "miss"}]

CacheKey == Upstreams \X Prompts

L1Entry == [resp : Response, expires : Nat]

ASSUME NoneAssumption == None \notin Response /\ None \notin L1Entry

NewRequest == [phase |-> "new", status |-> 0, in |-> None, admit |-> FALSE,
               tokens |-> 0, resp |-> None, tier |-> "none"]

Ended(p, status) ==
    [phase |-> "done", status |-> status, in |-> p, admit |-> FALSE,
     tokens |-> 0, resp |-> None, tier |-> "none"]

\* A request that was recorded as answered, and how: a hit, a stream or an
\* answer of a provider.  The last may still fail on its way to the client.
Answered(p, status, admit, tokens, resp, tier) ==
    [phase |-> "done", status |-> status, in |-> p, admit |-> admit,
     tokens |-> tokens, resp |-> resp, tier |-> tier]

\* Statuses of a request that ended without an answer to its client.
Lost == 0          \* the process died
Cancelled == 499   \* the client went away

(***************************************************************************)
(* Routing, namespaces and cache keys: functions of the payload alone.     *)
(***************************************************************************)
\* The model authorised, and looked up in L1: for the automatic alias, the
\* one the raw prompt resolves to.
PreModel(p) ==
    IF p.model = AutoModel THEN RawTierModel[p.prompt] ELSE p.model

\* The model dispatched: scored again on the pruned prompt, except in a stream.
PostModel(p) ==
    IF p.model = AutoModel /\ ~p.stream THEN PrunedTierModel[p.prompt]
                                        ELSE PreModel(p)

Family(p) == IF p.model \in Declared THEN Routes[p.model].provider
                                     ELSE DefaultFamily

\* The parts are joined by "||" before they are hashed, so distinct parts may
\* have one namespace: nothing below takes Hash to be injective.
Namespace(p) == Hash(<<p.team, Family(p), Context[p.prompt]>>)

L1Key(p) == <<Routes[PreModel(p)].upstream, p.prompt>>

CostOf(m, tokens) == Price[Routes[m].upstream] * tokens

(***************************************************************************)
(* Authentication and the checks that end a request at once.               *)
(***************************************************************************)
\* require_key: a key without a row gets one if it belongs to an employee.
Row(p) == IF api_keys[p.key] = Absent /\ p.key \in Employees
          THEN EmployeeRow ELSE api_keys[p.key]

Authenticate(p) == api_keys' = [api_keys EXCEPT ![p.key] = Row(p)]

RefusalStatus(p) ==
    IF Row(p) = Absent THEN 401
    ELSE IF p.model = None \/ p.prompt = None THEN 400
    ELSE IF PreModel(p) \notin Models THEN 404
    ELSE IF ~Permits(Row(p), PreModel(p)) THEN 403
    ELSE 200

Refuse(r, p) ==
    /\ req[r].phase = "new"
    /\ RefusalStatus(p) # 200
    /\ Authenticate(p)
    /\ req' = [req EXCEPT ![r] = Ended(p, RefusalStatus(p))]
    /\ UNCHANGED <<usage, log, audit, cacheVars, envVars, peak>>

Accepted(r, p) == req[r].phase = "new" /\ RefusalStatus(p) = 200

(***************************************************************************)
(* The two caches in front of the provider.                                *)
(***************************************************************************)
\* Seeded bug: X-Cache: no-store is not consulted.
KeyEnabled_IgnoresNoStore(p) ==
    CacheEnabled /\ ~p.stream /\ Row(p).cache_enabled

KeyEnabled(p) ==
    CacheEnabled /\ ~p.stream /\ ~p.no_store /\ Row(p).cache_enabled

L1Hit(p) ==
    LET e == l1[L1Key(p)]
    IN  e # None /\ (e.expires = 0 \/ now <= e.expires)

L2Answers(p) == Answers(l2, Namespace(p), p.prompt, now, Tau)

\* InMemoryCache.get drops an entry it finds expired.
L1AfterMiss(p) == IF KeyEnabled(p) THEN [l1 EXCEPT ![L1Key(p)] = None] ELSE l1

Missed(p) == KeyEnabled(p) => ~L1Hit(p) /\ Nothing \in L2Answers(p)

\* A response with the usage null raises before the hit is recorded.
ServeHit(r, p, resp, tier) ==
    IF resp.counted
    THEN /\ Settle(p.key, 0, 0, TRUE, TRUE, AllCommits)
         /\ req' = [req EXCEPT ![r] = Answered(p, 200, FALSE, 0, resp, tier)]
    ELSE /\ req' = [req EXCEPT ![r] = Ended(p, 500)]
         /\ UNCHANGED <<usage, log, audit>>

HitL1(r, p) ==
    /\ Accepted(r, p)
    /\ KeyEnabled(p)
    /\ L1Hit(p)
    /\ ServeHit(r, p, l1[L1Key(p)].resp, "l1")
    /\ Authenticate(p)
    /\ UNCHANGED <<cacheVars, envVars, peak>>

HitL2(r, p) ==
    /\ Accepted(r, p)
    /\ KeyEnabled(p)
    /\ ~L1Hit(p)
    /\ \E e \in L2Answers(p) \ {Nothing} : ServeHit(r, p, e.resp, "l2")
    /\ Authenticate(p)
    /\ l1' = L1AfterMiss(p)
    /\ UNCHANGED <<l2, envVars, peak>>

(***************************************************************************)
(* Past the caches: the budget check, then the provider.                   *)
(***************************************************************************)
OverBudget(p) ==
    WouldExceedBudget(p.key, Row(p), CostOf(PostModel(p), EstTokens[p.prompt]),
                      EstTokens[p.prompt])

RejectOverBudget(r, p) ==
    /\ Accepted(r, p)
    /\ Missed(p)
    /\ OverBudget(p)
    /\ Reject(p.key, ~p.stream)
    /\ req' = [req EXCEPT ![r] = Ended(p, 402)]
    /\ Authenticate(p)
    /\ l1' = L1AfterMiss(p)
    /\ UNCHANGED <<l2, envVars, peak>>

\* provider_for: 500 without an adapter; a stream needs stream_chat, else 400.
DispatchStatus(p) ==
    LET provider == Routes[PostModel(p)].provider
    IN  IF provider \notin Configured THEN 500
        ELSE IF p.stream /\ provider \notin CanStream THEN 400
        ELSE 200

RefuseDispatch(r, p) ==
    /\ Accepted(r, p)
    /\ Missed(p)
    /\ ~OverBudget(p)
    /\ DispatchStatus(p) # 200
    /\ req' = [req EXCEPT ![r] = Ended(p, DispatchStatus(p))]
    /\ Authenticate(p)
    /\ l1' = L1AfterMiss(p)
    /\ UNCHANGED <<usage, log, audit, l2, envVars, peak>>

\* Requests of key k that a provider is working for.
InFlight(k) == {r \in Requests : req[r].phase \in Waiting /\ req[r].in.key = k}

\* The handler calls the provider and awaits: nothing is reserved in usage.
Dispatch(r, p) ==
    /\ Accepted(r, p)
    /\ Missed(p)
    /\ ~OverBudget(p)
    /\ DispatchStatus(p) = 200
    /\ req' = [req EXCEPT ![r] =
                  [phase |-> IF p.stream THEN "stream" ELSE "primary",
                   status |-> 0, in |-> p, admit |-> KeyEnabled(p),
                   tokens |-> 0, resp |-> None, tier |-> "none"]]
    /\ Authenticate(p)
    /\ l1' = L1AfterMiss(p)
    /\ peak' = [peak EXCEPT ![p.key] =
                   IF @ > Cardinality(InFlight(p.key)) THEN @
                   ELSE Cardinality(InFlight(p.key)) + 1]
    /\ UNCHANGED <<usage, log, audit, l2, envVars>>

(***************************************************************************)
(* A provider call ends.                                                   *)
(***************************************************************************)
\* The model whose provider is being called.
UsedModel(r) ==
    LET m == PostModel(req[r].in)
    IN  IF req[r].phase = "fallback" THEN Routes[m].fallback ELSE m

\* Cache admission, under the cache key and the flag computed at arrival.  The
\* ttl of the L2 entry is converted once the L1 entry is there, which may raise.
Admit(r, resp) ==
    LET p == req[r].in
    IN  /\ l1' = IF req[r].admit
                 THEN [l1 EXCEPT ![L1Key(p)] =
                          [resp |-> resp,
                           expires |-> IF L1Ttl = 0 THEN 0 ELSE now + L1Ttl]]
                 ELSE l1
        /\ l2' = IF req[r].admit /\ p.ttl_ok /\ p.prompt \notin Blank
                 THEN l2 \cup {[ns |-> Namespace(p), prompt |-> p.prompt,
                                resp |-> resp, created |-> now, ttl |-> L2Ttl]}
                 ELSE l2

\* What the client is told once the answer is recorded: a ttl that is no number
\* raises, and so does a null usage in /v1/chat/completions, which copies it,
\* though not in /api/chat/pipeline.
AnswerStatuses(r, resp) ==
    IF req[r].admit /\ ~req[r].in.ttl_ok THEN {500}
    ELSE IF ~resp.counted THEN {200, 500}
    ELSE {200}

\* A complete answer: cost by the model used, usage, both logs, both caches.
Answer(r, tokens, counted) ==
    LET p == req[r].in
        route == Routes[UsedModel(r)]
        resp == [by |-> r, upstream |-> route.upstream, counted |-> counted]
    IN  /\ req[r].phase \in {"primary", "fallback"}
        /\ ~counted => route.provider \in NullUsage
        /\ Settle(p.key, tokens, CostOf(UsedModel(r), tokens), FALSE, TRUE,
                  AllCommits)
        /\ Admit(r, resp)
        /\ \E status \in AnswerStatuses(r, resp) :
              req' = [req EXCEPT ![r] =
                         Answered(p, status, req[r].admit, tokens, resp, "miss")]
        /\ UNCHANGED <<api_keys, envVars, peak>>

\* The status of a failed call: a ProviderError of the primary becomes a
\* gateway error; one of the fallback is not caught again.
FailureStatus(r) == IF req[r].phase = "primary" THEN 502 ELSE 500

HasFallback(r) ==
    /\ req[r].phase = "primary"
    /\ Routes[UsedModel(r)].fallback # None

\* Seeded bug: a fallback that fails is answered by the primary again.
FailOver_Retries(r) ==
    /\ req[r].phase \in {"primary", "fallback"}
    /\ Routes[PostModel(req[r].in)].fallback # None
    /\ req' = [req EXCEPT ![r].phase = IF @ = "primary" THEN "fallback"
                                                       ELSE "primary"]
    /\ UNCHANGED <<storeVars, cacheVars, envVars, peak>>

\* ProviderError of the primary: one try of the route it names.
FailOver(r) ==
    /\ HasFallback(r)
    /\ Routes[Routes[UsedModel(r)].fallback].provider \in Configured
    /\ req' = [req EXCEPT ![r].phase = "fallback"]
    /\ UNCHANGED <<storeVars, cacheVars, envVars, peak>>

\* ProviderError and nobody left to ask; an unconfigured fallback is a 500.
UpstreamFails(r) ==
    /\ \/ req[r].phase = "fallback"
       \/ req[r].phase = "primary" /\ ~HasFallback(r)
    /\ req' = [req EXCEPT ![r] = Ended(req[r].in, FailureStatus(r))]
    /\ UNCHANGED <<storeVars, cacheVars, envVars, peak>>

FallbackUnconfigured(r) ==
    /\ HasFallback(r)
    /\ Routes[Routes[UsedModel(r)].fallback].provider \notin Configured
    /\ req' = [req EXCEPT ![r] = Ended(req[r].in, 500)]
    /\ UNCHANGED <<storeVars, cacheVars, envVars, peak>>

\* Any other exception of an adapter, possibly after the provider answered:
\* nothing catches it, so no fallback is tried and nothing is recorded.
AdapterBreaks(r) ==
    /\ req[r].phase \in Waiting
    /\ req' = [req EXCEPT ![r] = Ended(req[r].in, 500)]
    /\ UNCHANGED <<storeVars, cacheVars, envVars, peak>>

(***************************************************************************)
(* Streams: chunks, the end, and the two ways to stop before the end.      *)
(***************************************************************************)
StreamChunk(r) ==
    /\ req[r].phase = "stream"
    /\ req[r].tokens < MaxTokens
    /\ req' = [req EXCEPT ![r].tokens = @ + 1]
    /\ UNCHANGED <<storeVars, cacheVars, envVars, peak>>

\* The adapter's last chunk has the counts, as reported or estimated; without
\* one, nothing is billed.
StreamEnd(r, tokens) ==
    LET p == req[r].in
    IN  /\ req[r].phase = "stream"
        /\ Settle(p.key, tokens, CostOf(PostModel(p), tokens), FALSE, FALSE,
                  AllCommits)
        /\ req' = [req EXCEPT ![r] =
                      Answered(p, 200, FALSE, tokens, None, "miss")]
        /\ UNCHANGED <<api_keys, cacheVars, envVars, peak>>

StreamFails(r) ==
    /\ req[r].phase = "stream"
    /\ log' = LogFailed(log, req[r].in.key)
    /\ req' = [req EXCEPT ![r] = Ended(req[r].in, 502)]
    /\ UNCHANGED <<api_keys, usage, audit, cacheVars, envVars, peak>>

\* The client closes the connection: the generator is cancelled at a yield,
\* so not before the first chunk.
Disconnect(r) ==
    /\ req[r].phase = "stream"
    /\ req[r].tokens > 0
    /\ req' = [req EXCEPT ![r] = Ended(req[r].in, Cancelled)]
    /\ UNCHANGED <<storeVars, cacheVars, envVars, peak>>

(***************************************************************************)
(* The environment: time, operators, logins, restarts.                     *)
(***************************************************************************)
Tick ==
    /\ now < MaxTime
    /\ now' = now + 1
    /\ UNCHANGED <<storeVars, req, cacheVars, crashes, peak>>

\* POST /api/cache/clear
ClearCaches ==
    /\ l1' = [c \in CacheKey |-> None]
    /\ l2' = {}
    /\ UNCHANGED <<storeVars, req, envVars, peak>>

\* A login, a registration or the command line writes the limits of a key.
SetKey(k, row) ==
    /\ UpsertKey(k, row)
    /\ UNCHANGED <<log, audit, req, cacheVars, envVars, peak>>

\* What a restart does: handlers and in-memory caches are gone, committed
\* transactions stay, and the keys of the configuration are seeded again.
LoseProcess ==
    /\ crashes < MaxCrashes
    /\ crashes' = crashes + 1
    /\ req' = [r \in Requests |-> IF req[r].phase \in Waiting
                                  THEN Ended(req[r].in, Lost) ELSE req[r]]
    /\ l1' = [c \in CacheKey |-> None]
    /\ l2' = {}
    /\ api_keys' = [k \in Keys |-> IF Seed[k] = Absent THEN api_keys[k]
                                                       ELSE Seed[k]]
    /\ UNCHANGED <<now, peak>>

Crash == LoseProcess /\ UNCHANGED <<usage, log, audit>>

\* The process dies between two of the transactions that record an answer.
CrashWhileRecording(r, tokens, done) ==
    /\ req[r].phase \in Waiting
    /\ Settle(req[r].in.key, tokens, CostOf(UsedModel(r), tokens), FALSE,
              req[r].phase # "stream", done)
    /\ LoseProcess

Init ==
    /\ api_keys = Seed
    /\ usage = [k \in Keys |-> NoUsage]
    /\ log = [k \in Keys |-> NoRows]
    /\ audit = [k \in Keys |-> NoRows]
    /\ req = [r \in Requests |-> NewRequest]
    /\ l1 = [c \in CacheKey |-> None]
    /\ l2 = {}
    /\ now = 0
    /\ crashes = 0
    /\ peak = [k \in Keys |-> 0]

Arrive(r, p) ==
    \/ Refuse(r, p)
    \/ HitL1(r, p)
    \/ HitL2(r, p)
    \/ RejectOverBudget(r, p)
    \/ RefuseDispatch(r, p)
    \/ Dispatch(r, p)

\* The steps that end a provider call; a call has a timeout, so one comes.
CallEnds(r) ==
    \/ \E tokens \in 0..MaxTokens, counted \in BOOLEAN :
          Answer(r, tokens, counted)
    \/ FailOver(r)
    \/ UpstreamFails(r)
    \/ FallbackUnconfigured(r)
    \/ AdapterBreaks(r)
    \/ \E tokens \in 0..MaxTokens : StreamEnd(r, tokens)
    \/ StreamFails(r)
    \/ Disconnect(r)

RequestStep(r) ==
    \/ \E p \in Payloads : Arrive(r, p)
    \/ CallEnds(r)
    \/ StreamChunk(r)
    \/ \E tokens \in 0..MaxTokens, done \in 1..(AllCommits - 1) :
          CrashWhileRecording(r, tokens, done)

Next ==
    \/ \E r \in Requests : RequestStep(r)
    \/ \E k \in Keys : \E row \in KeyRows[k] : SetKey(k, row)
    \/ Tick
    \/ ClearCaches
    \/ Crash

Spec == Init /\ [][Next]_vars

\* Every provider call ends: the adapters pass a timeout to their HTTP client,
\* and a stream's client either reads or goes away.  How it ends is left open:
\* a provider may fail every time.
Fairness == \A r \in Requests : WF_vars(CallEnds(r))

FairSpec == Spec /\ Fairness
=============================================================================
