---------------------------- MODULE Gateway_proofs ----------------------------
(***************************************************************************)
(* Proofs about the request pipeline, for every value of the constants:    *)
(* the values of the variables, what the two caches hold, and what is      *)
(* recorded of the use of a key: the bound on what concurrent requests can *)
(* spend past a token cap, the order of usage, request log and audit log,  *)
(* and that the row of a key is the sum of what was recorded for it.       *)
(***************************************************************************)
EXTENDS GatewayProperties, Totals_proofs, FiniteSetTheorems, TLAPS

(***************************************************************************)
(* Calls in progress are well formed: what the end of a call reads from its*)
(* request was checked when it arrived.                                    *)
(***************************************************************************)
CallOK(r) ==
    /\ req[r].tokens <= MaxTokens
    /\ req[r].phase \in Waiting =>
          /\ req[r].in \in Payloads
          /\ req[r].in.prompt \in Prompts
          /\ PreModel(req[r].in) \in Models
          /\ PostModel(req[r].in) \in Models
          /\ req[r].admit => ~req[r].in.no_store /\ ~req[r].in.stream
    /\ req[r].phase = "fallback" =>
          Routes[PostModel(req[r].in)].fallback \in Models
    /\ req[r].phase # "done" => req[r].status = 0 /\ req[r].tier = "none"

CallsOK == \A r \in Requests : CallOK(r)

Typed == TypeOK /\ CallsOK

USE DEF Waiting

(***************************************************************************)
(* Facts about the operators the actions are built from.                   *)
(***************************************************************************)
LEMMA LogOkType ==
    ASSUME NEW table \in [Keys -> LogTotals], NEW k \in Keys, NEW t \in Nat,
           NEW c \in Nat
    PROVE  /\ LogOk(table, k, t, c) \in [Keys -> LogTotals]
           /\ \A j \in Keys \ {k} : LogOk(table, k, t, c)[j] = table[j]
           /\ LogOk(table, k, t, c)[k].ok = table[k].ok + 1
           /\ LogOk(table, k, t, c)[k].tokens = table[k].tokens + t
           /\ LogOk(table, k, t, c)[k].cost = table[k].cost + c
BY DEF LogOk, LogTotals

LEMMA LogFailedType ==
    ASSUME NEW table \in [Keys -> LogTotals], NEW k \in Keys
    PROVE  LogFailed(table, k) \in [Keys -> LogTotals]
BY DEF LogFailed, LogTotals

LEMMA RecordUsageType ==
    ASSUME StoreTypeOK, NEW k \in Keys, NEW t \in Nat, NEW c \in Nat,
           NEW hit \in BOOLEAN
    PROVE  /\ RecordUsage(k, t, c, hit) \in [Keys -> UsageRow]
           /\ \A j \in Keys \ {k} : RecordUsage(k, t, c, hit)[j] = usage[j]
           /\ RecordUsage(k, t, c, hit)[k].requests = usage[k].requests + 1
           /\ RecordUsage(k, t, c, hit)[k].total_tokens
                 = usage[k].total_tokens + t
           /\ RecordUsage(k, t, c, hit)[k].cost_usd = usage[k].cost_usd + c
BY DEF RecordUsage, StoreTypeOK, UsageRow

LEMMA SettleType ==
    ASSUME StoreTypeOK, NEW k \in Keys, NEW t \in Nat, NEW c \in Nat,
           NEW hit \in BOOLEAN, NEW audited \in BOOLEAN, NEW done,
           Settle(k, t, c, hit, audited, done)
    PROVE  /\ usage' \in [Keys -> UsageRow]
           /\ log' \in [Keys -> LogTotals]
           /\ audit' \in [Keys -> LogTotals]
BY LogOkType, RecordUsageType DEF Settle, StoreTypeOK

LEMMA PayloadType ==
    ASSUME NEW p \in Payloads
    PROVE  /\ p \in Payload
           /\ p.key \in Keys /\ p.model \in Models \cup {AutoModel, None}
           /\ p.prompt \in Prompts \cup {None}
           /\ p.no_store \in BOOLEAN /\ p.stream \in BOOLEAN
           /\ p.ttl_ok \in BOOLEAN
BY PayloadAssumption DEF Payload

LEMMA CostType ==
    ASSUME NEW m \in Models, NEW t \in Nat
    PROVE  CostOf(m, t) \in Nat
<1>1. Routes[m] \in Route
    BY RoutingAssumption
<1>2. Price[Routes[m].upstream] \in Nat
    BY <1>1, ChargeAssumption DEF Route
<1> QED BY <1>2 DEF CostOf

\* A request that passes the checks has a row, a prompt and a routed model.
LEMMA AcceptedOK ==
    ASSUME TypeOK, NEW r \in Requests, NEW p \in Payloads, Accepted(r, p)
    PROVE  /\ Row(p) \in KeyRow
           /\ p.prompt \in Prompts
           /\ PreModel(p) \in Models
           /\ PostModel(p) \in Models
           /\ L1Key(p) \in CacheKey
<1>1. /\ Row(p) # Absent /\ p.model # None /\ p.prompt # None
      /\ PreModel(p) \in Models
    BY DEF Accepted, RefusalStatus
<1>2. Row(p) \in KeyRow
    BY <1>1, PayloadType, AccountAssumption DEF Row, TypeOK, StoreTypeOK
<1>3. p.prompt \in Prompts
    BY <1>1, PayloadType
<1>4. PostModel(p) \in Models
    BY <1>1, <1>3, RoutingAssumption DEF PostModel
<1>5. L1Key(p) \in CacheKey
  <2>1. Routes[PreModel(p)] \in Route
    BY <1>1, RoutingAssumption
  <2> QED BY <2>1, <1>3 DEF L1Key, CacheKey, Route
<1> QED BY <1>1, <1>2, <1>3, <1>4, <1>5

LEMMA AuthenticateType ==
    ASSUME TypeOK, NEW p \in Payloads, Authenticate(p)
    PROVE  api_keys' \in [Keys -> KeyRow \cup {Absent}]
BY PayloadType, AccountAssumption
   DEF Authenticate, Row, TypeOK, StoreTypeOK

LEMMA EndedType ==
    ASSUME NEW p \in Payloads, NEW status \in Nat
    PROVE  /\ Ended(p, status) \in Request
           /\ Ended(p, status).phase = "done"
           /\ Ended(p, status).tokens = 0
BY DEF Ended, Request

LEMMA AnsweredType ==
    ASSUME NEW p \in Payloads, NEW status \in Nat, NEW admit \in BOOLEAN,
           NEW tokens \in Nat, NEW resp \in Response \cup {None},
           NEW tier \in {"l1", "l2", "miss"}
    PROVE  /\ Answered(p, status, admit, tokens, resp, tier) \in Request
           /\ Answered(p, status, admit, tokens, resp, tier).phase = "done"
           /\ Answered(p, status, admit, tokens, resp, tier).tokens = tokens
BY DEF Answered, Request

LEMMA MaxTokensType == MaxTokens \in Nat /\ MaxTokens > 0
BY ChargeAssumption

\* The model whose provider a waiting request is at, and what it is billed.
LEMMA UsedModelType ==
    ASSUME Typed, NEW r \in Requests, req[r].phase \in Waiting
    PROVE  UsedModel(r) \in Models
BY DEF Typed, CallsOK, CallOK, UsedModel

LEMMA RejectType ==
    ASSUME StoreTypeOK, NEW k \in Keys, NEW audited \in BOOLEAN,
           Reject(k, audited)
    PROVE  /\ usage' \in [Keys -> UsageRow]
           /\ log' \in [Keys -> LogTotals]
           /\ audit' \in [Keys -> LogTotals]
BY DEF Reject, LogRejected, StoreTypeOK, LogTotals

\* A request that ends, with any record, keeps the requests well formed.
LEMMA EndingOK ==
    ASSUME Typed, NEW r \in Requests, NEW v \in Request, v.phase = "done",
           v.tokens <= MaxTokens, req' = [req EXCEPT ![r] = v]
    PROVE  req' \in [Requests -> Request] /\ CallsOK'
<1>1. req' \in [Requests -> Request]
    BY DEF Typed, TypeOK
<1>2. ASSUME NEW s \in Requests PROVE CallOK(s)'
    BY DEF Typed, TypeOK, CallsOK, CallOK
<1> QED BY <1>1, <1>2 DEF CallsOK

(***************************************************************************)
(* Type correctness, action by action.                                     *)
(***************************************************************************)
LEMMA MissType ==
    ASSUME TypeOK, NEW r \in Requests, NEW p \in Payloads, Accepted(r, p),
           l1' = L1AfterMiss(p)
    PROVE  l1' \in [CacheKey -> L1Entry \cup {None}]
BY AcceptedOK DEF L1AfterMiss, TypeOK

LEMMA RefuseTyped ==
    ASSUME Typed, NEW r \in Requests, NEW p \in Payloads, Refuse(r, p)
    PROVE  Typed'
<1>1. RefusalStatus(p) \in Nat
    BY DEF RefusalStatus
<1>2. req' \in [Requests -> Request] /\ CallsOK'
  <2> DEFINE v == Ended(p, RefusalStatus(p))
  <2>1. v \in Request /\ v.phase = "done" /\ v.tokens <= MaxTokens
    BY <1>1, EndedType, MaxTokensType
  <2>2. req' = [req EXCEPT ![r] = v]
    BY DEF Refuse
  <2> HIDE DEF v
  <2> QED BY <2>1, <2>2, EndingOK
<1>3. api_keys' \in [Keys -> KeyRow \cup {Absent}]
    BY AuthenticateType DEF Refuse, Typed
<1> QED
    BY <1>2, <1>3
       DEF Typed, TypeOK, StoreTypeOK, Refuse, cacheVars, envVars

LEMMA ServeHitTyped ==
    ASSUME Typed, NEW r \in Requests, NEW p \in Payloads,
           NEW resp \in Response, NEW tier \in {"l1", "l2"},
           ServeHit(r, p, resp, tier)
    PROVE  /\ usage' \in [Keys -> UsageRow]
           /\ log' \in [Keys -> LogTotals]
           /\ audit' \in [Keys -> LogTotals]
           /\ req' \in [Requests -> Request] /\ CallsOK'
<1> DEFINE v == IF resp.counted THEN Answered(p, 200, FALSE, 0, resp, tier)
                                ELSE Ended(p, 500)
<1>1. v \in Request /\ v.phase = "done" /\ v.tokens <= MaxTokens
    BY MaxTokensType DEF Answered, Ended, Request
<1>2. req' = [req EXCEPT ![r] = v]
    BY DEF ServeHit
<1> HIDE DEF v
<1>3. req' \in [Requests -> Request] /\ CallsOK'
    BY <1>1, <1>2, EndingOK
<1>4. CASE resp.counted
    BY <1>3, <1>4, SettleType, PayloadType DEF ServeHit, Typed, TypeOK
<1>5. CASE ~resp.counted
    BY <1>3, <1>5 DEF ServeHit, Typed, TypeOK, StoreTypeOK
<1> QED BY <1>4, <1>5

LEMMA HitL1Typed ==
    ASSUME Typed, NEW r \in Requests, NEW p \in Payloads, HitL1(r, p)
    PROVE  Typed'
<1>1. l1[L1Key(p)].resp \in Response
  <2>1. L1Key(p) \in CacheKey
      BY AcceptedOK DEF HitL1, Typed
  <2> QED BY <2>1 DEF HitL1, L1Hit, Typed, TypeOK, L1Entry
<1>2. /\ usage' \in [Keys -> UsageRow]
      /\ log' \in [Keys -> LogTotals]
      /\ audit' \in [Keys -> LogTotals]
      /\ req' \in [Requests -> Request] /\ CallsOK'
    BY <1>1, ServeHitTyped DEF HitL1
<1>3. api_keys' \in [Keys -> KeyRow \cup {Absent}]
    BY AuthenticateType DEF HitL1, Typed
<1> QED
    BY <1>2, <1>3 DEF Typed, TypeOK, StoreTypeOK, HitL1, cacheVars, envVars

LEMMA AnswersType ==
    ASSUME NEW E, NEW ns, NEW q, NEW t, NEW tau,
           NEW e \in Answers(E, ns, q, t, tau) \ {Nothing}
    PROVE  e \in E /\ Admissible(e, ns, q, t, tau)
BY DEF Answers, Best, Candidates, TopK

LEMMA HitL2Typed ==
    ASSUME Typed, NEW r \in Requests, NEW p \in Payloads, HitL2(r, p)
    PROVE  Typed'
<1>1. PICK e \in L2Answers(p) \ {Nothing} : ServeHit(r, p, e.resp, "l2")
    BY DEF HitL2
<1>2. e \in l2
    BY AnswersType DEF L2Answers
<1>3. e.resp \in Response
    BY <1>2 DEF Typed, TypeOK
<1>4. /\ usage' \in [Keys -> UsageRow]
      /\ log' \in [Keys -> LogTotals]
      /\ audit' \in [Keys -> LogTotals]
      /\ req' \in [Requests -> Request] /\ CallsOK'
    BY <1>1, <1>3, ServeHitTyped
<1>5. api_keys' \in [Keys -> KeyRow \cup {Absent}]
    BY AuthenticateType DEF HitL2, Typed
<1>6. l1' \in [CacheKey -> L1Entry \cup {None}]
    BY MissType DEF HitL2, Typed
<1> QED
    BY <1>4, <1>5, <1>6 DEF Typed, TypeOK, StoreTypeOK, HitL2, envVars

LEMMA RejectOverBudgetTyped ==
    ASSUME Typed, NEW r \in Requests, NEW p \in Payloads,
           RejectOverBudget(r, p)
    PROVE  Typed'
<1> DEFINE v == Ended(p, 402)
<1>1. v \in Request /\ v.phase = "done" /\ v.tokens <= MaxTokens
    BY EndedType, MaxTokensType
<1>2. req' = [req EXCEPT ![r] = v]
    BY DEF RejectOverBudget
<1> HIDE DEF v
<1>3. req' \in [Requests -> Request] /\ CallsOK'
    BY <1>1, <1>2, EndingOK
<1>4. /\ usage' \in [Keys -> UsageRow]
      /\ log' \in [Keys -> LogTotals]
      /\ audit' \in [Keys -> LogTotals]
    BY RejectType, PayloadType DEF RejectOverBudget, Typed, TypeOK
<1>5. /\ api_keys' \in [Keys -> KeyRow \cup {Absent}]
      /\ l1' \in [CacheKey -> L1Entry \cup {None}]
    BY AuthenticateType, MissType DEF RejectOverBudget, Typed
<1> QED
    BY <1>3, <1>4, <1>5
       DEF Typed, TypeOK, StoreTypeOK, RejectOverBudget, envVars

LEMMA RefuseDispatchTyped ==
    ASSUME Typed, NEW r \in Requests, NEW p \in Payloads, RefuseDispatch(r, p)
    PROVE  Typed'
<1> DEFINE v == Ended(p, DispatchStatus(p))
<1>1. v \in Request /\ v.phase = "done" /\ v.tokens <= MaxTokens
  <2>1. DispatchStatus(p) \in Nat
    BY DEF DispatchStatus
  <2> QED BY <2>1, EndedType, MaxTokensType
<1>2. req' = [req EXCEPT ![r] = v]
    BY DEF RefuseDispatch
<1> HIDE DEF v
<1>3. req' \in [Requests -> Request] /\ CallsOK'
    BY <1>1, <1>2, EndingOK
<1>4. /\ api_keys' \in [Keys -> KeyRow \cup {Absent}]
      /\ l1' \in [CacheKey -> L1Entry \cup {None}]
    BY AuthenticateType, MissType DEF RefuseDispatch, Typed
<1> QED
    BY <1>3, <1>4 DEF Typed, TypeOK, StoreTypeOK, RefuseDispatch, envVars

LEMMA InFlightFinite ==
    ASSUME NEW k
    PROVE  IsFiniteSet(InFlight(k)) /\ Cardinality(InFlight(k)) \in Nat
<1>1. InFlight(k) \subseteq Requests /\ IsFiniteSet(Requests)
    BY ChargeAssumption DEF InFlight
<1>2. IsFiniteSet(InFlight(k))
    BY <1>1, FS_Subset
<1> QED BY <1>2, FS_CardinalityType

LEMMA DispatchTyped ==
    ASSUME Typed, NEW r \in Requests, NEW p \in Payloads, Dispatch(r, p)
    PROVE  Typed'
<1>1. /\ p.prompt \in Prompts /\ PreModel(p) \in Models
      /\ PostModel(p) \in Models /\ p.key \in Keys
    BY AcceptedOK, PayloadType DEF Dispatch, Typed
<1>2. KeyEnabled(p) \in BOOLEAN /\ (KeyEnabled(p) => ~p.no_store /\ ~p.stream)
    BY DEF KeyEnabled
<1>3. req' \in [Requests -> Request]
    BY <1>2 DEF Dispatch, Typed, TypeOK, Request
<1>4. CallsOK'
  <2> SUFFICES ASSUME NEW s \in Requests PROVE CallOK(s)'
    BY DEF CallsOK
  <2>1. CASE s = r
    BY <2>1, <1>1, <1>2, MaxTokensType DEF CallOK, Dispatch, Typed, TypeOK
  <2>2. CASE s # r
    BY <2>2 DEF CallOK, CallsOK, Dispatch, Typed, TypeOK
  <2> QED BY <2>1, <2>2
<1>5. peak' \in [Keys -> Nat]
    BY <1>1, InFlightFinite DEF Dispatch, Typed, TypeOK
<1>6. /\ api_keys' \in [Keys -> KeyRow \cup {Absent}]
      /\ l1' \in [CacheKey -> L1Entry \cup {None}]
    BY AuthenticateType, MissType DEF Dispatch, Typed
<1> QED
    BY <1>3, <1>4, <1>5, <1>6
       DEF Typed, TypeOK, StoreTypeOK, Dispatch, envVars

\* What is known of a request a provider is working for.
LEMMA WaitingOK ==
    ASSUME Typed, NEW r \in Requests, req[r].phase \in Waiting
    PROVE  /\ req[r].in \in Payloads /\ req[r].in.key \in Keys
           /\ req[r].in.prompt \in Prompts /\ L1Key(req[r].in) \in CacheKey
           /\ UsedModel(r) \in Models /\ PostModel(req[r].in) \in Models
           /\ Routes[UsedModel(r)].upstream \in Upstreams
           /\ req[r].admit \in BOOLEAN
<1>1. /\ req[r].in \in Payloads /\ req[r].in.prompt \in Prompts
      /\ PreModel(req[r].in) \in Models /\ PostModel(req[r].in) \in Models
      /\ req[r].admit \in BOOLEAN
    BY DEF Typed, TypeOK, CallsOK, CallOK, Request
<1>2. req[r].in.key \in Keys
    BY <1>1, PayloadType
<1>3. UsedModel(r) \in Models
    BY UsedModelType
<1>4. /\ Routes[UsedModel(r)] \in Route
      /\ Routes[PreModel(req[r].in)] \in Route
    BY <1>1, <1>3, RoutingAssumption
<1>5. L1Key(req[r].in) \in CacheKey
    BY <1>1, <1>4 DEF L1Key, CacheKey, Route
<1> QED BY <1>1, <1>2, <1>3, <1>4, <1>5 DEF Route

LEMMA AnswerTyped ==
    ASSUME Typed, NEW r \in Requests, NEW tokens \in 0..MaxTokens,
           NEW counted \in BOOLEAN, Answer(r, tokens, counted)
    PROVE  Typed'
<1> DEFINE p == req[r].in
           resp == [by |-> r, upstream |-> Routes[UsedModel(r)].upstream,
                    counted |-> counted]
<1>0. PICK status \in AnswerStatuses(r, resp) :
          req' = [req EXCEPT ![r] =
                     Answered(p, status, req[r].admit, tokens, resp, "miss")]
    BY DEF Answer
<1> DEFINE v == Answered(p, status, req[r].admit, tokens, resp, "miss")
<1>1. req[r].phase \in Waiting
    BY DEF Answer
<1>2. /\ p \in Payloads /\ p.key \in Keys /\ p.prompt \in Prompts
      /\ L1Key(p) \in CacheKey /\ UsedModel(r) \in Models
      /\ req[r].admit \in BOOLEAN
    BY <1>1, WaitingOK
<1>3. resp \in Response
    BY <1>1, WaitingOK DEF Response
<1>4. tokens \in Nat /\ tokens <= MaxTokens
    BY MaxTokensType
<1>5. req' = [req EXCEPT ![r] = v] /\ Admit(r, resp)
    BY <1>0 DEF Answer
<1>6. v \in Request /\ v.phase = "done" /\ v.tokens <= MaxTokens
  <2>1. status \in Nat
    BY DEF AnswerStatuses
  <2> HIDE DEF p, resp
  <2> QED BY <2>1, <1>2, <1>3, <1>4, AnsweredType
<1>7. req' \in [Requests -> Request] /\ CallsOK'
  <2> HIDE DEF v
  <2> QED BY <1>5, <1>6, EndingOK
<1>8. /\ usage' \in [Keys -> UsageRow]
      /\ log' \in [Keys -> LogTotals]
      /\ audit' \in [Keys -> LogTotals]
    BY <1>2, <1>4, CostType, SettleType DEF Answer, Typed, TypeOK
<1>9. l1' \in [CacheKey -> L1Entry \cup {None}]
  <2> DEFINE e == [resp |-> resp, expires |-> IF L1Ttl = 0 THEN 0 ELSE now + L1Ttl]
  <2>1. e \in L1Entry
    BY <1>3, ChargeAssumption DEF L1Entry, Typed, TypeOK
  <2>2. l1' = IF req[r].admit THEN [l1 EXCEPT ![L1Key(p)] = e] ELSE l1
    BY <1>5 DEF Admit
  <2> HIDE DEF e, p
  <2> QED BY <1>2, <2>1, <2>2 DEF Typed, TypeOK
<1>10. l2' \subseteq [ns : {Namespace(q) : q \in Payloads}, prompt : Prompts,
                      resp : Response, created : Nat, ttl : Nat]
  <2> DEFINE e == [ns |-> Namespace(p), prompt |-> p.prompt, resp |-> resp,
                   created |-> now, ttl |-> L2Ttl]
  <2>1. e \in [ns : {Namespace(q) : q \in Payloads}, prompt : Prompts,
               resp : Response, created : Nat, ttl : Nat]
    BY <1>2, <1>3, ChargeAssumption DEF Typed, TypeOK
  <2>2. l2' = l2 \/ l2' = l2 \cup {e}
    BY <1>5 DEF Admit
  <2> HIDE DEF e
  <2> QED BY <2>1, <2>2 DEF Typed, TypeOK
<1> QED
    BY <1>7, <1>8, <1>9, <1>10
       DEF Typed, TypeOK, StoreTypeOK, Answer, envVars

\* A waiting request that ends without an answer.
LEMMA EndWaiting ==
    ASSUME Typed, NEW r \in Requests, req[r].phase \in Waiting,
           \E status \in Nat :
              req' = [req EXCEPT ![r] = Ended(req[r].in, status)]
    PROVE  req' \in [Requests -> Request] /\ CallsOK'
<1> PICK status \in Nat : req' = [req EXCEPT ![r] = Ended(req[r].in, status)]
    OBVIOUS
<1> DEFINE v == Ended(req[r].in, status)
<1>1. v \in Request /\ v.phase = "done" /\ v.tokens <= MaxTokens
    BY WaitingOK, EndedType, MaxTokensType
<1>2. req' = [req EXCEPT ![r] = v]
    OBVIOUS
<1> HIDE DEF v
<1> QED BY <1>1, <1>2, EndingOK

LEMMA FailOverTyped ==
    ASSUME Typed, NEW r \in Requests, FailOver(r)
    PROVE  Typed'
<1>1. /\ req[r].phase = "primary" /\ UsedModel(r) = PostModel(req[r].in)
      /\ Routes[UsedModel(r)].fallback # None /\ UsedModel(r) \in Models
    BY WaitingOK DEF FailOver, HasFallback, UsedModel
<1>2. Routes[PostModel(req[r].in)].fallback \in Models
    BY <1>1, RoutingAssumption DEF Route
<1>3. req' \in [Requests -> Request]
    BY DEF FailOver, Typed, TypeOK, Request
<1>4. CallsOK'
  <2> SUFFICES ASSUME NEW s \in Requests PROVE CallOK(s)'
    BY DEF CallsOK
  <2>1. CallOK(s)
    BY DEF Typed, CallsOK
  <2>2. CASE s = r
    BY <2>1, <2>2, <1>1, <1>2 DEF CallOK, FailOver, Typed, TypeOK, Request
  <2>3. CASE s # r
    BY <2>1, <2>3 DEF CallOK, FailOver, Typed, TypeOK
  <2> QED BY <2>2, <2>3
<1> QED
    BY <1>3, <1>4
       DEF Typed, TypeOK, StoreTypeOK, FailOver, storeVars, cacheVars, envVars

LEMMA UpstreamFailsTyped ==
    ASSUME Typed, NEW r \in Requests, UpstreamFails(r)
    PROVE  Typed'
<1>1. req[r].phase \in Waiting
    BY DEF UpstreamFails
<1>2. FailureStatus(r) \in Nat
    BY DEF FailureStatus
<1>3. req' \in [Requests -> Request] /\ CallsOK'
    BY <1>1, <1>2, EndWaiting DEF UpstreamFails
<1> QED
    BY <1>3 DEF Typed, TypeOK, StoreTypeOK, UpstreamFails, storeVars,
                cacheVars, envVars

LEMMA FallbackUnconfiguredTyped ==
    ASSUME Typed, NEW r \in Requests, FallbackUnconfigured(r)
    PROVE  Typed'
<1>1. req[r].phase \in Waiting
    BY DEF FallbackUnconfigured, HasFallback
<1>2. req' \in [Requests -> Request] /\ CallsOK'
  <2>1. req' = [req EXCEPT ![r] = Ended(req[r].in, 500)]
    BY DEF FallbackUnconfigured
  <2>2. \E status \in Nat : req' = [req EXCEPT ![r] = Ended(req[r].in, status)]
    <3> WITNESS 500 \in Nat
    <3> QED BY <2>1
  <2> QED BY <1>1, <2>2, EndWaiting
<1> QED
    BY <1>2 DEF Typed, TypeOK, StoreTypeOK, FallbackUnconfigured, storeVars,
                cacheVars, envVars

LEMMA AdapterBreaksTyped ==
    ASSUME Typed, NEW r \in Requests, AdapterBreaks(r)
    PROVE  Typed'
<1>1. req[r].phase \in Waiting
    BY DEF AdapterBreaks
<1>2. req' \in [Requests -> Request] /\ CallsOK'
  <2>1. req' = [req EXCEPT ![r] = Ended(req[r].in, 500)]
    BY DEF AdapterBreaks
  <2>2. \E status \in Nat : req' = [req EXCEPT ![r] = Ended(req[r].in, status)]
    <3> WITNESS 500 \in Nat
    <3> QED BY <2>1
  <2> QED BY <1>1, <2>2, EndWaiting
<1> QED
    BY <1>2 DEF Typed, TypeOK, StoreTypeOK, AdapterBreaks, storeVars,
                cacheVars, envVars

LEMMA StreamChunkTyped ==
    ASSUME Typed, NEW r \in Requests, StreamChunk(r)
    PROVE  Typed'
<1>1. req[r].phase \in Waiting /\ req[r].tokens < MaxTokens
    BY DEF StreamChunk
<1>2. req' \in [Requests -> Request]
    BY DEF StreamChunk, Typed, TypeOK, Request
<1>3. CallsOK'
  <2> SUFFICES ASSUME NEW s \in Requests PROVE CallOK(s)'
    BY DEF CallsOK
  <2>1. CallOK(s) /\ req[s] \in Request /\ req[s].tokens \in Nat
    BY DEF Typed, TypeOK, CallsOK, Request
  <2>2. CASE s = r
    BY <2>1, <2>2, <1>1, MaxTokensType
       DEF CallOK, StreamChunk, Typed, TypeOK, Request
  <2>3. CASE s # r
    BY <2>1, <2>3 DEF CallOK, StreamChunk, Typed, TypeOK
  <2> QED BY <2>2, <2>3
<1> QED
    BY <1>2, <1>3 DEF Typed, TypeOK, StoreTypeOK, StreamChunk, storeVars,
                      cacheVars, envVars

LEMMA StreamEndTyped ==
    ASSUME Typed, NEW r \in Requests, NEW tokens \in 0..MaxTokens,
           StreamEnd(r, tokens)
    PROVE  Typed'
<1> DEFINE v == Answered(req[r].in, 200, FALSE, tokens, None, "miss")
<1>1. req[r].phase \in Waiting
    BY DEF StreamEnd
<1>2. tokens \in Nat /\ tokens <= MaxTokens
    BY MaxTokensType
<1>3. v \in Request /\ v.phase = "done" /\ v.tokens <= MaxTokens
    BY <1>1, <1>2, WaitingOK DEF Answered, Request
<1>4. req' = [req EXCEPT ![r] = v]
    BY DEF StreamEnd
<1>5. req' \in [Requests -> Request] /\ CallsOK'
  <2> HIDE DEF v
  <2> QED BY <1>3, <1>4, EndingOK
<1>6. /\ usage' \in [Keys -> UsageRow]
      /\ log' \in [Keys -> LogTotals]
      /\ audit' \in [Keys -> LogTotals]
    BY <1>1, <1>2, WaitingOK, CostType, SettleType
       DEF StreamEnd, Typed, TypeOK
<1> QED
    BY <1>5, <1>6 DEF Typed, TypeOK, StoreTypeOK, StreamEnd, cacheVars, envVars

LEMMA StreamFailsTyped ==
    ASSUME Typed, NEW r \in Requests, StreamFails(r)
    PROVE  Typed'
<1>1. req[r].phase \in Waiting
    BY DEF StreamFails
<1>2. req' \in [Requests -> Request] /\ CallsOK'
  <2>1. req' = [req EXCEPT ![r] = Ended(req[r].in, 502)]
    BY DEF StreamFails
  <2>2. \E status \in Nat : req' = [req EXCEPT ![r] = Ended(req[r].in, status)]
    <3> WITNESS 502 \in Nat
    <3> QED BY <2>1
  <2> QED BY <1>1, <2>2, EndWaiting
<1>3. log' \in [Keys -> LogTotals]
    BY <1>1, WaitingOK, LogFailedType DEF StreamFails, Typed, TypeOK, StoreTypeOK
<1> QED
    BY <1>2, <1>3 DEF Typed, TypeOK, StoreTypeOK, StreamFails, cacheVars, envVars

LEMMA DisconnectTyped ==
    ASSUME Typed, NEW r \in Requests, Disconnect(r)
    PROVE  Typed'
<1>1. req[r].phase \in Waiting
    BY DEF Disconnect
<1>2. req' \in [Requests -> Request] /\ CallsOK'
  <2>1. req' = [req EXCEPT ![r] = Ended(req[r].in, 499)]
    BY DEF Disconnect, Cancelled
  <2>2. \E status \in Nat : req' = [req EXCEPT ![r] = Ended(req[r].in, status)]
    <3> WITNESS 499 \in Nat
    <3> QED BY <2>1
  <2> QED BY <1>1, <2>2, EndWaiting
<1> QED
    BY <1>2 DEF Typed, TypeOK, StoreTypeOK, Disconnect, storeVars, cacheVars,
                envVars

\* The parts of the state a restart rewrites.
LEMMA LoseProcessTyped ==
    ASSUME Typed, LoseProcess
    PROVE  /\ req' \in [Requests -> Request] /\ CallsOK'
           /\ api_keys' \in [Keys -> KeyRow \cup {Absent}]
           /\ l1' \in [CacheKey -> L1Entry \cup {None}]
           /\ l2' = {} /\ crashes' \in Nat /\ now' = now /\ peak' = peak
<1>1. ASSUME NEW r \in Requests
      PROVE  req'[r] \in Request /\ CallOK(r)'
  <2>1. CASE req[r].phase \in Waiting
    BY <2>1, WaitingOK, EndedType, MaxTokensType DEF LoseProcess, CallOK, Lost
  <2>2. CASE req[r].phase \notin Waiting
    BY <2>2 DEF LoseProcess, Typed, TypeOK, CallsOK, CallOK
  <2> QED BY <2>1, <2>2
<1>2. req' \in [Requests -> Request] /\ CallsOK'
    BY <1>1 DEF LoseProcess, CallsOK
<1>3. api_keys' \in [Keys -> KeyRow \cup {Absent}]
    BY AccountAssumption DEF LoseProcess, Typed, TypeOK, StoreTypeOK
<1> QED BY <1>2, <1>3 DEF LoseProcess, Typed, TypeOK

LEMMA CrashTyped ==
    ASSUME Typed, Crash
    PROVE  Typed'
BY LoseProcessTyped DEF Crash, Typed, TypeOK, StoreTypeOK

LEMMA CrashWhileRecordingTyped ==
    ASSUME Typed, NEW r \in Requests, NEW tokens \in 0..MaxTokens, NEW done,
           CrashWhileRecording(r, tokens, done)
    PROVE  Typed'
<1>1. tokens \in Nat
    BY MaxTokensType
<1>2. /\ usage' \in [Keys -> UsageRow]
      /\ log' \in [Keys -> LogTotals]
      /\ audit' \in [Keys -> LogTotals]
    BY <1>1, WaitingOK, CostType, SettleType
       DEF CrashWhileRecording, Typed, TypeOK
<1> QED
    BY <1>2, LoseProcessTyped
       DEF CrashWhileRecording, Typed, TypeOK, StoreTypeOK

LEMMA InitTyped == Init => Typed
<1> SUFFICES ASSUME Init PROVE Typed
    OBVIOUS
<1>1. StoreTypeOK
    BY AccountAssumption
       DEF Init, StoreTypeOK, NoUsage, NoRows, UsageRow, LogTotals
<1>2. req \in [Requests -> Request] /\ CallsOK
    BY MaxTokensType DEF Init, NewRequest, Request, CallsOK, CallOK
<1> QED BY <1>1, <1>2 DEF Init, Typed, TypeOK

LEMMA NextTyped == Typed /\ [Next]_vars => Typed'
<1> SUFFICES ASSUME Typed, [Next]_vars PROVE Typed'
    OBVIOUS
<1>1. ASSUME NEW r \in Requests, NEW p \in Payloads, Arrive(r, p)
      PROVE  Typed'
    BY <1>1, RefuseTyped, HitL1Typed, HitL2Typed, RejectOverBudgetTyped,
       RefuseDispatchTyped, DispatchTyped DEF Arrive
<1>2. ASSUME NEW r \in Requests, CallEnds(r)
      PROVE  Typed'
    BY <1>2, AnswerTyped, FailOverTyped, UpstreamFailsTyped,
       FallbackUnconfiguredTyped, AdapterBreaksTyped, StreamEndTyped,
       StreamFailsTyped, DisconnectTyped DEF CallEnds
<1>3. ASSUME NEW r \in Requests, RequestStep(r)
      PROVE  Typed'
    BY <1>1, <1>2, <1>3, StreamChunkTyped, CrashWhileRecordingTyped
       DEF RequestStep
<1>4. ASSUME NEW k \in Keys, NEW row \in KeyRows[k], SetKey(k, row)
      PROVE  Typed'
  <2>1. row \in KeyRow
    BY AccountAssumption
  <2> QED
    BY <2>1, <1>4 DEF SetKey, UpsertKey, Typed, TypeOK, StoreTypeOK, CallsOK,
                      CallOK, cacheVars, envVars
<1>5. CASE Tick
    BY <1>5 DEF Tick, Typed, TypeOK, StoreTypeOK, CallsOK, CallOK, storeVars,
                cacheVars
<1>6. CASE ClearCaches
    BY <1>6 DEF ClearCaches, Typed, TypeOK, StoreTypeOK, CallsOK, CallOK,
                storeVars, envVars
<1>7. CASE Crash
    BY <1>7, CrashTyped
<1>8. CASE UNCHANGED vars
    BY <1>8 DEF vars, Typed, TypeOK, StoreTypeOK, CallsOK, CallOK, storeVars,
                cacheVars, envVars
<1> QED BY <1>3, <1>4, <1>5, <1>6, <1>7, <1>8 DEF Next

\* Every variable keeps its type, and every call in progress was checked on
\* arrival, for any number of requests, keys, models and prompts.
THEOREM TypeCorrect == Spec => []TypeOK
<1>1. Init => Typed
    BY InitTyped
<1>2. Typed /\ [Next]_vars => Typed'
    BY NextTyped
<1>3. Typed => TypeOK
    BY DEF Typed
<1> QED BY <1>1, <1>2, <1>3, PTL DEF Spec

(***************************************************************************)
(* What the two caches hold and hand out.                                  *)
(*                                                                         *)
(* The properties speak of the request that produced a response; they are  *)
(* inductive once it is known that a request that is done never changes    *)
(* again and that a semantic entry carries the namespace and the prompt of *)
(* its producer.                                                           *)
(***************************************************************************)

EntryOK(e) ==
    /\ Shareable(e.resp)
    /\ e.ns = Namespace(Producer(e.resp).in)
    /\ e.prompt = Producer(e.resp).in.prompt

L1OK == \A c \in CacheKey, x \in Response :
           l1[c] # None /\ l1[c].resp = x => Shareable(x)

L2OK == \A e \in l2 : EntryOK(e)

HitOK(r) ==
    FromCache(r) =>
        /\ req[r].phase = "done"
        /\ req[r].resp \in Response
        /\ Shareable(req[r].resp)
        /\ ~req[r].in.no_store /\ ~req[r].in.stream
        /\ req[r].tier = "l2" =>
              LET p == req[r].in
                  q == Producer(req[r].resp).in
              IN  /\ Namespace(q) = Namespace(p)
                  /\ Similarity[p.prompt][q.prompt] >= Tau

HitsOK == \A r \in Requests : HitOK(r)

CacheInv == Typed /\ L1OK /\ L2OK /\ HitsOK

(***************************************************************************)
(* A similarity that reaches the age-aware threshold reaches the base one. *)
(***************************************************************************)
LEMMA ThresholdAboveBase ==
    ASSUME NEW s \in 0..Scale, NEW age \in Nat, NEW ttl \in Nat,
           ReachesThreshold(s, Tau, age, ttl)
    PROVE  s >= Tau
<1>1. Scale \in Nat /\ Tau \in Nat /\ Tau < Scale /\ s \in Nat
    BY SimilarityAssumption, ChargeAssumption
<1>2. CASE ttl = 0
    BY <1>1, <1>2 DEF ReachesThreshold
<1>3. CASE ttl > 0
  <2> DEFINE a == IF age < ttl THEN age ELSE ttl
  <2>1. (s - Tau) * ttl >= (Scale - Tau) * a
    BY <1>1, <1>3 DEF ReachesThreshold
  <2>2. a \in Nat
    OBVIOUS
  <2> HIDE DEF a
  <2>3. (Scale - Tau) * a >= 0
    BY <1>1, <2>2
  <2>4. SUFFICES ASSUME s < Tau PROVE FALSE
    BY <1>1
  <2>5. (s - Tau) * ttl < 0
    BY <1>1, <1>3, <2>4
  <2>6. (s - Tau) * ttl \in Int /\ (Scale - Tau) * a \in Int
    BY <1>1, <2>2
  <2> DEFINE x == (s - Tau) * ttl
             y == (Scale - Tau) * a
  <2>7. x \in Int /\ y \in Int /\ x >= y /\ y >= 0 /\ x < 0
    BY <2>1, <2>3, <2>5, <2>6
  <2> HIDE DEF x, y
  <2> QED BY <2>7
<1> QED BY <1>2, <1>3

(***************************************************************************)
(* A request that is done is never touched again.                          *)
(***************************************************************************)
LEMMA ArriveTouchesOne ==
    ASSUME Typed, NEW r \in Requests, NEW p \in Payloads, Arrive(r, p),
           NEW s \in Requests, s # r
    PROVE  req'[s] = req[s]
<1>1. CASE Refuse(r, p)
    BY <1>1 DEF Refuse, Typed, TypeOK
<1>2. CASE HitL1(r, p)
    BY <1>2 DEF HitL1, ServeHit, Typed, TypeOK
<1>3. CASE HitL2(r, p)
    BY <1>3 DEF HitL2, ServeHit, Typed, TypeOK
<1>4. CASE RejectOverBudget(r, p)
    BY <1>4 DEF RejectOverBudget, Typed, TypeOK
<1>5. CASE RefuseDispatch(r, p)
    BY <1>5 DEF RefuseDispatch, Typed, TypeOK
<1>6. CASE Dispatch(r, p)
    BY <1>6 DEF Dispatch, Typed, TypeOK
<1> QED BY <1>1, <1>2, <1>3, <1>4, <1>5, <1>6 DEF Arrive

LEMMA DoneIsFinal ==
    ASSUME Typed, [Next]_vars, NEW s \in Requests, req[s].phase = "done"
    PROVE  req'[s] = req[s]
<1>1. ASSUME NEW r \in Requests, NEW p \in Payloads, Arrive(r, p)
      PROVE  req'[s] = req[s]
  <2>1. req[r].phase = "new"
    BY <1>1 DEF Arrive, Refuse, HitL1, HitL2, RejectOverBudget,
                RefuseDispatch, Dispatch, Accepted
  <2>2. \A t \in Requests \ {r} : req'[t] = req[t]
    BY <1>1, ArriveTouchesOne
  <2> QED BY <2>1, <2>2
<1>2. ASSUME NEW r \in Requests, CallEnds(r)
      PROVE  req'[s] = req[s]
  <2>1. req[r].phase \in Waiting
    BY <1>2 DEF CallEnds, Answer, FailOver, UpstreamFails, FallbackUnconfigured,
                AdapterBreaks, StreamEnd, StreamFails, Disconnect, HasFallback
  <2>2. \A t \in Requests \ {r} : req'[t] = req[t]
    BY <1>2 DEF CallEnds, Answer, FailOver, UpstreamFails, FallbackUnconfigured,
                AdapterBreaks, StreamEnd, StreamFails, Disconnect, Typed, TypeOK
  <2> QED BY <2>1, <2>2
<1>3. ASSUME NEW r \in Requests, StreamChunk(r)
      PROVE  req'[s] = req[s]
    BY <1>3 DEF StreamChunk, Typed, TypeOK
<1>4. ASSUME LoseProcess
      PROVE  req'[s] = req[s]
    BY <1>4 DEF LoseProcess
<1>5. ASSUME NEW r \in Requests, RequestStep(r)
      PROVE  req'[s] = req[s]
    BY <1>1, <1>2, <1>3, <1>4, <1>5 DEF RequestStep, CrashWhileRecording
<1>6. ASSUME NEW k \in Keys, NEW row \in KeyRows[k], SetKey(k, row)
      PROVE  req'[s] = req[s]
    BY <1>6 DEF SetKey
<1>7. CASE Tick \/ ClearCaches \/ Crash \/ UNCHANGED vars
    BY <1>4, <1>7 DEF Tick, ClearCaches, Crash, vars
<1> QED BY <1>5, <1>6, <1>7 DEF Next

\* So a response that may be shared stays one, and so do hits and entries.
LEMMA ShareableStays ==
    ASSUME Typed, [Next]_vars, NEW resp \in Response, Shareable(resp)
    PROVE  Shareable(resp)' /\ Producer(resp)' = Producer(resp)
<1>1. resp.by \in Requests
    BY DEF Response
<1>2. req[resp.by].phase = "done"
    BY <1>1 DEF Shareable, Producer, Typed, CallsOK, CallOK
<1>3. req'[resp.by] = req[resp.by]
    BY <1>1, <1>2, DoneIsFinal
<1> QED BY <1>3 DEF Shareable, Producer, PaidInVain

LEMMA EntryStays ==
    ASSUME Typed, [Next]_vars, NEW e \in l2, EntryOK(e)
    PROVE  EntryOK(e)'
<1>1. e.resp \in Response
    BY DEF Typed, TypeOK
<1> QED BY <1>1, ShareableStays DEF EntryOK

LEMMA HitStays ==
    ASSUME Typed, [Next]_vars, NEW r \in Requests, HitOK(r), req'[r] = req[r]
    PROVE  HitOK(r)'
BY ShareableStays DEF HitOK, FromCache

(***************************************************************************)
(* The invariant, action by action.                                        *)
(***************************************************************************)
\* A hit is served from an entry that may be shared.
LEMMA ServeHitOK ==
    ASSUME CacheInv, [Next]_vars, NEW r \in Requests, NEW p \in Payloads,
           Accepted(r, p), KeyEnabled(p), NEW resp \in Response,
           Shareable(resp), NEW tier \in {"l1", "l2"},
           ServeHit(r, p, resp, tier),
           tier = "l2" =>
              /\ Namespace(Producer(resp).in) = Namespace(p)
              /\ Similarity[p.prompt][Producer(resp).in.prompt] >= Tau
    PROVE  HitOK(r)'
<1>1. Shareable(resp)' /\ Producer(resp)' = Producer(resp)
    BY ShareableStays DEF CacheInv
<1>2. ~p.no_store /\ ~p.stream
    BY DEF KeyEnabled
<1>3. CASE resp.counted
  <2>1. req'[r] = Answered(p, 200, FALSE, 0, resp, tier)
    BY <1>3 DEF ServeHit, CacheInv, Typed, TypeOK
  <2>2. /\ req'[r].phase = "done" /\ req'[r].resp = resp /\ req'[r].in = p
        /\ req'[r].tier = tier
    BY <2>1 DEF Answered
  <2> QED BY <1>1, <1>2, <2>2 DEF HitOK
<1>4. CASE ~resp.counted
  <2>1. req'[r] = Ended(p, 500)
    BY <1>4 DEF ServeHit, CacheInv, Typed, TypeOK
  <2> QED BY <2>1 DEF HitOK, FromCache, Ended
<1> QED BY <1>3, <1>4

LEMMA HitL1OK ==
    ASSUME CacheInv, [Next]_vars, NEW r \in Requests, NEW p \in Payloads,
           HitL1(r, p)
    PROVE  HitOK(r)'
<1> DEFINE resp == l1[L1Key(p)].resp
<1>1. Accepted(r, p) /\ KeyEnabled(p) /\ l1[L1Key(p)] # None
      /\ ServeHit(r, p, resp, "l1")
    BY DEF HitL1, L1Hit
<1>2. L1Key(p) \in CacheKey
    BY <1>1, AcceptedOK DEF CacheInv, Typed
<1>3. Shareable(resp) /\ resp \in Response
    BY <1>1, <1>2 DEF CacheInv, L1OK, Typed, TypeOK, L1Entry
<1> HIDE DEF resp
<1> QED BY <1>1, <1>3, ServeHitOK

LEMMA HitL2OK ==
    ASSUME CacheInv, [Next]_vars, NEW r \in Requests, NEW p \in Payloads,
           HitL2(r, p)
    PROVE  HitOK(r)'
<1>1. PICK e \in L2Answers(p) \ {Nothing} : ServeHit(r, p, e.resp, "l2")
    BY DEF HitL2
<1>2. e \in l2 /\ Admissible(e, Namespace(p), p.prompt, now, Tau)
    BY AnswersType DEF L2Answers
<1>3. Accepted(r, p) /\ KeyEnabled(p)
    BY DEF HitL2
<1>4. /\ e.resp \in Response /\ e.prompt \in Prompts /\ e.ttl \in Nat
      /\ e.created \in Nat /\ now \in Nat
    BY <1>2 DEF CacheInv, Typed, TypeOK
<1>5. p.prompt \in Prompts
    BY <1>3, AcceptedOK DEF CacheInv, Typed
<1>6. Shareable(e.resp) /\ e.ns = Namespace(Producer(e.resp).in)
      /\ e.prompt = Producer(e.resp).in.prompt
    BY <1>2 DEF CacheInv, L2OK, EntryOK
<1>7. Similarity[p.prompt][e.prompt] >= Tau
  <2>1. AgeOf(e, now) \in Nat
    BY <1>4 DEF AgeOf
  <2>2. Similarity[p.prompt][e.prompt] \in 0..Scale
    BY <1>4, <1>5, SimilarityAssumption
  <2>3. ReachesThreshold(Similarity[p.prompt][e.prompt], Tau, AgeOf(e, now),
                         e.ttl)
    BY <1>2 DEF Admissible, Keeps
  <2> QED BY <1>4, <2>1, <2>2, <2>3, ThresholdAboveBase
<1>8. e.ns = Namespace(p)
    BY <1>2 DEF Admissible, Keeps
<1> QED BY <1>1, <1>3, <1>4, <1>6, <1>7, <1>8, ServeHitOK

\* Other arrivals hit nothing, and store nothing.
LEMMA ArriveKeepsHits ==
    ASSUME CacheInv, [Next]_vars, NEW r \in Requests, NEW p \in Payloads,
           Arrive(r, p)
    PROVE  HitsOK'
<1> SUFFICES ASSUME NEW s \in Requests PROVE HitOK(s)'
    BY DEF HitsOK
<1>1. HitOK(s) /\ Typed
    BY DEF CacheInv, HitsOK
<1>2. CASE s # r
  <2>1. req'[s] = req[s]
    BY <1>2, ArriveTouchesOne DEF CacheInv
  <2> QED BY <1>1, <2>1, HitStays
<1>3. CASE s = r
  <2>1. CASE HitL1(r, p) \/ HitL2(r, p)
    BY <1>3, <2>1, HitL1OK, HitL2OK
  <2>2. CASE Refuse(r, p) \/ RejectOverBudget(r, p) \/ RefuseDispatch(r, p)
             \/ Dispatch(r, p)
    <3>1. req'[r].tier = "none"
      BY <2>2 DEF Refuse, RejectOverBudget, RefuseDispatch, Dispatch, Ended,
                  CacheInv, Typed, TypeOK
    <3> QED BY <1>3, <3>1 DEF HitOK, FromCache
  <2> QED BY <2>1, <2>2 DEF Arrive
<1> QED BY <1>2, <1>3

LEMMA ArriveKeepsEntries ==
    ASSUME CacheInv, [Next]_vars, NEW r \in Requests, NEW p \in Payloads,
           Arrive(r, p)
    PROVE  L1OK' /\ L2OK'
<1>1. l2' = l2
    BY DEF Arrive, Refuse, HitL1, HitL2, RejectOverBudget, RefuseDispatch,
           Dispatch, cacheVars
<1>2. l1' = l1 \/ l1' = [l1 EXCEPT ![L1Key(p)] = None]
    BY DEF Arrive, Refuse, HitL1, HitL2, RejectOverBudget, RefuseDispatch,
           Dispatch, cacheVars, L1AfterMiss
<1>3. L2OK'
    BY <1>1, EntryStays DEF CacheInv, L2OK
<1>4. L1OK'
  <2> SUFFICES ASSUME NEW c \in CacheKey, NEW x \in Response, l1'[c] # None,
                      l1'[c].resp = x
               PROVE  Shareable(x)'
    BY DEF L1OK
  <2>1. l1'[c] = l1[c]
    BY <1>2 DEF CacheInv, Typed, TypeOK
  <2>2. Shareable(x)
    BY <2>1 DEF CacheInv, L1OK
  <2> QED BY <2>2, ShareableStays DEF CacheInv
<1> QED BY <1>3, <1>4

\* An answer is recorded in the same step as it is admitted.
LEMMA AnswerKeeps ==
    ASSUME CacheInv, [Next]_vars, NEW r \in Requests,
           NEW tokens \in 0..MaxTokens, NEW counted \in BOOLEAN,
           Answer(r, tokens, counted)
    PROVE  L1OK' /\ L2OK' /\ HitsOK'
<1>1. req[r].phase \in Waiting
    BY DEF Answer
<1> PICK p : p = req[r].in
    OBVIOUS
<1> PICK resp :
        resp = [by |-> r, upstream |-> Routes[UsedModel(r)].upstream,
                counted |-> counted]
    OBVIOUS
<1>0. PICK status \in AnswerStatuses(r, resp) :
          req' = [req EXCEPT ![r] =
                     Answered(p, status, req[r].admit, tokens, resp, "miss")]
    BY DEF Answer
<1>2. /\ req' = [req EXCEPT ![r] =
                    Answered(p, status, req[r].admit, tokens, resp, "miss")]
      /\ Admit(r, resp)
    BY <1>0 DEF Answer
<1>3. req'[r] = Answered(p, status, req[r].admit, tokens, resp, "miss")
    BY <1>2 DEF CacheInv, Typed, TypeOK
<1>4. resp \in Response /\ resp.by = r
    BY <1>1, WaitingOK DEF CacheInv, Response
<1>5. /\ req'[r].phase = "done" /\ req'[r].status \in {200, 500}
      /\ req'[r].tier = "miss" /\ req'[r].admit = req[r].admit
      /\ req'[r].in = p
    BY <1>3 DEF Answered, AnswerStatuses
<1>6. req[r].admit => ~p.no_store /\ ~p.stream
    BY <1>1 DEF CacheInv, Typed, CallsOK, CallOK
<1>7. req[r].admit => Shareable(resp)' /\ Producer(resp)'.in = p
    BY <1>4, <1>5, <1>6 DEF Shareable, Producer, PaidInVain
<1>8. HitsOK'
  <2> SUFFICES ASSUME NEW s \in Requests PROVE HitOK(s)'
    BY DEF HitsOK
  <2>1. HitOK(s) /\ Typed
    BY DEF CacheInv, HitsOK
  <2>2. CASE s = r
    BY <1>5, <2>2 DEF HitOK, FromCache
  <2>3. CASE s # r
    <3>1. req'[s] = req[s]
      BY <1>2, <2>3 DEF CacheInv, Typed, TypeOK
    <3> QED BY <2>1, <3>1, HitStays
  <2> QED BY <2>2, <2>3
<1>9. L1OK'
  <2> SUFFICES ASSUME NEW c \in CacheKey, NEW x \in Response, l1'[c] # None,
                      l1'[c].resp = x
               PROVE  Shareable(x)'
    BY DEF L1OK
  <2>1. l1'[c] = l1[c] \/ (req[r].admit /\ l1'[c].resp = resp)
    BY <1>2 DEF Admit, CacheInv, Typed, TypeOK
  <2>2. CASE l1'[c] = l1[c]
    <3>1. Shareable(x)
      BY <2>2 DEF CacheInv, L1OK
    <3> QED BY <3>1, ShareableStays DEF CacheInv
  <2> QED BY <1>7, <2>1, <2>2
<1>10. L2OK'
  <2> SUFFICES ASSUME NEW e \in l2' PROVE EntryOK(e)'
    BY DEF L2OK
  <2>1. CASE e \in l2
    BY <2>1, EntryStays DEF CacheInv, L2OK
  <2>2. CASE e \notin l2
    <3>1. /\ req[r].admit
          /\ e.ns = Namespace(p) /\ e.prompt = p.prompt /\ e.resp = resp
      BY <1>2, <2>2 DEF Admit
    <3> QED BY <1>7, <3>1 DEF EntryOK
  <2> QED BY <2>1, <2>2
<1> QED BY <1>8, <1>9, <1>10

\* Every other step leaves the caches alone or empties them, and serves
\* nothing from them.
LEMMA OthersKeep ==
    ASSUME CacheInv, [Next]_vars,
           \A c \in CacheKey : l1'[c] = l1[c] \/ l1'[c] = None,
           l2' \subseteq l2,
           \A r \in Requests : req'[r] = req[r] \/ ~FromCache(r)'
    PROVE  L1OK' /\ L2OK' /\ HitsOK'
<1>1. L1OK'
  <2> SUFFICES ASSUME NEW c \in CacheKey, NEW x \in Response, l1'[c] # None,
                      l1'[c].resp = x
               PROVE  Shareable(x)'
    BY DEF L1OK
  <2>1. Shareable(x)
    BY DEF CacheInv, L1OK
  <2> QED BY <2>1, ShareableStays DEF CacheInv
<1>2. L2OK'
    BY EntryStays DEF CacheInv, L2OK
<1>3. HitsOK'
  <2> SUFFICES ASSUME NEW r \in Requests PROVE HitOK(r)'
    BY DEF HitsOK
  <2>1. CASE req'[r] = req[r]
    BY <2>1, HitStays DEF CacheInv, HitsOK
  <2>2. CASE ~FromCache(r)'
    BY <2>2 DEF HitOK
  <2> QED BY <2>1, <2>2
<1> QED BY <1>1, <1>2, <1>3

LEMMA CallEndsKeeps ==
    ASSUME CacheInv, [Next]_vars, NEW r \in Requests, CallEnds(r)
    PROVE  L1OK' /\ L2OK' /\ HitsOK'
<1>1. CASE \E tokens \in 0..MaxTokens, counted \in BOOLEAN :
              Answer(r, tokens, counted)
    BY <1>1, AnswerKeeps
<1>2. ASSUME ~ \E tokens \in 0..MaxTokens, counted \in BOOLEAN :
                  Answer(r, tokens, counted)
      PROVE  L1OK' /\ L2OK' /\ HitsOK'
  <2>1. UNCHANGED cacheVars /\ \A s \in Requests \ {r} : req'[s] = req[s]
    BY <1>2 DEF CallEnds, FailOver, UpstreamFails, FallbackUnconfigured,
                AdapterBreaks, StreamEnd, StreamFails, Disconnect, CacheInv,
                Typed, TypeOK
  <2>2. req[r].phase \in Waiting
    BY <1>2 DEF CallEnds, FailOver, UpstreamFails, FallbackUnconfigured,
                AdapterBreaks, StreamEnd, StreamFails, Disconnect, HasFallback
  <2>3. ~FromCache(r)
    BY <2>2 DEF CacheInv, HitsOK, HitOK
  <2>4. ~FromCache(r)'
    <3>1. CASE FailOver(r)
      <4>1. req'[r] = [req[r] EXCEPT !.phase = "fallback"]
        BY <3>1 DEF FailOver, CacheInv, Typed, TypeOK
      <4>2. req[r] \in Request
        BY DEF CacheInv, Typed, TypeOK
      <4>3. req'[r].tier = req[r].tier
        BY <4>1, <4>2 DEF Request
      <4> QED BY <4>3, <2>3 DEF FromCache
    <3>2. CASE \E tokens \in 0..MaxTokens : StreamEnd(r, tokens)
      BY <3>2 DEF StreamEnd, Answered, FromCache, CacheInv, Typed, TypeOK
    <3>3. CASE ~FailOver(r) /\ ~ \E tokens \in 0..MaxTokens : StreamEnd(r, tokens)
      <4>1. \E status : req'[r] = Ended(req[r].in, status)
        BY <1>2, <3>3 DEF CallEnds, UpstreamFails, FallbackUnconfigured,
           AdapterBreaks, StreamFails, Disconnect, CacheInv, Typed, TypeOK
      <4> QED BY <4>1 DEF Ended, FromCache
    <3> QED BY <3>1, <3>2, <3>3
  <2> QED BY <2>1, <2>4, OthersKeep DEF cacheVars
<1> QED BY <1>1, <1>2

LEMMA ChunkKeeps ==
    ASSUME CacheInv, [Next]_vars, NEW r \in Requests, StreamChunk(r)
    PROVE  L1OK' /\ L2OK' /\ HitsOK'
<1>1. ~FromCache(r)
    BY DEF StreamChunk, CacheInv, HitsOK, HitOK
<1>2. req'[r] = [req[r] EXCEPT !.tokens = @ + 1] /\ req[r] \in Request
    BY DEF StreamChunk, CacheInv, Typed, TypeOK
<1>3. req'[r].tier = req[r].tier
    BY <1>2 DEF Request
<1>4. ~FromCache(r)'
    BY <1>1, <1>3 DEF FromCache
<1>5. UNCHANGED cacheVars /\ \A s \in Requests \ {r} : req'[s] = req[s]
    BY DEF StreamChunk, CacheInv, Typed, TypeOK
<1> QED BY <1>4, <1>5, OthersKeep DEF cacheVars

LEMMA LossKeeps ==
    ASSUME CacheInv, [Next]_vars, LoseProcess
    PROVE  L1OK' /\ L2OK' /\ HitsOK'
<1>1. \A r \in Requests : req'[r] = req[r] \/ ~FromCache(r)'
    BY DEF LoseProcess, Ended, FromCache
<1>2. l2' \subseteq l2 /\ \A c \in CacheKey : l1'[c] = None
    BY DEF LoseProcess
<1> QED BY <1>1, <1>2, OthersKeep

LEMMA InitCache == Init => CacheInv
BY InitTyped DEF Init, CacheInv, L1OK, L2OK, HitsOK, HitOK, FromCache, NewRequest

LEMMA NextCache == CacheInv /\ [Next]_vars => CacheInv'
<1> SUFFICES ASSUME CacheInv, [Next]_vars PROVE CacheInv'
    OBVIOUS
<1>1. Typed'
    BY NextTyped DEF CacheInv
<1>2. ASSUME NEW r \in Requests, RequestStep(r)
      PROVE  L1OK' /\ L2OK' /\ HitsOK'
    BY <1>2, ArriveKeepsHits, ArriveKeepsEntries, CallEndsKeeps, ChunkKeeps,
       LossKeeps DEF RequestStep, CrashWhileRecording
<1>3. ASSUME \/ \E k \in Keys : \E row \in KeyRows[k] : SetKey(k, row)
             \/ Tick \/ ClearCaches \/ UNCHANGED vars
      PROVE  L1OK' /\ L2OK' /\ HitsOK'
  <2>1. /\ \A r \in Requests : req'[r] = req[r]
        /\ l2' \subseteq l2
        /\ \A c \in CacheKey : l1'[c] = l1[c] \/ l1'[c] = None
    BY <1>3 DEF SetKey, Tick, ClearCaches, vars, cacheVars
  <2> QED BY <2>1, OthersKeep
<1>4. ASSUME Crash PROVE L1OK' /\ L2OK' /\ HitsOK'
    BY <1>4, LossKeeps DEF Crash
<1>5. L1OK' /\ L2OK' /\ HitsOK'
    BY <1>2, <1>3, <1>4 DEF Next
<1> QED BY <1>1, <1>5 DEF CacheInv

LEMMA CacheAlways == Spec => []CacheInv
<1> QED BY InitCache, NextCache, PTL DEF Spec

(***************************************************************************)
(* For every instance: nothing enters a cache, or leaves one, but answers  *)
(* a provider gave and the store recorded, and no-store requests and       *)
(* streams stay out of the caches (the cache reads and the admission of    *)
(* gateway.py: chat_completion, far apart in the code and in time).        *)
(***************************************************************************)
THEOREM CachesPaid == Spec => []CachesHoldPaidAnswers
<1>1. CacheInv => CachesHoldPaidAnswers
  <2> SUFFICES ASSUME CacheInv PROVE CachesHoldPaidAnswers
      OBVIOUS
  <2>1. ASSUME NEW c \in CacheKey, l1[c] # None PROVE Shareable(l1[c].resp)
    <3>1. l1[c].resp \in Response
      BY <2>1 DEF CacheInv, Typed, TypeOK, L1Entry
    <3> QED BY <2>1, <3>1 DEF CacheInv, L1OK
  <2>2. \A e \in l2 : Shareable(e.resp)
      BY DEF CacheInv, L2OK, EntryOK
  <2>3. \A r \in Requests : FromCache(r) =>
           /\ Shareable(req[r].resp)
           /\ ~req[r].in.no_store /\ ~req[r].in.stream
      BY DEF CacheInv, HitsOK, HitOK
  <2> QED BY <2>1, <2>2, <2>3 DEF CachesHoldPaidAnswers
<1> QED BY <1>1, CacheAlways, PTL

(***************************************************************************)
(* For every instance, similarity and clock: a semantic hit never crosses  *)
(* a namespace (team, provider family, system prompt and temperature) and  *)
(* never falls below the base threshold (semantic_cache.py: lookup).       *)
(***************************************************************************)
THEOREM SemanticIsolation == Spec => []SemanticHitsStayInNamespace
<1>1. CacheInv => SemanticHitsStayInNamespace
    BY DEF CacheInv, HitsOK, HitOK, FromCache, SemanticHitsStayInNamespace
<1> QED BY <1>1, CacheAlways, PTL

(***************************************************************************)
(* The overshoot.                                                          *)
(*                                                                         *)
(* OvershootBounded is not inductive: it says nothing of the calls that    *)
(* are still in flight.  The invariant below counts them in full, so that  *)
(* a dispatch, which reserves nothing in the usage row, is paid for by the *)
(* peak it raises and an answer only moves tokens from one term to another.*)
(***************************************************************************)
\* Recorded tokens of k, with a full answer for every call in flight.
Load(k) == usage[k].total_tokens + MaxTokens * Cardinality(InFlight(k))

Covered(k, cap) ==
    \/ peak[k] = 0 /\ usage[k].total_tokens = 0 /\ InFlight(k) = {}
    \/ peak[k] > 0 /\ Load(k) <= cap + MaxTokens * (peak[k] - 1)

\* A key only ever has rows that KeyRows lists.
LimitsKnown == \A k \in Keys : api_keys[k] \in KeyRows[k] \cup {Absent}

BudgetInv ==
    /\ Typed
    /\ LimitsKnown
    /\ ProjectionHolds =>
          \A k \in Keys : \A row \in KeyRows[k] :
              CappedBy(k, row.max_tokens) => Covered(k, row.max_tokens)

USE DEF Waiting

(***************************************************************************)
(* How one step changes the calls in flight of a key.                      *)
(***************************************************************************)
LEMMA EndLeavesFlight ==
    ASSUME Typed, NEW r \in Requests, NEW v, v.phase = "done",
           req' = [req EXCEPT ![r] = v], NEW k
    PROVE  InFlight(k)' = InFlight(k) \ {r}
BY DEF InFlight, Typed, TypeOK

LEMMA NewNotInFlight ==
    ASSUME NEW r, req[r].phase = "new", NEW k
    PROVE  r \notin InFlight(k)
BY DEF InFlight

LEMMA WaitingInFlight ==
    ASSUME NEW r \in Requests, req[r].phase \in Waiting, NEW k
    PROVE  r \in InFlight(k) <=> req[r].in.key = k
BY DEF InFlight

LEMMA Monotone ==
    ASSUME NEW m \in Nat, NEW a \in Nat, NEW b \in Nat, a <= b
    PROVE  m * a <= m * b
<1> DEFINE d == b - a
<1>1. d \in Nat /\ b = a + d
    OBVIOUS
<1>2. m * b = m * a + m * d
  <2> HIDE DEF d
  <2> QED BY <1>1
<1>3. m * d >= 0
  <2> HIDE DEF d
  <2> QED BY <1>1
<1> QED BY <1>1, <1>2, <1>3

\* A step that does not touch what Covered reads.
LEMMA QuietCovered ==
    ASSUME NEW k, NEW cap, Covered(k, cap), InFlight(k)' = InFlight(k),
           usage'[k].total_tokens = usage[k].total_tokens, peak'[k] = peak[k]
    PROVE  Covered(k, cap)'
BY DEF Covered, Load

\* A call leaves flight and adds at most one answer to the recorded usage.
LEMMA EndCovered ==
    ASSUME Typed, Typed', NEW k \in Keys, NEW cap \in Nat, Covered(k, cap),
           NEW r \in InFlight(k), InFlight(k)' = InFlight(k) \ {r},
           usage'[k].total_tokens <= usage[k].total_tokens + MaxTokens,
           peak' = peak
    PROVE  Covered(k, cap)'
<1> DEFINE n == Cardinality(InFlight(k))
           used == usage[k].total_tokens
           used2 == usage'[k].total_tokens
<1>1. peak[k] > 0 /\ used + MaxTokens * n <= cap + MaxTokens * (peak[k] - 1)
    BY DEF Covered, Load
<1>2. n \in Nat /\ n > 0 /\ Cardinality(InFlight(k)') = n - 1
    BY InFlightFinite, FS_RemoveElement, FS_EmptySet
<1>3. used \in Nat /\ used2 \in Nat /\ peak[k] \in Nat
    BY DEF Typed, TypeOK, StoreTypeOK, UsageRow
<1>4. Load(k)' = used2 + MaxTokens * (n - 1)
    BY <1>2 DEF Load
<1> HIDE DEF n, used, used2
<1>5. MaxTokens * (n - 1) = MaxTokens * n - MaxTokens
    BY <1>2, MaxTokensType
<1>6. used2 + MaxTokens * (n - 1) <= cap + MaxTokens * (peak[k] - 1)
  <2> DEFINE x == MaxTokens * n
             y == MaxTokens * (peak[k] - 1)
             z == MaxTokens * (n - 1)
  <2>1. x \in Int /\ y \in Int /\ z \in Int /\ z = x - MaxTokens
    BY <1>2, <1>3, <1>5, MaxTokensType
  <2>2. used + x <= cap + y /\ used2 <= used + MaxTokens
    BY <1>1 DEF used, used2
  <2> HIDE DEF x, y, z
  <2>3. used2 + z <= cap + y
    BY <2>1, <2>2, <1>3, MaxTokensType
  <2> QED BY <2>3 DEF y, z
<1> QED BY <1>1, <1>4, <1>6 DEF Covered

\* A dispatch: the budget check passed and the call goes in flight.
LEMMA DispatchCovered ==
    ASSUME Typed, NEW k \in Keys, NEW cap \in Nat, Covered(k, cap),
           NEW r, r \notin InFlight(k), InFlight(k)' = InFlight(k) \cup {r},
           usage' = usage, usage[k].total_tokens + MaxTokens <= cap,
           peak'[k] = IF peak[k] > Cardinality(InFlight(k)) THEN peak[k]
                      ELSE Cardinality(InFlight(k)) + 1
    PROVE  Covered(k, cap)'
<1> DEFINE n == Cardinality(InFlight(k))
           used == usage[k].total_tokens
           top == peak'[k]
<1>1. n \in Nat /\ Cardinality(InFlight(k)') = n + 1
    BY InFlightFinite, FS_AddElement
<1>2. used \in Nat /\ peak[k] \in Nat
    BY DEF Typed, TypeOK, StoreTypeOK, UsageRow
<1>3. top \in Nat /\ n <= top - 1 /\ top > 0 /\ top - 1 \in Nat
    BY <1>1, <1>2
<1>4. Load(k)' = used + MaxTokens * (n + 1)
    BY <1>1 DEF Load
<1>5. used + MaxTokens <= cap
    OBVIOUS
<1> HIDE DEF n, used, top
<1>6. MaxTokens * (n + 1) = MaxTokens * n + MaxTokens
    BY <1>1, MaxTokensType
<1>7. MaxTokens * n <= MaxTokens * (top - 1)
    BY <1>1, <1>3, MaxTokensType, Monotone
<1>8. used + MaxTokens * (n + 1) <= cap + MaxTokens * (top - 1)
  <2> DEFINE x == MaxTokens * n
             y == MaxTokens * (top - 1)
             z == MaxTokens * (n + 1)
  <2>1. x \in Int /\ y \in Int /\ z \in Int
    BY <1>1, <1>3, MaxTokensType
  <2>2. z = x + MaxTokens /\ x <= y
    BY <1>6, <1>7
  <2> HIDE DEF x, y, z
  <2>3. used + z <= cap + y
    BY <2>1, <2>2, <1>2, <1>5, MaxTokensType
  <2> QED BY <2>3 DEF y, z
<1> QED BY <1>3, <1>4, <1>8 DEF Covered, top

\* A restart: nothing is in flight any more.
LEMMA RestartCovered ==
    ASSUME Typed, Typed', NEW k \in Keys, NEW cap \in Nat, Covered(k, cap),
           InFlight(k)' = {}, peak' = peak,
           \/ usage'[k].total_tokens = usage[k].total_tokens
           \/ /\ InFlight(k) # {}
              /\ usage'[k].total_tokens <= usage[k].total_tokens + MaxTokens
    PROVE  Covered(k, cap)'
<1> DEFINE n == Cardinality(InFlight(k))
           used == usage[k].total_tokens
           used2 == usage'[k].total_tokens
<1>1. CASE peak[k] = 0
    BY <1>1 DEF Covered
<1>2. CASE peak[k] > 0
  <2>1. used + MaxTokens * n <= cap + MaxTokens * (peak[k] - 1)
    BY <1>2 DEF Covered, Load
  <2>2. n \in Nat /\ (InFlight(k) # {} => n >= 1)
    BY InFlightFinite, FS_EmptySet
  <2>3. used \in Nat /\ used2 \in Nat /\ peak[k] \in Nat
    BY DEF Typed, TypeOK, StoreTypeOK, UsageRow
  <2>4. Load(k)' = used2
    <3>1. Cardinality(InFlight(k)') = 0
      BY FS_EmptySet
    <3>2. Load(k)' = used2 + MaxTokens * 0
      BY <3>1 DEF Load
    <3>3. MaxTokens * 0 = 0
      BY MaxTokensType
    <3> QED BY <3>2, <3>3, <2>3
  <2>5. used2 = used \/ (n >= 1 /\ used2 <= used + MaxTokens)
    BY <2>2
  <2> HIDE DEF n, used, used2
  <2>6. used2 <= used + MaxTokens * n
    <3>1. CASE n >= 1
      <4>1. MaxTokens * 1 <= MaxTokens * n
        BY <3>1, <2>2, MaxTokensType, Monotone
      <4>2. MaxTokens * n \in Int
        BY <2>2, MaxTokensType
      <4> QED BY <4>1, <4>2, <2>3, <2>5, MaxTokensType
    <3>2. CASE n = 0
      BY <3>2, <2>3, <2>5, MaxTokensType
    <3> QED BY <3>1, <3>2, <2>2
  <2>7. used2 <= cap + MaxTokens * (peak[k] - 1)
    <3> DEFINE x == MaxTokens * n
               y == MaxTokens * (peak[k] - 1)
    <3>1. x \in Int /\ y \in Int
      BY <2>2, <2>3, MaxTokensType
    <3>2. used + x <= cap + y /\ used2 <= used + x
      BY <2>1, <2>6
    <3> HIDE DEF x, y
    <3>3. used2 <= cap + y
      BY <3>1, <3>2, <2>3
    <3> QED BY <3>3 DEF y
  <2> QED BY <1>2, <2>4, <2>7 DEF Covered
<1> QED BY <1>1, <1>2 DEF Typed, TypeOK

(***************************************************************************)
(* The rows of the keys are among those the constants list.                *)
(***************************************************************************)
LEMMA InitLimits == Init => LimitsKnown
BY AccountAssumption DEF Init, LimitsKnown

LEMMA RowKnown ==
    ASSUME LimitsKnown, NEW p \in Payloads
    PROVE  Row(p) \in KeyRows[p.key] \cup {Absent}
BY PayloadType, AccountAssumption DEF LimitsKnown, Row

LEMMA NextLimits == Typed /\ LimitsKnown /\ [Next]_vars => LimitsKnown'
<1> SUFFICES ASSUME Typed, LimitsKnown, [Next]_vars PROVE LimitsKnown'
    OBVIOUS
<1>1. ASSUME NEW p \in Payloads, Authenticate(p) PROVE LimitsKnown'
    BY <1>1, RowKnown, PayloadType
       DEF Authenticate, LimitsKnown, Typed, TypeOK, StoreTypeOK
<1>2. ASSUME LoseProcess PROVE LimitsKnown'
    BY <1>2, AccountAssumption DEF LoseProcess, LimitsKnown
<1>3. ASSUME api_keys' = api_keys PROVE LimitsKnown'
    BY <1>3 DEF LimitsKnown
<1>4. ASSUME NEW r \in Requests, NEW p \in Payloads, Arrive(r, p)
      PROVE  LimitsKnown'
    BY <1>1, <1>4 DEF Arrive, Refuse, HitL1, HitL2, RejectOverBudget,
                      RefuseDispatch, Dispatch
<1>5. ASSUME NEW r \in Requests, CallEnds(r) PROVE LimitsKnown'
    BY <1>3, <1>5 DEF CallEnds, Answer, FailOver, UpstreamFails,
       FallbackUnconfigured, AdapterBreaks, StreamEnd, StreamFails, Disconnect,
       storeVars
<1>6. ASSUME NEW r \in Requests, RequestStep(r) PROVE LimitsKnown'
    BY <1>2, <1>3, <1>4, <1>5, <1>6
       DEF RequestStep, StreamChunk, CrashWhileRecording, storeVars
<1>7. ASSUME NEW k \in Keys, NEW row \in KeyRows[k], SetKey(k, row)
      PROVE  LimitsKnown'
    BY <1>7 DEF SetKey, UpsertKey, LimitsKnown, Typed, TypeOK, StoreTypeOK
<1>8. CASE Tick \/ ClearCaches \/ UNCHANGED vars
    BY <1>3, <1>8 DEF Tick, ClearCaches, vars, storeVars
<1>9. CASE Crash
    BY <1>2, <1>9 DEF Crash
<1> QED BY <1>6, <1>7, <1>8, <1>9 DEF Next

(***************************************************************************)
(* Every step keeps a key within its bound.  k, row and cap are fixed.     *)
(***************************************************************************)
\* A request that arrives and ends in the same step.
LEMMA ArriveAndEndCovered ==
    ASSUME Typed, NEW r \in Requests, req[r].phase = "new",
           NEW v, v.phase = "done", req' = [req EXCEPT ![r] = v],
           NEW k \in Keys, NEW cap, Covered(k, cap), peak' = peak,
           usage'[k].total_tokens = usage[k].total_tokens
    PROVE  Covered(k, cap)'
<1>1. InFlight(k)' = InFlight(k) \ {r}
    BY EndLeavesFlight
<1>2. r \notin InFlight(k)
    BY NewNotInFlight
<1>3. InFlight(k)' = InFlight(k)
    BY <1>1, <1>2
<1> QED BY <1>3, QuietCovered

LEMMA ArriveCovered ==
    ASSUME Typed, LimitsKnown, ProjectionHolds, NEW r \in Requests,
           NEW p \in Payloads, Arrive(r, p), NEW k \in Keys, NEW cap \in Nat,
           CappedBy(k, cap), Covered(k, cap)
    PROVE  Covered(k, cap)'
<1>1. CASE Refuse(r, p)
  <2>1. Ended(p, RefusalStatus(p)).phase = "done"
    BY DEF Ended
  <2> QED BY <1>1, <2>1, ArriveAndEndCovered DEF Refuse
<1>2. ASSUME NEW resp, NEW tier, ServeHit(r, p, resp, tier),
             req[r].phase = "new", peak' = peak
      PROVE  Covered(k, cap)'
  <2> DEFINE v == IF resp.counted THEN Answered(p, 200, FALSE, 0, resp, tier)
                                  ELSE Ended(p, 500)
  <2>1. v.phase = "done" /\ req' = [req EXCEPT ![r] = v]
    BY <1>2 DEF ServeHit, Answered, Ended
  <2>2. p.key \in Keys /\ StoreTypeOK
    BY PayloadType DEF Typed, TypeOK
  <2>3. usage'[k].total_tokens = usage[k].total_tokens
    <3>1. usage' = usage \/ usage' = RecordUsage(p.key, 0, 0, TRUE)
      BY <1>2 DEF ServeHit, Settle, AllCommits
    <3> QED BY <3>1, <2>2 DEF RecordUsage, StoreTypeOK, UsageRow
  <2> HIDE DEF v
  <2> QED BY <1>2, <2>1, <2>3, ArriveAndEndCovered
<1>3. CASE HitL1(r, p)
    BY <1>2, <1>3 DEF HitL1, Accepted
<1>4. CASE HitL2(r, p)
    BY <1>2, <1>4 DEF HitL2, Accepted
<1>5. CASE RejectOverBudget(r, p)
  <2>1. Ended(p, 402).phase = "done"
    BY DEF Ended
  <2>2. req' = [req EXCEPT ![r] = Ended(p, 402)]
    BY <1>5 DEF RejectOverBudget
  <2>3. req[r].phase = "new" /\ peak' = peak /\ usage' = usage
    BY <1>5 DEF RejectOverBudget, Accepted, Reject
  <2> QED BY <2>1, <2>2, <2>3, ArriveAndEndCovered
<1>6. CASE RefuseDispatch(r, p)
  <2>1. Ended(p, DispatchStatus(p)).phase = "done"
    BY DEF Ended
  <2>2. req' = [req EXCEPT ![r] = Ended(p, DispatchStatus(p))]
    BY <1>6 DEF RefuseDispatch
  <2>3. req[r].phase = "new" /\ peak' = peak /\ usage' = usage
    BY <1>6 DEF RefuseDispatch, Accepted
  <2> QED BY <2>1, <2>2, <2>3, ArriveAndEndCovered
<1>7. CASE Dispatch(r, p)
  <2>1. /\ req'[r].phase \in Waiting /\ req'[r].in = p
        /\ \A s \in Requests \ {r} : req'[s] = req[s]
        /\ r \notin InFlight(k) /\ usage' = usage
    BY <1>7, NewNotInFlight DEF Dispatch, Accepted, Typed, TypeOK
  <2>2. CASE p.key # k
    <3>1. InFlight(k)' = InFlight(k)
      BY <2>1, <2>2 DEF InFlight
    <3>2. peak'[k] = peak[k]
      BY <1>7, <2>2 DEF Dispatch, Typed, TypeOK
    <3> QED BY <2>1, <3>1, <3>2, QuietCovered
  <2>3. CASE p.key = k
    <3>1. InFlight(k)' = InFlight(k) \cup {r}
      BY <2>1, <2>3 DEF InFlight
    <3>2. peak'[k] = IF peak[k] > Cardinality(InFlight(k)) THEN peak[k]
                     ELSE Cardinality(InFlight(k)) + 1
      BY <1>7, <2>3 DEF Dispatch, Typed, TypeOK
    <3>3. usage[k].total_tokens + MaxTokens <= cap
      <4>1. Row(p) \in KeyRows[k] /\ p.prompt \in Prompts
        BY <1>7, <2>3, RowKnown, AcceptedOK, AccountAssumption
           DEF Dispatch, Typed
      <4>2. Row(p).max_tokens # NoCap /\ Row(p).max_tokens <= cap
        BY <4>1 DEF CappedBy
      <4>3. usage[k].total_tokens + EstTokens[p.prompt] <= Row(p).max_tokens
        <5>1. Row(p).max_tokens \in Nat
          BY <4>1, <4>2, AccountAssumption DEF KeyRow, Cap
        <5>2. usage[k].total_tokens + EstTokens[p.prompt] \in Nat
          BY <4>1, ChargeAssumption
             DEF Typed, TypeOK, StoreTypeOK, UsageRow
        <5>3. ~Exceeds(Row(p).max_tokens,
                       usage[k].total_tokens + EstTokens[p.prompt])
          BY <1>7, <2>3 DEF Dispatch, OverBudget, WouldExceedBudget
        <5> QED BY <5>1, <5>2, <5>3, <4>2 DEF Exceeds
      <4>4. EstTokens[p.prompt] >= MaxTokens /\ EstTokens[p.prompt] \in Nat
        BY <4>1, ChargeAssumption DEF ProjectionHolds
      <4>5. Row(p).max_tokens \in Nat /\ usage[k].total_tokens \in Nat
        BY <4>1, <4>2, AccountAssumption
           DEF KeyRow, Cap, Typed, TypeOK, StoreTypeOK, UsageRow
      <4> QED BY <4>2, <4>3, <4>4, <4>5, MaxTokensType
    <3> QED BY <2>1, <3>1, <3>2, <3>3, DispatchCovered
  <2> QED BY <2>2, <2>3
<1> QED BY <1>1, <1>3, <1>4, <1>5, <1>6, <1>7 DEF Arrive

\* The end of a call, with what it adds to the usage row of its key.
LEMMA CallEndCovered ==
    ASSUME Typed, Typed', NEW r \in Requests, req[r].phase \in Waiting,
           NEW v, v.phase = "done", req' = [req EXCEPT ![r] = v],
           \A j \in Keys \ {req[r].in.key} :
              usage'[j].total_tokens = usage[j].total_tokens,
           usage'[req[r].in.key].total_tokens
              <= usage[req[r].in.key].total_tokens + MaxTokens,
           peak' = peak, NEW k \in Keys, NEW cap \in Nat, Covered(k, cap)
    PROVE  Covered(k, cap)'
<1>1. InFlight(k)' = InFlight(k) \ {r}
    BY EndLeavesFlight
<1>2. r \in InFlight(k) <=> req[r].in.key = k
    BY WaitingInFlight
<1>3. CASE req[r].in.key = k
    BY <1>1, <1>2, <1>3, EndCovered
<1>4. CASE req[r].in.key # k
  <2>1. InFlight(k)' = InFlight(k) /\ peak'[k] = peak[k]
    BY <1>1, <1>2, <1>4
  <2>2. usage'[k].total_tokens = usage[k].total_tokens
    BY <1>4
  <2> QED BY <2>1, <2>2, QuietCovered
<1> QED BY <1>3, <1>4

\* A call that ends and records nothing.
LEMMA UnrecordedCovered ==
    ASSUME Typed, Typed', NEW r \in Requests, req[r].phase \in Waiting,
           NEW status, req' = [req EXCEPT ![r] = Ended(req[r].in, status)],
           usage' = usage, peak' = peak,
           NEW k \in Keys, NEW cap \in Nat, Covered(k, cap)
    PROVE  Covered(k, cap)'
<1> DEFINE v == Ended(req[r].in, status)
<1>1. v.phase = "done" /\ req' = [req EXCEPT ![r] = v]
    BY DEF Ended
<1>2. req[r].in.key \in Keys
    BY WaitingOK
<1>3. usage[req[r].in.key].total_tokens \in Nat
    BY <1>2 DEF Typed, TypeOK, StoreTypeOK, UsageRow
<1>4. usage'[req[r].in.key].total_tokens
         <= usage[req[r].in.key].total_tokens + MaxTokens
    BY <1>3, MaxTokensType
<1> HIDE DEF v
<1> QED BY <1>1, <1>4, CallEndCovered

\* A call that ends and is recorded with at most one full answer.
LEMMA RecordedCovered ==
    ASSUME Typed, Typed', NEW r \in Requests, req[r].phase \in Waiting,
           NEW v, v.phase = "done", req' = [req EXCEPT ![r] = v],
           NEW t \in Nat, t <= MaxTokens, NEW c \in Nat, NEW audited \in BOOLEAN,
           Settle(req[r].in.key, t, c, FALSE, audited, AllCommits),
           peak' = peak, NEW k \in Keys, NEW cap \in Nat, Covered(k, cap)
    PROVE  Covered(k, cap)'
<1> DEFINE key == req[r].in.key
<1>1. key \in Keys /\ StoreTypeOK
    BY WaitingOK DEF Typed, TypeOK
<1>2. usage' = RecordUsage(key, t, c, FALSE)
    BY DEF Settle, AllCommits
<1> HIDE DEF key
<1>3. \A j \in Keys \ {key} : usage'[j] = usage[j]
    BY <1>1, <1>2 DEF RecordUsage, StoreTypeOK
<1>4. /\ usage'[key].total_tokens = usage[key].total_tokens + t
      /\ usage[key].total_tokens \in Nat
    BY <1>1, <1>2 DEF RecordUsage, StoreTypeOK, UsageRow
<1>5. usage'[key].total_tokens <= usage[key].total_tokens + MaxTokens
    BY <1>4, MaxTokensType
<1> QED BY <1>3, <1>5, CallEndCovered DEF key

LEMMA CallEndsCovered ==
    ASSUME Typed, Typed', NEW r \in Requests, CallEnds(r),
           NEW k \in Keys, NEW cap \in Nat, Covered(k, cap)
    PROVE  Covered(k, cap)'
<1>1. ASSUME NEW tokens \in 0..MaxTokens, NEW counted \in BOOLEAN,
             Answer(r, tokens, counted)
      PROVE  Covered(k, cap)'
  <2>0. PICK v : v.phase = "done" /\ req' = [req EXCEPT ![r] = v]
    BY <1>1 DEF Answer, Answered
  <2>1. v.phase = "done" /\ req' = [req EXCEPT ![r] = v]
    BY <2>0
  <2>2. req[r].phase \in Waiting /\ peak' = peak
    BY <1>1 DEF Answer
  <2>3. tokens \in Nat /\ tokens <= MaxTokens
    BY MaxTokensType
  <2>4. CostOf(UsedModel(r), tokens) \in Nat
    BY <2>2, <2>3, WaitingOK, CostType
  <2>5. Settle(req[r].in.key, tokens, CostOf(UsedModel(r), tokens), FALSE,
               TRUE, AllCommits)
    BY <1>1 DEF Answer
  <2> QED BY <2>1, <2>2, <2>3, <2>4, <2>5, RecordedCovered
<1>2. CASE FailOver(r)
  <2>1. /\ req[r].phase = "primary" /\ usage' = usage /\ peak' = peak
        /\ req'[r].phase = "fallback" /\ req'[r].in = req[r].in
        /\ \A s \in Requests \ {r} : req'[s] = req[s]
    BY <1>2 DEF FailOver, HasFallback, storeVars, Typed, TypeOK, Request
  <2>2. InFlight(k)' = InFlight(k)
    BY <2>1 DEF InFlight
  <2> QED BY <2>1, <2>2, QuietCovered
<1>3. CASE UpstreamFails(r)
  <2>1. /\ req[r].phase \in Waiting /\ usage' = usage /\ peak' = peak
        /\ req' = [req EXCEPT ![r] = Ended(req[r].in, FailureStatus(r))]
    BY <1>3 DEF UpstreamFails, storeVars
  <2> QED BY <2>1, UnrecordedCovered
<1>4. CASE FallbackUnconfigured(r)
  <2>1. /\ req[r].phase \in Waiting /\ usage' = usage /\ peak' = peak
        /\ req' = [req EXCEPT ![r] = Ended(req[r].in, 500)]
    BY <1>4 DEF FallbackUnconfigured, HasFallback, storeVars
  <2> QED BY <2>1, UnrecordedCovered
<1>5. CASE AdapterBreaks(r)
  <2>1. /\ req[r].phase \in Waiting /\ usage' = usage /\ peak' = peak
        /\ req' = [req EXCEPT ![r] = Ended(req[r].in, 500)]
    BY <1>5 DEF AdapterBreaks, storeVars
  <2> QED BY <2>1, UnrecordedCovered
<1>6. ASSUME NEW tokens \in 0..MaxTokens, StreamEnd(r, tokens)
      PROVE  Covered(k, cap)'
  <2> DEFINE v == Answered(req[r].in, 200, FALSE, tokens, None, "miss")
  <2>1. v.phase = "done" /\ req' = [req EXCEPT ![r] = v]
    BY <1>6 DEF StreamEnd, Answered
  <2>2. req[r].phase \in Waiting /\ peak' = peak
    BY <1>6 DEF StreamEnd
  <2>3. tokens \in Nat /\ tokens <= MaxTokens
    BY MaxTokensType
  <2>4. CostOf(PostModel(req[r].in), tokens) \in Nat
    BY <2>2, <2>3, WaitingOK, CostType
  <2>5. Settle(req[r].in.key, tokens, CostOf(PostModel(req[r].in), tokens),
               FALSE, FALSE, AllCommits)
    BY <1>6 DEF StreamEnd
  <2> HIDE DEF v
  <2> QED BY <2>1, <2>2, <2>3, <2>4, <2>5, RecordedCovered
<1>7. CASE StreamFails(r)
  <2>1. /\ req[r].phase \in Waiting /\ usage' = usage /\ peak' = peak
        /\ req' = [req EXCEPT ![r] = Ended(req[r].in, 502)]
    BY <1>7 DEF StreamFails
  <2> QED BY <2>1, UnrecordedCovered
<1>8. CASE Disconnect(r)
  <2>1. /\ req[r].phase \in Waiting /\ usage' = usage /\ peak' = peak
        /\ req' = [req EXCEPT ![r] = Ended(req[r].in, Cancelled)]
    BY <1>8 DEF Disconnect, storeVars
  <2> QED BY <2>1, UnrecordedCovered
<1> QED
    BY <1>1, <1>2, <1>3, <1>4, <1>5, <1>6, <1>7, <1>8 DEF CallEnds

LEMMA RestartsCovered ==
    ASSUME Typed, Typed', LoseProcess, NEW k \in Keys, NEW cap \in Nat,
           Covered(k, cap),
           \/ usage'[k].total_tokens = usage[k].total_tokens
           \/ /\ InFlight(k) # {}
              /\ usage'[k].total_tokens <= usage[k].total_tokens + MaxTokens
    PROVE  Covered(k, cap)'
<1>1. InFlight(k)' = {}
    BY DEF LoseProcess, InFlight, Ended
<1>2. peak' = peak
    BY DEF LoseProcess
<1> QED BY <1>1, <1>2, RestartCovered

LEMMA CrashWhileRecordingCovered ==
    ASSUME Typed, Typed', NEW r \in Requests, NEW tokens \in 0..MaxTokens,
           NEW done, CrashWhileRecording(r, tokens, done),
           NEW k \in Keys, NEW cap \in Nat, Covered(k, cap)
    PROVE  Covered(k, cap)'
<1> DEFINE key == req[r].in.key
           cost == CostOf(UsedModel(r), tokens)
           audited == req[r].phase # "stream"
<1>1. /\ req[r].phase \in Waiting /\ LoseProcess
      /\ Settle(key, tokens, cost, FALSE, audited, done)
    BY DEF CrashWhileRecording
<1>2. key \in Keys /\ r \in InFlight(key) /\ StoreTypeOK
    BY <1>1, WaitingOK, WaitingInFlight DEF Typed, TypeOK
<1>3. tokens \in Nat /\ tokens <= MaxTokens
    BY MaxTokensType
<1>4. usage' = usage \/ usage' = RecordUsage(key, tokens, cost, FALSE)
    BY <1>1 DEF Settle
<1> HIDE DEF key, cost, audited
<1>5. CASE k # key \/ usage' = usage
  <2>1. usage'[k].total_tokens = usage[k].total_tokens
    BY <1>2, <1>4, <1>5 DEF RecordUsage, StoreTypeOK
  <2> QED BY <1>1, <2>1, RestartsCovered
<1>6. CASE k = key /\ usage' = RecordUsage(key, tokens, cost, FALSE)
  <2>1. /\ usage'[k].total_tokens = usage[k].total_tokens + tokens
        /\ usage[k].total_tokens \in Nat
    BY <1>2, <1>6 DEF RecordUsage, StoreTypeOK, UsageRow
  <2>2. usage'[k].total_tokens <= usage[k].total_tokens + MaxTokens
    BY <2>1, <1>3, MaxTokensType
  <2>3. InFlight(k) # {}
    BY <1>2, <1>6
  <2> QED BY <1>1, <2>2, <2>3, RestartsCovered
<1> QED BY <1>4, <1>5, <1>6

LEMMA NextCovered ==
    ASSUME Typed, Typed', LimitsKnown, ProjectionHolds, [Next]_vars,
           NEW k \in Keys, NEW cap \in Nat, CappedBy(k, cap), Covered(k, cap)
    PROVE  Covered(k, cap)'
<1>1. ASSUME req' = req, usage' = usage, peak' = peak
      PROVE  Covered(k, cap)'
  <2>1. InFlight(k)' = InFlight(k)
    BY <1>1 DEF InFlight
  <2> QED BY <1>1, <2>1, QuietCovered
<1>2. ASSUME NEW r \in Requests, StreamChunk(r)
      PROVE  Covered(k, cap)'
  <2>1. /\ \A s \in Requests : req'[s].phase = req[s].phase
                             /\ req'[s].in = req[s].in
        /\ usage' = usage /\ peak' = peak
    BY <1>2 DEF StreamChunk, storeVars, Typed, TypeOK, Request
  <2>2. InFlight(k)' = InFlight(k)
    BY <2>1 DEF InFlight
  <2> QED BY <2>1, <2>2, QuietCovered
<1>3. ASSUME NEW r \in Requests, RequestStep(r)
      PROVE  Covered(k, cap)'
  <2>1. ASSUME NEW p \in Payloads, Arrive(r, p) PROVE Covered(k, cap)'
    BY <2>1, ArriveCovered
  <2>2. CASE CallEnds(r)
    BY <2>2, CallEndsCovered
  <2>3. ASSUME NEW tokens \in 0..MaxTokens, NEW done,
               CrashWhileRecording(r, tokens, done)
        PROVE  Covered(k, cap)'
    BY <2>3, CrashWhileRecordingCovered
  <2> QED BY <1>2, <1>3, <2>1, <2>2, <2>3 DEF RequestStep
<1>4. ASSUME NEW j \in Keys, NEW row \in KeyRows[j], SetKey(j, row)
      PROVE  Covered(k, cap)'
    BY <1>1, <1>4 DEF SetKey, UpsertKey
<1>5. CASE Tick \/ ClearCaches \/ UNCHANGED vars
    BY <1>1, <1>5 DEF Tick, ClearCaches, vars, storeVars
<1>6. CASE Crash
  <2>1. usage'[k].total_tokens = usage[k].total_tokens /\ LoseProcess
    BY <1>6 DEF Crash
  <2> QED BY <2>1, RestartsCovered
<1> QED BY <1>3, <1>4, <1>5, <1>6 DEF Next

(***************************************************************************)
(* The theorem.                                                            *)
(***************************************************************************)
LEMMA CapIsNat ==
    ASSUME NEW k \in Keys, NEW row \in KeyRows[k], CappedBy(k, row.max_tokens)
    PROVE  row.max_tokens \in Nat
BY AccountAssumption DEF CappedBy, KeyRow, Cap

LEMMA InitBudget == Init => BudgetInv
<1> SUFFICES ASSUME Init PROVE BudgetInv
    OBVIOUS
<1>1. \A k \in Keys : \A cap : Covered(k, cap)
    BY DEF Init, Covered, InFlight, NewRequest, NoUsage
<1> QED BY <1>1, InitTyped, InitLimits DEF BudgetInv

LEMMA NextBudget == BudgetInv /\ [Next]_vars => BudgetInv'
<1> SUFFICES ASSUME BudgetInv, [Next]_vars PROVE BudgetInv'
    OBVIOUS
<1>1. Typed' /\ LimitsKnown'
    BY NextTyped, NextLimits DEF BudgetInv
<1>2. ASSUME ProjectionHolds, NEW k \in Keys, NEW row \in KeyRows[k],
             CappedBy(k, row.max_tokens)
      PROVE  Covered(k, row.max_tokens)'
    BY <1>1, <1>2, CapIsNat, NextCovered DEF BudgetInv
<1> QED BY <1>1, <1>2 DEF BudgetInv, ProjectionHolds, CappedBy

LEMMA CoveredBound ==
    ASSUME Typed, NEW k \in Keys, NEW cap \in Nat, Covered(k, cap)
    PROVE  \/ usage[k].total_tokens = 0
           \/ /\ peak[k] > 0
              /\ usage[k].total_tokens <= cap + (peak[k] - 1) * MaxTokens
<1> DEFINE n == Cardinality(InFlight(k))
           used == usage[k].total_tokens
<1>1. used \in Nat /\ peak[k] \in Nat /\ n \in Nat
    BY InFlightFinite DEF Typed, TypeOK, StoreTypeOK, UsageRow
<1>2. CASE peak[k] > 0
  <2>1. used + MaxTokens * n <= cap + MaxTokens * (peak[k] - 1)
    BY <1>1, <1>2 DEF Covered, Load
  <2> HIDE DEF n, used
  <2> DEFINE x == MaxTokens * n
             y == MaxTokens * (peak[k] - 1)
  <2>2. x \in Nat /\ y \in Int /\ y = (peak[k] - 1) * MaxTokens
    BY <1>1, MaxTokensType
  <2>3. used + x <= cap + y
    BY <2>1
  <2> HIDE DEF x, y
  <2>4. used <= cap + y
    BY <2>2, <2>3, <1>1
  <2> QED BY <1>2, <2>2, <2>4 DEF used
<1>3. CASE peak[k] = 0
    BY <1>3 DEF Covered
<1> QED BY <1>1, <1>2, <1>3

\* Concurrent requests of a key overrun its token cap by at most one answer
\* for each request in flight beyond the first; requests sent one at a time
\* never overrun it.  For any number of keys, requests, models and crashes.
THEOREM Overshoot == Spec => []OvershootBounded
<1>1. Init => BudgetInv
    BY InitBudget
<1>2. BudgetInv /\ [Next]_vars => BudgetInv'
    BY NextBudget
<1>3. BudgetInv => OvershootBounded
    BY CapIsNat, CoveredBound DEF BudgetInv, OvershootBounded
<1> QED BY <1>1, <1>2, <1>3, PTL DEF Spec

(***************************************************************************)
(* The logs.                                                               *)
(*                                                                         *)
(* The two logs never run ahead of the usage table, and fall behind it by  *)
(* at most one request for each restart.  The property is inductive once   *)
(* requests are well typed: only Settle adds a request, in the order usage,*)
(* log, audit, and a prefix of that order is all a crash can leave.        *)
(***************************************************************************)
\* The conjuncts of LogFollowsUsage for one key, n restarts.
Behind(u, l, a, n) ==
    /\ a.ok <= l.ok /\ l.ok <= u.requests
    /\ a.tokens <= l.tokens /\ l.tokens <= u.total_tokens
    /\ a.cost <= l.cost /\ l.cost <= u.cost_usd
    /\ u.requests - l.ok <= n
    /\ u.total_tokens - l.tokens <= n * MaxTokens

Follows(k) == Behind(usage[k], log[k], audit[k], crashes)

LogInv == Typed /\ \A k \in Keys : Follows(k)

LEMMA FollowsEveryKey == LogFollowsUsage <=> \A k \in Keys : Follows(k)
BY DEF LogFollowsUsage, Follows, Behind

LEMMA RowsType ==
    ASSUME StoreTypeOK, NEW k \in Keys
    PROVE  /\ usage[k].requests \in Nat /\ usage[k].total_tokens \in Nat
           /\ usage[k].cost_usd \in Nat
           /\ log[k].ok \in Nat /\ log[k].tokens \in Nat
           /\ log[k].cost \in Nat
           /\ audit[k].ok \in Nat /\ audit[k].tokens \in Nat
           /\ audit[k].cost \in Nat
BY DEF StoreTypeOK, UsageRow, LogTotals

LEMMA OneMoreRestart ==
    ASSUME NEW n \in Nat
    PROVE  (n + 1) * MaxTokens = n * MaxTokens + MaxTokens
           /\ n * MaxTokens \in Nat
BY MaxTokensType

\* A step that adds no request and no tokens, and may restart the process.
LEMMA QuietFollows ==
    ASSUME Typed, NEW k \in Keys, Follows(k), usage'[k] = usage[k],
           log'[k].ok = log[k].ok, log'[k].tokens = log[k].tokens,
           log'[k].cost = log[k].cost,
           audit'[k].ok = audit[k].ok, audit'[k].tokens = audit[k].tokens,
           audit'[k].cost = audit[k].cost,
           crashes' = crashes \/ crashes' = crashes + 1
    PROVE  Follows(k)'
<1>1. crashes \in Nat /\ StoreTypeOK
    BY DEF Typed, TypeOK
<1>2. /\ usage[k].requests \in Nat /\ usage[k].total_tokens \in Nat
      /\ log[k].ok \in Nat /\ log[k].tokens \in Nat
    BY <1>1, RowsType
<1>3. CASE crashes' = crashes
    BY <1>3 DEF Follows, Behind
<1>4. CASE crashes' = crashes + 1
  <2>1. usage[k].requests - log[k].ok <= crashes + 1
    BY <1>1, <1>2 DEF Follows, Behind
  <2> DEFINE x == crashes * MaxTokens
  <2>2. x \in Nat /\ crashes' * MaxTokens = x + MaxTokens
    BY <1>1, <1>4, OneMoreRestart
  <2>3. usage[k].total_tokens - log[k].tokens <= x
    BY DEF Follows, Behind
  <2> HIDE DEF x
  <2>4. usage[k].total_tokens - log[k].tokens <= crashes' * MaxTokens
    BY <1>2, <2>2, <2>3, MaxTokensType
  <2> QED BY <1>4, <2>1, <2>4 DEF Follows, Behind
<1> QED BY <1>3, <1>4

\* Recording an answer; a recording cut short comes with a restart.
LEMMA SettleFollows ==
    ASSUME Typed, NEW k \in Keys, Follows(k), NEW key \in Keys, NEW t \in Nat,
           t <= MaxTokens, NEW c \in Nat, NEW hit \in BOOLEAN,
           NEW audited \in BOOLEAN, NEW done \in 1..AllCommits,
           Settle(key, t, c, hit, audited, done),
           crashes' = IF done = AllCommits THEN crashes ELSE crashes + 1
    PROVE  Follows(k)'
<1>1. /\ crashes \in Nat /\ StoreTypeOK /\ done \in {1, 2, 3}
      /\ usage \in [Keys -> UsageRow] /\ log \in [Keys -> LogTotals]
      /\ audit \in [Keys -> LogTotals]
    BY DEF Typed, TypeOK, StoreTypeOK, AllCommits
<1>2. usage' = RecordUsage(key, t, c, hit)
    BY <1>1 DEF Settle
<1>3. /\ done = 1 => log' = log
      /\ done # 1 => log' = LogOk(log, key, t, c)
    BY <1>1 DEF Settle
<1>4. /\ audit' = audit \/ audit' = LogOk(audit, key, t, c)
      /\ done # 3 => audit' = audit
    BY <1>1 DEF Settle
<1>5. CASE k # key
  <2>1. usage'[k] = usage[k]
    BY <1>1, <1>2, <1>5, RecordUsageType
  <2>2. log'[k] = log[k]
    BY <1>1, <1>3, <1>5, LogOkType
  <2>3. audit'[k] = audit[k]
    BY <1>1, <1>4, <1>5, LogOkType
  <2> QED BY <2>1, <2>2, <2>3, QuietFollows
<1>6. CASE k = key
  <2>1. /\ usage'[k].requests = usage[k].requests + 1
        /\ usage'[k].total_tokens = usage[k].total_tokens + t
        /\ usage'[k].cost_usd = usage[k].cost_usd + c
    BY <1>1, <1>2, <1>6, RecordUsageType
  <2>2. done # 1 => /\ log'[k].ok = log[k].ok + 1
                    /\ log'[k].tokens = log[k].tokens + t
                    /\ log'[k].cost = log[k].cost + c
    BY <1>1, <1>3, <1>6, LogOkType
  <2>3. \/ audit'[k] = audit[k]
        \/ /\ done = 3
           /\ audit'[k].ok = audit[k].ok + 1
           /\ audit'[k].tokens = audit[k].tokens + t
           /\ audit'[k].cost = audit[k].cost + c
    BY <1>1, <1>4, <1>6, LogOkType
  <2>4. /\ usage[k].requests \in Nat /\ usage[k].total_tokens \in Nat
        /\ usage[k].cost_usd \in Nat /\ log[k].ok \in Nat
        /\ log[k].tokens \in Nat /\ log[k].cost \in Nat
        /\ audit[k].ok \in Nat /\ audit[k].tokens \in Nat
        /\ audit[k].cost \in Nat
    BY <1>1, RowsType
  <2> DEFINE x == crashes * MaxTokens
             y == crashes' * MaxTokens
  <2>5. x \in Nat /\ y = IF done = 3 THEN x ELSE x + MaxTokens
    BY <1>1, OneMoreRestart DEF AllCommits
  <2>6. usage[k].total_tokens - log[k].tokens <= x
    BY DEF Follows, Behind
  <2>7. /\ audit[k].ok <= log[k].ok /\ log[k].ok <= usage[k].requests
        /\ audit[k].tokens <= log[k].tokens
        /\ log[k].tokens <= usage[k].total_tokens
        /\ audit[k].cost <= log[k].cost /\ log[k].cost <= usage[k].cost_usd
        /\ usage[k].requests - log[k].ok <= crashes
    BY DEF Follows, Behind
  <2> HIDE DEF x, y
  <2>8. usage'[k].total_tokens - log'[k].tokens <= y
    BY <1>1, <1>3, <2>1, <2>2, <2>4, <2>5, <2>6, MaxTokensType
  <2>9. usage'[k].requests - log'[k].ok <= crashes'
    BY <1>1, <1>3, <2>1, <2>2, <2>4, <2>7 DEF AllCommits
  <2>10. /\ log'[k].ok <= usage'[k].requests
         /\ log'[k].tokens <= usage'[k].total_tokens
         /\ log'[k].cost <= usage'[k].cost_usd
    BY <1>1, <1>3, <2>1, <2>2, <2>4, <2>7
  <2>11. /\ audit'[k].ok <= log'[k].ok
         /\ audit'[k].tokens <= log'[k].tokens
         /\ audit'[k].cost <= log'[k].cost
    BY <1>1, <1>3, <2>2, <2>3, <2>4, <2>7
  <2> QED BY <2>8, <2>9, <2>10, <2>11 DEF Follows, Behind, y
<1> QED BY <1>5, <1>6

\* Rows with another status than 200 carry no tokens and no cost.
LEMMA OtherRows ==
    ASSUME NEW table \in [Keys -> LogTotals], NEW key \in Keys, NEW k \in Keys,
           NEW other \in {LogFailed(table, key), LogRejected(table, key)}
    PROVE  other[k].ok = table[k].ok /\ other[k].tokens = table[k].tokens
           /\ other[k].cost = table[k].cost
BY DEF LogFailed, LogRejected, LogTotals

LEMMA RejectFollows ==
    ASSUME Typed, NEW k \in Keys, Follows(k), NEW key \in Keys,
           NEW audited \in BOOLEAN, Reject(key, audited), crashes' = crashes
    PROVE  Follows(k)'
<1>1. log \in [Keys -> LogTotals] /\ audit \in [Keys -> LogTotals]
    BY DEF Typed, TypeOK, StoreTypeOK
<1>2. /\ usage' = usage /\ log' = LogRejected(log, key)
      /\ audit' = LogRejected(audit, key) \/ audit' = audit
    BY DEF Reject
<1>3. log'[k].ok = log[k].ok /\ log'[k].tokens = log[k].tokens
      /\ log'[k].cost = log[k].cost
    BY <1>1, <1>2, OtherRows
<1>4. audit'[k].ok = audit[k].ok /\ audit'[k].tokens = audit[k].tokens
      /\ audit'[k].cost = audit[k].cost
    BY <1>1, <1>2, OtherRows
<1> QED BY <1>2, <1>3, <1>4, QuietFollows

\* A hit settles nothing but one request.
LEMMA HitFollows ==
    ASSUME Typed, NEW k \in Keys, Follows(k), NEW key \in Keys,
           Settle(key, 0, 0, TRUE, TRUE, AllCommits), crashes' = crashes
    PROVE  Follows(k)'
<1>1. PICK t \in Nat : t = 0
    OBVIOUS
<1>2. PICK b \in BOOLEAN : b = TRUE
    OBVIOUS
<1>3. PICK done \in 1..AllCommits : done = AllCommits
    BY DEF AllCommits
<1>4. Settle(key, t, t, b, b, done) /\ t <= MaxTokens
    BY <1>1, <1>2, <1>3, MaxTokensType DEF Settle, RecordUsage
<1> QED BY <1>3, <1>4, SettleFollows

LEMMA ArriveFollows ==
    ASSUME Typed, NEW k \in Keys, Follows(k), NEW r \in Requests,
           NEW p \in Payloads, Arrive(r, p)
    PROVE  Follows(k)'
<1>1. p.key \in Keys
    BY PayloadType
<1>2. CASE Refuse(r, p) \/ RefuseDispatch(r, p) \/ Dispatch(r, p)
    BY <1>2, QuietFollows DEF Refuse, RefuseDispatch, Dispatch, envVars
<1>3. CASE HitL1(r, p) \/ HitL2(r, p)
  <2>1. /\ crashes' = crashes
        /\ \/ Settle(p.key, 0, 0, TRUE, TRUE, AllCommits)
           \/ UNCHANGED <<usage, log, audit>>
    BY <1>3 DEF HitL1, HitL2, ServeHit, envVars
  <2> QED BY <1>1, <2>1, HitFollows, QuietFollows
<1>4. CASE RejectOverBudget(r, p)
  <2>1. PICK b \in BOOLEAN : b = ~p.stream
    OBVIOUS
  <2>2. Reject(p.key, b) /\ crashes' = crashes
    BY <1>4, <2>1 DEF RejectOverBudget, envVars
  <2> QED BY <1>1, <2>2, RejectFollows
<1> QED BY <1>2, <1>3, <1>4 DEF Arrive

\* Recording the answer of a call, completely or up to a crash.
LEMMA RecordFollows ==
    ASSUME Typed, NEW k \in Keys, Follows(k), NEW r \in Requests,
           req[r].phase \in Waiting, NEW m \in Models, NEW t \in Nat,
           t <= MaxTokens, NEW audited \in BOOLEAN, NEW done \in 1..AllCommits,
           Settle(req[r].in.key, t, CostOf(m, t), FALSE, audited, done),
           crashes' = IF done = AllCommits THEN crashes ELSE crashes + 1
    PROVE  Follows(k)'
<1>1. req[r].in.key \in Keys /\ CostOf(m, t) \in Nat
    BY WaitingOK, CostType
<1>2. PICK key \in Keys : key = req[r].in.key
    BY <1>1
<1>3. PICK c \in Nat : c = CostOf(m, t)
    BY <1>1
<1>4. PICK hit \in BOOLEAN : hit = FALSE
    OBVIOUS
<1>5. Settle(key, t, c, hit, audited, done)
    BY <1>2, <1>3, <1>4
<1> QED BY <1>5, SettleFollows

LEMMA CallEndsFollows ==
    ASSUME Typed, NEW k \in Keys, Follows(k), NEW r \in Requests, CallEnds(r)
    PROVE  Follows(k)'
<1>1. PICK done \in 1..AllCommits : done = AllCommits
    BY DEF AllCommits
<1>2. ASSUME NEW tokens \in 0..MaxTokens, NEW counted \in BOOLEAN,
             Answer(r, tokens, counted)
      PROVE  Follows(k)'
  <2>1. req[r].phase \in Waiting /\ crashes' = crashes
    BY <1>2 DEF Answer, envVars
  <2>2. PICK audited \in BOOLEAN : audited = TRUE
    OBVIOUS
  <2>3. Settle(req[r].in.key, tokens, CostOf(UsedModel(r), tokens), FALSE,
               audited, done)
    BY <1>1, <1>2, <2>2 DEF Answer
  <2>4. tokens \in Nat /\ tokens <= MaxTokens /\ UsedModel(r) \in Models
    BY <2>1, WaitingOK, MaxTokensType
  <2> QED BY <1>1, <2>1, <2>3, <2>4, RecordFollows
<1>3. ASSUME NEW tokens \in 0..MaxTokens, StreamEnd(r, tokens)
      PROVE  Follows(k)'
  <2>1. req[r].phase \in Waiting /\ crashes' = crashes
    BY <1>3 DEF StreamEnd, envVars
  <2>2. PICK audited \in BOOLEAN : audited = FALSE
    OBVIOUS
  <2>3. PICK t \in Nat : t = tokens /\ t <= MaxTokens
    BY MaxTokensType
  <2>4. PICK m \in Models : m = PostModel(req[r].in)
    BY <2>1, WaitingOK
  <2>5. Settle(req[r].in.key, t, CostOf(m, t), FALSE, audited, done)
    BY <1>1, <1>3, <2>2, <2>3, <2>4 DEF StreamEnd
  <2> QED BY <1>1, <2>1, <2>3, <2>5, RecordFollows
<1>4. ASSUME StreamFails(r)
      PROVE  Follows(k)'
  <2>1. /\ req[r].in.key \in Keys /\ log \in [Keys -> LogTotals]
        /\ log' = LogFailed(log, req[r].in.key)
    BY <1>4, WaitingOK DEF StreamFails, Typed, TypeOK, StoreTypeOK
  <2>2. log'[k].ok = log[k].ok /\ log'[k].tokens = log[k].tokens
        /\ log'[k].cost = log[k].cost
    BY <2>1, OtherRows
  <2> QED BY <1>4, <2>2, QuietFollows DEF StreamFails, envVars
<1>5. ASSUME \/ FailOver(r) \/ UpstreamFails(r) \/ FallbackUnconfigured(r)
             \/ Disconnect(r) \/ AdapterBreaks(r)
      PROVE  Follows(k)'
    BY <1>5, QuietFollows DEF FailOver, UpstreamFails, FallbackUnconfigured,
       Disconnect, AdapterBreaks, storeVars, envVars
<1> QED BY <1>2, <1>3, <1>4, <1>5 DEF CallEnds

LEMMA CrashWhileRecordingFollows ==
    ASSUME Typed, NEW k \in Keys, Follows(k), NEW r \in Requests,
           NEW tokens \in 0..MaxTokens, NEW done \in 1..(AllCommits - 1),
           CrashWhileRecording(r, tokens, done)
    PROVE  Follows(k)'
<1>1. req[r].phase \in Waiting /\ crashes' = crashes + 1
    BY DEF CrashWhileRecording, LoseProcess
<1>2. PICK audited \in BOOLEAN : audited = (req[r].phase # "stream")
    OBVIOUS
<1>3. PICK t \in Nat : t = tokens /\ t <= MaxTokens
    BY MaxTokensType
<1>4. PICK m \in Models : m = UsedModel(r)
    BY <1>1, WaitingOK
<1>5. Settle(req[r].in.key, t, CostOf(m, t), FALSE, audited, done)
    BY <1>2, <1>3, <1>4 DEF CrashWhileRecording
<1>6. done \in 1..AllCommits /\ done # AllCommits
    BY DEF AllCommits
<1> QED BY <1>1, <1>3, <1>5, <1>6, RecordFollows

LEMMA NextLog == LogInv /\ [Next]_vars => LogInv'
<1> SUFFICES ASSUME LogInv, [Next]_vars PROVE LogInv'
    OBVIOUS
<1>1. Typed'
    BY NextTyped DEF LogInv
<1>2. ASSUME NEW k \in Keys PROVE Follows(k)'
  <2> USE DEF LogInv
  <2>1. ASSUME NEW r \in Requests, RequestStep(r) PROVE Follows(k)'
    <3>1. ASSUME StreamChunk(r) PROVE Follows(k)'
      BY <3>1, QuietFollows DEF StreamChunk, storeVars, envVars
    <3> QED BY <2>1, <3>1, ArriveFollows, CallEndsFollows,
               CrashWhileRecordingFollows DEF RequestStep
  <2>2. ASSUME \/ \E j \in Keys : \E row \in KeyRows[j] : SetKey(j, row)
               \/ Tick \/ ClearCaches \/ Crash \/ UNCHANGED vars
        PROVE  Follows(k)'
    BY <2>2, QuietFollows DEF SetKey, UpsertKey, Tick, ClearCaches, Crash,
       LoseProcess, vars, storeVars, envVars
  <2> QED BY <2>1, <2>2 DEF Next
<1> QED BY <1>1, <1>2 DEF LogInv

LEMMA InitLog == Init => LogInv
<1>1. 0 * MaxTokens = 0
    BY MaxTokensType
<1> QED BY <1>1, InitTyped DEF Init, LogInv, Follows, Behind, NoUsage, NoRows

(***************************************************************************)
(* For every instance: record_usage, Store.log_request and                 *)
(* SupaDB.log_request are three transactions, and however requests         *)
(* interleave and wherever the process dies between two of them, neither   *)
(* log claims what the usage table lacks, and the usage table is ahead of  *)
(* the request log by at most one request, with the tokens of one answer,  *)
(* for each restart.                                                       *)
(***************************************************************************)
THEOREM LogsTrailUsage == Spec => []LogFollowsUsage
<1>1. LogInv => LogFollowsUsage
    BY FollowsEveryKey DEF LogInv
<1> QED BY <1>1, InitLog, NextLog, PTL DEF Spec

(***************************************************************************)
(* Usage only grows.                                                       *)
(***************************************************************************)
Grows(k) ==
    /\ usage'[k].requests >= usage[k].requests
    /\ usage'[k].total_tokens >= usage[k].total_tokens
    /\ usage'[k].cost_usd >= usage[k].cost_usd

LEMMA SettleGrows ==
    ASSUME Typed, NEW k \in Keys, NEW key \in Keys, NEW t \in Nat,
           NEW c \in Nat, NEW hit, NEW audited, NEW done,
           Settle(key, t, c, hit, audited, done)
    PROVE  Grows(k)
<1>1. StoreTypeOK /\ usage \in [Keys -> UsageRow]
    BY DEF Typed, TypeOK, StoreTypeOK
<1>2. usage' = usage \/ usage' = RecordUsage(key, t, c, hit)
    BY DEF Settle
<1> QED BY <1>1, <1>2, RowsType DEF Grows, RecordUsage

LEMMA RecordGrows ==
    ASSUME Typed, NEW k \in Keys, NEW r \in Requests,
           req[r].phase \in Waiting, NEW m \in Models, NEW t \in Nat,
           NEW hit, NEW audited, NEW done,
           Settle(req[r].in.key, t, CostOf(m, t), hit, audited, done)
    PROVE  Grows(k)
<1>1. req[r].in.key \in Keys /\ CostOf(m, t) \in Nat
    BY WaitingOK, CostType
<1> QED BY <1>1, SettleGrows

LEMMA NextGrows ==
    ASSUME Typed, [Next]_vars, NEW k \in Keys
    PROVE  Grows(k)
<1>1. ASSUME usage' = usage PROVE Grows(k)
    BY <1>1, RowsType DEF Grows, Typed, TypeOK
<1>2. ASSUME NEW r \in Requests, NEW p \in Payloads, Arrive(r, p)
      PROVE  Grows(k)
  <2>1. CASE HitL1(r, p) \/ HitL2(r, p)
    <3>1. /\ p.key \in Keys
          /\ Settle(p.key, 0, 0, TRUE, TRUE, AllCommits) \/ usage' = usage
      BY <2>1, PayloadType DEF HitL1, HitL2, ServeHit
    <3>2. PICK t \in Nat : t = 0
      OBVIOUS
    <3> QED BY <3>1, <3>2, <1>1, SettleGrows
  <2>2. CASE \/ Refuse(r, p) \/ RejectOverBudget(r, p)
             \/ RefuseDispatch(r, p) \/ Dispatch(r, p)
    BY <2>2, <1>1 DEF Refuse, RejectOverBudget, RefuseDispatch, Dispatch, Reject
  <2> QED BY <1>2, <2>1, <2>2 DEF Arrive
<1>3. ASSUME NEW r \in Requests, CallEnds(r) PROVE Grows(k)
  <2>1. ASSUME NEW tokens \in 0..MaxTokens, NEW counted \in BOOLEAN,
               Answer(r, tokens, counted)
        PROVE  Grows(k)
    <3>1. /\ req[r].phase \in Waiting
          /\ Settle(req[r].in.key, tokens, CostOf(UsedModel(r), tokens),
                    FALSE, TRUE, AllCommits)
      BY <2>1 DEF Answer
    <3>2. tokens \in Nat
      BY MaxTokensType
    <3> QED BY <3>1, <3>2, WaitingOK, RecordGrows
  <2>2. ASSUME NEW tokens \in 0..MaxTokens, StreamEnd(r, tokens)
        PROVE  Grows(k)
    <3>1. /\ req[r].phase \in Waiting
          /\ Settle(req[r].in.key, tokens,
                    CostOf(PostModel(req[r].in), tokens), FALSE, FALSE,
                    AllCommits)
      BY <2>2 DEF StreamEnd
    <3>2. tokens \in Nat
      BY MaxTokensType
    <3> QED BY <3>1, <3>2, WaitingOK, RecordGrows
  <2>3. CASE \/ FailOver(r) \/ UpstreamFails(r) \/ FallbackUnconfigured(r)
             \/ StreamFails(r) \/ Disconnect(r) \/ AdapterBreaks(r)
    BY <2>3, <1>1 DEF FailOver, UpstreamFails, FallbackUnconfigured,
       StreamFails, Disconnect, AdapterBreaks, storeVars
  <2> QED BY <1>3, <2>1, <2>2, <2>3 DEF CallEnds
<1>4. ASSUME NEW r \in Requests, NEW tokens \in 0..MaxTokens, NEW done,
             CrashWhileRecording(r, tokens, done)
      PROVE  Grows(k)
  <2>1. /\ req[r].phase \in Waiting
        /\ Settle(req[r].in.key, tokens, CostOf(UsedModel(r), tokens), FALSE,
                  req[r].phase # "stream", done)
    BY <1>4 DEF CrashWhileRecording
  <2>2. tokens \in Nat
    BY MaxTokensType
  <2> QED BY <2>1, <2>2, WaitingOK, RecordGrows
<1>5. ASSUME NEW r \in Requests, RequestStep(r) PROVE Grows(k)
  <2>1. CASE StreamChunk(r)
    BY <2>1, <1>1 DEF StreamChunk, storeVars
  <2> QED BY <1>2, <1>3, <1>4, <1>5, <2>1 DEF RequestStep
<1>6. CASE \/ \E j \in Keys : \E row \in KeyRows[j] : SetKey(j, row)
           \/ Tick \/ ClearCaches \/ Crash \/ UNCHANGED vars
    BY <1>6, <1>1 DEF SetKey, UpsertKey, Tick, ClearCaches, Crash, vars,
                      storeVars
<1> QED BY <1>5, <1>6 DEF Next

(***************************************************************************)
(* For every instance: no login, registration, command-line upsert, seeded *)
(* key or restart ever takes recorded usage away (store.py: upsert_key     *)
(* leaves an existing usage row alone).                                    *)
(***************************************************************************)
THEOREM UsageSurvives == Spec => UsageNeverDecreases
<1>1. Spec => []LogInv
    BY InitLog, NextLog, PTL DEF Spec
<1>2. LogInv /\ [Next]_vars =>
        [\A k \in Keys :
           /\ usage'[k].requests >= usage[k].requests
           /\ usage'[k].total_tokens >= usage[k].total_tokens
           /\ usage'[k].cost_usd >= usage[k].cost_usd]_vars
    BY NextGrows DEF LogInv, Grows
<1> QED BY <1>1, <1>2, PTL DEF Spec, UsageNeverDecreases

(***************************************************************************)
(* The usage row of a key is the sum over the requests recorded for it,    *)
(* those answered and those that failed after they were recorded.          *)
(*                                                                         *)
(* UsageMatchesAnswers is inductive once a request is known to have no     *)
(* status before it ends, so that its answer is new, and what was recorded *)
(* before does not change.                                                 *)
(***************************************************************************)
\* The request in state x was recorded, whatever its client was told.
Recorded(x) == x.status = 200 \/ (x.status = 500 /\ x.tier = "miss")

\* The two ways to be recorded and fail.
Excused(x) ==
    x.status = 500 /\ x.tier = "miss" =>
        \/ x.admit /\ ~x.in.ttl_ok
        \/ ~x.resp.counted

LEMMA RecordedForKey ==
    ASSUME NEW k
    PROVE  RecordedFor(k) = {r \in Requests : Recorded(req[r]) /\ req[r].in.key = k}
BY DEF RecordedFor, PaidInVain, Recorded

LEMMA NotRecordedYet ==
    ASSUME Typed, NEW r \in Requests, req[r].phase # "done"
    PROVE  ~Recorded(req[r]) /\ req[r].status = 0 /\ req[r].tier = "none"
BY DEF Typed, CallsOK, CallOK, Recorded

LEMMA EndedNotRecorded ==
    ASSUME NEW p, NEW status, status # 200
    PROVE  ~Recorded(Ended(p, status)) /\ Excused(Ended(p, status))
BY DEF Ended, Recorded, Excused

Billed(k) == TokensOf(RecordedFor(k))

Matches(k) ==
    /\ usage[k].requests - Cardinality(RecordedFor(k)) \in 0..crashes
    /\ usage[k].total_tokens - Billed(k) \in 0..(crashes * MaxTokens)

BillInv ==
    /\ Typed
    /\ \A r \in Requests : Excused(req[r])
    /\ \A k \in Keys : Matches(k)

\* What recording a request of t tokens adds to the usage row of a key.
Bills(key, t) ==
    /\ usage'[key].requests = usage[key].requests + 1
    /\ usage'[key].total_tokens = usage[key].total_tokens + t
    /\ \A k \in Keys \ {key} : usage'[k] = usage[k]

LEMMA SettleBills ==
    ASSUME Typed, NEW key \in Keys, NEW t \in Nat, NEW c \in Nat,
           NEW hit \in BOOLEAN, NEW audited \in BOOLEAN,
           NEW done \in 1..AllCommits,
           Settle(key, t, c, hit, audited, done)
    PROVE  Bills(key, t)
<1>1. usage \in [Keys -> UsageRow]
    BY DEF Typed, TypeOK, StoreTypeOK
<1>2. usage' = RecordUsage(key, t, c, hit)
    BY DEF Settle, AllCommits
<1> QED BY <1>1, <1>2 DEF RecordUsage, Bills, UsageRow

LEMMA SomeRequests ==
    ASSUME NEW S \in SUBSET Requests
    PROVE  IsFiniteSet(S)
BY ChargeAssumption, FS_Subset

LEMMA TokensType ==
    ASSUME Typed, NEW S \in SUBSET Requests
    PROVE  /\ Amounts([r \in Requests |-> req[r].tokens], S)
           /\ TokensOf(S) \in Nat
<1>1. Amounts([r \in Requests |-> req[r].tokens], S)
    BY DEF Amounts, Typed, TypeOK, Request
<1> QED BY <1>1, SomeRequests, SumType DEF TokensOf

LEMMA TokensOfNone == TokensOf({}) = 0
BY SumEmpty DEF TokensOf

\* Requests that keep their tokens keep their total.
LEMMA TokensKeep ==
    ASSUME NEW S \in SUBSET Requests,
           \A r \in S : req'[r].tokens = req[r].tokens
    PROVE  SumOver([r \in Requests |-> req'[r].tokens], S) = TokensOf(S)
<1> DEFINE a == [r \in Requests |-> req[r].tokens]
           b == [r \in Requests |-> req'[r].tokens]
<1>1. \A r \in S : b[r] = a[r]
    OBVIOUS
<1>2. IsFiniteSet(S)
    BY SomeRequests
<1> HIDE DEF a, b
<1>3. SumOver(b, S) = SumOver(a, S)
    BY <1>1, <1>2, SumSame
<1> QED BY <1>3 DEF TokensOf, a, b

LEMMA BilledNext ==
    ASSUME NEW k
    PROVE  /\ Billed(k) = TokensOf(RecordedFor(k))
           /\ Billed(k)' = SumOver([r \in Requests |-> req'[r].tokens],
                                   RecordedFor(k)')
BY DEF Billed, TokensOf

LEMMA RecordedFinite ==
    ASSUME NEW k
    PROVE  /\ RecordedFor(k) \in SUBSET Requests
           /\ IsFiniteSet(RecordedFor(k))
           /\ Cardinality(RecordedFor(k)) \in Nat
BY SomeRequests, FS_CardinalityType DEF RecordedFor

LEMMA BilledType ==
    ASSUME Typed, NEW k
    PROVE  Billed(k) \in Nat
<1>1. PICK S \in SUBSET Requests : S = RecordedFor(k)
    BY RecordedFinite
<1>2. TokensOf(S) \in Nat
    BY TokensType
<1> QED BY <1>1, <1>2 DEF Billed

LEMMA BilledKeeps ==
    ASSUME NEW k, RecordedFor(k)' = RecordedFor(k),
           \A r \in RecordedFor(k) : req'[r].tokens = req[r].tokens
    PROVE  Billed(k)' = Billed(k)
BY RecordedFinite, BilledNext, TokensKeep

LEMMA BilledGrows ==
    ASSUME Typed, NEW k, NEW r \in Requests, NEW t \in Nat,
           r \notin RecordedFor(k), RecordedFor(k)' = RecordedFor(k) \cup {r},
           \A s \in RecordedFor(k) : req'[s].tokens = req[s].tokens,
           req'[r].tokens = t
    PROVE  /\ Billed(k)' = Billed(k) + t
           /\ Cardinality(RecordedFor(k)') = Cardinality(RecordedFor(k)) + 1
<1>1. PICK S \in SUBSET Requests : S = RecordedFor(k)
    BY RecordedFinite
<1>2. PICK b : b = [s \in Requests |-> req'[s].tokens]
    OBVIOUS
<1>3. IsFiniteSet(S) /\ r \notin S
    BY <1>1, SomeRequests
<1>4. SumOver(b, S) = Billed(k)
    BY <1>1, <1>2, TokensKeep, BilledNext
<1>5. b[r] = t /\ \A s \in S : b[s] \in Nat
    BY <1>1, <1>2 DEF Typed, TypeOK, Request
<1>6. Amounts(b, S \cup {r})
    BY <1>5 DEF Amounts
<1>7. SumOver(b, S \cup {r}) = SumOver(b, S) + b[r]
    BY <1>3, <1>6, SumAdd
<1>8. Billed(k)' = SumOver(b, S \cup {r})
    BY <1>1, <1>2, BilledNext
<1>9. Cardinality(S \cup {r}) = Cardinality(S) + 1
    BY <1>3, FS_AddElement
<1> QED BY <1>1, <1>4, <1>5, <1>7, <1>8, <1>9

\* A step that answers nothing.
LEMMA QuietMatches ==
    ASSUME Typed, NEW k \in Keys, Matches(k), RecordedFor(k)' = RecordedFor(k),
           \A r \in RecordedFor(k) : req'[r].tokens = req[r].tokens,
           usage' = usage, crashes' = crashes
    PROVE  Matches(k)'
<1>1. Billed(k)' = Billed(k)
    BY BilledKeeps
<1> QED BY <1>1 DEF Matches

\* A step of a request that is not recorded, before or after.
LEMMA UnrecordedMatches ==
    ASSUME Typed, NEW k \in Keys, Matches(k), NEW r \in Requests,
           ~Recorded(req[r]), NEW v, ~Recorded(v),
           req' = [req EXCEPT ![r] = v], usage' = usage, crashes' = crashes
    PROVE  Matches(k)'
<1>1. \A s \in Requests : req'[s] = IF s = r THEN v ELSE req[s]
    BY DEF Typed, TypeOK
<1>2. RecordedFor(k)' = RecordedFor(k) /\ r \notin RecordedFor(k)
  <2>1. RecordedFor(k) = {s \in Requests : Recorded(req[s]) /\ req[s].in.key = k}
    BY RecordedForKey
  <2>2. RecordedFor(k)'
           = {s \in Requests : Recorded(req'[s]) /\ req'[s].in.key = k}
    BY DEF RecordedFor, PaidInVain, Recorded
  <2>3. \A s \in Requests : /\ Recorded(req'[s]) <=> Recorded(req[s])
                            /\ Recorded(req[s]) => req'[s].in = req[s].in
    BY <1>1
  <2> QED BY <2>1, <2>2, <2>3
<1>3. \A s \in RecordedFor(k) : req'[s].tokens = req[s].tokens
    BY <1>1, <1>2, RecordedFinite
<1> QED BY <1>2, <1>3, QuietMatches

IsRecord(v, key, t) == Recorded(v) /\ v.tokens = t /\ v.in.key = key

\* A request is recorded with t tokens, which its key is billed.
LEMMA RecordedMatches ==
    ASSUME Typed, NEW k \in Keys, Matches(k), NEW r \in Requests,
           ~Recorded(req[r]), NEW key \in Keys, NEW t \in Nat, NEW v,
           IsRecord(v, key, t), req' = [req EXCEPT ![r] = v],
           Bills(key, t), crashes' = crashes
    PROVE  Matches(k)'
<1> USE DEF IsRecord
<1>1. \A s \in Requests : req'[s] = IF s = r THEN v ELSE req[s]
    BY DEF Typed, TypeOK
<1>2. /\ RecordedFor(k) = {s \in Requests : Recorded(req[s]) /\ req[s].in.key = k}
      /\ RecordedFor(k)'
            = {s \in Requests : Recorded(req'[s]) /\ req'[s].in.key = k}
    BY RecordedForKey DEF RecordedFor, PaidInVain, Recorded
<1>3. r \notin RecordedFor(k)
    BY <1>2
<1>4. StoreTypeOK /\ crashes \in Nat
    BY DEF Typed, TypeOK
<1>5. usage[k].requests \in Nat /\ usage[k].total_tokens \in Nat
    BY <1>4 DEF StoreTypeOK, UsageRow
<1>6. Billed(k) \in Nat
    BY BilledType
<1>7. \A s \in RecordedFor(k) : req'[s].tokens = req[s].tokens
    BY <1>1, <1>3, RecordedFinite
<1>8. CASE v.in.key = k
  <2>1. RecordedFor(k)' = RecordedFor(k) \cup {r} /\ req'[r].tokens = t
    BY <1>1, <1>2, <1>8
  <2>2. /\ Billed(k)' = Billed(k) + t
        /\ Cardinality(RecordedFor(k)') = Cardinality(RecordedFor(k)) + 1
    BY <1>3, <1>7, <2>1, BilledGrows
  <2>3. /\ usage'[k].requests = usage[k].requests + 1
        /\ usage'[k].total_tokens = usage[k].total_tokens + t
    BY <1>8 DEF Bills
  <2>4. usage'[k].requests - Cardinality(RecordedFor(k)') \in 0..crashes'
    BY <1>4, <1>5, <2>2, <2>3, RecordedFinite DEF Matches
  <2>5. usage'[k].total_tokens - Billed(k)'
           = usage[k].total_tokens - Billed(k)
    BY <1>5, <1>6, <2>2, <2>3
  <2> QED BY <2>4, <2>5 DEF Matches
<1>9. CASE v.in.key # k
  <2>1. RecordedFor(k)' = RecordedFor(k)
    BY <1>1, <1>2, <1>9
  <2>2. Billed(k)' = Billed(k)
    BY <1>7, <2>1, BilledKeeps
  <2>3. usage'[k] = usage[k]
    BY <1>9 DEF Bills
  <2> QED BY <2>1, <2>2, <2>3 DEF Matches
<1> QED BY <1>8, <1>9

\* A restart, which may leave the record of one call unanswered.
LEMMA RestartMatches ==
    ASSUME Typed, NEW k \in Keys, Matches(k), LoseProcess,
           \/ usage' = usage
           \/ \E key \in Keys, t \in 0..MaxTokens : Bills(key, t)
    PROVE  Matches(k)'
<1>1. \A s \in Requests : \/ ~Recorded(req[s]) /\ ~Recorded(req'[s])
                          \/ req'[s] = req[s]
  <2> TAKE s \in Requests
  <2>1. CASE req[s].phase \in Waiting
    <3>1. req'[s] = Ended(req[s].in, Lost) /\ ~Recorded(req[s])
      BY <2>1, NotRecordedYet DEF LoseProcess
    <3> QED BY <3>1, EndedNotRecorded DEF Lost
  <2>2. CASE req[s].phase \notin Waiting
    BY <2>2 DEF LoseProcess
  <2> QED BY <2>1, <2>2
<1>2. RecordedFor(k)' = RecordedFor(k)
    BY <1>1 DEF RecordedFor, PaidInVain, Recorded
<1>3. \A s \in RecordedFor(k) : req'[s].tokens = req[s].tokens
    BY <1>1, RecordedForKey
<1>4. Billed(k)' = Billed(k)
    BY <1>2, <1>3, BilledKeeps
<1>5. StoreTypeOK /\ crashes \in Nat /\ crashes' = crashes + 1
    BY DEF Typed, TypeOK, LoseProcess
<1>6. usage[k].requests \in Nat /\ usage[k].total_tokens \in Nat
    BY <1>5 DEF StoreTypeOK, UsageRow
<1>7. Billed(k) \in Nat
    BY BilledType
<1>8. PICK t \in 0..MaxTokens :
         /\ usage'[k].requests \in {usage[k].requests, usage[k].requests + 1}
         /\ usage'[k].total_tokens = usage[k].total_tokens + t
  <2>1. CASE usage' = usage
    <3>1. PICK t \in 0..MaxTokens : t = 0
      BY MaxTokensType
    <3> QED BY <1>6, <2>1, <3>1
  <2>2. ASSUME NEW key \in Keys, NEW u \in 0..MaxTokens, Bills(key, u)
        PROVE  \E t \in 0..MaxTokens :
                  /\ usage'[k].requests \in {usage[k].requests,
                                             usage[k].requests + 1}
                  /\ usage'[k].total_tokens = usage[k].total_tokens + t
    <3>1. CASE k = key
      BY <2>2, <3>1 DEF Bills
    <3>2. CASE k # key
      <4>1. PICK t \in 0..MaxTokens : t = 0
        BY MaxTokensType
      <4> QED BY <1>6, <2>2, <3>2, <4>1 DEF Bills
    <3> QED BY <3>1, <3>2
  <2> QED BY <2>1, <2>2
<1>9. usage'[k].requests - Cardinality(RecordedFor(k)') \in 0..crashes'
    BY <1>2, <1>5, <1>6, <1>8, RecordedFinite DEF Matches
<1>10. usage'[k].total_tokens - Billed(k)' \in 0..(crashes' * MaxTokens)
  <2> DEFINE x == crashes * MaxTokens
             y == crashes' * MaxTokens
             d == usage[k].total_tokens - Billed(k)
  <2>1. x \in Nat /\ y = x + MaxTokens
    BY <1>5, OneMoreRestart
  <2>2. d \in 0..x
    BY DEF Matches
  <2>3. usage'[k].total_tokens - Billed(k)' = d + t
    BY <1>4, <1>6, <1>7, <1>8
  <2> HIDE DEF x, y, d
  <2>4. d + t \in 0..y
    BY <2>1, <2>2, MaxTokensType
  <2> QED BY <2>3, <2>4 DEF y
<1> QED BY <1>9, <1>10 DEF Matches

LEMMA ArriveMatches ==
    ASSUME Typed, NEW k \in Keys, Matches(k), NEW r \in Requests,
           NEW p \in Payloads, Arrive(r, p)
    PROVE  Matches(k)'
<1>1. ~Recorded(req[r])
  <2>1. req[r].phase = "new"
    BY DEF Arrive, Refuse, HitL1, HitL2, RejectOverBudget, RefuseDispatch,
           Dispatch, Accepted
  <2> QED BY <2>1, NotRecordedYet
<1>2. ASSUME NEW status, status # 200, req' = [req EXCEPT ![r] = Ended(p, status)],
             usage' = usage, crashes' = crashes
      PROVE  Matches(k)'
  <2>1. PICK v : v = Ended(p, status)
    OBVIOUS
  <2>2. ~Recorded(v)
    BY <1>2, <2>1, EndedNotRecorded
  <2> QED BY <1>1, <1>2, <2>1, <2>2, UnrecordedMatches
<1>3. ASSUME NEW resp, NEW tier, crashes' = crashes,
             ServeHit(r, p, resp, tier)
      PROVE  Matches(k)'
  <2>1. CASE resp.counted
    <3>1. PICK v : v = Answered(p, 200, FALSE, 0, resp, tier)
      OBVIOUS
    <3>2. PICK done \in 1..AllCommits : done = AllCommits
      BY DEF AllCommits
    <3>3. PICK t \in Nat : t = 0
      OBVIOUS
    <3>4. req' = [req EXCEPT ![r] = v]
      BY <1>3, <2>1, <3>1 DEF ServeHit
    <3>5. PICK hit \in BOOLEAN : hit = TRUE
      OBVIOUS
    <3>6. Settle(p.key, t, t, hit, hit, done) /\ p.key \in Keys
      BY <1>3, <2>1, <3>2, <3>3, <3>5, PayloadType DEF ServeHit
    <3>7. PICK key \in Keys : key = p.key /\ Bills(key, t)
      BY <3>6, SettleBills
    <3>8. IsRecord(v, key, t)
      BY <3>1, <3>3, <3>7 DEF IsRecord, Recorded, Answered
    <3> QED BY <1>1, <1>3, <3>4, <3>7, <3>8, RecordedMatches
  <2>2. CASE ~resp.counted
    <3>1. PICK status : status = 500
      OBVIOUS
    <3>2. req' = [req EXCEPT ![r] = Ended(p, status)] /\ usage' = usage
      BY <1>3, <2>2, <3>1 DEF ServeHit
    <3>3. status # 200 /\ crashes' = crashes
      BY <1>3, <3>1
    <3> QED BY <1>2, <3>2, <3>3
  <2> QED BY <2>1, <2>2
<1>4. CASE HitL1(r, p) \/ HitL2(r, p)
    BY <1>3, <1>4 DEF HitL1, HitL2, envVars
<1>5. CASE Refuse(r, p)
    BY <1>2, <1>5 DEF Refuse, envVars
<1>6. CASE RejectOverBudget(r, p)
  <2>1. PICK status : status = 402
    OBVIOUS
  <2>2. /\ req' = [req EXCEPT ![r] = Ended(p, status)]
        /\ usage' = usage /\ crashes' = crashes
    BY <1>6, <2>1 DEF RejectOverBudget, Reject, envVars
  <2>3. status # 200
    BY <2>1
  <2> QED BY <1>2, <2>2, <2>3
<1>7. CASE RefuseDispatch(r, p)
    BY <1>2, <1>7 DEF RefuseDispatch, envVars
<1>8. CASE Dispatch(r, p)
  <2>1. PICK v : v = [phase |-> IF p.stream THEN "stream" ELSE "primary",
                      status |-> 0, in |-> p, admit |-> KeyEnabled(p),
                      tokens |-> 0, resp |-> None, tier |-> "none"]
    OBVIOUS
  <2>2. ~Recorded(v) /\ req' = [req EXCEPT ![r] = v]
    BY <1>8, <2>1 DEF Dispatch, Recorded
  <2>3. usage' = usage /\ crashes' = crashes
    BY <1>8 DEF Dispatch, envVars
  <2> QED BY <1>1, <2>2, <2>3, UnrecordedMatches
<1> QED BY <1>4, <1>5, <1>6, <1>7, <1>8 DEF Arrive

LEMMA CallEndsMatches ==
    ASSUME Typed, NEW k \in Keys, Matches(k), NEW r \in Requests, CallEnds(r)
    PROVE  Matches(k)'
<1>1. req[r].phase \in Waiting
    BY DEF CallEnds, Answer, FailOver, UpstreamFails, FallbackUnconfigured,
           AdapterBreaks, StreamEnd, StreamFails, Disconnect, HasFallback
<1>2. ~Recorded(req[r]) /\ req[r].in.key \in Keys
    BY <1>1, WaitingOK, NotRecordedYet
<1>3. ASSUME NEW t \in Nat, NEW c \in Nat, NEW audited \in BOOLEAN,
             Settle(req[r].in.key, t, c, FALSE, audited, AllCommits),
             NEW v, Recorded(v), v.tokens = t, v.in = req[r].in,
             req' = [req EXCEPT ![r] = v], crashes' = crashes
      PROVE  Matches(k)'
  <2>2. PICK done \in 1..AllCommits : done = AllCommits
    BY DEF AllCommits
  <2>4. PICK hit \in BOOLEAN : hit = FALSE
    OBVIOUS
  <2>5. Settle(req[r].in.key, t, c, hit, audited, done)
    BY <1>3, <2>2, <2>4
  <2>6. PICK key \in Keys : key = req[r].in.key /\ Bills(key, t)
    BY <1>2, <2>5, SettleBills
  <2>7. IsRecord(v, key, t)
    BY <1>3, <2>6 DEF IsRecord
  <2> QED BY <1>2, <1>3, <2>6, <2>7, RecordedMatches
<1>4. ASSUME NEW status, status # 200, usage' = usage, crashes' = crashes,
             req' = [req EXCEPT ![r] = Ended(req[r].in, status)]
      PROVE  Matches(k)'
  <2>1. PICK v : v = Ended(req[r].in, status)
    OBVIOUS
  <2>2. ~Recorded(v)
    BY <1>4, <2>1, EndedNotRecorded
  <2> QED BY <1>2, <1>4, <2>1, <2>2, UnrecordedMatches
<1>5. ASSUME NEW tokens \in 0..MaxTokens, NEW counted \in BOOLEAN,
             Answer(r, tokens, counted)
      PROVE  Matches(k)'
  <2>1. tokens \in Nat /\ CostOf(UsedModel(r), tokens) \in Nat
    BY <1>1, WaitingOK, CostType, MaxTokensType
  <2>2. PICK t \in Nat : t = tokens
    BY <2>1
  <2>3. PICK c \in Nat : c = CostOf(UsedModel(r), tokens)
    BY <2>1
  <2>4. PICK resp : resp = [by |-> r,
                            upstream |-> Routes[UsedModel(r)].upstream,
                            counted |-> counted]
    OBVIOUS
  <2>5. PICK audited \in BOOLEAN : audited = TRUE
    OBVIOUS
  <2>6. PICK status \in AnswerStatuses(r, resp) :
           req' = [req EXCEPT ![r] = Answered(req[r].in, status, req[r].admit,
                                              t, resp, "miss")]
    BY <1>5, <2>2, <2>4 DEF Answer
  <2>7. PICK v : v = Answered(req[r].in, status, req[r].admit, t, resp, "miss")
    OBVIOUS
  <2>8. Recorded(v) /\ v.tokens = t /\ v.in = req[r].in
    BY <2>7 DEF AnswerStatuses, Answered, Recorded
  <2>9. /\ Settle(req[r].in.key, t, c, FALSE, audited, AllCommits)
        /\ crashes' = crashes
    BY <1>5, <2>2, <2>3, <2>5 DEF Answer, envVars
  <2>10. req' = [req EXCEPT ![r] = v]
    BY <2>6, <2>7
  <2> QED BY <1>3, <2>8, <2>9, <2>10
<1>6. ASSUME NEW tokens \in 0..MaxTokens, StreamEnd(r, tokens)
      PROVE  Matches(k)'
  <2>1. tokens \in Nat /\ CostOf(PostModel(req[r].in), tokens) \in Nat
    BY <1>1, WaitingOK, CostType, MaxTokensType
  <2>2. PICK t \in Nat : t = tokens
    BY <2>1
  <2>3. PICK c \in Nat : c = CostOf(PostModel(req[r].in), tokens)
    BY <2>1
  <2>4. PICK audited \in BOOLEAN : audited = FALSE
    OBVIOUS
  <2>5. PICK v : v = Answered(req[r].in, 200, FALSE, t, None, "miss")
    OBVIOUS
  <2>6. /\ Settle(req[r].in.key, t, c, FALSE, audited, AllCommits)
        /\ req' = [req EXCEPT ![r] = v] /\ crashes' = crashes
    BY <1>6, <2>2, <2>3, <2>4, <2>5 DEF StreamEnd, envVars
  <2>7. Recorded(v) /\ v.tokens = t /\ v.in = req[r].in
    BY <2>5 DEF Answered, Recorded
  <2> QED BY <1>3, <2>6, <2>7
<1>7. CASE FailOver(r)
  <2>1. PICK v : v = [req[r] EXCEPT !.phase = "fallback"]
    OBVIOUS
  <2>2. req' = [req EXCEPT ![r] = v]
    BY <1>7, <2>1 DEF FailOver, Typed, TypeOK
  <2>3. ~Recorded(v)
    BY <1>2, <2>1 DEF Recorded, Typed, TypeOK, Request
  <2> QED BY <1>2, <1>7, <2>2, <2>3, UnrecordedMatches
          DEF FailOver, storeVars, envVars
<1>8. CASE UpstreamFails(r)
  <2>1. PICK status : status = FailureStatus(r)
    OBVIOUS
  <2>2. status # 200 /\ usage' = usage /\ crashes' = crashes
    BY <1>8, <2>1 DEF UpstreamFails, FailureStatus, storeVars, envVars
  <2>3. req' = [req EXCEPT ![r] = Ended(req[r].in, status)]
    BY <1>8, <2>1 DEF UpstreamFails
  <2> QED BY <1>4, <2>2, <2>3
<1>9. CASE FallbackUnconfigured(r) \/ AdapterBreaks(r)
  <2>1. usage' = usage /\ crashes' = crashes
    BY <1>9 DEF FallbackUnconfigured, AdapterBreaks, storeVars, envVars
  <2>2. PICK status : status = 500
    OBVIOUS
  <2>3. req' = [req EXCEPT ![r] = Ended(req[r].in, status)] /\ status # 200
    BY <1>9, <2>2 DEF FallbackUnconfigured, AdapterBreaks
  <2> QED BY <1>4, <2>1, <2>3
<1>10. CASE StreamFails(r) \/ Disconnect(r)
    BY <1>4, <1>10 DEF StreamFails, Disconnect, Cancelled, storeVars, envVars
<1> QED BY <1>5, <1>6, <1>7, <1>8, <1>9, <1>10 DEF CallEnds

LEMMA NextMatches ==
    ASSUME Typed, NEW k \in Keys, Matches(k), [Next]_vars
    PROVE  Matches(k)'
<1>1. ASSUME NEW r \in Requests, StreamChunk(r)
      PROVE  Matches(k)'
  <2>1. PICK v : v = [req[r] EXCEPT !.tokens = @ + 1]
    OBVIOUS
  <2>2. ~Recorded(req[r])
    BY <1>1, NotRecordedYet DEF StreamChunk
  <2>3. req' = [req EXCEPT ![r] = v]
    BY <1>1, <2>1 DEF StreamChunk, Typed, TypeOK
  <2>4. ~Recorded(v)
    BY <2>1, <2>2 DEF Recorded, Typed, TypeOK, Request
  <2> QED BY <1>1, <2>2, <2>3, <2>4, UnrecordedMatches
          DEF StreamChunk, storeVars, envVars
<1>2. ASSUME NEW r \in Requests, NEW tokens \in 0..MaxTokens,
             NEW done \in 1..(AllCommits - 1),
             CrashWhileRecording(r, tokens, done)
      PROVE  Matches(k)'
  <2> DEFINE c == CostOf(UsedModel(r), tokens)
  <2>1. req[r].phase \in Waiting /\ LoseProcess
    BY <1>2 DEF CrashWhileRecording
  <2>2. tokens \in Nat /\ req[r].in.key \in Keys
    BY <2>1, WaitingOK, MaxTokensType
  <2>3. c \in Nat
    BY <2>1, <2>2, WaitingOK, CostType
  <2>4. PICK hit \in BOOLEAN, audited \in BOOLEAN :
            hit = FALSE /\ audited = (req[r].phase # "stream")
    OBVIOUS
  <2>5. done \in 1..AllCommits
    BY DEF AllCommits
  <2>6. Settle(req[r].in.key, tokens, c, hit, audited, done)
    BY <1>2, <2>4 DEF CrashWhileRecording
  <2> HIDE DEF c
  <2>7. Bills(req[r].in.key, tokens)
    BY <2>2, <2>3, <2>5, <2>6, SettleBills
  <2> QED BY <2>1, <2>2, <2>7, RestartMatches
<1>3. ASSUME NEW r \in Requests, RequestStep(r)
      PROVE  Matches(k)'
    BY <1>1, <1>2, <1>3, ArriveMatches, CallEndsMatches DEF RequestStep
<1>4. CASE Crash
    BY <1>4, RestartMatches DEF Crash
<1>5. CASE \/ \E j \in Keys : \E row \in KeyRows[j] : SetKey(j, row)
           \/ Tick \/ ClearCaches \/ UNCHANGED vars
  <2>1. req' = req /\ usage' = usage /\ crashes' = crashes
    BY <1>5 DEF SetKey, UpsertKey, Tick, ClearCaches, vars, storeVars, envVars
  <2>2. RecordedFor(k)' = RecordedFor(k)
    BY <2>1 DEF RecordedFor, PaidInVain
  <2> QED BY <2>1, <2>2, QuietMatches
<1> QED BY <1>3, <1>4, <1>5 DEF Next

(***************************************************************************)
(* Why a recorded request may fail.                                        *)
(***************************************************************************)
LEMMA SetExcused ==
    ASSUME Typed, NEW r \in Requests, NEW v, req' = [req EXCEPT ![r] = v],
           Excused(v), NEW s \in Requests, Excused(req[s])
    PROVE  Excused(req'[s])
BY DEF Typed, TypeOK

LEMMA EndedExcused ==
    ASSUME Typed, NEW r \in Requests, NEW p, NEW status,
           req' = [req EXCEPT ![r] = Ended(p, status)], NEW s \in Requests,
           Excused(req[s])
    PROVE  Excused(req'[s])
<1>1. PICK v : v = Ended(p, status)
    OBVIOUS
<1>2. Excused(v)
    BY <1>1 DEF Ended, Excused
<1> QED BY <1>1, <1>2, SetExcused

LEMMA AnswerExcused ==
    ASSUME Typed, NEW r \in Requests, NEW tokens, NEW counted,
           Answer(r, tokens, counted), NEW s \in Requests, Excused(req[s])
    PROVE  Excused(req'[s])
<1>1. PICK resp : resp = [by |-> r, upstream |-> Routes[UsedModel(r)].upstream,
                          counted |-> counted]
    OBVIOUS
<1>2. PICK status \in AnswerStatuses(r, resp) :
         req' = [req EXCEPT ![r] = Answered(req[r].in, status, req[r].admit,
                                            tokens, resp, "miss")]
    BY <1>1 DEF Answer
<1>3. PICK v : v = Answered(req[r].in, status, req[r].admit, tokens, resp, "miss")
    OBVIOUS
<1>4. \/ v.status = 200
      \/ req[r].admit /\ ~req[r].in.ttl_ok
      \/ ~resp.counted
    BY <1>2, <1>3 DEF AnswerStatuses, Answered
<1>5. v.admit = req[r].admit /\ v.in = req[r].in /\ v.resp = resp
    BY <1>3 DEF Answered
<1>6. Excused(v)
    BY <1>4, <1>5 DEF Excused
<1> QED BY <1>2, <1>3, <1>6, SetExcused

LEMMA NextExcused ==
    ASSUME Typed, [Next]_vars, NEW s \in Requests, Excused(req[s])
    PROVE  Excused(req[s])'
<1>1. ASSUME req' = req PROVE Excused(req'[s])
    BY <1>1
<1>2. ASSUME NEW r \in Requests, NEW p \in Payloads, Arrive(r, p)
      PROVE  Excused(req'[s])
  <2>1. CASE Refuse(r, p) \/ RejectOverBudget(r, p) \/ RefuseDispatch(r, p)
    BY <2>1, EndedExcused DEF Refuse, RejectOverBudget, RefuseDispatch
  <2>2. CASE HitL1(r, p) \/ HitL2(r, p)
    <3>1. PICK v : Excused(v) /\ req' = [req EXCEPT ![r] = v]
      BY <2>2 DEF HitL1, HitL2, ServeHit, Answered, Ended, Excused
    <3> QED BY <3>1, SetExcused
  <2>3. CASE Dispatch(r, p)
    <3>1. PICK v : v = [phase |-> IF p.stream THEN "stream" ELSE "primary",
                        status |-> 0, in |-> p, admit |-> KeyEnabled(p),
                        tokens |-> 0, resp |-> None, tier |-> "none"]
      OBVIOUS
    <3>2. req' = [req EXCEPT ![r] = v]
      BY <2>3, <3>1 DEF Dispatch
    <3>3. Excused(v)
      BY <3>1 DEF Excused
    <3> QED BY <3>2, <3>3, SetExcused
  <2> QED BY <1>2, <2>1, <2>2, <2>3 DEF Arrive
<1>3. ASSUME NEW r \in Requests, NEW v, req' = [req EXCEPT ![r] = v],
             v.tier = req[r].tier, req[r].phase # "done"
      PROVE  Excused(req'[s])
  <2>1. Excused(v)
    BY <1>3, NotRecordedYet DEF Excused
  <2> QED BY <1>3, <2>1, SetExcused
<1>4. ASSUME NEW r \in Requests, CallEnds(r)
      PROVE  Excused(req'[s])
  <2>1. CASE FailOver(r)
    <3>1. PICK v : v = [req[r] EXCEPT !.phase = "fallback"]
      OBVIOUS
    <3>2. /\ req' = [req EXCEPT ![r] = v] /\ v.tier = req[r].tier
          /\ req[r].phase # "done"
      BY <2>1, <3>1 DEF FailOver, HasFallback, Typed, TypeOK, Request
    <3> QED BY <1>3, <3>2
  <2>2. ASSUME NEW tokens, NEW counted, Answer(r, tokens, counted)
        PROVE  Excused(req'[s])
    BY <2>2, AnswerExcused
  <2>3. ASSUME NEW tokens, StreamEnd(r, tokens)
        PROVE  Excused(req'[s])
    <3>1. PICK v : v = Answered(req[r].in, 200, FALSE, tokens, None, "miss")
      OBVIOUS
    <3>2. req' = [req EXCEPT ![r] = v]
      BY <2>3, <3>1 DEF StreamEnd
    <3>3. Excused(v)
      BY <3>1 DEF Answered, Excused
    <3> QED BY <3>2, <3>3, SetExcused
  <2>4. CASE \/ UpstreamFails(r) \/ FallbackUnconfigured(r) \/ StreamFails(r)
             \/ Disconnect(r) \/ AdapterBreaks(r)
    BY <2>4, EndedExcused DEF UpstreamFails, FallbackUnconfigured,
       StreamFails, Disconnect, AdapterBreaks
  <2> QED BY <1>4, <2>1, <2>2, <2>3, <2>4 DEF CallEnds
<1>5. ASSUME NEW r \in Requests, StreamChunk(r)
      PROVE  Excused(req'[s])
  <2>1. PICK v : v = [req[r] EXCEPT !.tokens = @ + 1]
    OBVIOUS
  <2>2. /\ req' = [req EXCEPT ![r] = v] /\ v.tier = req[r].tier
        /\ req[r].phase # "done"
    BY <1>5, <2>1 DEF StreamChunk, Typed, TypeOK, Request
  <2> QED BY <1>3, <2>2
<1>6. ASSUME LoseProcess PROVE Excused(req'[s])
  <2>1. CASE req[s].phase \in Waiting
    <3>1. req'[s] = Ended(req[s].in, Lost)
      BY <1>6, <2>1 DEF LoseProcess
    <3> QED BY <3>1 DEF Ended, Excused
  <2>2. CASE req[s].phase \notin Waiting
    BY <1>6, <2>2 DEF LoseProcess
  <2> QED BY <2>1, <2>2
<1>7. ASSUME NEW r \in Requests, RequestStep(r)
      PROVE  Excused(req'[s])
    BY <1>2, <1>4, <1>5, <1>6, <1>7 DEF RequestStep, CrashWhileRecording
<1>8. CASE \/ \E k \in Keys : \E row \in KeyRows[k] : SetKey(k, row)
           \/ Tick \/ ClearCaches \/ Crash \/ UNCHANGED vars
    BY <1>1, <1>6, <1>8 DEF SetKey, Tick, ClearCaches, Crash, vars
<1>9. Excused(req'[s])
    BY <1>7, <1>8 DEF Next
<1> QED BY <1>9 DEF Excused

LEMMA NextBill == BillInv /\ [Next]_vars => BillInv'
BY NextTyped, NextExcused, NextMatches DEF BillInv

LEMMA InitBill == Init => BillInv
<1> SUFFICES ASSUME Init PROVE BillInv
    OBVIOUS
<1>1. /\ \A r \in Requests : Excused(req[r])
      /\ \A k : RecordedFor(k) = {}
    BY DEF Init, NewRequest, Excused, RecordedFor, PaidInVain
<1>2. ASSUME NEW k \in Keys PROVE Matches(k)
  <2>1. Billed(k) = 0 /\ Cardinality(RecordedFor(k)) = 0
    BY <1>1, TokensOfNone, FS_EmptySet DEF Billed
  <2>2. 0 * MaxTokens = 0
    BY MaxTokensType
  <2> QED BY <2>1, <2>2 DEF Init, NoUsage, Matches
<1> QED BY <1>1, <1>2, InitTyped DEF BillInv

(***************************************************************************)
(* For every instance: however requests, failures, cancellations and       *)
(* restarts interleave, the usage row of a key is the sum over the         *)
(* requests it had answered and those that failed once they were recorded, *)
(* exactly so until the process first dies, and afterwards ahead of it by  *)
(* at most one request, with the tokens of one answer, for each restart.   *)
(* A request fails after it was recorded in two ways only: its ttl is no   *)
(* number and its answer was to be cached, or the usage in it is null.     *)
(***************************************************************************)
THEOREM UsageIsAnswers == Spec => []UsageMatchesAnswers
<1>1. BillInv => UsageMatchesAnswers
    BY DEF BillInv, Matches, Billed, Excused, PaidInVain, UsageMatchesAnswers
<1> QED BY <1>1, InitBill, NextBill, PTL DEF Spec
=============================================================================
