-------------------------- MODULE GatewayProperties --------------------------
(***************************************************************************)
(* What the request pipeline promises, and what its documentation promises *)
(* that it does not keep.                                                  *)
(***************************************************************************)
EXTENDS Gateway, Totals

\* The values of every variable: the tables of the store, the requests and
\* the two caches.
TypeOK ==
    /\ StoreTypeOK
    /\ req \in [Requests -> Request]
    /\ l1 \in [CacheKey -> L1Entry \cup {None}]
    /\ l2 \subseteq [ns : {Namespace(p) : p \in Payloads}, prompt : Prompts,
                     resp : Response, created : Nat, ttl : Nat]
    /\ now \in Nat /\ crashes \in Nat
    /\ peak \in [Keys -> Nat]

\* Requests whose client got an error although its answer was recorded.
PaidInVain(r) == req[r].status = 500 /\ req[r].tier = "miss"

RecordedFor(k) ==
    {r \in Requests : (req[r].status = 200 \/ PaidInVain(r)) /\ req[r].in.key = k}

TokensOf(S) == SumOver([r \in Requests |-> req[r].tokens], S)

(***************************************************************************)
(* Usage and logs.                                                         *)
(***************************************************************************)
\* "Concurrent requests can't lose increments" (store.py): the usage row of a
\* key is the sum over the requests it had answered, and over those that failed
\* after they were recorded, for a ttl that is no number or a usage that is
\* null; those refused before, failed or cancelled add nothing, a cache hit
\* adds a request and no tokens.  A crash may leave one recorded request
\* unanswered.
UsageMatchesAnswers ==
    /\ \A k \in Keys :
          LET tokens == TokensOf(RecordedFor(k))
          IN  /\ usage[k].requests - Cardinality(RecordedFor(k)) \in 0..crashes
              /\ usage[k].total_tokens - tokens \in 0..(crashes * MaxTokens)
    /\ \A r \in Requests : PaidInVain(r) =>
          \/ req[r].admit /\ ~req[r].in.ttl_ok
          \/ ~req[r].resp.counted

\* record_usage is committed before store.log_request and that before
\* supadb.log_request: no log ever claims a request, a token or a cost that
\* usage lacks, and usage is ahead by at most one request per crash.
LogFollowsUsage ==
    \A k \in Keys :
        /\ audit[k].ok <= log[k].ok /\ log[k].ok <= usage[k].requests
        /\ audit[k].tokens <= log[k].tokens
        /\ log[k].tokens <= usage[k].total_tokens
        /\ audit[k].cost <= log[k].cost /\ log[k].cost <= usage[k].cost_usd
        /\ usage[k].requests - log[k].ok <= crashes
        /\ usage[k].total_tokens - log[k].tokens <= crashes * MaxTokens

\* Recorded usage survives restarts, logins and re-seeded keys.
UsageNeverDecreases ==
    [][\A k \in Keys :
          /\ usage'[k].requests >= usage[k].requests
          /\ usage'[k].total_tokens >= usage[k].total_tokens
          /\ usage'[k].cost_usd >= usage[k].cost_usd]_vars

\* Every answer stays within the projection it was admitted with.
ProjectionHolds == \A q \in Prompts : EstTokens[q] >= MaxTokens

\* cap is a token cap at least as high as any the key has ever had.
CappedBy(k, cap) ==
    \A row \in KeyRows[k] : row.max_tokens # NoCap /\ row.max_tokens <= cap

\* The pre-flight check reserves nothing, so concurrent requests of a key may
\* overrun its token cap; by how much: with at most n in flight at once, by at
\* most n - 1 answers.  Requests sent one after the other never overrun it.
OvershootBounded ==
    ProjectionHolds =>
        \A k \in Keys : \A row \in KeyRows[k] :
            CappedBy(k, row.max_tokens) =>
                \/ usage[k].total_tokens = 0
                \/ /\ peak[k] > 0
                   /\ usage[k].total_tokens <=
                          row.max_tokens + (peak[k] - 1) * MaxTokens

(***************************************************************************)
(* Caches.                                                                 *)
(***************************************************************************)
FromCache(r) == req[r].tier \in {"l1", "l2"}

Producer(resp) == req[resp.by]

\* A response another request may be given: its own request was answered by a
\* provider and recorded, and both request and key allowed caching.
Shareable(resp) ==
    /\ Producer(resp).status = 200 \/ PaidInVain(resp.by)
    /\ Producer(resp).tier = "miss" /\ Producer(resp).admit
    /\ ~Producer(resp).in.no_store /\ ~Producer(resp).in.stream

\* Nothing is cached, or served from a cache, but complete answers that were
\* recorded as usage, even if their own client got an error for them; X-Cache:
\* no-store and streaming keep a request out of the caches in both directions.
CachesHoldPaidAnswers ==
    /\ \A c \in CacheKey : l1[c] # None => Shareable(l1[c].resp)
    /\ \A e \in l2 : Shareable(e.resp)
    /\ \A r \in Requests : FromCache(r) =>
          /\ Shareable(req[r].resp)
          /\ ~req[r].in.no_store /\ ~req[r].in.stream

\* Namespace isolation of the semantic cache: a semantic hit was produced in the
\* same namespace (the hash of team, provider family, system prompt and
\* temperature bucket), for a prompt at least as similar as the base threshold.
SemanticHitsStayInNamespace ==
    \A r \in Requests : req[r].tier = "l2" =>
        LET p == req[r].in
            q == Producer(req[r].resp).in
        IN  /\ Namespace(q) = Namespace(p)
            /\ Similarity[p.prompt][q.prompt] >= Tau

(***************************************************************************)
(* Progress.                                                               *)
(***************************************************************************)
\* A request that reached a provider ends, however often providers fail: the
\* fallback is tried once.
EveryCallEnds ==
    \A r \in Requests : req[r].phase \in Waiting ~> req[r].phase = "done"

(***************************************************************************)
(* Promised by the documentation and not kept by the code.                 *)
(***************************************************************************)
\* README, Architecture: the model is authorised against the key's allow-list
\* before the provider is called.
DispatchedModelPermitted ==
    \A r \in Requests : req[r].phase \in {"primary", "stream"} =>
        Permits(api_keys[req[r].in.key], UsedModel(r))

\* README, Caching: the cache key is made of the upstream model, the messages
\* and the sampling parameters of the cached response.
CacheKeyNamesProducer ==
    \A c \in CacheKey : l1[c] # None => l1[c].resp.upstream = c[1]
=============================================================================
