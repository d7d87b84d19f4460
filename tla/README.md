# A specification of the LLM gateway

The repository is a gateway between chat clients and language-model providers. Clients hold
*virtual keys*; the gateway authenticates a key, authorises the model it asks for, answers from one
of two caches when it can, checks the key's budget, calls a provider (with one fallback), and
records what was used. People register as employees of teams and get such keys; operators save
provider keys, read the ledger and mark wrong answers. This directory specifies it in TLA+,
model-checks small instances with TLC and proves the main safety properties for all instances with
TLAPS.

Paths below are relative to the repository; the package is `src/llm_gateway/`.

## 1. The system

| Component | State | Operations | Talks to |
|---|---|---|---|
| Request pipeline (`gateway.py`, `app.py`) | none of its own; a coroutine per request | `chat_completion`, `chat_completion_stream`, `_call_with_fallback`, `require_key` | every other part, by calls |
| Key and usage store (`store.py`) | SQLite tables `api_keys`, `usage`, `request_log` | `upsert_key`, `would_exceed_budget`, `record_usage`, `log_request` | pipeline, accounts, ledger (same connection) |
| Exact-match cache, L1 (`cache.py`) | response by cache key, with expiry | `get`, `set`, `clear` | pipeline |
| Semantic cache, L2 (`semantic_cache.py`, `namespace.py`) | vector index, `_id_map`, `_entries`, `_vectors`, threshold | `lookup`, `admit`, `evict`, `simulate_age`, `purge_expired`, `clear` | pipeline, admin endpoints |
| Provider adapters (`providers/`) | none | `chat`, `stream_chat` | upstream HTTP services |
| Routing (`config.py`, `gateway.py`, `complexity_router.py`, `prompt_pruner.py`) | routes, aliases | `route_for`, `_resolve_auto_model`, `ComplexityRouter.score`, `prune` | pipeline |
| Accounts (`supadb.py`, `app.py`, `cli.py`) | `teams`, `employees`, owners of `api_keys` | register, login, create-key, create and update teams | store (a key per employee) |
| Ledger and metrics (`supadb.py`, `metrics.py`) | second writer of `request_log`, marks on it, Supabase key | `log_request`, `update_feedback`, `get_ledger`, metrics, sync | store's connection, Supabase |
| JTF codec (`_vendor/jtf`, `jtf_ops.py`) | none | `encode`, `decode`, `analyze_messages`, `compress_messages` | pipeline |
| Pricing and token counting (`pricing.py`, `tokens.py`) | price table | `cost_usd`, `count_prompt_tokens` | pipeline, budget |
| HTTP surface, stream framing (`app.py`, `schemas.py`) | none | endpoints, SSE frames | clients |
| Configuration and saved provider keys (`config.py`, `app.py`, `supadb.py`) | config object, environment, `.env` | `load_config`, `resolved_key`, `api_save_keys`, `persist_env_vars` | routing, adapters |
| Dashboard, benchmark | none | static page, a script | – |

### What is hard here

* **One event loop, many requests.** Code between two `await`s is atomic. The only awaits of a
  request are its provider call and the writes of its stream, so *everything decided before the
  provider call is old when the answer comes*: the budget check (`gateway.py:519`), the cache key
  (`gateway.py:315`), the opt-outs (`gateway.py:330`), the authorisation (`gateway.py:306`).
* **Three commits per answer.** `record_usage`, `Store.log_request` and `SupaDB.log_request` are
  separate transactions; a process may die between any two. What comes after them may still fail: the
  `ttl_seconds` of the request, which nothing has validated, is converted once the answer is billed,
  logged and in the L1 cache (`gateway.py:637`).
* **Ways a call ends.** An answer; a `ProviderError`, with or without a fallback, whose own error is
  not caught; any other exception of an adapter, possibly after the provider did its work; an answer
  that is recorded and then fails; a stream that ends with or without a usage chunk, fails, or is left
  by its client.
* **The vector index.** A search returns row numbers, over all namespaces at once and bounded by
  `k_neighbors`; rows lead to entries only through `_id_map`, which evictions and purges rebuild.
* **Writers of a key's row.** Start-up seeding, logins, registrations, the command line and
  `require_key` itself all upsert the limits of a key that already has usage.

* **One log, two writers.** `Store.log_request` and `SupaDB.log_request` insert into the same
  `request_log` with alternating ids; feedback, pages, spend and metrics read rows of both.
* **Identity.** One person types an address in several spellings, registers twice, changes team, or
  meets a process that died half-way through a registration.
* **Where a provider key comes from.** `config.yaml`, shell, `.env` and run-time saves override each
  other in one order while the service runs and in another after a restart; the `.env` that is
  written is found from the working directory, the one that is read from the package.
* **Two readers of one stream.** Gateway and framing combine the token counts of the same chunks in
  different ways, and the first chunk is fetched before the response starts.
* **A decoder of hand-written scanners.** The codec quotes strings by one set of rules and reads them
  back by another, at four kinds of places (object lines, inline arrays, table cells, dash items), and
  compression splices blocks into prompts by positions found earlier.

What makes each part correct: usage is the sum of what was answered, or recorded before it failed,
and survives restarts; logs never claim what usage lacks; a budget is exceeded by no more
than the requests in flight explain; caches hold only complete, paid-for answers of requests that
allowed caching; the semantic cache answers within its namespace and threshold, and behaves like a
set of entries; a call that reached a provider ends. A person has one account, one key and the usage
that belongs to it; the key names the present team. A mark lands on the row that the metrics read;
a team's spend is what was answered for it; pages skip nothing. The key in force is the one the
operator saved last; an automatic request goes to a model that can answer, and never to the cheap
tier with code. What a stream shows is what is billed, and what the provider said where the adapter
reads it. A compressed document reads back as itself, and
nothing around it moves.

## 2. Modules

| Module | Models |
|---|---|
| `Store` | the tables and transactions of `store.py`, and `SupaDB.log_request` as second writer |
| `SemanticLookup` | what one `SemanticCache.lookup` may answer over a set of entries |
| `Gateway` | the request pipeline over `Store`, the L1 cache and `SemanticLookup` |
| `GatewayProperties`, `MCGateway` | its properties; its small instances |
| `SemanticStore` | abstract semantic cache: a set of entries and best-match lookups |
| `SemanticCache`, `MCSemanticCache` | the semantic cache with index, id map, entries and vectors; its instance |
| `Totals`, `Totals_proofs` | sums over finite sets, of requests or of rows; their laws |
| `Gateway_proofs` | type correctness and what the steps of the pipeline have in common; what the two caches hold and serve; usage as the sum of the recorded answers; the bound on the budget overshoot; the order of usage, request log and audit log |
| `SemanticCache_proofs` | the tables of the semantic cache agree; what the bounded search promises; the refinement |
| `Accounts`, `MCAccounts` | employees, teams and owners of keys, over `Store`; its instance |
| `Accounts_proofs` | types, one account per address, keys and usage that follow their employees |
| `Ledger`, `MCLedger` | `request_log` row by row with feedback, pages, spend, metrics; its instance |
| `Ledger_proofs` | types, the completeness of reading by pages, spend and precision |
| `JTFTokens` | the codec's tokens and lines: how a string, a key, a line is written, with the value dictionary, and the scanners that read them, as operators over glyphs |
| `JTF` | the codec's documents: the encoder's blocks and the decoder's recursive parsers |
| `Compression` | the scan of prompts, their opt-in compression and the reader upstream, for any codec |
| `CompressionOfJSON`, `MCCompression` | the same with the codec of `JTF`; small documents and prompts |
| `Compression_proofs` | what compression leaves alone, the floor under its savings, and what the codec's tokens and lines read back as |
| `Routing`, `MCRouting` | provider keys, readiness, automatic resolution, tiers; the shipped configuration in small |
| `Routing_proofs` | types, the key in force, tiers of pruned prompts, where automatic requests go |
| `Streams` | one stream from provider lines to client frames |
| `Calls`, `MCStreams` | single answers next to streams: the usage an adapter takes, the gateway bills and caches, a hit reads again; their instance |
| `Streams_proofs` | what is shown, billed, delivered and logged of a stream, and saved by a hit |

`Gateway` EXTENDS `Store` and `SemanticLookup`, `Calls` EXTENDS `Streams`,
`JTF` EXTENDS `JTFTokens`, `CompressionOfJSON` EXTENDS `Compression` and `JTF`, whose operators its
configurations give to the constants of `Compression`; `SemanticCache` implements `SemanticStore` through
`INSTANCE SemanticStore WITH entries <- {entries[i] : i \in Stored}`, and both take the same
`SemanticLookup`, which is how the pipeline's set of L2 entries is justified. `GatewayProperties`
and `Ledger` take their sums from `Totals`.

### State

`api_keys`, `usage` are the tables. `request_log` is kept as totals per key (rows with status 200,
402, failed; their tokens and cost), one record per writer: `log` (`Store`) and `audit` (`SupaDB`).
`req[r]` is the coroutine of request `r`: where it waits (`primary`, `fallback`, `stream`), its
payload, whether its answer may be cached (`admit`), what it was billed, the response it returned
(`resp`, which also tells whether its usage is an object or `null`) and the cache tier. `l1` maps
cache keys to entries, `l2` is the set of semantic entries. `now` is the clock, `crashes` the number
of restarts. `peak` (most requests in flight at once) is a history variable; no guard reads it.

`Accounts` keeps `employees` by id, `teams`, and per key the employee and team it names, next to the
`api_keys` and `usage` of `Store`. `Ledger` keeps `rows` as a sequence, whose index is the row id;
`served` and `reader` are what clients hold: the answers with
the ids they carry, and how far one of them has paged. `Routing` keeps what each layer
says of a key (`literal` of the configuration in memory, `env`, and the `.env` file in each
directory, `files`), where the process was started (`cwd`) and which file it read (`loaded`), with
`saved`, `fresh`, `filed` and `torn` as history. `Streams` keeps the local state of the three parts a chunk passes
(`adapter`, `recorder`, `framing`), the chunk on its way, and what the client got; `said` is history.
`Calls` adds the cached answer (`cached`, with what it was billed and what the provider reported, as
history) and what became of the last single call (`outcome`).
`Compression` follows one request: its messages, what the scan found, what is forwarded and what a
JTF-aware reader makes of it.

### Actions of the pipeline

`Refuse`, `HitL1`, `HitL2`, `RejectOverBudget`, `RefuseDispatch` and `Dispatch` are the arrival step:
`require_key` and all of `chat_completion` up to the provider call, split by where it returns.
`Answer`, `FailOver`, `UpstreamFails`, `FallbackUnconfigured` and `AdapterBreaks` are the outcomes
of the awaited call; `Answer` does everything after it: cost, usage, both logs, both caches, and the
status, which is a 500 when the `ttl_seconds` of an answer to be cached is no number (the L1 entry is
there by then, the L2 entry not) or when `/v1/chat/completions` copies a usage that is `null`.
`StreamChunk`, `StreamEnd`, `StreamFails` and `Disconnect` are `chat_completion_stream` between its
yields. `Tick`, `ClearCaches`, `SetKey`, `Crash` and `CrashWhileRecording` are the environment; a
restart loses coroutines and caches, keeps committed tables and seeds the configured keys again.

### Actions of the other modules

* `Accounts`: `RegisterNew`, `RegisterAgain`, `Login`, `CliUpsert`, `CreateTeam`, `UpdateTeam` are
  one handler each and `Restart` the seeding; `Serve` stands for an answered request. In
  `RegisterNew` and `RegisterAgain`, `upserted = FALSE` is `upsert_key` failing after
  `register_employee` has committed.
* `Ledger`: `Serve`, `ServeStream`, `RejectOverBudget`, `StreamFails` insert the rows of a request
  (one or two, or only the first when the process dies between the commits), `Feedback` marks a
  row, `ReadPage` and `ReadAgain` are a client paging through `/api/ledger`.
* `Routing`: `SaveKeys` is `POST /api/config/keys` with a write of `.env` that may fail,
  `DieWhileSaving` a process that dies between opening the file and writing it, `Restart` a start in
  any of the directories the service is started in, `AutoRequest` both resolutions of the automatic
  alias.
* `Streams`: `ReadLine` and `EndOfBody` are the adapter up to its next yield, `SendText`, `Record`,
  `SendFinal`, `SendDone` the framing between its frames, `Fail`, `AdapterBreaks` and `Disconnect`
  the other ends of a call.
* `Calls`: `Ask` is a single call the caches do not answer, from the provider's answer to the
  response, through one of the two endpoints; `Hit` one that either cache answers; `Forget` whatever
  empties the caches.
* `Compression`: `Analyze`, `Compress` (if `X-JTF-Compress` asks for it) and `Forward`.

### What is abstracted

* A request body (messages and sampling parameters) is one `prompt`; responses are named by the
  request and the upstream model that produced them. Similarities are integers `0..Scale`;
  negative ones reach no threshold.
* `Namespace` is an arbitrary function `Hash` of team, provider family and context. The code joins
  the parts by `||`, which is not injective, so nothing assumes that `Hash` is.
* The tier a prompt scores before and after pruning, prices and projected tokens are constants. The
  model a pruned prompt resolves to is assumed to be routed.
* What a request is billed is any number up to `MaxTokens`: what the provider reported or what the
  adapter estimates where a count is missing or zero, the two are told apart in `Streams` and `Calls`.
* A `ttl_seconds` is a number or not (`ttl_ok`); all that are numbers are one (`L2Ttl`).
* 502 stands for the status a `ProviderError` carries.
* A client can leave a stream only after the first chunk: `chat_completions` awaits the first frame
  (`app.py:338`) before it returns the streaming response.
* The threshold is a constant of `Gateway`; that a pipeline request sets it for everybody
  (`app.py:494`) is `SetTau` of `SemanticCache`.
* A crash while a cache hit or a 402 is recorded is left out: it loses what `CrashWhileRecording`
  loses, with no tokens. Redis is an external service with the interface of `InMemoryCache`.
  `last_used_at` of an entry is read by a listing only.
* `Accounts`: passwords are values with an injective hash; addresses are values with the two foldings
  the code applies (`LOWER` of SQLite, `str.lower` of Python); collisions of generated ids are left
  out, and so is a start-up killed half-way, which the next one repeats. The employee branch of
  `require_key` is not modelled: it runs only if the row of a key was removed from outside.
* `Ledger`: a request is one step with a possible death between its rows; the token-reduction rate
  is left out of the metrics, the others are kept before their divisions.
* `Routing`: the score counts in units of 1/6000, in which its comparisons agree with the code's
  floating point for all values of the signals. What pruning makes of a prompt is given with it: the
  text it keeps, the filler and the blocks it loses, and the signals it adds, by completing a phrase
  that was typed with two blanks or by putting a block back twice (`gained`); only that a prompt of
  filler alone is left as it is, is computed. `Entered` bounds what operators type, `Cwds` where the
  service is started; the directories `load_dotenv` searches are a constant (`Upward`), as the place
  of the package is. Values with line breaks, and the saved Supabase address, are left out.
* `Streams`: a text counts for one token where it is estimated; a frame has one choice; a count
  is absent, null or a number, in any line: of Anthropic's also in the event the adapter does not read
  it from. Lines that are skipped change nothing and are no action. A client that leaves
  is noticed only after the first chunk.
* `Calls`: one answer in the caches; requests that share it may differ in their prompts, hence in
  their estimates. A count is absent, null or a number; a `ttl_seconds` is a
  number or not. How the rest of an answer is translated is left out. A client streams or asks
  for single answers for a whole behaviour (`streams`), for the two share no state here; refusals and failures before the answer are those of `Gateway`.
* `JTFTokens`, `JTF`: a glyph stands for a class of characters the codec tells apart (a punctuation
  mark, a digit, a kind of blank, a short or a long word, the head of a URL, the date of a time
  stamp). Numerals go up to 4: the size of an array and the number of a dictionary entry. Which dictionary entries pay depends
  on token counts and is left open: `BuildDictionary` yields every dictionary the analysis may choose
  among its candidates; strings of digits so long that they enter it too (`_vendor/jtf/cost.py:35`) are
  left out. The operators were compared with the Python functions on 93,250 random
  documents spelt out from glyphs, encoded text and decoded value alike, without a difference.
* `Compression`: a text is a sequence of segments, prose or a JSON document with the token counts of
  its two forms; finding documents in raw text (most of `_iter_json_candidates`, `_balanced_span`) is
  left out. The code marks where a block begins, by a header line, and not where it ends
  (`jtf_ops.py:196-200`): the modelled reader is given the ends, and a reader that had the header only
  would take the prose after a block for lines of it. Savings are as the code counts them, without
  the tokens of that header.

## 3. Runs

| Run | Question | Bounds | Distinct states |
|---|---|---|---|
| `gateway_budget` | Do usage, logs and budget stay right under concurrency, failures and a crash? | 3 interchangeable requests, 1 key, answers of 0–2 tokens, of which some have a null usage, a `ttl_seconds` that is no number, cap 3 lowered to 2, 1 crash | 483,918 |
| `gateway_calls` | What may enter and leave the two caches, and does every call end? | 2 requests, 2 keys, 2 teams, 2 similar prompts, an opt-out, a `ttl_seconds` that is no number, every refusal, fallback chain and failure, L1 and L2 expiry, clear, 1 crash | 231,170 |
| `semantic_refine` | Does the indexed cache implement the set of entries? | 3 ids, 2 namespaces, 2 prompts, search of 2 rows, 2 base thresholds, ages 0–3 of a lifetime of 2, with and without FAISS | 104,180 |
| `accounts_keys` | One account, key and usage per person? | a seeded employee and two registrations, 5 spellings of 3 addresses, team names with a space, 1 request of usage, restarts | 137,472 |
| `ledger_rows` | Do feedback, spend and pages agree with what was served? | 2 interchangeable teams, one kind of call, 4 rows, pages of 2 rows, marks and unmarks | 239,984 |
| `codec_roundtrip` | Does a compressed document read back, and does nothing else of a prompt change? | 41,642 documents: 31 strings and 14 keys, each at every kind of place, two levels of nesting, every dictionary; 1,296 prompts of 4 to 6 segments | 151,427 |
| `routing_keys` | Which key and which model are in force? | 3 saveable providers with keys in `config.yaml`, shell and `.env`, 3 directories of which 2 are searched and in 2 of which the service starts, 7 prompts around both thresholds | 87,074 |
| `streams_frames` | Is what a stream shows what was said and what is billed, and what a hit saves? | 4 adapters, 4 lines of data, counts absent, null, 0, 5 or 7 where they are read and elsewhere; single answers of 5 adapters, good and bad `ttl_seconds`, 2 estimates | 131,796 |
| `gateway_authorize`, `gateway_cachekey`, `ledger_metrics`, `codec_lossless` | Does the code keep these four sentences of its documents? | 1 or 2 requests | violated |

*Why the bounds are enough.* Overspending, lost updates and stale cache keys need two requests in
flight; three let one complete while two others wait, so that old decisions meet new state. One crash
separates each pair of commits and is followed by fresh requests. Answers of one and two tokens make
a call that fits a cap next to one that does not. A search of two rows over three entries is the
smallest that can crowd out a candidate. Requests and entry ids are interchangeable (`SYMMETRY`),
except in the run with a liveness property. The pipeline and the codec stop when their requests have
ended, hence `CHECK_DEADLOCK FALSE` in their runs.

A second registration of one address and a second page are where accounts and pages can go wrong;
a spend that ends up with another team or the wrong writer needs two teams and two requests, which is
a ledger of four rows. Each layer a provider key can come
from is taken by one provider of `routing_keys`, which has no bound on the number of saves and
restarts. Four lines let usage come before, with, between and after two texts, and change twice. The strings and keys of
`codec_roundtrip` hold each glyph the encoder's rules or the decoder's scanners look for; two levels
reach every pair of an encoder branch and the parser of its lines.

*What each property says.*

* `UsageMatchesAnswers` – usage of a key is the sum over its answered requests and those that failed
  after they were recorded, which takes a `ttl_seconds` that is no number on an answer to be cached, or
  a usage that is null; a crash leaves at most one recorded request unanswered. `LogFollowsUsage` – audit ≤ log ≤ usage, ahead by at most
  one answer per crash. `UsageNeverDecreases` – no login, upsert, re-seed or restart takes usage away.
* `OvershootBounded` – if no answer exceeds its projection, usage is at most cap + (peak − 1) ×
  `MaxTokens`: sequential requests never overrun a cap, concurrent ones by one answer each.
* `CachesHoldPaidAnswers` – both caches hold and serve only recorded answers of requests that
  allowed caching, be it that their own client got an error for them. `SemanticHitsStayInNamespace` –
  a semantic hit has the asker's namespace and at least the base similarity, at any age.
* `EveryCallEnds` – a request at a provider ends, however often providers fail.
* `RowsMatchEntries`, `ImplementsStore` – index rows lead to the right entries, and every call of
  the cache is a call of the abstract one: a lookup answers with a best admissible entry, and misses
  only if there is none or `Neighbours` entries crowd out all of them.

* `OneAccountPerAddress` – no two employees share an address, however it was typed, or a key.
  `KeysFollowEmployees` – a key names its employee and the employee's present team.
  `UsageFollowsEmployees` – registering again, logging in or restarting takes no usage off a person.
* `PrecisionMatchesFeedback` – the wrong answers that the metrics count are the answers marked wrong.
  `TeamSpendMatchesAnswers` – spend is the cost of what was answered for a team, counted once.
  `PagingSkipsNothing` – a reader who turned the last page has seen every row there was when it began.
* `PlainDocumentsReadBack` – a document decodes to itself, for every dictionary the analysis may build,
  unless it has one of the keys or strings that `PlainDocument` excludes, each for a scanner that
  misreads it. `OnlyBlocksAreReplaced` – compression replaces documents where they stand and nothing
  else, and counts those it replaced. `PotentialIsAFloor` – the savings told to a request that does not
  compress are at most what compressing its text would have saved.
* `KeysFollowOperator` – the key in force is the one saved last; after a restart too if it was written
  to the very file that the process found at its start and neither `config.yaml` nor the shell says
  otherwise; a provider nobody saved a key for keeps its own as long as the installed file is found and
  was not lost. `AutomaticGoesLive` – a model with a key at hand answers if there is one, a simulation
  only if no live candidate of the tier is. `SafeWhenRouting` – kept code or strong reasoning never
  gets the cheap tier, and a tier rises only by signals that pruning completed or repeated.
* `ClientGetsWhatWasSaid` – texts arrive in order, whole if `[DONE]` does, with the provider's finish
  reason. `ShownUsageIsBilled` – the usage shown is the usage billed. `BillFollowsReport` – which is
  what the provider reported last of each count in the place the adapter reads it from; one that never
  came there, or that a null took back (not with Gemini), is the adapter's estimate. `OneOutcome` – a
  stream is billed and logged once, after all of it was read, or logged once with the status of its
  failure, or left without a trace.
* `HitSavesWhatWasBilled` – a hit claims of each count that was reported, and not as zero, what the answer
  was billed, although it reads the response again with other defaults than any adapter.
  `PaidIsAnswered` – a call that was billed is answered, and a cached answer served, unless the
  provider sent `usage: null` or the client a `ttl_seconds` that is no number; the latter fails no hit,
  and a null count fails before anything is billed or cached.

Each property has a seeded bug (operators named `..._Overwrites`, `..._LogsFirst` and so on, next to
the definition they change) under which the same run finds it violated.

*Fairness.* Only `CallEnds` is weakly fair, per request: adapters pass a timeout to their HTTP
clients, and a stream's client reads or leaves. Arrivals, chunks, time and operators are not fair,
and which way a call ends is never chosen: a provider may fail every time.

### Disagreements between documents and code

1. `gateway_authorize`: an automatic request is authorised for the model of the raw prompt and
   dispatched to the model of the pruned one, which no check sees.
2. `gateway_cachekey`: a response is stored under the upstream model resolved at arrival, though a
   fallback or a second resolution answered.
3. `ledger_metrics`: the research metrics read the rows of both writers, so one answer counts as two
   requests and its cost twice.
4. `codec_lossless`: `decode(encode(x)) == x` fails for documents with certain keys and strings (a key
   with a bracket, brace, comma or dollar; a key that ends in a backslash; a string with a quote in an
   inline array; U+2028 and U+0085 anywhere; an empty object in a table; the prefix of a URL or a
   time stamp before a blank or a comma), although `core.py:780` promises it for any value and `jtf_ops.py:13` calls the
   compression lossless.

Modelled as the code does it, without a run:

* The budget check reserves nothing before the provider call, so concurrent requests of a key together
  exceed its cap, which the repository's `README.md` says is prevented before spending;
  `OvershootBounded` says by how much.
* A `ttl_seconds` such as `"1h"` (the body of `/v1/chat/completions` is not validated there,
  `schemas.py:35`) fails an answer that is to be cached, with a 500, after it was billed and logged
  (`gateway.py:637`). The answer is in the L1 cache, so that the next identical request is a hit, and not
  in the L2 cache.
* Counts that are missing or zero are billed as estimates (`openai.py:75-83`, `:173-176`,
  `anthropic.py:159-162`, `:251-254`), so a key may be billed more than any model produced: a stream of
  Anthropic that is nothing but an `error` event ends as a success and is billed the prompt's estimate.
* An error of the fallback, or an exception that is no `ProviderError`, becomes a 500. One such
  exception is certain: `GeminiProvider.chat` calls `count_prompt_tokens` and `count_tokens` with an
  argument `model` they do not have (`gemini.py:107`, `tokens.py:33`) whenever the provider reports
  no tokens, or zero. The tokens are spent and nothing is recorded (`AdapterBreaks` of `Gateway`).
* An answer with `usage: null` from an OpenAI-compatible server is billed and cached, and then
  `/v1/chat/completions` fails with a 500 where it copies the usage (`app.py:353`). As long as the entry
  lives, every hit of it fails with a 500 as well, at both endpoints (`gateway.py:338`), where the
  repository's `README.md:198` says an identical second request returns the cached response.
* A hit of an answer without usage claims to save the estimate of its own prompt and 50 tokens,
  whatever was billed.
* A failed call that is not a stream leaves no row in either log. A Gemini stream without usage is
  billed nothing, while the other adapters estimate.
* An `error` event of Anthropic is skipped, and the stream ends as a success with `stop`.
* A stream to an adapter without `stream_chat` is refused with 400, where `providers/base.py:88`
  promises a single-shot call.
* The exact-match cache ignores the namespace, so identical requests of two teams share a response,
  which `namespace.py:5` says is prevented.
* The threshold a pipeline request sets is not held to the range the constructor enforces.
* The pruned prompt is scored and its savings logged, but the provider gets the original
  (`gateway.py:567`), although `prompt_pruner.py` shortens prompts before dispatch.
* `prune` loses a fenced block inside an inline code span (`prompt_pruner.py:103`), and collapses
  blanks (`:89-90`): "step  by step" is a sign of reasoning only after it, so that the pruned prompt may
  score a tier above the one that was authorised. A signal that is gained or lost is part of a prompt
  of `routing_keys`.
* Models without a price (`llama3.1:8b`, `o1-...`, `o3-...`) cost nothing, so a cap in USD never
  binds for them.
* An employee may be in no team: the foreign key (`supadb.py:288`) is not enforced, and team ids are
  normalised in three ways (`supadb.py:579`). Budgets of the demonstration teams are reset at every
  start.
* Nothing of `request_log` ever arrives in a project that has the repository's `supabase_schema.sql`.
  The mirror posts `asdict(entry)` with `"id": null` (`supadb.py:685`), which a `BIGSERIAL PRIMARY KEY`
  refuses, and `ts` as an ISO string for a `NUMERIC` column; the refusal is only a line of the log. The
  sync sends `SELECT * FROM request_log LIMIT 500` (`:1033`), with the column `jtf_saved` of `store.py:96`
  that the schema lacks and, in the rows of `Store`, with NULL for `prompt` and `tier`, which it declares
  NOT NULL: it ends as "partial" and advises to run that schema (`:1055`). `supadb.py:684` says the row is
  mirrored, `:988` that all local tables and records are synced. Neither changes local rows, so the
  ledger is modelled without them. An exception of the HTTP client ends a sync with a 500 after some
  tables were sent.
* In the container of the `Dockerfile` (line 20) the package is not installed below `/app`: a key that is
  saved goes to `/app/.env`, `load_dotenv` searches from the package upward and never comes there, and
  the key is gone after a restart, although `supadb.py:32` speaks of the project's `.env` and
  `app.py:736` answers "saved to .env". `KeysFollowOperator` promises a key after a restart only if it was
  written to the file that the process read; `routing_keys` starts the service in such a directory too.
* `tokens.py:3` says a reported usage is always preferred for billing. The Anthropic adapter ignores a
  count that comes in the other of its two events (`anthropic.py:228-237`), and a null takes an earlier
  count back there and in `openai.py:154-157`: an estimate is billed. `BillFollowsReport` says exactly when.
* Saving an empty Supabase address alone leaves mirroring switched on (`app.py:715`).
* `persist_env_vars` says "safely" but empties `.env` before writing it, and its failure is answered
  as a success.

## 4. Proofs

Every theorem holds for all values of the constants under the assumptions named in the modules
(`PayloadAssumption`, `RoutingAssumption`, `AccountAssumption`, `ChargeAssumption`, `NoneAssumption`,
`NoCapAssumption`, `SimilarityAssumption`, `NameAssumption`, `SeedAssumption`, `LedgerAssumption`,
`StreamAssumption`, `CallAssumption`, `UsageAssumption`, `RoutingAssumption` of
`Routing`, `PromptsAssumption`, `SettingsAssumption`); TLC evaluates them on every run. They say that
routes name known models, seeded and upserted rows are rows, counts are naturals and the "absent"
values are no values, that folding an address twice is folding it once, that seeded employees have
addresses and keys of their own, that each saveable provider has a variable of its own, which is one
its key is read from, and that the text of a message is made of prose and JSON documents. What JTF
makes of a document is not assumed at all: the theorems of `Compression` hold for any codec. The
theorems about the tokens of JTF hold for every alphabet with the marks that the encoder writes,
every collection of strings in it that are `PlainString` and every dictionary `_build_dictionary` may
choose for them, up to the five entries that the model has numerals for.

| Theorem | States | Inductive invariant and why it is needed |
|---|---|---|
| `TypeCorrect` | `TypeOK` | `Typed`: `TypeOK` and that a request at a provider has a payload, a routed model and, in phase `fallback`, a fallback – otherwise the cost of its answer is no number |
| `Overshoot` | `OvershootBounded` | `BudgetInv`: the rows of a key are among those it may have, and *what is recorded plus one answer for each request in flight is covered* by cap + (peak − 1) answers; recorded usage alone says nothing about calls yet to end |
| `LogsTrailUsage`, `UsageSurvives` | `LogFollowsUsage`, `UsageNeverDecreases` | `LogInv`: per key, the lag of each log is bounded by the crashes so far; the second theorem is an action property that needs only `Typed` |
| `CachesPaid`, `SemanticIsolation` | `CachesHoldPaidAnswers`, `SemanticHitsStayInNamespace` | `CacheInv`: entries of both caches name recorded requests, answered or failed after it, whose payload gave the entry its key and namespace, and a request in flight that may admit allowed caching when it arrived |
| `UsageIsAnswers` | `UsageMatchesAnswers` | `BillInv`: the property with `Typed`, which says that a request not yet recorded has status 0 and no tier, so that it is in no sum and ending it adds exactly its answer to one; `Excused` says of each request that failed after it was recorded which of the two reasons it has |
| `CacheTyped`, `RowsLeadToEntries` | `SemanticCache.TypeOK`, `RowsMatchEntries` | `IInv` of `SemanticCache_proofs`: `Aligned` says that index, id map, entries and vectors agree at every row, the vectors also while FAISS is what is searched: an eviction rebuilds the index from them |
| `LookupKeepsPromise` | – | no induction: from the definition of the top-k search, by cardinalities, for every finite set of entries |
| `CacheImplementsStore` | `ImplementsStore` | the refinement: with `Aligned` a row of the index stands for an entry, so the rows that a search returns are a choice of entries the abstract lookup allows; each action maps to one of `SemanticStore` or to a stutter |
| `AccountsTyped`, `AccountsSeparate`, `KeysFollow` | `TypeOK`, `OneAccountPerAddress`, `KeysFollowEmployees` | `IInv` of `Accounts_proofs`: no two employees share a stored address or a key (`Separate`); stored addresses are folded (`StoredLower`), so that the table's UNIQUE separates them whatever `LOWER` of SQLite does; nobody takes the address or key of a demonstration employee (`DemoStays`), which every start writes again |
| `UsageFollows` | `UsageFollowsEmployees` | an action property |
| `LedgerTyped`, `PagingComplete` | `TypeOK`, `PagingSkipsNothing` | `Covered`: of the rows there were when the reader began, all above the last total minus the offset are seen; rows that come later push the next page only towards what was seen |
| `SpendIsOfAnswers`, `PrecisionIsOfAnswers` | `TeamSpendMatchesAnswers`, `PrecisionMatchesFeedback` | `Linked`: each answer that was logged owns a row, no two the same, which says of team, tier, cost and mark what the answer says, and rows without an answer count for neither metric. The properties compare two sums and say nothing of single rows |
| `RoutingTyped`, `AutomaticLive`, `PruningSafe` | `TypeOK`, `AutomaticGoesLive`, `SafeWhenRouting` | no induction beyond types: from the order of the candidate lists and the arithmetic of the score, for all values of the signals |
| `KeysFollow` | `KeysFollowOperator` | `KeyInv`: the literal in memory is the key saved since the start, else that of `config.yaml` (`InForce`); a filed key is in the file it was written to (`Kept`), and in the environment if that file was read and the shell has no other (`Read`); files that were not lost, and what was read of the installed one, are as installed in variables nobody saved under (`AsInstalled`, `ReadAsInstalled`). The property speaks of the key in force only, which a restart computes from all three layers |
| `StreamTyped` | `TypeOK` | types of counts, of which any may be absent |
| `ShownIsBilled`, `BillsTheReport` | `ShownUsageIsBilled`, `BillFollowsReport` | `IInv` of `Streams_proofs`: the recorder is what the adapter has told so far (`Tallied`), the framing equals the recorder *once the chunk on its way is framed* (`InStep`), and neither moves after the bill (`Settled`); between chunks the two differ by design, so equality alone is not inductive |
| `ClientGetsAll`, `StreamHasOneOutcome` | `ClientGetsWhatWasSaid`, `OneOutcome` | of the texts the client lacks only the one on its way (`Delivered`), of the finish reason what the last chunk will tell (`FinishTold`); a response that has started has read a line (`Begun`), which is why a failure after that can only be a 502 |
| `CallsAreStreams` | `CallSpec => Spec` | a step of `Calls` is a step of `Streams` or leaves it alone, so the theorems above hold of what the run checks |
| `BlocksAlone`, `PotentialIsFloor` | `OnlyBlocksAreReplaced`, `PotentialIsAFloor` | the invariant of the request says only that what is sent is what the loops compute; the argument is the invariant of the loop over a text (`After`): up to the cursor the text is rebuilt place by place, from the cursor to the place of the scan there is nothing to replace, and the scan is behind the compression by the documents JTF makes longer |
| `DictionaryReadsBack`, `TokensReadBack` | `Known` is the dictionary; `DecPrim` of `EncVal` is the value | no state: `Unescaped` undoes `Dumps` glyph by glyph, since an escape never begins inside another (`InnerReadBack`); a bare string is not a number, a reserved word, a token or a header (`EpStringReadBack`); a token names one entry only (`KnownIs`), and what follows a prefix is what the string has behind it (`ShortenedReadBack`) |
| `ObjectLinesReadBack` | a line is cut at the separator it was joined with | quotes that toggle the scan are counted: a quoted key has an even number of them and ends outside, as long as no backslash stands before its last quote, which is what `PlainKey` excludes |
| `RowsReadBack`, `ArrayLinesReadBack` | rows and inline arrays of any values read back as their values | a joined text is described by the places of its separators (`Joined`); the scan splits there and nowhere else (`SplitIsJoined`, `CsvIsJoined`), for every element is bare or has its quotes at its two ends (`ElementToken`) |
| `TableLinesReadBack`, `DashLinesReadBack` | the first lines of tables and of items read back as size, columns and text | the same lemmas, behind a head of known glyphs (`HeadedIs`) |
| `HitsAreHonest`, `PaidAnswersArrive` | `HitSavesWhatWasBilled`, `PaidIsAnswered` | `CallInv`: of the cached answer, no count in the response is null, and a reported count is both in the response and billed (`Kept`) – the properties only speak of hits that have happened |

Proofs have one step per action. `Gateway_proofs` collects the actions by what they change (steps
that settle usage, steps that only end a request, steps of the environment), so that each later
proof treats a class once. Temporal steps use PTL.

Sums and sets that grow: the library's induction theorems take an operator as a parameter, which no
installed prover instantiates. `Totals_proofs` argues by a smallest counterexample instead: the set
of sizes at which a law of sums fails is a set of naturals, has a least member if it has any, and
the set of that size minus one element contradicts it. The laws are that a sum changes by one
summand when one summand changes, and that two sums over paired sets are equal; the theorems about
usage, spend and precision need no other. The eviction of the semantic cache (`Keeping`) and the
loops of the compression are recursive functions on the places of a sequence, and the first place
where a loop's invariant failed would contradict its step (`LoopInvariant`).

The codec is split for its proofs. `JTFTokens` has no recursive operator, so that every line the
encoder writes and every scanner that meets it can be reasoned about; the theorems above say, for
texts, rows and column lists of any length, that each kind of line is recognised as what it is and
gives back its parts, each under the same condition (`PlainPrim`, `PlainElement`, `PlainKey`) that
`PlainDocument` puts on the strings and keys at that place. The run checks the same operators.

Model-checked only: `EveryCallEnds`, which is liveness under fairness, and `PlainDocumentsReadBack`.
Of the latter the theorems cover every line by itself; that the lines of nested blocks are put
together and taken apart alike is an induction over documents through the recursive operators of
`JTF`, and stays with the run. A dictionary of more than five entries is beyond the model's numerals.

## 5. Plan

Done: the pipeline with its store and caches, the semantic cache and its refinement, accounts, the
ledger, routing with its proofs, streams and single answers, the codec with the proofs
of its lines, and the theorems above. Next:

1. The model families of `route_for` and longest-prefix pricing in `Routing`, which would then give
   `Gateway` its routing constants and prices.
2. The translation of messages and parameters to Anthropic's format, and of its texts back.
3. The sync of teams, employees and keys over `Accounts`, as far as the project's schema takes them.

## Not modelled

* The dashboard (a static page) and the benchmark with `metrics.py`, which only it uses: no state of
  the service.
* Tokenisation, embeddings and prices as numbers: numeric libraries and tables; constants here.
* The mirror and the sync to Supabase: they write outside only, see the disagreements above.
* Redis and FAISS themselves: external, modelled by how they are used.
* Parsing of YAML, of JSON inside prompts and of HTTP bodies; CORS and the shapes of responses.
* Sockets: whether a provider's connection is closed when a stream is left.
