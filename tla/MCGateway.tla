------------------------------ MODULE MCGateway ------------------------------
(***************************************************************************)
(* Small instances of the request pipeline.                                *)
(***************************************************************************)
EXTENDS GatewayProperties, TLC

CONSTANTS r1, r2, r3, k1, k2, q1, q2, tA, tB

Symmetry == Permutations(Requests)

(***************************************************************************)
(* Three routed models: "big" falls back to "cheap", "local" to "big", and *)
(* the adapter of "local" cannot stream.  "ghost" is routed to a provider  *)
(* without an adapter, and "risky" falls back to it.                       *)
(***************************************************************************)
MCModels == {"big", "cheap", "local", "ghost", "risky"}
MCProviders == {"openai", "mock", "ollama", "gemini"}
MCUpstreams == {"gpt", "echo", "llama", "gem"}
To(provider, upstream, fallback) ==
    [provider |-> provider, upstream |-> upstream, fallback |-> fallback]
MCRoutes ==
    [m \in MCModels |->
        CASE m = "big"   -> To("openai", "gpt", "cheap")
          [] m = "cheap" -> To("mock", "echo", None)
          [] m = "local" -> To("ollama", "llama", "big")
          [] m = "ghost" -> To("gemini", "gem", None)
          [] m = "risky" -> To("openai", "gpt", "ghost")]
MCPrice == [u \in MCUpstreams |-> IF u = "gpt" THEN 2 ELSE 1]
MCConfigured == MCProviders \ {"gemini"}
MCStreaming == MCProviders \ {"ollama"}

(* Distinct prompts are similar; automatic routing crosses a tier. *)
MCSimilarity ==
    [p \in Prompts |-> [q \in Prompts |-> IF p = q THEN 10 ELSE 9]]
MCContext == [q \in Prompts \cup {None} |-> "plain"]
MCHash(parts) == parts
MCRaw == [q \in Prompts |-> "big"]
MCPruned == [q \in Prompts |-> "cheap"]
MCNoTier == [q \in Prompts |-> None]
OneToken == [q \in Prompts |-> 1]
TwoTokens == [q \in Prompts |-> 2]

Ask(k, m, q, t) ==
    [key |-> k, model |-> m, prompt |-> q, team |-> t, no_store |-> FALSE,
     stream |-> FALSE, ttl_ok |-> TRUE]
Streamed(p) == [p EXCEPT !.stream = TRUE]
NoStore(p) == [p EXCEPT !.no_store = TRUE]
BadTtl(p) == [p EXCEPT !.ttl_ok = FALSE]

Limits(allowed, usd, tokens) ==
    [allowed |-> allowed, max_usd |-> usd, max_tokens |-> tokens,
     cache_enabled |-> TRUE]
OpenRow == Limits({}, NoCap, NoCap)
OpenSeed == [k \in Keys |-> OpenRow]
OpenRows == [k \in Keys |-> {OpenRow}]

(* Budgets: one key with a token cap that is also lowered; calls, streams. *)
BudgetPayloads ==
    {Ask(k1, "big", q1, tA), BadTtl(Ask(k1, "big", q1, tA)),
     Streamed(Ask(k1, "cheap", q1, tA))}
BudgetRow == Limits({}, NoCap, 3)
BudgetSeed == [k \in Keys |-> BudgetRow]
BudgetRows == [k \in Keys |-> {BudgetRow, Limits({}, NoCap, 2)}]

(* Every way a request can end: a configured key with an allow-list and a  *)
(* money cap, and the key of an employee that has no row yet.              *)
MixedPayloads ==
    {Ask(k1, m, q1, tA) :
        m \in {"big", "cheap", "risky", "ghost", None, AutoModel}}
    \cup {Ask(k2, m, q1, tA) : m \in {"local", "ghost"}}
    \cup {Streamed(Ask(k1, "big", q1, tA)), Streamed(Ask(k2, "local", q1, tA)),
          Ask(k1, "big", None, tA)}
MixedRow == Limits({"big", "risky"}, 3, NoCap)
MixedSeed == [k \in Keys |-> IF k = k1 THEN MixedRow ELSE Absent]
MixedRows == [k \in Keys |-> IF k = k1 THEN {MixedRow} ELSE {OpenRow}]

(* The caches and every way a request can end, in one instance: the mixed  *)
(* requests, and of the open key two similar prompts, two teams, an opt-out*)
(* and a ttl that is no number.                                            *)
CallPayloads ==
    MixedPayloads
    \cup {Ask(k2, "cheap", q1, tA), Ask(k2, "cheap", q2, tA), Ask(k2, "cheap", q2, tB),
          NoStore(Ask(k2, "cheap", q1, tB)), BadTtl(Ask(k2, "cheap", q1, tA))}

(* The automatic alias under an allow-list of the pre-scored model only. *)
AutoPayloads == {Ask(k1, AutoModel, q1, tA), Ask(k1, "big", q1, tA)}
AutoRow == Limits({"big"}, NoCap, NoCap)
AutoSeed == [k \in Keys |-> AutoRow]
AutoRows == [k \in Keys |-> {AutoRow}]
=============================================================================
