------------------------------- MODULE Store -------------------------------
(***************************************************************************)
(* The SQLite store of virtual keys, running usage and the request log     *)
(* (store.py), with the second writer of the same request_log table        *)
(* (SupaDB.log_request shares the store's connection).                     *)
(*                                                                         *)
(* Every statement below is committed on its own: record_usage, log_request*)
(* and SupaDB.log_request are three transactions, run one after the other  *)
(* by a request handler.  The request_log table is kept as totals per key, *)
(* one record for each of its two writers.                                 *)
(***************************************************************************)
EXTENDS Naturals

CONSTANTS
    Keys,      \* virtual API keys
    Models,    \* model names the gateway can route
    NoCap,     \* a budget column that is NULL: uncapped
    Absent     \* no row for this key in api_keys

ASSUME NoCapAssumption == NoCap \notin Nat

VARIABLES
    api_keys,  \* api_keys[k]: the row of k in table api_keys, or Absent
    usage,     \* usage[k]: the row of k in table usage
    log,       \* log[k]: what Store.log_request wrote for k
    audit      \* audit[k]: what SupaDB.log_request wrote for k

storeVars == <<api_keys, usage, log, audit>>

Cap == Nat \cup {NoCap}

\* An empty allow-list permits every model.
KeyRow == [allowed : SUBSET Models, max_usd : Cap, max_tokens : Cap,
           cache_enabled : BOOLEAN]

UsageRow == [requests : Nat, cache_hits : Nat, total_tokens : Nat,
             cost_usd : Nat]

LogTotals == [ok : Nat, rejected : Nat, failed : Nat, tokens : Nat,
              cost : Nat]

NoUsage == [requests |-> 0, cache_hits |-> 0, total_tokens |-> 0,
            cost_usd |-> 0]

NoRows == [ok |-> 0, rejected |-> 0, failed |-> 0, tokens |-> 0, cost |-> 0]

(***************************************************************************)
(* Key management.                                                         *)
(***************************************************************************)

\* Seeded bug: INSERT OR REPLACE, with the usage row deleted in cascade.
UpsertKey_CascadesDelete(k, row) ==
    /\ api_keys' = [api_keys EXCEPT ![k] = row]
    /\ usage' = [usage EXCEPT ![k] = Absent]

\* Seeded bug: the usage row is written afresh on every upsert.
UpsertKey_ResetsUsage(k, row) ==
    /\ api_keys' = [api_keys EXCEPT ![k] = row]
    /\ usage' = [usage EXCEPT ![k] = NoUsage]

\* INSERT ... ON CONFLICT DO UPDATE: every limit of an existing row is
\* overwritten; the usage row is only created when there is none.
UpsertKey(k, row) ==
    /\ api_keys' = [api_keys EXCEPT ![k] = row]
    /\ UNCHANGED usage

\* An empty allow-list means every routed model.
Permits(row, m) == row.allowed = {} \/ m \in row.allowed

(***************************************************************************)
(* Budgets and usage.                                                      *)
(***************************************************************************)

Exceeds(cap, amount) == cap # NoCap /\ amount > cap

\* Seeded bug: the projection is compared with the cap on its own.
WouldExceedBudget_ForgetsUsage(k, row, cost, tokens) ==
    Exceeds(row.max_usd, cost) \/ Exceeds(row.max_tokens, tokens)

\* The pre-flight check: recorded usage plus the projection of this call.
WouldExceedBudget(k, row, cost, tokens) ==
    \/ Exceeds(row.max_usd, usage[k].cost_usd + cost)
    \/ Exceeds(row.max_tokens, usage[k].total_tokens + tokens)

\* Seeded bug: total_tokens is set, not incremented.
RecordUsage_Overwrites(k, tokens, cost, hit) ==
    [usage EXCEPT ![k] =
        [@ EXCEPT !.requests = @ + 1, !.total_tokens = tokens,
                  !.cost_usd = @ + cost]]

\* UPDATE usage SET requests = requests + 1, total_tokens = total_tokens + ?...
RecordUsage(k, tokens, cost, hit) ==
    [usage EXCEPT ![k] =
        [requests |-> @.requests + 1,
         cache_hits |-> @.cache_hits + (IF hit THEN 1 ELSE 0),
         total_tokens |-> @.total_tokens + tokens,
         cost_usd |-> @.cost_usd + cost]]

\* One more status-200 row with these tokens and this cost.
LogOk(table, k, tokens, cost) ==
    [table EXCEPT ![k] = [ok |-> @.ok + 1, rejected |-> @.rejected,
                          failed |-> @.failed, tokens |-> @.tokens + tokens,
                          cost |-> @.cost + cost]]

LogRejected(table, k) == [table EXCEPT ![k].rejected = @ + 1]

LogFailed(table, k) == [table EXCEPT ![k].failed = @ + 1]

(***************************************************************************)
(* The recording sequence at the end of every served request: record_usage,*)
(* then Store.log_request, then (not for a stream) SupaDB.log_request.     *)
(* "done" counts the transactions that were committed: all of them, unless *)
(* the process dies in between.                                            *)
(***************************************************************************)
AllCommits == 3

\* Seeded bug: the request is logged before its usage is recorded.
Settle_LogsFirst(k, tokens, cost, hit, audited, done) ==
    /\ usage' = IF done >= 2 THEN RecordUsage(k, tokens, cost, hit) ELSE usage
    /\ log' = IF done >= 1 THEN LogOk(log, k, tokens, cost) ELSE log
    /\ audit' = IF done >= 3 /\ audited THEN LogOk(audit, k, tokens, cost)
                                        ELSE audit

Settle(k, tokens, cost, hit, audited, done) ==
    /\ usage' = IF done >= 1 THEN RecordUsage(k, tokens, cost, hit) ELSE usage
    /\ log' = IF done >= 2 THEN LogOk(log, k, tokens, cost) ELSE log
    /\ audit' = IF done >= 3 /\ audited THEN LogOk(audit, k, tokens, cost)
                                        ELSE audit

\* The 402 path: one row from each writer, no usage.
Reject(k, audited) ==
    /\ log' = LogRejected(log, k)
    /\ audit' = IF audited THEN LogRejected(audit, k) ELSE audit
    /\ UNCHANGED usage

StoreTypeOK ==
    /\ api_keys \in [Keys -> KeyRow \cup {Absent}]
    /\ usage \in [Keys -> UsageRow]
    /\ log \in [Keys -> LogTotals]
    /\ audit \in [Keys -> LogTotals]
=============================================================================
