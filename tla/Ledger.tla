------------------------------- MODULE Ledger -------------------------------
(***************************************************************************)
(* Table request_log row by row (supadb.py): two writers of one table,     *)
(* feedback that marks a row by its id, the spend of a team, the research  *)
(* metrics, and a reader that pages through the ledger while it grows.     *)
(* A request is one step here, from its first row to its last: its handler *)
(* does not await between them, though the process may die there.          *)
(***************************************************************************)
EXTENDS SequencesExt, FiniteSets, Totals

CONSTANTS
    Teams,      \* team ids in requests
    Calls,      \* what a request amounts to
    None,       \* a column that is NULL
    PageSize,   \* limit of /api/ledger
    MaxRows     \* bound: rows of the table

\* Tokens of the prompt as the provider counted them and as the pruner
\* estimates them, of the completion; cost, and cost at the frontier model.
Call == [prompt : Nat, pruned : Nat, completion : Nat, cost : Nat, base : Nat]

ASSUME LedgerAssumption ==
    /\ Calls \subseteq Call /\ None \notin Teams \cup {"l1", "l2"}
    /\ PageSize \in Nat \ {0} /\ MaxRows \in Nat

VARIABLES
    rows,    \* request_log; the id of a row is its position (AUTOINCREMENT)
    served,  \* the requests that were served, in order
    reader   \* a client reading the ledger page by page

vars == <<rows, served, reader>>

Row == [team : Teams \cup {None}, prompt : Nat, pruned : Nat, completion : Nat,
        total : Nat, cost : Nat, base : Nat, hit : BOOLEAN,
        cache_tier : {"l1", "l2", None}, wrong : BOOLEAN,
        status : {200, 402, 502}]

\* log_id: the id of the audit row, 0 if there is none; wrong: what the last
\* feedback on the answer said.
Served == [team : Teams, call : Calls, tier : {"l1", "l2", "model", "stream"},
           log_id : Nat, wrong : BOOLEAN]

\* start: rows there were at the first page; total: as the last page told.
Reader == [offset : Nat, start : Nat, total : Nat, seen : SUBSET Nat]

NewReader == [offset |-> 0, start |-> 0, total |-> 0, seen |-> {}]

(***************************************************************************)
(* The rows of the two writers.                                            *)
(***************************************************************************)
\* Store.log_request: columns added by SupaDB take their defaults.
StoreRow(prompt, completion, cost, hit, status) ==
    [team |-> None, prompt |-> prompt, pruned |-> 0, completion |-> completion,
     total |-> 0, cost |-> cost, base |-> 0, hit |-> hit, cache_tier |-> None,
     wrong |-> FALSE, status |-> status]

AuditRow(team, c, tier) ==
    [team |-> team, prompt |-> c.prompt,
     pruned |-> IF tier = "model" THEN c.pruned ELSE 0,
     completion |-> c.completion, total |-> c.prompt + c.completion,
     cost |-> IF tier = "model" THEN c.cost ELSE 0, base |-> c.base,
     hit |-> tier # "model",
     cache_tier |-> IF tier = "model" THEN None ELSE tier,
     wrong |-> FALSE, status |-> 200]

\* The audit row of a request refused over its budget.
RejectedRow(team, c) ==
    [team |-> team, prompt |-> c.prompt, pruned |-> c.pruned, completion |-> 0,
     total |-> c.prompt, cost |-> 0, base |-> c.base, hit |-> FALSE,
     cache_tier |-> None, wrong |-> FALSE, status |-> 402]

\* Seeded bug: the caller is given the id of the row Store wrote.
LogId_OfStore(log) == Len(log) + 1

\* SupaDB.log_request returns the id of the row it inserted, after Store's.
LogId(log) == Len(log) + 2

RoomFor(n) == Len(rows) + n <= MaxRows

(***************************************************************************)
(* Requests.  "done" rows are written before the process dies, if it does. *)
(***************************************************************************)
Serve(team, c, tier, done) ==
    /\ RoomFor(2)
    /\ LET first == IF tier = "model"
                    THEN StoreRow(c.prompt, c.completion, c.cost, FALSE, 200)
                    ELSE StoreRow(0, 0, 0, TRUE, 200)
       IN  rows' = rows \o (IF done = 2 THEN <<first, AuditRow(team, c, tier)>>
                                        ELSE <<first>>)
    /\ served' = Append(served, [team |-> team, call |-> c, tier |-> tier,
                                 log_id |-> IF done = 2 THEN LogId(rows) ELSE 0,
                                 wrong |-> FALSE])
    /\ UNCHANGED reader

\* A stream that ends: no audit row.
ServeStream(team, c) ==
    /\ RoomFor(1)
    /\ rows' = Append(rows,
                      StoreRow(c.prompt, c.completion, c.cost, FALSE, 200))
    /\ served' = Append(served, [team |-> team, call |-> c, tier |-> "stream",
                                 log_id |-> 0, wrong |-> FALSE])
    /\ UNCHANGED reader

RejectOverBudget(team, c) ==
    /\ RoomFor(2)
    /\ rows' = rows \o <<StoreRow(0, 0, 0, FALSE, 402), RejectedRow(team, c)>>
    /\ UNCHANGED <<served, reader>>

StreamFails ==
    /\ RoomFor(1)
    /\ rows' = Append(rows, StoreRow(0, 0, 0, FALSE, 502))
    /\ UNCHANGED <<served, reader>>

\* Seeded bug: a mark that is taken back is stored as NULL.
Feedback_StoresNull(id, wrong) ==
    /\ id \in DOMAIN rows
    /\ rows' = [rows EXCEPT ![id].wrong = IF wrong THEN TRUE ELSE None]
    /\ UNCHANGED <<served, reader>>

\* /api/cache/feedback, with the id an answer came with or a ledger row shows.
Feedback(id, wrong) ==
    /\ id \in DOMAIN rows
    /\ rows' = [rows EXCEPT ![id].wrong = wrong]
    /\ served' = [i \in DOMAIN served |->
                     IF served[i].log_id = id
                     THEN [served[i] EXCEPT !.wrong = wrong] ELSE served[i]]
    /\ UNCHANGED reader

(***************************************************************************)
(* Reading.                                                                *)
(***************************************************************************)
\* Seeded bug: the page starts one row too late.
Page_SkipsOne(offset) ==
    {id \in DOMAIN rows : /\ id < Len(rows) - offset
                          /\ id >= Len(rows) - offset - PageSize}

\* ORDER BY id DESC LIMIT PageSize OFFSET offset
Page(offset) ==
    {id \in DOMAIN rows : /\ id <= Len(rows) - offset
                          /\ id > Len(rows) - offset - PageSize}

ReadPage ==
    /\ reader.offset = 0 \/ reader.offset < reader.total
    /\ reader' = [offset |-> reader.offset + PageSize,
                  start |-> IF reader.offset = 0 THEN Len(rows)
                                                 ELSE reader.start,
                  total |-> Len(rows),
                  seen |-> reader.seen \cup Page(reader.offset)]
    /\ UNCHANGED <<rows, served>>

ReadAgain ==
    /\ reader # NewReader
    /\ reader' = NewReader
    /\ UNCHANGED <<rows, served>>

Init == rows = <<>> /\ served = <<>> /\ reader = NewReader

Next ==
    \/ \E team \in Teams, c \in Calls :
          \/ \E tier \in {"l1", "l2", "model"}, done \in 1..2 :
                Serve(team, c, tier, done)
          \/ ServeStream(team, c)
          \/ RejectOverBudget(team, c)
    \/ StreamFails
    \/ \E id \in 1..Len(rows), wrong \in BOOLEAN : Feedback(id, wrong)
    \/ ReadPage
    \/ ReadAgain

Spec == Init /\ [][Next]_vars

(***************************************************************************)
(* What is computed from the rows.                                         *)
(***************************************************************************)
\* Seeded bug: every row counts, whoever wrote it.
TeamSpend_AllRows(team) ==
    SumOver([id \in DOMAIN rows |-> rows[id].cost], DOMAIN rows)

\* SELECT SUM(cost_usd) FROM request_log WHERE team_id = ?
TeamSpend(team) ==
    SumOver([id \in DOMAIN rows |-> rows[id].cost],
            {id \in DOMAIN rows : rows[id].team = team})

\* calculate_research_metrics, before the divisions.
ResearchMetrics ==
    LET ok == {id \in DOMAIN rows : rows[id].status = 200}
        l2 == {id \in ok : rows[id].hit /\ rows[id].cache_tier = "l2"}
    IN  [n_requests |-> Cardinality(ok),
         hits |-> Cardinality({id \in ok : rows[id].hit}),
         l2_hits |-> Cardinality(l2),
         wrong_l2 |-> Cardinality({id \in l2 : rows[id].wrong}),
         tot_cost |-> SumOver([id \in ok |-> rows[id].cost], ok),
         tot_base_cost |-> SumOver([id \in ok |-> rows[id].base], ok)]

(***************************************************************************)
(* Properties.                                                             *)
(***************************************************************************)
\* The values of the table and of its observers.
TypeOK ==
    /\ rows \in Seq(Row)
    /\ served \in Seq(Served)
    /\ reader \in Reader

\* The answers of a tier that were logged for a caller to name.
Logged(tier) ==
    {i \in DOMAIN served : served[i].tier = tier /\ served[i].log_id # 0}

\* Feedback reaches the answer it is about, however the two writers' ids
\* interleave: the precision of the metrics is that of the semantic answers
\* that were logged, by the last word on each (log_request, update_feedback).
PrecisionMatchesFeedback ==
    /\ ResearchMetrics.l2_hits = Cardinality(Logged("l2"))
    /\ ResearchMetrics.wrong_l2
          = Cardinality({i \in Logged("l2") : served[i].wrong})

\* Two rows for a request never bill a team twice: its spend (list_teams) is
\* the cost of its answers that were audited.
TeamSpendMatchesAnswers ==
    \A team \in Teams :
        TeamSpend(team)
            = SumOver([i \in DOMAIN served |-> served[i].call.cost],
                      {i \in Logged("model") : served[i].team = team})

\* Requests logged while the ledger is read push rows to later pages: a
\* reader sees some twice, but when it has turned the last page it has seen
\* every row there was when it began (get_ledger).
PagingSkipsNothing ==
    reader.offset > 0 /\ reader.offset >= reader.total
        => 1..reader.start \subseteq reader.seen

\* The metrics describe the requests that were served, even if none was a
\* stream or cut short: their number, the share of semantic hits and the
\* reduction of cost (calculate_research_metrics).
MetricsDescribeTraffic ==
    LET m == ResearchMetrics
        all == DOMAIN served
        cost == SumOver([i \in all |-> IF served[i].tier = "model"
                                       THEN served[i].call.cost ELSE 0], all)
        base == SumOver([i \in all |-> served[i].call.base], all)
    IN  (\A i \in all : served[i].log_id # 0) =>
        /\ m.n_requests = Len(served)
        /\ m.l2_hits * Len(served)
              = Cardinality({i \in all : served[i].tier = "l2"}) * m.n_requests
        /\ (m.tot_base_cost - m.tot_cost) * base
              = (base - cost) * m.tot_base_cost
=============================================================================
