---------------------------- MODULE Ledger_proofs ----------------------------
(***************************************************************************)
(* Proofs about the ledger: its types, that a reader who turns pages while *)
(* rows are inserted misses none, and that the sums over its rows are      *)
(* those of the answers.                                                   *)
(***************************************************************************)
EXTENDS Ledger, SequenceTheorems, Totals_proofs, TLAPS

(***************************************************************************)
(* What the reader has covered: of the rows there were when it began, all  *)
(* that are newer than the last "total - offset" of its last page.  Later  *)
(* rows only push the next page towards what it has seen.                  *)
(***************************************************************************)
Covered ==
    reader.offset > 0 =>
        /\ reader.start <= reader.total /\ reader.total <= Len(rows)
        /\ \A id \in 1..reader.start :
              id > reader.total - reader.offset => id \in reader.seen

IInv == TypeOK /\ Covered

\* Rows are only added.
Grows == rows' \in Seq(Row) /\ Len(rows') >= Len(rows)

(***************************************************************************)
(* Types.                                                                  *)
(***************************************************************************)
LEMMA CallType ==
    ASSUME NEW c \in Calls
    PROVE  /\ c.prompt \in Nat /\ c.pruned \in Nat /\ c.completion \in Nat
           /\ c.cost \in Nat /\ c.base \in Nat
BY LedgerAssumption DEF Call

LEMMA AuditRowType ==
    ASSUME NEW team \in Teams, NEW c \in Calls,
           NEW tier \in {"l1", "l2", "model"}
    PROVE  AuditRow(team, c, tier) \in Row
BY CallType DEF AuditRow, Row

LEMMA AppendOne ==
    ASSUME NEW r \in Row, rows \in Seq(Row), rows' = Append(rows, r)
    PROVE  Grows
BY DEF Grows

LEMMA AppendTwo ==
    ASSUME NEW r \in Row, NEW s \in Row, rows \in Seq(Row),
           rows' = rows \o <<r, s>> \/ rows' = rows \o <<r>>
    PROVE  Grows /\ Len(rows') > Len(rows)
<1>1. <<r, s>> \in Seq(Row) /\ Len(<<r, s>>) = 2
    OBVIOUS
<1>2. <<r>> \in Seq(Row) /\ Len(<<r>>) = 1
    OBVIOUS
<1>3. /\ rows \o <<r, s>> \in Seq(Row) /\ Len(rows \o <<r, s>>) = Len(rows) + 2
      /\ rows \o <<r>> \in Seq(Row) /\ Len(rows \o <<r>>) = Len(rows) + 1
    BY <1>1, <1>2, ConcatProperties
<1>4. Len(rows) \in Nat
    BY LenProperties
<1> QED BY <1>3, <1>4 DEF Grows

LEMMA ServedType ==
    ASSUME TypeOK, NEW team \in Teams, NEW c \in Calls, NEW id \in Nat,
           NEW tier \in {"l1", "l2", "model", "stream"}
    PROVE  Append(served, [team |-> team, call |-> c, tier |-> tier,
                           log_id |-> id, wrong |-> FALSE]) \in Seq(Served)
BY DEF TypeOK, Served

(***************************************************************************)
(* A step that leaves the reader alone and only adds rows.                 *)
(***************************************************************************)
LEMMA GrowingOK ==
    ASSUME IInv, Grows, served' \in Seq(Served), UNCHANGED reader
    PROVE  IInv'
<1>1. TypeOK'
    BY DEF Grows, IInv, TypeOK
<1>2. Len(rows) \in Nat /\ Len(rows') \in Nat /\ Len(rows') >= Len(rows)
    BY LenProperties DEF Grows, IInv, TypeOK
<1>3. reader.total \in Nat
    BY DEF IInv, TypeOK, Reader
<1>4. Covered'
    BY <1>2, <1>3 DEF IInv, Covered
<1> QED BY <1>1, <1>4 DEF IInv

LEMMA ServeGrows ==
    ASSUME IInv, NEW team \in Teams, NEW c \in Calls,
           NEW tier \in {"l1", "l2", "model"}, NEW done \in 1..2,
           Serve(team, c, tier, done)
    PROVE  Grows /\ Len(rows') > Len(rows)
<1> DEFINE first == IF tier = "model"
                    THEN StoreRow(c.prompt, c.completion, c.cost, FALSE, 200)
                    ELSE StoreRow(0, 0, 0, TRUE, 200)
<1>1. rows \in Seq(Row) /\ Len(rows) \in Nat
    BY LenProperties DEF IInv, TypeOK
<1>2. first \in Row /\ AuditRow(team, c, tier) \in Row
  <2>1. AuditRow(team, c, tier) \in Row
      BY AuditRowType
  <2>2. first \in Row
      BY CallType DEF StoreRow, Row
  <2> QED BY <2>1, <2>2
<1>3. \/ rows' = rows \o <<first, AuditRow(team, c, tier)>>
      \/ rows' = rows \o <<first>>
    BY DEF Serve
<1> QED BY <1>1, <1>2, <1>3, AppendTwo

LEMMA ServeOK ==
    ASSUME IInv, NEW team \in Teams, NEW c \in Calls,
           NEW tier \in {"l1", "l2", "model"}, NEW done \in 1..2,
           Serve(team, c, tier, done)
    PROVE  IInv'
<1>1. Len(rows) \in Nat
    BY LenProperties DEF IInv, TypeOK
<1>2. (IF done = 2 THEN LogId(rows) ELSE 0) \in Nat
    BY <1>1 DEF LogId
<1>3. served' \in Seq(Served)
    BY <1>2, ServedType DEF Serve, IInv
<1> QED BY <1>3, ServeGrows, GrowingOK DEF Serve

LEMMA ServeStreamOK ==
    ASSUME IInv, NEW team \in Teams, NEW c \in Calls, ServeStream(team, c)
    PROVE  IInv'
<1>1. StoreRow(c.prompt, c.completion, c.cost, FALSE, 200) \in Row
    BY CallType DEF StoreRow, Row
<1>2. Grows
    BY <1>1, AppendOne DEF ServeStream, IInv, TypeOK
<1>3. served' \in Seq(Served)
    BY ServedType DEF ServeStream, IInv
<1> QED BY <1>2, <1>3, GrowingOK DEF ServeStream

LEMMA RejectGrows ==
    ASSUME IInv, NEW team \in Teams, NEW c \in Calls, RejectOverBudget(team, c)
    PROVE  Grows /\ Len(rows') > Len(rows)
<1>1. RejectedRow(team, c) \in Row
    BY CallType DEF RejectedRow, Row
<1>2. StoreRow(0, 0, 0, FALSE, 402) \in Row
    BY DEF StoreRow, Row
<1>3. rows' = rows \o <<StoreRow(0, 0, 0, FALSE, 402), RejectedRow(team, c)>>
    BY DEF RejectOverBudget
<1> QED BY <1>1, <1>2, <1>3, AppendTwo DEF IInv, TypeOK

LEMMA RejectOK ==
    ASSUME IInv, NEW team \in Teams, NEW c \in Calls, RejectOverBudget(team, c)
    PROVE  IInv'
BY RejectGrows, GrowingOK DEF RejectOverBudget, IInv, TypeOK

LEMMA StreamFailsOK ==
    ASSUME IInv, StreamFails
    PROVE  IInv'
<1>1. StoreRow(0, 0, 0, FALSE, 502) \in Row
    BY DEF StoreRow, Row
<1>2. Grows
    BY <1>1, AppendOne DEF StreamFails, IInv, TypeOK
<1> QED BY <1>2, GrowingOK DEF StreamFails, IInv, TypeOK

LEMMA FeedbackGrows ==
    ASSUME IInv, NEW id, NEW wrong \in BOOLEAN, Feedback(id, wrong)
    PROVE  Grows
<1>1. rows \in Seq(Row) /\ id \in 1..Len(rows)
    BY DEF IInv, TypeOK, Feedback
<1>2. Len(rows) \in Nat
    BY <1>1, LenProperties
<1>3. rows[id] \in Row
    BY <1>1, ElementOfSeq
<1>4. [rows[id] EXCEPT !.wrong = wrong] \in Row
    BY <1>3 DEF Row
<1>5. rows' = [rows EXCEPT ![id] = [rows[id] EXCEPT !.wrong = wrong]]
    BY DEF Feedback
<1> QED BY <1>1, <1>2, <1>4, <1>5 DEF Grows

LEMMA FeedbackOK ==
    ASSUME IInv, NEW id, NEW wrong \in BOOLEAN, Feedback(id, wrong)
    PROVE  IInv'
<1>1. served \in Seq(Served)
    BY DEF IInv, TypeOK
<1>2. Len(served) \in Nat
    BY <1>1, LenProperties
<1>3. ASSUME NEW i \in 1..Len(served)
      PROVE  (IF served[i].log_id = id THEN [served[i] EXCEPT !.wrong = wrong]
                                       ELSE served[i]) \in Served
  <2>1. served[i] \in Served
      BY <1>1, ElementOfSeq
  <2> QED BY <2>1 DEF Served
<1>4. served' \in Seq(Served)
  <2>1. DOMAIN served = 1..Len(served)
      BY <1>1, LenProperties
  <2>2. served' = [i \in 1..Len(served) |->
                     IF served[i].log_id = id
                     THEN [served[i] EXCEPT !.wrong = wrong] ELSE served[i]]
      BY <2>1 DEF Feedback
  <2>3. served' \in [1..Len(served) -> Served]
      BY <1>3, <2>2
  <2> QED BY <1>2, <2>3, SeqDef
<1> QED BY <1>4, FeedbackGrows, GrowingOK DEF Feedback

(***************************************************************************)
(* The reader.                                                             *)
(***************************************************************************)
LEMMA ReadPageOK ==
    ASSUME IInv, ReadPage
    PROVE  IInv'
<1> DEFINE n == Len(rows)
           o == reader.offset
<1>1. /\ rows \in Seq(Row) /\ served \in Seq(Served)
      /\ reader.offset \in Nat /\ reader.start \in Nat /\ reader.total \in Nat
      /\ reader.seen \in SUBSET Nat
    BY DEF IInv, TypeOK, Reader
<1>2. n \in Nat /\ DOMAIN rows = 1..n
    BY <1>1, LenProperties
<1>3. PageSize \in Nat /\ PageSize > 0
    BY LedgerAssumption
<1>4. UNCHANGED <<rows, served>>
    BY DEF ReadPage
<1>5. /\ reader'.offset = o + PageSize
      /\ reader'.start = IF o = 0 THEN n ELSE reader.start
      /\ reader'.total = n
      /\ reader'.seen = reader.seen \cup Page(o)
      /\ reader' \in Reader
  <2>1. Page(o) \in SUBSET Nat
      BY <1>2 DEF Page
  <2> QED BY <1>1, <1>2, <1>3, <2>1 DEF ReadPage, Reader
<1>6. ASSUME NEW id \in 1..reader'.start, id > n - (o + PageSize)
      PROVE  id \in reader'.seen
  <2>1. id \in 1..n
    <3>1. CASE o = 0
        BY <1>5, <3>1
    <3>2. CASE o # 0
      <4>1. reader.start <= n
          BY <1>1, <1>2, <3>2 DEF IInv, Covered
      <4> QED BY <1>1, <1>2, <1>5, <3>2, <4>1
    <3> QED BY <3>1, <3>2
  <2>2. CASE id <= n - o
      BY <1>1, <1>2, <1>3, <1>5, <1>6, <2>1, <2>2 DEF Page
  <2>3. CASE id > n - o
    <3>1. o > 0
        BY <1>1, <1>2, <2>1, <2>3
    <3>2. reader'.start = reader.start /\ id \in 1..reader.start
        BY <1>1, <1>5, <3>1
    <3>3. id > reader.total - o
        BY <1>1, <1>2, <2>3, <3>1 DEF IInv, Covered
    <3> QED BY <1>5, <3>1, <3>2, <3>3 DEF IInv, Covered
  <2> QED BY <1>1, <1>2, <2>1, <2>2, <2>3
<1>7. reader'.start <= n
    BY <1>1, <1>2, <1>5 DEF IInv, Covered
<1>8. Covered'
    BY <1>1, <1>2, <1>3, <1>4, <1>5, <1>6, <1>7 DEF Covered
<1> QED BY <1>1, <1>4, <1>5, <1>8 DEF IInv, TypeOK

LEMMA InitOK ==
    ASSUME Init
    PROVE  IInv
<1>1. TypeOK
    BY DEF Init, TypeOK, NewReader, Reader
<1>2. Covered
    BY DEF Init, Covered, NewReader
<1> QED BY <1>1, <1>2 DEF IInv

LEMMA StepOK ==
    ASSUME IInv, [Next]_vars
    PROVE  IInv'
<1>1. ASSUME NEW team \in Teams, NEW c \in Calls,
             NEW tier \in {"l1", "l2", "model"}, NEW done \in 1..2,
             Serve(team, c, tier, done)
      PROVE  IInv'
    BY <1>1, ServeOK
<1>2. ASSUME NEW team \in Teams, NEW c \in Calls, ServeStream(team, c)
      PROVE  IInv'
    BY <1>2, ServeStreamOK
<1>3. ASSUME NEW team \in Teams, NEW c \in Calls, RejectOverBudget(team, c)
      PROVE  IInv'
    BY <1>3, RejectOK
<1>4. CASE StreamFails
    BY <1>4, StreamFailsOK
<1>5. ASSUME NEW id \in 1..Len(rows), NEW wrong \in BOOLEAN, Feedback(id, wrong)
      PROVE  IInv'
    BY <1>5, FeedbackOK
<1>6. CASE ReadPage
    BY <1>6, ReadPageOK
<1>7. CASE ReadAgain
  <2>1. TypeOK' /\ reader' = NewReader
      BY <1>7 DEF ReadAgain, IInv, TypeOK, NewReader, Reader
  <2> QED BY <2>1 DEF IInv, Covered, NewReader
<1>8. CASE UNCHANGED vars
    BY <1>8 DEF vars, IInv, TypeOK, Covered
<1> QED BY <1>1, <1>2, <1>3, <1>4, <1>5, <1>6, <1>7, <1>8 DEF Next

(***************************************************************************)
(* The theorems.                                                           *)
(***************************************************************************)
LEMMA Invariant == Spec => []IInv
<1>1. Init => IInv
    BY InitOK
<1>2. IInv /\ [Next]_vars => IInv'
    BY StepOK
<1> QED BY <1>1, <1>2, PTL DEF Spec

\* Every row that either writer inserts, and every mark, is well formed
\* (log_request of both writers, update_feedback).
THEOREM LedgerTyped == Spec => []TypeOK
<1>1. IInv => TypeOK
    BY DEF IInv
<1> QED BY <1>1, Invariant, PTL

\* Newest first and by offset, a reader turning pages of any size while any
\* number of requests is logged has seen every row there was when it began
\* once it has turned the last page (get_ledger).
THEOREM PagingComplete == Spec => []PagingSkipsNothing
<1>1. ASSUME IInv PROVE PagingSkipsNothing
  <2> SUFFICES ASSUME reader.offset > 0, reader.offset >= reader.total,
                      NEW id \in 1..reader.start
               PROVE  id \in reader.seen
      BY DEF PagingSkipsNothing
  <2>1. reader.offset \in Nat /\ reader.start \in Nat /\ reader.total \in Nat
      BY <1>1 DEF IInv, TypeOK, Reader
  <2>2. id > reader.total - reader.offset
      BY <2>1
  <2> QED BY <1>1, <2>2 DEF IInv, Covered
<1> QED BY <1>1, Invariant, PTL

\* The ids of the rows.
LEMMA RowIds ==
    ASSUME IInv
    PROVE  Len(rows) \in Nat /\ DOMAIN rows = 1..Len(rows)
BY LenProperties DEF IInv, TypeOK

(***************************************************************************)
(* What the rows say of the answers.                                       *)
(*                                                                         *)
(* The metrics and the spend of a team are computed from the rows alone.   *)
(* They describe the answers because every answer that was audited owns    *)
(* one row, and no other row is counted: the answers and the rows that     *)
(* count are paired by the id that the caller was given.                   *)
(***************************************************************************)
Audits(row, a) ==
    /\ a.tier # "stream" /\ row.team = a.team /\ row.status = 200
    /\ row.hit = (a.tier # "model")
    /\ row.cache_tier = IF a.tier = "model" THEN None ELSE a.tier
    /\ row.cost = IF a.tier = "model" THEN a.call.cost ELSE 0
    /\ row.wrong = a.wrong

\* The rows of Store, and those of requests refused over their budget.
Uncounted(row) == row.cache_tier = None /\ (row.team = None \/ row.cost = 0)

Owns(i, id) == served[i].log_id = id

Linked ==
    /\ \A i \in DOMAIN served : served[i].log_id # 0 =>
          /\ served[i].log_id \in DOMAIN rows
          /\ Audits(rows[served[i].log_id], served[i])
    /\ \A i, j \in DOMAIN served :
          served[i].log_id = served[j].log_id /\ served[i].log_id # 0 => i = j
    /\ \A id \in DOMAIN rows :
          (\E i \in DOMAIN served : Owns(i, id)) \/ Uncounted(rows[id])

\* Rows are added after those there are, the others stay as they are.
Adds ==
    /\ DOMAIN rows \subseteq DOMAIN rows'
    /\ \A id \in DOMAIN rows : rows'[id] = rows[id]

LEMMA RowsLinked ==
    ASSUME Linked, Adds, UNCHANGED served,
           \A id \in DOMAIN rows' \ DOMAIN rows : Uncounted(rows'[id])
    PROVE  Linked'
<1>1. \A i \in DOMAIN served' : served'[i].log_id # 0 =>
         /\ served'[i].log_id \in DOMAIN rows'
         /\ Audits(rows'[served'[i].log_id], served'[i])
    BY DEF Linked, Adds
<1>2. \A i, j \in DOMAIN served' :
         served'[i].log_id = served'[j].log_id /\ served'[i].log_id # 0 => i = j
    BY DEF Linked
<1>3. ASSUME NEW id \in DOMAIN rows'
      PROVE  (\E i \in DOMAIN served' : Owns(i, id)') \/ Uncounted(rows'[id])
    BY DEF Linked, Adds, Owns
<1> QED BY <1>1, <1>2, <1>3 DEF Linked

LEMMA AnswerLinked ==
    ASSUME IInv, Linked, Adds, NEW a, served' = Append(served, a),
           a.log_id # 0 => /\ a.log_id \in DOMAIN rows' \ DOMAIN rows
                           /\ Audits(rows'[a.log_id], a),
           \A id \in DOMAIN rows' \ DOMAIN rows :
              id = a.log_id \/ Uncounted(rows'[id])
    PROVE  Linked'
<1> DEFINE m == Len(served)
<1>1. served \in Seq(Served) /\ m \in Nat /\ DOMAIN served = 1..m
    BY LenProperties DEF IInv, TypeOK
<1>2. /\ DOMAIN served' = 1..m + 1 /\ served'[m + 1] = a
      /\ \A i \in 1..m : served'[i] = served[i]
    BY <1>1
<1>3. ASSUME NEW i \in DOMAIN served', served'[i].log_id # 0
      PROVE  /\ served'[i].log_id \in DOMAIN rows'
             /\ Audits(rows'[served'[i].log_id], served'[i])
  <2>1. CASE i = m + 1
      BY <1>2, <1>3, <2>1
  <2>2. CASE i \in 1..m
    <3>1. /\ served[i].log_id \in DOMAIN rows
          /\ Audits(rows[served[i].log_id], served[i])
        BY <1>1, <1>2, <1>3, <2>2 DEF Linked
    <3> QED BY <1>2, <2>2, <3>1 DEF Adds
  <2> QED BY <1>1, <1>2, <2>1, <2>2
<1>4. ASSUME NEW i \in DOMAIN served', NEW j \in DOMAIN served',
             served'[i].log_id = served'[j].log_id, served'[i].log_id # 0
      PROVE  i = j
  <2>1. \A k \in 1..m : served[k].log_id # 0 => served[k].log_id \in DOMAIN rows
      BY <1>1 DEF Linked
  <2>2. a.log_id # 0 => a.log_id \notin DOMAIN rows
      OBVIOUS
  <2>3. CASE i \in 1..m /\ j \in 1..m
      BY <1>1, <1>2, <1>4, <2>3 DEF Linked
  <2>4. CASE i = m + 1 \/ j = m + 1
      BY <1>1, <1>2, <1>4, <2>1, <2>2, <2>4
  <2> QED BY <1>1, <1>2, <2>3, <2>4
<1>5. ASSUME NEW id \in DOMAIN rows'
      PROVE  (\E i \in DOMAIN served' : Owns(i, id)') \/ Uncounted(rows'[id])
  <2>1. CASE id \in DOMAIN rows
    <3>1. CASE Uncounted(rows[id])
        BY <2>1, <3>1 DEF Adds
    <3>2. ASSUME NEW i \in DOMAIN served, Owns(i, id)
          PROVE  i \in DOMAIN served' /\ Owns(i, id)'
        BY <1>1, <1>2, <3>2 DEF Owns
    <3> QED BY <2>1, <3>1, <3>2 DEF Linked
  <2>2. CASE id = a.log_id
      BY <1>1, <1>2, <2>2 DEF Owns
  <2> QED BY <2>1, <2>2
<1> QED BY <1>3, <1>4, <1>5 DEF Linked

(***************************************************************************)
(* Rows appended to the table.                                             *)
(***************************************************************************)
LEMMA AddsOne ==
    ASSUME IInv, NEW r, rows' = Append(rows, r)
    PROVE  /\ Adds
           /\ DOMAIN rows' = DOMAIN rows \cup {Len(rows) + 1}
           /\ rows'[Len(rows) + 1] = r
<1>1. rows \in Seq(Row) /\ Len(rows) \in Nat /\ DOMAIN rows = 1..Len(rows)
    BY RowIds DEF IInv, TypeOK
<1>2. /\ DOMAIN rows' = 1..Len(rows) + 1 /\ rows'[Len(rows) + 1] = r
      /\ \A id \in 1..Len(rows) : rows'[id] = rows[id]
    BY <1>1
<1> QED BY <1>1, <1>2 DEF Adds

LEMMA AddsTwo ==
    ASSUME IInv, NEW r \in Row, NEW q \in Row, rows' = rows \o <<r, q>>
    PROVE  /\ Adds
           /\ DOMAIN rows' \ DOMAIN rows = {Len(rows) + 1, Len(rows) + 2}
           /\ rows'[Len(rows) + 1] = r /\ rows'[Len(rows) + 2] = q
<1>1. rows \in Seq(Row) /\ Len(rows) \in Nat /\ DOMAIN rows = 1..Len(rows)
    BY RowIds DEF IInv, TypeOK
<1>2. /\ DOMAIN rows' = 1..Len(rows) + 2
      /\ rows'[Len(rows) + 1] = r /\ rows'[Len(rows) + 2] = q
      /\ \A id \in 1..Len(rows) : rows'[id] = rows[id]
    BY <1>1
<1> QED BY <1>1, <1>2 DEF Adds

LEMMA StoreRowUncounted ==
    ASSUME NEW p, NEW q, NEW c, NEW h, NEW s
    PROVE  Uncounted(StoreRow(p, q, c, h, s))
BY DEF Uncounted, StoreRow

LEMMA ServeLinked ==
    ASSUME IInv, Linked, NEW team \in Teams, NEW c \in Calls,
           NEW tier \in {"l1", "l2", "model"}, NEW done \in 1..2,
           Serve(team, c, tier, done)
    PROVE  Linked'
<1>1. PICK first : /\ first \in Row /\ Uncounted(first)
                   /\ rows' = rows \o (IF done = 2
                                       THEN <<first, AuditRow(team, c, tier)>>
                                       ELSE <<first>>)
  <2> DEFINE f == IF tier = "model"
                  THEN StoreRow(c.prompt, c.completion, c.cost, FALSE, 200)
                  ELSE StoreRow(0, 0, 0, TRUE, 200)
  <2>1. f \in Row
      BY CallType DEF StoreRow, Row
  <2>2. Uncounted(f)
      BY StoreRowUncounted
  <2>3. rows' = rows \o (IF done = 2 THEN <<f, AuditRow(team, c, tier)>>
                                     ELSE <<f>>)
      BY DEF Serve
  <2> QED BY <2>1, <2>2, <2>3
<1>2. PICK a : /\ a = [team |-> team, call |-> c, tier |-> tier,
                       log_id |-> IF done = 2 THEN LogId(rows) ELSE 0,
                       wrong |-> FALSE]
               /\ served' = Append(served, a)
    BY DEF Serve
<1>3. rows \in Seq(Row) /\ Len(rows) \in Nat /\ DOMAIN rows = 1..Len(rows)
    BY RowIds DEF IInv, TypeOK
<1>4. CASE done = 2
  <2>1. PICK audit \in Row : audit = AuditRow(team, c, tier)
      BY AuditRowType
  <2>2. rows' = rows \o <<first, audit>>
      BY <1>1, <1>4, <2>1
  <2>3. /\ Adds
        /\ DOMAIN rows' \ DOMAIN rows = {Len(rows) + 1, Len(rows) + 2}
        /\ rows'[Len(rows) + 1] = first /\ rows'[Len(rows) + 2] = audit
      BY <1>1, <2>2, AddsTwo
  <2>4. Audits(audit, a)
      BY <1>2, <2>1 DEF Audits, AuditRow
  <2>5. a.log_id = Len(rows) + 2
      BY <1>2, <1>4 DEF LogId
  <2> QED BY <1>1, <1>2, <2>3, <2>4, <2>5, AnswerLinked
<1>5. CASE done = 1
  <2>1. rows' = Append(rows, first)
      BY <1>1, <1>3, <1>5
  <2>2. /\ Adds /\ DOMAIN rows' = DOMAIN rows \cup {Len(rows) + 1}
        /\ rows'[Len(rows) + 1] = first
      BY <2>1, AddsOne
  <2>3. a.log_id = 0
      BY <1>2, <1>5
  <2> QED BY <1>1, <1>2, <2>2, <2>3, AnswerLinked
<1> QED BY <1>4, <1>5

LEMMA ServeStreamLinked ==
    ASSUME IInv, Linked, NEW team \in Teams, NEW c \in Calls,
           ServeStream(team, c)
    PROVE  Linked'
<1>1. PICK r : /\ Uncounted(r) /\ rows' = Append(rows, r)
    BY StoreRowUncounted DEF ServeStream
<1>2. PICK a : a.log_id = 0 /\ served' = Append(served, a)
  <2> DEFINE x == [team |-> team, call |-> c, tier |-> "stream",
                   log_id |-> 0, wrong |-> FALSE]
  <2>1. x.log_id = 0 /\ served' = Append(served, x)
      BY DEF ServeStream
  <2> QED BY <2>1
<1>3. /\ Adds /\ DOMAIN rows' = DOMAIN rows \cup {Len(rows) + 1}
      /\ rows'[Len(rows) + 1] = r
    BY <1>1, AddsOne
<1> QED BY <1>1, <1>2, <1>3, AnswerLinked

LEMMA RejectLinked ==
    ASSUME IInv, Linked, NEW team \in Teams, NEW c \in Calls,
           RejectOverBudget(team, c)
    PROVE  Linked'
<1>1. PICK r \in Row : Uncounted(r) /\ r = StoreRow(0, 0, 0, FALSE, 402)
    BY StoreRowUncounted DEF StoreRow, Row
<1>2. PICK q \in Row : Uncounted(q) /\ q = RejectedRow(team, c)
  <2> DEFINE x == RejectedRow(team, c)
  <2>1. x \in Row
      BY CallType DEF RejectedRow, Row
  <2>2. Uncounted(x)
      BY DEF RejectedRow, Uncounted
  <2> HIDE DEF x
  <2> QED BY <2>1, <2>2 DEF x
<1>3. rows' = rows \o <<r, q>> /\ UNCHANGED served
    BY <1>1, <1>2 DEF RejectOverBudget
<1>4. /\ Adds
      /\ DOMAIN rows' \ DOMAIN rows = {Len(rows) + 1, Len(rows) + 2}
      /\ rows'[Len(rows) + 1] = r /\ rows'[Len(rows) + 2] = q
    BY <1>3, AddsTwo
<1>5. \A id \in DOMAIN rows' \ DOMAIN rows : Uncounted(rows'[id])
    BY <1>1, <1>2, <1>4
<1> QED BY <1>3, <1>4, <1>5, RowsLinked

LEMMA StreamFailsLinked ==
    ASSUME IInv, Linked, StreamFails
    PROVE  Linked'
<1>1. PICK r : Uncounted(r) /\ rows' = Append(rows, r)
    BY StoreRowUncounted DEF StreamFails
<1>2. /\ Adds /\ DOMAIN rows' = DOMAIN rows \cup {Len(rows) + 1}
      /\ rows'[Len(rows) + 1] = r
    BY <1>1, AddsOne
<1> QED BY <1>1, <1>2, RowsLinked DEF StreamFails

\* A mark reaches the row and the answer that owns it together.
LEMMA FeedbackLinked ==
    ASSUME IInv, Linked, NEW id, NEW wrong \in BOOLEAN, Feedback(id, wrong)
    PROVE  Linked'
<1>1. /\ rows \in Seq(Row) /\ DOMAIN rows = 1..Len(rows)
      /\ served \in Seq(Served) /\ DOMAIN served = 1..Len(served)
    BY RowIds, LenProperties DEF IInv, TypeOK
<1>2. /\ \A k \in DOMAIN rows : rows[k] \in Row
      /\ \A i \in DOMAIN served : served[i] \in Served
    BY <1>1, ElementOfSeq
<1>3. /\ DOMAIN rows' = DOMAIN rows /\ id \in DOMAIN rows
      /\ rows'[id] = [rows[id] EXCEPT !.wrong = wrong]
      /\ \A k \in DOMAIN rows \ {id} : rows'[k] = rows[k]
    BY <1>1 DEF Feedback
<1>4. /\ DOMAIN served' = DOMAIN served
      /\ \A i \in DOMAIN served :
            served'[i] = IF served[i].log_id = id
                         THEN [served[i] EXCEPT !.wrong = wrong] ELSE served[i]
    BY DEF Feedback
<1>5. \A i \in DOMAIN served : served'[i].log_id = served[i].log_id
    BY <1>2, <1>4 DEF Served
<1>6. ASSUME NEW i \in DOMAIN served', served'[i].log_id # 0
      PROVE  /\ served'[i].log_id \in DOMAIN rows'
             /\ Audits(rows'[served'[i].log_id], served'[i])
  <2>1. PICK k \in DOMAIN rows : /\ k = served[i].log_id
                                 /\ Audits(rows[k], served[i])
      BY <1>4, <1>5, <1>6 DEF Linked
  <2>2. CASE k = id
    <3>1. rows[k] \in Row /\ served[i] \in Served
        BY <1>2, <1>4
    <3>2. Audits([rows[k] EXCEPT !.wrong = wrong],
                 [served[i] EXCEPT !.wrong = wrong])
        BY <2>1, <3>1 DEF Audits, Row, Served
    <3> QED BY <1>3, <1>4, <1>5, <2>1, <2>2, <3>2
  <2>3. CASE k # id
      BY <1>3, <1>4, <2>1, <2>3
  <2> QED BY <2>2, <2>3
<1>7. ASSUME NEW i \in DOMAIN served', NEW j \in DOMAIN served',
             served'[i].log_id = served'[j].log_id, served'[i].log_id # 0
      PROVE  i = j
    BY <1>4, <1>5, <1>7 DEF Linked
<1>8. ASSUME NEW k \in DOMAIN rows'
      PROVE  (\E i \in DOMAIN served' : Owns(i, k)') \/ Uncounted(rows'[k])
  <2>1. CASE Uncounted(rows[k])
    <3>1. Uncounted([rows[k] EXCEPT !.wrong = wrong])
        BY <1>2, <1>3, <2>1 DEF Uncounted, Row
    <3> QED BY <1>3, <2>1, <3>1
  <2>2. ASSUME NEW i \in DOMAIN served, Owns(i, k)
        PROVE  i \in DOMAIN served' /\ Owns(i, k)'
      BY <1>4, <1>5, <2>2 DEF Owns
  <2> QED BY <1>3, <2>1, <2>2 DEF Linked
<1> QED BY <1>6, <1>7, <1>8 DEF Linked

LEMMA LinkStepOK ==
    ASSUME IInv, Linked, [Next]_vars
    PROVE  Linked'
<1>1. ASSUME NEW team \in Teams, NEW c \in Calls,
             NEW tier \in {"l1", "l2", "model"}, NEW done \in 1..2,
             Serve(team, c, tier, done)
      PROVE  Linked'
    BY <1>1, ServeLinked
<1>2. ASSUME NEW team \in Teams, NEW c \in Calls, ServeStream(team, c)
      PROVE  Linked'
    BY <1>2, ServeStreamLinked
<1>3. ASSUME NEW team \in Teams, NEW c \in Calls, RejectOverBudget(team, c)
      PROVE  Linked'
    BY <1>3, RejectLinked
<1>4. CASE StreamFails
    BY <1>4, StreamFailsLinked
<1>5. ASSUME NEW id \in 1..Len(rows), NEW wrong \in BOOLEAN, Feedback(id, wrong)
      PROVE  Linked'
    BY <1>5, FeedbackLinked
<1>6. CASE UNCHANGED <<rows, served>>
    BY <1>6 DEF Linked, Owns
<1>7. CASE ReadPage \/ ReadAgain \/ UNCHANGED vars
    BY <1>6, <1>7 DEF ReadPage, ReadAgain, vars
<1> QED BY <1>1, <1>2, <1>3, <1>4, <1>5, <1>7 DEF Next

LEMMA LinkInvariant == Spec => [](IInv /\ Linked)
<1>1. Init => Linked
    BY DEF Init, Linked
<1>2. IInv /\ Linked /\ [Next]_vars => Linked'
    BY LinkStepOK
<1> QED BY <1>1, <1>2, Invariant, PTL DEF Spec

(***************************************************************************)
(* From the pairs to the sums.                                             *)
(***************************************************************************)
LEMMA ServedFacts ==
    ASSUME IInv
    PROVE  /\ IsFiniteSet(DOMAIN served) /\ IsFiniteSet(DOMAIN rows)
           /\ \A i \in DOMAIN served : served[i] \in Served
           /\ \A id \in DOMAIN rows : rows[id] \in Row
<1>1. /\ rows \in Seq(Row) /\ DOMAIN rows = 1..Len(rows) /\ Len(rows) \in Nat
      /\ served \in Seq(Served) /\ DOMAIN served = 1..Len(served)
      /\ Len(served) \in Nat
    BY RowIds, LenProperties DEF IInv, TypeOK
<1>2. \A n \in Nat : IsFiniteSet(1..n)
    BY FS_Interval
<1> QED BY <1>1, <1>2, ElementOfSeq

\* The row of an answer.
RowOf == [i \in DOMAIN served |-> served[i].log_id]

LEMMA LoggedRow ==
    ASSUME IInv, Linked, NEW tier, NEW i \in Logged(tier)
    PROVE  /\ i \in DOMAIN served /\ RowOf[i] \in DOMAIN rows
           /\ served[i].tier = tier /\ Audits(rows[RowOf[i]], served[i])
           /\ \A j \in Logged(tier) : RowOf[i] = RowOf[j] => i = j
BY DEF Logged, Linked, RowOf

\* A row that is counted belongs to an answer.
LEMMA OwnedRow ==
    ASSUME IInv, Linked, NEW id \in DOMAIN rows, ~Uncounted(rows[id])
    PROVE  \E i \in DOMAIN served : /\ served[i].log_id # 0 /\ RowOf[i] = id
                                    /\ Audits(rows[id], served[i])
<1>1. PICK i \in DOMAIN served : Owns(i, id)
    BY DEF Linked
<1>2. id # 0
    BY RowIds
<1> QED BY <1>1, <1>2 DEF Linked, Owns, RowOf

\* Rows of the l2 tier, all of them or those marked wrong.
Semantic == {id \in DOMAIN rows : /\ rows[id].status = 200 /\ rows[id].hit
                                  /\ rows[id].cache_tier = "l2"}

LEMMA SemanticPairs ==
    ASSUME IInv, Linked
    PROVE  /\ Pairs(RowOf, Logged("l2"), Semantic)
           /\ Pairs(RowOf, {i \in Logged("l2") : served[i].wrong},
                           {id \in Semantic : rows[id].wrong})
<1>1. ASSUME NEW i \in Logged("l2")
      PROVE  /\ RowOf[i] \in Semantic
             /\ rows[RowOf[i]].wrong = served[i].wrong
  <2>1. PICK t : t = "l2"
      OBVIOUS
  <2>2. /\ RowOf[i] \in DOMAIN rows /\ served[i].tier = t
        /\ Audits(rows[RowOf[i]], served[i])
      BY <2>1, LoggedRow
  <2> QED BY <2>1, <2>2 DEF Audits, Semantic
<1>2. \A i, j \in Logged("l2") : RowOf[i] = RowOf[j] => i = j
    BY LoggedRow
<1>3. ASSUME NEW id \in Semantic
      PROVE  \E i \in Logged("l2") : RowOf[i] = id
  <2>1. id \in DOMAIN rows /\ ~Uncounted(rows[id])
      BY LedgerAssumption DEF Semantic, Uncounted
  <2>2. PICK i \in DOMAIN served : /\ served[i].log_id # 0 /\ RowOf[i] = id
                                   /\ Audits(rows[id], served[i])
      BY <2>1, OwnedRow
  <2>3. served[i].tier = "l2"
      BY <2>2, LedgerAssumption DEF Semantic, Audits
  <2> QED BY <2>2, <2>3 DEF Logged
<1> QED BY <1>1, <1>2, <1>3 DEF Pairs

LEMMA PrecisionFollows ==
    ASSUME IInv, Linked
    PROVE  PrecisionMatchesFeedback
<1>1. PICK L : L = Logged("l2")
    OBVIOUS
<1>2. PICK M : M = {i \in L : served[i].wrong}
    OBVIOUS
<1>3. IsFiniteSet(L) /\ IsFiniteSet(M)
  <2>1. L \subseteq DOMAIN served /\ M \subseteq DOMAIN served
      BY <1>1, <1>2 DEF Logged
  <2> QED BY <2>1, ServedFacts, FS_Subset
<1>4. PICK W : W = {id \in Semantic : rows[id].wrong}
    OBVIOUS
<1>5. PICK S : S = Semantic
    OBVIOUS
<1>6. Pairs(RowOf, L, S) /\ Pairs(RowOf, M, W)
    BY <1>1, <1>2, <1>4, <1>5, SemanticPairs
<1>7. Cardinality(S) = Cardinality(L) /\ Cardinality(W) = Cardinality(M)
    BY <1>3, <1>6, PairedSize
<1>8. ResearchMetrics.l2_hits = Cardinality(S)
  <2>1. S = {id \in {k \in DOMAIN rows : rows[k].status = 200} :
                rows[id].hit /\ rows[id].cache_tier = "l2"}
      BY <1>5 DEF Semantic
  <2> QED BY <2>1 DEF ResearchMetrics
<1>9. ResearchMetrics.wrong_l2 = Cardinality(W)
  <2>1. W = {id \in {x \in {k \in DOMAIN rows : rows[k].status = 200} :
                        rows[x].hit /\ rows[x].cache_tier = "l2"} :
                rows[id].wrong}
      BY <1>4 DEF Semantic
  <2> QED BY <2>1 DEF ResearchMetrics
<1> QED BY <1>1, <1>2, <1>7, <1>8, <1>9 DEF PrecisionMatchesFeedback

\* Of the rows of a team, those that cost something are the rows of the
\* answers of its models.
LEMMA SpendFollows ==
    ASSUME IInv, Linked
    PROVE  TeamSpendMatchesAnswers
<1> SUFFICES ASSUME NEW team \in Teams
             PROVE  TeamSpend(team)
                       = SumOver([i \in DOMAIN served |-> served[i].call.cost],
                                 {i \in Logged("model") : served[i].team = team})
    BY DEF TeamSpendMatchesAnswers
<1>1. PICK cost : cost = [id \in DOMAIN rows |-> rows[id].cost]
    OBVIOUS
<1>2. PICK bill : bill = [i \in DOMAIN served |-> served[i].call.cost]
    OBVIOUS
<1>3. PICK Ours : Ours = {id \in DOMAIN rows : rows[id].team = team}
    OBVIOUS
<1>4. PICK model : model = "model"
    OBVIOUS
<1>5. PICK Paid : Paid = {i \in Logged(model) : served[i].team = team}
    OBVIOUS
<1>6. PICK Mine : Mine = {RowOf[i] : i \in Paid}
    OBVIOUS
<1>7. ASSUME NEW i \in Paid
      PROVE  /\ i \in DOMAIN served /\ RowOf[i] \in Ours
             /\ cost[RowOf[i]] = bill[i] /\ bill[i] \in Nat
             /\ \A j \in Paid : RowOf[i] = RowOf[j] => i = j
  <2>1. i \in Logged(model) /\ served[i].team = team
      BY <1>5
  <2>2. /\ i \in DOMAIN served /\ RowOf[i] \in DOMAIN rows
        /\ served[i].tier = model /\ Audits(rows[RowOf[i]], served[i])
        /\ \A j \in Logged(model) : RowOf[i] = RowOf[j] => i = j
      BY <2>1, LoggedRow
  <2>3. rows[RowOf[i]].team = team /\ rows[RowOf[i]].cost = served[i].call.cost
      BY <1>4, <2>1, <2>2 DEF Audits
  <2>4. served[i].call.cost \in Nat
      BY <2>2, ServedFacts, CallType DEF Served
  <2> QED BY <1>1, <1>2, <1>3, <1>5, <2>2, <2>3, <2>4
<1>8. Pairs(RowOf, Paid, Mine)
    BY <1>6, <1>7 DEF Pairs
<1>9. IsFiniteSet(Ours) /\ IsFiniteSet(Paid)
  <2>1. Ours \subseteq DOMAIN rows /\ Paid \subseteq DOMAIN served
      BY <1>3, <1>7
  <2> QED BY <2>1, ServedFacts, FS_Subset
<1>10. Amounts(bill, Paid) /\ Amounts(cost, Ours)
  <2>1. \A id \in DOMAIN rows : rows[id].cost \in Nat
      BY ServedFacts DEF Row
  <2> QED BY <1>1, <1>3, <1>7, <2>1 DEF Amounts
<1>11. SumOver(cost, Mine) = SumOver(bill, Paid)
    BY <1>7, <1>8, <1>9, <1>10, SumPaired
<1>12. Mine \in SUBSET Ours
    BY <1>6, <1>7
<1>13. ASSUME NEW id \in Ours \ Mine
       PROVE  cost[id] = 0
  <2>1. /\ id \in DOMAIN rows /\ rows[id].team = team
        /\ cost[id] = rows[id].cost
      BY <1>1, <1>3
  <2>2. CASE Uncounted(rows[id])
      BY <2>1, <2>2, LedgerAssumption DEF Uncounted
  <2>3. CASE ~Uncounted(rows[id])
    <3>1. PICK i \in DOMAIN served : /\ served[i].log_id # 0 /\ RowOf[i] = id
                                     /\ Audits(rows[id], served[i])
        BY <2>1, <2>3, OwnedRow
    <3>2. served[i].team = team /\ i \notin Paid
        BY <1>6, <2>1, <3>1 DEF Audits
    <3>3. served[i].tier # model
        BY <1>5, <3>1, <3>2 DEF Logged
    <3> QED BY <1>4, <2>1, <3>1, <3>3 DEF Audits
  <2> QED BY <2>2, <2>3
<1>14. SumOver(cost, Ours) = SumOver(cost, Mine)
    BY <1>9, <1>10, <1>12, <1>13, SumZeros
<1>15. TeamSpend(team) = SumOver(cost, Ours)
    BY <1>1, <1>3 DEF TeamSpend
<1> QED BY <1>2, <1>4, <1>5, <1>11, <1>14, <1>15

\* The precision of the metrics is that of the semantic answers that were
\* logged, by the last word on each, for any number of requests, crashes
\* between the two rows and marks (log_request, update_feedback).
THEOREM PrecisionIsOfAnswers == Spec => []PrecisionMatchesFeedback
<1>1. IInv /\ Linked => PrecisionMatchesFeedback
    BY PrecisionFollows
<1> QED BY <1>1, LinkInvariant, PTL

\* The spend of a team is the cost of the answers that were logged for it:
\* its rows bill none twice, and no row of Store, of a hit or of a refused
\* request adds to it (list_teams).
THEOREM SpendIsOfAnswers == Spec => []TeamSpendMatchesAnswers
<1>1. IInv /\ Linked => TeamSpendMatchesAnswers
    BY SpendFollows
<1> QED BY <1>1, LinkInvariant, PTL
=============================================================================
