----------------------------- MODULE MCAccounts -----------------------------
(***************************************************************************)
(* A small company: a demonstration employee, two registrations, an address*)
(* that SQLite and Python fold differently, a team whose name has a space. *)
(***************************************************************************)
EXTENDS Accounts, TLC

CONSTANTS dave, e1, e2, kDave, kDev, k1, k2

\* "O@x" and "o@x" differ in an ASCII letter, "E@x" and "e@x" in an accented
\* one: Python folds both pairs, SQLite only the first.
MCAddresses == {"dave", "O@x", "o@x", "E@x", "e@x"}
MCLower == [a \in MCAddresses |-> CASE a = "O@x" -> "o@x" [] a = "E@x" -> "e@x"
                                    [] OTHER -> a]
MCSqlLower == [a \in MCAddresses |-> IF a = "O@x" THEN "o@x" ELSE a]

MCTeamNames == {"platform", "Data Lab", "data lab", "data-lab"}
MCFold == [t \in MCTeamNames |-> IF t = "Data Lab" THEN "data lab" ELSE t]
MCSlug == [t \in MCTeamNames |-> IF t = "platform" THEN t ELSE "data-lab"]

Row(tokens) == [allowed |-> {}, max_usd |-> NoCap, max_tokens |-> tokens,
                cache_enabled |-> TRUE]
MCDefaultRow == Row(2)
MCDevRow == Row(NoCap)
MCCliRows == {Row(1)}

MCDemo == dave :> [email |-> "dave", team |-> "platform", key |-> kDave,
                   pw |-> "secret"]
MCDemoTeams == "platform" :> 1
MCSeed == [k \in Keys |-> IF k = kDev THEN MCDevRow ELSE Absent]

Symmetry == Permutations({e1, e2}) \cup Permutations({k1, k2})
=============================================================================
