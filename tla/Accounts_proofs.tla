--------------------------- MODULE Accounts_proofs ---------------------------
(***************************************************************************)
(* Proofs about employees and their keys, for every set of ids, addresses, *)
(* keys and teams, and every way of normalising addresses.                 *)
(***************************************************************************)
EXTENDS Accounts, TLAPS

(***************************************************************************)
(* The inductive invariant.  Addresses are stored in the form str.lower    *)
(* leaves alone, so that UNIQUE on the stored form separates them whatever *)
(* LOWER of SQLite makes of them; and nobody registers over a demonstration*)
(* employee's address or key, which start-up writes again.                 *)
(***************************************************************************)
Separate ==
    \A i, j \in Registered : i # j =>
        employees[i].email # employees[j].email /\ KeyOf(i) # KeyOf(j)

StoredLower ==
    \A i \in Registered : Lower[employees[i].email] = employees[i].email

DemoStays ==
    \A i \in DOMAIN Demo : /\ i \in Registered
                           /\ employees[i].email = Demo[i].email
                           /\ KeyOf(i) = Demo[i].key

IInv == TypeOK /\ Separate /\ StoredLower /\ KeysFollowEmployees /\ DemoStays

\* What a step of an existing account may do: keep everybody's address and key.
SameAccounts ==
    /\ Registered' = Registered
    /\ \A i \in Registered : /\ employees'[i].email = employees[i].email
                             /\ employees'[i].key = employees[i].key

(***************************************************************************)
(* Facts about the values and the operators.                               *)
(***************************************************************************)
LEMMA AbsentIsNoValue ==
    /\ Absent \notin Ids /\ Absent \notin TeamNames /\ Absent \notin Employee
    /\ Absent \notin KeyRow /\ Absent \notin Budgets
BY SeedAssumption

LEMMA RegisteredType ==
    ASSUME TypeOK, NEW i \in Registered
    PROVE  /\ i \in Ids /\ employees[i] \in Employee /\ KeyOf(i) \in Keys
           /\ employees[i].email \in Addresses /\ employees[i].team \in TeamNames
           /\ employees[i].key \in Keys /\ employees[i].pw \in Passwords
<1>1. i \in Ids /\ employees[i] # Absent
    BY DEF Registered
<1>2. employees[i] \in Employee
    BY <1>1 DEF TypeOK
<1> QED BY <1>1, <1>2 DEF Employee, KeyOf

LEMMA MatchesType ==
    ASSUME TypeOK, NEW a \in Addresses, NEW i \in Matches(a)
    PROVE  i \in Registered
BY DEF Matches

LEMMA UpsertKeyType ==
    ASSUME TypeOK, NEW k \in Keys, NEW row \in KeyRow, UpsertKey(k, row)
    PROVE  /\ api_keys' \in [Keys -> KeyRow \cup {Absent}]
           /\ \A j \in Keys : api_keys[j] # Absent => api_keys'[j] # Absent
           /\ UNCHANGED usage
BY AbsentIsNoValue DEF UpsertKey, TypeOK, StoreTypeOK

LEMMA LimitsType ==
    ASSUME TypeOK, NEW k \in Keys, NEW upserted \in BOOLEAN, Limits(k, upserted)
    PROVE  /\ api_keys' \in [Keys -> KeyRow \cup {Absent}]
           /\ \A j \in Keys : api_keys[j] # Absent => api_keys'[j] # Absent
           /\ api_keys'[k] # Absent
BY AbsentIsNoValue, SeedAssumption DEF Limits, TypeOK, StoreTypeOK

\* The owner of a key that is written belongs to the account it is written for.
LEMMA EnsureKeyType ==
    ASSUME TypeOK, NEW k \in Keys, NEW i \in Ids, NEW t \in TeamNames,
           EnsureKey(k, i, t)
    PROVE  /\ owner' \in [Keys -> Owner]
           /\ \A j \in Keys \ {k} : owner'[j] = owner[j]
           /\ owner'[k].team = t
           /\ owner'[k].user = IF api_keys[k] = Absent THEN i ELSE owner[k].user
           /\ owner'[k] = [user |-> owner'[k].user, team |-> t]
BY DEF EnsureKey, TypeOK, Owner

\* A served request adds to the usage of its key and leaves the others alone.
LEMMA ServeType ==
    ASSUME TypeOK, NEW k \in Keys, Serve(k)
    PROVE  /\ usage' \in [Keys -> UsageRow]
           /\ log' \in [Keys -> LogTotals] /\ audit' \in [Keys -> LogTotals]
           /\ \A j \in Keys : usage'[j].total_tokens >= usage[j].total_tokens
<1>1. /\ usage' = RecordUsage(k, 1, 1, FALSE)
      /\ log' = LogOk(log, k, 1, 1) /\ audit' = LogOk(audit, k, 1, 1)
    BY DEF Serve, Settle, AllCommits
<1>2. /\ usage \in [Keys -> UsageRow] /\ log \in [Keys -> LogTotals]
      /\ audit \in [Keys -> LogTotals]
    BY DEF TypeOK, StoreTypeOK
<1>3. /\ log' \in [Keys -> LogTotals] /\ audit' \in [Keys -> LogTotals]
    BY <1>1, <1>2 DEF LogOk, LogTotals
<1>4. usage' \in [Keys -> UsageRow]
    BY <1>1, <1>2 DEF RecordUsage, UsageRow
<1>5. ASSUME NEW j \in Keys
      PROVE  usage'[j].total_tokens >= usage[j].total_tokens
  <2>1. usage[j].total_tokens \in Nat
      BY <1>2 DEF UsageRow
  <2>2. \/ usage'[j].total_tokens = usage[j].total_tokens
        \/ usage'[j].total_tokens = usage[j].total_tokens + 1
      BY <1>1, <1>2 DEF RecordUsage, UsageRow
  <2> QED BY <2>1, <2>2
<1> QED BY <1>3, <1>4, <1>5

\* Addresses, keys and the demonstration employees stay as they are when every
\* account keeps its address and its key.
LEMMA SameAccountsOK ==
    ASSUME IInv, SameAccounts
    PROVE  Separate' /\ StoredLower' /\ DemoStays'
<1>1. Separate'
    BY DEF IInv, SameAccounts, Separate, KeyOf
<1>2. StoredLower'
    BY DEF IInv, SameAccounts, StoredLower
<1>3. DemoStays'
    BY DEF IInv, SameAccounts, DemoStays, KeyOf
<1> QED BY <1>1, <1>2, <1>3

\* A step that touches neither employees nor owners and removes no row of a key.
LEMMA OtherStepOK ==
    ASSUME IInv, TypeOK', UNCHANGED <<employees, owner>>,
           \A k \in Keys : api_keys[k] # Absent => api_keys'[k] # Absent
    PROVE  IInv'
<1>1. SameAccounts
    BY DEF SameAccounts, Registered
<1>2. KeysFollowEmployees'
    BY RegisteredType DEF IInv, KeysFollowEmployees, Registered, KeyOf
<1> QED BY <1>1, <1>2, SameAccountsOK DEF IInv

(***************************************************************************)
(* Every step keeps the invariant.                                         *)
(***************************************************************************)
LEMMA RestartOK ==
    ASSUME IInv, Restart
    PROVE  IInv' /\ UNCHANGED usage /\ SameAccounts
<1>1. /\ api_keys' = [k \in Keys |-> StartRow(k, api_keys[k])]
      /\ owner' = [k \in Keys |-> StartOwner(k, api_keys[k], owner[k])]
      /\ employees' = [id \in Ids |-> IF id \in DOMAIN Demo THEN Demo[id]
                                                            ELSE employees[id]]
      /\ teams' = [t \in TeamNames |-> IF t \in DOMAIN DemoTeams
                                       THEN DemoTeams[t] ELSE teams[t]]
      /\ UNCHANGED <<usage, log, audit>>
    BY DEF Restart, Start
<1>2. \A k \in Keys : /\ StartRow(k, api_keys[k]) \in KeyRow \cup {Absent}
                      /\ api_keys[k] # Absent => StartRow(k, api_keys[k]) # Absent
    BY SeedAssumption, AbsentIsNoValue DEF IInv, TypeOK, StoreTypeOK, StartRow
<1>3. ASSUME NEW i \in DOMAIN Demo
      PROVE  \A old, row :
                StartOwner(Demo[i].key, row, old)
                   = [user |-> i, team |-> Demo[i].team]
  <2> DEFINE c == CHOOSE j \in DOMAIN Demo : Demo[j].key = Demo[i].key
  <2>1. c \in DOMAIN Demo /\ Demo[c].key = Demo[i].key
      OBVIOUS
  <2>2. c = i
      BY <2>1, SeedAssumption
  <2> QED BY <2>2 DEF StartOwner
<1>4. ASSUME NEW k \in Keys, \A i \in DOMAIN Demo : Demo[i].key # k,
             api_keys[k] # Absent
      PROVE  StartOwner(k, api_keys[k], owner[k]) = owner[k]
    BY <1>4 DEF StartOwner
<1>5. \A k \in Keys : StartOwner(k, api_keys[k], owner[k]) \in Owner
  <2> SUFFICES ASSUME NEW k \in Keys
               PROVE  StartOwner(k, api_keys[k], owner[k]) \in Owner
      OBVIOUS
  <2>1. owner[k] \in Owner
      BY DEF IInv, TypeOK
  <2>2. ASSUME NEW i \in DOMAIN Demo, Demo[i].key = k
        PROVE  StartOwner(k, api_keys[k], owner[k]) \in Owner
    <3>1. Demo[i].team \in TeamNames /\ i \in Ids
        BY SeedAssumption DEF Employee
    <3>2. StartOwner(k, api_keys[k], owner[k])
             = [user |-> i, team |-> Demo[i].team]
        BY <1>3, <2>2
    <3> QED BY <3>1, <3>2 DEF Owner
  <2>3. [user |-> DevUser, team |-> DevTeam] \in Owner
      BY SeedAssumption DEF Owner
  <2> QED BY <2>1, <2>2, <2>3 DEF StartOwner
<1>6. TypeOK'
  <2>1. StoreTypeOK'
      BY <1>1, <1>2 DEF IInv, TypeOK, StoreTypeOK
  <2>2. employees' \in [Ids -> Employee \cup {Absent}]
      BY <1>1, SeedAssumption DEF IInv, TypeOK
  <2>3. teams' \in [TeamNames -> Budgets \cup {Absent}]
      BY <1>1, SeedAssumption DEF IInv, TypeOK
  <2>4. owner' \in [Keys -> Owner]
      BY <1>1, <1>5
  <2> QED BY <2>1, <2>2, <2>3, <2>4 DEF TypeOK
<1>7. SameAccounts
  <2>1. \A i \in DOMAIN Demo : i \in Ids /\ Demo[i] # Absent
      BY SeedAssumption, AbsentIsNoValue
  <2> QED BY <1>1, <2>1 DEF IInv, DemoStays, SameAccounts, Registered, KeyOf
<1>8. KeysFollowEmployees'
  <2> SUFFICES ASSUME NEW i \in Registered
               PROVE  /\ api_keys'[employees'[i].key] # Absent
                      /\ owner'[employees'[i].key]
                            = [user |-> i, team |-> employees'[i].team]
      BY <1>7 DEF KeysFollowEmployees, SameAccounts, KeyOf
  <2>1. /\ i \in Ids /\ KeyOf(i) \in Keys /\ employees'[i].key = KeyOf(i)
        /\ api_keys[KeyOf(i)] # Absent
        /\ owner[KeyOf(i)] = [user |-> i, team |-> employees[i].team]
      BY <1>7, RegisteredType DEF IInv, KeysFollowEmployees, SameAccounts, KeyOf
  <2>2. CASE i \in DOMAIN Demo
      BY <1>1, <1>2, <1>3, <2>1, <2>2 DEF IInv, DemoStays
  <2>3. CASE i \notin DOMAIN Demo
    <3>1. \A j \in DOMAIN Demo : Demo[j].key # KeyOf(i)
        BY <2>3 DEF IInv, DemoStays, Separate
    <3>2. owner'[KeyOf(i)] = owner[KeyOf(i)]
        BY <1>1, <1>4, <2>1, <3>1
    <3>3. employees'[i] = employees[i]
        BY <1>1, <2>1, <2>3
    <3> QED BY <1>1, <1>2, <2>1, <3>2, <3>3
  <2> QED BY <2>2, <2>3
<1> QED BY <1>1, <1>6, <1>7, <1>8, SameAccountsOK DEF IInv

LEMMA RegisterNewOK ==
    ASSUME IInv, NEW a \in Addresses, NEW pw \in Passwords, NEW t \in TeamNames,
           NEW upserted \in BOOLEAN, RegisterNew(a, pw, t, upserted)
    PROVE  /\ IInv' /\ UNCHANGED usage
           /\ \A i \in Registered : /\ i \in Registered'
                                    /\ employees'[i] = employees[i]
<1>1. PICK n \in Ids \ Registered, k \in Keys :
          /\ api_keys[k] = Absent
          /\ employees' = [employees EXCEPT ![n] =
                [email |-> StoredAddress(a), team |-> t, key |-> k, pw |-> pw]]
          /\ EnsureKey(k, n, t)
          /\ Limits(k, upserted)
    BY DEF RegisterNew
<1>2. /\ UNCHANGED <<usage, log, audit, teams>>
      /\ \A i \in Registered : employees[i].email # Lower[a]
    BY DEF RegisterNew, StoredAddress
<1> DEFINE row == [email |-> Lower[a], team |-> t, key |-> k, pw |-> pw]
<1>3. row \in Employee /\ row # Absent /\ Lower[row.email] = row.email
    BY NameAssumption, AbsentIsNoValue DEF Employee
<1>4. /\ employees'[n] = row
      /\ \A i \in Ids \ {n} : employees'[i] = employees[i]
      /\ employees' \in [Ids -> Employee \cup {Absent}]
    BY <1>1, <1>3 DEF IInv, TypeOK, StoredAddress
<1>5. Registered' = Registered \cup {n}
    BY <1>3, <1>4 DEF Registered
<1>6. \A i \in Registered : i # n /\ employees'[i] = employees[i]
    BY <1>4 DEF Registered
<1>7. /\ api_keys' \in [Keys -> KeyRow \cup {Absent}] /\ api_keys'[k] # Absent
       /\ \A j \in Keys : api_keys[j] # Absent => api_keys'[j] # Absent
    BY <1>1, LimitsType DEF IInv
<1>8. /\ owner' \in [Keys -> Owner] /\ owner'[k] = [user |-> n, team |-> t]
       /\ \A j \in Keys \ {k} : owner'[j] = owner[j]
  <2>1. TypeOK /\ n \in Ids /\ EnsureKey(k, n, t)
      BY <1>1 DEF IInv
  <2>2. /\ owner' \in [Keys -> Owner]
        /\ owner'[k] = [user |-> owner'[k].user, team |-> t]
        /\ owner'[k].user = n
        /\ \A j \in Keys \ {k} : owner'[j] = owner[j]
      BY <1>1, <2>1, EnsureKeyType
  <2> QED BY <2>2
<1>9. TypeOK'
    BY <1>2, <1>4, <1>7, <1>8 DEF IInv, TypeOK, StoreTypeOK
<1>10. \A i \in Registered : /\ KeyOf(i) \in Keys /\ KeyOf(i) # k
                            /\ api_keys[KeyOf(i)] # Absent
    BY <1>1, RegisteredType DEF IInv, KeysFollowEmployees
<1>11. Separate'
  <2> SUFFICES ASSUME NEW i \in Registered', NEW j \in Registered', i # j
               PROVE  /\ employees'[i].email # employees'[j].email
                      /\ employees'[i].key # employees'[j].key
      BY DEF Separate, KeyOf
  <2>1. CASE i = n
      BY <1>2, <1>4, <1>5, <1>6, <1>10, <2>1 DEF KeyOf
  <2>2. CASE j = n
      BY <1>2, <1>4, <1>5, <1>6, <1>10, <2>2 DEF KeyOf
  <2>3. CASE i # n /\ j # n
      BY <1>5, <1>6, <2>3 DEF IInv, Separate, KeyOf
  <2> QED BY <2>1, <2>2, <2>3
<1>12. StoredLower'
    BY <1>3, <1>4, <1>5, <1>6 DEF IInv, StoredLower
<1>13. DemoStays'
    BY <1>5, <1>6 DEF IInv, DemoStays, KeyOf
<1>14. KeysFollowEmployees'
  <2> SUFFICES ASSUME NEW i \in Registered'
               PROVE  /\ api_keys'[employees'[i].key] # Absent
                      /\ owner'[employees'[i].key]
                            = [user |-> i, team |-> employees'[i].team]
      BY DEF KeysFollowEmployees, KeyOf
  <2>2. CASE i = n
      BY <1>4, <1>7, <1>8, <2>2
  <2>3. CASE i # n
      BY <1>5, <1>6, <1>7, <1>8, <1>10, <2>3 DEF IInv, KeysFollowEmployees, KeyOf
  <2> QED BY <2>2, <2>3
<1> QED BY <1>2, <1>5, <1>6, <1>9, <1>11, <1>12, <1>13, <1>14 DEF IInv

LEMMA RegisterAgainOK ==
    ASSUME IInv, NEW a \in Addresses, NEW pw \in Passwords, NEW t \in TeamNames,
           NEW upserted \in BOOLEAN, RegisterAgain(a, pw, t, upserted)
    PROVE  IInv' /\ UNCHANGED usage /\ SameAccounts
<1>1. PICK n \in Matches(a) :
          /\ employees' = [employees EXCEPT ![n] =
                [@ EXCEPT !.team = t, !.pw = pw]]
          /\ EnsureKey(KeyOf(n), n, t)
          /\ Limits(KeyOf(n), upserted)
    BY DEF RegisterAgain
<1>2. UNCHANGED <<usage, log, audit, teams>>
    BY DEF RegisterAgain
<1>3. /\ n \in Registered /\ n \in Ids /\ KeyOf(n) \in Keys
      /\ employees[n] \in Employee
      /\ api_keys[KeyOf(n)] # Absent
      /\ owner[KeyOf(n)].user = n
  <2>1. TypeOK /\ KeysFollowEmployees
      BY DEF IInv
  <2>2. n \in Registered
      BY <1>1, <2>1, MatchesType
  <2>3. /\ api_keys[KeyOf(n)] # Absent
        /\ owner[KeyOf(n)] = [user |-> n, team |-> employees[n].team]
      BY <2>1, <2>2 DEF KeysFollowEmployees
  <2> QED BY <2>1, <2>2, <2>3, RegisteredType
<1>4. /\ employees'[n] \in Employee
      /\ employees'[n].email = employees[n].email
      /\ employees'[n].key = employees[n].key
      /\ employees'[n].team = t
      /\ \A i \in Ids \ {n} : employees'[i] = employees[i]
      /\ employees' \in [Ids -> Employee \cup {Absent}]
    BY <1>1, <1>3 DEF IInv, TypeOK, Employee
<1>5. SameAccounts
    BY <1>3, <1>4, AbsentIsNoValue DEF SameAccounts, Registered
<1>6. /\ api_keys' \in [Keys -> KeyRow \cup {Absent}]
       /\ \A j \in Keys : api_keys[j] # Absent => api_keys'[j] # Absent
    BY <1>1, <1>3, LimitsType DEF IInv
<1>7. /\ owner' \in [Keys -> Owner]
       /\ owner'[KeyOf(n)] = [user |-> n, team |-> t]
       /\ \A j \in Keys \ {KeyOf(n)} : owner'[j] = owner[j]
  <2>1. TypeOK /\ n \in Ids /\ KeyOf(n) \in Keys /\ EnsureKey(KeyOf(n), n, t)
      BY <1>1, <1>3 DEF IInv
  <2>2. /\ owner' \in [Keys -> Owner]
        /\ owner'[KeyOf(n)] = [user |-> owner'[KeyOf(n)].user, team |-> t]
        /\ owner'[KeyOf(n)].user = n
        /\ \A j \in Keys \ {KeyOf(n)} : owner'[j] = owner[j]
      BY <1>3, <2>1, EnsureKeyType
  <2> QED BY <2>2
<1>8. TypeOK'
    BY <1>2, <1>4, <1>6, <1>7 DEF IInv, TypeOK, StoreTypeOK
<1>9. KeysFollowEmployees'
  <2> SUFFICES ASSUME NEW i \in Registered
               PROVE  /\ api_keys'[employees'[i].key] # Absent
                      /\ owner'[employees'[i].key]
                            = [user |-> i, team |-> employees'[i].team]
      BY <1>5 DEF KeysFollowEmployees, SameAccounts, KeyOf
  <2>2. KeyOf(i) \in Keys /\ i \in Ids /\ api_keys[KeyOf(i)] # Absent
      BY RegisteredType DEF IInv, KeysFollowEmployees
  <2>3. CASE i = n
      BY <1>3, <1>4, <1>6, <1>7, <2>3 DEF KeyOf
  <2>4. CASE i # n
    <3>1. KeyOf(i) # KeyOf(n)
        BY <1>3, <2>4 DEF IInv, Separate
    <3> QED BY <1>4, <1>6, <1>7, <2>2, <2>4, <3>1
               DEF IInv, KeysFollowEmployees, KeyOf
  <2> QED BY <2>3, <2>4
<1> QED BY <1>2, <1>5, <1>8, <1>9, SameAccountsOK DEF IInv

LEMMA LoginOK ==
    ASSUME IInv, NEW a \in Addresses, NEW pw, Login(a, pw)
    PROVE  IInv' /\ UNCHANGED <<usage, employees>>
<1>1. PICK i \in Matches(a) : UpsertKey(KeyOf(i), DefaultRow)
    BY DEF Login
<1>2. UNCHANGED <<log, audit, employees, teams, owner>>
    BY DEF Login, accountVars
<1>3. KeyOf(i) \in Keys
    BY <1>1, MatchesType, RegisteredType DEF IInv
<1>4. /\ api_keys' \in [Keys -> KeyRow \cup {Absent}]
      /\ \A j \in Keys : api_keys[j] # Absent => api_keys'[j] # Absent
      /\ UNCHANGED usage
    BY <1>1, <1>3, SeedAssumption, UpsertKeyType DEF IInv
<1>5. TypeOK'
    BY <1>2, <1>4 DEF IInv, TypeOK, StoreTypeOK
<1> QED BY <1>2, <1>4, <1>5, OtherStepOK

LEMMA CliUpsertOK ==
    ASSUME IInv, NEW k \in Keys, CliUpsert(k)
    PROVE  IInv' /\ UNCHANGED <<usage, employees>>
<1>1. PICK row \in CliRows \cup ({Seed[k]} \ {Absent}) : UpsertKey(k, row)
    BY DEF CliUpsert
<1>2. UNCHANGED <<log, audit, employees, teams, owner>>
    BY DEF CliUpsert, accountVars
<1>3. row \in KeyRow
    BY <1>1, SeedAssumption
<1>4. /\ api_keys' \in [Keys -> KeyRow \cup {Absent}]
      /\ \A j \in Keys : api_keys[j] # Absent => api_keys'[j] # Absent
      /\ UNCHANGED usage
    BY <1>1, <1>3, UpsertKeyType DEF IInv
<1>5. TypeOK'
    BY <1>2, <1>4 DEF IInv, TypeOK, StoreTypeOK
<1> QED BY <1>2, <1>4, <1>5, OtherStepOK

LEMMA CreateTeamOK ==
    ASSUME IInv, NEW t \in TeamNames, NEW budget \in Budgets,
           CreateTeam(t, budget)
    PROVE  IInv' /\ UNCHANGED <<usage, employees>>
<1>1. UNCHANGED <<api_keys, usage, log, audit, employees, owner>>
    BY DEF CreateTeam, storeVars
<1>2. teams' \in [TeamNames -> Budgets \cup {Absent}]
    BY NameAssumption DEF CreateTeam, IInv, TypeOK
<1>3. TypeOK'
    BY <1>1, <1>2 DEF IInv, TypeOK, StoreTypeOK
<1> QED BY <1>1, <1>3, OtherStepOK

LEMMA UpdateTeamOK ==
    ASSUME IInv, NEW t \in TeamNames, NEW budget \in Budgets \cup {Keep},
           UpdateTeam(t, budget)
    PROVE  IInv' /\ UNCHANGED <<usage, employees>>
<1>1. UNCHANGED <<api_keys, usage, log, audit, employees, owner>>
    BY DEF UpdateTeam, storeVars
<1>2. teams' \in [TeamNames -> Budgets \cup {Absent}]
    BY NameAssumption DEF UpdateTeam, IInv, TypeOK
<1>3. TypeOK'
    BY <1>1, <1>2 DEF IInv, TypeOK, StoreTypeOK
<1> QED BY <1>1, <1>3, OtherStepOK

LEMMA ServeOK ==
    ASSUME IInv, NEW k \in Keys, Serve(k)
    PROVE  /\ IInv' /\ UNCHANGED employees
           /\ \A j \in Keys : usage'[j].total_tokens >= usage[j].total_tokens
<1>1. UNCHANGED <<api_keys, employees, teams, owner>>
    BY DEF Serve, accountVars
<1>2. TypeOK'
    BY <1>1, ServeType DEF IInv, TypeOK, StoreTypeOK
<1> QED BY <1>1, <1>2, ServeType, OtherStepOK DEF IInv

LEMMA InitOK ==
    ASSUME Init
    PROVE  IInv
<1>1. /\ api_keys = [k \in Keys |-> StartRow(k, Absent)]
      /\ owner = [k \in Keys |-> StartOwner(k, Absent, Unowned)]
      /\ employees = [id \in Ids |-> IF id \in DOMAIN Demo THEN Demo[id]
                                                            ELSE Absent]
      /\ teams = [t \in TeamNames |-> IF t \in DOMAIN DemoTeams
                                      THEN DemoTeams[t] ELSE Absent]
    BY DEF Init
<1>2. Registered = DOMAIN Demo /\ \A i \in DOMAIN Demo : employees[i] = Demo[i]
  <2>1. \A i \in DOMAIN Demo : i \in Ids /\ Demo[i] # Absent
      BY SeedAssumption, AbsentIsNoValue
  <2> QED BY <1>1, <2>1 DEF Registered
<1>3. ASSUME NEW i \in DOMAIN Demo
      PROVE  /\ Demo[i] \in Employee /\ Demo[i].key \in Keys
             /\ Demo[i].team \in TeamNames /\ i \in Ids
    BY SeedAssumption DEF Employee
<1>4. ASSUME NEW i \in DOMAIN Demo
      PROVE  /\ StartOwner(Demo[i].key, Absent, Unowned)
                   = [user |-> i, team |-> Demo[i].team]
             /\ StartRow(Demo[i].key, Absent) # Absent
  <2> DEFINE c == CHOOSE j \in DOMAIN Demo : Demo[j].key = Demo[i].key
  <2>1. c \in DOMAIN Demo /\ Demo[c].key = Demo[i].key
      OBVIOUS
  <2>2. c = i
      BY <2>1, SeedAssumption
  <2>3. Demo[i].key \in DemoKeys
      BY DEF DemoKeys
  <2>4. StartRow(Demo[i].key, Absent) # Absent
      BY <1>3, <2>3, SeedAssumption, AbsentIsNoValue DEF StartRow
  <2> QED BY <2>2, <2>4 DEF StartOwner
<1>5. TypeOK
  <2>1. api_keys \in [Keys -> KeyRow \cup {Absent}]
      BY <1>1, SeedAssumption DEF StartRow
  <2>2. ASSUME NEW k \in Keys
        PROVE  StartOwner(k, Absent, Unowned) \in Owner
    <3>1. ASSUME NEW i \in DOMAIN Demo, Demo[i].key = k
          PROVE  StartOwner(k, Absent, Unowned) \in Owner
      <4>1. StartOwner(k, Absent, Unowned) = [user |-> i, team |-> Demo[i].team]
          BY <1>4, <3>1
      <4> QED BY <1>3, <4>1 DEF Owner
    <3>2. [user |-> DevUser, team |-> DevTeam] \in Owner /\ Unowned \in Owner
        BY SeedAssumption DEF Owner, Unowned
    <3> QED BY <3>1, <3>2 DEF StartOwner
  <2>3. usage \in [Keys -> UsageRow]
      BY DEF Init, NoUsage, UsageRow
  <2>4. log \in [Keys -> LogTotals] /\ audit \in [Keys -> LogTotals]
      BY DEF Init, NoRows, LogTotals
  <2>5. employees \in [Ids -> Employee \cup {Absent}]
      BY <1>1, <1>3
  <2>6. teams \in [TeamNames -> Budgets \cup {Absent}]
      BY <1>1, SeedAssumption
  <2> QED BY <1>1, <2>1, <2>2, <2>3, <2>4, <2>5, <2>6 DEF TypeOK, StoreTypeOK
<1>6. Separate
    BY <1>2, SeedAssumption DEF Separate, KeyOf
<1>7. StoredLower
    BY <1>2, SeedAssumption DEF StoredLower
<1>8. DemoStays
    BY <1>2 DEF DemoStays, KeyOf
<1>9. KeysFollowEmployees
    BY <1>1, <1>2, <1>3, <1>4 DEF KeysFollowEmployees, KeyOf
<1> QED BY <1>5, <1>6, <1>7, <1>8, <1>9 DEF IInv

\* What a step does to the accounts and the usage there are already.
KeepsAccounts ==
    /\ \A i \in Registered : /\ i \in Registered'
                             /\ employees'[i].key = employees[i].key
    /\ \A k \in Keys : usage'[k].total_tokens >= usage[k].total_tokens

LEMMA UsageType ==
    ASSUME TypeOK, UNCHANGED usage
    PROVE  \A k \in Keys : usage'[k].total_tokens >= usage[k].total_tokens
<1>1. \A k \in Keys : usage[k].total_tokens \in Nat
    BY DEF TypeOK, StoreTypeOK, UsageRow
<1> QED BY <1>1

LEMMA StepOK ==
    ASSUME IInv, [Next]_vars
    PROVE  IInv' /\ KeepsAccounts
<1> USE DEF KeepsAccounts
<1>0. IInv => TypeOK
    BY DEF IInv
<1>1. ASSUME NEW a \in Addresses, NEW pw \in Passwords \cup DemoPasswords,
             Login(a, pw)
      PROVE  IInv' /\ KeepsAccounts
    BY <1>0, <1>1, LoginOK, UsageType DEF Registered
<1>2. ASSUME NEW a \in Addresses, NEW pw \in Passwords, NEW t \in TeamNames,
             NEW upserted \in BOOLEAN, RegisterNew(a, pw, t, upserted)
      PROVE  IInv' /\ KeepsAccounts
    BY <1>0, <1>2, RegisterNewOK, UsageType
<1>3. ASSUME NEW a \in Addresses, NEW pw \in Passwords, NEW t \in TeamNames,
             NEW upserted \in BOOLEAN, RegisterAgain(a, pw, t, upserted)
      PROVE  IInv' /\ KeepsAccounts
    BY <1>0, <1>3, RegisterAgainOK, UsageType DEF SameAccounts
<1>4. ASSUME NEW k \in Keys, CliUpsert(k)
      PROVE  IInv' /\ KeepsAccounts
    BY <1>0, <1>4, CliUpsertOK, UsageType DEF Registered
<1>5. ASSUME NEW k \in Keys, Serve(k)
      PROVE  IInv' /\ KeepsAccounts
    BY <1>5, ServeOK DEF Registered
<1>6. ASSUME NEW t \in TeamNames, NEW budget \in Budgets, CreateTeam(t, budget)
      PROVE  IInv' /\ KeepsAccounts
    BY <1>0, <1>6, CreateTeamOK, UsageType DEF Registered
<1>7. ASSUME NEW t \in TeamNames, NEW budget \in Budgets \cup {Keep},
             UpdateTeam(t, budget)
      PROVE  IInv' /\ KeepsAccounts
    BY <1>0, <1>7, UpdateTeamOK, UsageType DEF Registered
<1>8. CASE Restart
    BY <1>0, <1>8, RestartOK, UsageType DEF SameAccounts
<1>9. CASE UNCHANGED vars
  <2>1. UNCHANGED <<api_keys, usage, log, audit, employees, teams, owner>>
      BY <1>9 DEF vars, storeVars, accountVars
  <2>2. TypeOK'
      BY <2>1 DEF IInv, TypeOK, StoreTypeOK
  <2> QED BY <1>0, <2>1, <2>2, OtherStepOK, UsageType DEF Registered
<1> QED BY <1>1, <1>2, <1>3, <1>4, <1>5, <1>6, <1>7, <1>8, <1>9 DEF Next

(***************************************************************************)
(* The theorems.                                                           *)
(***************************************************************************)
LEMMA Invariant == Spec => []IInv
<1>1. Init => IInv
    BY InitOK
<1>2. IInv /\ [Next]_vars => IInv'
    BY StepOK
<1> QED BY <1>1, <1>2, PTL DEF Spec

\* Every table keeps its type, through any sequence of registrations, logins,
\* team changes, create-key commands and restarts (supadb.py, app.py, cli.py).
THEOREM AccountsTyped == Spec => []TypeOK
<1>1. IInv => TypeOK
    BY DEF IInv
<1> QED BY <1>1, Invariant, PTL

\* Two employees never share an address or a key, although the lookup folds
\* addresses with SQLite and the row is stored as Python folds it
\* (register_employee of supadb.py).
THEOREM AccountsSeparate == Spec => []OneAccountPerAddress
<1>1. IInv => OneAccountPerAddress
    BY DEF IInv, Separate, StoredLower, OneAccountPerAddress
<1> QED BY <1>1, Invariant, PTL

\* An employee's key has a row that names the employee and the present team,
\* even if upsert_key fails after register_employee has committed.
THEOREM KeysFollow == Spec => []KeysFollowEmployees
<1>1. IInv => KeysFollowEmployees
    BY DEF IInv
<1> QED BY <1>1, Invariant, PTL

\* No registration, login or restart leaves an employee with another key or
\* with less usage than was recorded (register_employee, upsert_key).
THEOREM UsageFollows == Spec => UsageFollowsEmployees
<1>1. ASSUME IInv, [Next]_vars
      PROVE  [\A id \in Registered :
                /\ id \in Registered' /\ KeyOf(id)' = KeyOf(id)
                /\ usage'[KeyOf(id)].total_tokens
                      >= usage[KeyOf(id)].total_tokens]_vars
  <2>1. KeepsAccounts
      BY <1>1, StepOK
  <2>2. \A id \in Registered : KeyOf(id) \in Keys
      BY <1>1, RegisteredType DEF IInv
  <2> QED BY <2>1, <2>2 DEF KeepsAccounts, KeyOf
<1> QED BY <1>1, Invariant, PTL DEF Spec, UsageFollowsEmployees
=============================================================================
