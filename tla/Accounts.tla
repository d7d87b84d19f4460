------------------------------ MODULE Accounts ------------------------------
(***************************************************************************)
(* Employees, teams and the virtual keys they own (supadb.py, the /auth and*)
(* /api/teams endpoints of app.py, create-key of cli.py), over the store   *)
(* whose connection they share.  A handler runs in one step of the event   *)
(* loop; the command line is another process, whose every upsert is a      *)
(* transaction of its own.  Each address, team name and password is a value*)
(* of a small set; what matters of them is how they are normalised.        *)
(***************************************************************************)
EXTENDS Store

CONSTANTS
    Ids,            \* employee ids
    Addresses,      \* e-mail addresses, as typed
    Lower,          \* Lower[a]: str.lower of Python
    SqlLower,       \* SqlLower[a]: LOWER of SQLite, which folds ASCII only
    Passwords,
    DemoPasswords,  \* passwords that authenticate() accepts for any account
    TeamNames,      \* team ids, as typed
    Slug,           \* Slug[t]: t in lower case, spaces replaced by "-"
    Fold,           \* Fold[t]: t in lower case
    Budgets,        \* team budgets
    Keep,           \* a field an update leaves out
    Demo,           \* the employees seeded at start-up, by id
    DemoTeams,      \* the budgets of the teams seeded at start-up, by id
    DevKey,         \* the development key
    DevUser,        \* the user and the team it is seeded with
    DevTeam,
    DevRow,         \* its limits: none
    DefaultRow,     \* the limits of an employee's key
    Seed,           \* Seed[k]: row of k in the configuration, or Absent
    CliRows,        \* rows that create-key may write
    MaxRequests     \* bound: requests served for one key

Employee == [email : Addresses, team : TeamNames, key : Keys, pw : Passwords]

Owner == [user : Ids \cup {Absent}, team : TeamNames \cup {Absent}]

Unowned == [user |-> Absent, team |-> Absent]

ASSUME NameAssumption ==
    /\ Lower \in [Addresses -> Addresses] /\ SqlLower \in [Addresses -> Addresses]
    /\ \A a \in Addresses : Lower[Lower[a]] = Lower[a]
    /\ Slug \in [TeamNames -> TeamNames] /\ Fold \in [TeamNames -> TeamNames]

ASSUME SeedAssumption ==
    /\ Absent \notin Ids \cup TeamNames \cup Employee \cup KeyRow \cup Budgets
    /\ Keep \notin Budgets \cup {Absent}
    /\ DOMAIN Demo \subseteq Ids /\ Demo \in [DOMAIN Demo -> Employee]
    /\ DOMAIN DemoTeams \subseteq TeamNames
    /\ DemoTeams \in [DOMAIN DemoTeams -> Budgets]
    /\ \A i \in DOMAIN Demo :
          /\ Lower[Demo[i].email] = Demo[i].email
          /\ Demo[i].key # DevKey /\ Demo[i].team \in DOMAIN DemoTeams
          /\ \A j \in DOMAIN Demo \ {i} :
                Demo[i].email # Demo[j].email /\ Demo[i].key # Demo[j].key
    /\ DevKey \in Keys /\ DevUser \in Ids /\ DevTeam \in TeamNames
    /\ DevRow \in KeyRow /\ DefaultRow \in KeyRow /\ CliRows \subseteq KeyRow
    /\ Seed \in [Keys -> KeyRow \cup {Absent}]
    /\ MaxRequests \in Nat

VARIABLES
    employees,  \* employees[id]: a row of table employees, or Absent
    teams,      \* teams[t]: the budget in table teams, or Absent
    owner       \* owner[k]: user_id and team_id of the row of k in api_keys

accountVars == <<employees, teams, owner>>
vars == <<storeVars, accountVars>>

Registered == {id \in Ids : employees[id] # Absent}

KeyOf(id) == employees[id].key

(***************************************************************************)
(* Start-up: the keys of the configuration, then the demonstration data,   *)
(* each upserted over the tables an earlier process left.                  *)
(***************************************************************************)
DemoKeys == {Demo[id].key : id \in DOMAIN Demo}

StartRow(k, old) ==
    IF Seed[k] # Absent THEN Seed[k]
    ELSE IF old # Absent THEN old
    ELSE IF k \in DemoKeys THEN DefaultRow
    ELSE IF k = DevKey THEN DevRow ELSE Absent

\* Configured keys have no owner; the development key gets one when created.
StartOwner(k, row, old) ==
    IF \E id \in DOMAIN Demo : Demo[id].key = k
    THEN LET id == CHOOSE i \in DOMAIN Demo : Demo[i].key = k
         IN  [user |-> id, team |-> Demo[id].team]
    ELSE IF k = DevKey /\ row = Absent /\ Seed[k] = Absent
         THEN [user |-> DevUser, team |-> DevTeam] ELSE old

Start(rows, owners, emps, budgets) ==
    /\ api_keys' = [k \in Keys |-> StartRow(k, rows[k])]
    /\ owner' = [k \in Keys |-> StartOwner(k, rows[k], owners[k])]
    /\ employees' = [id \in Ids |-> IF id \in DOMAIN Demo THEN Demo[id]
                                                           ELSE emps[id]]
    /\ teams' = [t \in TeamNames |-> IF t \in DOMAIN DemoTeams THEN DemoTeams[t]
                                                               ELSE budgets[t]]

Restart ==
    /\ Start(api_keys, owner, employees, teams)
    /\ UNCHANGED <<usage, log, audit>>

(***************************************************************************)
(* Registration.                                                           *)
(***************************************************************************)
\* WHERE LOWER(email) = LOWER(?)
Matches(a) == {id \in Registered : SqlLower[employees[id].email] = SqlLower[a]}

\* Seeded bug: the address is stored as it was typed.
StoredAddress_AsTyped(a) == a

StoredAddress(a) == Lower[a]

\* Seeded bug: ON CONFLICT(key) DO NOTHING, so a moved employee's key stays.
EnsureKey_KeepsTeam(k, id, t) ==
    owner' = IF api_keys[k] = Absent
             THEN [owner EXCEPT ![k] = [user |-> id, team |-> t]] ELSE owner

\* The row of api_keys register_employee writes: limits only if there is none.
EnsureKey(k, id, t) ==
    owner' = [owner EXCEPT ![k] =
                 [user |-> IF api_keys[k] = Absent THEN id ELSE @.user,
                  team |-> t]]

\* auth_register calls upsert_key after register_employee committed: it may
\* fail (the database locked by another process, the process killed), and the
\* caller is told that the registration failed.
Limits(k, upserted) ==
    api_keys' = [api_keys EXCEPT ![k] = IF @ = Absent \/ upserted THEN DefaultRow
                                                                  ELSE @]

RegisterNew(a, pw, t, upserted) ==
    /\ Matches(a) = {}
    /\ \A id \in Registered : employees[id].email # StoredAddress(a)
    /\ \E id \in Ids \ Registered, k \in Keys :
          /\ api_keys[k] = Absent
          /\ employees' = [employees EXCEPT ![id] =
                [email |-> StoredAddress(a), team |-> t, key |-> k, pw |-> pw]]
          /\ EnsureKey(k, id, t)
          /\ Limits(k, upserted)
    /\ UNCHANGED <<usage, log, audit, teams>>

\* Seeded bug: a returning employee is given the new key.
RegisterAgain_NewKey(a, pw, t, upserted) ==
    /\ \E id \in Matches(a), k \in Keys :
          /\ api_keys[k] = Absent
          /\ employees' = [employees EXCEPT ![id] =
                [@ EXCEPT !.team = t, !.key = k, !.pw = pw]]
          /\ EnsureKey(k, id, t)
          /\ Limits(k, upserted)
    /\ UNCHANGED <<usage, log, audit, teams>>

RegisterAgain(a, pw, t, upserted) ==
    /\ \E id \in Matches(a) :
          /\ employees' = [employees EXCEPT ![id] =
                [@ EXCEPT !.team = t, !.pw = pw]]
          /\ EnsureKey(KeyOf(id), id, t)
          /\ Limits(KeyOf(id), upserted)
    /\ UNCHANGED <<usage, log, audit, teams>>

\* A login with the password of the account or one of the demonstration
\* passwords writes the default limits over the row of the key.
Login(a, pw) ==
    /\ \E id \in Matches(a) :
          /\ employees[id].pw = pw \/ pw \in DemoPasswords
          /\ UpsertKey(KeyOf(id), DefaultRow)
    /\ UNCHANGED <<log, audit, accountVars>>

(***************************************************************************)
(* The command line, team administration, and requests that are served.    *)
(***************************************************************************)
\* create-key upserts the configured keys, then the key it was asked for,
\* which may be any: upsert_key leaves user_id and team_id alone.
CliUpsert(k) ==
    /\ \E row \in CliRows \cup ({Seed[k]} \ {Absent}) : UpsertKey(k, row)
    /\ UNCHANGED <<log, audit, accountVars>>

CreateTeam(t, budget) ==
    /\ teams' = [teams EXCEPT ![Slug[t]] = budget]
    /\ UNCHANGED <<storeVars, employees, owner>>

\* Seeded bug: a field the update leaves out is written all the same.
UpdateTeam_WritesNull(t, budget) ==
    /\ teams[Fold[t]] # Absent
    /\ teams' = [teams EXCEPT ![Fold[t]] = budget]
    /\ UNCHANGED <<storeVars, employees, owner>>

UpdateTeam(t, budget) ==
    /\ teams[Fold[t]] # Absent
    /\ teams' = [teams EXCEPT ![Fold[t]] = IF budget = Keep THEN @ ELSE budget]
    /\ UNCHANGED <<storeVars, employees, owner>>

\* One request of one token, as the gateway records it.
Serve(k) ==
    /\ api_keys[k] # Absent
    /\ usage[k].requests < MaxRequests
    /\ Settle(k, 1, 1, FALSE, TRUE, AllCommits)
    /\ UNCHANGED <<api_keys, accountVars>>

Init ==
    /\ api_keys = [k \in Keys |-> StartRow(k, Absent)]
    /\ owner = [k \in Keys |-> StartOwner(k, Absent, Unowned)]
    /\ employees = [id \in Ids |-> IF id \in DOMAIN Demo THEN Demo[id]
                                                          ELSE Absent]
    /\ teams = [t \in TeamNames |-> IF t \in DOMAIN DemoTeams THEN DemoTeams[t]
                                                              ELSE Absent]
    /\ usage = [k \in Keys |-> NoUsage]
    /\ log = [k \in Keys |-> NoRows]
    /\ audit = [k \in Keys |-> NoRows]

Next ==
    \/ \E a \in Addresses, pw \in Passwords \cup DemoPasswords : Login(a, pw)
    \/ \E a \in Addresses, pw \in Passwords, t \in TeamNames, upserted \in BOOLEAN :
          \/ RegisterNew(a, pw, t, upserted)
          \/ RegisterAgain(a, pw, t, upserted)
    \/ \E k \in Keys : CliUpsert(k) \/ Serve(k)
    \/ \E t \in TeamNames :
          \/ \E budget \in Budgets : CreateTeam(t, budget)
          \/ \E budget \in Budgets \cup {Keep} : UpdateTeam(t, budget)
    \/ Restart

Spec == Init /\ [][Next]_vars

(***************************************************************************)
(* Properties.                                                             *)
(***************************************************************************)
\* The values of the tables.
TypeOK ==
    /\ StoreTypeOK
    /\ employees \in [Ids -> Employee \cup {Absent}]
    /\ teams \in [TeamNames -> Budgets \cup {Absent}]
    /\ owner \in [Keys -> Owner]

\* One address, however it is typed, is one account: no two employees share an
\* address or a key, so that a login or a bearer token means one person and
\* seeding the demonstration data at start-up never meets a UNIQUE constraint
\* (supadb.py compares with LOWER of SQLite and stores str.lower of Python).
OneAccountPerAddress ==
    \A i, j \in Registered : i # j =>
        Lower[employees[i].email] # Lower[employees[j].email] /\ KeyOf(i) # KeyOf(j)

\* The key of every employee has a row, which belongs to that employee and to
\* the team the employee is in now, whatever was registered again, upserted by
\* the command line, seeded again or cut short in between.
KeysFollowEmployees ==
    \A id \in Registered :
        /\ api_keys[KeyOf(id)] # Absent
        /\ owner[KeyOf(id)] = [user |-> id, team |-> employees[id].team]

\* Nobody sheds recorded usage: registering again, logging in or a restart
\* leaves an employee with the same key and the usage recorded for it.
UsageFollowsEmployees ==
    [][\A id \in Registered :
          /\ id \in Registered' /\ KeyOf(id)' = KeyOf(id)
          /\ usage'[KeyOf(id)].total_tokens >= usage[KeyOf(id)].total_tokens]_vars
=============================================================================
