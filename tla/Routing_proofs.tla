--------------------------- MODULE Routing_proofs ---------------------------
(***************************************************************************)
(* Proofs about provider keys and automatic routing: types, the key that   *)
(* is in force, the tier of a prompt, and where automatic requests go.     *)
(***************************************************************************)
EXTENDS Routing, SequenceTheorems, NaturalsInduction, WellFoundedInduction, TLAPS

(***************************************************************************)
(* First places.                                                           *)
(***************************************************************************)
LEMMA Least ==
    ASSUME NEW I, I \subseteq Nat, I # {}
    PROVE  Min(I) \in I /\ \A i \in I : Min(I) <= i
<1>1. PICK x \in I : \A y \in I : ~ (<<y, x>> \in OpToRel(<, Nat))
    BY NatLessThanWellFounded, WFMin
<1>2. \A y \in I : ~ (y < x)
    BY <1>1 DEF OpToRel
<1>3. \A y \in I : x <= y
    BY <1>2
<1> QED BY <1>3 DEF Min

LEMMA OfferPlaces ==
    ASSUME NEW of \in Seq(Models), NEW ok
    PROVE  Offers(Try(of, ok)) = {i \in 1..Len(of) : of[i] \in ok}
BY LenProperties DEF Offers, Try

\* The first of five attempts with an offer, and a model it offers.
LEMMA FirstOfferOf ==
    ASSUME NEW tries, DOMAIN tries = 1..5, NEW n \in 1..5,
           \A m \in 1..5 : Offers(tries[m]) \subseteq Nat,
           Offers(tries[n]) # {}
    PROVE  \E m \in 1..5 :
              /\ m <= n
              /\ \A l \in 1..5 : l < m => Offers(tries[l]) = {}
              /\ \E i \in Offers(tries[m]) : FirstOffer(tries) = tries[m].of[i]
<1> DEFINE N == {m \in DOMAIN tries : Offers(tries[m]) # {}}
<1>1. N \subseteq Nat /\ n \in N
    OBVIOUS
<1>2. Min(N) \in N /\ \A m \in N : Min(N) <= m
  <2> HIDE DEF N
  <2> QED BY <1>1, Least
<1>3. Min(N) \in 1..5 /\ Offers(tries[Min(N)]) # {}
    BY <1>2
<1>4. ASSUME NEW l \in 1..5, l < Min(N)
      PROVE  Offers(tries[l]) = {}
  <2>1. l \notin N
    <3> HIDE DEF N
    <3> QED BY <1>1, <1>2, <1>3, <1>4
  <2> QED BY <2>1
<1>5. Min(Offers(tries[Min(N)])) \in Offers(tries[Min(N)])
    BY <1>3, Least
<1>6. FirstOffer(tries) = tries[Min(N)].of[Min(Offers(tries[Min(N)]))]
    BY DEF FirstOffer
<1> HIDE DEF N
<1> QED BY <1>1, <1>2, <1>3, <1>4, <1>5, <1>6

(***************************************************************************)
(* Keys.                                                                   *)
(***************************************************************************)
LEMMA SaveTypes ==
    ASSUME NEW keys \in Entered
    PROVE  \A p \in Named(keys) : keys[p] \in Key
BY RoutingAssumption DEF Named, MaybeKey

\* A variable takes the key entered for the provider it is saved for.
LEMMA OverlayTakes ==
    ASSUME NEW keys \in Entered, NEW f, NEW p \in Named(keys)
    PROVE  Overlay(f, keys)[SavedVar[p]] = keys[p]
<1> DEFINE named == {q \in Saveable : SavedVar[q] = SavedVar[p] /\ keys[q] # None}
<1>1. named = {p} /\ SavedVar[p] \in Vars
    BY RoutingAssumption DEF Named
<1>2. (CHOOSE q \in named : TRUE) = p
    BY <1>1
<1> QED BY <1>1, <1>2 DEF Overlay

LEMMA OverlayLeaves ==
    ASSUME NEW keys \in Entered, NEW f, NEW v \in Vars,
           \A p \in Named(keys) : SavedVar[p] # v
    PROVE  Overlay(f, keys)[v] = f[v]
BY RoutingAssumption DEF Overlay, Named

LEMMA OverlayType ==
    ASSUME NEW keys \in Entered, NEW f \in Settings
    PROVE  Overlay(f, keys) \in Settings
<1>1. ASSUME NEW v \in Vars PROVE Overlay(f, keys)[v] \in MaybeKey
  <2>1. CASE \E p \in Named(keys) : SavedVar[p] = v
    <3>1. PICK p \in Named(keys) : SavedVar[p] = v
        BY <2>1
    <3>2. Overlay(f, keys)[v] = keys[p]
        BY <3>1, OverlayTakes
    <3> QED BY <3>2, SaveTypes DEF MaybeKey
  <2>2. CASE \A p \in Named(keys) : SavedVar[p] # v
      BY <2>2, OverlayLeaves DEF Settings
  <2> QED BY <2>1, <2>2
<1> QED BY <1>1 DEF Overlay, Settings

\* The files of a computer.
Disk == [Places -> Settings \cup {None}]

LEMMA ContentType ==
    ASSUME NEW fs \in Disk, NEW c \in Places
    PROVE  Content(fs[c]) \in Settings
BY DEF Disk, Content, Blank, Settings, MaybeKey

\* Where load_dotenv finds a file there is one.
LEMMA FindType ==
    ASSUME NEW fs \in Disk
    PROVE  Find(fs) # None => Find(fs) \in Places /\ fs[Find(fs)] \in Settings
<1> DEFINE found == {i \in DOMAIN Upward : fs[Upward[i]] # None}
<1>1. \A i \in DOMAIN Upward : i \in Nat /\ Upward[i] \in Places
    BY RoutingAssumption, LenProperties, ElementOfSeq
<1>2. found # {} => Min(found) \in found
  <2>1. found \subseteq Nat
      BY <1>1
  <2> HIDE DEF found
  <2> QED BY <2>1, Least
<1>3. Find(fs) = IF found = {} THEN None ELSE Upward[Min(found)]
    BY DEF Find
<1>4. CASE found = {}
    BY <1>3, <1>4
<1>5. CASE found # {}
  <2>1. PICK i \in DOMAIN Upward : Find(fs) = Upward[i] /\ fs[Upward[i]] # None
      BY <1>2, <1>3, <1>5
  <2> QED BY <1>1, <2>1 DEF Disk
<1> QED BY <1>4, <1>5

LEMMA BootType ==
    ASSUME NEW fs \in Disk
    PROVE  Boot(fs) \in Settings
<1> DEFINE f == IF Find(fs) = None THEN Blank ELSE fs[Find(fs)]
<1>1. f \in Settings
    BY FindType DEF Blank, Settings, MaybeKey
<1>2. Boot(fs) = [v \in Vars |-> IF Shell[v] # None THEN Shell[v] ELSE f[v]]
    BY DEF Boot
<1> HIDE DEF f
<1> QED BY <1>1, <1>2, RoutingAssumption DEF Settings

\* What a process reads of a variable the shell does not set.
LEMMA BootReads ==
    ASSUME NEW fs, NEW v \in Vars, Shell[v] = None, Find(fs) # None
    PROVE  Boot(fs)[v] = fs[Find(fs)][v]
BY DEF Boot

\* Two disks with the same file at the place that is found read the same.
LEMMA SameFileSameEnvironment ==
    ASSUME NEW fs, NEW gs, NEW v \in Vars, Find(fs) = Find(gs),
           Find(fs) # None => fs[Find(fs)][v] = gs[Find(fs)][v]
    PROVE  Boot(fs)[v] = Boot(gs)[v]
BY DEF Boot

\* The environment matters to a provider only under its own names.
LEMMA SameNamesSameKey ==
    ASSUME NEW p \in Providers, NEW e, NEW f, NEW lit, NEW lat, lit[p] = lat[p],
           \A i \in DOMAIN EnvNames[p] : e[EnvNames[p][i]] = f[EnvNames[p][i]]
    PROVE  KeyOf(p, lit, e) = KeyOf(p, lat, f)
<1> DEFINE E == {i \in DOMAIN EnvNames[p] : Usable(e[EnvNames[p][i]])}
           F == {i \in DOMAIN EnvNames[p] : Usable(f[EnvNames[p][i]])}
<1>1. E = F
    OBVIOUS
<1>2. E # {} => Min(E) \in DOMAIN EnvNames[p]
  <2>1. E \subseteq Nat
      BY RoutingAssumption
  <2>2. E # {} => Min(E) \in E
    <3> HIDE DEF E
    <3> QED BY <2>1, Least
  <2> QED BY <2>2
<1>3. FromEnv(p, e) = FromEnv(p, f)
    BY <1>1, <1>2 DEF FromEnv
<1> QED BY <1>3 DEF KeyOf

\* A usable value under the first name is the one that is found.
LEMMA FirstNameWins ==
    ASSUME NEW p \in Providers, EnvNames[p] # <<>>, NEW e,
           Usable(e[Head(EnvNames[p])])
    PROVE  FromEnv(p, e) = e[Head(EnvNames[p])]
<1> DEFINE E == {i \in DOMAIN EnvNames[p] : Usable(e[EnvNames[p][i]])}
<1>1. /\ EnvNames[p] \in Seq(Vars) /\ Len(EnvNames[p]) \in Nat
      /\ Len(EnvNames[p]) >= 1 /\ Head(EnvNames[p]) = EnvNames[p][1]
    BY RoutingAssumption
<1>2. 1 \in E /\ E \subseteq Nat /\ \A i \in E : i >= 1
    BY <1>1
<1>3. Min(E) \in E /\ \A i \in E : Min(E) <= i
  <2> HIDE DEF E
  <2> QED BY <1>2, Least
<1>4. Min(E) = 1
  <2> HIDE DEF E
  <2>1. Min(E) \in Nat /\ Min(E) >= 1 /\ Min(E) <= 1
      BY <1>2, <1>3
  <2> QED BY <2>1
<1> QED BY <1>1, <1>2, <1>4 DEF FromEnv

(***************************************************************************)
(* The invariant.  A key saved since the process started is in the running *)
(* configuration, any other literal is that of config.yaml; a key that was *)
(* written is in that file, and in the environment of a process that read  *)
(* the file at start; a variable that no key was saved under is as         *)
(* installed, in a file and in the environment that was read from it.      *)
(***************************************************************************)
KeysTyped ==
    /\ literal \in [Providers -> MaybeKey]
    /\ env \in Settings /\ files \in Disk
    /\ cwd \in Places /\ loaded \in Places \cup {None}
    /\ saved \in [Saveable -> MaybeKey] /\ fresh \subseteq Saveable
    /\ filed \in [Saveable -> Places \cup {None}] /\ torn \subseteq Places

InForce ==
    \A p \in Providers : literal[p] = IF p \in fresh THEN saved[p] ELSE Literal[p]

Recorded == \A p \in Saveable : p \in fresh \/ filed[p] # None => saved[p] # None

Kept == \A p \in Saveable :
            filed[p] # None => /\ files[filed[p]] # None
                               /\ files[filed[p]][SavedVar[p]] = saved[p]

Read ==
    \A p \in Saveable :
        WasRead(p) /\ p \notin fresh /\ Shell[SavedVar[p]] = None =>
            env[SavedVar[p]] = saved[p]

\* No key was saved under the variable.
Unsaved(v) == \A p \in Saveable : saved[p] # None => SavedVar[p] # v

AsInstalled ==
    \A c \in Places \ torn : \A v \in Vars :
        Unsaved(v) => Content(files[c])[v] = Content(Files[c])[v]

ReadAsInstalled ==
    loaded = Find(Files) /\ loaded \notin torn =>
        \A v \in Vars : Unsaved(v) => env[v] = Boot(Files)[v]

KeyInv == /\ KeysTyped /\ InForce /\ Recorded /\ Kept /\ Read
          /\ AsInstalled /\ ReadAsInstalled

LEMMA KeyInit == Init => KeyInv
<1> SUFFICES ASSUME Init PROVE KeyInv
    OBVIOUS
<1>1. Files \in Disk
    BY RoutingAssumption DEF Disk
<1>2. /\ literal = Literal /\ files = Files /\ env = Boot(Files)
      /\ cwd \in Cwds /\ loaded = Find(Files)
      /\ saved = [p \in Saveable |-> None] /\ filed = [p \in Saveable |-> None]
      /\ fresh = {} /\ torn = {}
    BY DEF Init
<1>3. Boot(Files) \in Settings /\ Find(Files) \in Places \cup {None}
    BY <1>1, BootType, FindType
<1>4. KeysTyped
    BY <1>1, <1>2, <1>3, RoutingAssumption DEF KeysTyped, MaybeKey
<1>5. InForce /\ Recorded /\ Kept /\ Read
    BY <1>2 DEF InForce, Recorded, Kept, Read, WasRead
<1>6. AsInstalled /\ ReadAsInstalled
    BY <1>2 DEF AsInstalled, ReadAsInstalled
<1> QED BY <1>4, <1>5, <1>6 DEF KeyInv

LEMMA TargetType == KeysTyped => Target \in Places
BY RoutingAssumption DEF KeysTyped, Target

\* What a save leaves at every place.
LEMMA WrittenIs ==
    ASSUME KeysTyped, NEW keys \in Entered
    PROVE  /\ Written(keys) \in Disk
           /\ Written(keys)[Target] = Overlay(Content(files[Target]), keys)
           /\ Written(keys)[Target] \in Settings
           /\ \A c \in Places : c # Target => Written(keys)[c] = files[c]
<1>1. Target \in Places /\ files \in Disk
    BY TargetType DEF KeysTyped
<1>2. Overlay(Content(files[Target]), keys) \in Settings
    BY <1>1, ContentType, OverlayType
<1>3. Written(keys) = [files EXCEPT ![Target] = Overlay(Content(files[Target]), keys)]
    BY <1>1 DEF Written
<1> QED BY <1>1, <1>2, <1>3 DEF Disk

\* A save that is written sets the named variables at one place, and leaves
\* every other variable as it was.
LEMMA WrittenContent ==
    ASSUME KeysTyped, NEW keys \in Entered, NEW c \in Places, NEW v \in Vars,
           \A p \in Named(keys) : SavedVar[p] # v
    PROVE  Content(Written(keys)[c])[v] = Content(files[c])[v]
<1>1. CASE c = Target
  <2>1. Content(Written(keys)[c]) = Overlay(Content(files[c]), keys)
      BY <1>1, WrittenIs, RoutingAssumption DEF Content
  <2> QED BY <2>1, OverlayLeaves
<1>2. CASE c # Target
    BY <1>2, WrittenIs
<1> QED BY <1>1, <1>2

LEMMA SaveKeysOK ==
    ASSUME KeyInv, NEW keys \in Entered, NEW written \in BOOLEAN,
           SaveKeys(keys, written)
    PROVE  KeyInv'
<1> DEFINE named == Named(keys)
<1>1. /\ literal' = [p \in Providers |-> IF p \in named THEN keys[p] ELSE literal[p]]
      /\ env' = Overlay(env, keys)
      /\ files' = IF written THEN Written(keys) ELSE files
      /\ saved' = [p \in Saveable |-> IF p \in named THEN keys[p] ELSE saved[p]]
      /\ fresh' = fresh \cup named
      /\ filed' = [p \in Saveable |-> IF p \notin named THEN filed[p]
                                      ELSE IF written THEN Target ELSE None]
      /\ UNCHANGED <<cwd, loaded, torn>>
    BY DEF SaveKeys
<1>2. named \subseteq Saveable /\ \A p \in named : keys[p] # None
    BY DEF Named
<1>3. KeysTyped
    BY DEF KeyInv
<1>4. \A v \in Vars : Unsaved(v)' => Unsaved(v) /\ \A p \in named : SavedVar[p] # v
    BY <1>1, <1>2 DEF Unsaved
<1>5. \A p \in Saveable : SavedVar[p] \in Vars
    BY RoutingAssumption
<1>6. KeysTyped'
  <2>1. env' \in Settings /\ files' \in Disk
      BY <1>1, <1>3, OverlayType, WrittenIs DEF KeysTyped
  <2>2. \A p \in named : keys[p] \in MaybeKey
      BY SaveTypes DEF MaybeKey
  <2>3. literal' \in [Providers -> MaybeKey] /\ saved' \in [Saveable -> MaybeKey]
      BY <1>1, <1>3, <2>2 DEF KeysTyped
  <2>4. filed' \in [Saveable -> Places \cup {None}]
      BY <1>1, <1>3, TargetType DEF KeysTyped
  <2> QED BY <1>1, <1>2, <1>3, <2>1, <2>3, <2>4 DEF KeysTyped
<1>7. InForce' /\ Recorded'
    BY <1>1, <1>2, <1>3 DEF KeyInv, KeysTyped, InForce, Recorded
<1>8. Kept'
  <2> SUFFICES ASSUME NEW p \in Saveable, filed'[p] # None
               PROVE  /\ files'[filed'[p]] # None
                      /\ files'[filed'[p]][SavedVar[p]] = saved'[p]
      BY DEF Kept
  <2>1. CASE p \in named
    <3>1. files' = Written(keys) /\ filed'[p] = Target /\ saved'[p] = keys[p]
        BY <1>1, <1>2, <2>1
    <3>2. Written(keys)[Target][SavedVar[p]] = keys[p]
        BY <1>3, <2>1, WrittenIs, OverlayTakes
    <3> QED BY <1>3, <3>1, <3>2, WrittenIs, RoutingAssumption
  <2>2. CASE p \notin named
    <3>1. filed'[p] = filed[p] /\ saved'[p] = saved[p]
        BY <1>1, <2>2
    <3>2. filed[p] \in Places /\ files[filed[p]] # None
          /\ files[filed[p]][SavedVar[p]] = saved[p]
        BY <1>3, <2>2, <3>1 DEF KeyInv, KeysTyped, Kept
    <3>3. \A q \in named : SavedVar[q] # SavedVar[p]
        BY <1>2, <2>2, RoutingAssumption
    <3>4. Content(Written(keys)[filed[p]])[SavedVar[p]] = Content(files[filed[p]])[SavedVar[p]]
        BY <1>3, <1>5, <3>2, <3>3, WrittenContent
    <3>5. Written(keys)[filed[p]] # None
      <4>1. CASE filed[p] = Target
        <5>1. Written(keys)[filed[p]] \in Settings
            BY <1>3, <4>1, WrittenIs
        <5> QED BY <5>1, RoutingAssumption
      <4>2. CASE filed[p] # Target
        <5>1. Written(keys)[filed[p]] = files[filed[p]]
            BY <1>3, <3>2, <4>2, WrittenIs
        <5> QED BY <3>2, <5>1
      <4> QED BY <4>1, <4>2
    <3> QED BY <1>1, <3>1, <3>2, <3>4, <3>5 DEF Content
  <2> QED BY <2>1, <2>2
<1>9. Read'
  <2> SUFFICES ASSUME NEW p \in Saveable, WasRead(p)', p \notin fresh',
                      Shell[SavedVar[p]] = None
               PROVE  env'[SavedVar[p]] = saved'[p]
      BY DEF Read
  <2>1. p \notin named /\ p \notin fresh /\ WasRead(p) /\ saved'[p] = saved[p]
      BY <1>1 DEF WasRead
  <2>2. \A q \in named : SavedVar[q] # SavedVar[p]
      BY <1>2, <2>1, RoutingAssumption
  <2>3. env'[SavedVar[p]] = env[SavedVar[p]]
      BY <1>1, <1>5, <2>2, OverlayLeaves
  <2> QED BY <2>1, <2>3 DEF KeyInv, Read
<1>10. AsInstalled'
  <2> SUFFICES ASSUME NEW c \in Places \ torn, NEW v \in Vars, Unsaved(v)'
               PROVE  Content(files'[c])[v] = Content(Files[c])[v]
      BY <1>1 DEF AsInstalled
  <2>1. Unsaved(v) /\ \A p \in named : SavedVar[p] # v
      BY <1>4
  <2>2. Content(files'[c])[v] = Content(files[c])[v]
      BY <1>1, <1>3, <2>1, WrittenContent
  <2> QED BY <2>1, <2>2 DEF KeyInv, AsInstalled
<1>11. ReadAsInstalled'
  <2> SUFFICES ASSUME loaded = Find(Files), loaded \notin torn,
                      NEW v \in Vars, Unsaved(v)'
               PROVE  env'[v] = Boot(Files)[v]
      BY <1>1 DEF ReadAsInstalled
  <2>1. Unsaved(v) /\ \A p \in named : SavedVar[p] # v
      BY <1>4
  <2>2. env'[v] = env[v]
      BY <1>1, <2>1, OverlayLeaves
  <2> QED BY <2>1, <2>2 DEF KeyInv, ReadAsInstalled
<1> QED BY <1>6, <1>7, <1>8, <1>9, <1>10, <1>11 DEF KeyInv

\* A process that starts reads the file it finds.
LEMMA StartReads ==
    ASSUME KeysTyped, Recorded, NEW c \in Cwds, NEW fs \in Disk, Start(c, fs),
           UNCHANGED saved, Kept', AsInstalled', KeysTyped'
    PROVE  InForce' /\ Read' /\ ReadAsInstalled'
<1>1. /\ literal' = Literal /\ env' = Boot(fs) /\ loaded' = Find(fs)
      /\ files' = fs /\ fresh' = {}
    BY DEF Start
<1>2. InForce'
    BY <1>1 DEF InForce
<1>3. Read'
  <2> SUFFICES ASSUME NEW p \in Saveable, WasRead(p)', Shell[SavedVar[p]] = None
               PROVE  env'[SavedVar[p]] = saved'[p]
      BY DEF Read
  <2>1. filed'[p] = Find(fs) /\ Find(fs) # None
      BY <1>1 DEF WasRead
  <2>2. SavedVar[p] \in Vars
      BY RoutingAssumption
  <2>3. env'[SavedVar[p]] = fs[Find(fs)][SavedVar[p]]
      BY <1>1, <2>1, <2>2, BootReads
  <2> QED BY <1>1, <2>1, <2>3 DEF Kept
<1>4. ReadAsInstalled'
  <2> SUFFICES ASSUME loaded' = Find(Files), loaded' \notin torn',
                      NEW v \in Vars, Unsaved(v)'
               PROVE  env'[v] = Boot(Files)[v]
      BY DEF ReadAsInstalled
  <2>1. Find(fs) = Find(Files)
      BY <1>1
  <2>2. Find(fs) # None => fs[Find(fs)][v] = Files[Find(fs)][v]
    <3> SUFFICES ASSUME Find(fs) # None PROVE fs[Find(fs)][v] = Files[Find(fs)][v]
        OBVIOUS
    <3>1. Files \in Disk
        BY RoutingAssumption DEF Disk
    <3>2. Find(fs) \in Places /\ fs[Find(fs)] \in Settings
        BY FindType
    <3>3. Files[Find(fs)] \in Settings
        BY <2>1, <3>1, FindType
    <3>4. Find(fs) \in Places \ torn'
        BY <1>1, <3>2
    <3>5. Content(fs[Find(fs)])[v] = Content(Files[Find(fs)])[v]
        BY <1>1, <3>4 DEF AsInstalled
    <3> QED BY <3>2, <3>3, <3>5, RoutingAssumption DEF Content
  <2> QED BY <1>1, <2>1, <2>2, SameFileSameEnvironment
<1> QED BY <1>2, <1>3, <1>4

LEMMA RestartOK ==
    ASSUME KeyInv, NEW c \in Cwds, Restart(c)
    PROVE  KeyInv'
<1>1. /\ Start(c, files) /\ UNCHANGED <<files, saved, filed, torn>>
      /\ env' = Boot(files) /\ literal' = Literal /\ fresh' = {}
      /\ cwd' = c /\ loaded' = Find(files)
    BY DEF Restart, Start
<1>2. KeysTyped'
    BY <1>1, BootType, FindType, RoutingAssumption DEF KeyInv, KeysTyped
<1>3. Recorded' /\ Kept' /\ AsInstalled'
    BY <1>1 DEF KeyInv, Recorded, Kept, AsInstalled, Unsaved
<1> QED BY <1>1, <1>2, <1>3, StartReads DEF KeyInv, KeysTyped

LEMMA DieWhileSavingOK ==
    ASSUME KeyInv, NEW c \in Cwds, DieWhileSaving(c)
    PROVE  KeyInv'
<1> DEFINE fs == [files EXCEPT ![Target] = Blank]
<1>1. /\ Start(c, fs) /\ UNCHANGED saved
      /\ filed' = [p \in Saveable |-> IF filed[p] = Target THEN None ELSE filed[p]]
      /\ torn' = torn \cup {Target}
      /\ env' = Boot(fs) /\ literal' = Literal /\ fresh' = {}
      /\ files' = fs /\ cwd' = c /\ loaded' = Find(fs)
    BY DEF DieWhileSaving, Start
<1>2. Target \in Places /\ KeysTyped
    BY TargetType DEF KeyInv
<1>3. fs \in Disk
    BY <1>2 DEF KeysTyped, Disk, Blank, Settings, MaybeKey
<1>4. \A d \in Places : d # Target => fs[d] = files[d]
    BY <1>2 DEF KeysTyped, Disk
<1> HIDE DEF fs
<1>5. KeysTyped'
    BY <1>1, <1>2, <1>3, BootType, FindType, RoutingAssumption DEF KeysTyped
<1>6. Recorded' /\ Kept'
    BY <1>1, <1>2, <1>4 DEF KeyInv, KeysTyped, Recorded, Kept
<1>7. AsInstalled'
    BY <1>1, <1>4 DEF KeyInv, AsInstalled, Unsaved
<1> QED BY <1>1, <1>2, <1>3, <1>5, <1>6, <1>7, StartReads DEF KeyInv

LEMMA KeyStep == KeyInv /\ [Next]_vars => KeyInv'
<1> SUFFICES ASSUME KeyInv, [Next]_vars PROVE KeyInv'
    OBVIOUS
<1>1. ASSUME NEW keys \in Entered, NEW written \in BOOLEAN, SaveKeys(keys, written)
      PROVE  KeyInv'
    BY <1>1, SaveKeysOK
<1>2. CASE UNCHANGED keyVars
    BY <1>2 DEF keyVars, KeyInv, KeysTyped, InForce, Recorded, Kept, Read, WasRead,
                AsInstalled, ReadAsInstalled, Unsaved
<1>3. ASSUME NEW p \in Prompts, NEW stream \in BOOLEAN, AutoRequest(p, stream)
      PROVE  KeyInv'
    BY <1>2, <1>3 DEF AutoRequest
<1>4. CASE UNCHANGED vars
    BY <1>2, <1>4 DEF vars, keyVars
<1> QED BY <1>1, <1>3, <1>4, RestartOK, DieWhileSavingOK DEF Next

LEMMA KeyInvariant == Spec => []KeyInv
BY KeyInit, KeyStep, PTL DEF Spec

LEMMA InvKeepsKeys == KeyInv => KeysFollowOperator
<1> SUFFICES ASSUME KeyInv, NEW p \in Providers
             PROVE  IF p \in Saveable /\ saved[p] # None
                    THEN Usable(saved[p]) /\ (p \in fresh \/ (WasRead(p) /\ ~Decided(p)))
                         => ResolvedKey(p) = saved[p]
                    ELSE loaded = Find(Files) /\ loaded \notin torn /\ SharesNoName(p)
                         => ResolvedKey(p) = KeyOf(p, Literal, Boot(Files))
    BY DEF KeysFollowOperator
<1>1. CASE p \in Saveable /\ saved[p] # None
  <2>1. ASSUME Usable(saved[p]), p \in fresh
        PROVE  ResolvedKey(p) = saved[p]
      BY <2>1 DEF ResolvedKey, KeyOf, KeyInv, InForce
  <2>2. ASSUME Usable(saved[p]), p \notin fresh, WasRead(p), ~Decided(p)
        PROVE  ResolvedKey(p) = saved[p]
    <3>1. /\ ~Usable(Literal[p]) /\ Shell[SavedVar[p]] = None
          /\ Head(EnvNames[p]) = SavedVar[p]
        BY <2>2 DEF Decided
    <3>2. env[Head(EnvNames[p])] = saved[p] /\ literal[p] = Literal[p]
        BY <1>1, <2>2, <3>1 DEF KeyInv, Read, InForce
    <3>3. EnvNames[p] # <<>>
        BY <1>1, RoutingAssumption
    <3>4. FromEnv(p, env) = saved[p]
        BY <2>2, <3>2, <3>3, FirstNameWins
    <3> QED BY <3>1, <3>2, <3>4 DEF ResolvedKey, KeyOf
  <2> QED BY <1>1, <2>1, <2>2
<1>2. CASE ~(p \in Saveable /\ saved[p] # None)
  <2> SUFFICES ASSUME loaded = Find(Files), loaded \notin torn, SharesNoName(p)
               PROVE  KeyOf(p, literal, env) = KeyOf(p, Literal, Boot(Files))
      BY <1>2 DEF ResolvedKey
  <2>1. literal[p] = Literal[p]
      BY <1>2 DEF KeyInv, KeysTyped, InForce, Recorded
  <2>2. ASSUME NEW i \in DOMAIN EnvNames[p]
        PROVE  env[EnvNames[p][i]] = Boot(Files)[EnvNames[p][i]]
    <3>1. EnvNames[p][i] \in Vars
        BY RoutingAssumption
    <3>2. Unsaved(EnvNames[p][i])
        BY <1>2 DEF SharesNoName, Unsaved
    <3> QED BY <3>1, <3>2 DEF KeyInv, ReadAsInstalled
  <2> QED BY <2>1, <2>2, SameNamesSameKey
<1> QED BY <1>1, <1>2

\* The key a provider is called with is the one saved last, through any number
\* of saves, failed writes, lost files and restarts in any directory, after a
\* restart only if the file it was written to is the file that is read; and a
\* provider nobody saved a key for keeps its own while the installed file is
\* found and whole (api_save_keys, persist_env_vars, load_dotenv).
THEOREM KeysFollow == Spec => []KeysFollowOperator
BY InvKeepsKeys, KeyInvariant, PTL

(***************************************************************************)
(* Tiers.                                                                  *)
(***************************************************************************)
LEMMA PromptTypes ==
    ASSUME NEW p \in Prompts
    PROVE  p.text \in Signals /\ p.lost \in Signals /\ p.gained \in Signals
           /\ p.filler \in Nat
BY RoutingAssumption DEF Prompt

\* More of every signal scores no less.
LEMMA ScoreRises ==
    ASSUME NEW s \in Signals, NEW t \in Signals, s.words <= t.words,
           s.instr <= t.instr, s.reason <= t.reason, s.code <= t.code
    PROVE  /\ Score(s) \in Nat /\ Score(t) \in Nat /\ Score(s) <= Score(t)
           /\ NeedsCare(s) => NeedsCare(t)
<1>1. /\ s.words \in Nat /\ s.instr \in Nat /\ s.reason \in Nat /\ s.code \in Nat
      /\ t.words \in Nat /\ t.instr \in Nat /\ t.reason \in Nat /\ t.code \in Nat
    BY DEF Signals
<1>2. /\ AtMost(500, s.words) \in Nat /\ AtMost(500, s.words) <= AtMost(500, t.words)
      /\ AtMost(5, s.instr) \in Nat /\ AtMost(5, s.instr) <= AtMost(5, t.instr)
      /\ AtMost(3, s.reason) \in Nat /\ AtMost(3, s.reason) <= AtMost(3, t.reason)
      /\ AtMost(3, s.code) \in Nat /\ AtMost(3, s.code) <= AtMost(3, t.code)
      /\ AtMost(500, t.words) \in Nat /\ AtMost(5, t.instr) \in Nat
      /\ AtMost(3, t.reason) \in Nat /\ AtMost(3, t.code) \in Nat
    BY <1>1 DEF AtMost
<1>3. Score(s) \in Nat /\ Score(t) \in Nat /\ Score(s) <= Score(t)
    BY <1>2 DEF Score
<1>4. NeedsCare(s) => NeedsCare(t)
    BY <1>1 DEF NeedsCare
<1> QED BY <1>3, <1>4

LEMMA JoinedType ==
    ASSUME NEW s \in Signals, NEW t \in Signals
    PROVE  Joined(s, t) \in Signals
BY DEF Joined, Signals

LEMMA RawType ==
    ASSUME NEW p \in Prompts
    PROVE  Raw(p) \in Signals
BY PromptTypes, JoinedType DEF Raw, Joined, Signals

\* Signals that score nothing are none.
LEMMA NoScoreNoSignal ==
    ASSUME NEW s \in Signals, ~(Score(s) > 0)
    PROVE  s.words = 0 /\ s.instr = 0 /\ s.reason = 0 /\ s.code = 0
<1>1. s.words \in Nat /\ s.instr \in Nat /\ s.reason \in Nat /\ s.code \in Nat
    BY DEF Signals
<1> DEFINE a == AtMost(500, s.words)
           b == AtMost(5, s.instr)
           c == AtMost(3, s.reason)
           d == AtMost(3, s.code)
<1>2. /\ a \in Nat /\ (a = 0 => s.words = 0)
      /\ b \in Nat /\ (b = 0 => s.instr = 0)
      /\ c \in Nat /\ (c = 0 => s.reason = 0)
      /\ d \in Nat /\ (d = 0 => s.code = 0)
    BY <1>1 DEF AtMost
<1>3. ~(3 * a + 240 * b + 700 * c + 400 * d > 0)
    BY DEF Score
<1> HIDE DEF a, b, c, d
<1>4. a = 0 /\ b = 0 /\ c = 0 /\ d = 0
    BY <1>2, <1>3
<1> QED BY <1>2, <1>4

\* Where pruning completes and repeats nothing, it only takes signals; what it
\* keeps stays either way.
LEMMA PruningTakes ==
    ASSUME NEW p \in Prompts
    PROVE  /\ Score(Pruned(p)) \in Nat /\ Score(Raw(p)) \in Nat
           /\ NeedsCare(p.text) => NeedsCare(Raw(p)) /\ NeedsCare(Pruned(p))
           /\ ~(Score(p.gained) > 0) =>
                 /\ Score(Pruned(p)) <= Score(Raw(p))
                 /\ NeedsCare(Pruned(p)) => NeedsCare(Raw(p))
<1> DEFINE t == Raw(p)
           u == Joined(p.text, p.gained)
<1>1. p.text \in Signals /\ p.gained \in Signals /\ t \in Signals /\ u \in Signals
    BY PromptTypes, RawType, JoinedType
<1>2. /\ p.text.words <= t.words /\ p.text.instr <= t.instr
      /\ p.text.reason <= t.reason /\ p.text.code <= t.code
    BY PromptTypes DEF Raw, Joined, Signals
<1>3. /\ p.text.words <= u.words /\ p.text.instr <= u.instr
      /\ p.text.reason <= u.reason /\ p.text.code <= u.code
    BY PromptTypes DEF Joined, Signals
<1>4. ASSUME ~(Score(p.gained) > 0)
      PROVE  u.words <= t.words /\ u.instr <= t.instr
             /\ u.reason <= t.reason /\ u.code <= t.code
  <2>1. /\ p.gained.words = 0 /\ p.gained.instr = 0
        /\ p.gained.reason = 0 /\ p.gained.code = 0
      BY <1>1, <1>4, NoScoreNoSignal
  <2>2. /\ u.words = p.text.words /\ u.instr = p.text.instr
        /\ u.reason = p.text.reason /\ u.code = p.text.code
      BY <1>1, <2>1 DEF Joined, Signals
  <2> HIDE DEF t, u
  <2> QED BY <1>2, <2>2
<1>5. Pruned(p) = IF p.text.words = 0 THEN t ELSE u
    BY DEF Pruned
<1>6. t.words <= t.words /\ t.instr <= t.instr /\ t.reason <= t.reason /\ t.code <= t.code
    BY <1>1 DEF Signals
<1> HIDE DEF t, u
<1>7. /\ Score(t) \in Nat /\ Score(u) \in Nat
      /\ NeedsCare(p.text) => NeedsCare(t) /\ NeedsCare(u)
    BY <1>1, <1>2, <1>3, ScoreRises
<1>8. ASSUME ~(Score(p.gained) > 0)
      PROVE  Score(u) <= Score(t) /\ (NeedsCare(u) => NeedsCare(t))
    BY <1>1, <1>4, <1>8, ScoreRises
<1>9. /\ Score(Pruned(p)) \in Nat /\ Score(t) \in Nat
      /\ NeedsCare(p.text) => NeedsCare(t) /\ NeedsCare(Pruned(p))
    BY <1>5, <1>7
<1>10. ASSUME ~(Score(p.gained) > 0)
       PROVE  /\ Score(Pruned(p)) <= Score(t)
              /\ NeedsCare(Pruned(p)) => NeedsCare(t)
    BY <1>5, <1>7, <1>8, <1>10
<1> QED BY <1>9, <1>10 DEF t

LEMMA TiersFall ==
    ASSUME NEW p \in Prompts
    PROVE  /\ TierOf(Raw(p)) \in Tiers /\ TierOf(Pruned(p)) \in Tiers
           /\ NeedsCare(p.text) => /\ TierOf(Raw(p)) # "economy"
                                   /\ TierOf(Pruned(p)) # "economy"
           /\ ~(Score(p.gained) > 0) =>
                 /\ TierOf(Raw(p)) = "economy" => TierOf(Pruned(p)) = "economy"
                 /\ TierOf(Pruned(p)) = "frontier" => TierOf(Raw(p)) = "frontier"
BY PruningTakes DEF TierOf, Tiers

(***************************************************************************)
(* Where the automatic alias leads.                                        *)
(***************************************************************************)
RoutedSet == {Routes[i] : i \in DOMAIN Routes}

\* The attempt that decides, by its place in the order of preference.
Decides(tier, n, m) ==
    /\ n = 1 => m \in ReadyModels /\ m = TierModels[tier]
    /\ n = 2 => m \in LiveModels
    /\ n = 3 => m \in ReadyModels
    /\ n \in {4, 5} => m \in RoutedModels

LEMMA ModelSets ==
    /\ RoutedModels = RoutedSet /\ ReadyModels \subseteq RoutedSet
    /\ LiveModels \subseteq ReadyModels
<1>1. Routes \in Seq(Models)
    BY RoutingAssumption
<1>2. \A i \in DOMAIN Routes : Routes[i] \in Models
    BY <1>1, ElementOfSeq, LenProperties
<1> QED BY <1>2 DEF RoutedModels, RoutedSet, ReadyModels, LiveModels, Routed, Ready, Live

LEMMA Attempts ==
    ASSUME NEW tier \in Tiers
    PROVE  LET P == Preferences(tier)
           IN  /\ DOMAIN P = 1..5
               /\ Offers(P[1]) = {i \in 1..Len(Configured(tier)) :
                                     Configured(tier)[i] \in ReadyModels}
               /\ Offers(P[2]) = {i \in 1..Len(Candidates[tier]) :
                                     Candidates[tier][i] \in LiveModels}
               /\ Offers(P[3]) = {i \in 1..(Len(Routes) + 1) :
                                     (<<Simulated[tier]>> \o Routes)[i] \in ReadyModels}
               /\ Offers(P[4]) \subseteq Nat
               /\ Offers(P[5]) = 1..Len(Routes)
<1> DEFINE P == Preferences(tier)
           three == <<Simulated[tier]>> \o Routes
           four == Configured(tier) \o Candidates[tier]
<1>1. /\ Candidates[tier] \in Seq(Models) /\ Routes \in Seq(Models)
      /\ Simulated[tier] \in Models
      /\ TierModels[tier] \in Models \cup {None}
    BY RoutingAssumption
<1>2. Configured(tier) \in Seq(Models)
    BY <1>1 DEF Configured
<1>3. three \in Seq(Models) /\ Len(three) = Len(Routes) + 1
  <2>1. <<Simulated[tier]>> \in Seq(Models) /\ Len(<<Simulated[tier]>>) = 1
      BY <1>1
  <2> QED BY <1>1, <2>1, ConcatProperties, LenProperties
<1>4. four \in Seq(Models)
    BY <1>1, <1>2, ConcatProperties
<1>5. /\ DOMAIN P = 1..5
      /\ P[1] = Try(Configured(tier), ReadyModels)
      /\ P[2] = Try(Candidates[tier], LiveModels)
      /\ P[3] = Try(three, ReadyModels)
      /\ P[4] = Try(four, RoutedModels)
      /\ P[5] = Try(Routes, RoutedModels)
    BY DEF Preferences
<1>6. Offers(P[5]) = 1..Len(Routes)
  <2>1. Offers(P[5]) = {i \in 1..Len(Routes) : Routes[i] \in RoutedModels}
      BY <1>1, <1>5, OfferPlaces
  <2>2. \A i \in 1..Len(Routes) : Routes[i] \in RoutedModels
      BY <1>1, ModelSets, LenProperties DEF RoutedSet
  <2> QED BY <2>1, <2>2
<1>7. Offers(P[4]) = {i \in 1..Len(four) : four[i] \in RoutedModels}
  <2> HIDE DEF four
  <2> QED BY <1>4, <1>5, OfferPlaces
<1>8. Offers(P[3]) = {i \in 1..Len(three) : three[i] \in ReadyModels}
  <2> HIDE DEF three
  <2> QED BY <1>3, <1>5, OfferPlaces
<1>9. Len(four) \in Nat
  <2> HIDE DEF four
  <2> QED BY <1>4, LenProperties
<1>10. Offers(P[4]) \subseteq Nat
    BY <1>7, <1>9
<1> HIDE DEF P
<1>11. /\ Offers(P[1]) = {i \in 1..Len(Configured(tier)) :
                            Configured(tier)[i] \in ReadyModels}
       /\ Offers(P[2]) = {i \in 1..Len(Candidates[tier]) :
                            Candidates[tier][i] \in LiveModels}
    BY <1>1, <1>2, <1>5, OfferPlaces
<1> QED BY <1>3, <1>5, <1>6, <1>8, <1>10, <1>11 DEF P

LEMMA OffersArePlaces ==
    ASSUME NEW tier \in Tiers
    PROVE  /\ \A n \in 1..5 : Offers(Preferences(tier)[n]) \subseteq Nat
           /\ Offers(Preferences(tier)[5]) # {}
<1> DEFINE O(n) == Offers(Preferences(tier)[n])
<1>1. /\ Len(Configured(tier)) \in Nat /\ Len(Candidates[tier]) \in Nat
      /\ Len(Routes) \in Nat /\ Len(Routes) >= 1
    BY RoutingAssumption, LenProperties DEF Configured
<1>2. O(1) = {i \in 1..Len(Configured(tier)) : Configured(tier)[i] \in ReadyModels}
    BY Attempts
<1>3. O(2) = {i \in 1..Len(Candidates[tier]) : Candidates[tier][i] \in LiveModels}
    BY Attempts
<1>4. O(3) = {i \in 1..(Len(Routes) + 1) :
                (<<Simulated[tier]>> \o Routes)[i] \in ReadyModels}
    BY Attempts
<1>5. O(4) \subseteq Nat
    BY Attempts
<1>6. O(5) = 1..Len(Routes)
    BY Attempts
<1> HIDE DEF O
<1>7. O(1) \subseteq Nat /\ O(2) \subseteq Nat
    BY <1>1, <1>2, <1>3
<1>8. O(3) \subseteq Nat
    BY <1>1, <1>4
<1>9. O(5) \subseteq Nat /\ 1 \in O(5)
    BY <1>1, <1>6
<1>10. ASSUME NEW n \in 1..5 PROVE O(n) \subseteq Nat
  <2>1. n = 1 \/ n = 2 \/ n = 3 \/ n = 4 \/ n = 5
      OBVIOUS
  <2> QED BY <1>5, <1>7, <1>8, <1>9, <2>1
<1> QED BY <1>9, <1>10 DEF O

LEMMA Decision ==
    ASSUME NEW tier \in Tiers, NEW k \in 1..5, Offers(Preferences(tier)[k]) # {}
    PROVE  \E n \in 1..5 :
              /\ n <= k
              /\ Decides(tier, n, ResolveAuto(tier))
              /\ n >= 3 => Offers(Preferences(tier)[2]) = {}
<1> DEFINE P == Preferences(tier)
<1>1. DOMAIN P = 1..5 /\ \A n \in 1..5 : Offers(P[n]) \subseteq Nat
    BY Attempts, OffersArePlaces
<1>2. PICK n \in 1..5 :
        /\ n <= k
        /\ \A l \in 1..5 : l < n => Offers(P[l]) = {}
        /\ \E i \in Offers(P[n]) : FirstOffer(P) = P[n].of[i]
  <2> HIDE DEF P
  <2>1. Offers(P[k]) # {}
      BY DEF P
  <2> QED BY <1>1, <2>1, FirstOfferOf
<1>3. PICK i \in Offers(P[n]) : ResolveAuto(tier) = P[n].of[i]
    BY <1>2 DEF ResolveAuto
<1>4. P[n].of[i] \in P[n].ok
    BY <1>3 DEF Offers
<1>5. /\ P[1].ok = ReadyModels /\ P[2].ok = LiveModels /\ P[3].ok = ReadyModels
      /\ P[4].ok = RoutedModels /\ P[5].ok = RoutedModels
      /\ P[1].of = Configured(tier)
    BY DEF Preferences, Try
<1>6. n = 1 => ResolveAuto(tier) = TierModels[tier]
  <2> SUFFICES ASSUME n = 1 PROVE ResolveAuto(tier) = TierModels[tier]
      OBVIOUS
  <2>1. i \in 1..Len(Configured(tier)) /\ ResolveAuto(tier) = Configured(tier)[i]
      BY <1>3, <1>5, Attempts
  <2>2. CASE TierModels[tier] = None
      BY <2>1, <2>2 DEF Configured
  <2>3. CASE TierModels[tier] # None
      BY <2>1, <2>3 DEF Configured
  <2> QED BY <2>2, <2>3
<1>7. Decides(tier, n, ResolveAuto(tier))
    BY <1>3, <1>4, <1>5, <1>6 DEF Decides
<1>8. n >= 3 => Offers(P[2]) = {}
    BY <1>2
<1> QED BY <1>2, <1>7, <1>8

\* What is resolved has a route, and is ready if any model is.
LEMMA ResolvedRouted ==
    ASSUME NEW tier \in Tiers
    PROVE  /\ ResolveAuto(tier) \in RoutedSet
           /\ ReadyModels # {} => ResolveAuto(tier) \in ReadyModels
<1>1. Routes \in Seq(Models) /\ Routes # <<>> /\ Len(Routes) \in Nat /\ Len(Routes) >= 1
    BY RoutingAssumption, LenProperties
<1>2. ResolveAuto(tier) \in RoutedSet
  <2>1. Offers(Preferences(tier)[5]) # {}
      BY OffersArePlaces
  <2>2. PICK n \in 1..5 : Decides(tier, n, ResolveAuto(tier))
      BY <2>1, Decision
  <2>3. n = 1 \/ n = 2 \/ n = 3 \/ n \in {4, 5}
      OBVIOUS
  <2> QED BY <2>2, <2>3, ModelSets DEF Decides
<1>3. ASSUME ReadyModels # {} PROVE ResolveAuto(tier) \in ReadyModels
  <2>1. PICK m \in ReadyModels : m \in RoutedSet
      BY <1>3, ModelSets
  <2>2. PICK j \in 1..Len(Routes) : Routes[j] = m
      BY <1>1, <2>1, LenProperties DEF RoutedSet
  <2>3. (<<Simulated[tier]>> \o Routes)[j + 1] = Routes[j]
    <3>1. <<Simulated[tier]>> \in Seq(Models) /\ Len(<<Simulated[tier]>>) = 1
        BY RoutingAssumption
    <3> QED BY <1>1, <2>2, <3>1, ConcatProperties
  <2>4. Offers(Preferences(tier)[3]) # {}
    <3>1. j + 1 \in 1..(Len(Routes) + 1)
        BY <1>1, <2>2
    <3> QED BY <2>1, <2>2, <2>3, <3>1, Attempts
  <2>5. PICK n \in 1..5 : n <= 3 /\ Decides(tier, n, ResolveAuto(tier))
      BY <2>4, Decision
  <2>6. n = 1 \/ n = 2 \/ n = 3
      BY <2>5
  <2> QED BY <2>5, <2>6, ModelSets DEF Decides
<1> QED BY <1>2, <1>3

\* The simulation answers only if the configuration says so, or if no
\* candidate of the tier is live.
LEMMA SimulationLast ==
    ASSUME NEW tier \in Tiers, Ready(ResolveAuto(tier)),
           Type[ProviderOf[ResolveAuto(tier)]] = "mock"
    PROVE  \/ ResolveAuto(tier) = TierModels[tier]
           \/ \A i \in DOMAIN Candidates[tier] : ~Live(Candidates[tier][i])
<1>1. Candidates[tier] \in Seq(Models) /\ DOMAIN Candidates[tier] = 1..Len(Candidates[tier])
    BY RoutingAssumption, LenProperties
<1>2. Offers(Preferences(tier)[5]) # {}
    BY OffersArePlaces
<1>3. PICK n \in 1..5 : /\ Decides(tier, n, ResolveAuto(tier))
                        /\ n >= 3 => Offers(Preferences(tier)[2]) = {}
    BY <1>2, Decision
<1>4. n # 2
    BY <1>3 DEF Decides, LiveModels, Live
<1>5. CASE n = 1
    BY <1>3, <1>5 DEF Decides
<1>6. CASE n >= 3
  <2>1. \A i \in 1..Len(Candidates[tier]) : Candidates[tier][i] \notin LiveModels
      BY <1>3, <1>6, Attempts
  <2>2. \A i \in 1..Len(Candidates[tier]) : Candidates[tier][i] \in Models
      BY <1>1, ElementOfSeq
  <2> QED BY <1>1, <2>1, <2>2 DEF LiveModels
<1> QED BY <1>4, <1>5, <1>6

(***************************************************************************)
(* Automatic requests.                                                     *)
(***************************************************************************)
Last ==
    \/ last = None
    \/ last \in [prompt : Prompts, before : Tiers, tier : Tiers, model : RoutedSet]

\* What one automatic request is, whatever the keys are.
LEMMA AutoRequestIs ==
    ASSUME NEW p \in Prompts, NEW stream \in BOOLEAN, AutoRequest(p, stream)
    PROVE  /\ last' \in [prompt : Prompts, before : Tiers, tier : Tiers, model : RoutedSet]
           /\ last'.prompt = p /\ last'.before = TierOf(Raw(p))
           /\ last'.tier \in {TierOf(Raw(p)), TierOf(Pruned(p))}
           /\ last'.model = ResolveAuto(last'.tier)
<1> DEFINE tier == IF stream THEN TierOf(Raw(p)) ELSE TierOf(Pruned(p))
<1>1. TierOf(Raw(p)) \in Tiers /\ tier \in Tiers
    BY TiersFall
<1>2. ResolveAuto(tier) \in RoutedSet
  <2> HIDE DEF tier
  <2> QED BY <1>1, ResolvedRouted
<1>3. last' = [prompt |-> p, before |-> TierOf(Raw(p)), tier |-> tier,
               model |-> ResolveAuto(tier)]
    BY DEF AutoRequest
<1>4. tier \in {TierOf(Raw(p)), TierOf(Pruned(p))}
    OBVIOUS
<1> HIDE DEF tier
<1> QED BY <1>1, <1>2, <1>3, <1>4

LEMMA LastStep ==
    ASSUME [Next]_vars
    PROVE  \/ last' = None \/ last' = last
           \/ \E p \in Prompts, stream \in BOOLEAN : AutoRequest(p, stream)
BY DEF Next, vars, SaveKeys, Restart, DieWhileSaving, Start

\* Every variable keeps its type, and what is resolved for a pruned prompt has
\* a route, although the code does not check it again (_resolve_auto_model).
THEOREM RoutingTyped == Spec => []TypeOK
<1>1. Init => Last
    BY DEF Init, Last
<1>2. Last /\ [Next]_vars => Last'
    BY LastStep, AutoRequestIs DEF Last
<1>3. KeyInv /\ Last => TypeOK
    BY DEF KeyInv, KeysTyped, Last, TypeOK, RoutedSet, Disk
<1> QED BY <1>1, <1>2, <1>3, KeyInvariant, PTL DEF Spec

\* For any prompt whatever its signals, code or strong reasoning that pruning
\* keeps never goes to the cheap tier, and pruning raises a tier only by signals
\* it completed or repeated (ComplexityRouter.score, prune).
THEOREM PruningSafe == Spec => []SafeWhenRouting
<1>1. Init => SafeWhenRouting
    BY DEF Init, SafeWhenRouting
<1>2. ASSUME SafeWhenRouting, [Next]_vars PROVE SafeWhenRouting'
  <2>1. ASSUME NEW p \in Prompts, NEW stream \in BOOLEAN, AutoRequest(p, stream)
        PROVE  SafeWhenRouting'
      BY <2>1, AutoRequestIs, TiersFall DEF SafeWhenRouting
  <2> QED BY <1>2, <2>1, LastStep DEF SafeWhenRouting
<1> QED BY <1>1, <1>2, PTL DEF Spec

\* Whatever keys are saved, lost or restored, an automatic request goes to a
\* model with a key at hand if there is one, and to the simulation only last
\* (_resolve_auto_model).
THEOREM AutomaticLive == Spec => AutomaticGoesLive
<1>1. ASSUME [Next]_vars, last' # last, last' # None
      PROVE  /\ (\E c \in Models : Ready(c)) => Ready(last'.model)
             /\ Ready(last'.model) /\ Type[ProviderOf[last'.model]] = "mock" =>
                   \/ last'.model = TierModels[last'.tier]
                   \/ \A i \in DOMAIN Candidates[last'.tier] :
                         ~Live(Candidates[last'.tier][i])
  <2>1. PICK p \in Prompts, stream \in BOOLEAN : AutoRequest(p, stream)
      BY <1>1, LastStep
  <2>2. last'.tier \in Tiers /\ last'.model = ResolveAuto(last'.tier)
      BY <2>1, AutoRequestIs
  <2>3. (\E c \in Models : Ready(c)) => Ready(last'.model)
      BY <2>2, ResolvedRouted DEF ReadyModels
  <2>4. Ready(last'.model) /\ Type[ProviderOf[last'.model]] = "mock" =>
           \/ last'.model = TierModels[last'.tier]
           \/ \A i \in DOMAIN Candidates[last'.tier] :
                 ~Live(Candidates[last'.tier][i])
      BY <2>2, SimulationLast
  <2> QED BY <2>3, <2>4
<1>2. [Next]_vars =>
        [last' # last /\ last' # None =>
          LET m == last'.model
              Candidate(c) == \E i \in DOMAIN Candidates[last'.tier] :
                                  Candidates[last'.tier][i] = c
          IN  /\ (\E c \in Models : Ready(c)) => Ready(m)
              /\ Ready(m) /\ Type[ProviderOf[m]] = "mock" =>
                    \/ m = TierModels[last'.tier]
                    \/ \A c \in Models : Candidate(c) => ~Live(c)]_vars
    BY <1>1
<1> QED BY <1>2, PTL DEF Spec, AutomaticGoesLive
=============================================================================
