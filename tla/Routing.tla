------------------------------- MODULE Routing -------------------------------
(***************************************************************************)
(* Where the key of a provider comes from and what the automatic alias     *)
(* resolves to: config.yaml, the environment, the .env file that is read   *)
(* at start and the one that keys are saved to while the service runs      *)
(* (config.py, supadb.py, app.py); readiness and preference of models      *)
(* (gateway.py); tiers of prompts before and after pruning                 *)
(* (complexity_router.py, prompt_pruner.py).                               *)
(***************************************************************************)
EXTENDS Integers, Sequences, FiniteSetsExt

CONSTANTS
    Models,       \* client-facing models
    Providers,    \* providers of config.yaml, by name
    Type,         \* adapter type of a provider
    Routes,       \* the routed models, in the order of the configuration
    ProviderOf,   \* provider a route names
    TierModels,   \* complexity_routing.tier_models, None where unset
    Candidates,   \* models preferred for a tier, best first
    Simulated,    \* mock model for a tier
    Vars,         \* environment variables that may hold keys
    EnvNames,     \* variables a provider's key is looked up in, in order
    Saveable,     \* the provider names /api/config/keys knows
    SavedVar,     \* and the variables it writes
    RealKeys,     \* keys that are no template
    Entered,      \* what operators save at once, as functions
    Literal,      \* api_key in config.yaml
    Shell,        \* environment the process is started with
    Places,       \* directories that may hold a .env
    Upward,       \* those load_dotenv searches, from the package upward
    Cwds,         \* those the service is started in
    App,          \* /app
    Files,        \* the .env files as installed, None where there is none
    Prompts,      \* prompts of automatic requests
    None          \* absent

Tiers == {"economy", "balanced", "frontier"}

\* "template" starts with "your-", "placeholder" with "placeholder".
Key == RealKeys \cup {"empty", "template", "placeholder"}

MaybeKey == Key \cup {None}

\* Words, instruction words, reasoning words and patterns of code in a text.
Signals == [words : Nat, instr : Nat, reason : Nat, code : Nat]

\* text: what pruning keeps; lost: a fenced block inside an inline code span;
\* filler: words of greetings and thanks; gained: phrases that are complete
\* once blanks collapse ("step  by step"), blocks put back more than once.
Prompt == [text : Signals, lost : Signals, filler : Nat, gained : Signals]

\* What a .env file sets.
Settings == [Vars -> MaybeKey]

ASSUME RoutingAssumption ==
    /\ Routes \in Seq(Models) /\ Routes # <<>>
    /\ Candidates \in [Tiers -> Seq(Models)] /\ Simulated \in [Tiers -> Models]
    /\ TierModels \in [Tiers -> Models \cup {None}] /\ None \notin Models
    /\ EnvNames \in [Providers -> Seq(Vars)]
    /\ SavedVar \in [Saveable -> Vars]
    /\ \A p, q \in Saveable : SavedVar[p] = SavedVar[q] => p = q
    /\ \A p \in Saveable \cap Providers : EnvNames[p] # <<>>
    /\ Literal \in [Providers -> MaybeKey] /\ Shell \in [Vars -> MaybeKey]
    /\ Files \in [Places -> Settings \cup {None}] /\ None \notin Key
    /\ Upward \in Seq(Places) /\ Cwds \subseteq Places /\ Cwds # {}
    /\ App \in Places /\ None \notin Places /\ None \notin Settings
    /\ Prompts \subseteq Prompt /\ Entered \subseteq [Saveable -> MaybeKey]

VARIABLES
    literal,   \* api_key of the configuration in memory
    env,       \* the environment of the process
    files,     \* the .env files
    cwd,       \* where the process was started
    loaded,    \* where it found the .env it read
    saved,     \* the key last saved for a provider, for the record
    fresh,     \* providers saved since the process started
    filed,     \* where a provider's saved key was written to
    torn,      \* where a file was lost while it was written
    last       \* the last automatic request under the present keys

keyVars == <<literal, env, files, cwd, loaded, saved, fresh, filed, torn>>
vars == <<literal, env, files, cwd, loaded, saved, fresh, filed, torn, last>>

(***************************************************************************)
(* Keys.                                                                   *)
(***************************************************************************)
Usable(key) == key \in RealKeys \cup {"placeholder"}

\* The first usable value in the environment e under the names of p.
FromEnv(p, e) ==
    LET found == {i \in DOMAIN EnvNames[p] : Usable(e[EnvNames[p][i]])}
    IN  IF found = {} THEN None ELSE e[EnvNames[p][Min(found)]]

KeyOf(p, lit, e) == IF Usable(lit[p]) THEN lit[p] ELSE FromEnv(p, e)

\* What the adapter of p sends.
ResolvedKey(p) == KeyOf(p, literal, env)

Blank == [v \in Vars |-> None]

Content(f) == IF f = None THEN Blank ELSE f

\* Where load_dotenv finds a file: it searches from the package upward.
Find(fs) ==
    LET found == {i \in DOMAIN Upward : fs[Upward[i]] # None}
    IN  IF found = {} THEN None ELSE Upward[Min(found)]

\* load_dotenv fills what the environment does not set.
Boot(fs) ==
    LET f == IF Find(fs) = None THEN Blank ELSE fs[Find(fs)]
    IN  [v \in Vars |-> IF Shell[v] # None THEN Shell[v] ELSE f[v]]

\* Where persist_env_vars writes: the working directory's file, /app's if only
\* that one exists.
Target == IF files[cwd] = None /\ files[App] # None THEN App ELSE cwd

Overlay(f, keys) ==
    [v \in Vars |->
        LET named == {p \in Saveable : SavedVar[p] = v /\ keys[p] # None}
        IN  IF named = {} THEN f[v] ELSE keys[CHOOSE p \in named : TRUE]]

(***************************************************************************)
(* Which model answers the automatic alias.                                *)
(***************************************************************************)
Routed(m) == \E i \in DOMAIN Routes : Routes[i] = m

Ready(m) ==
    /\ Routed(m) /\ ProviderOf[m] \in Providers
    /\ \/ Type[ProviderOf[m]] \in {"mock", "ollama"}
       \/ ResolvedKey(ProviderOf[m]) \in RealKeys

\* Seeded bug: candidates need no route.
Live_Unrouted(m) ==
    /\ ProviderOf[m] \in Providers
    /\ \/ Type[ProviderOf[m]] = "ollama"
       \/ ResolvedKey(ProviderOf[m]) \in RealKeys

Live(m) == Ready(m) /\ Type[ProviderOf[m]] # "mock"

\* Models "of" that are tried in this order, for being among "ok".
Try(of, ok) == [of |-> of, ok |-> ok]

Offers(try) == {i \in DOMAIN try.of : try.of[i] \in try.ok}

\* The first offer of the first attempt that has one.
FirstOffer(tries) ==
    LET try == tries[Min({n \in DOMAIN tries : Offers(tries[n]) # {}})]
    IN  try.of[Min(Offers(try))]

Configured(tier) == IF TierModels[tier] = None THEN <<>> ELSE <<TierModels[tier]>>

ReadyModels == {m \in Models : Ready(m)}
LiveModels == {m \in Models : Live(m)}
RoutedModels == {m \in Models : Routed(m)}

\* In order of preference: the configured model, live candidates, the
\* simulation, anything ready; with nothing ready, what is configured, a
\* candidate, any route.
Preferences(tier) ==
    <<Try(Configured(tier), ReadyModels),
      Try(Candidates[tier], LiveModels),
      Try(<<Simulated[tier]>> \o Routes, ReadyModels),
      Try(Configured(tier) \o Candidates[tier], RoutedModels),
      Try(Routes, RoutedModels)>>

\* Seeded bug: what is configured is used, ready or not.
ResolveAuto_Configured(tier) ==
    FirstOffer(<<Try(Configured(tier), RoutedModels)>> \o Preferences(tier))

ResolveAuto(tier) == FirstOffer(Preferences(tier))

(***************************************************************************)
(* Tiers.                                                                  *)
(***************************************************************************)
AtMost(bound, n) == IF n < bound THEN n ELSE bound

\* The score in units of 1/6000: weights .25, .20, .35 and .20 of signals
\* that saturate at 500 words, 5 and 3 words and 3 patterns.
Score(s) == 3 * AtMost(500, s.words) + 240 * AtMost(5, s.instr)
            + 700 * AtMost(3, s.reason) + 400 * AtMost(3, s.code)

NeedsCare(s) == s.code > 0 \/ s.reason >= 2

\* Seeded bug: the score alone decides.
TierOf_ByScore(s) ==
    IF Score(s) >= 4500 THEN "frontier"
    ELSE IF Score(s) >= 2100 THEN "balanced" ELSE "economy"

TierOf(s) ==
    IF Score(s) >= 4500 THEN "frontier"
    ELSE IF Score(s) >= 2100 \/ NeedsCare(s) THEN "balanced" ELSE "economy"

Joined(s, t) == [words |-> s.words + t.words, instr |-> s.instr + t.instr,
                 reason |-> s.reason + t.reason, code |-> s.code + t.code]

Raw(p) == [Joined(p.text, p.lost) EXCEPT !.words = @ + p.filler]

\* Filler goes, and so does the block whose placeholder another one encloses
\* (blocks are put back in the order they were taken out); signals may come.
\* A prompt that is filler only is left as it is.
Pruned(p) == IF p.text.words = 0 THEN Raw(p) ELSE Joined(p.text, p.gained)

(***************************************************************************)
(* Actions.                                                                *)
(***************************************************************************)
Named(keys) == {p \in Saveable : keys[p] # None}

Written(keys) == [files EXCEPT ![Target] = Overlay(Content(@), keys)]

\* Seeded bug: the running configuration keeps its key.
SaveKeys_FileOnly(keys, written) ==
    /\ Named(keys) # {}
    /\ env' = Overlay(env, keys)
    /\ files' = IF written THEN Written(keys) ELSE files
    /\ saved' = [p \in Saveable |-> IF keys[p] # None THEN keys[p] ELSE saved[p]]
    /\ fresh' = fresh \cup Named(keys)
    /\ filed' = [p \in Saveable |-> IF keys[p] = None THEN filed[p]
                                    ELSE IF written THEN Target ELSE None]
    /\ last' = None
    /\ UNCHANGED <<literal, cwd, loaded, torn>>

\* POST /api/config/keys.  "written" is FALSE when .env may not be written,
\* which is answered all the same.
SaveKeys(keys, written) ==
    LET named == Named(keys)
    IN  /\ named # {}
        /\ literal' = [p \in Providers |-> IF p \in named THEN keys[p]
                                                           ELSE literal[p]]
        /\ env' = Overlay(env, keys)
        /\ files' = IF written THEN Written(keys) ELSE files
        /\ saved' = [p \in Saveable |-> IF p \in named THEN keys[p]
                                                       ELSE saved[p]]
        /\ fresh' = fresh \cup named
        /\ filed' = [p \in Saveable |-> IF p \notin named THEN filed[p]
                                        ELSE IF written THEN Target ELSE None]
        /\ last' = None
        /\ UNCHANGED <<cwd, loaded, torn>>

\* A process starts in c, with the files fs.
Start(c, fs) ==
    /\ literal' = Literal /\ env' = Boot(fs) /\ loaded' = Find(fs)
    /\ files' = fs /\ cwd' = c /\ fresh' = {} /\ last' = None

Restart(c) ==
    /\ Start(c, files)
    /\ UNCHANGED <<saved, filed, torn>>

\* The process dies between opening .env, which empties it, and writing it.
DieWhileSaving(c) ==
    /\ Start(c, [files EXCEPT ![Target] = Blank])
    /\ filed' = [p \in Saveable |-> IF filed[p] = Target THEN None ELSE filed[p]]
    /\ torn' = torn \cup {Target}
    /\ UNCHANGED saved

\* chat_completion scores the prompt, authorises the model of its tier, and
\* resolves again for the pruned prompt; a stream keeps the first.
AutoRequest(p, stream) ==
    LET before == TierOf(Raw(p))
        tier == IF stream THEN before ELSE TierOf(Pruned(p))
    IN  /\ last' = [prompt |-> p, before |-> before, tier |-> tier,
                    model |-> ResolveAuto(tier)]
        /\ UNCHANGED keyVars

Init ==
    /\ literal = Literal /\ files = Files /\ env = Boot(Files)
    /\ cwd \in Cwds /\ loaded = Find(Files)
    /\ saved = [p \in Saveable |-> None] /\ filed = [p \in Saveable |-> None]
    /\ fresh = {} /\ torn = {} /\ last = None

Next ==
    \/ \E keys \in Entered, written \in BOOLEAN : SaveKeys(keys, written)
    \/ \E c \in Cwds : Restart(c) \/ DieWhileSaving(c)
    \/ \E p \in Prompts, stream \in BOOLEAN : AutoRequest(p, stream)

Spec == Init /\ [][Next]_vars

(***************************************************************************)
(* Properties.                                                             *)
(***************************************************************************)
\* The values of the variables; what is resolved has a route, which nothing
\* checks when a pruned prompt is resolved again (chat_completion).
TypeOK ==
    /\ literal \in [Providers -> MaybeKey]
    /\ env \in Settings /\ files \in [Places -> Settings \cup {None}]
    /\ cwd \in Places /\ loaded \in Places \cup {None}
    /\ saved \in [Saveable -> MaybeKey] /\ fresh \subseteq Saveable
    /\ filed \in [Saveable -> Places \cup {None}] /\ torn \subseteq Places
    /\ \/ last = None
       \/ last \in [prompt : Prompts, before : Tiers, tier : Tiers,
                  model : {Routes[i] : i \in DOMAIN Routes}]

SharesNoName(p) ==
    \A q \in Saveable : q # p =>
        \A i \in DOMAIN EnvNames[p] : EnvNames[p][i] # SavedVar[q]

\* config.yaml, the shell or another variable decides before the file does.
Decided(p) == \/ Usable(Literal[p]) \/ Shell[SavedVar[p]] # None
              \/ Head(EnvNames[p]) # SavedVar[p]

\* The key was written to the file that the process found at start.
WasRead(p) == filed[p] # None /\ filed[p] = loaded

\* Which key a provider is called with, after any sequence of saves, failed
\* writes, restarts in other directories and lost files: the key last saved
\* for it, and after a restart too if it was written to the very file that the
\* process found at start and neither config.yaml nor the shell says otherwise;
\* a provider nobody saved a key for keeps the one it was installed with,
\* unless the installed file was lost or a save put another one before it
\* (api_save_keys, persist_env_vars, resolved_key).
KeysFollowOperator ==
    \A p \in Providers :
        IF p \in Saveable /\ saved[p] # None
        THEN Usable(saved[p]) /\ (p \in fresh \/ (WasRead(p) /\ ~Decided(p)))
             => ResolvedKey(p) = saved[p]
        ELSE loaded = Find(Files) /\ loaded \notin torn /\ SharesNoName(p)
             => ResolvedKey(p) = KeyOf(p, Literal, Boot(Files))

\* An automatic request is sent where a key is at hand, whenever any model is
\* ready, and to the simulation only if no live candidate of its tier is, or
\* the configuration says so (_resolve_auto_model).
AutomaticGoesLive ==
    [][last' # last /\ last' # None =>
          LET m == last'.model
              Candidate(c) == \E i \in DOMAIN Candidates[last'.tier] :
                                  Candidates[last'.tier][i] = c
          IN  /\ (\E c \in Models : Ready(c)) => Ready(m)
              /\ Ready(m) /\ Type[ProviderOf[m]] = "mock" =>
                    \/ m = TierModels[last'.tier]
                    \/ \A c \in Models : Candidate(c) => ~Live(c)]_vars

\* A prompt whose code or strong reasoning pruning keeps is never answered by
\* the cheap tier, and pruning raises the tier a request is authorised for only
\* if it completed or repeated a signal (ComplexityRouter.score, prune).
SafeWhenRouting ==
    last # None =>
        /\ NeedsCare(last.prompt.text) => last.tier # "economy"
        /\ \/ last.before = "economy" /\ last.tier # "economy"
           \/ last.before # "frontier" /\ last.tier = "frontier"
           => Score(last.prompt.gained) > 0
=============================================================================
