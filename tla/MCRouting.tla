----------------------------- MODULE MCRouting -----------------------------
(***************************************************************************)
(* The shipped configuration in small.  Gemini has no key but a template   *)
(* in .env, OpenAI a key in config.yaml, Anthropic one in the shell.       *)
(***************************************************************************)
EXTENDS Routing

CONSTANTS k0, k1

MCProviders == {"gemini", "openai", "anthropic", "mock"}
MCType == [p \in MCProviders |-> p]
MCRoutes == <<"flash", "pro", "gpt", "haiku", "mock-echo", "mock-cheap">>
MCModels == {MCRoutes[i] : i \in DOMAIN MCRoutes} \cup {"opus"}
MCProviderOf ==
    [m \in MCModels |-> CASE m \in {"flash", "pro"} -> "gemini"
                          [] m = "gpt" -> "openai"
                          [] m \in {"haiku", "opus"} -> "anthropic"
                          [] OTHER -> "mock"]
MCTierModels ==
    [t \in Tiers |-> IF t = "economy" THEN "flash"
                     ELSE IF t = "balanced" THEN "mock-echo" ELSE None]
MCCandidates ==
    [t \in Tiers |-> CASE t = "economy"  -> <<"flash", "haiku">>
                       [] t = "balanced" -> <<"pro", "gpt">>
                       [] t = "frontier" -> <<"pro", "opus", "gpt">>]
MCSimulated ==
    [t \in Tiers |-> IF t = "economy" THEN "mock-cheap" ELSE "mock-echo"]

MCVars == {"GEMINI", "GOOGLE", "OPENAI", "ANTHROPIC"}
MCEnvNames ==
    [p \in MCProviders |-> CASE p = "gemini"    -> <<"GEMINI", "GOOGLE">>
                             [] p = "openai"    -> <<"OPENAI">>
                             [] p = "anthropic" -> <<"ANTHROPIC">>
                             [] OTHER           -> << >>]
MCSavedVar == [p \in Saveable |-> CASE p = "gemini" -> "GEMINI"
                                    [] p = "openai" -> "OPENAI"
                                    [] OTHER        -> "ANTHROPIC"]
\* Keys for all providers, for Gemini or for the others; and an empty one.
Entry(names, key) == [p \in Saveable |-> IF p \in names THEN key ELSE None]
MCEntered == {Entry(Saveable, k1), Entry({"gemini"}, k1), Entry({"gemini"}, "empty"),
              Entry({"openai", "anthropic"}, k1)}
MCLiteral == [p \in MCProviders |-> IF p = "openai" THEN k0 ELSE None]
MCShell == [v \in MCVars |-> IF v = "ANTHROPIC" THEN k0 ELSE None]
\* One .env, in a directory above the root of the project, where a save may put
\* another one; the service is started in the root or in /app.
MCPlaces == {"root", "above", "app"}
MCUpward == <<"root", "above">>
MCFiles ==
    [c \in MCPlaces |->
        IF c = "above" THEN [v \in MCVars |-> CASE v = "GEMINI" -> "template"
                                                [] v = "GOOGLE" -> "placeholder"
                                                [] OTHER        -> None]
        ELSE None]

S(words, instr, reason, code) ==
    [words |-> words, instr |-> instr, reason |-> reason, code |-> code]
Nothing == S(0, 0, 0, 0)
P(text, lost, filler) ==
    [text |-> text, lost |-> lost, filler |-> filler, gained |-> Nothing]
Gains(p, s) == [p EXCEPT !.gained = s]

\* Around both thresholds, with filler that carries a prompt over one, with
\* reasoning, with code, with code that pruning loses, with phrases that it
\* completes, and with nothing but filler.
MCPrompts ==
    {P(S(450, 3, 0, 0), Nothing, 40), P(S(460, 5, 2, 1), Nothing, 40),
     P(S(12, 1, 0, 1), Nothing, 3), P(S(12, 0, 0, 0), S(5, 1, 0, 1), 0),
     P(Nothing, Nothing, 4),
     Gains(P(S(20, 1, 1, 0), Nothing, 0), S(0, 0, 1, 0)),
     Gains(P(S(480, 5, 1, 2), Nothing, 0), S(0, 0, 1, 1))}
=============================================================================
