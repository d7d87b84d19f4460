-------------------------------- MODULE Calls --------------------------------
(***************************************************************************)
(* The calls of a client that streams, or that asks for single answers:    *)
(* what the chat of an adapter makes of the usage in a provider's answer,  *)
(* what the gateway bills and caches of it (Gateway.chat_completion), what *)
(* the endpoints show of it (app.py), and what a cache hit reads of it     *)
(* later.  Each of them takes the same JSON apart in its own way.          *)
(***************************************************************************)
EXTENDS Streams

CONSTANTS
    Adapters,    \* adapters of single calls
    Estimates,   \* estimated tokens of the prompts a cached answer serves
    Raises       \* the value of an expression that raises

ASSUME CallAssumption ==
    /\ Adapters \subseteq {"openai", "ollama", "anthropic", "gemini", "mock"}
    /\ Estimates \subseteq Nat
    /\ Raises \notin Nat /\ None # Raises /\ Null # Raises
    /\ None \notin {"null", "ttl"}

\* A usage as JSON has it, and the usage field of an answer.
JSONUsage == [prompt : Field, completion : Field]

ASSUME UsageAssumption ==
    /\ None \notin JSONUsage /\ Null \notin JSONUsage \cup Usage

\* The answer of a provider; text says whether it carries any.
Reply == [usage : JSONUsage \cup {None, Null}, text : BOOLEAN]

VARIABLES
    streams,   \* the client asks for streams, and not for single answers
    cached,    \* the answer in the caches, None if there is none
    outcome    \* what became of the last single call

callVars == <<streams, cached, outcome>>

(***************************************************************************)
(* The adapters.                                                           *)
(***************************************************************************)
\* d.get(name, default), int(x), and x or default.
Get(field, default) == IF field = None THEN default ELSE field
AsInt(x) == IF x \in Nat THEN x ELSE Raises
OrElse(x, default) == IF x \in {None, Null, 0} THEN default ELSE x

NoReport == [prompt |-> None, completion |-> None]

\* data.get("usage") or {}
UsageOf(reply) ==
    IF reply.usage \in {None, Null} THEN NoReport ELSE reply.usage

\* count_tokens of the answer: a text counts for one token.
EstText(reply) == IF reply.text THEN 1 ELSE 0

\* ProviderResult: the usage in the response, and the counts that are billed.
Result(usage, prompt, completion) ==
    [usage |-> usage, billed |-> [prompt |-> prompt, completion |-> completion]]

\* Seeded bug: a count that is null is taken for a zero.
ChatOpenAI_NullIsZero(reply) ==
    LET u == UsageOf(reply)
        Taken(x) == IF x = Null THEN 0 ELSE x
    IN  Result(reply.usage, Taken(Get(u.prompt, EstPrompt)),
               Taken(Get(u.completion, EstText(reply))))

\* The response is handed on as it came (ollama.py does the same).
ChatOpenAI(reply) ==
    LET u == UsageOf(reply)
    IN  Result(reply.usage, AsInt(Get(u.prompt, EstPrompt)),
               AsInt(Get(u.completion, EstText(reply))))

\* The estimate is called with a parameter it does not have, which raises.
ChatGemini(reply) ==
    LET u == UsageOf(reply)
    IN  Result(reply.usage, OrElse(u.prompt, Raises), OrElse(u.completion, Raises))

\* A response of its own is written, with a zero for what is missing.
FromAnthropic(reply) ==
    LET u == UsageOf(reply)
    IN  [prompt |-> AsInt(Get(u.prompt, 0)), completion |-> AsInt(Get(u.completion, 0))]

ChatAnthropic(reply) ==
    LET u == FromAnthropic(reply)
    IN  Result(u, OrElse(u.prompt, EstPrompt), OrElse(u.completion, EstText(reply)))

ChatMock(reply) ==
    LET u == [prompt |-> EstPrompt, completion |-> EstText(reply)]
    IN  Result(u, u.prompt, u.completion)

Chat(a, reply) ==
    CASE a \in {"openai", "ollama"} -> ChatOpenAI(reply)
      [] a = "gemini" -> ChatGemini(reply)
      [] a = "anthropic" -> ChatAnthropic(reply)
      [] OTHER -> ChatMock(reply)

(***************************************************************************)
(* Single calls.                                                           *)
(***************************************************************************)
\* The status, what is recorded in the key store (None if nothing is), what a
\* hit says it saved, and what is to blame if the client gets nothing for an
\* answer that is there: its usage is null, or the ttl_seconds of the request
\* is no number.
Outcome(hit, status, tokens, saved, blame) ==
    [hit |-> hit, status |-> status, billed |-> tokens, saved |-> saved,
     blame |-> blame]

Uncalled == Outcome(FALSE, 0, None, None, None)

\* What raises once the answer is billed, logged and in the L1 cache: the ttl
\* of its L2 entry, and later /v1/chat/completions, which copies the usage;
\* /api/chat/pipeline hands it on.
Blamed(null, keyEnabled, ttlOk, pipeline) ==
    IF keyEnabled /\ ~ttlOk THEN "ttl"
    ELSE IF null /\ ~pipeline THEN "null"
    ELSE None

\* A call the caches do not answer.  The pipeline endpoint takes a ttl_seconds
\* only if it is a number; reported is history.
Ask(a, reply, keyEnabled, ttlOk, pipeline) ==
    LET r == Chat(a, reply)
        blame == Blamed(r.usage = Null, keyEnabled, ttlOk, pipeline)
    IN  /\ keyEnabled => cached = None
        /\ pipeline => ttlOk
        /\ a = "mock" => reply.text
        /\ IF Raises \in {r.billed.prompt, r.billed.completion}
           THEN outcome' = Outcome(FALSE, 500, None, None, None) /\ UNCHANGED cached
           ELSE /\ outcome' = Outcome(FALSE, IF blame = None THEN 200 ELSE 500,
                                      r.billed, None, blame)
                /\ cached' = IF ~keyEnabled THEN cached
                             ELSE [usage |-> r.usage, billed |-> r.billed,
                                   reported |-> IF a = "mock" THEN r.usage
                                                ELSE UsageOf(reply)]
        /\ UNCHANGED streams

\* Seeded bug: the counts are looked up under names they do not have.
Hit_WrongNames(estimate) ==
    /\ cached # None
    /\ outcome' = IF cached.usage = Null
                  THEN Outcome(TRUE, 500, None, None, "null")
                  ELSE Outcome(TRUE, 200, NoTokens,
                               [prompt |-> estimate, completion |-> 50], None)
    /\ UNCHANGED <<streams, cached>>

\* What a hit reads of the response: the estimate of this prompt, and 50,
\* where a count is missing.
Reread(usage, estimate) ==
    LET u == Get(usage, NoReport)
    IN  [prompt |-> Get(u.prompt, estimate), completion |-> Get(u.completion, 50)]

\* Either cache answers.  A usage or a count that is null raises before
\* anything is recorded.
Hit(estimate) ==
    /\ cached # None
    /\ outcome' =
          IF cached.usage = Null THEN Outcome(TRUE, 500, None, None, "null")
          ELSE LET saved == Reread(cached.usage, estimate)
               IN  IF Null \in {saved.prompt, saved.completion}
                   THEN Outcome(TRUE, 500, None, None, None)
                   ELSE Outcome(TRUE, 200, NoTokens, saved, None)
    /\ UNCHANGED <<streams, cached>>

\* The entry expires, is evicted or cleared, or the process restarts.
Forget ==
    /\ cached # None
    /\ cached' = None
    /\ UNCHANGED <<streams, outcome>>

CallInit ==
    /\ Init
    /\ streams \in BOOLEAN /\ cached = None /\ outcome = Uncalled

\* chat_completions branches on body.stream; a stream never meets the caches.
CallNext ==
    \/ streams /\ Next /\ UNCHANGED callVars
    \/ /\ ~streams /\ UNCHANGED vars
       /\ \/ \E a \in Adapters, reply \in Reply,
                keyEnabled, ttlOk, pipeline \in BOOLEAN :
                Ask(a, reply, keyEnabled, ttlOk, pipeline)
          \/ \E estimate \in Estimates : Hit(estimate)
          \/ Forget

CallSpec == CallInit /\ [][CallNext]_<<vars, callVars>>

(***************************************************************************)
(* Properties.                                                             *)
(***************************************************************************)
\* What a hit says it saved is what its answer was billed, count by count,
\* although a hit reads the response, and not what was billed, and fills the
\* gaps with defaults of its own; only a count the provider left out or gave
\* as zero may differ (chat of the adapters, the cache branches of
\* chat_completion).
HitSavesWhatWasBilled ==
    outcome.hit /\ outcome.saved # None /\ cached # None =>
        \A count \in {"prompt", "completion"} :
            cached.reported[count] \notin {None, 0} =>
                outcome.saved[count] = cached.billed[count]

\* A call that is billed is answered, and a cached answer is served, unless
\* the provider sent the usage null or the client a ttl_seconds that is no
\* number: a count that is null fails its call before that is billed, and gets
\* into no cache; and what keeps an answer from the one who paid for it for
\* the sake of its ttl_seconds keeps it from no hit (chat of the adapters,
\* chat_completions, chat_completion).
PaidIsAnswered ==
    /\ outcome.status = 500 =>
            outcome.blame # None \/ (~outcome.hit /\ outcome.billed = None)
    /\ outcome.blame = "ttl" => ~outcome.hit /\ outcome.billed # None
    /\ cached # None /\ cached.usage \notin {None, Null} =>
            Null \notin {cached.usage.prompt, cached.usage.completion}
=============================================================================
