------------------------------- MODULE Streams -------------------------------
(***************************************************************************)
(* One streamed completion from the lines of the provider to the frames of *)
(* the client: the adapter that translates lines to chunks (openai.py,     *)
(* anthropic.py, gemini.py, mock.py), the recorder that bills them         *)
(* (Gateway.chat_completion_stream) and the framing that shows them        *)
(* (_sse_from_chunks).  Everything is pulled by the client's side: at most *)
(* one chunk is on its way.                                                *)
(***************************************************************************)
EXTENDS Integers, Sequences

CONSTANTS
    Kinds,       \* adapter types in use
    Counts,      \* token counts providers report
    EstPrompt,   \* estimated tokens of the prompt
    Statuses,    \* statuses above 399 a provider refuses with
    MaxLines,    \* bound on the lines of data a provider sends
    None,        \* absent
    Null         \* a JSON null

ASSUME StreamAssumption ==
    /\ Kinds \subseteq {"openai", "anthropic", "gemini", "mock"}
    /\ Counts \subseteq Nat /\ EstPrompt \in Nat /\ MaxLines \in Nat
    /\ Statuses \subseteq 400..599
    /\ Null \notin Nat /\ Null # None

Count == Counts \cup {None}
Field == Count \cup {Null}
Reason == {"stop", "length", None}
TokenCounts == {"prompt", "completion"}

\* The events of Anthropic that the adapter takes note of; the lines of the
\* others have no event.
Event == {"message_start", "content_block_delta", "message_delta", "other"}

\* A line of data; text says whether it carries any.
Line == [event : Event, text : BOOLEAN, prompt : Field, completion : Field,
         finish : Reason]

\* Texts are numbered as they come, 0 is the empty one.
MaybeNat == Nat \cup {None}
Chunk == [text : Nat, finish : Reason, prompt : MaybeNat, completion : MaybeNat]
Usage == [prompt : Nat, completion : Nat]

Frame == [finish : {"stop", "length"}, usage : Usage \cup {None}]

ASSUME NoneAssumption ==
    None \notin Nat \cup Chunk \cup Usage \cup Frame \cup {"stop", "length"}

VARIABLES
    kind,      \* the adapter of the call
    adapter,   \* what it remembers of the lines
    chunk,     \* the chunk on its way, None between chunks
    recorder,  \* token counts of chat_completion_stream
    framing,   \* finish_reason and usage of _sse_from_chunks
    phase,     \* progress of the call
    client,    \* what the client received
    billed,    \* the usage recorded for the call
    log,       \* statuses of its rows in request_log
    said       \* what the provider said, for the record

vars == <<kind, adapter, chunk, recorder, framing, phase, client, billed, log,
          said>>

Ends == {"done", "refused", "cut", "gone"}

Latest(old, new) == IF new = None THEN old ELSE new
Reported(old, new) == IF new \in {None, Null} THEN old ELSE new

(***************************************************************************)
(* The adapters.                                                           *)
(***************************************************************************)
\* Anthropic's texts and finish reasons come in events of their own; nothing
\* keeps its counts, nor those of the others, to any line.
Speaks(l) ==
    IF kind = "anthropic"
    THEN /\ l.text => l.event = "content_block_delta"
         /\ l.finish # None => l.event = "message_delta"
    ELSE /\ l.event = "other"
         /\ kind = "mock" => /\ l.text /\ l.finish = None
                             /\ l.prompt = None /\ l.completion = None

\* What a line has where the adapter looks for a count: Anthropic's looks for
\* each of them in one event.
Looked == [prompt |-> "message_start", completion |-> "message_delta"]

Read(l, count) ==
    IF kind = "anthropic" /\ l.event # Looked[count] THEN None ELSE l[count]

\* Seeded bug: a null leaves the count as it was.
Replaced_SkipsNull(old, field) == IF field \in {None, Null} THEN old ELSE field

\* A null replaces the count with None, except with Gemini.
Replaced(old, field) ==
    IF field = None THEN old
    ELSE IF field = Null THEN (IF kind = "gemini" THEN old ELSE None)
    ELSE field

Remembered(l) ==
    [prompt |-> Replaced(adapter.prompt, Read(l, "prompt")),
     completion |-> Replaced(adapter.completion, Read(l, "completion")),
     texts |-> adapter.texts + (IF l.text THEN 1 ELSE 0),
     finish |-> Latest(adapter.finish, l.finish),
     over |-> adapter.over]

\* Seeded bug: the usage of a payload instead of the usage so far.
Yielded_OwnUsage(l, a) ==
    LET text == IF l.text THEN a.texts ELSE 0
    IN  IF kind = "gemini"
        THEN [text |-> text, finish |-> l.finish,
              prompt |-> Reported(None, l.prompt),
              completion |-> Reported(None, l.completion)]
        ELSE IF ~l.text THEN None
        ELSE [text |-> text, finish |-> None, prompt |-> None,
              completion |-> None]

\* What a line makes the adapter yield, which then remembers a: Gemini's a
\* chunk for every payload with the usage so far, the others' one for a text.
Yielded(l, a) ==
    LET text == IF l.text THEN a.texts ELSE 0
    IN  IF kind = "gemini"
        THEN [text |-> text, finish |-> l.finish,
              prompt |-> a.prompt, completion |-> a.completion]
        ELSE IF ~l.text THEN None
        ELSE [text |-> text, finish |-> None, prompt |-> None,
              completion |-> None]

\* The last chunk carries the usage, estimated where none was reported: a
\* text counts for one token.  Gemini's adapter has none.
Terminal ==
    IF kind = "gemini" THEN None
    ELSE [text |-> 0, finish |-> Latest("stop", adapter.finish),
          prompt |-> Latest(EstPrompt, adapter.prompt),
          completion |-> Latest(adapter.texts, adapter.completion)]

(***************************************************************************)
(* Recorder and framing.                                                   *)
(***************************************************************************)
\* Seeded bug: counts that are None are taken too.
Noted_Blindly(c) == [prompt |-> c.prompt, completion |-> c.completion]

Noted(c) == [prompt |-> Latest(recorder.prompt, c.prompt),
             completion |-> Latest(recorder.completion, c.completion)]

\* _emit: a chunk with either count replaces the usage that will be shown.
Framed(c) ==
    [finish |-> Latest(framing.finish, c.finish),
     usage |-> IF c.prompt = None /\ c.completion = None THEN framing.usage
               ELSE [prompt |-> Latest(0, c.prompt),
                     completion |-> Latest(0, c.completion)]]

\* The adapter hands up c, or nothing.  The first chunk is awaited before the
\* response starts, and starts it with the role.
HandUp(c) ==
    /\ chunk' = c
    /\ recorder' = IF c = None THEN recorder ELSE Noted(c)
    /\ IF c # None /\ phase = "waiting"
       THEN phase' = "open" /\ client' = [client EXCEPT !.role = TRUE]
       ELSE UNCHANGED <<phase, client>>

Reading == phase \in {"waiting", "open"} /\ chunk = None /\ ~adapter.over

(***************************************************************************)
(* What the provider said, for the record: of each count the last one in   *)
(* the place the adapter reads, and the counts replaced by a null there    *)
(* since.                                                                  *)
(***************************************************************************)
SaidWith(l) ==
    [lines |-> said.lines + 1,
     texts |-> said.texts + (IF l.text THEN 1 ELSE 0),
     prompt |-> Reported(said.prompt, Read(l, "prompt")),
     completion |-> Reported(said.completion, Read(l, "completion")),
     finish |-> Latest(said.finish, l.finish),
     null |-> {c \in TokenCounts : \/ Read(l, c) = Null
                                   \/ Read(l, c) = None /\ c \in said.null}]

(***************************************************************************)
(* Actions.                                                                *)
(***************************************************************************)
\* A line of data.  Lines that are no data or no JSON, and Anthropic's error
\* events, are skipped without a trace.
ReadLine(l) ==
    LET a == Remembered(l)
    IN  /\ Reading /\ Speaks(l) /\ said.lines < MaxLines
        /\ adapter' = a
        /\ HandUp(Yielded(l, a))
        /\ said' = SaidWith(l)
        /\ UNCHANGED <<kind, framing, billed, log>>

\* [DONE] or the end of the body, whichever comes first.
EndOfBody ==
    /\ Reading
    /\ adapter' = [adapter EXCEPT !.over = TRUE]
    /\ HandUp(Terminal)
    /\ UNCHANGED <<kind, framing, billed, log, said>>

\* Seeded bug: the chunk that was awaited before the response is dropped.
SendText_SkipsFirst ==
    /\ phase = "open" /\ chunk # None /\ ~adapter.over
    /\ framing' = Framed(chunk)
    /\ client' = IF chunk.text = 0 \/ chunk.text = 1 THEN client
                 ELSE [client EXCEPT !.texts = Append(@, chunk.text)]
    /\ chunk' = None
    /\ UNCHANGED <<kind, adapter, recorder, phase, billed, log, said>>

\* A chunk is framed, and the client gets its text if there is any.
SendText ==
    /\ phase = "open" /\ chunk # None /\ ~adapter.over
    /\ framing' = Framed(chunk)
    /\ client' = IF chunk.text = 0 THEN client
                 ELSE [client EXCEPT !.texts = Append(@, chunk.text)]
    /\ chunk' = None
    /\ UNCHANGED <<kind, adapter, recorder, phase, billed, log, said>>

\* The adapter is exhausted: the last chunk is framed, which sends nothing,
\* the call is billed and logged, and only then are the last frames sent.
Record ==
    /\ phase \in {"waiting", "open"} /\ adapter.over
    /\ framing' = IF chunk = None THEN framing ELSE Framed(chunk)
    /\ chunk' = None
    /\ billed' = recorder /\ log' = Append(log, 200)
    /\ phase' = "closing"
    /\ client' = [client EXCEPT !.role = TRUE]
    /\ UNCHANGED <<kind, adapter, recorder, said>>

SendFinal ==
    /\ phase = "closing" /\ client.final = None
    /\ client' = [client EXCEPT
                     !.final = [finish |-> Latest("stop", framing.finish),
                                usage |-> framing.usage]]
    /\ UNCHANGED <<kind, adapter, chunk, recorder, framing, phase, billed, log,
                   said>>

SendDone ==
    /\ phase = "closing" /\ client.final # None
    /\ phase' = "done" /\ client' = [client EXCEPT !.done = TRUE]
    /\ UNCHANGED <<kind, adapter, chunk, recorder, framing, billed, log, said>>

\* The call fails: before the response has started with an error status, and
\* afterwards by cutting it.
Broken(status) ==
    /\ Reading /\ kind # "mock"
    /\ IF phase = "waiting"
       THEN phase' = "refused" /\ client' = [client EXCEPT !.status = status]
       ELSE phase' = "cut" /\ UNCHANGED client
    /\ UNCHANGED <<kind, adapter, chunk, recorder, framing, said>>

\* Seeded bug: a failed stream is billed for what came through.
Fail_Bills(status) ==
    /\ Broken(status)
    /\ log' = Append(log, status) /\ billed' = recorder

\* ProviderError: refused by status, without a key, or an httpx error.
Fail(status) ==
    /\ Broken(status)
    /\ status = 502 \/ said.lines = 0
    /\ log' = Append(log, status)
    /\ UNCHANGED billed

\* JSON that is no object: an exception nothing catches.
AdapterBreaks ==
    /\ Broken(500)
    /\ UNCHANGED <<billed, log>>

\* The client goes away while its response is sent.
Disconnect ==
    /\ phase \in {"open", "closing"}
    /\ phase' = "gone" /\ chunk' = None
    /\ UNCHANGED <<kind, adapter, recorder, framing, client, billed, log, said>>

Unread == [prompt |-> None, completion |-> None, texts |-> 0, finish |-> None,
           over |-> FALSE]
NoTokens == [prompt |-> 0, completion |-> 0]
Unframed == [finish |-> None, usage |-> None]
Unanswered == [role |-> FALSE, texts |-> << >>, final |-> None, done |-> FALSE,
               status |-> 0]
Unsaid == [lines |-> 0, texts |-> 0, prompt |-> None, completion |-> None,
           finish |-> None, null |-> {}]

Init ==
    /\ kind \in Kinds /\ phase = "waiting"
    /\ adapter = Unread /\ chunk = None /\ recorder = NoTokens
    /\ framing = Unframed /\ client = Unanswered /\ said = Unsaid
    /\ billed = None /\ log = << >>

\* The call is over; the next one starts from nothing.
NextCall ==
    /\ phase \in Ends
    /\ kind' \in Kinds /\ phase' = "waiting"
    /\ adapter' = Unread /\ chunk' = None /\ recorder' = NoTokens
    /\ framing' = Unframed /\ client' = Unanswered /\ said' = Unsaid
    /\ billed' = None /\ log' = << >>

Next ==
    \/ \E l \in Line : ReadLine(l)
    \/ EndOfBody \/ SendText \/ Record \/ SendFinal \/ SendDone
    \/ \E status \in Statuses \cup {500, 502} : Fail(status)
    \/ AdapterBreaks \/ Disconnect \/ NextCall

Spec == Init /\ [][Next]_vars

(***************************************************************************)
(* Properties.                                                             *)
(***************************************************************************)
\* The values of the variables; what is billed are numbers, though most
\* chunks carry none (chat_completion_stream).
TypeOK ==
    /\ kind \in Kinds
    /\ adapter \in [prompt : Count, completion : Count, texts : Nat,
                    finish : Reason, over : BOOLEAN]
    /\ chunk \in Chunk \cup {None}
    /\ recorder \in Usage /\ billed \in Usage \cup {None}
    /\ framing \in [finish : Reason, usage : Usage \cup {None}]
    /\ phase \in {"waiting", "open", "closing"} \cup Ends
    /\ client \in [role : BOOLEAN, texts : Seq(Nat), final : Frame \cup {None},
                   done : BOOLEAN, status : Nat]
    /\ log \in Seq(200..599)
    /\ said \in [lines : Nat, texts : Nat, prompt : Count, completion : Count,
                 finish : Reason, null : SUBSET TokenCounts]

\* The client gets the texts of the provider in order, without a gap and none
\* twice, though the first is fetched before the response starts, and all of
\* them with the provider's finish reason if the stream ends with [DONE]
\* (stream_chat, _sse_from_chunks).
ClientGetsWhatWasSaid ==
    /\ \A i \in DOMAIN client.texts : client.texts[i] = i
    /\ Len(client.texts) \leq said.texts
    /\ client.texts # << >> => client.role
    /\ client.done => /\ Len(client.texts) = said.texts
                      /\ client.final.finish = Latest("stop", said.finish)

\* The usage the client is shown is the usage it is billed for, although
\* recorder and framing combine the counts of the chunks in different ways:
\* none shown is none billed (chat_completion_stream, _emit).
ShownUsageIsBilled ==
    client.final # None =>
        billed = IF client.final.usage = None THEN NoTokens
                 ELSE client.final.usage

\* What is billed of each count is what the provider reported last in the
\* place the adapter reads it from, whatever it reported before or elsewhere;
\* a count never reported there, or replaced there by a null, is estimated,
\* except that Gemini's adapter passes over nulls and bills nothing without a
\* report (stream_chat).
BillFollowsReport ==
    billed # None =>
        LET estimates == IF kind = "gemini" THEN NoTokens
                         ELSE [prompt |-> EstPrompt, completion |-> said.texts]
        IN  \A c \in TokenCounts :
                billed[c] = IF \/ said[c] = None
                               \/ c \in said.null /\ kind # "gemini"
                            THEN estimates[c] ELSE said[c]

\* A call has one outcome: billed and logged as a success, and then the body
\* had been read to its end; or failed, with at most one row, the status the
\* client was answered with or an upstream error after that; or given up by
\* the client without a trace (chat_completion_stream).
OneOutcome ==
    /\ Len(log) \leq 1
    /\ log = <<200>> <=> billed # None
    /\ billed # None => adapter.over
    /\ client.final # None => billed # None
    /\ phase = "refused" => /\ log \in {<< >>, <<client.status>>}
                            /\ log = << >> => client.status = 500
    /\ phase = "cut" => log \in {<< >>, <<502>>}
=============================================================================
