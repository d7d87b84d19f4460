--------------------------- MODULE Streams_proofs ---------------------------
(***************************************************************************)
(* Proofs about streams: what the three parts that count tokens agree on   *)
(* at every point of a stream, and so what a client is shown and billed;   *)
(* and about single answers: how far what a hit reads is what was billed.  *)
(***************************************************************************)
EXTENDS Calls, SequenceTheorems, TLAPS

Streaming == phase \in {"waiting", "open"}

Resolved(usage) == IF usage = None THEN NoTokens ELSE usage

\* The adapter remembers of a count what the provider said last, and forgets
\* it for a null.
Held(c) == IF c \in said.null /\ kind # "gemini" THEN None ELSE said[c]

Remembers ==
    /\ adapter.prompt = Held("prompt") /\ adapter.completion = Held("completion")
    /\ adapter.texts = said.texts

\* The recorder is ahead of the client by the chunk on its way only: Gemini's
\* adapter tells the counts so far with every chunk, the others at the end.
Tallied ==
    recorder = IF kind = "gemini"
               THEN [prompt |-> Latest(0, adapter.prompt),
                     completion |-> Latest(0, adapter.completion)]
               ELSE IF adapter.over
               THEN [prompt |-> Latest(EstPrompt, adapter.prompt),
                     completion |-> Latest(adapter.texts, adapter.completion)]
               ELSE NoTokens

\* Once the chunk on its way is framed, the framing shows what is recorded.
InStep ==
    Streaming => recorder = Resolved(IF chunk = None THEN framing.usage
                                     ELSE Framed(chunk).usage)

\* Nothing is billed or logged while the stream runs; once billed, recorder
\* and framing rest.
Settled ==
    /\ Streaming => billed = None /\ client.final = None /\ log = << >>
    /\ billed # None => billed = recorder /\ Resolved(framing.usage) = recorder
    /\ client.final # None => /\ billed # None
                              /\ client.final.usage = framing.usage
    /\ phase = "closing" => billed # None

\* The response has started because of a line, or of the end of all lines.
Begun == phase = "open" /\ ~adapter.over => said.lines > 0

\* Of the texts the client lacks only the one on its way, and of the finish
\* reason what the chunk on its way or the last chunk will tell.
InHand == chunk # None /\ chunk.text # 0

Told == Latest(framing.finish, IF chunk = None THEN None ELSE chunk.finish)

Delivered ==
    /\ \A i \in DOMAIN client.texts : client.texts[i] = i
    /\ Len(client.texts) <= said.texts
    /\ Streaming => /\ said.texts = Len(client.texts) + (IF InHand THEN 1 ELSE 0)
                    /\ InHand => chunk.text = said.texts /\ ~adapter.over
    /\ phase \in {"closing", "done"} => Len(client.texts) = said.texts
    /\ client.texts # << >> => client.role
    /\ phase = "open" => client.role

FinishTold ==
    /\ adapter.finish = said.finish
    /\ Streaming => IF kind = "gemini" THEN Told = said.finish
                    ELSE IF adapter.over
                    THEN chunk # None /\ chunk.finish = Latest("stop", said.finish)
                    ELSE Told = None
    /\ phase = "closing" =>
          Latest("stop", framing.finish) = Latest("stop", said.finish)
    /\ client.final # None =>
          client.final.finish = Latest("stop", said.finish)
    /\ client.done => client.final # None /\ phase = "done"
    /\ Streaming => client.final = None

IInv ==
    /\ TypeOK /\ Remembers /\ Tallied /\ InStep /\ Settled /\ OneOutcome
    /\ Begun /\ Delivered /\ FinishTold

(***************************************************************************)
(* Types.                                                                  *)
(***************************************************************************)
LEMMA NoneIsNoValue ==
    /\ None \notin Nat /\ None \notin Counts /\ None \notin Chunk
    /\ None \notin Usage /\ None \notin Frame
    /\ None # "stop" /\ None # "length"
    /\ Counts \subseteq Nat /\ EstPrompt \in Nat
    /\ Null \notin Nat /\ Null # None
BY NoneAssumption, StreamAssumption

LEMMA LineType ==
    ASSUME NEW l \in Line
    PROVE  /\ l.text \in BOOLEAN /\ l.prompt \in Field
           /\ l.completion \in Field /\ l.finish \in Reason
BY DEF Line

\* What becomes of a count in the adapter, and in the record of what was said.
LEMMA ReadType ==
    ASSUME NEW l \in Line, NEW c \in TokenCounts
    PROVE  Read(l, c) \in Field
BY LineType DEF Read, TokenCounts, Field, Count

LEMMA CountTaken ==
    ASSUME NEW old \in Count, NEW field \in Field
    PROVE  Replaced(old, field) \in Count /\ Reported(old, field) \in Count
BY DEF Replaced, Reported, Field, Count

LEMMA RememberedType ==
    ASSUME TypeOK, NEW l \in Line
    PROVE  Remembered(l) \in [prompt : Count, completion : Count, texts : Nat,
                              finish : Reason, over : BOOLEAN]
<1>1. /\ adapter.prompt \in Count /\ adapter.completion \in Count
      /\ adapter.texts \in Nat /\ adapter.finish \in Reason
      /\ adapter.over \in BOOLEAN
    BY DEF TypeOK
<1>2. adapter.texts + (IF l.text THEN 1 ELSE 0) \in Nat
    BY <1>1
<1>3. /\ Replaced(adapter.prompt, Read(l, "prompt")) \in Count
      /\ Replaced(adapter.completion, Read(l, "completion")) \in Count
    BY <1>1, ReadType, CountTaken DEF TokenCounts
<1>4. Latest(adapter.finish, l.finish) \in Reason
    BY <1>1, LineType DEF Latest
<1> QED BY <1>1, <1>2, <1>3, <1>4 DEF Remembered

LEMMA YieldedType ==
    ASSUME TypeOK, NEW l \in Line
    PROVE  Yielded(l, Remembered(l)) \in Chunk \cup {None}
<1> DEFINE a == Remembered(l)
<1>1. a.prompt \in MaybeNat /\ a.completion \in MaybeNat /\ a.texts \in Nat
    BY RememberedType, NoneIsNoValue DEF Count, MaybeNat
<1>2. (IF l.text THEN a.texts ELSE 0) \in Nat /\ None \in MaybeNat
          /\ None \in Reason /\ l.finish \in Reason
    BY <1>1, LineType DEF MaybeNat, Reason
<1> HIDE DEF a
<1>3. Yielded(l, a) \in Chunk \cup {None}
    BY <1>1, <1>2 DEF Yielded, Chunk
<1> QED BY <1>3 DEF a

LEMMA TerminalType ==
    ASSUME TypeOK
    PROVE  Terminal \in Chunk \cup {None}
<1>1. /\ adapter.prompt \in Count /\ adapter.completion \in Count
      /\ adapter.texts \in Nat /\ adapter.finish \in Reason
    BY DEF TypeOK
<1>2. /\ Latest(EstPrompt, adapter.prompt) \in MaybeNat
      /\ Latest(adapter.texts, adapter.completion) \in MaybeNat
      /\ Latest("stop", adapter.finish) \in Reason
    BY <1>1, NoneIsNoValue DEF Latest, Count, MaybeNat, Reason
<1> QED BY <1>2 DEF Terminal, Chunk

LEMMA ChunkFields ==
    ASSUME NEW c \in Chunk
    PROVE  /\ c.text \in Nat /\ c.finish \in Reason
           /\ c.prompt \in MaybeNat /\ c.completion \in MaybeNat
BY DEF Chunk

LEMMA NotedType ==
    ASSUME TypeOK, NEW c \in Chunk
    PROVE  Noted(c) \in Usage
<1>1. recorder.prompt \in Nat /\ recorder.completion \in Nat
    BY DEF TypeOK, Usage
<1> QED BY <1>1, ChunkFields DEF Noted, Latest, Usage, MaybeNat

LEMMA FramedType ==
    ASSUME TypeOK, NEW c \in Chunk
    PROVE  Framed(c) \in [finish : Reason, usage : Usage \cup {None}]
<1>1. framing.finish \in Reason /\ framing.usage \in Usage \cup {None}
    BY DEF TypeOK
<1>2. [prompt |-> Latest(0, c.prompt), completion |-> Latest(0, c.completion)]
          \in Usage
    BY ChunkFields DEF Latest, Usage, MaybeNat
<1> QED BY <1>1, <1>2, ChunkFields DEF Framed, Latest

\* What handing up a chunk does to the client: at most the role.
LEMMA HandUpType ==
    ASSUME TypeOK, NEW c \in Chunk \cup {None}, HandUp(c)
    PROVE  /\ chunk' \in Chunk \cup {None} /\ recorder' \in Usage
           /\ phase' \in {"waiting", "open", "closing"} \cup Ends
           /\ client' \in [role : BOOLEAN, texts : Seq(Nat),
                           final : Frame \cup {None}, done : BOOLEAN,
                           status : Nat]
<1>1. recorder' \in Usage
    BY NotedType DEF HandUp, TypeOK
<1>2. [client EXCEPT !.role = TRUE]
          \in [role : BOOLEAN, texts : Seq(Nat), final : Frame \cup {None},
               done : BOOLEAN, status : Nat]
    BY DEF TypeOK
<1> QED BY <1>1, <1>2 DEF HandUp, TypeOK

LEMMA InitTypes == Init => TypeOK
BY NoneIsNoValue DEF Init, TypeOK, Unread, NoTokens, Unframed, Unanswered, Unsaid,
   Usage, Reason, Count, MaybeNat

LEMMA StepTypes == TypeOK /\ [Next]_vars => TypeOK'
<1> SUFFICES ASSUME TypeOK, [Next]_vars PROVE TypeOK'
    OBVIOUS
<1>1. ASSUME NEW l \in Line, ReadLine(l) PROVE TypeOK'
    <2>1. HandUp(Yielded(l, Remembered(l))) BY <1>1 DEF ReadLine
    <2>2. Yielded(l, Remembered(l)) \in Chunk \cup {None} BY YieldedType
    <2>3. adapter' \in [prompt : Count, completion : Count, texts : Nat,
                        finish : Reason, over : BOOLEAN]
        BY <1>1, RememberedType DEF ReadLine
    <2>4. /\ chunk' \in Chunk \cup {None} /\ recorder' \in Usage
          /\ phase' \in {"waiting", "open", "closing"} \cup Ends
          /\ client' \in [role : BOOLEAN, texts : Seq(Nat),
                          final : Frame \cup {None}, done : BOOLEAN,
                          status : Nat]
        BY <2>1, <2>2, HandUpType
    <2>5. said' \in [lines : Nat, texts : Nat, prompt : Count,
                     completion : Count, finish : Reason,
                     null : SUBSET TokenCounts]
        <3>1. /\ said.lines \in Nat /\ said.texts \in Nat
              /\ said.prompt \in Count /\ said.completion \in Count
              /\ said.finish \in Reason
            BY DEF TypeOK
        <3>2. said.texts + (IF l.text THEN 1 ELSE 0) \in Nat
                  /\ said.lines + 1 \in Nat
            BY <3>1
        <3>3. /\ Reported(said.prompt, Read(l, "prompt")) \in Count
              /\ Reported(said.completion, Read(l, "completion")) \in Count
            BY <3>1, ReadType, CountTaken DEF TokenCounts
        <3>4. Latest(said.finish, l.finish) \in Reason
            BY <3>1, LineType DEF Latest
        <3>5. said' = SaidWith(l) BY <1>1 DEF ReadLine
        <3> QED BY <3>1, <3>2, <3>3, <3>4, <3>5 DEF SaidWith
    <2>6. UNCHANGED <<kind, framing, billed, log>> BY <1>1 DEF ReadLine
    <2> QED BY <2>3, <2>4, <2>5, <2>6 DEF TypeOK
<1>2. CASE EndOfBody
    <2>1. /\ chunk' \in Chunk \cup {None} /\ recorder' \in Usage
          /\ phase' \in {"waiting", "open", "closing"} \cup Ends
          /\ client' \in [role : BOOLEAN, texts : Seq(Nat),
                          final : Frame \cup {None}, done : BOOLEAN,
                          status : Nat]
        BY <1>2, TerminalType, HandUpType DEF EndOfBody
    <2>2. adapter' \in [prompt : Count, completion : Count, texts : Nat,
                        finish : Reason, over : BOOLEAN]
        BY <1>2 DEF EndOfBody, TypeOK
    <2> QED BY <1>2, <2>1, <2>2 DEF EndOfBody, TypeOK
<1>3. CASE SendText
    <2>1. chunk \in Chunk BY <1>3 DEF SendText, TypeOK
    <2>2. framing' \in [finish : Reason, usage : Usage \cup {None}]
        BY <1>3, <2>1, FramedType DEF SendText
    <2>3. client' \in [role : BOOLEAN, texts : Seq(Nat),
                       final : Frame \cup {None}, done : BOOLEAN, status : Nat]
        <3>1. client.texts \in Seq(Nat) /\ chunk.text \in Nat
            BY <2>1, ChunkFields DEF TypeOK
        <3>2. Append(client.texts, chunk.text) \in Seq(Nat) BY <3>1
        <3> QED BY <1>3, <3>2 DEF SendText, TypeOK
    <2> QED BY <1>3, <2>2, <2>3 DEF SendText, TypeOK
<1>4. CASE Record
    <2>1. framing' \in [finish : Reason, usage : Usage \cup {None}]
        BY <1>4, FramedType DEF Record, TypeOK
    <2>2. client' \in [role : BOOLEAN, texts : Seq(Nat),
                       final : Frame \cup {None}, done : BOOLEAN, status : Nat]
        BY <1>4 DEF Record, TypeOK
    <2>3. log' \in Seq(200..599)
        <3>1. log \in Seq(200..599) /\ 200 \in 200..599 BY DEF TypeOK
        <3> QED BY <1>4, <3>1 DEF Record
    <2> QED BY <1>4, <2>1, <2>2, <2>3 DEF Record, TypeOK
<1>5. CASE SendFinal
    <2>1. framing.finish \in Reason /\ framing.usage \in Usage \cup {None}
        BY DEF TypeOK
    <2>2. [finish |-> Latest("stop", framing.finish), usage |-> framing.usage]
              \in Frame
        BY <2>1, NoneIsNoValue DEF Latest, Reason, Frame
    <2>3. client' \in [role : BOOLEAN, texts : Seq(Nat),
                       final : Frame \cup {None}, done : BOOLEAN, status : Nat]
        BY <1>5, <2>2 DEF SendFinal, TypeOK
    <2> QED BY <1>5, <2>3 DEF SendFinal, TypeOK
<1>6. CASE SendDone
    <2>1. client' \in [role : BOOLEAN, texts : Seq(Nat),
                       final : Frame \cup {None}, done : BOOLEAN, status : Nat]
        BY <1>6 DEF SendDone, TypeOK
    <2> QED BY <1>6, <2>1 DEF SendDone, TypeOK, Ends
<1>7. ASSUME NEW status \in Statuses \cup {500, 502}, Broken(status),
             UNCHANGED billed, log' = log \/ log' = Append(log, status)
      PROVE  TypeOK'
    <2>1. status \in 200..599 /\ status \in Nat BY StreamAssumption
    <2>2. client' \in [role : BOOLEAN, texts : Seq(Nat),
                       final : Frame \cup {None}, done : BOOLEAN, status : Nat]
        <3>1. client \in [role : BOOLEAN, texts : Seq(Nat),
                          final : Frame \cup {None}, done : BOOLEAN,
                          status : Nat]
            BY DEF TypeOK
        <3>2. client' = client \/ client' = [client EXCEPT !.status = status]
            BY <1>7 DEF Broken
        <3> QED BY <2>1, <3>1, <3>2
    <2>3. log' \in Seq(200..599)
        <3>1. log \in Seq(200..599) BY DEF TypeOK
        <3> DEFINE T == 200..599
        <3>2. log \in Seq(T) /\ status \in T BY <2>1, <3>1
        <3> HIDE DEF T
        <3>3. Append(log, status) \in Seq(T) BY <3>2, AppendProperties
        <3> QED BY <1>7, <3>2, <3>3 DEF T
    <2>4. phase' \in Ends BY <1>7 DEF Broken, Ends
    <2> QED BY <1>7, <2>2, <2>3, <2>4 DEF Broken, TypeOK
<1>8. CASE Disconnect
    BY <1>8 DEF Disconnect, TypeOK, Ends
<1>9. CASE NextCall
    <2>1. (Init)' BY <1>9 DEF NextCall, Init
    <2> QED BY <2>1, InitTypes, PTL
<1>10. CASE UNCHANGED vars
    BY <1>10 DEF vars, TypeOK
<1> QED
    BY <1>1, <1>2, <1>3, <1>4, <1>5, <1>6, <1>7, <1>8, <1>9, <1>10
    DEF Next, Fail, AdapterBreaks

\* For every set of adapters, counts and statuses the parts of a stream keep
\* their types; above all, the recorder holds numbers though most chunks
\* carry none (chat_completion_stream).
THEOREM StreamTyped == Spec => []TypeOK
<1>1. Init => TypeOK BY InitTypes
<1>2. TypeOK /\ [Next]_vars => TypeOK' BY StepTypes
<1> QED BY <1>1, <1>2, PTL DEF Spec

(***************************************************************************)
(* The counts of adapter, recorder and framing.                            *)
(***************************************************************************)
LEMMA StepRemembers ==
    ASSUME TypeOK, Remembers, [Next]_vars
    PROVE  Remembers'
<1>1. ASSUME NEW l \in Line, ReadLine(l) PROVE Remembers'
    <2>1. /\ kind' = kind /\ said' = SaidWith(l) /\ adapter' = Remembered(l)
        BY <1>1 DEF ReadLine
    <2>2. ASSUME NEW c \in TokenCounts, NEW old, old = Held(c),
                 said'[c] = Reported(said[c], Read(l, c))
          PROVE  Replaced(old, Read(l, c)) = Held(c)'
        <3>1. c \in said'.null <=>
                 Read(l, c) = Null \/ (Read(l, c) = None /\ c \in said.null)
            BY <2>1 DEF SaidWith
        <3> QED BY <2>1, <2>2, <3>1, NoneIsNoValue DEF Held, Replaced, Reported
    <2>3. /\ said'.prompt = Reported(said.prompt, Read(l, "prompt"))
          /\ said'.completion = Reported(said.completion, Read(l, "completion"))
          /\ said'.texts = said.texts + (IF l.text THEN 1 ELSE 0)
        BY <2>1 DEF SaidWith
    <2>4. /\ adapter'.prompt = Replaced(adapter.prompt, Read(l, "prompt"))
          /\ adapter'.completion = Replaced(adapter.completion, Read(l, "completion"))
          /\ adapter'.texts = adapter.texts + (IF l.text THEN 1 ELSE 0)
        BY <2>1 DEF Remembered
    <2>5. Held("prompt")' = adapter'.prompt
        BY <2>2, <2>3, <2>4 DEF Remembers, TokenCounts
    <2>6. Held("completion")' = adapter'.completion
        BY <2>2, <2>3, <2>4 DEF Remembers, TokenCounts
    <2> QED BY <2>3, <2>4, <2>5, <2>6 DEF Remembers
<1>2. CASE EndOfBody
    BY <1>2 DEF EndOfBody, Remembers, Held, TypeOK
<1>3. CASE UNCHANGED <<kind, adapter, said>>
    BY <1>3 DEF Remembers, Held
<1>4. CASE NextCall
    BY <1>4 DEF NextCall, Remembers, Held, Unread, Unsaid
<1> QED BY <1>1, <1>2, <1>3, <1>4
        DEF Next, SendText, Record, SendFinal, SendDone, Fail, AdapterBreaks,
            Broken, Disconnect, vars

\* Gemini's adapter never forgets a count.
LEMMA GeminiKeeps ==
    ASSUME NEW l \in Line, kind = "gemini"
    PROVE  /\ Remembered(l).prompt = Latest(adapter.prompt, Remembered(l).prompt)
           /\ Remembered(l).completion =
                    Latest(adapter.completion, Remembered(l).completion)
<1>1. ASSUME NEW old, NEW field
      PROVE  Replaced(old, field) = Latest(old, Replaced(old, field))
    BY DEF Replaced, Latest
<1>2. /\ Remembered(l).prompt = Replaced(adapter.prompt, Read(l, "prompt"))
      /\ Remembered(l).completion =
            Replaced(adapter.completion, Read(l, "completion"))
    BY DEF Remembered
<1> QED BY <1>1, <1>2

\* What a chunk on its way adds to the recorder.
LEMMA TalliedAfterLine ==
    ASSUME TypeOK, Tallied, NEW l \in Line, ReadLine(l)
    PROVE  Tallied'
<1> DEFINE a == Remembered(l)
           c == Yielded(l, a)
<1>1. HandUp(c) /\ adapter' = a /\ kind' = kind /\ ~adapter.over
    BY DEF ReadLine, Reading
<1>2. /\ ~a.over
      /\ kind = "gemini" =>
            /\ a.prompt = Latest(adapter.prompt, a.prompt)
            /\ a.completion = Latest(adapter.completion, a.completion)
    BY <1>1, GeminiKeeps DEF Remembered
<1>3. CASE kind = "gemini"
    <2>1. c # None /\ c.prompt = a.prompt /\ c.completion = a.completion
        <3>1. c = [text |-> IF l.text THEN a.texts ELSE 0, finish |-> l.finish,
                   prompt |-> a.prompt, completion |-> a.completion]
            BY <1>3 DEF Yielded
        <3>2. a.prompt \in MaybeNat /\ a.completion \in MaybeNat /\ a.texts \in Nat
            BY RememberedType, NoneIsNoValue DEF Count, MaybeNat
        <3> HIDE DEF a
        <3>3. c \in Chunk BY <3>1, <3>2, LineType DEF Chunk
        <3> QED BY <3>1, <3>3, NoneIsNoValue
    <2>2. recorder' = [prompt |-> Latest(Latest(0, adapter.prompt), a.prompt),
                       completion |-> Latest(Latest(0, adapter.completion),
                                             a.completion)]
        BY <1>1, <1>3, <2>1 DEF HandUp, Noted, Tallied
    <2>3. /\ Latest(Latest(0, adapter.prompt), a.prompt) = Latest(0, a.prompt)
          /\ Latest(Latest(0, adapter.completion), a.completion)
                = Latest(0, a.completion)
        <3> HIDE DEF a
        <3> QED BY <1>2, <1>3 DEF Latest
    <2> QED BY <1>1, <1>3, <2>2, <2>3 DEF Tallied
<1>4. CASE kind # "gemini"
    <2>1. recorder = NoTokens BY <1>1, <1>4 DEF Tallied
    <2>2. c = None \/ (c.prompt = None /\ c.completion = None)
        BY <1>4 DEF Yielded
    <2>3. recorder' = NoTokens
        BY <1>1, <2>1, <2>2 DEF HandUp, Noted, Latest, NoTokens
    <2> QED BY <1>1, <1>2, <1>4, <2>3 DEF Tallied
<1> QED BY <1>3, <1>4

LEMMA TerminalCounts ==
    ASSUME TypeOK, kind # "gemini"
    PROVE  /\ Terminal # None /\ Terminal.text = 0
           /\ Terminal.finish = Latest("stop", adapter.finish)
           /\ Terminal.prompt = Latest(EstPrompt, adapter.prompt)
           /\ Terminal.completion = Latest(adapter.texts, adapter.completion)
           /\ Terminal.prompt \in Nat /\ Terminal.completion \in Nat
<1>1. Terminal = [text |-> 0, finish |-> Latest("stop", adapter.finish),
                  prompt |-> Latest(EstPrompt, adapter.prompt),
                  completion |-> Latest(adapter.texts, adapter.completion)]
    BY DEF Terminal
<1>2. /\ adapter.prompt \in Count /\ adapter.completion \in Count
      /\ adapter.texts \in Nat /\ adapter.finish \in Reason
    BY DEF TypeOK
<1>3. /\ Latest(EstPrompt, adapter.prompt) \in Nat
      /\ Latest(adapter.texts, adapter.completion) \in Nat
      /\ Latest("stop", adapter.finish) \in Reason
    BY <1>2, NoneIsNoValue DEF Latest, Count, Reason
<1>4. Terminal \in Chunk BY <1>1, <1>3 DEF Chunk, MaybeNat
<1> QED BY <1>1, <1>3, <1>4, NoneIsNoValue

LEMMA StepTallied ==
    ASSUME TypeOK, Tallied, [Next]_vars
    PROVE  Tallied'
<1>1. ASSUME NEW l \in Line, ReadLine(l) PROVE Tallied'
    BY <1>1, TalliedAfterLine
<1>2. CASE EndOfBody
    <2>1. /\ HandUp(Terminal) /\ kind' = kind /\ ~adapter.over /\ adapter'.over
          /\ adapter'.prompt = adapter.prompt /\ adapter'.texts = adapter.texts
          /\ adapter'.completion = adapter.completion
        BY <1>2 DEF EndOfBody, Reading, TypeOK
    <2>2. CASE kind = "gemini"
        BY <2>1, <2>2 DEF HandUp, Terminal, Tallied
    <2>3. CASE kind # "gemini"
        <3>1. recorder' = [prompt |-> Terminal.prompt,
                           completion |-> Terminal.completion]
            BY <2>1, <2>3, TerminalCounts, NoneIsNoValue
            DEF HandUp, Noted, Latest
        <3> QED BY <2>1, <2>3, <3>1, TerminalCounts DEF Tallied
    <2> QED BY <2>2, <2>3
<1>3. CASE UNCHANGED <<kind, adapter, recorder>>
    BY <1>3 DEF Tallied
<1>4. CASE NextCall
    BY <1>4 DEF NextCall, Tallied, Unread, NoTokens, Latest
<1> QED BY <1>1, <1>2, <1>3, <1>4
        DEF Next, SendText, Record, SendFinal, SendDone, Fail, AdapterBreaks,
            Broken, Disconnect, vars

\* A chunk with a count shows numbers, one without leaves the usage alone.
LEMMA FramedUsage ==
    ASSUME NEW c \in Chunk
    PROVE  IF c.prompt = None /\ c.completion = None
           THEN Framed(c).usage = framing.usage
           ELSE /\ Resolved(Framed(c).usage)
                      = [prompt |-> Latest(0, c.prompt),
                         completion |-> Latest(0, c.completion)]
<1>1. [prompt |-> Latest(0, c.prompt), completion |-> Latest(0, c.completion)]
          \in Usage
    BY ChunkFields DEF Latest, Usage, MaybeNat
<1> QED BY <1>1, NoneIsNoValue DEF Framed, Resolved

LEMMA StepInStep ==
    ASSUME TypeOK, Tallied, InStep, [Next]_vars
    PROVE  InStep'
<1>1. ASSUME NEW c \in Chunk \cup {None}, HandUp(c), chunk = None, Streaming,
             framing' = framing,
             c # None => IF c.prompt = None /\ c.completion = None
                         THEN recorder' = recorder
                         ELSE recorder' = [prompt |-> Latest(0, c.prompt),
                                           completion |-> Latest(0, c.completion)]
      PROVE  InStep'
    <2>1. recorder = Resolved(framing.usage) BY <1>1 DEF InStep
    <2>2. CASE c = None
        BY <1>1, <2>1, <2>2 DEF HandUp, InStep, Resolved
    <2>3. CASE c # None
        <3>1. recorder' = Resolved(Framed(c).usage)
            BY <1>1, <2>1, <2>3, FramedUsage
        <3>2. chunk' = c /\ Framed(c)' = Framed(c)
            BY <1>1 DEF HandUp, Framed
        <3> QED BY <2>3, <3>1, <3>2 DEF InStep, Resolved
    <2> QED BY <2>2, <2>3
<1>2. ASSUME NEW l \in Line, ReadLine(l) PROVE InStep'
    <2> DEFINE a == Remembered(l)
               c == Yielded(l, a)
    <2>1. HandUp(c) /\ chunk = None /\ Streaming /\ framing' = framing
             /\ adapter' = a /\ kind' = kind /\ ~adapter.over
        BY <1>2 DEF ReadLine, Reading, Streaming
    <2>2. c \in Chunk \cup {None} BY YieldedType
    <2>3. ASSUME c # None
          PROVE  IF c.prompt = None /\ c.completion = None
                 THEN recorder' = recorder
                 ELSE recorder' = [prompt |-> Latest(0, c.prompt),
                                   completion |-> Latest(0, c.completion)]
        <3>1. CASE kind = "gemini"
            <4>1. c.prompt = a.prompt /\ c.completion = a.completion
                BY <3>1 DEF Yielded
            <4>2. recorder' = [prompt |-> Latest(0, a.prompt),
                               completion |-> Latest(0, a.completion)]
                BY <1>2, <2>1, <3>1, TalliedAfterLine DEF Tallied
            <4>3. ASSUME a.prompt = None, a.completion = None
                  PROVE  recorder' = recorder
                <5>1. adapter.prompt = None /\ adapter.completion = None
                    BY <3>1, <4>3, GeminiKeeps DEF Latest
                <5> QED BY <3>1, <4>2, <4>3, <5>1 DEF Tallied
            <4> QED BY <4>1, <4>2, <4>3
        <3>2. CASE kind # "gemini"
            <4>1. c.prompt = None /\ c.completion = None
                BY <2>3, <3>2 DEF Yielded
            <4>2. recorder = NoTokens BY <2>1, <3>2 DEF Tallied
            <4>3. recorder' = recorder
                BY <2>1, <2>3, <4>1, <4>2 DEF HandUp, Noted, Latest, NoTokens
            <4> QED BY <4>1, <4>3
        <3> QED BY <3>1, <3>2
    <2> HIDE DEF c
    <2> QED BY <1>1, <2>1, <2>2, <2>3
<1>3. CASE EndOfBody
    <2>1. HandUp(Terminal) /\ chunk = None /\ Streaming /\ framing' = framing
        BY <1>3 DEF EndOfBody, Reading, Streaming
    <2>2. Terminal \in Chunk \cup {None} BY TerminalType
    <2>3. ASSUME Terminal # None
          PROVE  /\ ~(Terminal.prompt = None /\ Terminal.completion = None)
                 /\ recorder' = [prompt |-> Latest(0, Terminal.prompt),
                                 completion |-> Latest(0, Terminal.completion)]
        <3>1. kind # "gemini" BY <2>3 DEF Terminal
        <3>2. Terminal.prompt \in Nat /\ Terminal.completion \in Nat
            BY <3>1, TerminalCounts
        <3> QED BY <2>1, <2>3, <3>2, NoneIsNoValue DEF HandUp, Noted, Latest
    <2> QED BY <1>1, <2>1, <2>2, <2>3
<1>4. CASE SendText
    <2>1. /\ Streaming /\ chunk # None /\ chunk' = None
          /\ framing' = Framed(chunk) /\ recorder' = recorder
        BY <1>4 DEF SendText, Streaming
    <2> QED BY <2>1 DEF InStep, Resolved
<1>5. CASE ~Streaming'
    BY <1>5 DEF InStep
<1>6. CASE UNCHANGED vars
    BY <1>6 DEF vars, InStep, Streaming, Framed
<1>7. CASE NextCall
    BY <1>7 DEF NextCall, InStep, Resolved, NoTokens, Unframed
<1>8. Record \/ SendFinal \/ SendDone \/ AdapterBreaks \/ Disconnect
          \/ (\E status \in Statuses \cup {500, 502} : Fail(status))
      => ~Streaming'
    BY DEF Record, SendFinal, SendDone, AdapterBreaks, Fail, Broken, Disconnect,
           Streaming
<1> QED BY <1>2, <1>3, <1>4, <1>5, <1>6, <1>7, <1>8 DEF Next

(***************************************************************************)
(* Outcomes.                                                               *)
(***************************************************************************)
LEMMA StepSettled ==
    ASSUME TypeOK, InStep, Settled, [Next]_vars
    PROVE  Settled'
<1>1. CASE UNCHANGED <<billed, log, framing>> /\ UNCHANGED client.final
           /\ Streaming /\ phase' # "closing"
    BY <1>1 DEF Settled
<1>2. ASSUME NEW l \in Line, ReadLine(l) PROVE Settled'
    BY <1>1, <1>2 DEF ReadLine, HandUp, Reading, Streaming, TypeOK
<1>3. CASE EndOfBody
    BY <1>1, <1>3 DEF EndOfBody, HandUp, Reading, Streaming, TypeOK
<1>4. CASE SendText
    BY <1>4 DEF SendText, Settled, Streaming, TypeOK
<1>5. CASE Record
    <2>1. /\ Streaming /\ ~Streaming' /\ billed' = recorder
          /\ recorder' = recorder /\ client'.final = client.final
        BY <1>5 DEF Record, Streaming, TypeOK
    <2>2. Resolved(framing'.usage) = recorder
        BY <1>5, <2>1 DEF Record, InStep, Resolved
    <2>3. recorder # None BY NoneIsNoValue DEF TypeOK
    <2> QED BY <2>1, <2>2, <2>3 DEF Settled, Resolved
<1>6. CASE SendFinal
    <2>1. /\ billed # None /\ ~Streaming'
          /\ UNCHANGED <<phase, billed, log, framing, recorder>>
          /\ client'.final.usage = framing.usage
        BY <1>6 DEF SendFinal, Settled, Streaming, TypeOK
    <2> QED BY <2>1 DEF Settled, Resolved
<1>7. CASE SendDone
    BY <1>7 DEF SendDone, Settled, Streaming, Resolved, TypeOK
<1>8. ASSUME NEW status \in Statuses \cup {500, 502}, Broken(status),
             UNCHANGED billed
      PROVE  Settled'
    <2>1. /\ Streaming /\ ~Streaming' /\ phase' # "closing"
          /\ client'.final = client.final
        BY <1>8 DEF Broken, Reading, Streaming, TypeOK
    <2> QED BY <1>8, <2>1 DEF Settled
<1>9. CASE Disconnect
    BY <1>9 DEF Disconnect, Settled, Streaming, Resolved
<1>10. CASE NextCall
    BY <1>10 DEF NextCall, Settled, Streaming, Unanswered
<1>11. CASE UNCHANGED vars
    BY <1>11 DEF vars, Settled, Streaming, Resolved
<1> QED BY <1>2, <1>3, <1>4, <1>5, <1>6, <1>7, <1>8, <1>9, <1>10, <1>11
        DEF Next, Fail, AdapterBreaks

LEMMA StepBegun ==
    ASSUME TypeOK, Begun, [Next]_vars
    PROVE  Begun'
<1>1. ASSUME NEW l \in Line, ReadLine(l) PROVE Begun'
    <2>1. said'.lines = said.lines + 1 BY <1>1 DEF ReadLine, SaidWith
    <2> QED BY <2>1 DEF Begun, TypeOK
<1>2. CASE EndOfBody
    BY <1>2 DEF EndOfBody, Begun, TypeOK
<1>3. CASE UNCHANGED <<adapter, said>> /\ (phase' = phase \/ phase' # "open")
    BY <1>3 DEF Begun
<1>4. CASE NextCall
    BY <1>4 DEF NextCall, Begun
<1> QED BY <1>1, <1>2, <1>3, <1>4
        DEF Next, SendText, Record, SendFinal, SendDone, Fail, AdapterBreaks,
            Broken, Disconnect, vars

LEMMA StepOneOutcome ==
    ASSUME TypeOK, Begun, Settled, Settled', OneOutcome, [Next]_vars
    PROVE  OneOutcome'
<1>1. ASSUME NEW l \in Line, ReadLine(l) PROVE OneOutcome'
    <2>1. /\ Streaming /\ phase' \in {"waiting", "open"}
          /\ UNCHANGED <<billed, log>> /\ client'.final = client.final
        BY <1>1 DEF ReadLine, HandUp, Reading, Streaming, TypeOK
    <2> QED BY <2>1 DEF OneOutcome, Settled, Streaming
<1>2. CASE EndOfBody
    <2>1. /\ Streaming /\ phase' \in {"waiting", "open"}
          /\ UNCHANGED <<billed, log>> /\ client'.final = client.final
        BY <1>2 DEF EndOfBody, HandUp, Reading, Streaming, TypeOK
    <2> QED BY <2>1 DEF OneOutcome, Settled, Streaming
<1>3. CASE SendText
    BY <1>3 DEF SendText, OneOutcome, Settled, Streaming, TypeOK
<1>4. CASE Record
    <2>1. /\ log = << >> /\ billed = None /\ phase' = "closing"
          /\ adapter'.over /\ billed' = recorder
          /\ client'.final = None /\ log' = Append(log, 200)
        BY <1>4 DEF Record, Settled, Streaming, TypeOK
    <2>2. log' = <<200>> /\ Len(log') = 1 BY <2>1
    <2>3. billed' # None BY <2>1, NoneIsNoValue DEF TypeOK
    <2> QED BY <2>1, <2>2, <2>3 DEF OneOutcome
<1>5. CASE SendFinal
    BY <1>5 DEF SendFinal, OneOutcome, Settled
<1>6. CASE SendDone
    BY <1>6 DEF SendDone, OneOutcome, Settled, TypeOK
<1>7. ASSUME NEW status \in Statuses \cup {500, 502}, Fail(status)
      PROVE  OneOutcome'
    <2>1. /\ log = << >> /\ billed' = None /\ client'.final = None
          /\ log' = Append(log, status) /\ status \in 400..599
          /\ phase' \in {"refused", "cut"}
          /\ phase' = "refused" => client'.status = status
          /\ phase' = "cut" => phase = "open"
        BY <1>7, StreamAssumption
        DEF Fail, Broken, Reading, Settled, Streaming, TypeOK
    <2>2. log' = <<status>> /\ Len(log') = 1 /\ log' # <<200>> BY <2>1
    <2>3. phase = "open" => status = 502
        BY <1>7 DEF Fail, Broken, Reading, Begun
    <2> QED BY <2>1, <2>2, <2>3 DEF OneOutcome
<1>8. CASE AdapterBreaks
    <2>1. /\ log' = << >> /\ billed' = None /\ client'.final = None
          /\ phase' \in {"refused", "cut"}
          /\ phase' = "refused" => client'.status = 500
        BY <1>8 DEF AdapterBreaks, Broken, Reading, Settled, Streaming, TypeOK
    <2>2. Len(log') = 0 /\ log' # <<200>> BY <2>1
    <2> QED BY <2>1, <2>2 DEF OneOutcome
<1>9. CASE Disconnect
    BY <1>9 DEF Disconnect, OneOutcome
<1>10. CASE NextCall
    <2>1. /\ log' = << >> /\ billed' = None /\ client'.final = None
          /\ phase' = "waiting"
        BY <1>10 DEF NextCall, Unanswered
    <2>2. Len(log') = 0 /\ log' # <<200>> BY <2>1
    <2> QED BY <2>1, <2>2 DEF OneOutcome
<1>11. CASE UNCHANGED vars
    BY <1>11 DEF vars, OneOutcome
<1> QED BY <1>1, <1>2, <1>3, <1>4, <1>5, <1>6, <1>7, <1>8, <1>9, <1>10, <1>11
        DEF Next

(***************************************************************************)
(* Texts and finish reasons.                                               *)
(***************************************************************************)
LEMMA YieldedFields ==
    ASSUME TypeOK, NEW l \in Line, NEW c, c = Yielded(l, Remembered(l))
    PROVE  /\ c = None <=> kind # "gemini" /\ ~l.text
           /\ c # None =>
                /\ c.text = IF l.text THEN Remembered(l).texts ELSE 0
                /\ c.finish = IF kind = "gemini" THEN l.finish ELSE None
<1> DEFINE a == Remembered(l)
           r == [text |-> IF l.text THEN a.texts ELSE 0,
                 finish |-> IF kind = "gemini" THEN l.finish ELSE None,
                 prompt |-> IF kind = "gemini" THEN a.prompt ELSE None,
                 completion |-> IF kind = "gemini" THEN a.completion ELSE None]
<1>1. c = IF kind # "gemini" /\ ~l.text THEN None ELSE r
    BY DEF Yielded
<1>2. a.prompt \in MaybeNat /\ a.completion \in MaybeNat /\ a.texts \in Nat
    BY RememberedType, NoneIsNoValue DEF Count, MaybeNat
<1> HIDE DEF a
<1>3. r \in Chunk BY <1>2, LineType DEF Chunk, MaybeNat, Reason
<1>4. r # None BY <1>3, NoneIsNoValue
<1> HIDE DEF r
<1>5. c = None <=> kind # "gemini" /\ ~l.text BY <1>1, <1>4
<1>6. r.text = (IF l.text THEN a.texts ELSE 0)
          /\ r.finish = (IF kind = "gemini" THEN l.finish ELSE None)
    BY DEF r
<1> QED BY <1>1, <1>5, <1>6 DEF a

LEMMA StepDelivered ==
    ASSUME TypeOK, Remembers, Delivered, [Next]_vars
    PROVE  Delivered'
<1>a. said.texts \in Nat /\ client.texts \in Seq(Nat) /\ Len(client.texts) \in Nat
    BY DEF TypeOK
<1>1. ASSUME NEW l \in Line, ReadLine(l) PROVE Delivered'
    <2> DEFINE c == Yielded(l, Remembered(l))
    <2>1. /\ HandUp(c) /\ chunk = None /\ Streaming
          /\ adapter' = Remembered(l) /\ ~adapter.over
          /\ said'.texts = said.texts + (IF l.text THEN 1 ELSE 0)
        BY <1>1 DEF ReadLine, SaidWith, Reading, Streaming
    <2>2. said.texts = Len(client.texts)
        BY <2>1, <1>a DEF Delivered, InHand
    <2>3. Remembered(l).texts = said'.texts /\ ~adapter'.over
        BY <2>1 DEF Remembered, Remembers
    <2>4. /\ c = None <=> kind # "gemini" /\ ~l.text
          /\ c # None => c.text = IF l.text THEN said'.texts ELSE 0
        BY <2>3, YieldedFields
    <2>5. /\ chunk' = c /\ client'.texts = client.texts
          /\ phase' \in {"waiting", "open"}
          /\ client.role => client'.role
          /\ phase' = "open" => client'.role
        BY <2>1 DEF HandUp, Delivered, Streaming, TypeOK
    <2> HIDE DEF c
    <2>6. InHand' <=> l.text
        <3>1. CASE l.text
            <4>1. said'.texts # 0 BY <2>1, <3>1, <1>a
            <4>2. c # None /\ c.text # 0 BY <2>4, <3>1, <4>1
            <4> QED BY <2>5, <3>1, <4>2 DEF InHand
        <3>2. CASE ~l.text
            <4>1. c = None \/ c.text = 0 BY <2>4, <3>2
            <4> QED BY <2>5, <3>2, <4>1 DEF InHand
        <3> QED BY <3>1, <3>2
    <2>7. InHand' => chunk'.text = said'.texts /\ ~adapter'.over
        BY <2>3, <2>4, <2>5, <2>6 DEF InHand
    <2>8. said'.texts = Len(client'.texts) + (IF InHand' THEN 1 ELSE 0)
        BY <2>1, <2>2, <2>5, <2>6
    <2>9. Len(client'.texts) <= said'.texts
        <3>1. Len(client'.texts) \in Nat BY <2>5, <1>a
        <3>2. \/ said'.texts = Len(client'.texts) + 1
              \/ said'.texts = Len(client'.texts) + 0
            BY <2>8
        <3> QED BY <3>1, <3>2
    <2>10. \A i \in DOMAIN client'.texts : client'.texts[i] = i
        BY <2>5 DEF Delivered
    <2>11. client'.texts # << >> => client'.role
        BY <2>5 DEF Delivered
    <2>12. phase' \notin {"closing", "done"} BY <2>5
    <2> QED BY <2>5, <2>7, <2>8, <2>9, <2>10, <2>11, <2>12 DEF Delivered
<1>2. CASE EndOfBody
    <2>1. /\ HandUp(Terminal) /\ chunk = None /\ Streaming /\ said' = said
        BY <1>2 DEF EndOfBody, Reading, Streaming
    <2>2. Terminal # None => Terminal.text = 0
        BY TerminalCounts DEF Terminal
    <2>3. /\ chunk' = Terminal /\ client'.texts = client.texts
          /\ phase' \in {"waiting", "open"}
          /\ client.role => client'.role
          /\ phase' = "open" => client'.role
        BY <2>1 DEF HandUp, Delivered, Streaming, TypeOK
    <2>4. ~InHand /\ ~InHand' BY <2>1, <2>2, <2>3 DEF InHand
    <2> QED BY <2>1, <2>3, <2>4 DEF Delivered
<1>3. CASE SendText
    <2>1. /\ Streaming /\ chunk \in Chunk /\ chunk' = None /\ said' = said
          /\ phase' = phase
        BY <1>3 DEF SendText, Streaming, TypeOK
    <2>2. chunk.text \in Nat BY <2>1, ChunkFields
    <2>3. ~InHand' BY <2>1 DEF InHand
    <2>4. CASE chunk.text = 0
        BY <1>3, <2>1, <2>3, <2>4 DEF SendText, Delivered, InHand
    <2>5. CASE chunk.text # 0
        <3>1. InHand /\ chunk.text = Len(client.texts) + 1
                 /\ said.texts = Len(client.texts) + 1
            BY <2>1, <2>5, <1>a, <1>3 DEF SendText, Delivered, InHand
        <3>2. client'.texts = Append(client.texts, chunk.text)
                 /\ client'.role = client.role
            BY <1>3, <2>5 DEF SendText, TypeOK
        <3>3. Len(client'.texts) = said'.texts
            BY <3>1, <3>2, <2>1, <1>a
        <3>4. \A i \in DOMAIN client'.texts : client'.texts[i] = i
            BY <3>1, <3>2, <1>a DEF Delivered
        <3>5. client.role BY <1>3 DEF SendText, Delivered
        <3> QED BY <2>1, <2>3, <3>2, <3>3, <3>4, <3>5, <1>a DEF Delivered
    <2> QED BY <2>4, <2>5
<1>4. CASE Record
    <2>1. /\ Streaming /\ ~Streaming' /\ said' = said
          /\ client'.texts = client.texts /\ client'.role
        BY <1>4 DEF Record, Streaming, TypeOK
    <2>2. ~InHand BY <2>1, <1>4 DEF Delivered, Record
    <2>3. said.texts = Len(client.texts) BY <2>1, <2>2, <1>a DEF Delivered
    <2>4. Len(client'.texts) = said'.texts
             /\ Len(client'.texts) <= said'.texts
        BY <2>1, <2>3, <1>a
    <2>5. \A i \in DOMAIN client'.texts : client'.texts[i] = i
        BY <2>1 DEF Delivered
    <2> QED BY <2>1, <2>4, <2>5 DEF Delivered
<1>5. CASE SendFinal
    <2>1. client'.texts = client.texts /\ client'.role = client.role
        BY <1>5 DEF SendFinal, TypeOK
    <2> QED BY <1>5, <2>1 DEF SendFinal, Delivered, Streaming
<1>6. CASE SendDone
    <2>1. client'.texts = client.texts /\ client'.role = client.role
        BY <1>6 DEF SendDone, TypeOK
    <2> QED BY <1>6, <2>1 DEF SendDone, Delivered, Streaming
<1>7. ASSUME NEW status \in Statuses \cup {500, 502}, Broken(status)
      PROVE  Delivered'
    <2>1. /\ client'.texts = client.texts /\ client'.role = client.role
          /\ phase' \in {"refused", "cut"} /\ said' = said
        BY <1>7 DEF Broken, TypeOK
    <2> QED BY <2>1 DEF Delivered, Streaming
<1>8. CASE Disconnect
    BY <1>8 DEF Disconnect, Delivered, Streaming
<1>9. CASE NextCall
    <2>1. /\ client'.texts = << >> /\ said'.texts = 0 /\ chunk' = None
          /\ phase' = "waiting"
        BY <1>9 DEF NextCall, Unanswered, Unsaid
    <2> QED BY <2>1 DEF Delivered, InHand
<1>10. CASE UNCHANGED vars
    BY <1>10 DEF vars, Delivered, Streaming, InHand
<1> QED BY <1>1, <1>2, <1>3, <1>4, <1>5, <1>6, <1>7, <1>8, <1>9, <1>10
        DEF Next, Fail, AdapterBreaks

LEMMA StepFinishTold ==
    ASSUME TypeOK, FinishTold, [Next]_vars
    PROVE  FinishTold'
<1>1. ASSUME NEW l \in Line, ReadLine(l) PROVE FinishTold'
    <2> DEFINE c == Yielded(l, Remembered(l))
    <2>1. /\ HandUp(c) /\ chunk = None /\ Streaming /\ ~adapter.over
          /\ adapter' = Remembered(l) /\ kind' = kind /\ framing' = framing
          /\ said'.finish = Latest(said.finish, l.finish)
        BY <1>1 DEF ReadLine, SaidWith, Reading, Streaming
    <2>2. adapter'.finish = said'.finish /\ ~adapter'.over
        BY <2>1 DEF Remembered, FinishTold
    <2>3. /\ c = None <=> kind # "gemini" /\ ~l.text
          /\ c # None => c.finish = IF kind = "gemini" THEN l.finish ELSE None
        BY YieldedFields
    <2>4. /\ chunk' = c /\ client'.final = client.final
          /\ client'.done = client.done /\ phase' \in {"waiting", "open"}
        BY <2>1 DEF HandUp, Streaming, TypeOK
    <2>5. client'.final = None /\ ~client'.done
        BY <2>1, <2>4 DEF FinishTold, Streaming, TypeOK
    <2> HIDE DEF c
    <2>6. CASE kind = "gemini"
        <3>1. framing.finish = said.finish
            BY <2>1, <2>6 DEF FinishTold, Told, Latest
        <3>2. Told' = said'.finish
            BY <2>1, <2>3, <2>4, <2>6, <3>1 DEF Told
        <3> QED BY <2>1, <2>2, <2>4, <2>5, <2>6, <3>2 DEF FinishTold
    <2>7. CASE kind # "gemini"
        <3>1. framing.finish = None
            BY <2>1, <2>7 DEF FinishTold, Told, Latest
        <3>2. Told' = None
            BY <2>1, <2>3, <2>4, <2>7, <3>1 DEF Told, Latest
        <3> QED BY <2>1, <2>2, <2>4, <2>5, <2>7, <3>2 DEF FinishTold
    <2> QED BY <2>6, <2>7
<1>2. CASE EndOfBody
    <2>1. /\ HandUp(Terminal) /\ chunk = None /\ Streaming /\ ~adapter.over
          /\ adapter'.over /\ adapter'.finish = adapter.finish
          /\ UNCHANGED <<kind, framing, said>>
        BY <1>2 DEF EndOfBody, Reading, Streaming, TypeOK
    <2>2. /\ chunk' = Terminal /\ client'.final = client.final
          /\ client'.done = client.done /\ phase' \in {"waiting", "open"}
        BY <2>1 DEF HandUp, Streaming, TypeOK
    <2>3. client'.final = None /\ ~client'.done
        BY <2>1, <2>2 DEF FinishTold, Streaming, TypeOK
    <2>4. CASE kind = "gemini"
        <3>1. Terminal = None BY <2>4 DEF Terminal
        <3>2. Told' = Told BY <2>1, <2>2, <3>1 DEF Told
        <3> QED BY <2>1, <2>2, <2>3, <2>4, <3>2 DEF FinishTold
    <2>5. CASE kind # "gemini"
        <3>1. Terminal # None /\ Terminal.finish = Latest("stop", said.finish)
            BY <2>5, TerminalCounts DEF FinishTold
        <3> QED BY <2>1, <2>2, <2>3, <2>5, <3>1 DEF FinishTold
    <2> QED BY <2>4, <2>5
<1>3. CASE SendText
    <2>1. /\ Streaming /\ Streaming' /\ chunk # None /\ chunk' = None
          /\ ~adapter.over /\ framing'.finish = Latest(framing.finish, chunk.finish)
          /\ UNCHANGED <<kind, adapter, said, phase>>
          /\ client'.final = client.final /\ client'.done = client.done
        BY <1>3 DEF SendText, Streaming, Framed, TypeOK
    <2>2. Told' = Told BY <2>1 DEF Told, Latest
    <2>3. phase = "open" BY <1>3 DEF SendText
    <2> QED BY <2>1, <2>2, <2>3 DEF FinishTold
<1>4. CASE Record
    <2>1. /\ Streaming /\ ~Streaming' /\ phase' = "closing" /\ adapter.over
          /\ framing'.finish = Told /\ UNCHANGED <<kind, adapter, said>>
          /\ client'.final = client.final /\ client'.done = client.done
        BY <1>4 DEF Record, Streaming, Told, Framed, Latest, TypeOK
    <2>2. client'.final = None /\ ~client'.done
        BY <2>1 DEF FinishTold, Streaming, TypeOK
    <2>3. Latest("stop", framing'.finish) = Latest("stop", said.finish)
        <3>1. CASE kind = "gemini"
            BY <2>1, <3>1 DEF FinishTold
        <3>2. CASE kind # "gemini"
            <4>1. chunk # None /\ chunk.finish = Latest("stop", said.finish)
                BY <2>1, <3>2 DEF FinishTold
            <4>2. Latest("stop", said.finish) # None
                BY NoneIsNoValue DEF Latest
            <4>3. framing'.finish = Latest("stop", said.finish)
                BY <2>1, <4>1, <4>2 DEF Told, Latest
            <4> QED BY <4>2, <4>3 DEF Latest
        <3> QED BY <3>1, <3>2
    <2> QED BY <2>1, <2>2, <2>3 DEF FinishTold
<1>5. CASE SendFinal
    <2>1. /\ phase = "closing" /\ ~Streaming' /\ client'.done = client.done
          /\ client'.final.finish = Latest("stop", framing.finish)
          /\ UNCHANGED <<kind, adapter, said, phase, framing>>
        BY <1>5 DEF SendFinal, Streaming, TypeOK
    <2>2. ~client'.done BY <2>1 DEF FinishTold, TypeOK
    <2> QED BY <2>1, <2>2 DEF FinishTold
<1>6. CASE SendDone
    <2>1. /\ ~Streaming' /\ phase' = "done" /\ client'.final = client.final
          /\ client.final # None /\ UNCHANGED <<kind, adapter, said, framing>>
        BY <1>6 DEF SendDone, Streaming, TypeOK
    <2> QED BY <2>1 DEF FinishTold
<1>7. ASSUME NEW status \in Statuses \cup {500, 502}, Broken(status)
      PROVE  FinishTold'
    <2>1. /\ Streaming /\ ~Streaming' /\ phase' # "closing"
          /\ client'.final = client.final /\ client'.done = client.done
          /\ UNCHANGED <<kind, adapter, said, framing>>
        BY <1>7 DEF Broken, Reading, Streaming, TypeOK
    <2>2. ~client.done BY <2>1 DEF FinishTold, Streaming
    <2> QED BY <2>1, <2>2 DEF FinishTold
<1>8. CASE Disconnect
    <2>1. ~client.done BY <1>8 DEF Disconnect, FinishTold
    <2> QED BY <1>8, <2>1 DEF Disconnect, FinishTold, Streaming
<1>9. CASE NextCall
    BY <1>9 DEF NextCall, FinishTold, Unread, Unsaid, Unanswered, Unframed,
       Told, Latest
<1>10. CASE UNCHANGED vars
    BY <1>10 DEF vars, FinishTold, Streaming, Told
<1> QED BY <1>1, <1>2, <1>3, <1>4, <1>5, <1>6, <1>7, <1>8, <1>9, <1>10
        DEF Next, Fail, AdapterBreaks

(***************************************************************************)
(* The inductive invariant and what it implies.                            *)
(***************************************************************************)
LEMMA InitInvariant == Init => IInv
<1> SUFFICES ASSUME Init PROVE IInv
    OBVIOUS
<1>1. TypeOK BY InitTypes
<1>2. Remembers /\ Begun
    BY DEF Init, Remembers, Held, Begun, Unread, Unsaid
<1>3. Tallied /\ InStep
    BY DEF Init, Tallied, InStep, Unread, Unframed, NoTokens, Latest, Resolved
<1>4. Settled
    BY DEF Init, Settled, Streaming, Unanswered
<1>5. OneOutcome
    <2>1. /\ billed = None /\ log = << >> /\ phase = "waiting"
          /\ client.final = None
        BY DEF Init, Unanswered
    <2>2. Len(log) = 0 /\ log # <<200>> BY <2>1
    <2> QED BY <2>1, <2>2 DEF OneOutcome
<1>6. Delivered
    <2>1. /\ client.texts = << >> /\ said.texts = 0 /\ chunk = None
          /\ phase = "waiting"
        BY DEF Init, Unanswered, Unsaid
    <2> QED BY <2>1 DEF Delivered, InHand
<1>7. FinishTold
    BY DEF Init, FinishTold, Unread, Unsaid, Unanswered, Unframed, Told, Latest
<1> QED BY <1>1, <1>2, <1>3, <1>4, <1>5, <1>6, <1>7 DEF IInv

LEMMA StepInvariant == IInv /\ [Next]_vars => IInv'
<1> SUFFICES ASSUME IInv, [Next]_vars PROVE IInv'
    OBVIOUS
<1>0. /\ TypeOK /\ Remembers /\ Tallied /\ InStep /\ Settled /\ OneOutcome
      /\ Begun /\ Delivered /\ FinishTold
    BY DEF IInv
<1>1. TypeOK' BY <1>0, StepTypes
<1>2. Remembers' BY <1>0, StepRemembers
<1>3. Tallied' BY <1>0, StepTallied
<1>4. InStep' BY <1>0, StepInStep
<1>5. Settled' BY <1>0, StepSettled
<1>6. Begun' BY <1>0, StepBegun
<1>7. OneOutcome' BY <1>0, <1>5, StepOneOutcome
<1>8. Delivered' BY <1>0, StepDelivered
<1>9. FinishTold' BY <1>0, StepFinishTold
<1> QED BY <1>1, <1>2, <1>3, <1>4, <1>5, <1>6, <1>7, <1>8, <1>9 DEF IInv

LEMMA Invariant == Spec => []IInv
BY InitInvariant, StepInvariant, PTL DEF Spec

LEMMA ShownFromInvariant ==
    ASSUME IInv
    PROVE  ShownUsageIsBilled
<1> SUFFICES ASSUME client.final # None
             PROVE  billed = IF client.final.usage = None THEN NoTokens
                             ELSE client.final.usage
    BY DEF ShownUsageIsBilled
<1>1. /\ billed # None /\ billed = recorder
      /\ Resolved(framing.usage) = recorder
      /\ client.final.usage = framing.usage
    BY DEF IInv, Settled
<1> QED BY <1>1 DEF Resolved

LEMMA BillFromInvariant ==
    ASSUME IInv
    PROVE  BillFollowsReport
<1> SUFFICES ASSUME billed # None PROVE BillFollowsReport
    BY DEF BillFollowsReport
<1>1. billed = recorder /\ adapter.over
    BY DEF IInv, Settled, OneOutcome
<1>2. /\ adapter.prompt = Held("prompt") /\ adapter.completion = Held("completion")
      /\ adapter.texts = said.texts
    BY DEF IInv, Remembers
<1>3. Tallied BY DEF IInv
<1> DEFINE Lost(c) == said[c] = None \/ (c \in said.null /\ kind # "gemini")
<1>4. /\ billed.prompt = IF Lost("prompt")
                        THEN IF kind = "gemini" THEN 0 ELSE EstPrompt
                        ELSE said.prompt
      /\ billed.completion = IF Lost("completion")
                            THEN IF kind = "gemini" THEN 0 ELSE said.texts
                            ELSE said.completion
    <2>1. CASE kind = "gemini"
        <3>1. /\ billed.prompt = Latest(0, Held("prompt"))
              /\ billed.completion = Latest(0, Held("completion"))
            BY <1>1, <1>2, <1>3, <2>1 DEF Tallied
        <3>2. Held("prompt") = said.prompt /\ Held("completion") = said.completion
            BY <2>1 DEF Held
        <3> QED BY <2>1, <3>1, <3>2 DEF Latest
    <2>2. CASE kind # "gemini"
        <3>1. /\ billed.prompt = Latest(EstPrompt, Held("prompt"))
              /\ billed.completion = Latest(said.texts, Held("completion"))
            BY <1>1, <1>2, <1>3, <2>2 DEF Tallied
        <3>2. /\ Held("prompt") = IF "prompt" \in said.null THEN None
                                  ELSE said.prompt
              /\ Held("completion") = IF "completion" \in said.null THEN None
                                      ELSE said.completion
            BY <2>2 DEF Held
        <3> QED BY <2>2, <3>1, <3>2 DEF Latest
    <2> QED BY <2>1, <2>2
<1> DEFINE estimates == IF kind = "gemini" THEN NoTokens
                        ELSE [prompt |-> EstPrompt, completion |-> said.texts]
<1>5. /\ estimates.prompt = IF kind = "gemini" THEN 0 ELSE EstPrompt
      /\ estimates.completion = IF kind = "gemini" THEN 0 ELSE said.texts
    BY DEF NoTokens
<1> HIDE DEF estimates
<1>6. ASSUME NEW c \in TokenCounts
      PROVE  billed[c] = IF Lost(c) THEN estimates[c] ELSE said[c]
    <2>1. c = "prompt" \/ c = "completion" BY DEF TokenCounts
    <2> HIDE DEF Lost
    <2> QED BY <1>4, <1>5, <2>1
<1> QED BY <1>6 DEF BillFollowsReport, estimates

LEMMA ClientFromInvariant ==
    ASSUME IInv
    PROVE  ClientGetsWhatWasSaid
<1>1. Delivered /\ FinishTold BY DEF IInv
<1> QED BY <1>1 DEF Delivered, FinishTold, ClientGetsWhatWasSaid

\* For all adapters and counts and any number of lines, the usage a client is
\* shown at the end of a stream is the usage it is billed for, although
\* recorder and framing combine the counts of the chunks in different ways
\* (chat_completion_stream, _emit).
THEOREM ShownIsBilled == Spec => []ShownUsageIsBilled
<1>1. IInv => ShownUsageIsBilled BY ShownFromInvariant
<1> QED BY <1>1, Invariant, PTL

\* However often a provider reports, withdraws or misplaces its counts, what
\* is billed is the last count in the place the adapter reads, and otherwise
\* its estimate, or nothing with Gemini (stream_chat).
THEOREM BillsTheReport == Spec => []BillFollowsReport
<1>1. IInv => BillFollowsReport BY BillFromInvariant
<1> QED BY <1>1, Invariant, PTL

\* However long the stream, the client gets the texts in order, none missing
\* and none twice, and the provider's finish reason (_sse_from_chunks).
THEOREM ClientGetsAll == Spec => []ClientGetsWhatWasSaid
<1>1. IInv => ClientGetsWhatWasSaid BY ClientFromInvariant
<1> QED BY <1>1, Invariant, PTL

\* A streamed call is billed and logged as a success, or fails with at most
\* one row, or is given up without a trace (chat_completion_stream).
THEOREM StreamHasOneOutcome == Spec => []OneOutcome
<1>1. IInv => OneOutcome BY DEF IInv
<1> QED BY <1>1, Invariant, PTL

(***************************************************************************)
(* Single answers.                                                         *)
(***************************************************************************)
\* What holds of a usage in a response and of what was billed for it: no count
\* is null, and a count that was reported is both in the response and billed.
Kept(usage, billedFor, reported) ==
    /\ usage \notin {None, Null} => usage.prompt # Null /\ usage.completion # Null
    /\ reported.prompt \notin {None, 0} =>
          /\ usage \notin {None, Null} /\ usage.prompt # None
          /\ usage.prompt = billedFor.prompt
    /\ reported.completion \notin {None, 0} =>
          /\ usage \notin {None, Null} /\ usage.completion # None
          /\ usage.completion = billedFor.completion

CachedKept == cached # None => Kept(cached.usage, cached.billed, cached.reported)

CallInv == CachedKept /\ HitSavesWhatWasBilled /\ PaidIsAnswered

LEMMA CallConstants ==
    /\ Null \notin Nat /\ Raises \notin Nat /\ None \notin Nat
    /\ None # Null /\ None # Raises /\ Null # Raises
    /\ None # "null" /\ None # "ttl"
    /\ Null \notin Count /\ Raises \notin Field /\ Count \subseteq Nat \cup {None}
    /\ None \notin JSONUsage \cup Usage /\ Null \notin JSONUsage \cup Usage
    /\ Estimates \subseteq Nat /\ EstPrompt \in Nat
BY CallAssumption, UsageAssumption, NoneIsNoValue DEF Count, Field

LEMMA UsageOfType ==
    ASSUME NEW reply \in Reply
    PROVE  /\ UsageOf(reply) \in JSONUsage
           /\ UsageOf(reply).prompt \in Field /\ UsageOf(reply).completion \in Field
           /\ reply.usage \in JSONUsage \cup {None, Null}
           /\ reply.usage \in JSONUsage => UsageOf(reply) = reply.usage
           /\ reply.usage \notin JSONUsage => UsageOf(reply) = NoReport
           /\ EstText(reply) \in Nat
<1>1. NoReport \in JSONUsage
    BY DEF NoReport, JSONUsage, Field, Count
<1>2. reply.usage \in JSONUsage \cup {None, Null} /\ reply.text \in BOOLEAN
    BY DEF Reply
<1> QED BY <1>1, <1>2, CallConstants DEF UsageOf, JSONUsage, EstText

\* A count that is billed was not null, and if it was reported it is billed.
LEMMA CountsOpenAI ==
    ASSUME NEW x \in Field, NEW estimate \in Nat, AsInt(Get(x, estimate)) # Raises
    PROVE  /\ AsInt(Get(x, estimate)) \in Nat /\ x # Null
           /\ x # None => AsInt(Get(x, estimate)) = x
BY CallConstants DEF AsInt, Get, Field, Count

LEMMA CountsGemini ==
    ASSUME NEW x \in Field, OrElse(x, Raises) # Raises
    PROVE  OrElse(x, Raises) = x /\ x \in Nat
BY CallConstants DEF OrElse, Field, Count

LEMMA CountsAnthropic ==
    ASSUME NEW x \in Field, NEW estimate \in Nat,
           OrElse(AsInt(Get(x, 0)), estimate) # Raises
    PROVE  /\ AsInt(Get(x, 0)) \in Nat /\ x # Null
           /\ x \notin {None, 0} => /\ AsInt(Get(x, 0)) = x
                                    /\ OrElse(AsInt(Get(x, 0)), estimate) = x
BY CallConstants DEF OrElse, AsInt, Get, Field, Count

\* What an answer puts into the caches, unless its chat raises.
LEMMA ChatKept ==
    ASSUME NEW a \in Adapters, NEW reply \in Reply,
           a = "mock" => reply.text,
           Raises \notin {Chat(a, reply).billed.prompt,
                          Chat(a, reply).billed.completion}
    PROVE  Kept(Chat(a, reply).usage, Chat(a, reply).billed,
                IF a = "mock" THEN Chat(a, reply).usage ELSE UsageOf(reply))
<1> DEFINE r == Chat(a, reply)
           u == UsageOf(reply)
<1>u. /\ u.prompt \in Field /\ u.completion \in Field /\ EstText(reply) \in Nat
      /\ reply.usage \in JSONUsage \cup {None, Null}
      /\ reply.usage \in JSONUsage => u = reply.usage
      /\ reply.usage \notin JSONUsage => u.prompt = None /\ u.completion = None
    BY UsageOfType DEF NoReport
<1>1. CASE a \in {"openai", "ollama"}
    <2>1. /\ r.usage = reply.usage
          /\ r.billed.prompt = AsInt(Get(u.prompt, EstPrompt))
          /\ r.billed.completion = AsInt(Get(u.completion, EstText(reply)))
        BY <1>1 DEF Chat, ChatOpenAI, Result
    <2>2. /\ u.prompt # Null /\ (u.prompt # None => r.billed.prompt = u.prompt)
          /\ u.completion # Null
          /\ u.completion # None => r.billed.completion = u.completion
        <3> HIDE DEF u, r
        <3> QED BY <2>1, <1>u, CountsOpenAI, CallConstants DEF r
    <2>3. a # "mock" BY <1>1
    <2> HIDE DEF u, r
    <2>4. Kept(r.usage, r.billed, u)
        BY <1>u, <2>1, <2>2, CallConstants DEF Kept
    <2> QED BY <2>3, <2>4 DEF u, r
<1>2. CASE a = "gemini"
    <2>1. /\ r.usage = reply.usage
          /\ r.billed.prompt = OrElse(u.prompt, Raises)
          /\ r.billed.completion = OrElse(u.completion, Raises)
        BY <1>2 DEF Chat, ChatGemini, Result
    <2>2. /\ u.prompt \in Nat /\ r.billed.prompt = u.prompt
          /\ u.completion \in Nat /\ r.billed.completion = u.completion
        <3> HIDE DEF u, r
        <3> QED BY <2>1, <1>u, CountsGemini DEF r
    <2>3. a # "mock" BY <1>2
    <2> HIDE DEF u, r
    <2>4. Kept(r.usage, r.billed, u)
        BY <1>u, <2>1, <2>2, CallConstants DEF Kept
    <2> QED BY <2>3, <2>4 DEF u, r
<1>3. CASE a = "anthropic"
    <2> DEFINE p == AsInt(Get(u.prompt, 0))
               c == AsInt(Get(u.completion, 0))
    <2>1. /\ r.usage = [prompt |-> p, completion |-> c]
          /\ r.billed.prompt = OrElse(p, EstPrompt)
          /\ r.billed.completion = OrElse(c, EstText(reply))
        BY <1>3 DEF Chat, ChatAnthropic, FromAnthropic, Result
    <2>2. /\ p \in Nat
          /\ u.prompt \notin {None, 0} => p = u.prompt /\ r.billed.prompt = u.prompt
        <3> HIDE DEF u, r
        <3> QED BY <2>1, <1>u, CountsAnthropic, CallConstants DEF r
    <2>3. /\ c \in Nat
          /\ u.completion \notin {None, 0} =>
                c = u.completion /\ r.billed.completion = u.completion
        <3> HIDE DEF u, r
        <3> QED BY <2>1, <1>u, CountsAnthropic, CallConstants DEF r
    <2>4. a # "mock" BY <1>3
    <2> HIDE DEF u, p, c
    <2>5. /\ r.usage \in Usage
          /\ r.usage.prompt = p /\ r.usage.completion = c
        BY <2>1, <2>2, <2>3 DEF Usage
    <2> HIDE DEF r
    <2>6. Kept(r.usage, r.billed, u)
        BY <2>2, <2>3, <2>5, CallConstants DEF Kept
    <2> QED BY <2>4, <2>6 DEF u, r
<1>4. CASE a = "mock"
    <2>1. /\ r.usage = [prompt |-> EstPrompt, completion |-> EstText(reply)]
          /\ r.billed = r.usage
        BY <1>4 DEF Chat, ChatMock, Result
    <2>2. EstPrompt \in Nat /\ EstText(reply) \in Nat
        BY <1>u, CallConstants
    <2> HIDE DEF u, r
    <2>3. /\ r.usage \in Usage
          /\ r.usage.prompt \in Nat /\ r.usage.completion \in Nat
        BY <2>1, <2>2 DEF Usage
    <2>4. Kept(r.usage, r.billed, r.usage)
        BY <2>1, <2>3, CallConstants DEF Kept
    <2> QED BY <1>4, <2>4 DEF r
<1> QED BY <1>1, <1>2, <1>3, <1>4, CallAssumption

\* What a chat that does not raise bills are numbers.
LEMMA ChatBills ==
    ASSUME NEW a \in Adapters, NEW reply \in Reply,
           Raises \notin {Chat(a, reply).billed.prompt,
                          Chat(a, reply).billed.completion}
    PROVE  /\ Chat(a, reply).billed.prompt \in Nat
           /\ Chat(a, reply).billed.completion \in Nat
<1> DEFINE r == Chat(a, reply)
           u == UsageOf(reply)
<1>u. u.prompt \in Field /\ u.completion \in Field /\ EstText(reply) \in Nat
    BY UsageOfType
<1>1. CASE a \in {"openai", "ollama"}
    <2>1. /\ r.billed.prompt = AsInt(Get(u.prompt, EstPrompt))
          /\ r.billed.completion = AsInt(Get(u.completion, EstText(reply)))
        BY <1>1 DEF Chat, ChatOpenAI, Result
    <2> HIDE DEF u
    <2> QED BY <2>1, <1>u, CountsOpenAI, CallConstants
<1>2. CASE a = "gemini"
    <2>1. /\ r.billed.prompt = OrElse(u.prompt, Raises)
          /\ r.billed.completion = OrElse(u.completion, Raises)
        BY <1>2 DEF Chat, ChatGemini, Result
    <2> HIDE DEF u
    <2> QED BY <2>1, <1>u, CountsGemini
<1>3. CASE a = "anthropic"
    <2> DEFINE p == AsInt(Get(u.prompt, 0))
               c == AsInt(Get(u.completion, 0))
    <2>1. /\ r.billed.prompt = OrElse(p, EstPrompt)
          /\ r.billed.completion = OrElse(c, EstText(reply))
        BY <1>3 DEF Chat, ChatAnthropic, FromAnthropic, Result
    <2>2. p \in Nat /\ c \in Nat
        <3> HIDE DEF u, r
        <3> QED BY <2>1, <1>u, CountsAnthropic, CallConstants DEF r
    <2> HIDE DEF p, c
    <2> QED BY <2>1, <2>2, <1>u, CallConstants DEF OrElse
<1>4. CASE a = "mock"
    <2>1. r.billed = [prompt |-> EstPrompt, completion |-> EstText(reply)]
        BY <1>4 DEF Chat, ChatMock, Result
    <2> HIDE DEF u
    <2> QED BY <2>1, <1>u, CallConstants
<1> QED BY <1>1, <1>2, <1>3, <1>4, CallAssumption

LEMMA AskKeeps ==
    ASSUME CallInv, NEW a \in Adapters, NEW reply \in Reply,
           NEW keyEnabled \in BOOLEAN, NEW ttlOk \in BOOLEAN,
           NEW pipeline \in BOOLEAN, Ask(a, reply, keyEnabled, ttlOk, pipeline)
    PROVE  CallInv'
<1> DEFINE r == Chat(a, reply)
           reported == IF a = "mock" THEN r.usage ELSE UsageOf(reply)
           entry == [usage |-> r.usage, billed |-> r.billed, reported |-> reported]
<1>1. CASE Raises \in {r.billed.prompt, r.billed.completion}
    <2>1. cached' = cached /\ outcome' = Outcome(FALSE, 500, None, None, None)
        BY <1>1 DEF Ask
    <2> QED
        BY <2>1, CallConstants
        DEF CallInv, CachedKept, Outcome, HitSavesWhatWasBilled, PaidIsAnswered
<1>2. CASE Raises \notin {r.billed.prompt, r.billed.completion}
    <2> DEFINE blame == Blamed(r.usage = Null, keyEnabled, ttlOk, pipeline)
    <2>1. /\ outcome' = Outcome(FALSE, IF blame = None THEN 200 ELSE 500,
                                r.billed, None, blame)
          /\ cached' = IF ~keyEnabled THEN cached ELSE entry
        BY <1>2 DEF Ask
    <2>0. r.billed # None
        <3>1. r.billed = [prompt |-> r.billed.prompt,
                          completion |-> r.billed.completion]
            BY DEF Chat, ChatOpenAI, ChatGemini, ChatAnthropic, ChatMock, Result
        <3>2. r.billed.prompt \in Nat /\ r.billed.completion \in Nat
            BY <1>2, ChatBills DEF Ask
        <3> HIDE DEF r
        <3>3. r.billed \in Usage BY <3>1, <3>2 DEF Usage
        <3> QED BY <3>3, CallConstants
    <2>2. Kept(r.usage, r.billed, reported)
        BY <1>2, ChatKept DEF Ask
    <2> HIDE DEF r, reported
    <2>3. entry.usage = r.usage /\ entry.billed = r.billed
              /\ entry.reported = reported
        OBVIOUS
    <2> HIDE DEF entry
    <2>4. Kept(entry.usage, entry.billed, entry.reported)
        BY <2>2, <2>3
    <2>5. CachedKept'
        BY <2>1, <2>4 DEF CallInv, CachedKept
    <2>6. /\ ~outcome'.hit /\ outcome'.billed # None
          /\ outcome'.status = 500 => outcome'.blame # None
        <3> HIDE DEF blame
        <3>1. /\ ~outcome'.hit /\ outcome'.billed = r.billed
              /\ outcome'.blame = blame
              /\ outcome'.status = IF blame = None THEN 200 ELSE 500
            BY <2>1 DEF Outcome
        <3> QED BY <2>0, <3>1
    <2>7. HitSavesWhatWasBilled'
        BY <2>6 DEF HitSavesWhatWasBilled
    <2>8. PaidIsAnswered'
        BY <2>5, <2>6 DEF PaidIsAnswered, CachedKept, Kept
    <2> QED BY <2>5, <2>7, <2>8 DEF CallInv
<1> QED BY <1>1, <1>2

\* What a hit reads of the cached response is there, and was billed.
LEMMA RereadKept ==
    ASSUME CachedKept, cached # None, cached.usage # Null, NEW estimate \in Estimates
    PROVE  LET saved == Reread(cached.usage, estimate)
           IN  /\ saved.prompt # Null /\ saved.completion # Null
               /\ cached.reported.prompt \notin {None, 0} =>
                     saved.prompt = cached.billed.prompt
               /\ cached.reported.completion \notin {None, 0} =>
                     saved.completion = cached.billed.completion
<1>1. Kept(cached.usage, cached.billed, cached.reported)
    BY DEF CachedKept
<1>2. estimate \in Nat /\ estimate # Null /\ 50 # Null
    BY CallConstants
<1>3. CASE cached.usage = None
    BY <1>1, <1>2, <1>3 DEF Reread, Kept, Get, NoReport
<1>4. CASE cached.usage # None
    <2>1. /\ Reread(cached.usage, estimate).prompt =
                Get(cached.usage.prompt, estimate)
          /\ Reread(cached.usage, estimate).completion =
                Get(cached.usage.completion, 50)
        BY <1>4 DEF Reread, Get
    <2> QED BY <1>1, <1>2, <1>4, <2>1 DEF Kept, Get
<1> QED BY <1>3, <1>4

LEMMA HitKeeps ==
    ASSUME CallInv, NEW estimate \in Estimates, Hit(estimate)
    PROVE  CallInv'
<1> DEFINE saved == Reread(cached.usage, estimate)
<1>1. cached # None /\ cached' = cached
    BY DEF Hit
<1>2. CachedKept'
    BY <1>1 DEF CallInv, CachedKept
<1>3. CASE cached.usage = Null
    <2>1. outcome' = Outcome(TRUE, 500, None, None, "null")
        BY <1>3 DEF Hit
    <2>2. outcome'.saved = None /\ outcome'.blame = "null"
        BY <2>1 DEF Outcome
    <2> QED
        BY <1>1, <1>2, <2>2, CallConstants
        DEF CallInv, CachedKept, HitSavesWhatWasBilled, PaidIsAnswered
<1>4. CASE cached.usage # Null
    <2>1. /\ saved.prompt # Null /\ saved.completion # Null
          /\ cached.reported.prompt \notin {None, 0} =>
                saved.prompt = cached.billed.prompt
          /\ cached.reported.completion \notin {None, 0} =>
                saved.completion = cached.billed.completion
        BY <1>1, <1>4, RereadKept DEF CallInv
    <2>2. outcome' = Outcome(TRUE, 200, NoTokens, saved, None)
        <3>1. outcome' = IF Null \in {saved.prompt, saved.completion}
                         THEN Outcome(TRUE, 500, None, None, None)
                         ELSE Outcome(TRUE, 200, NoTokens, saved, None)
            BY <1>4 DEF Hit
        <3> HIDE DEF saved
        <3> QED BY <3>1, <2>1
    <2> HIDE DEF saved
    <2>3. outcome'.saved = saved /\ outcome'.status = 200 /\ outcome'.blame = None
        BY <2>2 DEF Outcome
    <2>4. HitSavesWhatWasBilled'
        BY <1>1, <2>1, <2>3 DEF HitSavesWhatWasBilled
    <2>5. PaidIsAnswered'
        BY <1>1, <2>3, CallConstants DEF CallInv, PaidIsAnswered
    <2> QED BY <1>2, <2>4, <2>5 DEF CallInv
<1> QED BY <1>3, <1>4

LEMMA CallInvariant == CallSpec => []CallInv
<1>1. CallInit => CallInv
    BY CallConstants
    DEF CallInit, CallInv, CachedKept, HitSavesWhatWasBilled, PaidIsAnswered,
        Uncalled, Outcome
<1>2. CallInv /\ [CallNext]_<<vars, callVars>> => CallInv'
    <2> SUFFICES ASSUME CallInv, [CallNext]_<<vars, callVars>>
                 PROVE  CallInv'
        OBVIOUS
    <2>1. ASSUME NEW a \in Adapters, NEW reply \in Reply,
                 NEW keyEnabled \in BOOLEAN, NEW ttlOk \in BOOLEAN,
                 NEW pipeline \in BOOLEAN, Ask(a, reply, keyEnabled, ttlOk, pipeline)
          PROVE  CallInv'
        BY <2>1, AskKeeps
    <2>2. ASSUME NEW estimate \in Estimates, Hit(estimate) PROVE CallInv'
        BY <2>2, HitKeeps
    <2>3. CASE Forget
        BY <2>3 DEF Forget, CallInv, CachedKept, HitSavesWhatWasBilled,
                    PaidIsAnswered
    <2>4. CASE UNCHANGED callVars
        BY <2>4 DEF callVars, CallInv, CachedKept, HitSavesWhatWasBilled,
                    PaidIsAnswered
    <2> QED BY <2>1, <2>2, <2>3, <2>4 DEF CallNext
<1> QED BY <1>1, <1>2, PTL DEF CallSpec

\* Whatever a provider reports of an answer, and whichever adapter takes it,
\* a hit claims of each reported count what the answer was billed
\* (chat of the adapters, chat_completion).
THEOREM HitsAreHonest == CallSpec => []HitSavesWhatWasBilled
<1>1. CallInv => HitSavesWhatWasBilled BY DEF CallInv
<1> QED BY <1>1, CallInvariant, PTL

\* Whatever the provider reports and the client asks, an answer that was
\* billed reaches who paid for it, unless its usage is null or the ttl_seconds
\* of the request is no number, and a hit fails for its usage alone (chat of
\* the adapters, chat_completion, chat_completions).
THEOREM PaidAnswersArrive == CallSpec => []PaidIsAnswered
<1>1. CallInv => PaidIsAnswered BY DEF CallInv
<1> QED BY <1>1, CallInvariant, PTL

\* A client that asks for single answers as well leaves the streams as they
\* are: what holds of Spec holds of CallSpec (chat_completions).
THEOREM CallsAreStreams == CallSpec => Spec
<1>1. CallInit => Init BY DEF CallInit
<1>2. [CallNext]_<<vars, callVars>> => [Next]_vars
    BY DEF CallNext, vars
<1> QED BY <1>1, <1>2, PTL DEF CallSpec, Spec
=============================================================================
