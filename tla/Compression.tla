---------------------------- MODULE Compression ----------------------------
(***************************************************************************)
(* JTF in the request path (src/src/llm_gateway/jtf_ops.py): the scan that *)
(* tells every request what compression would save, the opt-in             *)
(* compression of the forwarded prompt, and the reader upstream that       *)
(* decodes the blocks.                                                     *)
(*                                                                         *)
(* A message is [kind, text]: "plain" content is a string, "parts" a list  *)
(* of content parts.  A text is a sequence of segments: prose, or a JSON   *)
(* document [kind, doc, big, json, jtf] with the tokens its compact JSON   *)
(* and its JTF form cost; big says it has the 40 characters of             *)
(* _MIN_JSON_CHARS.  In a forwarded text a segment may also be a JTF block.*)
(* What the codec makes of a document is left to the constants, which      *)
(* CompressionOfJSON takes from JTF.                                       *)
(***************************************************************************)
EXTENDS Integers, Sequences, FiniteSets, FiniteSetsExt

CONSTANTS
    JSONDocuments,      \* what json.loads may give
    Prompts,            \* the message lists requests may carry
    CanEncode(_),       \* encode does not raise on the document
    Dictionaries(_),    \* those encode may build for the document
    Encoded(_, _),      \* the document, encoded with a dictionary
    Decoded(_)          \* what decode makes of an encoded document

VARIABLES
    messages,   \* the messages of the request
    opted,      \* the request carries X-JTF-Compress: true
    analysis,   \* what the scan found
    forwarded,  \* the messages sent upstream
    realized,   \* what the compression did
    received,   \* the messages as the upstream reads them
    phase       \* "analyze", "compress", "forward" or "done"

vars == <<messages, opted, analysis, forwarded, realized, received, phase>>

Segment ==
    [kind : {"prose"}]
    \cup [kind : {"json"}, doc : JSONDocuments, big : BOOLEAN, json : Nat, jtf : Nat]

Message == [kind : {"plain", "parts"}, text : Seq(Segment)]

ASSUME PromptsAssumption == Prompts \subseteq Seq(Message)

JTFAnalysis == [json_blocks |-> 0, original_tokens |-> 0, jtf_tokens |-> 0]

Counted(found, segment) ==
    [json_blocks |-> found.json_blocks + 1,
     original_tokens |-> found.original_tokens + segment.json,
     jtf_tokens |-> found.jtf_tokens + segment.jtf]

SavedTokens(found) ==
    Max({0, found.original_tokens - found.jtf_tokens})

\* The positions of the documents _iter_json_candidates yields: how it finds
\* them in a string is in the segments already.
JsonCandidates(text) == {i \in DOMAIN text : text[i].kind = "json" /\ text[i].big}

\* Seeded bug: a document is counted before it is known to encode.
AnalyzeText_CountsFirst(text, found) ==
    LET scan[i \in 0..Len(text)] ==
            IF i = 0 THEN found
            ELSE IF i \in JsonCandidates(text) THEN Counted(scan[i - 1], text[i])
                                               ELSE scan[i - 1]
    IN  scan[Len(text)]

\* What is found up to a text, with the documents of the text.
AnalyzeText(text, found) ==
    LET scan[i \in 0..Len(text)] ==
            IF i = 0 THEN found
            ELSE IF i \in JsonCandidates(text) /\ CanEncode(text[i].doc)
                 THEN Counted(scan[i - 1], text[i])
                 ELSE scan[i - 1]
    IN  scan[Len(text)]

AnalyzeMessages(ms) ==
    LET scan[i \in 0..Len(ms)] ==
            IF i = 0 THEN JTFAnalysis ELSE AnalyzeText(ms[i].text, scan[i - 1])
    IN  scan[Len(ms)]

-----------------------------------------------------------------------------

\* The documents of a text that compression replaces.
Wins(text) ==
    {i \in JsonCandidates(text) : CanEncode(text[i].doc) /\ text[i].jtf < text[i].json}

Block(doc, dict) == [kind |-> "jtf", encoded |-> Encoded(doc, dict)]

\* What lies between the last replaced span and the document is copied.
Replaced(acc, text, i, dict) ==
    [rebuilt |-> acc.rebuilt \o SubSeq(text, acc.cursor, i - 1)
                 \o <<Block(text[i].doc, dict[text[i].doc])>>,
     cursor |-> i + 1,
     found |-> Counted(acc.found, text[i])]

\* What lies after the last replaced span is copied.
Copied(text, acc) ==
    [text |-> acc.rebuilt \o SubSeq(text, acc.cursor, Len(text)), found |-> acc.found]

\* Seeded bug: the cursor passes a document that is left alone.
CompressText_DropsSkipped(text, found, dict) ==
    LET scan[i \in 0..Len(text)] ==
            IF i = 0 THEN [rebuilt |-> <<>>, cursor |-> 1, found |-> found]
            ELSE IF i \in Wins(text) THEN Replaced(scan[i - 1], text, i, dict)
            ELSE IF i \in JsonCandidates(text) THEN [scan[i - 1] EXCEPT !.cursor = i + 1]
            ELSE scan[i - 1]
    IN  Copied(text, scan[Len(text)])

\* One text rebuilt, with dict[d] as the dictionary of document d.
CompressText(text, found, dict) ==
    LET scan[i \in 0..Len(text)] ==
            IF i = 0 THEN [rebuilt |-> <<>>, cursor |-> 1, found |-> found]
            ELSE IF i \in Wins(text) THEN Replaced(scan[i - 1], text, i, dict)
                                           ELSE scan[i - 1]
    IN  Copied(text, scan[Len(text)])

\* One more message: only string content is compressed.
Rebuilt(acc, m, dict) ==
    IF m.kind = "plain"
    THEN LET new == CompressText(m.text, acc.found, dict)
         IN  [ms |-> Append(acc.ms, [m EXCEPT !.text = new.text]), found |-> new.found]
    ELSE [ms |-> Append(acc.ms, m), found |-> acc.found]

CompressMessages(ms, dict) ==
    LET scan[i \in 0..Len(ms)] ==
            IF i = 0 THEN [ms |-> <<>>, found |-> JTFAnalysis]
                     ELSE Rebuilt(scan[i - 1], ms[i], dict)
    IN  scan[Len(ms)]

Documents(ms) ==
    UNION {{ms[i].text[j].doc : j \in {k \in DOMAIN ms[i].text : ms[i].text[k].kind = "json"}} :
           i \in DOMAIN ms}

\* What a JTF-aware reader makes of the forwarded messages.  The code marks
\* where a block begins (JTF_BLOCK_PREFIX) and not where it ends: the reader is
\* given the ends, and one that had only the marker would read on into prose.
ReadMessages(ms) ==
    LET Read(segment) ==
            IF segment.kind = "jtf"
            THEN [kind |-> "read", doc |-> Decoded(segment.encoded)] ELSE segment
    IN  [i \in DOMAIN ms |->
            [ms[i] EXCEPT !.text = [j \in DOMAIN ms[i].text |-> Read(ms[i].text[j])]]]

-----------------------------------------------------------------------------

Init ==
    /\ messages \in Prompts
    /\ opted \in BOOLEAN
    /\ analysis = JTFAnalysis
    /\ forwarded = <<>>
    /\ realized = JTFAnalysis
    /\ received = <<>>
    /\ phase = "analyze"

Analyze ==
    /\ phase = "analyze"
    /\ analysis' = AnalyzeMessages(messages)
    /\ forwarded' = messages
    /\ phase' = IF opted THEN "compress" ELSE "forward"
    /\ UNCHANGED <<messages, opted, realized, received>>

Compress ==
    /\ phase = "compress"
    /\ \E dict \in [Documents(messages) -> UNION {Dictionaries(d) : d \in Documents(messages)}] :
        /\ \A d \in Documents(messages) : dict[d] \in Dictionaries(d)
        /\ \E result \in {CompressMessages(messages, dict)} :
            /\ forwarded' = result.ms
            /\ realized' = result.found
    /\ phase' = "forward"
    /\ UNCHANGED <<messages, opted, analysis, received>>

Forward ==
    /\ phase = "forward"
    /\ received' = ReadMessages(forwarded)
    /\ phase' = "done"
    /\ UNCHANGED <<messages, opted, analysis, forwarded, realized>>

Next == Analyze \/ Compress \/ Forward

Spec == Init /\ [][Next]_vars

-----------------------------------------------------------------------------
(* Properties *)

\* Every segment of the request and what became of it upstream.
Segments == UNION {{i} \X DOMAIN messages[i].text : i \in DOMAIN messages}
Was(at) == messages[at[1]].text[at[2]]
Became(at) == received[at[1]].text[at[2]]

\* Compression replaces documents where they stand and nothing else: prose,
\* small or unprofitable documents and content parts go out as they came in,
\* and a request that is told nothing was compressed is forwarded unchanged.
OnlyBlocksAreReplaced ==
    phase = "done" =>
        /\ Len(received) = Len(messages)
        /\ \A i \in DOMAIN messages : Len(received[i].text) = Len(messages[i].text)
        /\ \A at \in Segments :
                Became(at) # Was(at) => Became(at).kind = "read" /\ Was(at).kind = "json"
        /\ realized.json_blocks = 0 => forwarded = messages
        /\ realized.json_blocks
              = Cardinality({at \in Segments : Became(at).kind = "read"})

\* The potential savings told for a prompt of plain strings are a floor of
\* what compressing it saves: a document JTF makes longer is counted against
\* the potential, and left alone by the compression.
PotentialIsAFloor ==
    opted /\ phase = "done" /\ (\A i \in DOMAIN messages : messages[i].kind = "plain")
        => SavedTokens(analysis) <= SavedTokens(realized)

=============================================================================
