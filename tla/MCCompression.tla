---------------------------- MODULE MCCompression ----------------------------
(***************************************************************************)
(* Small documents with every string and key the codec treats in its own   *)
(* way, at every place of a document, and prompts of several segments.     *)
(***************************************************************************)
EXTENDS CompressionOfJSON

(* Strings: plain, numeric, reserved, with every scanner's separator, with *)
(* quotes and backslashes, with line breaks, long, URLs and time stamps.   *)
Url(s) == <<"http", ":", "host/">> \o s
Strings ==
    {<<>>, <<"w">>, <<"7">>, <<"null">>, <<"space", "w">>, <<"w", ",", "w">>, <<"-", "w">>,
     <<"=">>, <<":">>, <<"#", "1", "space", "w">>, <<"[", "1", "]">>, <<"{", "}">>, <<"$", "0">>,
     <<"w", Q>>, <<Q, ",", Q>>, <<"w", B>>, <<"w", "tab", "w">>, <<"w", "newline">>,
     <<"w", "vtab", "w">>, <<"w", "linesep">>, <<"W">>, <<"W", "vtab", "W">>,
     Url(<<"w">>), Url(<<"x">>), Url(<<",">>), Url(<<"x", "space">>), Url(<<"w", "/", "x">>),
     Url(<<",", "/">>), Url(<<"vtab", "/">>), <<"dateT", "7">>, <<"dateT", ",">>}
Numbers == {<<"num", <<"7">>>>, <<"num", <<"-", "7", ".", "7">>>>, <<"num", <<"NaN">>>>}
Primitives == {Str(s) : s \in Strings} \cup Numbers \cup {Null}
SomePrimitives ==
    {Str(s) : s \in {<<"w">>, <<>>, <<"w", Q>>, <<"W">>, Url(<<"w">>), Url(<<",">>),
                     Url(<<",", "/">>), <<"dateT", "7">>}}
Keys ==
    {<<>>, <<"w">>, <<"w", ".", "w">>, <<"w", "space", "w">>, <<"w", ",">>, <<"[">>, <<"$", "0">>,
     <<"w", B>>, <<"w", Q>>, <<"=">>, <<":">>, <<"w", "vtab", "w">>, <<"linesep">>, <<"null">>}
SomeKeys == {<<"w">>, <<>>, <<"=">>, <<"w", ".", "w">>, <<"w", ",">>}
x == <<"x">>
w == Str(<<"w">>)

Obj(k, v) == Dict(<<<<k, v>>>>)
Obj2(k, v, l, u) == Dict(<<<<k, v>>, <<l, u>>>>)

Objects ==
    {Obj(k, v) : k \in Keys, v \in Primitives \cup {Dict(<<>>), List(<<>>)}}
    \cup {Obj2(k, v, x, u) : k \in Keys, v \in SomePrimitives, u \in Primitives}
InlineArrays ==
    {List(<<v>>) : v \in Primitives} \cup {List(<<v, u>>) : v \in Primitives, u \in Primitives}
    \cup {List(<<u, v, t>>) : u \in SomePrimitives, v \in SomePrimitives, t \in SomePrimitives}
Tables ==
    {List(<<Obj(k, v), Obj(k, u)>>) : k \in Keys, v \in Primitives, u \in {w, Str(Url(<<"x">>))}}
    \cup {List(<<Obj2(k, v, x, w), Obj2(x, v, k, w)>>) :
            k \in Keys, v \in {w, Str(<<"W">>), Dict(<<>>)}}
    \cup {List(<<Obj2(k, Obj(l, v), x, u)>>) :
            k \in Keys, l \in Keys, v \in {Str(<<"W">>), Dict(<<>>)}, u \in {w, Str(<<"W">>)}}

(* Blocks inside blocks: each kind of value under a key, after a dash, and *)
(* followed by a sibling.                                                  *)
Inner ==
    {w, List(<<>>), Dict(<<>>), List(<<w, Null>>)}
    \cup {Obj(k, v) : k \in SomeKeys, v \in {w, Dict(<<>>), List(<<w>>), Obj(x, w)}}
    \cup {List(<<Obj(k, v)>>) : k \in SomeKeys, v \in {w, List(<<w>>), Obj(x, w)}}
Nested ==
    {Obj2(k, a, x, b) : k \in SomeKeys, a \in Inner, b \in Inner}
    \cup {List(<<a, b>>) : a \in Inner, b \in Inner}
    \cup {Obj2(x, List(<<a, b>>), <<"y">>, w) : a \in Inner, b \in Inner}
    \cup {List(<<Obj2(x, a, <<"y">>, b), w>>) : a \in Inner, b \in Inner}

Docs == Objects \cup InlineArrays \cup Tables \cup Nested

(* Segments and prompts: every document alone; and mixed prompts of prose  *)
(* and documents JTF shortens, lengthens, cannot encode or is not tried on.*)
Prose == [kind |-> "prose"]
Json(doc, big, json, jtf) ==
    [kind |-> "json", doc |-> doc, big |-> big, json |-> json, jtf |-> jtf]
PlainDoc == List(<<Obj(x, w), Obj(x, w)>>)
Unencodable == List(<<Obj(<<"w", ".", "w">>, w)>>)
MixedSegments ==
    {Prose, Json(PlainDoc, TRUE, 5, 2), Json(PlainDoc, TRUE, 2, 4), Json(PlainDoc, TRUE, 3, 3),
     Json(Unencodable, TRUE, 5, 1), Json(PlainDoc, FALSE, 3, 1)}
Msg(kind, text) == [kind |-> kind, text |-> text]
MixedTexts ==
    {<<a, b>> : a \in MixedSegments, b \in MixedSegments}
    \cup {<<Prose, a, b, Prose>> : a \in MixedSegments, b \in MixedSegments}
    \cup {<<a, b, a>> : a \in MixedSegments, b \in MixedSegments}

SinglePrompts == {<<Msg("plain", <<Json(doc, TRUE, 2, 1)>>)>> : doc \in Docs}
MixedPrompts ==
    {<<Msg(kind, text), Msg("plain", <<Prose, a>>)>> :
        kind \in {"plain", "parts"}, text \in MixedTexts, a \in MixedSegments}
MCDocuments == Docs \cup {PlainDoc, Unencodable}
MCPrompts == SinglePrompts \cup MixedPrompts

=============================================================================
