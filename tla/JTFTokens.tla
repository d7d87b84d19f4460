------------------------------ MODULE JTFTokens ------------------------------
(***************************************************************************)
(* The tokens of the JTF codec (src/src/llm_gateway/_vendor/jtf/core.py):  *)
(* how a string, a number or a key is written, with the value dictionary,  *)
(* and the scanners that find and read tokens again on a line.             *)
(*                                                                         *)
(* A text is a sequence of glyphs.  A glyph stands for a class of          *)
(* characters the codec tells apart: one of its punctuation marks, a       *)
(* digit, a kind of blank, or a word ("w" short, "W" long enough to be     *)
(* worth a dictionary entry; a URL begins with "http", ":" and "host/", a  *)
(* time stamp with "dateT", the date up to its T).                         *)
(*                                                                         *)
(* A value is a pair <<kind, content>>: "const", "num" and "str" hold      *)
(* their text, "list" a sequence of values, "dict" a sequence of           *)
(* <<key, value>> pairs in insertion order.  "error" is an exception.      *)
(***************************************************************************)
EXTENDS Integers, Sequences, FiniteSets, SequencesExt

Q == "quote"
B == "backslash"

\* Glyphs str.strip() removes and glyphs str.splitlines() breaks a line at.
\* json.dumps(.., ensure_ascii=False) escapes all of them but "linesep"
\* (U+2028, U+2029, U+0085); _SAFE_RE refuses none but tab and newline.
Blanks == {"space", "tab", "newline", "vtab", "linesep"}
LineBreaks == {"newline", "vtab", "linesep"}

Digit == <<"0", "1", "2", "3", "4">>
Digits == ToSet(Digit) \cup {"7"}
Numeral(n) == Digit[n + 1]
ValueOf(g) == CHOOSE n \in 0 .. 4 : Numeral(n) = g

Null == <<"const", <<"null">>>>
Error == <<"error", <<>>>>
Str(s) == <<"str", s>>
List(vs) == <<"list", vs>>
Dict(fields) == <<"dict", fields>>

IsPrim(v) == v[1] \in {"const", "num", "str"}
IsDict(v) == v[1] = "dict"

-----------------------------------------------------------------------------
(* Texts *)

Piece(s, from, to) == SubSeq(s, from, to)
From(s, i) == SubSeq(s, i, Len(s))
StartsWith(s, prefix) == IsPrefix(prefix, s)

Strip(s) ==
    LET solid == {i \in DOMAIN s : s[i] \notin Blanks}
    IN  IF solid = {} THEN <<>> ELSE Piece(s, Min(solid), Max(solid))

Join(ss, glyph) ==
    FlattenSeq([i \in DOMAIN ss |-> IF i = 1 THEN ss[i] ELSE <<glyph>> \o ss[i]])

\* A finite set of positions in order.
InOrder(positions) ==
    [n \in 1 .. Cardinality(positions) |->
        CHOOSE i \in positions : Cardinality({j \in positions : j <= i}) = n]

\* The pieces of s between the positions in cuts.
CutAt(s, cuts) ==
    LET at == <<0>> \o InOrder(cuts) \o <<Len(s) + 1>>
    IN  [i \in 1 .. Cardinality(cuts) + 1 |-> Piece(s, at[i] + 1, at[i + 1] - 1)]

SplitOn(s, glyphs) == CutAt(s, {i \in DOMAIN s : s[i] \in glyphs})

\* json.dumps of a string, and json.loads of a token that starts with a quote.
Escapes == [g \in {Q, B, "tab", "newline", "vtab"} |->
    CASE g = "tab" -> "t" [] g = "newline" -> "n" [] g = "vtab" -> "v" [] OTHER -> g]

Written(g) == IF g \in DOMAIN Escapes THEN <<B, Escapes[g]>> ELSE <<g>>

Dumps(s) == <<Q>> \o FlattenSeq([i \in DOMAIN s |-> Written(s[i])]) \o <<Q>>

IsEscape(s, i) == s[i] = B /\ i < Len(s) /\ s[i + 1] \in Range(Escapes)

Unescaped(s) ==
    LET from[i \in 1 .. Len(s) + 1] ==
            IF i > Len(s) THEN <<>>
            ELSE IF IsEscape(s, i)
                 THEN <<CHOOSE g \in DOMAIN Escapes : Escapes[g] = s[i + 1]>> \o from[i + 2]
                 ELSE <<s[i]>> \o from[i + 1]
    IN  from[1]

Loads(t) ==
    LET s == Unescaped(Piece(t, 2, Len(t) - 1))
    IN  IF Dumps(s) = t THEN Str(s) ELSE Error

-----------------------------------------------------------------------------
(* Encoder: tokens *)

Reserved == {<<"null">>, <<"true">>, <<"false">>}
Unsafe == {"newline", ",", "=", ":", "|", Q, B, "#", "[", "]", "{", "}", "tab", "$", "@"}

Safe(s) ==
    /\ s # <<>>
    /\ s \notin Reserved
    /\ s = Strip(s)
    /\ s[1] # "-"
    /\ ToSet(s) \cap Unsafe = {}

LooksNumeric(s) ==
    LET t == Strip(s)
        u == IF StartsWith(t, <<"-">>) THEN Tail(t) ELSE t
    IN  /\ ToSet(u) \subseteq Digits \cup {"."}
        /\ ToSet(u) \cap Digits # {}
        /\ Cardinality({i \in DOMAIN u : u[i] = "."}) <= 1

Es(s) == IF Safe(s) THEN s ELSE Dumps(s)

\* Seeded bug: a string that reads as a number goes bare.
Ep_Bare(v) == IF v[1] = "str" THEN Es(v[2]) ELSE v[2]

Ep(v) ==
    CASE v[1] # "str" -> v[2]
      [] v[1] = "str" /\ LooksNumeric(v[2]) -> Dumps(v[2])
      [] OTHER -> Es(v[2])

-----------------------------------------------------------------------------
(* Encoder: the value dictionary *)

Occurrences(s, ss) == Cardinality({i \in DOMAIN ss : ss[i] = s})

IsURL(s) == StartsWith(s, <<"http", ":", "host/">>)
IsTimestamp(s) == StartsWith(s, <<"dateT">>)
Slashes(s) == {i \in DOMAIN s : s[i] \in {"host/", "/"}}

\* A URL up to its last slash, when something follows; the date of a time.
NotePrefix(s) ==
    CASE IsURL(s) /\ Max(Slashes(s)) < Len(s) -> {Piece(s, 1, Max(Slashes(s)))}
      [] IsTimestamp(s) -> {<<"dateT">>}
      [] OTHER -> {}

\* Values and prefixes the break-even analysis may admit.  What each saves
\* depends on lengths that glyphs do not have, so which of the candidates
\* are admitted is left open; only long text ever pays.
Worthwhile(s) == ToSet(s) \cap {"W", "host/", "dateT"} # {}
RepeatedValues(ss) == {s \in ToSet(ss) : Occurrences(s, ss) >= 2 /\ Worthwhile(s)}
SharedPrefixes(ss, exact) ==
    {p \in UNION {NotePrefix(s) : s \in ToSet(ss)} :
        /\ Cardinality({i \in DOMAIN ss : p \in NotePrefix(ss[i])}) >= 2
        /\ Cardinality({s \in ToSet(ss) \ exact : StartsWith(s, p)}) >= 2}

Entry(s, isPrefix) == [value |-> s, is_prefix |-> isPrefix]

\* The dictionaries there may be for the strings of a value: entry i is
\* named by the token $(i - 1).
DictionariesOf(ss) ==
    LET Entries(strings, isPrefix) ==
            LET seq == SetToSeq(strings)
            IN  [i \in DOMAIN seq |-> Entry(seq[i], isPrefix)]
    IN  UNION {{Entries(exact, FALSE) \o Entries(prefixes, TRUE) :
                    prefixes \in SUBSET SharedPrefixes(ss, exact)} :
                exact \in SUBSET RepeatedValues(ss)}

Token(i) == <<"$", Numeral(i - 1)>>

EncStr(s, dict) ==
    LET exact == {i \in DOMAIN dict : ~dict[i].is_prefix /\ dict[i].value = s}
        shared == {i \in DOMAIN dict : dict[i].is_prefix /\ StartsWith(s, dict[i].value)}
        longest == CHOOSE i \in shared : \A j \in shared :
                       Len(dict[j].value) <= Len(dict[i].value)
    IN  CASE exact # {} -> Token(Min(exact))
          [] exact = {} /\ shared # {} ->
                <<"{">> \o Token(longest) \o <<"}">> \o From(s, Len(dict[longest].value) + 1)
          [] OTHER -> Ep(Str(s))

EncVal(v, dict) == IF v[1] = "str" THEN EncStr(v[2], dict) ELSE Ep(v)

\* The values of an inline array or of a row, with commas or tabs between.
EncVals(vs, dict, glyph) == Join([i \in DOMAIN vs |-> EncVal(vs[i], dict)], glyph)

\* The line of an array of primitives.
ArrayLine(vs, dict) ==
    <<"[", Numeral(Len(vs)), "]", "space">> \o EncVals(vs, dict, ",")

\* The line of a table: its size and the names of its columns.
TabularHeader(paths) ==
    IF \A p \in ToSet(paths) : Safe(p) /\ "space" \notin ToSet(p)
    THEN Join(paths, "space")
    ELSE <<"csv:">> \o Join([i \in DOMAIN paths |-> Es(paths[i])], ",")

TableLine(paths, size) == <<"#", Numeral(size), "space">> \o TabularHeader(paths)

\* The first line of an array's item.
DashLine(text) == <<"-", "space">> \o text

\* The line of an object's field.
FieldLine(key, v, dict) == Es(key) \o <<"=">> \o EncVal(v, dict)

-----------------------------------------------------------------------------
(* Decoder: scanners *)

QuotesUpTo(s, i) == Cardinality({j \in 1 .. i : s[j] = Q})
InQuotes(s, i) == QuotesUpTo(s, i - 1) % 2 = 1

\* A doubled quote inside quotes becomes one.
Undoubled(t) ==
    LET second(i) == i > 1 /\ t[i] = Q /\ t[i - 1] = Q /\ InQuotes(t, i - 1)
        kept == InOrder({i \in DOMAIN t : ~second(i)})
    IN  [i \in DOMAIN kept |-> t[kept[i]]]

\* Commas outside quotes split.  The scan knows nothing of backslashes.
CsvSplit(s) ==
    LET fields == CutAt(s, {i \in DOMAIN s : s[i] = "," /\ ~InQuotes(s, i)})
    IN  [i \in DOMAIN fields |-> Undoubled(fields[i])]

\* The quotes a scan for a separator takes for one: not those right after a
\* backslash.
Toggles(s, i) == {j \in 1 .. i : s[j] = Q /\ (j = 1 \/ s[j - 1] # B)}

\* The first glyph of a kind outside quotes, 0 when there is none.
FindOutside(s, glyph) ==
    LET found == {i \in DOMAIN s : s[i] = glyph /\ Cardinality(Toggles(s, i)) % 2 = 0}
    IN  IF found = {} THEN 0 ELSE Min(found)

FindEq(s) == FindOutside(s, "=")
FindColon(s) == FindOutside(s, ":")

IsTabHeader(s) == Len(s) > 3 /\ s[1] = "#" /\ s[2] \in Digits /\ s[3] = "space"
IsArrHeader(s) == Len(s) > 2 /\ s[1] = "[" /\ s[2] \in Digits /\ s[3] = "]"

\* What follows the size on the line of an array or a table.
AfterSize(s) == Strip(From(s, 4))

\* What follows an item's dash.
AfterDash(s) == Strip(Tail(s))

LooksLikeObjLine(s) ==
    LET seps == {FindEq(s), FindColon(s)} \ {0}
    IN  /\ s[1] \notin {"[", "-", "#", "$"}
        /\ seps # {}
        /\ ToSet(Strip(Piece(s, 1, Min(seps) - 1)))
              \cap {",", "[", "]", "{", "}", "tab", "$"} = {}

\* How an object's line is taken apart: "key: block" or "key=value".
OpensBlock(s) == FindEq(s) = 0 \/ (FindColon(s) # 0 /\ FindColon(s) < FindEq(s))
Separator(s) == IF OpensBlock(s) THEN FindColon(s) ELSE FindEq(s)
KeyToken(s) == Piece(s, 1, Separator(s) - 1)
ValueToken(s) == Strip(From(s, Separator(s) + 1))

-----------------------------------------------------------------------------
(* Decoder: tokens *)

DecStrTok(tok) ==
    LET t == Strip(tok) IN IF StartsWith(t, <<Q>>) THEN Loads(t) ELSE Str(t)

DecPrimBase(t) ==
    CASE t \in Reserved -> <<"const", t>>
      [] t = <<"{", "}">> -> Dict(<<>>)
      [] t = <<"[", "]">> -> List(<<>>)
      [] LooksNumeric(t) -> <<"num", t>>
      [] OTHER -> DecStrTok(t)

\* A token or a prefixed token of the dictionary known (a set of
\* [token, value, is_prefix]), or else what the text is otherwise.
Resolve(tok, known, otherwise) ==
    LET t == Strip(tok)
        close == {i \in DOMAIN t : t[i] = "}"}
        name == IF StartsWith(t, <<"{", "$">>) /\ close # {}
                THEN Piece(t, 2, Min(close) - 1) ELSE t
        hits(isPrefix) == {e \in known : e.token = name /\ e.is_prefix = isPrefix}
        Value(es) == (CHOOSE e \in es : TRUE).value
    IN  CASE StartsWith(t, <<"$">>) -> Str(IF hits(FALSE) = {} THEN t ELSE Value(hits(FALSE)))
          [] StartsWith(t, <<"{", "$">>) /\ hits(TRUE) # {} ->
                Str(Value(hits(TRUE)) \o From(t, Min(close) + 1))
          [] OTHER -> otherwise

DecPrim(tok, known) == Resolve(tok, known, DecPrimBase(Strip(tok)))
DecStr(tok, known) == Resolve(tok, known, DecStrTok(tok))

\* The columns of a table, by the text behind its size.
ColumnNames(keys) ==
    LET csv == CsvSplit(Tail(keys))
        bare == SplitOn(keys, {"space"})
    IN  IF keys[1] = "csv:" THEN [i \in DOMAIN csv |-> DecStrTok(csv[i])]
        ELSE [i \in DOMAIN bare |-> Str(bare[i])]

DecPrims(toks, known) == [i \in DOMAIN toks |-> DecPrim(toks[i], known)]

\* A dictionary line ends at the first break inside its value; what is left
\* of it is no entry and is skipped.
DictionaryEntry(i, entry) ==
    LET written == SplitOn(Es(entry.value), LineBreaks)[1]
        read == DecStrTok(written)
    IN  [token |-> Token(i), value |-> read[2], is_prefix |-> entry.is_prefix,
         failed |-> read = Error]

Known(dict) == {DictionaryEntry(i, dict[i]) : i \in DOMAIN dict}

-----------------------------------------------------------------------------
(* Strings and keys the scanners read back, whatever the dictionary.  Each  *)
(* exclusion is a place where a scanner meets a glyph the encoder left      *)
(* bare, or does not see through a backslash.                               *)

Unbroken(token) == ToSet(token) \cap LineBreaks = {}

\* A string that a dictionary may shorten: what follows the prefix goes bare.
MayLosePrefix(s) == IsURL(s) \/ IsTimestamp(s)

PlainString(s) ==
    /\ Unbroken(Ep(Str(s)))
    /\ MayLosePrefix(s) => s = Strip(s) /\ ToSet(s) \cap (LineBreaks \cup {"tab"}) = {}

PlainPrim(v) ==
    CASE v[1] = "str" -> PlainString(v[2])
      [] v[1] = "num" -> LooksNumeric(v[2]) /\ v[2] = Strip(v[2])
      [] OTHER -> v \in {<<"const", t>> : t \in Reserved}

\* An element of an inline array, which CsvSplit reads.
PlainElement(v) ==
    /\ PlainPrim(v)
    /\ v[1] = "str" =>
        /\ Q \notin ToSet(v[2])
        /\ MayLosePrefix(v[2]) => "," \notin ToSet(v[2])

\* A key of an object line, which LooksLikeObjLine and FindOutside read.
PlainKey(key) ==
    /\ Unbroken(Es(key))
    /\ ToSet(key) \cap {",", "[", "]", "{", "}", "$"} = {}
    /\ key = <<>> \/ Last(key) # B
=============================================================================
