-------------------------------- MODULE JTF --------------------------------
(***************************************************************************)
(* The JTF codec (src/src/llm_gateway/_vendor/jtf/core.py) over its tokens:*)
(* the encoder of documents, with their value dictionary, and the parsers  *)
(* of the decoder, as operators.                                           *)
(***************************************************************************)
EXTENDS JTFTokens

(* Encoder: the value dictionary *)

RECURSIVE CollectValues(_)
CollectValues(v) ==
    CASE v[1] = "str" -> <<v[2]>>
      [] v[1] = "list" -> FlattenSeq([i \in DOMAIN v[2] |-> CollectValues(v[2][i])])
      [] v[1] = "dict" -> FlattenSeq([i \in DOMAIN v[2] |-> CollectValues(v[2][i][2])])
      [] OTHER -> <<>>

\* The dictionaries _build_dictionary may return for a value.
BuildDictionary(v) == DictionariesOf(CollectValues(v))

-----------------------------------------------------------------------------
(* Encoder: tabular arrays *)

RECURSIVE HoldsList(_)
HoldsList(v) == v[1] = "list" \/ (IsDict(v) /\ \E i \in DOMAIN v[2] : HoldsList(v[2][i][2]))

\* The dotted paths to the leaves of an object without lists.
RECURSIVE DottedPaths(_, _)
DottedPaths(fields, prefix) ==
    FlattenSeq([i \in DOMAIN fields |->
        LET key == fields[i][1]
            val == fields[i][2]
            path == IF prefix = <<>> THEN key ELSE prefix \o <<".">> \o key
        IN  IF IsPrim(val) THEN <<path>> ELSE DottedPaths(val[2], path)])

Paths(v) == DottedPaths(v[2], <<>>)

IsNestedUniform(arr) ==
    /\ arr # <<>>
    /\ \A i \in DOMAIN arr : IsDict(arr[i]) /\ ~HoldsList(arr[i])
    /\ Paths(arr[1]) # <<>>
    /\ \A i \in DOMAIN arr : ToSet(Paths(arr[i])) = ToSet(Paths(arr[1]))

RECURSIVE GetPath(_, _)
GetPath(v, parts) ==
    IF parts = <<>> THEN v
    ELSE LET at == IF IsDict(v) THEN {i \in DOMAIN v[2] : v[2][i][1] = parts[1]} ELSE {}
         IN  IF at = {} THEN Error ELSE GetPath(v[2][Max(at)][2], Tail(parts))

Cell(item, path) == GetPath(item, SplitOn(path, {"."}))

\* encode() returns: no cell of a tabular array is a path that leads nowhere
\* (KeyError) or to an object.
RECURSIVE Encodable(_)
Encodable(v) ==
    CASE v[1] = "list" ->
            IF IsNestedUniform(v[2])
            THEN \A i \in DOMAIN v[2] : \A p \in ToSet(Paths(v[2][1])) : IsPrim(Cell(v[2][i], p))
            ELSE \A i \in DOMAIN v[2] : Encodable(v[2][i])
      [] v[1] = "dict" -> \A i \in DOMAIN v[2] : Encodable(v[2][i][2])
      [] OTHER -> TRUE

-----------------------------------------------------------------------------
(* Encoder: objects and arrays, as lines of an indentation and a text *)

Line(ind, text) == [ind |-> ind, text |-> text]
Deeper(by, lines) == [i \in DOMAIN lines |-> Line(by + lines[i].ind, lines[i].text)]

RECURSIVE EncObj(_, _, _)
RECURSIVE EncArray(_, _, _)

EncField(key, v, depth, dict) ==
    LET head(sep, text) == <<Line(depth, Es(key) \o <<sep>> \o text)>>
        arr == EncArray(v[2], depth, dict)
    IN  CASE IsPrim(v) -> <<Line(depth, FieldLine(key, v, dict))>>
          [] v[1] = "list" -> head(IF Len(arr) = 1 THEN "=" ELSE ":", arr[1].text) \o Tail(arr)
          [] v = Dict(<<>>) -> head("=", <<"{", "}">>)
          [] OTHER -> head(":", <<>>) \o EncObj(v[2], depth + 1, dict)

EncObj(fields, depth, dict) ==
    IF fields = <<>> THEN <<Line(0, <<"{", "}">>)>>
    ELSE FlattenSeq([i \in DOMAIN fields |-> EncField(fields[i][1], fields[i][2], depth, dict)])

EncItem(v, dict) ==
    CASE IsPrim(v) -> <<Line(0, EncVal(v, dict))>>
      [] v[1] = "list" -> EncArray(v[2], 0, dict)
      [] OTHER -> EncObj(v[2], 0, dict)

EncArray(arr, depth, dict) ==
    LET size == Numeral(Len(arr))
        paths == Paths(arr[1])
        Row(item) == EncVals([j \in DOMAIN paths |-> Cell(item, paths[j])], dict, "tab")
        Dashed(lines) == <<Line(depth + 1, DashLine(lines[1].text))>>
                         \o Deeper(depth + 2, Tail(lines))
    IN  CASE arr = <<>> -> <<Line(0, <<"[", "0", "]">>)>>
          [] arr # <<>> /\ \A i \in DOMAIN arr : IsPrim(arr[i]) ->
                <<Line(0, ArrayLine(arr, dict))>>
          [] IsNestedUniform(arr) ->
                <<Line(0, TableLine(paths, Len(arr)))>>
                \o [i \in DOMAIN arr |-> Line(depth + 1, Row(arr[i]))]
          [] OTHER ->
                <<Line(0, <<"[", size, "]">>)>>
                \o FlattenSeq([i \in DOMAIN arr |-> Dashed(EncItem(arr[i], dict))])

\* encode: the dictionary of the header and the lines of the body.
Encode(v, dict) == [dict |-> dict, body |-> EncItem(v, dict)]

-----------------------------------------------------------------------------
(* Decoder: parsers.  Each takes the lines that are left and returns what   *)
(* it read, with the lines after it.  An exception is an Error in the       *)
(* value, wherever it is raised.                                            *)

Parsed(v, rest) == [v |-> v, rest |-> rest]

\* obj[key] = v, where the key may have failed to decode.
Put(fields, key, v) ==
    LET new == <<key[2], IF key = Error THEN Error ELSE v>>
        at == {i \in DOMAIN fields : fields[i][1] = key[2]}
    IN  CASE at = {} -> Append(fields, new)
          [] at # {} /\ fields[Min(at)][2] = Error -> fields
          [] OTHER -> [fields EXCEPT ![Min(at)] = new]

RECURSIVE SetPath(_, _, _)
SetPath(obj, parts, v) ==
    LET child == GetPath(obj, <<parts[1]>>)
    IN  CASE ~IsDict(obj) -> Error
          [] Len(parts) = 1 -> Dict(Put(obj[2], Str(parts[1]), v))
          [] OTHER -> Dict(Put(obj[2], Str(parts[1]),
                        SetPath(IF child = Error THEN Dict(<<>>) ELSE child, Tail(parts), v)))

ParseTabular(lines, known) ==
    LET header == lines[1].text
        count == ValueOf(header[2])
        paths == ColumnNames(AfterSize(header))
        Cells(row) == DecPrims(SplitOn(row.text, {"tab"}), known)
        PutCell(obj, i, row) ==
            IF Error \in ToSet(paths) THEN Error
            ELSE SetPath(obj, SplitOn(paths[i][2], {"."}), Cells(row)[i])
        Object(row) ==
            IF Len(Cells(row)) # Len(paths) THEN Error
            ELSE FoldLeft(LAMBDA obj, i : PutCell(obj, i, row), Dict(<<>>),
                          [i \in DOMAIN paths |-> i])
    IN  IF Len(lines) <= count THEN Parsed(Error, <<>>)
        ELSE Parsed(List([i \in 1 .. count |-> Object(lines[i + 1])]), From(lines, count + 2))

RECURSIVE ParseValue(_, _)
RECURSIVE ParseRest(_, _, _, _)
RECURSIVE ParseArray(_, _)
RECURSIVE ParseItems(_, _, _, _)
RECURSIVE ParseFields(_, _, _, _)

ParseObject(lines, known) == ParseFields(lines, lines[1].ind, known, <<>>)

ParseArray(lines, known) ==
    LET count == ValueOf(lines[1].text[2])
        inner == AfterSize(lines[1].text)
    IN  CASE count = 0 -> Parsed(List(<<>>), Tail(lines))
          [] count # 0 /\ inner # <<>> ->
                Parsed(List(DecPrims(CsvSplit(inner), known)), Tail(lines))
          [] OTHER -> ParseItems(Tail(lines), count, known, <<>>)

\* What a line holds beside its dash or its key: a block's header is put
\* back in front of the lines below, one level in.
ParseRest(rest, ind, below, known) ==
    LET inserted == <<Line(ind + 1, rest)>> \o below
    IN  CASE IsTabHeader(rest) -> ParseTabular(inserted, known)
          [] IsArrHeader(rest) -> ParseArray(inserted, known)
          [] OTHER -> Parsed(DecPrim(rest, known), below)

ParseDashItem(lines, known) ==
    LET ind == lines[1].ind
        rest == AfterDash(lines[1].text)
    IN  CASE rest = <<>> -> Parsed(Null, Tail(lines))
          [] rest # <<>> /\ ~IsTabHeader(rest) /\ ~IsArrHeader(rest) /\ LooksLikeObjLine(rest) ->
                ParseObject(<<Line(ind + 1, rest)>> \o Tail(lines), known)
          [] OTHER -> ParseRest(rest, ind, Tail(lines), known)

\* What follows an item or a field that has been read.
AfterItem(item, count, known, got) ==
    ParseItems(item.rest, count - 1, known, Append(got, item.v))
AfterField(key, field, ind, known, got) ==
    ParseFields(field.rest, ind, known, Put(got, key, field.v))

ParseItems(lines, count, known, got) ==
    IF count = 0 THEN Parsed(List(got), lines)
    ELSE IF lines = <<>> \/ ~StartsWith(lines[1].text, <<"-">>) THEN Parsed(Error, <<>>)
    ELSE AfterItem(ParseDashItem(lines, known), count, known, got)

ParseFields(lines, ind, known, got) ==
    IF lines = <<>> \/ lines[1].ind # ind \/ ~LooksLikeObjLine(lines[1].text)
    THEN Parsed(Dict(got), lines)
    ELSE LET text == lines[1].text
             below == Tail(lines)
             opensBlock == OpensBlock(text)
             key == DecStr(KeyToken(text), known)
             rest == ValueToken(text)
             field == CASE opensBlock /\ rest = <<>> /\ (below = <<>> \/ below[1].ind <= ind) ->
                            Parsed(Null, below)
                        [] opensBlock /\ rest = <<>> /\ below # <<>> /\ below[1].ind > ind ->
                            ParseValue(below, known)
                        [] OTHER -> ParseRest(rest, ind, below, known)
         IN  AfterField(key, field, ind, known, got)

ParseValue(lines, known) ==
    IF lines = <<>> THEN Parsed(Null, <<>>)
    ELSE LET text == lines[1].text
         IN  CASE IsTabHeader(text) -> ParseTabular(lines, known)
               [] IsArrHeader(text) -> ParseArray(lines, known)
               [] ~IsTabHeader(text) /\ ~IsArrHeader(text) /\ LooksLikeObjLine(text) ->
                    ParseObject(lines, known)
               [] OTHER -> Parsed(DecPrim(text, known), Tail(lines))

-----------------------------------------------------------------------------
(* Decoder: the whole text *)

\* splitlines: a line whose text holds a break becomes several, of which only
\* the first keeps the indentation; blank lines are skipped.
SplitLines(lines) ==
    LET Indented(s) ==
            LET solid == {i \in DOMAIN s : s[i] # "tab"}
                n == IF solid = {} THEN Len(s) ELSE Min(solid) - 1
            IN  Line(n, From(s, n + 1))
        Broken(line) ==
            LET pieces == SplitOn(line.text, LineBreaks)
            IN  <<Line(line.ind, pieces[1])>>
                \o [i \in 1 .. Len(pieces) - 1 |-> Indented(pieces[i + 1])]
    IN  SelectSeq(FlattenSeq([i \in DOMAIN lines |-> Broken(lines[i])]),
                  LAMBDA line : Strip(line.text) # <<>>)

RECURSIVE Raises(_)
Raises(v) ==
    CASE v = Error -> TRUE
      [] v[1] = "list" -> \E i \in DOMAIN v[2] : Raises(v[2][i])
      [] v[1] = "dict" -> \E i \in DOMAIN v[2] : Raises(v[2][i][2])
      [] OTHER -> FALSE

Decode(text) ==
    LET known == Known(text.dict)
        v == ParseValue(SplitLines(text.body), known).v
    IN  IF Raises(v) \/ \E e \in known : e.failed THEN Error ELSE v

\* Equality of JSON values: the order of an object's keys does not count.
RECURSIVE SameValue(_, _)
SameValue(a, b) ==
    /\ a[1] = b[1]
    /\ CASE a[1] = "list" ->
                Len(a[2]) = Len(b[2]) /\ \A i \in DOMAIN a[2] : SameValue(a[2][i], b[2][i])
         [] a[1] = "dict" ->
                /\ Len(a[2]) = Len(b[2])
                /\ \A i \in DOMAIN a[2] : \E j \in DOMAIN b[2] :
                        a[2][i][1] = b[2][j][1] /\ SameValue(a[2][i][2], b[2][j][2])
         [] OTHER -> a[2] = b[2]

=============================================================================
