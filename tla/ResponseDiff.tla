----------------------------- MODULE ResponseDiff -----------------------------
(***************************************************************************)
(* How `replay diff` compares two responses (internal/diff/diff.go).       *)
(*                                                                         *)
(* A JSON value is a record: "null", a "scalar" with its value, an "array" *)
(* with its items, an "object" with its fields.  A path is a sequence of   *)
(* <<"key", k>> and <<"index", i>>, a difference a path and its kind; the  *)
(* two values it also holds are those at the path.  A list of differences  *)
(* is a set here: it has no duplicates, and its order is layout.           *)
(***************************************************************************)
EXTENDS SessionBody

CONSTANTS
  JSON,       \* the JSON values
  Depth,      \* how deep each of them is nested
  Documents,  \* json.Unmarshal: the texts that parse, and their JSON values
  Fold        \* strings.EqualFold: a header's name in lower case

Null == [kind |-> "null"]

(* The values that a value consists of. *)
Parts(v) ==
  CASE v.kind = "object" -> {v.fields[k] : k \in DOMAIN v.fields}
    [] v.kind = "array"  -> ToSet(v.items)
    [] OTHER             -> {}

ASSUME JSONAssumption ==
  /\ Null \in JSON /\ Depth \in [JSON -> Nat]
  /\ \A v \in JSON :
       /\ v.kind \in {"null", "scalar", "array", "object"}
       /\ v.kind = "null"   => v = Null
       /\ v.kind = "scalar" => v = [kind |-> "scalar", value |-> v.value]
       /\ v.kind = "array"  =>
            v = [kind |-> "array", items |-> v.items] /\ v.items \in Seq(JSON)
       /\ v.kind = "object" =>
            v = [kind |-> "object", fields |-> v.fields] /\ v.fields \in [DOMAIN v.fields -> JSON]
       /\ \A part \in Parts(v) : Depth[part] < Depth[v]

Shown == "binary data"  \* what the diff shows of a body that is binary

ASSUME DocumentsAssumption ==
  \A text \in DOMAIN Documents :
    text # <<>> /\ Shown \notin ToSet(text) /\ Documents[text] \in JSON

(* strings.EqualFold, where the code asks for a spelling. *)
ASSUME FoldAssumption ==
  \A n \in {"Content-Type", "content-type"} : n \in DOMAIN Fold /\ Fold[n] = "content-type"

Difference(path, change) == [path |-> path, change |-> change]
Key(k)                   == <<"key", k>>
Index(i)                 == <<"index", i - 1>>
At(step, change)         == {Difference(<<step>>, change)}
Below(step, diffs)       == {Difference(<<step>> \o d.path, d.change) : d \in diffs}

(* compareJSONObjects; compare[<<v, w>>] are the differences below a key. *)
CompareObjects(compare, orig, replayed) ==
  UNION {CASE k \notin DOMAIN replayed -> At(Key(k), "deleted")
           [] k \notin DOMAIN orig     -> At(Key(k), "added")
           [] OTHER                    -> Below(Key(k), compare[<<orig[k], replayed[k]>>]) :
         k \in DOMAIN orig \cup DOMAIN replayed}

(* Faulty variant: items beyond the shorter array are not looked at. *)
CompareArraysInner(compare, orig, replayed) ==
  UNION {Below(Index(i), compare[<<orig[i], replayed[i]>>]) :
         i \in DOMAIN orig \cap DOMAIN replayed}

(* compareJSONArrays *)
CompareArrays(compare, orig, replayed) ==
  UNION {CASE i \notin DOMAIN replayed -> At(Index(i), "deleted")
           [] i \notin DOMAIN orig     -> At(Index(i), "added")
           [] OTHER                    -> Below(Index(i), compare[<<orig[i], replayed[i]>>]) :
         i \in DOMAIN orig \cup DOMAIN replayed}

(* compareJSONValues: what happens is decided by the original's type.      *)
CompareBy(compare, orig, replayed) ==
  CASE orig.kind = "object" /\ replayed.kind = "object" ->
         CompareObjects(compare, orig.fields, replayed.fields)
    [] orig.kind = "array" /\ replayed.kind = "array" ->
         CompareArrays(compare, orig.items, replayed.items)
    [] orig.kind \in {"object", "array"} /\ replayed.kind # orig.kind ->
         {Difference(<<>>, "type_changed")}
    [] OTHER ->
         IF orig = replayed THEN {} ELSE {Difference(<<>>, "value_changed")}

CompareValues[pair \in JSON \X JSON] == CompareBy(CompareValues, pair[1], pair[2])

(* A text that does not parse leaves nil. *)
Unmarshal(content) ==
  IF TextBytes(content) \in DOMAIN Documents THEN Documents[TextBytes(content)] ELSE Null

DiffJSONBodies(orig, replayed) ==
  CompareValues[<<Unmarshal(orig), Unmarshal(replayed)>>]

----------------------------------------------------------------------------
(* getContentType knows two spellings.  The tests are for a substring, so  *)
(* they look into a joined value.                                          *)
ContentType(headers) ==
  IF Value(headers, "Content-Type") # Empty
  THEN Value(headers, "Content-Type") ELSE Value(headers, "content-type")

(* Faulty variant: every body is taken for JSON. *)
IsJSONAlways(type) == TRUE

IsHTML(type) == "text/html" \in ToSet(type)
IsJSON(type) == "application/json" \in ToSet(type)

(* getBodyContent: a binary body is shown, and compared, by its length.    *)
BodyContent(body) ==
  IF body.binary
  THEN << <<Shown, 4 * Len(Untagged(body))>> >>
  ELSE Untagged(body)

WholeBody == {Difference(<<"body">>, "value_changed")}

(* compareBodies *)
CompareBodies(orig, replayed) ==
  LET origType     == ContentType(orig.headers)
      replayedType == ContentType(replayed.headers)
      origBody     == BodyContent(orig.body)
      replayedBody == BodyContent(replayed.body)
      Result(diffs, skipped) == [diffs |-> diffs, skipped |-> skipped]
  IN  IF IsHTML(origType) /\ IsHTML(replayedType) THEN Result({}, TRUE)
      ELSE IF origBody = <<>> /\ replayedBody = <<>> THEN Result({}, TRUE)
      ELSE IF origBody = replayedBody THEN Result({}, FALSE)
      ELSE IF IsJSON(origType) /\ IsJSON(replayedType)
           THEN Result(DiffJSONBodies(origBody, replayedBody), FALSE)
      ELSE Result(WholeBody, FALSE)

(* Faulty variant: the names' case matters. *)
FoundExact(headers, name) == {Value(headers, name)}

(* The values that compareHeaders may find for a name: under it, or else   *)
(* under any name that differs in case, whichever the map gives first.     *)
Found(headers, name) ==
  LET alike == {n \in DOMAIN headers : Fold[n] = Fold[name]} IN
    IF Value(headers, name) # Empty THEN {Value(headers, name)}
    ELSE IF alike # {} THEN {headers[n] : n \in alike} ELSE {Empty}

(* Faulty variant: only names that the original has are compared. *)
CompareHeadersOriginal(orig, replayed) ==
  {[n \in DOMAIN orig |-> Value(orig, n) # Value(replayed, n)]}

(* compareHeaders: for each name of either whether it is changed; the set  *)
(* holds every outcome.                                                    *)
CompareHeaders(orig, replayed) ==
  {changed \in [DOMAIN orig \cup DOMAIN replayed -> BOOLEAN] :
     \A n \in DOMAIN changed :
       \E o \in Found(orig, n), r \in Found(replayed, n) : changed[n] = (o # r)}

(* compareEntry, its outcomes. *)
CompareEntry(orig, replayed, ignore) ==
  LET Named(headers) == IF ignore.headers THEN HeadersToMap(<<>>) ELSE headers
      Skipping       == [diffs |-> {}, skipped |-> FALSE]
  IN  {[status  |-> orig.status # replayed.status,
        headers |-> changed,
        body    |-> IF ignore.body THEN Skipping ELSE CompareBodies(orig, replayed)] :
         changed \in CompareHeaders(Named(orig.headers), Named(replayed.headers))}

HasChanged(entry) ==
  \/ entry.status
  \/ \E n \in DOMAIN entry.headers : entry.headers[n]
  \/ entry.body.diffs # {}
===============================================================================
