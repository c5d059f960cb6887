---------------------------- MODULE MCDiffPipeline ----------------------------
EXTENDS DiffPipeline

Scalar(x)  == [kind |-> "scalar", value |-> x]
Array(s)   == [kind |-> "array", items |-> s]
Object(f)  == [kind |-> "object", fields |-> f]
Objects(keys, values) == {Object(f) : f \in UNION {[ks -> values] : ks \in SUBSET keys}}
Arrays(values)        == {Array(s) : s \in SeqOf(values, 2)}

(* JSON values: all of depth 1 over three leaves, and two-level ones. *)
Leaves  == {Null, Scalar("1"), Scalar("2")}
Inner   == {Scalar("1"), Array(<<>>), Array(<<Scalar("1")>>), Object([k \in {"a"} |-> Null])}
Values  == Leaves \cup Arrays(Leaves) \cup Objects({"a", "b"}, Leaves)
                  \cup Objects({"a"}, Inner) \cup {Array(<<x>>) : x \in Inner}

MCDepth == [v \in Values |-> IF v \in Leaves THEN 0
                             ELSE IF v \in Arrays(Leaves) \cup Objects({"a", "b"}, Leaves) THEN 1
                             ELSE 2]

RECURSIVE Encode(_)
Encode(v) ==
  CASE v.kind = "null"   -> <<"null">>
    [] v.kind = "scalar" -> <<v.value>>
    [] v.kind = "array"  -> <<"[">> \o FlattenSeq([i \in DOMAIN v.items |-> Encode(v.items[i])]) \o <<"]">>
    [] v.kind = "object" ->
         LET keys == SetToSeq(DOMAIN v.fields)
         IN  <<"{">> \o FlattenSeq([i \in DOMAIN keys |-> <<keys[i]>> \o Encode(v.fields[keys[i]])]) \o <<"}">>

(* A blank before a value is another text of it. *)
MCDocuments ==
  [text \in {Encode(v) : v \in Values} \cup {<<" ", "1">>} |->
     IF text = <<" ", "1">> THEN Scalar("1") ELSE CHOOSE v \in Values : Encode(v) = text]

MCFold ==
  [n \in {"Content-Type", "content-type", "X-Id", "x-id"} |->
     IF n \in {"X-Id", "x-id"} THEN "x-id" ELSE "content-type"]

Header(n, x)         == [name |-> n, value |-> x]
OfType(t)            == IF t = NoType THEN <<>> ELSE <<Header("Content-Type", t)>>
Reply(s, hs, data)   == [status |-> s, headers |-> hs, data |-> data]
As(n)                == [i \in 1..n |-> "a"]
Two                  == <<"lead2", "cont">>
Three                == <<"lead3", "cont", "cont">>
Four                 == <<"lead4", "cont", "cont", "cont">>

(* The size cuts after eight bytes: before, in and behind a character.     *)
TextBodies ==
  {<<>>, <<"a">>, Two, Replacement, <<"cont", "a">>, <<"lead3", "cont", "a">>, <<"a", "tag">>,
   As(7) \o Two, As(6) \o Three, As(5) \o Four, As(5) \o Three \o <<"b">>,
   As(4) \o Four \o Two, As(7) \o <<"tag", "tag">>, As(7) \o <<"b">>}
BinaryBodies == {<<"a">>, <<"lead2">>, <<"b">>, <<"a", "a", "b", "b">>, As(6) \o Three}

MCResponses ==
       {Reply(200, OfType("application/json"), Encode(v)) : v \in Values}
  \cup {Reply(200, OfType("application/json"), d) : d \in {<<"{">>, <<"{", "1">>, <<" ", "1">>}}
  \cup {Reply(200, OfType("text/plain"), d) : d \in TextBodies}
  \cup {Reply(200, OfType("text/html"), d) : d \in {<<>>, <<"a">>, <<"b">>}}
  \cup {Reply(200, OfType(t), d) : t \in {NoType, "image/png", "application/hal+json"}, d \in BinaryBodies}
  \cup {Reply(200, OfType("text/plain") \o <<Header("X-Id", "1")>>, <<"a">>)}
  \cup {Reply(404, OfType("text/plain") \o hs, <<"a">>) :
          hs \in {<<>>, <<Header("X-Id", "1")>>, <<Header("X-Id", "")>>,
                  <<Header("X-Id", "1"), Header("X-Id", "2")>>}}

MCFewResponses ==
  {Reply(200, OfType("text/plain"), <<"a">>), Reply(200, OfType("image/png"), <<"b">>),
   Reply(404, OfType("text/plain"), <<"a">>)}

(* Imported entries, with their names in lower case as HTTP/2 has them. *)
Entry(u, hs, mime, enc, text, decoded) ==
  [method |-> TRUE, url |-> u, status |-> 200, headers |-> hs, mime |-> mime,
   encoding |-> enc, text |-> text, decoded |-> decoded,
   data |-> IF decoded = NotBase64 THEN text ELSE decoded]

Lower(t) == <<Header("content-type", t), Header("x-id", "1")>>
Coded    == Entry(TRUE, Lower("image/png"), "image/png", "base64", <<"Y", "Q">>, <<"b">>)
Plain    == Entry(TRUE, Lower("text/plain"), "text/plain", "", <<"a">>, NotBase64)

MCHarFiles ==
       {[version |-> "1.2", entries |-> es] :
          es \in {<<>>, <<[Plain EXCEPT !.method = FALSE], [Plain EXCEPT !.status = 404], Coded>>,
                  <<[Plain EXCEPT !.url = FALSE]>>,
                  <<Plain>>, <<[Plain EXCEPT !.encoding = "base64"]>>, <<Coded>>,
                  <<[Plain EXCEPT !.mime = NoType]>>,
                  <<[Plain EXCEPT !.mime = NoType, !.headers = OfType("text/plain")]>>,
                  <<[Plain EXCEPT !.mime = NoType,
                     !.headers = OfType("image/png") \o OfType("text/plain")]>>,
                  <<[Plain EXCEPT !.text = As(6) \o Three, !.data = As(6) \o Three]>>,
                  <<[Plain EXCEPT !.headers = @ \o <<Header("X-Id", "2")>>]>>}}
  \cup {[version |-> "2.0", entries |-> <<Plain>>]}

(* Eight bytes, to cut bodies, and a size that cuts none. *)
MCSizes == {[number |-> 8, unit |-> "b"], [number |-> 1, unit |-> "kb"]}

MCIgnoring == {[headers |-> h, body |-> ~h] : h \in BOOLEAN} \cup
              {[headers |-> FALSE, body |-> FALSE]}
===============================================================================
