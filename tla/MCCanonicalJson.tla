-------------------------- MODULE MCCanonicalJson --------------------------
(* Finite instances of CanonicalJson for TLC. *)
EXTENDS CanonicalJson, TLC

CONSTANTS author1, author2

Authors == {author1, author2}
Symmetry == Permutations(Authors)

\* "wide" is a key of high BMP characters, "astral" one beyond the BMP: UTF-16
\* turns their order round.  "9" and "10" are array indices; so is no other key.
\* "pair" is a key that unescaped would read like two, and "line" a separator.
Keys == {"10", "9", "a", "pair", "b", "digest", "id", "kind", "line", "wide", "astral"}
CodePoints == ("10" :> 1) @@ ("9" :> 2) @@ ("a" :> 3) @@ ("pair" :> 4) @@ ("b" :> 5)
              @@ ("digest" :> 6) @@ ("id" :> 7) @@ ("kind" :> 8) @@ ("line" :> 9)
              @@ ("wide" :> 10) @@ ("astral" :> 11)
Utf16Units == [CodePoints EXCEPT !["wide"] = 11, !["astral"] = 10]
Indices == ("9" :> 9) @@ ("10" :> 10)

Words == Keys \ {"pair", "line"}
Chars == Words \cup Signs \cup Escaped \cup {"x", "<", "U+2028", "1"}
Spellings == [k \in Words |-> <<k>>]
             @@ ("pair" :> <<"a", "\"", ":", "\"", "\"", ",", "\"", "b">>)
             @@ ("line" :> <<"U+2028">>)

\* A text that reads like the end of one entry and the start of the next.
Quoting == Text(<<"\"", ",", "\"", "b", "\"", ":", "\"">>)
Blank == Text(<<>>)
Plain == Text(<<"x">>)
Tag == Text(<<"<">>)
Line == Text(<<"U+2028">>)
One == Atom("1")

\* In declaration order, which is not that of the keys.
Fields(id) == <<<<"kind", Plain>>, <<"id", id>>, <<"digest", Plain>>>>

Flat == {Blank, Plain, Quoting, Tag, Line, Text(<<"1">>), One}
Nested == {List(<<Plain, One>>),
           Object("map", <<<<"b", One>>, <<"a", Plain>>>>),
           Object("map", <<<<"a", Plain>>, <<"b", One>>>>)}
          \cup {Object(form, Fields(Plain)) : form \in {"map", "reference"}}
          \cup {Object(form, Fields(Tag)) : form \in {"reference", "struct"}}
Deep == {List(<<Object("reference", Fields(Tag))>>)}

Values == Flat \cup Nested \cup Deep
Depths == [v \in Values |-> IF v \in Flat THEN 0 ELSE IF v \in Nested THEN 1 ELSE 2]
Inputs == ({"a"} \X (Values \ {Plain})) \cup ({"b", "pair"} \X {Blank})
          \cup ({"9", "10", "line", "wide", "astral"} \X {One})

\* The functions recursive on values are what they should be; asking makes TLC
\* tabulate them.
ASSUME Tabulated ==
    /\ TextsOf \in [Values -> [Sdk \X BOOLEAN -> Seq(Char)]]
    /\ SameAs \in [Values -> SUBSET Values]
    /\ PartsOf \in [Values -> SUBSET Values]
=============================================================================
