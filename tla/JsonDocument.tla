---------------------------- MODULE JsonDocument ----------------------------
(***************************************************************************)
(* Documents that authors build key by key, and what the encoder of each   *)
(* SDK does with a single key and a single character: CanonicalJson puts   *)
(* whole texts together from these.                                        *)
(***************************************************************************)
EXTENDS Naturals, Sequences

CONSTANTS
    Author,         \* who builds a document
    Key,            \* keys of objects
    CodePointRank,  \* [Key -> Nat], by code points: bytes of UTF-8, Python's order
    Utf16Rank,      \* [Key -> Nat], by UTF-16 units: JavaScript's order
    ArrayIndex,     \* [keys that are canonical array indices -> Nat]
    Astral,         \* keys beyond the BMP, which UTF-16 orders by surrogates
    HighBmp,        \* keys above the surrogates and within the BMP
    Char,           \* what texts and keys are written with; an atom counts as one
    Spelling,       \* [Key -> Seq(Char)]: the characters of each key
    Value,          \* values an object or list may hold, with all they hold
    Depth,          \* [Value -> Nat]: how deep each of them nests
    Input,          \* <<key, value>> pairs an author may write
    MaxKeys         \* bound on the keys of a document

\* A rank tells keys apart; the two orders differ between astral and high keys.
ASSUME KeyAssumption ==
    /\ \A k \in Key : CodePointRank[k] \in Nat /\ Utf16Rank[k] \in Nat
    /\ \A k \in DOMAIN ArrayIndex : ArrayIndex[k] \in Nat
    /\ \A j, k \in Key : j # k =>
          /\ CodePointRank[j] # CodePointRank[k] /\ Utf16Rank[j] # Utf16Rank[k]
          /\ {j, k} \subseteq DOMAIN ArrayIndex => ArrayIndex[j] # ArrayIndex[k]
    /\ \A j, k \in Key :
          \/ j \in Astral /\ k \in HighBmp
          \/ j \in HighBmp /\ k \in Astral
          \/ CodePointRank[j] < CodePointRank[k] <=> Utf16Rank[j] < Utf16Rank[k]

VARIABLE doc        \* [Author -> an object]

Sdk == {"go", "ts", "py"}

\* Texts are sequences of characters.  Some are escaped by every encoder, and
\* alike; some by Go's unless SetEscapeHTML(false), some by Go's whatever is set.
Escaped == {"\"", "\\"}
Html == {"<", ">", "&"}
LineSep == {"U+2028", "U+2029"}

\* What a text is put together with; "\\u" is the start of a long escape.
Signs == {"\"", "[", "]", "{", "}", ",", ":", "\\u"}

\* Values.  An object has its entries in the order of insertion (a map), or of
\* declaration (a Go struct); a reference is a struct that marshals itself.
Text(chars) == [form |-> "text", chars |-> chars]
Atom(a) == [form |-> "atom", atom |-> a]
List(values) == [form |-> "list", values |-> values]
Object(form, entries) == [form |-> form, entries |-> entries]
ObjectForms == {"map", "reference", "struct"}

\* A value, of parts that are values, and those parts.
Node == [form: {"text"}, chars: Seq(Char)]
        \cup [form: {"atom"}, atom: Char]
        \cup [form: {"list"}, values: Seq(Value)]
        \cup [form: ObjectForms, entries: Seq(Key \X Value)]

Components(v) ==
    CASE v.form = "list" -> {v.values[n] : n \in DOMAIN v.values}
      [] v.form \in ObjectForms -> {v.entries[n][2] : n \in DOMAIN v.entries}
      [] OTHER -> {}

\* An object has a key once, a character is no escape, and an atom (a number or
\* a literal) no punctuation.
WellFormed(v) ==
    /\ v.form = "text" => \A n \in DOMAIN v.chars : v.chars[n] # "\\u"
    /\ v.form = "atom" => v.atom \notin Signs
    /\ v.form \in ObjectForms =>
          \A m, n \in DOMAIN v.entries : v.entries[m][1] = v.entries[n][1] => m = n

ASSUME ValueAssumption ==
    /\ Signs \cup Escaped \subseteq Char
    /\ Value \subseteq Node
    /\ Depth \in [Value -> Nat]
    /\ \A v \in Value :
          /\ WellFormed(v)
          /\ \A w \in Components(v) : Depth[w] < Depth[v]

\* Keys differ in their characters, none of which is an escape.
ASSUME SpellingAssumption ==
    /\ Spelling \in [Key -> Seq(Char)]
    /\ \A k \in Key : \A n \in DOMAIN Spelling[k] : Spelling[k][n] # "\\u"
    /\ \A j, k \in Key : Spelling[j] = Spelling[k] => j = k

ASSUME InputAssumption == Input \subseteq Key \X Value /\ MaxKeys \in Nat

-----------------------------------------------------------------------------
(* Characters *)

\* Bugs: nothing is escaped; Go keeps its default of escaping HTML everywhere.
EscapeNothing(sdk, html, c) == <<c>>
EscapeHtml(sdk, html, c) ==
    IF c \in Escaped THEN <<"\\", c>>
    ELSE IF sdk = "go" /\ c \in LineSep \cup Html THEN <<"\\u", c>>
    ELSE <<c>>

Escape(sdk, html, c) ==
    IF c \in Escaped THEN <<"\\", c>>
    ELSE IF sdk = "go" /\ (c \in LineSep \/ (html /\ c \in Html)) THEN <<"\\u", c>>
    ELSE <<c>>

-----------------------------------------------------------------------------
(* Keys *)

\* A JavaScript object lists its array indices first, in numeric order.
BeforeTs(j, k) ==
    IF {j, k} \cap DOMAIN ArrayIndex = {} THEN Utf16Rank[j] < Utf16Rank[k]
    ELSE /\ j \in DOMAIN ArrayIndex
         /\ k \in DOMAIN ArrayIndex => ArrayIndex[j] < ArrayIndex[k]

Before(sdk, j, k) ==
    IF sdk = "ts" THEN BeforeTs(j, k) ELSE CodePointRank[j] < CodePointRank[k]

\* Keys that all three SDKs put in the same order.
PortableKeys(keys) ==
    /\ keys \cap DOMAIN ArrayIndex = {}
    /\ keys \cap Astral = {} \/ keys \cap HighBmp = {}

-----------------------------------------------------------------------------
(* Building a document *)

Init == doc = [a \in Author |-> Object("map", <<>>)]

KeysOf(v) == {v.entries[n][1] : n \in DOMAIN v.entries}

\* Bug: an entry is added though the key is there.
PutTwice(a, k, v) ==
    /\ Len(doc[a].entries) < MaxKeys
    /\ doc' = [doc EXCEPT ![a].entries = Append(@, <<k, v>>)]

\* The author writes a key: in its place if it is there, else at the end.
Put(a, k, v) ==
    IF k \in KeysOf(doc[a])
    THEN doc' = [doc EXCEPT ![a].entries =
                    [n \in DOMAIN @ |-> IF @[n][1] = k THEN <<k, v>> ELSE @[n]]]
    ELSE /\ Len(doc[a].entries) < MaxKeys
         /\ doc' = [doc EXCEPT ![a].entries = Append(@, <<k, v>>)]

Next == \E a \in Author, i \in Input : Put(a, i[1], i[2])

Spec == Init /\ [][Next]_doc
-----------------------------------------------------------------------------
\* Every document is a map that has a key at most once.
TypeOK ==
    /\ doc \in [Author -> [form: {"map"}, entries: Seq(Input)]]
    /\ \A a \in Author : Len(doc[a].entries) <= MaxKeys /\ WellFormed(doc[a])
=============================================================================
