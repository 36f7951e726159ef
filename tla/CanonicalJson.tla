--------------------------- MODULE CanonicalJson ---------------------------
(***************************************************************************)
(* The canonical JSON the three SDKs hash, as each of them writes it: with *)
(* its order of keys and its escapes, and what a Go Reference or struct    *)
(* makes of itself.  EvidenceBundle and HarnessVersion take a digest to    *)
(* stand for one document; this module checks for which documents it does, *)
(* within an SDK and between them.                                         *)
(***************************************************************************)
EXTENDS JsonDocument

-----------------------------------------------------------------------------
(* The encoders *)

\* The parts in a row, between an opening and a closing sign.
Enclosed(open, parts, separator, close) ==
    LET rest[n \in 1..(Len(parts) + 1)] ==
            IF n > Len(parts) THEN <<close>>
            ELSE (IF n = 1 THEN <<>> ELSE separator) \o parts[n] \o rest[n + 1]
    IN  <<open>> \o rest[1]

Quoted(sdk, html, chars) ==
    Enclosed("\"", [n \in DOMAIN chars |-> Escape(sdk, html, chars[n])], <<>>, "\"")

\* The entries of an object, each once, by the order of their keys.
EntriesOf(v) == {v.entries[n] : n \in DOMAIN v.entries}
InOrder(sdk, es) ==
    \A m, n \in DOMAIN es : m < n => Before(sdk, es[m][1], es[n][1])
Sorted(sdk, v) ==
    CHOOSE es \in [DOMAIN v.entries -> EntriesOf(v)] :
        InOrder(sdk, es) /\ {es[n] : n \in DOMAIN es} = EntriesOf(v)

\* Bug: TypeScript leaves the keys as they were inserted.
OrderedNotTs(sdk, v) ==
    IF sdk = "ts" \/ v.form = "struct" THEN v.entries ELSE Sorted(sdk, v)

\* Every encoder sorts its keys, but Go those of a plain struct.
Ordered(sdk, v) ==
    IF sdk = "go" /\ v.form = "struct" THEN v.entries ELSE Sorted(sdk, v)

\* A key is quoted and escaped as any text is.
Member(sdk, html, key, text) == Quoted(sdk, html, Spelling[key]) \o <<":">> \o text

\* html: whether Go escapes HTML here.  CanonicalJSON turns it off, but
\* Reference.MarshalJSON calls json.Marshal, which has it on.
InnerHtml(html, v) == html \/ v.form = "reference"

\* The text of v, when texts[w] has those of each component w.
Encode(texts, sdk, html, v) ==
    CASE v.form = "text" -> Quoted(sdk, html, v.chars)
      [] v.form = "atom" -> <<v.atom>>
      [] v.form = "list" ->
            Enclosed("[", [n \in DOMAIN v.values |-> texts[v.values[n]][sdk, html]],
                     <<",">>, "]")
      [] v.form \in ObjectForms ->
            LET es == Ordered(sdk, v)
            IN  Enclosed("{", [n \in DOMAIN es |->
                            Member(sdk, InnerHtml(html, v), es[n][1],
                                   texts[es[n][2]][sdk, InnerHtml(html, v)])],
                         <<",">>, "}")

TextsOf[v \in Value] ==
    [x \in Sdk \X BOOLEAN |-> Encode(TextsOf, x[1], x[2], v)]

CanonicalJSON(sdk, v) == Encode(TextsOf, sdk, FALSE, v)

CanonicalTexts(v) == {CanonicalJSON(sdk, v) : sdk \in Sdk}

-----------------------------------------------------------------------------
(* The reference definitions *)

\* What a document says: its objects are sets of entries in no order, and the
\* Go type of an object does not matter.  same[x] is what says the same as x.
Alike(same, v, w) ==
    \/ v.form = "text" /\ w.form = "text" /\ v.chars = w.chars
    \/ v.form = "atom" /\ w.form = "atom" /\ v.atom = w.atom
    \/ /\ v.form = "list" /\ w.form = "list"
       /\ Len(v.values) = Len(w.values)
       /\ \A n \in DOMAIN v.values : w.values[n] \in same[v.values[n]]
    \/ /\ v.form \in ObjectForms /\ w.form \in ObjectForms
       /\ \A d \in EntriesOf(v) : \E e \in EntriesOf(w) : d[1] = e[1] /\ e[2] \in same[d[2]]
       /\ \A e \in EntriesOf(w) : \E d \in EntriesOf(v) : d[1] = e[1] /\ e[2] \in same[d[2]]

SameAs[v \in Value] == {w \in Value : Alike(SameAs, v, w)}

SaysTheSame(v, w) == Alike(SameAs, v, w)

\* A value and everything in it.
PartsOf[v \in Value] == {v} \cup UNION {PartsOf[w] : w \in Components(v)}
Parts(v) == {v} \cup UNION {PartsOf[w] : w \in Components(v)}

Objects(v) == {p \in Parts(v) : p.form \in ObjectForms}

\* What is quoted in a part by itself, and the characters quoted anywhere in v.
TextsIn(p) ==
    CASE p.form = "text" -> {p.chars}
      [] p.form \in ObjectForms -> {Spelling[k] : k \in KeysOf(p)}
      [] OTHER -> {}
CharsOf(v) ==
    UNION {UNION {{t[n] : n \in DOMAIN t} : t \in TextsIn(p)} : p \in Parts(v)}

\* Go objects that marshal like the map of their entries.
MapLike(v) ==
    \A p \in Objects(v) :
        /\ p.form # "struct"
        /\ p.form = "reference" => CharsOf(p) \cap Html = {}

\* Documents for which the SDKs agree: no text or key has a character that only
\* Go escapes, and no object has keys that they put in different orders.
Portable(v) ==
    /\ MapLike(v)
    /\ CharsOf(v) \cap LineSep = {}
    /\ \A p \in Objects(v) : PortableKeys(KeysOf(p))

-----------------------------------------------------------------------------
(* Properties *)

\* The digest of a document does not depend on the order its keys were written
\* in, at any depth, in any SDK, any key or text it may have; in Go as long as
\* every object marshals like a map.
OneTextPerDocument ==
    \A a, b \in Author, sdk \in Sdk :
        /\ SaysTheSame(doc[a], doc[b])
        /\ sdk = "go" => MapLike(doc[a]) /\ MapLike(doc[b])
        => CanonicalJSON(sdk, doc[a]) = CanonicalJSON(sdk, doc[b])

\* A digest stands for one document, whichever SDKs computed and compare it: no
\* two documents that say different things have the same canonical text.
OneDocumentPerText ==
    \A a, b \in Author : ~ SaysTheSame(doc[a], doc[b]) =>
        CanonicalTexts(doc[a]) \cap CanonicalTexts(doc[b]) = {}

\* The SDKs write one text for a portable document, its Go references included,
\* whichever order each of them sorts in and whoever built it.
PortableSameText ==
    \A a, b \in Author :
        /\ SaysTheSame(doc[a], doc[b])
        /\ Portable(doc[a]) /\ Portable(doc[b])
        => \A t, u \in CanonicalTexts(doc[a]) \cup CanonicalTexts(doc[b]) : t = u

\* contracts.go:80: "HTML escaping is disabled so `<`, `>`, and `&` are emitted
\* raw [...] so digests stay cross-SDK identical", and contracts.go:8:
\* "References marshal in canonical sorted-key order [...] so ComputeDigest of a
\* bare Reference matches the other SDKs": a document of texts, maps, lists and
\* references has one canonical text.
DigestsStayIdentical ==
    \A a \in Author, s, r \in Sdk :
        (\A p \in Objects(doc[a]) : p.form # "struct")
        => CanonicalJSON(s, doc[a]) = CanonicalJSON(r, doc[a])
=============================================================================
