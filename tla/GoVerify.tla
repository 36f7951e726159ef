------------------------------ MODULE GoVerify ------------------------------
(***************************************************************************)
(* examples/go-verify on the wire documents of evidence bundles.  An SDK   *)
(* exports a bundle, the document may be edited on its way, and the        *)
(* program reads it, checks the digests it names, rebuilds it as a Go      *)
(* bundle, seals that, and compares the seals.  The SDKs write             *)
(* api_version v1; the program asks for v1alpha1 and rebuilds in v1.       *)
(***************************************************************************)
EXTENDS EvidenceCore

CONSTANTS
    Input,          \* contents the exported bundles may have
    ItemEdit,       \* items of a document that an edit may write
    EnvEdit,        \* environment_digest keys that an edit may write
    MaxEdits        \* bound on the edits of one document

Api == {"v1", "v1alpha1"}
Optional(T) == {{}} \cup {{t} : t \in T}
WireUri == Uri \cup {""}
WireNote == Optional(NoteText \cup {""})
WireEnv == Optional(DigestText \cup {""})

\* A wire item and body; a key a person wrote may be there and be blank.
WireItem == [kind: Kind, uri: WireUri, digest: DigestText, note: WireNote]
WireBody == [header: Header, scope: SUBSET (ScopeKey \X ScopeText),
             items: Seq(WireItem), env: WireEnv]

\* What a digest is computed from: the body, its api_version included.
Hashed == [api: Api, body: WireBody]

\* bundle_digest in a document: not there, no digest, or a digest of the right
\* form, computed from one document or, if "of" is empty, made up.
Seals == [form: {"none", "malformed", "digest"}, of: SUBSET Hashed]
NoSeal == [form |-> "none", of |-> {}]
SealOver(h) == [form |-> "digest", of |-> {h}]
Placeholder == [form |-> "digest", of |-> {}]
BadSeal == [form |-> "malformed", of |-> {}]

\* kind "other" is another kind, or JSON that does not decode.
WireDoc == [api: Api, kind: {"EvidenceBundle", "other"}, body: WireBody, seal: Seals]

ASSUME GoVerifyAssumption ==
    /\ Input \subseteq Content /\ Input # {}
    /\ ItemEdit \subseteq WireItem
    /\ EnvEdit \subseteq WireEnv
    /\ MaxEdits \in Nat

VARIABLES
    pc,         \* "wire", "seal", "digests", "items", "compare", "report", "exit"
    doc,        \* the document
    edits,      \* how often it was edited
    origin,     \* history: what the exporting bundle's seal was computed from
    failures,   \* failed checks so far
    rebuilt,    \* the content of the rebuilt Go bundle
    at,         \* how many items the present loop over the document is past
    matched,    \* the bundle_digest of the document matches the rebuilt bundle
    code        \* exit code

progVars == <<failures, rebuilt, at, matched, code>>
vars == <<pc, doc, edits, origin, progVars>>

-----------------------------------------------------------------------------
(* What the program does with a document, as functions of it *)

\* A missing key decodes as "".
Text(t) == IF t = {} THEN "" ELSE CHOOSE x \in t : TRUE

GoItemOf(i) == [kind |-> i.kind, uri |-> i.uri, digest |-> i.digest,
                note |-> Text(i.note)]

ScopeOf(body) ==
    [k \in ScopeKey |-> IF \E p \in body.scope : p[1] = k
                        THEN (CHOOSE p \in body.scope : p[1] = k)[2] ELSE Unset]

NewBundle(header) ==
    [header |-> header, scope |-> EmptyScope, items |-> <<>>, env |-> ""]

\* What the bundle is before it is built; nothing reads it.
NotYetBuilt == NewBundle(CHOOSE h \in Header : TRUE)

-----------------------------------------------------------------------------
(* The document on its way *)

\* A bundle whose every item and scope its SDK accepted, sealed or not.
Exportable(sdk, c, isSealed) ==
    /\ \A n \in DOMAIN c.items : AcceptsItem(sdk, c.items[n])
    /\ AcceptsScope(sdk, c.scope)
    /\ isSealed => CanSeal(c)

\* ToJSON: the body of c as the SDK holds it, and bundle_digest if it is sealed.
ToJSON(sdk, c, isSealed) ==
    LET body == Body(sdk, ReadInto(sdk, c)) IN
    [api |-> "v1", kind |-> "EvidenceBundle", body |-> body,
     seal |-> IF isSealed THEN SealOver([api |-> "v1", body |-> body]) ELSE NoSeal]

Init ==
    /\ \E sdk \in Sdk, c \in Input, isSealed \in BOOLEAN :
          /\ Exportable(sdk, c, isSealed)
          /\ doc = ToJSON(sdk, c, isSealed)
    /\ origin = doc.seal.of
    /\ edits = 0
    /\ pc = "wire"
    /\ failures = 0 /\ code = 0
    /\ rebuilt = NotYetBuilt /\ at = 0
    /\ matched = FALSE

Edit(d) ==
    /\ pc = "wire"
    /\ edits < MaxEdits
    /\ doc' = d
    /\ edits' = edits + 1
    /\ UNCHANGED <<pc, origin, progVars>>

EditEnvelope ==
    \/ \E a \in Api : Edit([doc EXCEPT !.api = a])
    \/ Edit([doc EXCEPT !.kind = "other"])
    \/ \E s \in {NoSeal, BadSeal, Placeholder} : Edit([doc EXCEPT !.seal = s])

\* An item is added, overwritten or taken away; so is a scope key; the other
\* fields are overwritten.
EditBody ==
    \/ \E h \in Header : Edit([doc EXCEPT !.body.header = h])
    \/ \E i \in ItemEdit : Edit([doc EXCEPT !.body.items = Append(@, i)])
    \/ \E n \in DOMAIN doc.body.items, i \in ItemEdit :
          Edit([doc EXCEPT !.body.items[n] = i])
    \/ /\ doc.body.items # <<>>
       /\ Edit([doc EXCEPT !.body.items = Tail(@)])
    \/ \E e \in EnvEdit : Edit([doc EXCEPT !.body.env = e])
    \/ \E k \in ScopeKey, v \in ScopeText :
          Edit([doc EXCEPT !.body.scope = {p \in @ : p[1] # k} \cup {<<k, v>>}])
    \/ \E k \in ScopeKey : Edit([doc EXCEPT !.body.scope = {p \in @ : p[1] # k}])

-----------------------------------------------------------------------------
(* The program *)

\* Read, decode, and ask for the one version and kind; else exit 1.
Read ==
    /\ pc = "wire"
    /\ IF doc.api = "v1alpha1" /\ doc.kind = "EvidenceBundle"
       THEN pc' = "seal" /\ code' = code
       ELSE pc' = "exit" /\ code' = 1
    /\ UNCHANGED <<doc, edits, origin, failures, rebuilt, at, matched>>

\* Bug: environment_digest is held to be a digest, which the schema does not.
CheckSealAndEnv ==
    /\ pc = "seal"
    /\ failures' = (IF doc.seal.form = "malformed" THEN 1 ELSE 0)
                   + (IF doc.body.env \subseteq StrictDigest THEN 0 ELSE 1)
    /\ pc' = "digests"
    /\ UNCHANGED <<doc, edits, origin, rebuilt, at, matched, code>>

\* bundle_digest, if there is one, has to be a digest; so has every item's.
CheckSeal ==
    /\ pc = "seal"
    /\ failures' = IF doc.seal.form = "malformed" THEN 1 ELSE 0
    /\ pc' = "digests"
    /\ UNCHANGED <<doc, edits, origin, rebuilt, at, matched, code>>

CheckNext ==
    /\ pc = "digests" /\ at < Len(doc.body.items)
    /\ failures' = failures +
          IF ParsesDigest("go", doc.body.items[at + 1].digest) THEN 0 ELSE 1
    /\ at' = at + 1
    /\ UNCHANGED <<pc, doc, edits, origin, rebuilt, matched, code>>

\* A new bundle of the document's id and refs, with its scope and environment
\* digest.  A refused scope leaves the empty one; it counts, and the program goes on.
Rebuild ==
    /\ pc = "digests" /\ at = Len(doc.body.items)
    /\ LET scope == ScopeOf(doc.body)
           scopeOk == AcceptsScope("go", scope)
       IN /\ rebuilt' = [NewBundle(doc.body.header) EXCEPT
                            !.env = Text(doc.body.env),
                            !.scope = IF scopeOk THEN scope ELSE @]
          /\ failures' = failures + (IF scopeOk THEN 0 ELSE 1)
    /\ pc' = "items" /\ at' = 0
    /\ UNCHANGED <<doc, edits, origin, matched, code>>

\* Bug: an item that AddItem refuses is not a failure.
AddNextLeniently ==
    /\ pc = "items" /\ at < Len(doc.body.items)
    /\ LET i == GoItemOf(doc.body.items[at + 1])
       IN  rebuilt' = IF AcceptsItem("go", i)
                      THEN [rebuilt EXCEPT !.items = Append(@, i)] ELSE rebuilt
    /\ at' = at + 1
    /\ UNCHANGED <<pc, doc, edits, origin, failures, matched, code>>

\* AddItem takes the next item of the document, or refuses it: that counts, the
\* item is left out, and the program goes on.
AddNext ==
    /\ pc = "items" /\ at < Len(doc.body.items)
    /\ LET i == GoItemOf(doc.body.items[at + 1])
       IN  IF AcceptsItem("go", i)
           THEN /\ rebuilt' = [rebuilt EXCEPT !.items = Append(@, i)]
                /\ UNCHANGED failures
           ELSE /\ failures' = failures + 1
                /\ UNCHANGED rebuilt
    /\ at' = at + 1
    /\ UNCHANGED <<pc, doc, edits, origin, matched, code>>

\* Bug: a bundle that cannot be sealed is not a failure.
SealLeniently ==
    /\ pc = "items" /\ at = Len(doc.body.items)
    /\ pc' = "compare"
    /\ UNCHANGED <<doc, edits, origin, progVars>>

\* Nothing reads the digest of this seal: Compare replaces it.
SealRebuilt ==
    /\ pc = "items" /\ at = Len(doc.body.items)
    /\ failures' = failures + (IF CanSeal(rebuilt) THEN 0 ELSE 1)
    /\ pc' = "compare"
    /\ UNCHANGED <<doc, edits, origin, rebuilt, at, matched, code>>

\* Bug: the digest of the document is not put into the rebuilt bundle.
CompareOwnSeal ==
    /\ pc = "compare"
    /\ matched' = (doc.seal.form # "none" /\ CanSeal(rebuilt))
    /\ pc' = "report"
    /\ UNCHANGED <<doc, edits, origin, failures, rebuilt, at, code>>

\* The rebuilt bundle verified with the bundle_digest of the document; a
\* difference is noted and does not count.
Compare ==
    /\ pc = "compare"
    /\ matched' = /\ doc.seal.form # "none"
                  /\ \A n \in DOMAIN rebuilt.items :
                        ParsesDigest("go", rebuilt.items[n].digest)
                  /\ doc.seal = SealOver([api |-> "v1", body |-> Body("go", rebuilt)])
    /\ pc' = "report"
    /\ UNCHANGED <<doc, edits, origin, failures, rebuilt, at, code>>

Report ==
    /\ pc = "report"
    /\ code' = IF failures > 0 THEN 1 ELSE 0
    /\ pc' = "exit"
    /\ UNCHANGED <<doc, edits, origin, failures, rebuilt, at, matched>>

Next ==
    \/ EditEnvelope \/ EditBody
    \/ Read \/ CheckSeal \/ CheckNext \/ Rebuild \/ AddNext \/ SealRebuilt \/ Compare \/ Report

Spec == Init /\ [][Next]_vars
-----------------------------------------------------------------------------
(* Properties *)

\* Every variable keeps its type; a document stays one that JSON can hold.
TypeOK ==
    /\ pc \in {"wire", "seal", "digests", "items", "compare", "report", "exit"}
    /\ doc \in WireDoc
    /\ edits \in 0..MaxEdits
    /\ origin \subseteq Hashed
    /\ failures \in Nat
    /\ rebuilt \in Content
    /\ at \in Nat
    /\ matched \in BOOLEAN
    /\ code \in {0, 1}

Passed == pc = "exit" /\ code = 0

\* A document without the keys that are there but blank.
NoBlank(t) == t \ {""}
NoBlankNote(i) == [i EXCEPT !.note = NoBlank(i.note)]
NoBlanks(body) ==
    [header |-> body.header, scope |-> body.scope,
     items |-> [n \in DOMAIN body.items |-> NoBlankNote(body.items[n])],
     env |-> NoBlank(body.env)]

\* The program goes on after a refused item or scope and seals what is left.
\* If it ends with PASSED nothing was left out: the rebuilt bundle has the
\* body of the document, but for blank keys, and at least one item.
PassedRebuiltItAll ==
    Passed => /\ Body("go", rebuilt) = NoBlanks(doc.body)
              /\ rebuilt.items # <<>>

\* "fixture bundle_digest matches the canonical digest", and PASSED: whatever was
\* edited on the way, id and refs included, the document says what the exporting
\* bundle sealed, but for api_version and blank keys.  Each of the two is not
\* enough alone: an item that was put in on the way and is refused is left out,
\* and the digests match.
MatchedIsWhatWasSealed ==
    Passed /\ matched =>
        \E h \in origin : h.body = NoBlanks(doc.body)

\* The published v1alpha1 schema on a document: what it asks of a body and a seal.
ContentOf(body) ==
    [header |-> body.header, items |-> body.items, scope |-> ScopeOf(body)]
DocSchemaValid ==
    /\ doc.api = "v1alpha1" /\ doc.kind = "EvidenceBundle"
    /\ doc.seal.form # "malformed"
    /\ SchemaValid(ContentOf(doc.body), {doc.seal} \ {NoSeal})

\* No document that the v1alpha1 schema takes fails, whichever SDK it is from and
\* whatever edits made it so: Go's checks ask no more than the schema.
SchemaValidPasses == pc = "exit" /\ DocSchemaValid => Passed

\* A decoded scope has a key once; the digest of a document is of what was sealed
\* or made up, for an edit cannot compute one.
OneValuePerKey == \A p, q \in doc.body.scope : p[1] = q[1] => p = q
SealIsFromOrigin == doc.seal.of \subseteq origin

\* The program asks for these before anything else.
IsRead == doc.api = "v1alpha1" /\ doc.kind = "EvidenceBundle"

\* The scope and the fields are rebuilt; so are the items.
FieldsDone == pc \in {"items", "compare", "report"} \/ (pc = "exit" /\ IsRead)
ItemsDone == pc \in {"compare", "report"} \/ (pc = "exit" /\ IsRead)

\* Where the program is and what it has by then; the exit code is its verdict.
ProgramOrder ==
    /\ pc \in {"wire", "seal", "digests"} => rebuilt = NotYetBuilt
    /\ pc \in {"wire", "seal"} => failures = 0 /\ at = 0
    /\ pc # "exit" => code = 0
    /\ pc \notin {"wire", "exit"} => IsRead
    /\ pc = "exit" => code = IF IsRead /\ failures = 0 THEN 0 ELSE 1
    /\ at <= Len(doc.body.items)
    /\ ItemsDone => at = Len(doc.body.items)

\* While no check has failed, the rebuilt bundle is the document so far.
RebuiltSoFar ==
    /\ FieldsDone => rebuilt.header = doc.body.header
    /\ failures = 0 /\ FieldsDone =>
          /\ rebuilt.scope = ScopeOf(doc.body)
          /\ rebuilt.env = Text(doc.body.env)
          /\ rebuilt.items = [n \in 1..at |-> GoItemOf(doc.body.items[n])]
    /\ failures = 0 /\ ItemsDone => rebuilt.items # <<>>

\* A match is with the digest of the rebuilt bundle, and comes late.
MatchIsOfRebuilt ==
    matched => /\ pc \in {"report", "exit"}
               /\ doc.seal = SealOver([api |-> "v1", body |-> Body("go", rebuilt)])

\* What makes the properties above inductive: at each phase of main, what a count
\* of no failures says of the bundle rebuilt so far, and that the schema asks for
\* all that the program counts.
IInv ==
    /\ TypeOK
    /\ OneValuePerKey
    /\ SealIsFromOrigin
    /\ ProgramOrder
    /\ RebuiltSoFar
    /\ MatchIsOfRebuilt
    /\ DocSchemaValid => failures = 0

\* main.go:3: "It parses an EvidenceBundle fixture, verifies every digest it
\* references"; main.go:102: "If the fixture is sealed, cross-check its
\* bundle_digest against the canonical digest".  What an SDK sealed and exported,
\* valid in the v1 schema and unchanged, is parsed, passes and matches.
SealedExportIsRead ==
    pc = "exit" /\ edits = 0 /\ origin # {} /\ doc.body.env \subseteq StrictDigest
    /\ SchemaValid(ContentOf(doc.body), {doc.seal} \ {NoSeal})
    => Passed /\ matched
=============================================================================
