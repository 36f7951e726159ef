---------------------------- MODULE EvidenceCore ----------------------------
(***************************************************************************)
(* The parts of the EvidenceBundle code that are functions of values: what *)
(* each SDK accepts as an item or a scope, the canonical body it hashes,   *)
(* and what its seal and verify compare.  The Go, TypeScript and Python    *)
(* SDKs each have their own rule; where the rules differ in the source     *)
(* they differ here.                                                       *)
(***************************************************************************)
EXTENDS Contracts, Naturals, Sequences

CONSTANTS
    Header,         \* id, run_ref, verification_contract_ref, harness_version_ref
    SchemaHeader,   \* those with an id of the schema's pattern and no blank ref
    ScopeKey,       \* scope keys a caller may use, in their wire spelling
    ScopeText,      \* values of a scope key
    Uri,            \* non-empty uris
    NoteText        \* non-empty notes

ASSUME CoreAssumption ==
    /\ SchemaHeader \subseteq Header
    /\ "" \notin Uri \cup NoteText
    /\ Unset \notin NoteText \cup ScopeText

KnownKinds == {"trace", "effect", "failure", "attribution", "explanation",
               "authority", "missing"}

\* "" is a blank kind, "other" any string that is not one of the seven.
Kind == KnownKinds \cup {"", "other"}

Item == [kind: Kind, uri: Uri \cup {""}, digest: DigestText,
         note: OptionalText(NoteText)]

KnownScopeKeys == {"intent_ref", "capability_ref", "time_window"}

\* A scope map; Unset is "no such key".
Scope == [ScopeKey -> ScopeText \cup {Unset}]
EmptyScope == [k \in ScopeKey |-> Unset]
ScopeKeysOf(s) == {k \in ScopeKey : s[k] # Unset}

\* The values of a bundle's fields, dereferenced.
Content == [header: Header, scope: Scope, items: Seq(Item),
            env: OptionalText(DigestText)]

-----------------------------------------------------------------------------
(* Validation *)

AcceptsKind(sdk, k) == IF sdk = "go" THEN k \in KnownKinds ELSE k # ""

\* Bug: the digest of the item is not looked at.
AcceptsItemAnyDigest(sdk, i) ==
    /\ AcceptsKind(sdk, i.kind)
    /\ i.uri # ""

AcceptsItem(sdk, i) ==
    /\ AcceptsKind(sdk, i.kind)
    /\ i.uri # ""
    /\ ParsesDigest(sdk, i.digest)

\* The Python dataclass takes any dict as its scope.
AcceptsScope(sdk, s) == sdk = "py" \/ ScopeKeysOf(s) \subseteq KnownScopeKeys

-----------------------------------------------------------------------------
(* The canonical body *)

\* Bugs: nothing is omitted; Python omits None but not "".
EmitTextAlways(sdk, t) == {t}
EmitTextNotNone(sdk, t) ==
    IF sdk = "py" THEN {t} \ {Unset} ELSE {t} \ {"", Unset}

\* Go omits "" (string zero value), TypeScript and Python every falsy value.
EmitText(sdk, t) ==
    IF sdk = "go" THEN {t} \ {""} ELSE {t} \ {"", Unset}

\* The JSON objects that come out, as sets of documents.
ItemDoc == [kind: Kind, uri: Uri \cup {""}, digest: DigestText,
            note: SUBSET NoteText]
BodyDoc == [header: Header, scope: SUBSET (ScopeKey \X ScopeText),
            items: Seq(ItemDoc), env: SUBSET DigestText]

ItemJson(sdk, i) ==
    [kind |-> i.kind, uri |-> i.uri, digest |-> i.digest,
     note |-> EmitText(sdk, i.note)]

\* TypeScript walks its three known keys, the others emit the map they hold.
EmittedScopeKeys(sdk, s) ==
    IF sdk = "ts" THEN ScopeKeysOf(s) \cap KnownScopeKeys ELSE ScopeKeysOf(s)

ScopeJson(sdk, s) == {<<k, s[k]>> : k \in EmittedScopeKeys(sdk, s)}

Body(sdk, c) ==
    [header |-> c.header,
     scope  |-> ScopeJson(sdk, c.scope),
     items  |-> [n \in DOMAIN c.items |-> ItemJson(sdk, c.items[n])],
     env    |-> EmitText(sdk, c.env)]

\* SHA-256 over canonical JSON, taken to be collision-free: a digest stands
\* for the one body it was computed from.  {} is a bundle_digest not set.
Unsealed == {}
Digest(sdk, c) == {Body(sdk, c)}

\* Bugs: an empty bundle seals; verify asks for a digest but does not compare.
CanSealEmpty(c) == TRUE
VerifyOkAnyDigest(sdk, c, digest) ==
    /\ \A n \in DOMAIN c.items : ParsesDigest(sdk, c.items[n].digest)
    /\ digest # Unsealed

CanSeal(c) == c.items # <<>>

VerifyOk(sdk, c, digest) ==
    /\ \A n \in DOMAIN c.items : ParsesDigest(sdk, c.items[n].digest)
    /\ digest # Unsealed
    /\ digest = Digest(sdk, c)

-----------------------------------------------------------------------------
(* What a reader of the evidence means by "the same evidence".             *)

SameEvidence(c, d) ==
    /\ c.header = d.header
    /\ c.scope = d.scope
    /\ Plain(c.env) = Plain(d.env)
    /\ Len(c.items) = Len(d.items)
    /\ \A n \in DOMAIN c.items :
          /\ c.items[n].kind = d.items[n].kind
          /\ c.items[n].uri = d.items[n].uri
          /\ c.items[n].digest = d.items[n].digest
          /\ Plain(c.items[n].note) = Plain(d.items[n].note)

\* The bundle another SDK rebuilds from a wire document (as examples/go-verify
\* does): a key that is absent is "" in Go, unset in the others.
ReadText(sdk, t) == IF t \in {"", Unset} THEN Absent(sdk) ELSE t
ReadInto(sdk, c) ==
    [c EXCEPT !.env = ReadText(sdk, c.env),
              !.items = [n \in DOMAIN c.items |->
                 [c.items[n] EXCEPT !.note = ReadText(sdk, c.items[n].note)]]]

(* The published v1 schema on a wire document: the pattern of the id and   *)
(* the minimum length of the refs, known kinds, non-blank uris, full       *)
(* digests, known scope keys, at least one item and a bundle_digest.       *)
SchemaValid(c, digest) ==
    /\ digest # Unsealed
    /\ c.header \in SchemaHeader
    /\ c.items # <<>>
    /\ \A n \in DOMAIN c.items :
          /\ c.items[n].kind \in KnownKinds
          /\ c.items[n].uri # ""
          /\ c.items[n].digest \in StrictDigest
    /\ ScopeKeysOf(c.scope) \subseteq KnownScopeKeys
=============================================================================
