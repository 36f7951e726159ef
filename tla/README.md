# TEKMOVELA open SDKs in TLA+

This directory specifies the part of the repository that carries its own
logic: the Go, TypeScript and Python SDKs that author harness versions, run
scenarios against an agent runtime and seal the results into evidence bundles.
The specifications are translated from the code under `src/sdk`, are checked
by TLC on small instances, and the safety properties of bundles, harness
versions, the runner, go-verify and UI captures are proved with TLAPS for every
instance.

## The system

| Component | Keeps | Operations | Interacts with |
|---|---|---|---|
| contracts (`sdk/*/contracts`) | nothing | parse a digest, canonical JSON, digest of a value, validated references | used by all others |
| EvidenceBundle (`evidence.*`) | references, item list, scope map, `environment_digest`, `bundle_digest` | construct, add item, add missing, set scope (Go), seal, verify, body, wire form | holds objects of its caller by reference: Go the scope map, TypeScript the item objects and list, Python all of them |
| HarnessVersion (`harness.*`) | contract reference, component lock, mode, seed, digest | construct (validates), body, publish | TypeScript and Python keep the caller's lock, Python also the reference |
| LocalRunner (`harness.go`, `harness.ts`, `runner.py`) | the adapter | `Execute`: start a run, fetch its effects, (Go) ask its status, build and seal a bundle | the RuntimeAdapter, by calls that may block, fail and interleave |
| RuntimeAdapter | runs (outside the repository) | start, fetch, cancel, checkpoint, status, probe | only start, fetch and (Go) status are called |
| go-verify (`examples`) | nothing | read a wire document, rebuild, seal, compare | EvidenceBundle |
| UI repair failure evidence (`ui-sfe.ts`) | a seam; id, trace slice ref and three artifacts | capture in three awaits, body | a UICapture seam, over a page or an object its owner writes to |
| TraceEnvelope (`trace.ts`) | perspectives | add, verify, body | |
| contract baseline (`contracts/scripts`) | `baseline/schemas.json` | snapshot, check | schema files |
| fixture and OpenAPI validation, parity and version scripts, schemas, CI | files | one sequential pass each | JSON Schema library |

What is hard here is not arithmetic but *aliasing* (a value is validated, then
kept by reference, and its owner writes to it), *three implementations of one
canonical form* that must agree on what is left out of it, and the runner's
*several calls to an asynchronous runtime* with other runs and calls in
between. Per component, what makes it correct:

- EvidenceBundle: what verifies is what was sealed; what is sealed verifies;
  nothing outside a bundle breaks its seal; one evidence has one digest.
- HarnessVersion: a digest identifies one harness; a published harness stays
  what was published; the same harness has the same digest in every SDK.
- go-verify: PASSED is said of the whole document, not of what was left of it.
- contracts: a document has one canonical text, a text one document, in every SDK.
- UI repair evidence: it vouches for nothing that was not on the page, and for
  one capture only; a capture comes back.
- LocalRunner: a result is about the run it names, whatever interleaves; its
  evidence verifies anywhere, fits the schema if its arguments do and is no older
  than the call; `Execute` comes back.

## Modules

| Module | Models | Composes |
|---|---|---|
| `Contracts` | digest acceptance per SDK, optional text | |
| `EvidenceCore` | items, scopes, canonical body, seal and verify as functions of values; the published schema as a predicate (`SchemaValid`; of headers, `SchemaHeader`) | `Contracts` |
| `EvidenceBundle` | bundle objects and the caller's lists, maps and items as a state machine | `EvidenceCore` |
| `GoVerify` | the go-verify program on exported, possibly edited wire documents | `EvidenceCore` |
| `SealedEvidence` | what seal and verify promise, without digests, sharing or SDKs | instantiated by `EvidenceBundle` under a refinement mapping |
| `JsonDocument` | values of any nesting, documents built from them key by key; each SDK's order of keys and escapes of characters | |
| `CanonicalJson` | the three encoders of canonical JSON, on whole documents | `JsonDocument` |
| `HarnessVersion` | harness versions, callers' locks and references as a state machine | `Contracts` |
| `LocalRunner` | concurrent `Execute` calls and the runtime | `EvidenceCore` (an instance with runs and effects as its data) |
| `LocalRunnerHistory` | `LocalRunner` with what the runtime had recorded when each `Execute` was called | `LocalRunner` |
| `UiCapture` | concurrent captures over one seam, a page that goes on changing | |
| `CanonicalJsonProofs` (also `JsonDocument`), `EvidenceBundleProofs`, `EvidenceRefinementProofs`, `GoVerifyProofs`, `HarnessVersionProofs`, `LocalRunnerProofs`, `LocalRunnerHistoryProofs` (also `LocalRunnerProofs`), `UiCaptureProofs` | theorems and proofs | the module each is named after |
| `MC*` | finite instances | |

How state and actions correspond to the code:

- **EvidenceBundle.** `bundle[b]` is the object's fields; `list` and `map` are
  references, to the bundle's own list or map (named by `b` itself) or to one
  of the caller's. An item list holds values (Go copies) and caller objects
  (TypeScript and Python keep them); `Deref` reads them as they are *now*,
  which is what `Body` in the code does. One action per constructor, method
  and field assignment; a rejected call changes nothing and is no step.
  `WriteItem`, `WriteMap` and `PushItem` are the caller's own later writes;
  `Tamper` overwrites an element of the public item list in place, `WriteScope`
  the bundle's own scope map. `sealed` and `tampered` are history: no action
  reads them.
- **SealedEvidence.** Abstract: evidence, the evidence last sealed, and what
  verify answers. The mapping takes a bundle's evidence from the objects it
  refers to *now* and reads blank and unset text alike; its seals come from the
  history `sealed`; its answer is the code's `Verify`. Evidence is `Sealable` if
  it has an item and `Sound` if every digest is one that all SDKs accept.
- **Digests.** SHA-256 over canonical JSON is taken to be collision-free, so a
  digest *is* the set that holds the one canonical document; `CanonicalJson`
  checks for which documents that is true. An optional key
  is a set of at most one value, so "the key is absent" is `{}`; this is where
  the three SDKs' rules for blank, unset, null and falsy text differ, and they
  differ in the model (`EmitText`, `EmitSeed`).
- **HarnessVersion.** `locks` and `refs` are the objects, own and callers';
  `Construct` reads, validates, and copies or keeps as each SDK does. `touched`
  remembers which objects had their own fields written. A role of a lock is a
  set of at most one component; Go renders a missing one as the zero value.
  Texts that no rule looks at (id, version, `evidence_schema`) are left out.
- **GoVerify.** `doc` is the wire document an SDK exported (`Init`, `ToJSON`),
  edited by `EditEnvelope` and `EditBody` (header, items, environment, scope keys
  written and deleted) until the program reads it; then one
  action per phase of `main`, and per item in its two loops (`CheckNext`,
  `AddNext`; `at` is how far the present one is), each adding to `failures` what
  the code counts there. `pc` names the phase that is next. `Rebuild` makes the Go
  bundle, from the header read; until then `rebuilt` is `NotYetBuilt`.
  The digest here is over the body *and* `api_version`, which the other modules
  leave out because within the SDKs it is one constant. `origin` is history:
  what the exporting bundle sealed.
- **JsonDocument, CanonicalJson.** Documents are trees; a map lists its entries
  in the order of insertion, a Go struct in that of declaration, and a reference
  marshals itself. `Before` and `Escape` are what each language's encoder does
  with two keys and with a character, `Ordered` sorts by the one and `Encode`
  writes the whole, given the texts of the components. `Value` is the set of
  values that may occur, at any depth, with all they hold; `TextsOf`, `SameAs`
  and `PartsOf` are functions on it, recursive along `Depth`. Characters are atoms
  of a few kinds: what every encoder escapes, what only Go's does. A key is quoted
  and escaped as any text is: `Spelling` gives its characters. What its characters
  do not show of it, how it sorts by code point and by UTF-16 unit and whether it
  is an array index, constants say. `CanonicalTexts` are the texts of a document.
- **UiCapture.** `capture` is cut at its awaits: `Call` with its check, one
  `Answer` or `Reject` per seam call, `Return`. `page` is what is behind the
  seam, so one module covers a browser and `StaticUICapture`, which keeps the
  object it was built from. A digest stands for what was hashed; `captured_at`
  is the clock at that moment. `past` is history: what was shown, and when.
- **LocalRunner.** `Execute` is cut at its adapter calls, because that is where
  the rest of the system moves: `Invoke`, `StartRun`, `FetchEffects`,
  `StatusAndSeal` (Go) or `SealOnly`; from the last adapter call on it touches
  only its new bundle, so building, adding, sealing is one step, with all its
  error paths (`Buildable`). `StartFails` and `AdapterFails` are the early
  returns; the run then stays, as nothing calls `CancelRun`. The runtime is
  external: it may answer equal requests with one run (the stubs in the tests
  of all SDKs do), start a run and lose the answer, interrupt, resume, end a
  run, or never begin it. The Python runner fetches once, like the others, so
  its evidence depends on how far the run has got. The ids of a run and of its
  bundle are words between dots: `BundleId` puts a prefix before the run id in
  TypeScript, a suffix after it in Go and Python, and `MatchesPattern` is the
  schema's pattern for the result. Contract, harness and run references may be blank; the
  SUT goes with the scenario. `LocalRunnerHistory` adds `since`, which no action reads:
  how many effects each run had when a call was made; `runner` checks its `HistSpec`.

`EmitTextAlways`, `AddItemByReference` and other definitions marked *Bug* are
not part of any specification: they are the faults each property was tried on.

## Checks

| Run | Question | Result |
|---|---|---|
| `evidence_go` | Two Go bundles, two headers, lists up to 2, a caller's item and map, items overwritten in place | `TypeOK`, `VerifiedIsWhatWasSealed`, `GoSealIsVerifiable`, `GoSealIsIsolated` hold |
| `evidence_mixed` | Two bundles of any two SDKs sharing the caller's list, map and item, scopes written in place; do they implement `SealedEvidence`? | `IInv`, `VerifiedIsWhatWasSealed`, `NoSharedDefaults`, `SameEvidenceSameDigest`, `SchemaValidSealTravels`, `IsSealedEvidence` hold |
| `evidence_exchange` | Does a seal verify in every SDK? | violated: see below |
| `go_verify` | Documents of any SDK, up to three edits, through go-verify | `TypeOK`, `IInv`, `PassedRebuiltItAll`, `MatchedIsWhatWasSealed`, `SchemaValidPasses` hold |
| `verify_export` | Does what an SDK sealed and exported pass and match? | violated |
| `harness_version` | Two harnesses of any SDKs, sharing the caller's lock and reference | `TypeOK`, `IInv`, `DigestIdentifiesHarness`, `GoHarnessIsFrozen`, `PortableParity` hold |
| `harness_frozen` | Is a published harness frozen in every SDK? | violated |
| `harness_parity` | One canonical form for any content? | violated |
| `runner` | Two concurrent `Execute` calls of any SDKs, two runs (the ref of one is blank), fit and unfit run ids, references and effects: are results of their runs and no older than their calls, and does `Execute` come back? | `TypeOK`, `CallFollowsItsRun`, `ResultIsOfItsRun`, `ResultVerifiesInEverySdk`, `StatusNotOlderThanEvidence`, `ResultIsSchemaValid`, `HistInv`, `EvidenceIsFresh`, `ExecuteReturns` hold |
| `canonical` | Two documents built key by key, encoded by the three SDKs | `TypeOK`, `OneTextPerDocument`, `OneDocumentPerText`, `PortableSameText` hold |
| `canonical_parity` | One canonical text for any document? | violated |
| `ui_capture` | Two captures over one seam while page and clock go on | `TypeOK`, `EvidenceIsOfItsCapture`, `CaptureIsInOrder`, `CaptureSettles` hold |

Bounds. Two bundles (harnesses, calls, documents, captures) are enough for every
property here: each relates at most two of them. Lists of one item already exercise
sharing, and two items order; the item values are one per rule of acceptance and per
way of leaving a note out: `evidence_go` has an item accepted by all SDKs and one
accepted by none, `evidence_mixed` one without a note and one that only Python
accepts. Locks are one per rule: complete, with a component of another kind, with
one missing, with a fifth role. `MaxItems` and `MaxEffects` bound what the code does
not. `evidence_go` overwrites items in place and `evidence_mixed` writes scopes in
place (an extra key included); the proofs cover both together. Three edits of a
document (`MaxEdits`) are an `api_version` and two more, the least that adds an item
and changes another. In `runner` a run ends in one way (`failed`, which no literal
in the runners mentions); the outcomes differ in nothing else. Its three scenarios
are one with a blank harness reference, one with a blank contract and an effect with
a malformed digest, one with two effects; its seven calls use them with a run id
that makes a fit bundle id in every SDK, one that does in TypeScript only and one
that does in none. Documents have two keys at the top (`MaxKeys`); of the eleven
keys one unescaped would read like two and one is U+2028. Their values are 15,
nested up to two deep (a reference in a list): objects of each kind, and a map whose
keys come in either order. TLC asks of the recursive functions that they have their
types (`Tabulated`). One tick of the clock (`MaxTime`) separates any two awaits, at
any point. Bundles, harnesses and authors are symmetric; no symmetry is used where
liveness is checked.

Fairness. `LocalRunner` assumes only that each pending adapter call is answered
at last, with a result or an error (`WF_vars(Answer(c))`); an error is never
*owed*. Nothing is assumed of the runtime's progress. The runner sets no
timeout, so a runtime that does not answer blocks `Execute` for ever: this
assumption is the adapter's part of the contract, not something the runner
ensures. `UiCapture` assumes as much of its seam, in `WF_vars(Resume(c))`: every
await ends, by an answer or a rejection, and the event loop resumes the capture.
It also takes the wall clock not to go back. The other modules state safety
only, without fairness.

### Where the documentation and the code differ

- `evidence_exchange`: Python accepts a digest followed by a newline (`$` in
  `re.match`); such evidence seals and verifies in Python and nowhere else,
  while the Go README says evidence sealed in any SDK verifies in the others.
  `SchemaValidSealTravels` says of which evidence that is true: of what the
  published schema takes, however it was written to.
- `verify_export`: the SDKs write `api_version` v1 and go-verify takes only
  v1alpha1, so it calls every exported bundle "not an EvidenceBundle"; and as
  it rebuilds in v1, no honest v1alpha1 digest can match. It matches only for a
  v1 document relabelled v1alpha1. (Nor does it parse `environment_digest`,
  though it "verifies every digest it references"; the schema allows any string
  there, and `SchemaValidPasses` would fail if the program did.)
- `harness_frozen`: TypeScript and Python keep the caller's lock, so writing to
  it after `publish` makes the digest stale though no field of the "immutable
  HarnessVersion" was written.
- `harness_parity`: a blank seed is emitted by TypeScript and Python and left
  out by Go, so that "the canonical form matches" only for other seeds
  (`PortableParity` says exactly when it does).
- `canonical_parity`: Go's encoder escapes U+2028 and U+2029 even with HTML escaping
  off, in keys as in texts, a bare `Reference` is encoded with it on, and a
  JavaScript object lists keys like "9" and "10" in numeric order after `sortKeys`;
  such documents have other digests in other SDKs, though `contracts.go:80` and
  `contracts.go:8` say they do not. `PortableSameText` says when the three agree.

Also worth knowing, though no document says otherwise: Go's `SetScope` checks
the keys of a map and keeps the map, so a key added later is sealed and emitted
in a form the schema refuses, while `NewHarnessVersion` copies what it validates;
no runner checks its arguments against the schema, so the Python README's own
`run_id="run.001"` makes a bundle id, `run.001.evidence`, that the schema's pattern
refuses (`ResultIsSchemaValid` says exactly what a caller must pass); and failure
evidence may mix two states of a page, one per await.

## Proofs

Each theorem holds for every value of the constants that meets the assumptions
named with it; TLC evaluates those assumptions in the runs. They are that names
and values which the code tells apart differ, and that bounds are natural numbers.

**EvidenceBundleProofs** (`ContractsAssumption`, `CoreAssumption`,
`BundleAssumption`: blank and unset are not among the proper values, and the
names of bundles and of callers' objects differ), for all sets of bundles,
callers' lists, maps and items, and lists of any bounded length:
`InductiveInvariant` (`Spec => []IInv`), `TypeCorrect`, `SealIntegrity`
(`VerifiedIsWhatWasSealed`), `GoSealVerifies` (`GoSealIsVerifiable`), `NoSharing`
(`NoSharedDefaults`), `GoSealIsolation` (the action property
`GoSealIsIsolated`), `DigestParity` (`SameEvidenceSameDigest`) and `SealsTravel`
(`SchemaValidSealTravels`).

The properties are not inductive: `SealIntegrity` says something of the
*present* content, which callers change at will, so the invariant has to speak
of the digest instead. `DigestIsOfSealed` says that a digest was computed from
the content the last seal saw, non-empty, and for TypeScript with known scope
keys only (its body drops others), and that a bundle never sealed has none;
`Ownership` says who may hold which list and map, so that a step on one object
leaves the others alone; `GoItemsAreOwn` says a Go list holds values whose
digests were read when they were added. From there, lemma `BodyInjective` takes
over: if the present content has the sealed digest, the two have the same
canonical body, and a body determines the evidence up to blank against unset
text. `GoSealVerifies` follows from `GoItemsAreOwn` alone. `GoSealIsolation`
needs `Ownership` and `GoItemsAreOwn` and no case split on the step: a Go list
holds no caller object, so what verifies reads only the fields, the list and the
map. `DigestParity` goes the way opposite to `BodyInjective`: lemma `BodyAgrees`
says that each SDK emits the same body for the same evidence. `SealsTravel` adds
`ReadIntoIsSame`: what another SDK reads from the wire is the same evidence, and
the schema asks for digests and scope keys on which no two SDKs disagree.

**EvidenceRefinementProofs**: `SealedEvidenceImplemented`, `Spec =>
IsSealedEvidence`, from the same assumptions. In every state of `IInv` the
abstract promise holds (`PromiseKept`): what verifies is sealed by
`BodyInjective`, and what is sealed and sound is accepted because its digest was
computed from that body. Then a step of a bundle's `Seal` is `SealBundle`, and
every other step, those on shared objects included, is `Change`, since none
writes `sealed` (`OnlySealSeals`).

**HarnessVersionProofs** (`HarnessAssumption`): `InductiveInvariant`,
`TypeCorrect`, `GoFreezes` (`GoHarnessIsFrozen`), `DigestIdentity`
(`DigestIdentifiesHarness`), `DigestParity` (`PortableParity`). The invariant
adds who may hold which lock and reference (`Ownership`: Go its own, so no
caller's write reaches it), that a Go seed is never unset, and that a digest is
of the content at the last publish (`DigestIsOfPublished`). `DigestIdentity`
follows by `BodyInjective`, which needs that a role holds at most one component;
`DigestParity` by `LockJsonPortable`, which says where the three renderings of a
lock coincide.

**LocalRunnerProofs** (`RunnerAssumption`), for any numbers of calls, runs and
scenarios, any plan of effects and any references: `InductiveInvariant`,
`TypeCorrect`, `CallsFollowTheirRuns`, `ResultsAreOfTheirRuns`, `ResultsVerify`,
`StatusesAreFresh`, `ResultsAreSchemaValid`. A call between its fetch and its
return speaks of a run that has moved on since, so the invariant says of each
call that its handle is of a run for its own request and that what it fetched is
how that run's effects began (`CallFollowsItsRun`), and of each run that it has
one record and, while pending, no effects (`RunsAreWellFormed`). Results are
never written again and runs only grow (`Continues`), so whatever is true of
both stays so: one lemma says it for all steps of the runtime and of other
calls. What a result holds when it is made is computed once, in
`BuiltItemsShape`, `BuiltIsSound` and `BuiltBodyAgrees`. `ResultsAreSchemaValid`
says when a result meets the schema and when it does not: lemma `FitRunIdsMatch`
turns the id's pattern into a condition on the run id, for each SDK, and
`BuiltHeaderConforms` adds the references; the rest of the body always conforms.

**LocalRunnerHistoryProofs** (`RunnerAssumption`): `ResultsAreFresh`
(`EvidenceIsFresh`), that no result leaves out an effect its run already had when
`Execute` was called, whatever calls share the run. `HistoryInvariant` (`HistInv`)
is what it needs beside `LocalRunner`'s own invariant: no run has fewer effects
than a call knew of, and no call has fetched fewer. The first holds as runs only
grow (`NextGrows`), the second as a call fetches once, after it was made;
`ToldIsAll` says that a bundle tells of all that was fetched, in Python by
number. `HistoryOnlyWatches` (`HistSpec => Spec`) says that the history allows
`LocalRunner` no other behaviour, so all that is proved of `LocalRunner` holds with it.

**UiCaptureProofs** (`UiAssumption`), for any number of captures and any clock:
`TypeCorrect`, `CapturesAreInOrder`, `EvidenceIsHonest`
(`EvidenceIsOfItsCapture`). `CaptureIsInOrder` is the invariant: the same
promise for a capture under way, with what it must hold at each await.

**GoVerifyProofs** (`CoreAssumption`, `GoVerifyAssumption`), for documents of any
length from any SDK, any edits and any number of them: `InductiveInvariant`,
`TypeCorrect`, `PassedIsComplete` (`PassedRebuiltItAll`), `MatchedIsSealed`
(`MatchedIsWhatWasSealed`), `SchemaValidDocumentsPass` (`SchemaValidPasses`). The
properties speak of the exit, the program of one item at a time; the invariant
says for each phase what a count of no failures means by then: the Go bundle has
the scope, the fields and the first `at` items of the document (`RebuiltSoFar`).
A match is with the digest of that bundle (`MatchIsOfRebuilt`), an edit cannot
compute a digest (`SealIsFromOrigin`), and a document that the schema takes has
no failures at any phase. Lemma `RebuiltBody` then says that the body of a bundle
with all of the document is the document's own, but for blank keys.

**CanonicalJsonProofs**, for documents of any size over any keys and characters,
their values nested to any depth. `KeyAssumption`: a rank tells keys apart, and the
orders by code point and by UTF-16 differ only between keys beyond the BMP and
keys above the surrogates. `SpellingAssumption`: keys differ in their characters,
none of which is an escape. `ValueAssumption`: the values an author may use are
well formed (an object has a key once, an atom is no punctuation) and hold values
of a smaller `Depth`, which is to say that no value contains itself.
`InputAssumption`: authors write keys and values. The theorems:

- `TypeCorrect`: a document is a map that has each key once.
- `OneDocumentPerTextHolds` (`OneDocumentPerText`): the text decides the document.
  The claim that goes through the induction over `Depth` is stronger: a value is
  told from any other by its text *whatever follows it* (`Telling`), since that is
  how a component stands in a text. `EnclosedTold` says it of parts in a row, from
  the left: no part starts like the closing sign, so both texts go on or both end,
  and the next parts are equal because each is told. The first sign tells the form
  (`FirstSign`); for characters it tells the length of the escape
  (`EscapedCharactersAreTold`), and so where a text or a key ends (`QuotedTold`):
  an entry is told by its key first (`MemberTold`).
- `OneTextPerDocumentHolds` (`OneTextPerDocument`) and `PortableSameTextHolds`
  (`PortableSameText`): what says the same is written the same (`Agreeing`), by the
  same induction. Keys stand in a strict order in one way only (`OneOrderOfKeys`,
  `OneOrderPerObject`), so entries with the same keys are paired by place
  (`EntriesPaired`); `Plain` carries down what Go needs, that no struct, and no HTML
  (in a key or a text) inside a reference, is met. `Sorted` is a CHOOSE: that there
  is a sorted list of the entries is `SortedIs`, by insertion.

The encoders are recursive functions, and a recursive definition says nothing
until some function is known to satisfy it. The library's theorems about that take
operators, which no prover here can instantiate, so `RecursionTheorem` states it
with functions only: a step that looks only at values of a lower rank has a
solution. `RankInduction` is induction in the same terms, over a set instead of a
predicate. `TextsOfIs`, `SameAsIs`, `PartsOfIs` and `EnclosedRest` are what follows
for the four recursions of `CanonicalJson`.

Model-checked only: the liveness properties `ExecuteReturns` and `CaptureSettles`.
Liveness under fairness and `ENABLED` are out of the prover's reach.

## Not modelled

- `TraceEnvelope`: a list of checked perspectives without digest or seal;
  nothing it emits depends on an earlier call.
- The contract baseline, fixture, OpenAPI and version scripts, the parity
  programs and CI: sequential passes over the files of a checkout.
- The Python `Schema` validator and the JSON Schema library; contract schemas
  and fixtures are data, of which `EvidenceCore` states what SDK code can meet
  or break.
- Hashing and regular expressions. In `CanonicalJson`: `__proto__` keys, integers
  beyond 2^53, fractions, lone surrogates and undefined values.
- `missing()`, a query; `cancel`, `checkpoint` and `probe` of the adapter, which
  no code calls; the effects list that a result shares with the adapter;
  assigning a whole new list, map or lock, or a digest of the caller's choosing,
  to a public field; Go struct literals that bypass the constructors.

## Plan

1. Composing export and import: two SDKs' live bundles that exchange documents
   (`EvidenceBundle` with `GoVerify`'s documents), and the runner's result sent the
   same way; `SchemaValidSealTravels` is its one step.
2. Caller-written `bundle_digest` and replaced lists and maps in
   `EvidenceBundle`, and the weaker promise that is left then.
3. An abstract `Execute` that the three runners implement, atomic at its fetch.
   `EvidenceIsFresh` and `ResultIsOfItsRun` already say that evidence is of one
   state of its run, no older than the call; the refinement would add the status.
4. The rest of the adapter (`cancel`, `checkpoint`) once some code calls it.
