--------------------------- MODULE HarnessVersion ---------------------------
(***************************************************************************)
(* HarnessVersion authoring in the three SDKs, with the component lock and *)
(* contract reference the caller passes in.  Go copies both; TypeScript    *)
(* keeps the lock and copies the reference; Python keeps both.  All fields *)
(* stay writable, and publish may be called at any time and again.         *)
(***************************************************************************)
EXTENDS Contracts

CONSTANTS
    Harness,        \* HarnessVersion objects, in any SDK
    CallerLock,     \* component locks the caller holds
    CallerRef,      \* contract references the caller holds
    UsedSdk,        \* the SDKs of this instance
    Name,           \* non-blank texts: id, version and the like
    Mode,           \* determinism modes a caller may pass, known or not
    LockInput,      \* values the caller gives to locks
    RefInput,       \* values the caller gives to contract references
    SeedInput       \* values the caller gives to a seed

Required == {"runner", "adapter", "oracle", "reporter"}
Role == Required \cup {"other"}
KnownModes == {"deterministic", "statistical", "hybrid"}

\* A role of a lock is a set of at most one component reference.
Component == [kind: {"HarnessComponent", "other", ""}, name: Name \cup {""},
              digest: DigestText \cup {""}]
Lock == [Role -> SUBSET Component]
NoLock == [r \in Role |-> {}]

\* name stands for the kind, id and version of a reference.
Reference == [name: Name \cup {""}, digest: DigestText \cup {""}]
NoReference == [name |-> "", digest |-> ""]

ASSUME HarnessAssumption ==
    /\ UsedSdk \subseteq Sdk
    /\ LockInput \subseteq Lock
    /\ \A k \in LockInput, r \in Role : \A x, y \in k[r] : x = y
    /\ RefInput \subseteq Reference
    /\ SeedInput \subseteq OptionalText(Name)
    /\ "deterministic" \in Mode
    /\ "" \notin Name /\ Unset \notin Name
    /\ Harness \cap CallerLock = {}
    /\ Harness \cap CallerRef = {}

VARIABLES
    hv,         \* [Harness -> fields of the object]
    locks,      \* component locks: each harness's own, and the caller's
    refs,       \* contract references: likewise
    touched,    \* history: harnesses whose own fields were written
    published   \* history: the plain content at the last publish, if any

vars == <<hv, locks, refs, touched, published>>

LockRef == Harness \cup CallerLock
RefRef == Harness \cup CallerRef

Made(h) == hv[h].sdk # "none"

ContentOf(h) == [lock |-> locks[hv[h].lock], ref |-> refs[hv[h].ref],
                 mode |-> hv[h].mode, seed |-> hv[h].seed]
-----------------------------------------------------------------------------
(* The canonical form *)

\* Bugs: Python emits null for what was never set; Go's loop captures one role.
EmitSeedNull(sdk, t) == IF sdk = "py" THEN {t} ELSE {t} \ {"", Unset}
LockJsonOneRole(sdk, k) ==
    [r \in Role |-> IF sdk = "go" THEN k["runner"] ELSE k[r]]

\* Go omits "", the others only what was never set.
EmitSeed(sdk, t) == IF sdk = "go" THEN {t} \ {""} ELSE {t} \ {Unset}

\* The zero ComponentRef, which Go renders for a role that is not there.
ZeroComponent == [kind |-> "", name |-> "", digest |-> ""]
OrZero(k, r) == IF k[r] = {} THEN {ZeroComponent} ELSE k[r]

\* Go renders the four roles, the others every role of the lock.
LockJson(sdk, k) ==
    [r \in Role |-> IF sdk # "go" THEN k[r]
                    ELSE IF r \in Required THEN OrZero(k, r) ELSE {}]

Content == [lock: Lock, ref: Reference, mode: Mode, seed: OptionalText(Name)]
BodyDoc == [lock: Lock, ref: Reference, mode: Mode, seed: SUBSET (Name \cup {""})]

Body(sdk, c) ==
    [ref |-> c.ref, lock |-> LockJson(sdk, c.lock), mode |-> c.mode,
     seed |-> EmitSeed(sdk, c.seed)]

\* Collision-free: a digest stands for the body; {} is one not set.
CanonicalDigest(h) == {Body(hv[h].sdk, ContentOf(h))}
Unpublished == {}
-----------------------------------------------------------------------------
(* Construction *)

\* Go's Validate looks at the digest only.
AcceptsRef(sdk, v) ==
    /\ sdk # "go" => v.name # ""
    /\ ParsesDigest(sdk, v.digest)

AcceptsComponent(sdk, x) ==
    /\ sdk = "go" => x.kind = "HarnessComponent"
    /\ sdk = "ts" => x.kind # ""
    /\ ParsesDigest(sdk, x.digest)

AcceptsLock(sdk, k) ==
    \A r \in Required :
        /\ k[r] # {}
        /\ \A x \in k[r] : AcceptsComponent(sdk, x)

\* TypeScript defaults a mode that is undefined; Python checks none.
AcceptsMode(sdk, m) == sdk = "py" \/ m \in KnownModes

Init ==
    /\ hv = [h \in Harness |-> [sdk |-> "none", lock |-> h, ref |-> h,
                mode |-> "deterministic", seed |-> "", digest |-> Unpublished]]
    /\ locks = [k \in LockRef |-> NoLock]
    /\ refs = [v \in RefRef |-> NoReference]
    /\ touched = {}
    /\ published = [h \in Harness |-> {}]

Construct(h, sdk, k, v, m, s, ownLock, ownRef) ==
    /\ sdk \in UsedSdk
    /\ ~Made(h)
    /\ AcceptsRef(sdk, refs[v]) /\ AcceptsLock(sdk, locks[k]) /\ AcceptsMode(sdk, m)
    /\ hv' = [hv EXCEPT ![h] =
                [sdk |-> sdk, lock |-> IF ownLock THEN h ELSE k,
                 ref |-> IF ownRef THEN h ELSE v, mode |-> m,
                 seed |-> IF sdk = "go" THEN Plain(s) ELSE s,
                 digest |-> Unpublished]]
    /\ locks' = IF ownLock THEN [locks EXCEPT ![h] = locks[k]] ELSE locks
    /\ refs' = IF ownRef THEN [refs EXCEPT ![h] = refs[v]] ELSE refs
    /\ UNCHANGED <<touched, published>>

\* Bug: the lock is validated and kept, not copied.
NewGoKeepsLock(h, k, v, m, s) == Construct(h, "go", k, v, m, s, FALSE, TRUE)

NewGo(h, k, v, m, s) == Construct(h, "go", k, v, m, s, TRUE, TRUE)
NewTs(h, k, v, m, s) == Construct(h, "ts", k, v, m, s, FALSE, TRUE)
NewPy(h, k, v, m, s) == Construct(h, "py", k, v, m, s, FALSE, FALSE)

\* Publish validates nothing and may be repeated.
Publish(h) ==
    /\ Made(h)
    /\ hv' = [hv EXCEPT ![h].digest = CanonicalDigest(h)]
    /\ published' = [published EXCEPT ![h] = {ContentOf(h)}]
    /\ UNCHANGED <<locks, refs, touched>>

\* Assignments to the object's fields.
SetMode(h, m) ==
    /\ Made(h)
    /\ hv' = [hv EXCEPT ![h].mode = m]
    /\ touched' = touched \cup {h}
    /\ UNCHANGED <<locks, refs, published>>

SetSeed(h, s) ==
    /\ Made(h)
    /\ hv' = [hv EXCEPT ![h].seed = IF hv[h].sdk = "go" THEN Plain(s) ELSE s]
    /\ touched' = touched \cup {h}
    /\ UNCHANGED <<locks, refs, published>>

\* Writes through a lock or reference somebody holds: the object's own entries
\* (k = h) or the caller's.
WriteLock(k, value) ==
    /\ k \in Harness => Made(k) /\ hv[k].lock = k
    /\ locks' = [locks EXCEPT ![k] = value]
    /\ touched' = touched \cup ({k} \cap Harness)
    /\ UNCHANGED <<hv, refs, published>>

WriteRef(v, value) ==
    /\ v \in Harness => Made(v) /\ hv[v].ref = v
    /\ refs' = [refs EXCEPT ![v] = value]
    /\ touched' = touched \cup ({v} \cap Harness)
    /\ UNCHANGED <<hv, locks, published>>

Next ==
    \/ \E h \in Harness, k \in CallerLock, v \in CallerRef, m \in Mode, s \in SeedInput :
          NewGo(h, k, v, m, s) \/ NewTs(h, k, v, m, s) \/ NewPy(h, k, v, m, s)
    \/ \E h \in Harness : Publish(h)
    \/ \E h \in Harness, m \in Mode : SetMode(h, m)
    \/ \E h \in Harness, s \in SeedInput : SetSeed(h, s)
    \/ \E k \in LockRef, value \in LockInput : WriteLock(k, value)
    \/ \E v \in RefRef, value \in RefInput : WriteRef(v, value)

Spec == Init /\ [][Next]_vars
-----------------------------------------------------------------------------
(* Properties *)

\* Every variable keeps its type.
TypeOK ==
    /\ hv \in [Harness -> [sdk: Sdk \cup {"none"}, lock: LockRef, ref: RefRef,
                  mode: Mode, seed: OptionalText(Name), digest: SUBSET BodyDoc]]
    /\ locks \in [LockRef -> Lock]
    /\ refs \in [RefRef -> Reference]
    /\ touched \subseteq Harness
    /\ published \in [Harness -> SUBSET Content]

\* What a reader means by the same harness: blank and never set are one, and
\* so are a component that is not there and the zero component.
SameHarness(c, d) ==
    /\ c.ref = d.ref /\ c.mode = d.mode
    /\ Plain(c.seed) = Plain(d.seed)
    /\ \A r \in Required : OrZero(c.lock, r) = OrZero(d.lock, r)

\* A digest identifies the harness it was published for: two harnesses, of any
\* SDKs, hold the same digest only if they were the same when published.
DigestIdentifiesHarness ==
    \A g, h \in Harness : \A c \in published[g], d \in published[h] :
        hv[g].digest = hv[h].digest => SameHarness(c, d)

\* "frozen" in Go: as long as nobody writes the object's own fields, the lock it
\* was built with stays complete and valid and the digest it published stays the
\* canonical one, whatever the caller does to the lock and reference it passed.
GoHarnessIsFrozen ==
    \A h \in Harness \ touched : hv[h].sdk = "go" =>
        /\ AcceptsLock("go", locks[hv[h].lock])
        /\ AcceptsRef("go", refs[hv[h].ref])
        /\ hv[h].digest \in {Unpublished, CanonicalDigest(h)}

\* Who may hold which lock and reference: Go its own, TypeScript the caller's
\* lock, Python the caller's lock and reference.
Ownership ==
    \A h \in Harness :
        /\ hv[h].lock \in {h} \cup CallerLock
        /\ hv[h].ref \in {h} \cup CallerRef
        /\ hv[h].sdk = "go" => hv[h].lock = h /\ hv[h].ref = h

\* A Go seed is a string.
GoSeedIsSet == \A h \in Harness : hv[h].sdk = "go" => hv[h].seed # Unset

\* The digest is of the content at the last publish, as this SDK renders it; a
\* harness that was never published has none.
DigestIsOfPublished ==
    \A h \in Harness :
        /\ hv[h].sdk = "none" => published[h] = {}
        /\ \A c \in published[h] : hv[h].digest = {Body(hv[h].sdk, c)}

\* What makes the properties inductive, as the proofs use it: who may hold which
\* lock and reference, what a Go seed can be, and that a digest is of the content
\* at the last publish.  Each is about what the constructors copy and keep.
IInv ==
    /\ TypeOK
    /\ Ownership
    /\ GoSeedIsSet
    /\ DigestIsOfPublished
    /\ GoHarnessIsFrozen

\* A harness every SDK can express: exactly the four roles, no blank seed where
\* a blank one is emitted.
Portable(h) ==
    /\ Made(h)
    /\ \A r \in Role : r \in Required <=> locks[hv[h].lock][r] # {}
    /\ hv[h].sdk # "go" => hv[h].seed # ""

\* The three SDKs give a portable harness the same digest, after any history of
\* construction, aliasing and field writes.
PortableParity ==
    \A g, h \in Harness :
        /\ Portable(g) /\ Portable(h)
        /\ SameHarness(ContentOf(g), ContentOf(h))
        => CanonicalDigest(g) = CanonicalDigest(h)

\* harness.go:4: "The canonical form matches the Python and TypeScript SDKs":
\* one content, one digest.
CanonicalFormsMatch ==
    \A g, h \in Harness :
        /\ Made(g) /\ Made(h)
        /\ SameHarness(ContentOf(g), ContentOf(h))
        /\ locks[hv[g].lock] = locks[hv[h].lock]
        => CanonicalDigest(g) = CanonicalDigest(h)

\* harness.py:4: "components frozen into an immutable HarnessVersion with a
\* digest": a published harness whose own fields nobody wrote keeps its digest.
PublishedIsFrozen ==
    \A h \in Harness \ touched :
        hv[h].digest \in {Unpublished, CanonicalDigest(h)}
=============================================================================
