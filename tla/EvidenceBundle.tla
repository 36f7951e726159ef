--------------------------- MODULE EvidenceBundle ---------------------------
(***************************************************************************)
(* Evidence bundles of the three SDKs, together with the caller's own      *)
(* objects that a bundle may hold by reference.  A Go bundle copies items  *)
(* and keeps the map given to SetScope; a TypeScript bundle keeps the      *)
(* items and the item list and copies the scope; a Python bundle keeps all *)
(* three.  The caller goes on using its objects after handing them over.   *)
(***************************************************************************)
EXTENDS EvidenceCore

CONSTANTS
    Bundle,         \* bundle objects, in any SDK
    CallerList,     \* item lists the caller holds
    CallerMap,      \* scope maps the caller holds
    CallerItem,     \* item objects the caller holds
    UsedSdk,        \* the SDKs of this instance
    ItemInput,      \* values the caller gives to items
    ScopeInput,     \* values the caller gives to scope maps
    EnvInput,       \* values the caller gives to environment_digest
    TamperInput,    \* values written into the item list of a bundle
    OwnScopeInput,  \* values written into the scope of a bundle
    MaxItems        \* bound on the length of an item list

ASSUME BundleAssumption ==
    /\ UsedSdk \subseteq Sdk
    /\ ItemInput \subseteq Item
    /\ TamperInput \subseteq Item
    /\ ScopeInput \cup OwnScopeInput \subseteq Scope
    /\ EmptyScope \in ScopeInput
    /\ EnvInput \subseteq OptionalText(DigestText)
    /\ MaxItems \in Nat
    /\ Header # {}
    /\ CallerItem \cap Item = {}
    /\ Bundle \cap CallerList = {}
    /\ Bundle \cap CallerMap = {}

VARIABLES
    bundle,     \* [Bundle -> fields of the bundle object]
    lists,      \* item lists: each bundle's own, and the caller's
    maps,       \* scope maps: each bundle's own, and the caller's
    objs,       \* [CallerItem -> Item]
    sealed,     \* history: the content of each bundle when Seal last succeeded
    tampered    \* history: bundles whose items or scope were written in place

vars == <<bundle, lists, maps, objs, sealed, tampered>>

ListRef == Bundle \cup CallerList
MapRef == Bundle \cup CallerMap

\* An element of an item list is a value of its own or a caller's object.
Cell == Item \cup CallerItem

\* A Go string that nobody set is "".
GoItem(i) == [i EXCEPT !.note = Plain(@)]
OwnItem(sdk, i) == IF sdk = "go" THEN GoItem(i) ELSE i

BundleFields == [sdk: Sdk \cup {"none"}, header: Header, list: ListRef,
                 map: MapRef, env: OptionalText(DigestText),
                 digest: SUBSET BodyDoc]

Made(b) == bundle[b].sdk # "none"

\* The value a cell has now.
Deref(c) == IF c \in CallerItem THEN objs[c] ELSE c

ItemsOf(b) == [n \in DOMAIN lists[bundle[b].list] |->
                  Deref(lists[bundle[b].list][n])]

ContentOf(b) ==
    [header |-> bundle[b].header, scope |-> maps[bundle[b].map],
     items |-> ItemsOf(b), env |-> bundle[b].env]

Verifies(b) == Made(b) /\ VerifyOk(bundle[b].sdk, ContentOf(b), bundle[b].digest)

-----------------------------------------------------------------------------
\* The header of a bundle that is not made yet; nothing reads it.
NoHeader == CHOOSE h \in Header : TRUE

Init ==
    /\ bundle = [b \in Bundle |->
                    [sdk |-> "none", header |-> NoHeader,
                     list |-> b, map |-> b, env |-> "", digest |-> Unsealed]]
    /\ lists = [l \in ListRef |-> <<>>]
    /\ maps = [m \in MapRef |-> EmptyScope]
    /\ objs \in [CallerItem -> ItemInput]
    /\ sealed = [b \in Bundle |-> {}]
    /\ tampered = {}

Create(b, sdk, h, l, m, e) ==
    /\ sdk \in UsedSdk
    /\ ~Made(b)
    /\ bundle' = [bundle EXCEPT ![b] =
                    [sdk |-> sdk, header |-> h, list |-> l, map |-> m,
                     env |-> e, digest |-> Unsealed]]
    /\ UNCHANGED <<lists, objs, sealed, tampered>>

\* NewBundle: its own empty list and map.
NewGo(b, h) == Create(b, "go", h, b, b, "") /\ UNCHANGED maps

\* new EvidenceBundle(init): init.items is kept as it is, or a new list if
\* it is absent; the entries of init.scope are copied, or the call throws.
NewTs(b, h, l, m, e) ==
    /\ l \in {b} \cup CallerList /\ m \in {b} \cup CallerMap
    /\ Create(b, "ts", h, l, b, e)
    /\ AcceptsScope("ts", maps[m])
    /\ maps' = [maps EXCEPT ![b] = maps[m]]

\* Bug: the default list is one object, evaluated once (a mutable default).
NewPySharedDefault(b, h, l, m, e) ==
    /\ m \in {b} \cup CallerMap
    /\ Create(b, "py", h, CHOOSE x \in Bundle : TRUE, m, e)
    /\ UNCHANGED maps

\* The dataclass constructor: list and dict are kept as they are.
NewPy(b, h, l, m, e) ==
    /\ l \in {b} \cup CallerList /\ m \in {b} \cup CallerMap
    /\ Create(b, "py", h, l, m, e)
    /\ UNCHANGED maps

Extend(l, c) ==
    /\ Len(lists[l]) < MaxItems
    /\ lists' = [lists EXCEPT ![l] = Append(@, c)]

\* Bug: every SDK keeps the caller's object.
AddItemByReference(b, o) ==
    /\ Made(b)
    /\ AcceptsItem(bundle[b].sdk, objs[o])
    /\ Extend(bundle[b].list, o)
    /\ UNCHANGED <<bundle, maps, objs, sealed, tampered>>

\* AddItem / addItem / add_item of the caller's object o; a rejected item
\* changes nothing.
AddItem(b, o) ==
    /\ Made(b)
    /\ AcceptsItem(bundle[b].sdk, objs[o])
    /\ Extend(bundle[b].list,
              IF bundle[b].sdk = "go" THEN GoItem(objs[o]) ELSE o)
    /\ UNCHANGED <<bundle, maps, objs, sealed, tampered>>

\* AddMissing / addMissing / add_missing build the item themselves.
AddMissing(b, i) ==
    /\ Made(b)
    /\ i.kind = "missing"
    /\ AcceptsItem(bundle[b].sdk, i)
    /\ Extend(bundle[b].list, OwnItem(bundle[b].sdk, i))
    /\ UNCHANGED <<bundle, maps, objs, sealed, tampered>>

\* SetScope exists in Go only; it keeps the map it is given.
SetScope(b, m) ==
    /\ Made(b) /\ bundle[b].sdk = "go"
    /\ m \in CallerMap
    /\ AcceptsScope("go", maps[m])
    /\ bundle' = [bundle EXCEPT ![b].map = m]
    /\ UNCHANGED <<lists, maps, objs, sealed, tampered>>

\* SetScope(nil): a new empty map.
ClearScope(b) ==
    /\ Made(b) /\ bundle[b].sdk = "go"
    /\ bundle' = [bundle EXCEPT ![b].map = b]
    /\ maps' = [maps EXCEPT ![b] = EmptyScope]
    /\ UNCHANGED <<lists, objs, sealed, tampered>>

\* environment_digest is set by assigning the field, in every SDK.
SetEnv(b, e) ==
    /\ Made(b)
    /\ bundle' = [bundle EXCEPT ![b].env =
                    IF bundle[b].sdk = "go" THEN Plain(e) ELSE e]
    /\ UNCHANGED <<lists, maps, objs, sealed, tampered>>

\* The references are public fields too.
SetHeader(b, h) ==
    /\ Made(b)
    /\ bundle' = [bundle EXCEPT ![b].header = h]
    /\ UNCHANGED <<lists, maps, objs, sealed, tampered>>

\* Bug: a bundle that has a digest keeps it, as if computed once.
SealOnce(b) ==
    /\ Made(b)
    /\ CanSeal(ContentOf(b))
    /\ bundle' = [bundle EXCEPT ![b].digest =
                    IF @ # Unsealed THEN @ ELSE Digest(bundle[b].sdk, ContentOf(b))]
    /\ sealed' = [sealed EXCEPT ![b] = {ContentOf(b)}]
    /\ UNCHANGED <<lists, maps, objs, tampered>>

\* Sealing again rebinds; nothing forbids it.
Seal(b) ==
    /\ Made(b)
    /\ CanSeal(ContentOf(b))
    /\ bundle' = [bundle EXCEPT ![b].digest = Digest(bundle[b].sdk, ContentOf(b))]
    /\ sealed' = [sealed EXCEPT ![b] = {ContentOf(b)}]
    /\ UNCHANGED <<lists, maps, objs, tampered>>

-----------------------------------------------------------------------------
(* The caller's own writes to what it holds *)

WriteItem(o, i) ==
    /\ objs' = [objs EXCEPT ![o] = i]
    /\ UNCHANGED <<bundle, lists, maps, sealed, tampered>>

WriteMap(m, s) ==
    /\ m \in CallerMap
    /\ maps' = [maps EXCEPT ![m] = s]
    /\ UNCHANGED <<bundle, lists, objs, sealed, tampered>>

PushItem(l, o) ==
    /\ l \in CallerList
    /\ Extend(l, o)
    /\ UNCHANGED <<bundle, maps, objs, sealed, tampered>>

\* The item list is a public field: overwrite one element in place.
Tamper(b, n, i) ==
    /\ Made(b)
    /\ n \in DOMAIN lists[bundle[b].list]
    /\ lists' = [lists EXCEPT ![bundle[b].list][n] =
                    OwnItem(bundle[b].sdk, i)]
    /\ tampered' = tampered \cup {b}
    /\ UNCHANGED <<bundle, maps, objs, sealed>>

\* So is the scope, which Python has no method for; TypeScript types its keys.
WriteScope(b, s) ==
    /\ Made(b) /\ bundle[b].map = b
    /\ bundle[b].sdk = "ts" => AcceptsScope("ts", s)
    /\ maps' = [maps EXCEPT ![b] = s]
    /\ tampered' = tampered \cup {b}
    /\ UNCHANGED <<bundle, lists, objs, sealed>>

Next ==
    \/ \E b \in Bundle, h \in Header : NewGo(b, h) \/ SetHeader(b, h)
    \/ \E b \in Bundle, h \in Header, l \in ListRef, m \in MapRef, e \in EnvInput :
          NewTs(b, h, l, m, e) \/ NewPy(b, h, l, m, e)
    \/ \E b \in Bundle, o \in CallerItem : AddItem(b, o)
    \/ \E b \in Bundle, i \in ItemInput : AddMissing(b, i)
    \/ \E b \in Bundle, m \in CallerMap : SetScope(b, m)
    \/ \E b \in Bundle : ClearScope(b) \/ Seal(b)
    \/ \E b \in Bundle, e \in EnvInput : SetEnv(b, e)
    \/ \E o \in CallerItem, i \in ItemInput : WriteItem(o, i)
    \/ \E m \in CallerMap, s \in ScopeInput : WriteMap(m, s)
    \/ \E l \in CallerList, o \in CallerItem : PushItem(l, o)
    \/ \E b \in Bundle, n \in 1..MaxItems, i \in TamperInput : Tamper(b, n, i)
    \/ \E b \in Bundle, s \in OwnScopeInput : WriteScope(b, s)

Spec == Init /\ [][Next]_vars
-----------------------------------------------------------------------------
(* Properties *)

\* Every variable keeps its type, bodies and dereferenced items included.
TypeOK ==
    /\ bundle \in [Bundle -> BundleFields]
    /\ lists \in [ListRef -> Seq(Cell)]
    /\ maps \in [MapRef -> Scope]
    /\ objs \in [CallerItem -> Item]
    /\ sealed \in [Bundle -> SUBSET Content]
    /\ tampered \subseteq Bundle

\* What verifies is what this bundle sealed: verify never counts the items nor
\* remembers the seal, yet whatever was written meanwhile through a field, a
\* shared list, item or map, a bundle that verifies says exactly what the last
\* successful seal saw, and that was at least one item.
VerifiedIsWhatWasSealed ==
    \A b \in Bundle : Verifies(b) =>
        \E c \in sealed[b] : SameEvidence(ContentOf(b), c) /\ c.items # <<>>

\* Seal checks no item, verify checks every one.  A Go bundle whose list was
\* not overwritten in place never holds a seal over its present content that
\* verify then refuses, whatever the caller does to the items it handed over.
GoSealIsVerifiable ==
    \A b \in Bundle \ tampered :
        /\ bundle[b].sdk = "go"
        /\ bundle[b].digest = Digest("go", ContentOf(b))
        => Verifies(b)

\* A Go bundle stops verifying only through its own fields and list or the map
\* it holds, its own or the one given to SetScope: not through caller items, nor
\* what is done to another bundle.
GoSealIsIsolated ==
    [][\A b \in Bundle :
          bundle[b].sdk = "go" /\ Verifies(b) /\ ~Verifies(b)' =>
              \/ bundle'[b] # bundle[b]
              \/ lists'[b] # lists[b]
              \/ maps'[bundle[b].map] # maps[bundle[b].map]]_vars

\* "Digests match the Python and TypeScript SDKs": two bundles of any SDKs that
\* hold the same evidence have the same digest, so a seal made in one verifies
\* in the other.
SameEvidenceSameDigest ==
    \A b, c \in Bundle :
        /\ Made(b) /\ Made(c)
        /\ SameEvidence(ContentOf(b), ContentOf(c))
        => Digest(bundle[b].sdk, ContentOf(b)) = Digest(bundle[c].sdk, ContentOf(c))

\* Two bundles have an item list or a scope map in common only if the caller
\* handed them the same one: no default is shared.
NoSharedDefaults ==
    \A b, c \in Bundle : b # c =>
        /\ bundle[b].list = bundle[c].list => bundle[b].list \in CallerList
        /\ bundle[b].map = bundle[c].map => bundle[b].map \in CallerMap

\* sdk/go/README.md:5: "evidence sealed in any SDK verifies in the others".
SealVerifiesInEverySdk ==
    \A b \in Bundle \ tampered, sdk \in Sdk :
        Verifies(b) => VerifyOk(sdk, ReadInto(sdk, ContentOf(b)), bundle[b].digest)

\* The same for evidence that the published schema takes: no SDK accepts a seal
\* that another refuses, whichever made it, whatever is written to what the
\* bundle holds, and whatever blank or unset texts get lost on the wire.
SchemaValidSealTravels ==
    \A b \in Bundle : SchemaValid(ContentOf(b), bundle[b].digest) =>
        \A sdk \in Sdk :
            VerifyOk(sdk, ReadInto(sdk, ContentOf(b)), bundle[b].digest) <=> Verifies(b)

-----------------------------------------------------------------------------
(* The abstract specification *)

\* What a content says, a blank text and one never set being the same.
Saying(c) ==
    [c EXCEPT !.env = Plain(c.env),
              !.items = [n \in DOMAIN c.items |-> GoItem(c.items[n])]]

Sealed == INSTANCE SealedEvidence WITH
    Evidence <- Content,
    Sealable <- {c \in Content : c.items # <<>>},
    Sound <- {c \in Content : \A n \in DOMAIN c.items : c.items[n].digest \in StrictDigest},
    evidence <- [b \in Bundle |-> Saying(ContentOf(b))],
    seal <- [b \in Bundle |-> {Saying(c) : c \in sealed[b]}],
    valid <- [b \in Bundle |-> Verifies(b)]

\* Shared lists, maps and items, three canonical bodies and digests amount to
\* seal and verify as SealedEvidence states them: only a seal moves what is
\* sealed, verify accepts exactly the sealed evidence as long as it is sound,
\* also after a second seal or an edit that was undone.
IsSealedEvidence == Sealed!Spec

-----------------------------------------------------------------------------
(* The inductive invariant *)

\* Who may hold which list and map: a bundle's own ones are held by no other.
Ownership ==
    \A b \in Bundle :
        /\ bundle[b].list \in {b} \cup CallerList
        /\ bundle[b].map \in {b} \cup CallerMap
        /\ bundle[b].sdk = "none" => /\ bundle[b].list = b /\ lists[b] = <<>>
                                     /\ bundle[b].map = b /\ maps[b] = EmptyScope
        /\ bundle[b].sdk = "go" => bundle[b].list = b
        /\ bundle[b].sdk = "ts" => bundle[b].map = b
        /\ bundle[b].sdk = "ts" => ScopeKeysOf(maps[b]) \subseteq KnownScopeKeys

\* A Go bundle holds item values, with Go strings, and AddItem read their digests.
GoItemsAreOwn ==
    \A b \in Bundle : bundle[b].sdk = "go" =>
        /\ bundle[b].env # Unset
        /\ \A n \in DOMAIN lists[b] :
              /\ lists[b][n] \in Item
              /\ lists[b][n].note # Unset
              /\ b \notin tampered => lists[b][n].digest \in StrictDigest

\* A bundle never sealed has no bundle_digest; that of one that was is the
\* digest of the content its last seal saw.
DigestIsOfSealed ==
    \A b \in Bundle :
        \/ sealed[b] = {} /\ bundle[b].digest = Unsealed
        \/ /\ Made(b)
           /\ \E c \in sealed[b] :
                 /\ sealed[b] = {c}
                 /\ bundle[b].digest = Digest(bundle[b].sdk, c)
                 /\ c.items # <<>>
                 /\ bundle[b].sdk = "ts" => ScopeKeysOf(c.scope) \subseteq KnownScopeKeys

\* The inductive invariant behind the properties above.
IInv == TypeOK /\ Ownership /\ GoItemsAreOwn /\ DigestIsOfSealed
=============================================================================
