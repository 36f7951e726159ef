---------------------- MODULE EvidenceRefinementProofs ----------------------
(* EvidenceBundle implements SealedEvidence, for every value of its constants. *)
EXTENDS EvidenceBundleProofs

\* The abstract evidence of a bundle, and what it was sealed with.
Says(b) == Saying(ContentOf(b))
Seals(b) == {Saying(c) : c \in sealed[b]}
SaysTyped == [b \in Bundle |-> Says(b)] \in [Bundle -> Content]

-----------------------------------------------------------------------------
(* What a content says *)

LEMMA SayingItems ==
    ASSUME NEW c \in Content
    PROVE  /\ DOMAIN Saying(c).items = DOMAIN c.items
           /\ Saying(c).header = c.header /\ Saying(c).scope = c.scope
           /\ Saying(c).env = Plain(c.env)
           /\ \A n \in DOMAIN c.items :
                 Saying(c).items[n] = GoItem(c.items[n])
  BY DEF Saying, Content

LEMMA PlainType ==
    ASSUME NEW T, NEW t \in OptionalText(T)
    PROVE  Plain(t) \in OptionalText(T)
  BY DEF Plain, OptionalText

LEMMA SayingType ==
    ASSUME NEW c \in Content
    PROVE  Saying(c) \in Content
  <1> DEFINE items == [n \in DOMAIN c.items |-> GoItem(c.items[n])]
  <1>1. c.items \in Seq(Item) /\ c.env \in OptionalText(DigestText)
    BY DEF Content
  <1>2. ASSUME NEW n \in DOMAIN c.items
        PROVE  GoItem(c.items[n]) \in Item
    <2>1. c.items[n] \in Item
      BY <1>1, <1>2
    <2>2. Plain(c.items[n].note) \in OptionalText(NoteText)
      BY <2>1, PlainType DEF Item
    <2> QED BY <2>1, <2>2 DEF Item, GoItem
  <1>3. items \in Seq(Item)
    <2>1. DOMAIN c.items = 1..Len(c.items) /\ Len(c.items) \in Nat
      BY <1>1
    <2> QED BY <1>2, <2>1
  <1>4. Plain(c.env) \in OptionalText(DigestText)
    BY <1>1, PlainType
  <1> QED BY <1>3, <1>4 DEF Saying, Content

\* Two contents say the same exactly if a reader calls them the same evidence.
LEMMA SayingIsEvidence ==
    ASSUME NEW c \in Content, NEW d \in Content
    PROVE  Saying(c) = Saying(d) <=> SameEvidence(c, d)
  <1>1. /\ c.items \in Seq(Item) /\ d.items \in Seq(Item)
        /\ c = [header |-> c.header, scope |-> c.scope, items |-> c.items, env |-> c.env]
        /\ d = [header |-> d.header, scope |-> d.scope, items |-> d.items, env |-> d.env]
    BY DEF Content
  <1>2. ASSUME Saying(c) = Saying(d) PROVE SameEvidence(c, d)
    <2>1. c.header = d.header /\ c.scope = d.scope /\ Plain(c.env) = Plain(d.env)
           /\ DOMAIN c.items = DOMAIN d.items
      BY <1>2, SayingItems
    <2>2. Len(c.items) = Len(d.items)
      BY <1>1, <2>1
    <2>3. ASSUME NEW n \in DOMAIN c.items
          PROVE  /\ c.items[n].kind = d.items[n].kind
                 /\ c.items[n].uri = d.items[n].uri
                 /\ c.items[n].digest = d.items[n].digest
                 /\ Plain(c.items[n].note) = Plain(d.items[n].note)
      <3>1. c.items[n] \in Item /\ d.items[n] \in Item
        BY <1>1, <2>1, <2>3
      <3>2. GoItem(c.items[n]) = GoItem(d.items[n])
        BY <1>2, <2>1, <2>3, SayingItems
      <3> QED BY <3>1, <3>2 DEF Item, GoItem
    <2> QED BY <2>1, <2>2, <2>3 DEF SameEvidence
  <1>3. ASSUME SameEvidence(c, d) PROVE Saying(c) = Saying(d)
    <2>1. DOMAIN c.items = DOMAIN d.items
      BY <1>1, <1>3 DEF SameEvidence
    <2>2. ASSUME NEW n \in DOMAIN c.items
          PROVE  GoItem(c.items[n]) = GoItem(d.items[n])
      <3>1. c.items[n] \in Item /\ d.items[n] \in Item
        BY <1>1, <2>1, <2>2
      <3> QED BY <1>3, <2>2, <3>1 DEF SameEvidence, Item, GoItem
    <2>3. [n \in DOMAIN c.items |-> GoItem(c.items[n])]
            = [n \in DOMAIN d.items |-> GoItem(d.items[n])]
      BY <2>1, <2>2
    <2>4. c.header = d.header /\ c.scope = d.scope /\ Plain(c.env) = Plain(d.env)
      BY <1>3 DEF SameEvidence
    <2>5. Saying(c).header = Saying(d).header /\ Saying(c).scope = Saying(d).scope
           /\ Saying(c).env = Saying(d).env /\ Saying(c).items = Saying(d).items
      BY <2>3, <2>4 DEF Saying, Content
    <2> QED BY <2>5, SayingType DEF Content
  <1> QED BY <1>2, <1>3

\* A document of the schema's shape has no undefined text in it.
LEMMA BodyIsGoText ==
    ASSUME NEW c \in Content, Body("go", c) \in BodyDoc
    PROVE  GoText(c)
  <1>1. EmitText("go", c.env) \subseteq DigestText
    BY DEF Body, BodyDoc
  <1>2. c.env # Unset
    BY <1>1, ContractsAssumption DEF EmitText
  <1>3. ASSUME NEW n \in DOMAIN c.items PROVE c.items[n].note # Unset
    <2> DEFINE docs == [m \in DOMAIN c.items |-> ItemJson("go", c.items[m])]
    <2>1. docs \in Seq(ItemDoc)
      BY DEF Body, BodyDoc
    <2>2. docs[n] \in ItemDoc /\ docs[n] = ItemJson("go", c.items[n])
      BY <1>3, <2>1
    <2>3. EmitText("go", c.items[n].note) \subseteq NoteText
      BY <2>2 DEF ItemJson, ItemDoc
    <2> QED BY <2>3, CoreAssumption, ContractsAssumption DEF EmitText
  <1> QED BY <1>2, <1>3 DEF GoText

-----------------------------------------------------------------------------
(* The promise of SealedEvidence follows from the inductive invariant. *)

LEMMA SaysType == IInv => SaysTyped
  BY ContentType, SayingType DEF Says, SaysTyped

LEMMA AcceptedIsSealed ==
    ASSUME IInv, NEW b \in Bundle, Verifies(b)
    PROVE  Seals(b) = {Says(b)} /\ Says(b).items # <<>>
  <1> DEFINE sdk == bundle[b].sdk
  <1>1. sdk \in Sdk /\ sealed[b] \subseteq Content
    BY DEF IInv, TypeOK, BundleFields, Verifies, Made
  <1>2. bundle[b].digest = Digest(sdk, ContentOf(b)) /\ bundle[b].digest # Unsealed
    BY DEF Verifies, VerifyOk
  <1>3. PICK c \in sealed[b] :
           /\ sealed[b] = {c}
           /\ bundle[b].digest = Digest(sdk, c)
           /\ c.items # <<>>
           /\ sdk = "ts" => ScopeKeysOf(c.scope) \subseteq KnownScopeKeys
    BY <1>2 DEF IInv, DigestIsOfSealed
  <1>4. ContentOf(b) \in Content /\ c \in Content
    BY <1>1, <1>3, ContentType
  <1>5. SameEvidence(ContentOf(b), c)
    <2>1. Body(sdk, ContentOf(b)) = Body(sdk, c)
      BY <1>2, <1>3 DEF Digest
    <2> QED BY <1>1, <1>3, <1>4, <2>1, ContentType, BodyInjective
  <1>6. Saying(c) = Says(b)
    BY <1>4, <1>5, SayingIsEvidence DEF Says
  <1>7. Saying(c).items # <<>>
    <2>1. Saying(c).items \in Seq(Item) /\ c.items \in Seq(Item)
      BY <1>4, SayingType DEF Content
    <2>2. DOMAIN Saying(c).items = DOMAIN c.items
      BY <1>4, SayingItems
    <2> QED BY <1>3, <2>1, <2>2
  <1> QED BY <1>3, <1>6, <1>7 DEF Seals

LEMMA SoundSealIsAccepted ==
    ASSUME IInv, NEW b \in Bundle, Seals(b) = {Says(b)},
           \A n \in DOMAIN Says(b).items : Says(b).items[n].digest \in StrictDigest
    PROVE  Verifies(b)
  <1> DEFINE sdk == bundle[b].sdk
  <1>1. sealed[b] # {}
    BY DEF Seals
  <1>2. PICK c \in sealed[b] :
           /\ Made(b)
           /\ bundle[b].digest = Digest(sdk, c)
           /\ sdk = "ts" => ScopeKeysOf(c.scope) \subseteq KnownScopeKeys
    BY <1>1 DEF IInv, DigestIsOfSealed
  <1>3. sdk \in Sdk /\ sealed[b] \subseteq Content /\ bundle[b].digest \subseteq BodyDoc
    BY <1>2 DEF IInv, TypeOK, BundleFields, Made
  <1>4. ContentOf(b) \in Content /\ c \in Content
    BY <1>2, <1>3, ContentType
  <1>5. SameEvidence(ContentOf(b), c)
    <2>1. Saying(c) = Saying(ContentOf(b))
      BY <1>2 DEF Seals, Says
    <2> QED BY <1>4, <2>1, SayingIsEvidence
  <1>6. sdk = "go" => GoText(c)
    <2>1. Body(sdk, c) \in BodyDoc
      BY <1>2, <1>3 DEF Digest
    <2> QED BY <1>4, <2>1, BodyIsGoText
  <1>7. bundle[b].digest = Digest(sdk, ContentOf(b)) /\ bundle[b].digest # Unsealed
    <2>1. Body(sdk, ContentOf(b)) = Body(sdk, c)
      BY <1>2, <1>3, <1>4, <1>5, <1>6, ContentType, BodyAgrees
    <2> QED BY <1>2, <2>1 DEF Digest, Unsealed
  <1>8. ASSUME NEW n \in DOMAIN ContentOf(b).items
        PROVE  ParsesDigest(sdk, ContentOf(b).items[n].digest)
    <2>1. n \in DOMAIN Says(b).items
           /\ Says(b).items[n] = GoItem(ContentOf(b).items[n])
      BY <1>4, <1>8, SayingItems DEF Says
    <2>2. ContentOf(b).items[n] \in Item
      BY <1>4, <1>8 DEF Content
    <2>3. Says(b).items[n].digest = ContentOf(b).items[n].digest
      BY <2>1, <2>2 DEF Item, GoItem
    <2> QED BY <2>1, <2>3 DEF ParsesDigest
  <1> QED BY <1>2, <1>7, <1>8 DEF Verifies, VerifyOk

LEMMA PromiseKept == IInv => Sealed!Promise
  <1> SUFFICES ASSUME IInv, NEW b \in Bundle
               PROVE  /\ Verifies(b) => /\ Seals(b) = {Says(b)}
                                        /\ Says(b) \in {c \in Content : c.items # <<>>}
                      /\ /\ Seals(b) = {Says(b)}
                         /\ Says(b) \in {c \in Content :
                              \A n \in DOMAIN c.items : c.items[n].digest \in StrictDigest}
                         => Verifies(b)
    BY DEF Sealed!Promise, Says, Seals
  <1>1. Says(b) \in Content
    BY ContentType, SayingType DEF Says
  <1> QED BY <1>1, AcceptedIsSealed, SoundSealIsAccepted

-----------------------------------------------------------------------------
(* Every step is a seal of one bundle, a change, or a stutter. *)

LEMMA InitImplements == Init => Sealed!Init
  <1> SUFFICES ASSUME Init PROVE Sealed!Init
    OBVIOUS
  <1>1. [b \in Bundle |-> Says(b)] \in [Bundle -> Content]
    BY InitIInv, SaysType DEF SaysTyped
  <1>2. ASSUME NEW b \in Bundle PROVE Seals(b) = {} /\ Verifies(b) = FALSE
    <2>1. sealed[b] = {} /\ bundle[b].sdk = "none"
      BY DEF Init
    <2> QED BY <2>1 DEF Seals, Verifies, Made
  <1> QED BY <1>1, <1>2 DEF Sealed!Init, Says, Seals

\* A seal leaves what every bundle says alone.
LEMMA SealImplements ==
    ASSUME IInv, NEW b \in Bundle, Seal(b), Sealed!Promise'
    PROVE  Sealed!SealBundle(b)
  <1>1. /\ bundle' = [bundle EXCEPT ![b].digest = Digest(bundle[b].sdk, ContentOf(b))]
        /\ sealed' = [sealed EXCEPT ![b] = {ContentOf(b)}]
        /\ UNCHANGED <<lists, maps, objs>>
        /\ ContentOf(b).items # <<>>
    BY DEF Seal, CanSeal
  <1>2. ASSUME NEW x \in Bundle
        PROVE  /\ bundle'[x].header = bundle[x].header /\ bundle'[x].list = bundle[x].list
               /\ bundle'[x].map = bundle[x].map /\ bundle'[x].env = bundle[x].env
    <2>1. bundle \in [Bundle -> BundleFields]
      BY DEF IInv, TypeOK
    <2> QED BY <1>1, <2>1 DEF BundleFields
  <1>3. ASSUME NEW x \in Bundle PROVE Says(x)' = Says(x)
    <2>1. ItemsOf(x)' = ItemsOf(x)
      BY <1>1, <1>2 DEF ItemsOf, Deref
    <2>2. ContentOf(x)' = ContentOf(x)
      BY <1>1, <1>2, <2>1 DEF ContentOf
    <2> QED BY <2>2 DEF Says, Saying
  <1>4. [x \in Bundle |-> Seals(x)]'
          = [[x \in Bundle |-> Seals(x)] EXCEPT ![b] = {Says(b)}]
    <2>1. ASSUME NEW x \in Bundle
          PROVE  Seals(x)' = IF x = b THEN {Says(b)} ELSE Seals(x)
      <3>1. sealed'[x] = IF x = b THEN {ContentOf(b)} ELSE sealed[x]
        BY <1>1 DEF IInv, TypeOK
      <3> QED BY <3>1 DEF Seals, Says, Saying
    <2> QED BY <2>1
  <1>5. Says(b) \in Content /\ Says(b).items # <<>>
    <2>1. ContentOf(b) \in Content /\ Says(b) \in Content
      BY ContentType, SayingType DEF Says
    <2>2. DOMAIN Says(b).items = DOMAIN ContentOf(b).items
      BY <2>1, SayingItems DEF Says
    <2>3. Says(b).items \in Seq(Item) /\ ContentOf(b).items \in Seq(Item)
      BY <2>1 DEF Content
    <2> QED BY <1>1, <2>1, <2>2, <2>3
  <1>6. [x \in Bundle |-> Verifies(x)]' \in [Bundle -> BOOLEAN]
    BY DEF Verifies
  <1>7. [x \in Bundle |-> Says(x)]' = [x \in Bundle |-> Says(x)]
    BY <1>3
  <1>8. [x \in Bundle |-> Says(x)][b] = Says(b)
    OBVIOUS
  <1> QED BY <1>4, <1>5, <1>6, <1>7, <1>8 DEF Sealed!SealBundle, Says, Seals

\* Every other action leaves what was sealed alone.
LEMMA ChangeImplements ==
    ASSUME UNCHANGED sealed, Sealed!Promise',
           SaysTyped'
    PROVE  Sealed!Change
  <1>1. [b \in Bundle |-> Seals(b)]' = [b \in Bundle |-> Seals(b)]
    BY DEF Seals, Saying
  <1>2. [b \in Bundle |-> Verifies(b)]' \in [Bundle -> BOOLEAN]
    BY DEF Verifies
  <1> QED BY <1>1, <1>2 DEF Sealed!Change, Says, Seals, SaysTyped

\* Only Seal writes sealed.
LEMMA OnlySealSeals ==
    ASSUME Next
    PROVE  UNCHANGED sealed \/ \E b \in Bundle : Seal(b)
  BY ZenonT(60)
     DEF Next, NewGo, NewTs, NewPy, Create, AddItem, AddMissing, SetScope, ClearScope,
         SetEnv, SetHeader, WriteItem, WriteMap, PushItem, Tamper, WriteScope

LEMMA NextImplements ==
    ASSUME IInv, [Next]_vars, Sealed!Promise',
           SaysTyped'
    PROVE  Sealed!Next
  <1>1. CASE UNCHANGED sealed
    BY <1>1, ChangeImplements DEF Sealed!Next
  <1>2. ASSUME NEW b \in Bundle, Seal(b) PROVE Sealed!Next
    BY <1>2, SealImplements DEF Sealed!Next
  <1>3. UNCHANGED sealed \/ \E b \in Bundle : Seal(b)
    BY OnlySealSeals DEF vars
  <1> QED BY <1>1, <1>2, <1>3

\* Shared lists, maps and items, canonical bodies and digests implement seal and
\* verify as SealedEvidence states them, in any mix of SDKs.
THEOREM SealedEvidenceImplemented == Spec => IsSealedEvidence
  <1>1. Init => Sealed!Init
    BY InitImplements
  <1>2. IInv => Sealed!Promise /\ SaysTyped
    BY PromiseKept, SaysType
  <1>3. /\ IInv /\ [Next]_vars /\ Sealed!Promise'
        /\ SaysTyped'
        => [Sealed!Next]_(Sealed!vars)
    BY NextImplements
  <1> QED BY <1>1, <1>2, <1>3, InductiveInvariant, PTL
        DEF Spec, IsSealedEvidence, Sealed!Spec
=============================================================================
