------------------------ MODULE EvidenceBundleProofs ------------------------
(* Theorems about EvidenceBundle, for every value of its constants. *)
EXTENDS EvidenceBundle, TLAPS

-----------------------------------------------------------------------------
(* The canonical body: its type, and that it loses nothing *)

\* A Go value has no undefined text.
GoText(c) ==
    /\ c.env # Unset
    /\ \A n \in DOMAIN c.items : c.items[n].note # Unset

\* What an SDK emits of an optional text is the text, or nothing.
LEMMA EmitTextType ==
    ASSUME NEW sdk \in Sdk, NEW T, NEW t \in OptionalText(T),
           sdk = "go" => t # Unset
    PROVE  EmitText(sdk, t) \in SUBSET T
  BY DEF EmitText, OptionalText

\* Two optional texts that are emitted alike read alike.
LEMMA EmitTextInjective ==
    ASSUME NEW sdk \in Sdk, NEW t, NEW u, EmitText(sdk, t) = EmitText(sdk, u)
    PROVE  Plain(t) = Plain(u)
  <1>1. CASE sdk = "go"
    <2>1. {t} \ {""} = {u} \ {""}
      BY <1>1 DEF EmitText
    <2>2. t # "" => t \in {u}
      BY <2>1
    <2>3. u # "" => u \in {t}
      BY <2>1
    <2>4. t = u
      BY <2>2, <2>3
    <2> QED BY <2>4 DEF Plain
  <1>2. CASE sdk # "go"
    <2>1. {t} \ {"", Unset} = {u} \ {"", Unset}
      BY <1>2 DEF EmitText
    <2>2. t \notin {"", Unset} => t \in {u}
      BY <2>1
    <2>3. u \notin {"", Unset} => u \in {t}
      BY <2>1
    <2> QED BY <2>2, <2>3 DEF Plain
  <1> QED BY <1>1, <1>2

\* The canonical body of a bundle's content is a JSON document of the schema's
\* shape: no undefined value reaches the encoder.
LEMMA BodyType ==
    ASSUME NEW sdk \in Sdk, NEW c \in Content, sdk = "go" => GoText(c)
    PROVE  Body(sdk, c) \in BodyDoc
  <1>1. ScopeJson(sdk, c.scope) \in SUBSET (ScopeKey \X ScopeText)
    BY DEF ScopeJson, EmittedScopeKeys, ScopeKeysOf, Content, Scope
  <1>2. EmitText(sdk, c.env) \in SUBSET DigestText
    BY EmitTextType DEF GoText, Content
  <1>3. ASSUME NEW n \in DOMAIN c.items
        PROVE  ItemJson(sdk, c.items[n]) \in ItemDoc
    <2>1. c.items[n] \in Item
      BY <1>3 DEF Content
    <2>2. EmitText(sdk, c.items[n].note) \in SUBSET NoteText
      BY <1>3, <2>1, EmitTextType DEF GoText, Item
    <2> QED BY <2>1, <2>2 DEF ItemJson, ItemDoc, Item
  <1>4. [n \in DOMAIN c.items |-> ItemJson(sdk, c.items[n])] \in Seq(ItemDoc)
    <2>1. c.items \in Seq(Item)
      BY DEF Content
    <2>2. DOMAIN c.items = 1..Len(c.items) /\ Len(c.items) \in Nat
      BY <2>1
    <2> QED BY <1>3, <2>2
  <1> QED BY <1>1, <1>2, <1>4 DEF Body, BodyDoc, Content

\* Two contents with the same canonical body are the same evidence: a digest
\* cannot tell less than a reader of the bundle can.
LEMMA BodyInjective ==
    ASSUME NEW sdk \in Sdk, NEW c \in Content, NEW d \in Content,
           Body(sdk, c) = Body(sdk, d),
           sdk = "ts" => /\ ScopeKeysOf(c.scope) \subseteq KnownScopeKeys
                         /\ ScopeKeysOf(d.scope) \subseteq KnownScopeKeys
    PROVE  SameEvidence(c, d)
  <1>1. /\ c.header = d.header
        /\ ScopeJson(sdk, c.scope) = ScopeJson(sdk, d.scope)
        /\ EmitText(sdk, c.env) = EmitText(sdk, d.env)
        /\ [n \in DOMAIN c.items |-> ItemJson(sdk, c.items[n])]
             = [n \in DOMAIN d.items |-> ItemJson(sdk, d.items[n])]
    BY DEF Body
  <1>2. c.scope = d.scope
    <2>1. ScopeKeysOf(c.scope) = EmittedScopeKeys(sdk, c.scope)
           /\ ScopeKeysOf(d.scope) = EmittedScopeKeys(sdk, d.scope)
      BY DEF EmittedScopeKeys
    <2>2. {<<k, c.scope[k]>> : k \in ScopeKeysOf(c.scope)}
            = {<<k, d.scope[k]>> : k \in ScopeKeysOf(d.scope)}
      BY <1>1, <2>1 DEF ScopeJson
    <2>3. ASSUME NEW k \in ScopeKey PROVE c.scope[k] = d.scope[k]
      <3>1. CASE c.scope[k] # Unset
        <4>1. <<k, c.scope[k]>> \in {<<j, d.scope[j]>> : j \in ScopeKeysOf(d.scope)}
          BY <3>1, <2>2, <2>3 DEF ScopeKeysOf
        <4> QED BY <4>1
      <3>2. CASE d.scope[k] # Unset
        <4>1. <<k, d.scope[k]>> \in {<<j, c.scope[j]>> : j \in ScopeKeysOf(c.scope)}
          BY <3>2, <2>2, <2>3 DEF ScopeKeysOf
        <4> QED BY <4>1
      <3> QED BY <3>1, <3>2
    <2>4. c.scope \in [ScopeKey -> ScopeText \cup {Unset}]
           /\ d.scope \in [ScopeKey -> ScopeText \cup {Unset}]
      BY DEF Content, Scope
    <2> QED BY <2>3, <2>4
  <1>3. Plain(c.env) = Plain(d.env)
    BY <1>1, EmitTextInjective
  <1>4. DOMAIN c.items = DOMAIN d.items /\ Len(c.items) = Len(d.items)
    <2>1. DOMAIN c.items = DOMAIN d.items
      BY <1>1
    <2>2. c.items \in Seq(Item) /\ d.items \in Seq(Item)
      BY DEF Content
    <2> QED BY <2>1, <2>2
  <1>5. ASSUME NEW n \in DOMAIN c.items
        PROVE  /\ c.items[n].kind = d.items[n].kind
               /\ c.items[n].uri = d.items[n].uri
               /\ c.items[n].digest = d.items[n].digest
               /\ Plain(c.items[n].note) = Plain(d.items[n].note)
    <2>1. ItemJson(sdk, c.items[n]) = ItemJson(sdk, d.items[n])
      BY <1>1, <1>4, <1>5
    <2>2. /\ c.items[n].kind = d.items[n].kind
          /\ c.items[n].uri = d.items[n].uri
          /\ c.items[n].digest = d.items[n].digest
          /\ EmitText(sdk, c.items[n].note) = EmitText(sdk, d.items[n].note)
      BY <2>1 DEF ItemJson
    <2> QED BY <2>2, EmitTextInjective
  <1> QED BY <1>1, <1>2, <1>3, <1>4, <1>5 DEF SameEvidence

\* Two optional texts that read alike are emitted alike, by any two SDKs.
LEMMA EmitTextAgrees ==
    ASSUME NEW s \in Sdk, NEW r \in Sdk, NEW t, NEW u, Plain(t) = Plain(u),
           s = "go" => t # Unset, r = "go" => u # Unset
    PROVE  EmitText(s, t) = EmitText(r, u)
  <1>1. CASE t \in {"", Unset}
    <2>1. u \in {"", Unset}
      BY <1>1 DEF Plain
    <2> QED BY <1>1, <2>1 DEF EmitText
  <1>2. CASE t \notin {"", Unset}
    <2>1. u = t
      BY <1>2 DEF Plain
    <2>2. EmitText(s, t) = {t} /\ EmitText(r, t) = {t}
      BY <1>2 DEF EmitText
    <2> QED BY <2>1, <2>2
  <1> QED BY <1>1, <1>2

\* The same evidence has the same canonical body, whichever SDKs hold it.
LEMMA BodyAgrees ==
    ASSUME NEW s \in Sdk, NEW r \in Sdk, NEW c \in Content, NEW d \in Content,
           SameEvidence(c, d),
           s = "go" => GoText(c), r = "go" => GoText(d),
           s = "ts" => ScopeKeysOf(c.scope) \subseteq KnownScopeKeys,
           r = "ts" => ScopeKeysOf(d.scope) \subseteq KnownScopeKeys
    PROVE  Body(s, c) = Body(r, d)
  <1>1. c.header = d.header /\ c.scope = d.scope
    BY DEF SameEvidence
  <1>2. ScopeJson(s, c.scope) = ScopeJson(r, d.scope)
    <2>1. EmittedScopeKeys(s, c.scope) = ScopeKeysOf(c.scope)
      BY DEF EmittedScopeKeys
    <2>2. EmittedScopeKeys(r, d.scope) = ScopeKeysOf(d.scope)
      BY DEF EmittedScopeKeys
    <2> QED BY <1>1, <2>1, <2>2 DEF ScopeJson
  <1>3. EmitText(s, c.env) = EmitText(r, d.env)
    BY EmitTextAgrees DEF SameEvidence, GoText
  <1>4. DOMAIN c.items = DOMAIN d.items
    BY DEF SameEvidence, Content
  <1>5. ASSUME NEW n \in DOMAIN c.items
        PROVE  ItemJson(s, c.items[n]) = ItemJson(r, d.items[n])
    <2>1. EmitText(s, c.items[n].note) = EmitText(r, d.items[n].note)
      BY <1>4, <1>5, EmitTextAgrees DEF SameEvidence, GoText
    <2> QED BY <1>5, <2>1 DEF SameEvidence, ItemJson
  <1>6. [n \in DOMAIN c.items |-> ItemJson(s, c.items[n])]
          = [n \in DOMAIN d.items |-> ItemJson(r, d.items[n])]
    BY <1>4, <1>5
  <1> QED BY <1>1, <1>2, <1>3, <1>6 DEF Body

-----------------------------------------------------------------------------
(* What the invariant says of the content of a bundle *)

LEMMA CellValue ==
    ASSUME TypeOK, NEW c \in Cell
    PROVE  Deref(c) \in Item /\ (c \in Item => Deref(c) = c)
  BY BundleAssumption DEF TypeOK, Cell, Deref

LEMMA ContentType ==
    ASSUME IInv, NEW b \in Bundle
    PROVE  /\ ContentOf(b) \in Content
           /\ bundle[b].sdk = "go" => GoText(ContentOf(b))
           /\ bundle[b].sdk = "ts" =>
                 ScopeKeysOf(ContentOf(b).scope) \subseteq KnownScopeKeys
  <1> USE DEF IInv, TypeOK
  <1>1. bundle[b] \in BundleFields
    OBVIOUS
  <1>2. bundle[b].list \in ListRef /\ bundle[b].map \in MapRef
         /\ bundle[b].header \in Header
         /\ bundle[b].env \in OptionalText(DigestText)
    BY <1>1 DEF BundleFields
  <1>3. lists[bundle[b].list] \in Seq(Cell) /\ maps[bundle[b].map] \in Scope
    BY <1>2
  <1>4. ASSUME NEW n \in DOMAIN lists[bundle[b].list]
        PROVE  Deref(lists[bundle[b].list][n]) \in Item
    <2>1. lists[bundle[b].list][n] \in Cell
      BY <1>3, <1>4
    <2> QED BY <2>1, CellValue
  <1>5. ItemsOf(b) \in Seq(Item)
    <2>1. DOMAIN lists[bundle[b].list] = 1..Len(lists[bundle[b].list])
           /\ Len(lists[bundle[b].list]) \in Nat
      BY <1>3
    <2> QED BY <1>4, <2>1 DEF ItemsOf
  <1>6. ContentOf(b) \in Content
    BY <1>2, <1>3, <1>5 DEF ContentOf, Content
  <1>7. ASSUME bundle[b].sdk = "go" PROVE GoText(ContentOf(b))
    <2>1. bundle[b].list = b /\ bundle[b].env # Unset
      BY <1>7 DEF Ownership, GoItemsAreOwn
    <2>2. ASSUME NEW n \in DOMAIN lists[b]
          PROVE  ItemsOf(b)[n] = lists[b][n] /\ lists[b][n].note # Unset
      <3>1. lists[b][n] \in Item /\ lists[b][n].note # Unset
        BY <1>7, <2>2 DEF GoItemsAreOwn
      <3>2. Deref(lists[b][n]) = lists[b][n]
        BY <3>1, CellValue DEF Cell
      <3> QED BY <2>1, <2>2, <3>1, <3>2 DEF ItemsOf
    <2>3. DOMAIN ItemsOf(b) = DOMAIN lists[b]
      BY <2>1 DEF ItemsOf
    <2> QED BY <2>1, <2>2, <2>3 DEF GoText, ContentOf
  <1>8. ASSUME bundle[b].sdk = "ts"
        PROVE  ScopeKeysOf(ContentOf(b).scope) \subseteq KnownScopeKeys
    BY <1>8 DEF Ownership, ContentOf
  <1> QED BY <1>6, <1>7, <1>8

-----------------------------------------------------------------------------
(* The invariant is inductive: one lemma per action that needs one *)

LEMMA InitIInv == Init => IInv
  <1> SUFFICES ASSUME Init PROVE IInv
    OBVIOUS
  <1>1. \A b \in Bundle :
           bundle[b] = [sdk |-> "none", header |-> NoHeader,
                        list |-> b, map |-> b, env |-> "", digest |-> Unsealed]
    BY DEF Init
  <1>2. NoHeader \in Header
    BY BundleAssumption, Zenon DEF NoHeader
  <1>3. TypeOK
    <2>1. bundle \in [Bundle -> BundleFields]
      BY <1>1, <1>2 DEF Init, BundleFields, ListRef, MapRef, OptionalText, Unsealed
    <2>2. lists \in [ListRef -> Seq(Cell)]
      <3>1. <<>> \in Seq(Cell)
        OBVIOUS
      <3> QED BY <3>1 DEF Init
    <2>3. maps \in [MapRef -> Scope]
      BY DEF Init, EmptyScope, Scope
    <2>4. objs \in [CallerItem -> Item]
      BY BundleAssumption DEF Init
    <2> QED BY <2>1, <2>2, <2>3, <2>4 DEF Init, TypeOK
  <1>4. Ownership
    BY <1>1 DEF Init, Ownership, ListRef, MapRef
  <1>5. GoItemsAreOwn /\ DigestIsOfSealed
    <2>1. ASSUME NEW b \in Bundle
          PROVE  bundle[b].sdk = "none" /\ bundle[b].digest = Unsealed
      <3>1. bundle[b] = [sdk |-> "none", header |-> NoHeader,
                         list |-> b, map |-> b, env |-> "", digest |-> Unsealed]
        BY <1>1
      <3> DEFINE r == [sdk |-> "none", header |-> NoHeader, list |-> b, map |-> b,
                       env |-> "", digest |-> Unsealed]
      <3>2. r.sdk = "none" /\ r.digest = Unsealed
        OBVIOUS
      <3> HIDE DEF r
      <3>3. bundle[b] = r
        BY <3>1 DEF r
      <3> QED BY <3>2, <3>3
    <2>2. \A b \in Bundle : sealed[b] = {}
      BY DEF Init
    <2> QED BY <2>1, <2>2 DEF GoItemsAreOwn, DigestIsOfSealed
  <1> QED BY <1>3, <1>4, <1>5 DEF IInv

\* Appending the cell c to the list l of a bundle that is made, or of the caller.
LEMMA ExtendIInv ==
    ASSUME IInv, NEW l \in ListRef, NEW c \in Cell,
           lists' = [lists EXCEPT ![l] = Append(@, c)],
           UNCHANGED <<bundle, maps, objs, sealed, tampered>>,
           \A b \in Bundle : l = b =>
              /\ Made(b)
              /\ bundle[b].sdk = "go" =>
                    /\ c \in Item /\ c.note # Unset /\ c.digest \in StrictDigest
    PROVE  IInv'
  <1> USE DEF IInv
  <1>1. lists[l] \in Seq(Cell)
    BY DEF TypeOK
  <1>2. TypeOK'
    <2>1. Append(lists[l], c) \in Seq(Cell)
      BY <1>1
    <2> QED BY <2>1 DEF TypeOK
  <1>3. \A x \in ListRef : x # l => lists'[x] = lists[x]
    BY DEF TypeOK
  <1>4. lists'[l] = Append(lists[l], c)
    BY DEF TypeOK
  <1>5. Ownership'
    BY <1>3 DEF Ownership, Made, ListRef
  <1>6. GoItemsAreOwn'
    <2> SUFFICES ASSUME NEW b \in Bundle, bundle[b].sdk = "go"
                 PROVE  \A n \in DOMAIN lists'[b] :
                           /\ lists'[b][n] \in Item
                           /\ lists'[b][n].note # Unset
                           /\ b \notin tampered => lists'[b][n].digest \in StrictDigest
      BY DEF GoItemsAreOwn
    <2>1. CASE b # l
      BY <1>3, <2>1 DEF GoItemsAreOwn, ListRef
    <2>2. CASE b = l
      <3> SUFFICES ASSUME NEW n \in DOMAIN lists'[l]
                   PROVE  /\ lists'[l][n] \in Item
                          /\ lists'[l][n].note # Unset
                          /\ b \notin tampered => lists'[l][n].digest \in StrictDigest
        BY <2>2
      <3>1. n \in 1..(Len(lists[l]) + 1) /\ Len(lists[l]) \in Nat
        BY <1>1, <1>4
      <3>2. CASE n = Len(lists[l]) + 1
        <4>1. lists'[l][n] = c
          BY <1>1, <1>4, <3>2
        <4> QED BY <4>1, <2>2
      <3>3. CASE n # Len(lists[l]) + 1
        <4>1. n \in DOMAIN lists[l] /\ lists'[l][n] = lists[l][n]
          BY <1>1, <1>4, <3>1, <3>3
        <4> QED BY <4>1, <2>2 DEF GoItemsAreOwn
      <3> QED BY <3>2, <3>3
    <2> QED BY <2>1, <2>2
  <1>7. DigestIsOfSealed'
    BY DEF DigestIsOfSealed, Made
  <1> QED BY <1>2, <1>5, <1>6, <1>7

LEMMA AddItemIInv ==
    ASSUME IInv, NEW b \in Bundle, NEW o \in CallerItem, AddItem(b, o)
    PROVE  IInv'
  <1> DEFINE sdk == bundle[b].sdk
  <1> DEFINE c == IF sdk = "go" THEN GoItem(objs[o]) ELSE o
  <1>1. objs[o] \in Item /\ bundle[b] \in BundleFields
    BY DEF IInv, TypeOK
  <1>2. sdk \in Sdk /\ bundle[b].list \in ListRef
    BY <1>1 DEF BundleFields, AddItem, Made
  <1>3. sdk = "go" => /\ GoItem(objs[o]) \in Item
                      /\ GoItem(objs[o]).note # Unset
                      /\ GoItem(objs[o]).digest \in StrictDigest
    BY <1>1, ContractsAssumption, CoreAssumption
    DEF GoItem, Plain, Item, OptionalText, AddItem, AcceptsItem, ParsesDigest
  <1>4. c \in Cell
    BY <1>3 DEF Cell
  <1>5. \A x \in Bundle : bundle[b].list = x => x = b
    BY BundleAssumption DEF IInv, Ownership
  <1>6. lists' = [lists EXCEPT ![bundle[b].list] = Append(@, c)]
         /\ UNCHANGED <<bundle, maps, objs, sealed, tampered>> /\ Made(b)
    BY DEF AddItem, Extend
  <1> HIDE DEF c
  <1> QED BY <1>2, <1>3, <1>4, <1>5, <1>6, ExtendIInv, ZenonT(40) DEF c

LEMMA AddMissingIInv ==
    ASSUME IInv, NEW b \in Bundle, NEW i \in ItemInput, AddMissing(b, i)
    PROVE  IInv'
  <1> DEFINE c == OwnItem(bundle[b].sdk, i)
  <1>1. i \in Item /\ bundle[b] \in BundleFields
    BY BundleAssumption DEF IInv, TypeOK
  <1>2. bundle[b].list \in ListRef
    BY <1>1 DEF BundleFields
  <1>3. GoItem(i) \in Item /\ GoItem(i).note # Unset /\ GoItem(i).digest = i.digest
    BY <1>1, ContractsAssumption, CoreAssumption DEF GoItem, Plain, Item, OptionalText
  <1>4. c \in Item /\ (bundle[b].sdk = "go" => c = GoItem(i))
    BY <1>1, <1>3 DEF OwnItem
  <1>5. bundle[b].sdk = "go" => i.digest \in StrictDigest
    BY DEF AddMissing, AcceptsItem, ParsesDigest
  <1>6. \A x \in Bundle : bundle[b].list = x => x = b
    BY BundleAssumption DEF IInv, Ownership
  <1>7. lists' = [lists EXCEPT ![bundle[b].list] = Append(@, c)]
         /\ UNCHANGED <<bundle, maps, objs, sealed, tampered>> /\ Made(b)
    BY DEF AddMissing, Extend
  <1> HIDE DEF c
  <1> QED BY <1>2, <1>3, <1>4, <1>5, <1>6, <1>7, ExtendIInv DEF Cell

LEMMA PushItemIInv ==
    ASSUME IInv, NEW l \in CallerList, NEW o \in CallerItem, PushItem(l, o)
    PROVE  IInv'
  <1>1. \A x \in Bundle : l # x
    BY BundleAssumption
  <1>2. l \in ListRef /\ o \in Cell
    BY DEF ListRef, Cell
  <1>3. lists' = [lists EXCEPT ![l] = Append(@, o)]
         /\ UNCHANGED <<bundle, maps, objs, sealed, tampered>>
    BY DEF PushItem, Extend
  <1> QED BY <1>1, <1>2, <1>3, ExtendIInv
\* The constructors: the record of b is written, and at most its own map.
LEMMA CreateIInv ==
    ASSUME IInv, NEW b \in Bundle, NEW sdk \in Sdk, NEW h \in Header,
           NEW l \in {b} \cup CallerList, NEW m \in {b} \cup CallerMap,
           NEW e \in OptionalText(DigestText),
           Create(b, sdk, h, l, m, e),
           sdk = "go" => l = b /\ e # Unset,
           \/ sdk # "ts" /\ UNCHANGED maps
           \/ /\ sdk = "ts" /\ m = b
              /\ \E s \in Scope : /\ maps' = [maps EXCEPT ![b] = s]
                                  /\ ScopeKeysOf(s) \subseteq KnownScopeKeys
    PROVE  IInv'
  <1> DEFINE r == [sdk |-> sdk, header |-> h, list |-> l, map |-> m, env |-> e,
                   digest |-> Unsealed]
  <1> USE DEF IInv
  <1>1. r \in BundleFields
    BY DEF BundleFields, ListRef, MapRef, Unsealed
  <1>2. /\ bundle' = [bundle EXCEPT ![b] = r]
        /\ UNCHANGED <<lists, objs, sealed, tampered>>
        /\ bundle[b].sdk = "none"
    BY DEF Create, Made
  <1> HIDE DEF r
  <1>3. bundle'[b] = r /\ \A x \in Bundle : x # b => bundle'[x] = bundle[x]
    BY <1>2 DEF TypeOK
  <1>4. /\ r.sdk = sdk /\ r.list = l /\ r.map = m /\ r.env = e
        /\ r.digest = Unsealed
    BY DEF r
  <1>5. /\ maps' \in [MapRef -> Scope]
        /\ \A x \in MapRef : x # b => maps'[x] = maps[x]
        /\ sdk # "ts" => maps' = maps
        /\ sdk = "ts" => m = b /\ ScopeKeysOf(maps'[b]) \subseteq KnownScopeKeys
    BY DEF TypeOK, MapRef
  <1>6. TypeOK'
    <2>1. bundle' \in [Bundle -> BundleFields]
      BY <1>1, <1>2 DEF TypeOK
    <2> QED BY <1>2, <1>5, <2>1 DEF TypeOK
  <1>7. lists[b] = <<>>
    BY <1>2 DEF Ownership
  <1>8. Ownership'
    <2> SUFFICES ASSUME NEW x \in Bundle
                 PROVE  /\ bundle'[x].list \in {x} \cup CallerList
                        /\ bundle'[x].map \in {x} \cup CallerMap
                        /\ bundle'[x].sdk = "none" =>
                              /\ bundle'[x].list = x /\ lists'[x] = <<>>
                              /\ bundle'[x].map = x /\ maps'[x] = EmptyScope
                        /\ bundle'[x].sdk = "go" => bundle'[x].list = x
                        /\ bundle'[x].sdk = "ts" => bundle'[x].map = x
                        /\ bundle'[x].sdk = "ts" =>
                              ScopeKeysOf(maps'[x]) \subseteq KnownScopeKeys
      BY DEF Ownership
    <2>1. CASE x = b
      BY <1>3, <1>4, <1>5, <2>1 DEF Sdk
    <2>2. CASE x # b
      <3>1. bundle'[x] = bundle[x] /\ maps'[x] = maps[x] /\ lists'[x] = lists[x]
        BY <1>2, <1>3, <1>5, <2>2 DEF MapRef
      <3> QED BY <3>1 DEF Ownership
    <2> QED BY <2>1, <2>2
  <1>9. GoItemsAreOwn'
    <2> SUFFICES ASSUME NEW x \in Bundle, bundle'[x].sdk = "go"
                 PROVE  /\ bundle'[x].env # Unset
                        /\ \A n \in DOMAIN lists[x] :
                              /\ lists[x][n] \in Item
                              /\ lists[x][n].note # Unset
                              /\ x \notin tampered => lists[x][n].digest \in StrictDigest
      BY <1>2 DEF GoItemsAreOwn
    <2>1. CASE x = b
      BY <1>3, <1>4, <1>7, <2>1
    <2>2. CASE x # b
      BY <1>3, <2>2 DEF GoItemsAreOwn
    <2> QED BY <2>1, <2>2
  <1>10. DigestIsOfSealed'
    BY <1>2, <1>3, <1>4 DEF DigestIsOfSealed, Made
  <1> QED BY <1>6, <1>8, <1>9, <1>10

LEMMA NewIInv ==
    ASSUME IInv, NEW b \in Bundle, NEW h \in Header, NEW l \in ListRef,
           NEW m \in MapRef, NEW e \in EnvInput,
           NewGo(b, h) \/ NewTs(b, h, l, m, e) \/ NewPy(b, h, l, m, e)
    PROVE  IInv'
  <1>1. "" # Unset /\ "" \in OptionalText(DigestText) /\ e \in OptionalText(DigestText)
    BY ContractsAssumption, CoreAssumption, BundleAssumption DEF OptionalText
  <1>2. CASE NewGo(b, h)
    <2>1. Create(b, "go", h, b, b, "") /\ UNCHANGED maps
      BY <1>2 DEF NewGo
    <2> QED BY <1>1, <2>1, CreateIInv DEF Sdk
  <1>3. CASE NewTs(b, h, l, m, e)
    <2>1. /\ Create(b, "ts", h, l, b, e) /\ l \in {b} \cup CallerList
          /\ maps' = [maps EXCEPT ![b] = maps[m]]
          /\ ScopeKeysOf(maps[m]) \subseteq KnownScopeKeys
      BY <1>3 DEF NewTs, AcceptsScope
    <2>2. maps[m] \in Scope
      BY DEF IInv, TypeOK
    <2> QED BY <1>1, <2>1, <2>2, CreateIInv DEF Sdk
  <1>4. CASE NewPy(b, h, l, m, e)
    <2>1. /\ Create(b, "py", h, l, m, e) /\ UNCHANGED maps
          /\ l \in {b} \cup CallerList /\ m \in {b} \cup CallerMap
      BY <1>4 DEF NewPy
    <2> QED BY <1>1, <2>1, CreateIInv DEF Sdk
  <1> QED BY <1>2, <1>3, <1>4
\* Assigning fields of a bundle that is made, its list and its SDK apart.
LEMMA AssignIInv ==
    ASSUME IInv, NEW b \in Bundle, Made(b), NEW r \in BundleFields,
           bundle' = [bundle EXCEPT ![b] = r],
           UNCHANGED <<lists, maps, objs, sealed, tampered>>,
           r.sdk = bundle[b].sdk, r.list = bundle[b].list, r.digest = bundle[b].digest,
           r.map \in {b} \cup CallerMap, r.sdk = "ts" => r.map = b,
           r.sdk = "go" => r.env # Unset
    PROVE  IInv'
  <1> USE DEF IInv
  <1>1. bundle'[b] = r /\ \A x \in Bundle : x # b => bundle'[x] = bundle[x]
    BY DEF TypeOK
  <1>2. TypeOK'
    BY DEF TypeOK
  <1>3. Ownership'
    <2> SUFFICES ASSUME NEW x \in Bundle
                 PROVE  /\ bundle'[x].list \in {x} \cup CallerList
                        /\ bundle'[x].map \in {x} \cup CallerMap
                        /\ bundle'[x].sdk = "none" =>
                              /\ bundle'[x].list = x /\ lists[x] = <<>>
                              /\ bundle'[x].map = x /\ maps[x] = EmptyScope
                        /\ bundle'[x].sdk = "go" => bundle'[x].list = x
                        /\ bundle'[x].sdk = "ts" => bundle'[x].map = x
                        /\ bundle'[x].sdk = "ts" =>
                              ScopeKeysOf(maps[x]) \subseteq KnownScopeKeys
      BY DEF Ownership
    <2>1. CASE x = b
      BY <1>1, <2>1 DEF Ownership, Made
    <2>2. CASE x # b
      BY <1>1, <2>2 DEF Ownership
    <2> QED BY <2>1, <2>2
  <1>4. GoItemsAreOwn'
    <2>1. \A x \in Bundle : bundle'[x].sdk = "go" =>
             bundle[x].sdk = "go" /\ bundle'[x].env # Unset
      BY <1>1 DEF GoItemsAreOwn
    <2> QED BY <2>1 DEF GoItemsAreOwn
  <1>5. DigestIsOfSealed'
    <2>1. \A x \in Bundle : bundle'[x].sdk = bundle[x].sdk
                            /\ bundle'[x].digest = bundle[x].digest
      BY <1>1
    <2> QED BY <2>1 DEF DigestIsOfSealed, Made
  <1> QED BY <1>2, <1>3, <1>4, <1>5

LEMMA SetFieldIInv ==
    ASSUME IInv, NEW b \in Bundle,
           \/ \E m \in CallerMap : SetScope(b, m)
           \/ \E e \in EnvInput : SetEnv(b, e)
           \/ \E h \in Header : SetHeader(b, h)
    PROVE  IInv'
  <1>1. bundle[b] \in BundleFields
    BY DEF IInv, TypeOK
  <1>2. /\ bundle[b].map \in {b} \cup CallerMap
        /\ bundle[b].sdk = "ts" => bundle[b].map = b
        /\ bundle[b].sdk = "go" => bundle[b].env # Unset
    BY DEF IInv, Ownership, GoItemsAreOwn
  <1>3. bundle \in [Bundle -> BundleFields]
    BY DEF IInv, TypeOK
  <1>4. ASSUME NEW m \in CallerMap, SetScope(b, m) PROVE IInv'
    <2> DEFINE r == [bundle[b] EXCEPT !.map = m]
    <2>1. r \in BundleFields
      BY <1>1 DEF BundleFields, MapRef
    <2>2. /\ r.sdk = bundle[b].sdk /\ r.list = bundle[b].list /\ r.map = m
          /\ r.digest = bundle[b].digest /\ r.env = bundle[b].env /\ r.sdk = "go"
      BY <1>1, <1>4 DEF BundleFields, SetScope
    <2>3. bundle' = [bundle EXCEPT ![b] = r]
      BY <1>4 DEF SetScope
    <2>4. Made(b) /\ UNCHANGED <<lists, maps, objs, sealed, tampered>>
      BY <1>4 DEF SetScope
    <2> HIDE DEF r
    <2> QED BY <1>2, <2>1, <2>2, <2>3, <2>4, AssignIInv
  <1>5. ASSUME NEW e \in EnvInput, SetEnv(b, e) PROVE IInv'
    <2> DEFINE v == IF bundle[b].sdk = "go" THEN Plain(e) ELSE e
    <2> DEFINE r == [bundle[b] EXCEPT !.env = v]
    <2>1. v \in OptionalText(DigestText) /\ (bundle[b].sdk = "go" => v # Unset)
      BY ContractsAssumption, CoreAssumption, BundleAssumption DEF OptionalText, Plain
    <2>2. bundle' = [bundle EXCEPT ![b] = r]
      BY <1>5 DEF SetEnv
    <2>3. Made(b) /\ UNCHANGED <<lists, maps, objs, sealed, tampered>>
      BY <1>5 DEF SetEnv
    <2> HIDE DEF v
    <2>4. r \in BundleFields
      BY <1>1, <2>1 DEF BundleFields
    <2>5. /\ r.sdk = bundle[b].sdk /\ r.list = bundle[b].list
          /\ r.map = bundle[b].map /\ r.digest = bundle[b].digest /\ r.env = v
      BY <1>1 DEF BundleFields
    <2> HIDE DEF r
    <2> QED BY <1>2, <2>1, <2>2, <2>3, <2>4, <2>5, AssignIInv
  <1>6. ASSUME NEW h \in Header, SetHeader(b, h) PROVE IInv'
    <2> DEFINE r == [bundle[b] EXCEPT !.header = h]
    <2>1. r \in BundleFields
      BY <1>1 DEF BundleFields
    <2>2. /\ r.sdk = bundle[b].sdk /\ r.list = bundle[b].list
          /\ r.map = bundle[b].map /\ r.digest = bundle[b].digest
          /\ r.env = bundle[b].env
      BY <1>1 DEF BundleFields
    <2>3. bundle' = [bundle EXCEPT ![b] = r]
      BY <1>6 DEF SetHeader
    <2>4. Made(b) /\ UNCHANGED <<lists, maps, objs, sealed, tampered>>
      BY <1>6 DEF SetHeader
    <2> HIDE DEF r
    <2> QED BY <1>2, <2>1, <2>2, <2>3, <2>4, AssignIInv
  <1> QED BY <1>4, <1>5, <1>6
\* SetScope(nil) and the caller's write to a map it holds: one map is written.
LEMMA WriteMapIInv ==
    ASSUME IInv, NEW m \in MapRef, NEW s \in Scope,
           maps' = [maps EXCEPT ![m] = s],
           tampered \subseteq tampered', tampered' \subseteq Bundle,
           UNCHANGED <<bundle, lists, objs, sealed>>,
           \A b \in Bundle : m = b =>
              /\ Made(b)
              /\ bundle[b].sdk = "ts" => ScopeKeysOf(s) \subseteq KnownScopeKeys
    PROVE  IInv'
  <1> USE DEF IInv
  <1>1. maps'[m] = s /\ \A x \in MapRef : x # m => maps'[x] = maps[x]
    BY DEF TypeOK
  <1>2. TypeOK'
    BY DEF TypeOK
  <1>3. Ownership'
    <2> SUFFICES ASSUME NEW x \in Bundle
                 PROVE  /\ bundle[x].sdk = "none" => maps'[x] = maps[x]
                        /\ bundle[x].sdk = "ts" =>
                              ScopeKeysOf(maps'[x]) \subseteq KnownScopeKeys
      BY DEF Ownership
    <2>1. CASE x = m
      BY <2>1, <1>1 DEF Made
    <2>2. CASE x # m
      BY <2>2, <1>1 DEF Ownership, MapRef
    <2> QED BY <2>1, <2>2
  <1>4. GoItemsAreOwn' /\ DigestIsOfSealed'
    BY DEF GoItemsAreOwn, DigestIsOfSealed, Made
  <1> QED BY <1>2, <1>3, <1>4

LEMMA ClearScopeIInv ==
    ASSUME IInv, NEW b \in Bundle, ClearScope(b)
    PROVE  IInv'
  <1> DEFINE r == [bundle[b] EXCEPT !.map = b]
  <1> USE DEF IInv
  <1>1. bundle[b] \in BundleFields /\ bundle[b].sdk = "go" /\ b \in MapRef
    BY DEF TypeOK, ClearScope, MapRef
  <1>2. r \in BundleFields
    BY <1>1 DEF BundleFields
  <1>3. /\ r.sdk = bundle[b].sdk /\ r.list = bundle[b].list /\ r.map = b
        /\ r.digest = bundle[b].digest /\ r.env = bundle[b].env
    BY <1>1 DEF BundleFields
  <1>4. /\ bundle' = [bundle EXCEPT ![b] = r]
        /\ maps' = [maps EXCEPT ![b] = EmptyScope]
        /\ UNCHANGED <<lists, objs, sealed, tampered>>
    BY DEF ClearScope
  <1> HIDE DEF r
  <1>5. bundle'[b] = r /\ \A x \in Bundle : x # b => bundle'[x] = bundle[x]
    BY <1>4 DEF TypeOK
  <1>6. \A x \in MapRef : x # b => maps'[x] = maps[x]
    BY <1>4 DEF TypeOK
  <1>7. TypeOK'
    <2>1. EmptyScope \in Scope
      BY DEF EmptyScope, Scope
    <2> QED BY <1>1, <1>2, <1>4, <2>1 DEF TypeOK
  <1>8. Ownership'
    <2> SUFFICES ASSUME NEW x \in Bundle
                 PROVE  /\ bundle'[x].list \in {x} \cup CallerList
                        /\ bundle'[x].map \in {x} \cup CallerMap
                        /\ bundle'[x].sdk = "none" =>
                              /\ bundle'[x].list = x /\ lists[x] = <<>>
                              /\ bundle'[x].map = x /\ maps'[x] = EmptyScope
                        /\ bundle'[x].sdk = "go" => bundle'[x].list = x
                        /\ bundle'[x].sdk = "ts" => bundle'[x].map = x
                        /\ bundle'[x].sdk = "ts" =>
                              ScopeKeysOf(maps'[x]) \subseteq KnownScopeKeys
      BY <1>4 DEF Ownership
    <2>1. CASE x = b
      BY <1>1, <1>3, <1>5, <2>1 DEF Ownership
    <2>2. CASE x # b
      BY <1>5, <1>6, <2>2 DEF Ownership, MapRef
    <2> QED BY <2>1, <2>2
  <1>9. GoItemsAreOwn'
    <2>1. \A x \in Bundle : bundle'[x].sdk = bundle[x].sdk
                            /\ bundle'[x].env = bundle[x].env
      BY <1>3, <1>5
    <2> QED BY <1>4, <2>1 DEF GoItemsAreOwn
  <1>10. DigestIsOfSealed'
    <2>1. \A x \in Bundle : bundle'[x].sdk = bundle[x].sdk
                            /\ bundle'[x].digest = bundle[x].digest
      BY <1>3, <1>5
    <2> QED BY <1>4, <2>1 DEF DigestIsOfSealed, Made
  <1> QED BY <1>7, <1>8, <1>9, <1>10

LEMMA SealIInv ==
    ASSUME IInv, NEW b \in Bundle, Seal(b)
    PROVE  IInv'
  <1> DEFINE c == ContentOf(b)
  <1> DEFINE sdk == bundle[b].sdk
  <1> DEFINE r == [bundle[b] EXCEPT !.digest = Digest(sdk, c)]
  <1> USE DEF IInv
  <1>1. bundle[b] \in BundleFields /\ sdk \in Sdk
    BY DEF TypeOK, BundleFields, Seal, Made
  <1>2. c \in Content /\ (sdk = "ts" => ScopeKeysOf(c.scope) \subseteq KnownScopeKeys)
    BY ContentType
  <1>3. Digest(sdk, c) \in SUBSET BodyDoc
    <2>1. Body(sdk, c) \in BodyDoc
      BY <1>1, <1>2, ContentType, BodyType
    <2> QED BY <2>1 DEF Digest
  <1>4. c.items # <<>>
    BY DEF Seal, CanSeal
  <1>5. /\ bundle' = [bundle EXCEPT ![b] = r]
        /\ sealed' = [sealed EXCEPT ![b] = {c}]
        /\ UNCHANGED <<lists, maps, objs, tampered>>
    BY DEF Seal
  <1> HIDE DEF c
  <1>6. r \in BundleFields
    BY <1>1, <1>3 DEF BundleFields
  <1>7. /\ r.sdk = sdk /\ r.list = bundle[b].list /\ r.map = bundle[b].map
        /\ r.env = bundle[b].env /\ r.digest = Digest(sdk, c)
    BY <1>1 DEF BundleFields
  <1> HIDE DEF r
  <1>8. bundle'[b] = r /\ \A x \in Bundle : x # b => bundle'[x] = bundle[x]
    BY <1>5 DEF TypeOK
  <1>9. \A x \in Bundle : /\ bundle'[x].sdk = bundle[x].sdk
                          /\ bundle'[x].list = bundle[x].list
                          /\ bundle'[x].map = bundle[x].map
                          /\ bundle'[x].env = bundle[x].env
    BY <1>7, <1>8
  <1>10. TypeOK'
    <2>1. sealed' \in [Bundle -> SUBSET Content]
      BY <1>2, <1>5 DEF TypeOK
    <2> QED BY <1>5, <1>6, <2>1 DEF TypeOK
  <1>11. Ownership' /\ GoItemsAreOwn'
    BY <1>5, <1>9 DEF Ownership, GoItemsAreOwn
  <1>12. DigestIsOfSealed'
    <2> DEFINE Bound(x, digest, seals) ==
                  \/ seals = {} /\ digest = Unsealed
                  \/ /\ bundle'[x].sdk # "none"
                     /\ \E d \in seals :
                           /\ seals = {d}
                           /\ digest = Digest(bundle'[x].sdk, d)
                           /\ d.items # <<>>
                           /\ bundle'[x].sdk = "ts" =>
                                 ScopeKeysOf(d.scope) \subseteq KnownScopeKeys
    <2> SUFFICES ASSUME NEW x \in Bundle
                 PROVE  Bound(x, bundle'[x].digest, sealed'[x])
      BY DEF DigestIsOfSealed, Made
    <2>1. CASE x = b
      <3>1. sealed'[b] = {c}
        BY <1>5 DEF TypeOK
      <3> QED BY <1>1, <1>2, <1>4, <1>7, <1>8, <2>1, <3>1 DEF Sdk
    <2>2. CASE x # b
      <3>1. sealed'[x] = sealed[x] /\ bundle'[x] = bundle[x]
        BY <1>5, <1>8, <2>2 DEF TypeOK
      <3> QED BY <3>1 DEF DigestIsOfSealed, Made
    <2> QED BY <2>1, <2>2
  <1> QED BY <1>10, <1>11, <1>12

\* A caller's item object is written: no bundle of Go refers to it.
LEMMA WriteItemIInv ==
    ASSUME IInv, NEW o \in CallerItem, NEW i \in ItemInput, WriteItem(o, i)
    PROVE  IInv'
  <1> USE DEF IInv
  <1>1. TypeOK'
    BY BundleAssumption DEF TypeOK, WriteItem
  <1>2. Ownership' /\ GoItemsAreOwn' /\ DigestIsOfSealed'
    BY DEF WriteItem, Ownership, GoItemsAreOwn, DigestIsOfSealed, Made
  <1> QED BY <1>1, <1>2

LEMMA TamperIInv ==
    ASSUME IInv, NEW b \in Bundle, NEW n \in 1..MaxItems, NEW i \in TamperInput,
           Tamper(b, n, i)
    PROVE  IInv'
  <1> DEFINE l == bundle[b].list
  <1> DEFINE v == OwnItem(bundle[b].sdk, i)
  <1> USE DEF IInv
  <1>1. i \in Item /\ bundle[b] \in BundleFields /\ l \in ListRef
    BY BundleAssumption DEF TypeOK, BundleFields
  <1>2. GoItem(i) \in Item /\ GoItem(i).note # Unset
    BY <1>1, ContractsAssumption, CoreAssumption DEF GoItem, Plain, Item, OptionalText
  <1>3. v \in Item /\ (bundle[b].sdk = "go" => v.note # Unset)
    BY <1>1, <1>2 DEF OwnItem
  <1>4. /\ lists' = [lists EXCEPT ![l] = [lists[l] EXCEPT ![n] = v]]
        /\ n \in DOMAIN lists[l] /\ tampered' = tampered \cup {b} /\ Made(b)
        /\ UNCHANGED <<bundle, maps, objs, sealed>>
    BY DEF Tamper
  <1>5. lists[l] \in Seq(Cell) /\ \A x \in Bundle : l = x => x = b
    BY <1>1, BundleAssumption DEF TypeOK, Ownership
  <1> HIDE DEF v, l
  <1>6. lists'[l] = [lists[l] EXCEPT ![n] = v]
         /\ \A x \in ListRef : x # l => lists'[x] = lists[x]
    BY <1>1, <1>4 DEF TypeOK
  <1>7. TypeOK'
    <2>1. [lists[l] EXCEPT ![n] = v] \in Seq(Cell)
      BY <1>3, <1>4, <1>5 DEF Cell
    <2> QED BY <1>1, <1>4, <2>1 DEF TypeOK
  <1>8. Ownership'
    <2>1. \A x \in Bundle : x # b => lists'[x] = lists[x]
      BY <1>5, <1>6 DEF ListRef
    <2> QED BY <1>4, <2>1 DEF Ownership, Made
  <1>9. GoItemsAreOwn'
    <2> SUFFICES ASSUME NEW x \in Bundle, bundle[x].sdk = "go"
                 PROVE  \A k \in DOMAIN lists'[x] :
                           /\ lists'[x][k] \in Item
                           /\ lists'[x][k].note # Unset
                           /\ x \notin tampered' => lists'[x][k].digest \in StrictDigest
      BY <1>4 DEF GoItemsAreOwn
    <2>1. CASE x # b
      <3>1. lists'[x] = lists[x] /\ (x \notin tampered' => x \notin tampered)
        BY <1>4, <1>5, <1>6, <2>1 DEF ListRef
      <3> QED BY <3>1 DEF GoItemsAreOwn
    <2>2. CASE x = b
      <3>1. l = b /\ b \in tampered'
        BY <1>4, <2>2 DEF Ownership, l
      <3>2. ASSUME NEW k \in DOMAIN lists'[b]
            PROVE  lists'[b][k] \in Item /\ lists'[b][k].note # Unset
        <4>1. k \in DOMAIN lists[b] /\ lists'[b][k] = IF k = n THEN v ELSE lists[b][k]
          BY <1>5, <1>6, <3>1, <3>2
        <4> QED BY <1>3, <2>2, <4>1 DEF GoItemsAreOwn
      <3> QED BY <2>2, <3>1, <3>2
    <2> QED BY <2>1, <2>2
  <1>10. DigestIsOfSealed'
    BY <1>4 DEF DigestIsOfSealed, Made
  <1> QED BY <1>7, <1>8, <1>9, <1>10

-----------------------------------------------------------------------------
(* The theorems *)

LEMMA NextIInv == IInv /\ [Next]_vars => IInv'
  <1> SUFFICES ASSUME IInv, [Next]_vars PROVE IInv'
    OBVIOUS
  <1>1. ASSUME NEW b \in Bundle, NEW h \in Header, NewGo(b, h) PROVE IInv'
    <2>1. b \in ListRef /\ b \in MapRef
      BY DEF ListRef, MapRef
    <2>2. Create(b, "go", h, b, b, "") /\ UNCHANGED maps
      BY <1>1 DEF NewGo
    <2>3. "" # Unset /\ "" \in OptionalText(DigestText)
      BY ContractsAssumption, CoreAssumption DEF OptionalText
    <2> QED BY <2>2, <2>3, CreateIInv DEF Sdk
  <1>2. ASSUME NEW b \in Bundle, NEW h \in Header, NEW l \in ListRef, NEW m \in MapRef,
               NEW e \in EnvInput, NewTs(b, h, l, m, e) \/ NewPy(b, h, l, m, e)
        PROVE  IInv'
    BY <1>2, NewIInv
  <1>3. ASSUME NEW b \in Bundle, NEW o \in CallerItem, AddItem(b, o) PROVE IInv'
    BY <1>3, AddItemIInv
  <1>4. ASSUME NEW b \in Bundle, NEW i \in ItemInput, AddMissing(b, i) PROVE IInv'
    BY <1>4, AddMissingIInv
  <1>5. ASSUME NEW b \in Bundle,
               \/ \E m \in CallerMap : SetScope(b, m)
               \/ \E e \in EnvInput : SetEnv(b, e)
               \/ \E h \in Header : SetHeader(b, h)
        PROVE  IInv'
    BY <1>5, SetFieldIInv
  <1>6. ASSUME NEW b \in Bundle, ClearScope(b) PROVE IInv'
    BY <1>6, ClearScopeIInv
  <1>7. ASSUME NEW b \in Bundle, Seal(b) PROVE IInv'
    BY <1>7, SealIInv
  <1>8. ASSUME NEW o \in CallerItem, NEW i \in ItemInput, WriteItem(o, i) PROVE IInv'
    BY <1>8, WriteItemIInv
  <1>9. ASSUME NEW m \in CallerMap, NEW s \in ScopeInput, WriteMap(m, s) PROVE IInv'
    <2>1. s \in Scope /\ m \in MapRef /\ \A b \in Bundle : m # b
      BY BundleAssumption DEF MapRef
    <2>2. maps' = [maps EXCEPT ![m] = s]
           /\ UNCHANGED <<bundle, lists, objs, sealed, tampered>>
      BY <1>9 DEF WriteMap
    <2>3. tampered \subseteq tampered' /\ tampered' \subseteq Bundle
      BY <2>2 DEF IInv, TypeOK
    <2> QED BY <2>1, <2>2, <2>3, WriteMapIInv
  <1>10. ASSUME NEW l \in CallerList, NEW o \in CallerItem, PushItem(l, o) PROVE IInv'
    BY <1>10, PushItemIInv
  <1>11. ASSUME NEW b \in Bundle, NEW n \in 1..MaxItems, NEW i \in TamperInput,
                Tamper(b, n, i)
         PROVE  IInv'
    BY <1>11, TamperIInv
  <1>12. ASSUME NEW b \in Bundle, NEW s \in OwnScopeInput, WriteScope(b, s)
         PROVE  IInv'
    <2>1. s \in Scope /\ b \in MapRef /\ tampered \subseteq Bundle
      BY BundleAssumption DEF MapRef, IInv, TypeOK
    <2>2. bundle[b].sdk = "ts" => ScopeKeysOf(s) \subseteq KnownScopeKeys
      BY <1>12 DEF WriteScope, AcceptsScope
    <2> QED BY <1>12, <2>1, <2>2, WriteMapIInv DEF WriteScope
  <1>13. CASE UNCHANGED vars
    BY <1>13 DEF vars, IInv, TypeOK, Ownership, GoItemsAreOwn, DigestIsOfSealed, Made
  <1> QED BY <1>1, <1>2, <1>3, <1>4, <1>5, <1>6, <1>7, <1>8, <1>9, <1>10, <1>11, <1>12,
         <1>13 DEF Next

\* The inductive invariant holds in every reachable state, for any number of
\* bundles, caller objects and items.
THEOREM InductiveInvariant == Spec => []IInv
  BY InitIInv, NextIInv, PTL DEF Spec

\* No SDK lets an ill-typed or undefined value into a body it hashes.
THEOREM TypeCorrect == Spec => []TypeOK
  <1>1. IInv => TypeOK
    BY DEF IInv
  <1> QED BY <1>1, InductiveInvariant, PTL

\* What verifies is what the bundle sealed.
THEOREM SealIntegrity == Spec => []VerifiedIsWhatWasSealed
  <1>1. ASSUME IInv PROVE VerifiedIsWhatWasSealed
    <2> SUFFICES ASSUME NEW b \in Bundle, Verifies(b)
                 PROVE  \E c \in sealed[b] : SameEvidence(ContentOf(b), c) /\ c.items # <<>>
      BY DEF VerifiedIsWhatWasSealed
    <2> DEFINE sdk == bundle[b].sdk
    <2>1. sdk \in Sdk
      BY <1>1 DEF IInv, TypeOK, BundleFields, Verifies, Made
    <2>2. bundle[b].digest = Digest(sdk, ContentOf(b)) /\ bundle[b].digest # Unsealed
      BY DEF Verifies, VerifyOk
    <2>3. PICK c \in sealed[b] :
             /\ bundle[b].digest = Digest(sdk, c)
             /\ c.items # <<>>
             /\ sdk = "ts" => ScopeKeysOf(c.scope) \subseteq KnownScopeKeys
      BY <1>1, <2>2 DEF IInv, DigestIsOfSealed
    <2>4. c \in Content
      BY <1>1, <2>3 DEF IInv, TypeOK
    <2>5. /\ ContentOf(b) \in Content
          /\ sdk = "ts" => ScopeKeysOf(ContentOf(b).scope) \subseteq KnownScopeKeys
      BY <1>1, ContentType
    <2>6. Body(sdk, ContentOf(b)) = Body(sdk, c)
      BY <2>2, <2>3 DEF Digest
    <2>7. SameEvidence(ContentOf(b), c)
      BY <2>1, <2>3, <2>4, <2>5, <2>6, BodyInjective
    <2> QED BY <2>3, <2>7
  <1> QED BY <1>1, InductiveInvariant, PTL

\* A Go seal over the present content is never one that verify refuses.
THEOREM GoSealVerifies == Spec => []GoSealIsVerifiable
  <1>1. ASSUME IInv PROVE GoSealIsVerifiable
    <2> SUFFICES ASSUME NEW b \in Bundle \ tampered, bundle[b].sdk = "go",
                        bundle[b].digest = Digest("go", ContentOf(b))
                 PROVE  Verifies(b)
      BY DEF GoSealIsVerifiable
    <2>1. bundle[b].list = b
      BY <1>1 DEF IInv, Ownership
    <2>2. ASSUME NEW n \in DOMAIN ContentOf(b).items
          PROVE  ContentOf(b).items[n].digest \in StrictDigest
      <3>1. n \in DOMAIN lists[b] /\ ContentOf(b).items[n] = Deref(lists[b][n])
        BY <2>1, <2>2 DEF ContentOf, ItemsOf
      <3>2. lists[b][n] \in Item /\ lists[b][n].digest \in StrictDigest
        BY <1>1, <3>1 DEF IInv, GoItemsAreOwn
      <3>3. Deref(lists[b][n]) = lists[b][n]
        BY <1>1, <3>2, CellValue DEF IInv, Cell
      <3> QED BY <3>1, <3>2, <3>3
    <2>3. bundle[b].digest # Unsealed
      BY DEF Digest, Unsealed
    <2> QED BY <2>2, <2>3 DEF Verifies, Made, VerifyOk, ParsesDigest
  <1> QED BY <1>1, InductiveInvariant, PTL

\* No default list or map is shared between two bundles.
THEOREM NoSharing == Spec => []NoSharedDefaults
  <1>1. IInv => NoSharedDefaults
    BY BundleAssumption DEF IInv, Ownership, NoSharedDefaults
  <1> QED BY <1>1, InductiveInvariant, PTL

\* "Digests match" across the SDKs, for what they hold after any history.
THEOREM DigestParity == Spec => []SameEvidenceSameDigest
  <1>1. ASSUME IInv PROVE SameEvidenceSameDigest
    <2> SUFFICES ASSUME NEW b \in Bundle, NEW c \in Bundle, Made(b), Made(c),
                        SameEvidence(ContentOf(b), ContentOf(c))
                 PROVE  Digest(bundle[b].sdk, ContentOf(b))
                          = Digest(bundle[c].sdk, ContentOf(c))
      BY DEF SameEvidenceSameDigest
    <2>1. bundle[b].sdk \in Sdk /\ bundle[c].sdk \in Sdk
      BY <1>1 DEF IInv, TypeOK, BundleFields, Made
    <2>2. ASSUME NEW x \in Bundle
          PROVE  /\ ContentOf(x) \in Content
                 /\ bundle[x].sdk = "go" => GoText(ContentOf(x))
                 /\ bundle[x].sdk = "ts" =>
                       ScopeKeysOf(ContentOf(x).scope) \subseteq KnownScopeKeys
      BY <1>1, ContentType
    <2>3. Body(bundle[b].sdk, ContentOf(b)) = Body(bundle[c].sdk, ContentOf(c))
      BY <2>1, <2>2, BodyAgrees
    <2> QED BY <2>3 DEF Digest
  <1> QED BY <1>1, InductiveInvariant, PTL

\* A Go bundle is broken only through its own fields, list or map: the items it
\* holds are values, so nothing written to a caller's item can reach them.
THEOREM GoSealIsolation == Spec => GoSealIsIsolated
  <1> DEFINE Broken(b) == bundle[b].sdk = "go" /\ Verifies(b) /\ ~Verifies(b)'
             Own(b) == \/ bundle'[b] # bundle[b]
                       \/ lists'[b] # lists[b]
                       \/ maps'[bundle[b].map] # maps[bundle[b].map]
  <1>1. ASSUME IInv, NEW b \in Bundle, Broken(b), ~Own(b)
        PROVE  FALSE
    <2>1. bundle'[b] = bundle[b] /\ bundle[b].list = b
      BY <1>1 DEF IInv, Ownership
    <2>2. \A n \in DOMAIN lists[b] : lists[b][n] \notin CallerItem
      BY <1>1, BundleAssumption DEF IInv, GoItemsAreOwn
    <2>3. ItemsOf(b) = [n \in DOMAIN lists[b] |-> lists[b][n]]
      BY <2>1, <2>2 DEF ItemsOf, Deref
    <2>4. lists'[bundle'[b].list] = lists[b]
      BY <1>1, <2>1
    <2>5. ItemsOf(b)' = [n \in DOMAIN lists[b] |-> lists[b][n]]
      BY <2>2, <2>4 DEF ItemsOf, Deref
    <2>6. ContentOf(b)' = ContentOf(b)
      BY <1>1, <2>1, <2>3, <2>5 DEF ContentOf
    <2> QED BY <1>1, <2>1, <2>6 DEF Verifies, Made
  <1>2. IInv => [\A b \in Bundle : Broken(b) => Own(b)]_vars
    BY <1>1
  <1> QED BY <1>2, InductiveInvariant, PTL DEF GoSealIsIsolated

\* An optional text that a reader got from the wire says what was written.
LEMMA ReadTextIsSame ==
    ASSUME NEW sdk \in Sdk, NEW T, NEW t \in OptionalText(T)
    PROVE  /\ ReadText(sdk, t) \in OptionalText(T)
           /\ Plain(ReadText(sdk, t)) = Plain(t)
           /\ sdk = "go" => ReadText(sdk, t) # Unset
  BY ContractsAssumption DEF ReadText, OptionalText, Plain, Absent

\* So does a bundle; and what a reader checks of it is what its author checks.
LEMMA ReadIntoIsSame ==
    ASSUME NEW sdk \in Sdk, NEW c \in Content
    PROVE  LET d == ReadInto(sdk, c)
           IN  /\ d \in Content /\ SameEvidence(c, d)
               /\ sdk = "go" => GoText(d)
               /\ d.scope = c.scope
               /\ DOMAIN d.items = DOMAIN c.items
               /\ \A n \in DOMAIN c.items : d.items[n].digest = c.items[n].digest
  <1> DEFINE d == ReadInto(sdk, c)
             item(n) == [c.items[n] EXCEPT !.note = ReadText(sdk, c.items[n].note)]
             items == [n \in DOMAIN c.items |-> item(n)]
  <1>1. /\ d.header = c.header /\ d.scope = c.scope /\ d.env = ReadText(sdk, c.env)
        /\ d.items = items
        /\ d = [header |-> c.header, scope |-> c.scope, items |-> items,
                env |-> ReadText(sdk, c.env)]
    <2> DEFINE e == ReadText(sdk, c.env)
    <2>1. d = [c EXCEPT !.env = e, !.items = items]
      BY DEF ReadInto
    <2> HIDE DEF d, e, items
    <2>2. d = [header |-> c.header, scope |-> c.scope, items |-> items, env |-> e]
      BY <2>1 DEF Content
    <2> QED BY <2>2 DEF e
  <1>2. /\ c.items \in Seq(Item) /\ c.header \in Header /\ c.scope \in Scope
        /\ c.env \in OptionalText(DigestText)
    BY DEF Content
  <1>3. ASSUME NEW n \in DOMAIN c.items
        PROVE  /\ item(n) \in Item
               /\ item(n).kind = c.items[n].kind /\ item(n).uri = c.items[n].uri
               /\ item(n).digest = c.items[n].digest
               /\ Plain(item(n).note) = Plain(c.items[n].note)
               /\ sdk = "go" => item(n).note # Unset
    <2>1. c.items[n] \in Item
      BY <1>2
    <2>2. c.items[n].note \in OptionalText(NoteText)
      BY <2>1 DEF Item
    <2> DEFINE t == ReadText(sdk, c.items[n].note)
    <2>3. /\ t \in OptionalText(NoteText) /\ Plain(t) = Plain(c.items[n].note)
          /\ sdk = "go" => t # Unset
      BY <2>2, ReadTextIsSame
    <2> HIDE DEF t
    <2>4. item(n) = [c.items[n] EXCEPT !.note = t]
      BY DEF t
    <2> HIDE DEF item
    <2> QED BY <2>1, <2>3, <2>4 DEF Item
  <1>4. /\ d.env \in OptionalText(DigestText) /\ Plain(d.env) = Plain(c.env)
        /\ sdk = "go" => d.env # Unset
    BY <1>1, <1>2, ReadTextIsSame
  <1> HIDE DEF item
  <1>5. items \in Seq(Item) /\ Len(items) = Len(c.items)
    BY <1>2, <1>3
  <1> HIDE DEF d, items
  <1>6. DOMAIN items = DOMAIN c.items /\ \A n \in DOMAIN c.items : items[n] = item(n)
    BY DEF items
  <1>7. d \in Content
    BY <1>1, <1>2, <1>4, <1>5 DEF Content
  <1>8. SameEvidence(c, d)
    BY <1>1, <1>3, <1>4, <1>5, <1>6 DEF SameEvidence
  <1>9. sdk = "go" => GoText(d)
    BY <1>1, <1>3, <1>4, <1>6 DEF GoText
  <1>10. DOMAIN d.items = DOMAIN c.items
         /\ \A n \in DOMAIN c.items : d.items[n].digest = c.items[n].digest
    BY <1>1, <1>3, <1>6
  <1> QED BY <1>1, <1>7, <1>8, <1>9, <1>10 DEF d

\* "Evidence sealed in any SDK verifies in the others" (sdk/go/README.md:5), for
\* all that the published schema takes: one SDK's verify answers for all of them.
THEOREM SealsTravel == Spec => []SchemaValidSealTravels
  <1>1. ASSUME IInv PROVE SchemaValidSealTravels
    <2> SUFFICES ASSUME NEW b \in Bundle, NEW sdk \in Sdk,
                        SchemaValid(ContentOf(b), bundle[b].digest)
                 PROVE  VerifyOk(sdk, ReadInto(sdk, ContentOf(b)), bundle[b].digest)
                           <=> Verifies(b)
      BY DEF SchemaValidSealTravels
    <2> DEFINE c == ContentOf(b)
               d == ReadInto(sdk, c)
               own == bundle[b].sdk
    <2>1. /\ bundle[b].digest # Unsealed
          /\ \A n \in DOMAIN c.items : c.items[n].digest \in StrictDigest
          /\ ScopeKeysOf(c.scope) \subseteq KnownScopeKeys
      BY DEF SchemaValid
    <2>2. Made(b) /\ own \in Sdk
      BY <1>1, <2>1 DEF IInv, DigestIsOfSealed, TypeOK, BundleFields, Made
    <2>3. c \in Content /\ (own = "go" => GoText(c))
      BY <1>1, ContentType
    <2>4. /\ d \in Content /\ SameEvidence(c, d) /\ (sdk = "go" => GoText(d))
          /\ d.scope = c.scope /\ DOMAIN d.items = DOMAIN c.items
          /\ \A n \in DOMAIN c.items : d.items[n].digest = c.items[n].digest
      BY <2>3, ReadIntoIsSame
    <2> HIDE DEF c, d
    <2>5. Digest(own, c) = Digest(sdk, d)
      BY <2>1, <2>2, <2>3, <2>4, BodyAgrees DEF Digest
    <2>6. VerifyOk(own, c, bundle[b].digest) <=> VerifyOk(sdk, d, bundle[b].digest)
      BY <2>1, <2>4, <2>5 DEF VerifyOk, ParsesDigest
    <2> QED BY <2>2, <2>6 DEF Verifies, c, d
  <1> QED BY <1>1, InductiveInvariant, PTL
=============================================================================
