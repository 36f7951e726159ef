--------------------------- MODULE GoVerifyProofs ---------------------------
(* Theorems about GoVerify, for every value of its constants. *)
EXTENDS GoVerify, TLAPS

-----------------------------------------------------------------------------
(* Keys that may be left out *)

LEMMA TextOf ==
    ASSUME NEW T, NEW t \in Optional(T \cup {""})
    PROVE  /\ Text(t) \in T \cup {""}
           /\ EmitText("go", Text(t)) = NoBlank(t)
  <1>1. CASE t = {}
    BY <1>1 DEF Text, EmitText, NoBlank
  <1>2. CASE \E x \in T \cup {""} : t = {x}
    <2>1. PICK x \in T \cup {""} : t = {x}
      BY <1>2
    <2>2. Text(t) = x
      BY <2>1 DEF Text
    <2> QED BY <2>1, <2>2 DEF EmitText, NoBlank
  <1> QED BY <1>1, <1>2 DEF Optional

LEMMA EmittedIsOptional ==
    ASSUME NEW T, NEW sdk \in Sdk, NEW t \in OptionalText(T)
    PROVE  EmitText(sdk, ReadText(sdk, t)) \in Optional(T \cup {""})
  <1>1. CASE t \in {"", Unset}
    <2>1. ReadText(sdk, t) = Absent(sdk)
      BY <1>1 DEF ReadText
    <2>2. EmitText(sdk, Absent(sdk)) = {}
      BY DEF EmitText, Absent
    <2> QED BY <2>1, <2>2 DEF Optional
  <1>2. CASE t \notin {"", Unset}
    <2>1. ReadText(sdk, t) = t /\ t \in T
      BY <1>2 DEF ReadText, OptionalText
    <2>2. EmitText(sdk, t) = {t}
      BY <1>2 DEF EmitText
    <2> QED BY <2>1, <2>2 DEF Optional
  <1> QED BY <1>1, <1>2

-----------------------------------------------------------------------------
(* Items and scopes, from the wire and back *)

\* An item with another note.
LEMMA WithNote ==
    ASSUME NEW i \in WireItem, NEW t
    PROVE  [i EXCEPT !.note = t] = [kind |-> i.kind, uri |-> i.uri,
                                    digest |-> i.digest, note |-> t]
  BY DEF WireItem

\* The two kinds of items, field by field.
LEMMA ItemFields ==
    ASSUME NEW k, NEW u, NEW d, NEW t
    PROVE  /\ k \in Kind /\ u \in WireUri /\ d \in DigestText /\ t \in OptionalText(NoteText)
              <=> [kind |-> k, uri |-> u, digest |-> d, note |-> t] \in Item
           /\ k \in Kind /\ u \in WireUri /\ d \in DigestText /\ t \in WireNote
              <=> [kind |-> k, uri |-> u, digest |-> d, note |-> t] \in WireItem
  <1>1. Item = [kind: Kind, uri: WireUri, digest: DigestText, note: OptionalText(NoteText)]
    BY DEF Item, WireUri
  <1> QED BY <1>1 DEF WireItem

\* What Go makes of a wire item, and makes of that again.
LEMMA GoItemOfWire ==
    ASSUME NEW i \in WireItem
    PROVE  /\ GoItemOf(i) \in Item
           /\ ItemJson("go", GoItemOf(i)) = NoBlankNote(i)
  <1> DEFINE t == Text(i.note)
             e == NoBlank(i.note)
  <1>1. t \in NoteText \cup {""} /\ EmitText("go", t) = e
    <2>1. i.note \in Optional(NoteText \cup {""})
      BY DEF WireItem, WireNote
    <2> QED BY <2>1, TextOf
  <1>2. NoBlankNote(i) = [i EXCEPT !.note = e]
    BY DEF NoBlankNote
  <1>3. GoItemOf(i) = [kind |-> i.kind, uri |-> i.uri, digest |-> i.digest, note |-> t]
    BY DEF GoItemOf
  <1> HIDE DEF t, e
  <1>4. GoItemOf(i) \in Item
    <2>1. t \in OptionalText(NoteText)
      BY <1>1 DEF OptionalText
    <2> QED BY <1>3, <2>1, ItemFields DEF WireItem
  <1>5. ItemJson("go", GoItemOf(i)) = [kind |-> i.kind, uri |-> i.uri,
                                       digest |-> i.digest, note |-> e]
    <2> DEFINE g == GoItemOf(i)
    <2>1. /\ g.kind = i.kind /\ g.uri = i.uri /\ g.digest = i.digest
          /\ g.note = t
      BY <1>3
    <2>2. ItemJson("go", g) = [kind |-> g.kind, uri |-> g.uri, digest |-> g.digest,
                               note |-> EmitText("go", g.note)]
      BY DEF ItemJson
    <2>3. EmitText("go", g.note) = e
      BY <1>1, <2>1
    <2> HIDE DEF g
    <2>4. ItemJson("go", g) = [kind |-> i.kind, uri |-> i.uri, digest |-> i.digest,
                               note |-> e]
      BY <2>1, <2>2, <2>3
    <2> QED BY <2>4 DEF g
  <1>6. NoBlankNote(i) = [kind |-> i.kind, uri |-> i.uri,
                          digest |-> i.digest, note |-> e]
    BY <1>2, WithNote DEF WireItem
  <1> QED BY <1>4, <1>5, <1>6

LEMMA ScopeOfType ==
    ASSUME NEW body \in WireBody
    PROVE  ScopeOf(body) \in Scope
  <1> SUFFICES ASSUME NEW k \in ScopeKey
               PROVE  ScopeOf(body)[k] \in ScopeText \cup {Unset}
    BY DEF ScopeOf, Scope
  <1>1. CASE \E p \in body.scope : p[1] = k
    <2>1. (CHOOSE p \in body.scope : p[1] = k) \in body.scope
      BY <1>1
    <2>2. \A p \in body.scope : p[2] \in ScopeText
      BY DEF WireBody
    <2> QED BY <1>1, <2>1, <2>2 DEF ScopeOf
  <1>2. CASE ~ \E p \in body.scope : p[1] = k
    BY <1>2 DEF ScopeOf
  <1> QED BY <1>1, <1>2

\* A scope with one value per key comes out as it went in.
LEMMA ScopeJsonOfScope ==
    ASSUME NEW body \in WireBody,
           \A p, q \in body.scope : p[1] = q[1] => p = q
    PROVE  ScopeJson("go", ScopeOf(body)) = body.scope
  <1> DEFINE s == ScopeOf(body)
  <1>0. body.scope \subseteq ScopeKey \X ScopeText
    BY DEF WireBody
  <1>1. ASSUME NEW p \in body.scope
        PROVE  p[1] \in ScopeKey /\ s[p[1]] = p[2] /\ s[p[1]] # Unset /\ p = <<p[1], p[2]>>
    <2>1. p[1] \in ScopeKey /\ p[2] \in ScopeText /\ p = <<p[1], p[2]>>
      BY <1>0
    <2>2. (CHOOSE q \in body.scope : q[1] = p[1]) = p
      OBVIOUS
    <2>3. s[p[1]] = p[2]
      BY <2>1, <2>2 DEF ScopeOf
    <2> QED BY <2>1, <2>3, CoreAssumption
  <1>2. ASSUME NEW k \in ScopeKey, s[k] # Unset
        PROVE  <<k, s[k]>> \in body.scope
    <2>1. \E p \in body.scope : p[1] = k
      BY <1>2 DEF ScopeOf
    <2>2. PICK p \in body.scope : p[1] = k
      BY <2>1
    <2> QED BY <1>1, <2>2
  <1>3. ScopeJson("go", s) = {<<k, s[k]>> : k \in {j \in ScopeKey : s[j] # Unset}}
    BY DEF ScopeJson, EmittedScopeKeys, ScopeKeysOf
  <1> QED BY <1>1, <1>2, <1>3

-----------------------------------------------------------------------------
(* Documents *)

\* What an SDK exports is a document, with one value per scope key.
LEMMA ExportedBody ==
    ASSUME NEW sdk \in Sdk, NEW c \in Content
    PROVE  LET body == Body(sdk, ReadInto(sdk, c))
           IN  /\ body \in WireBody
               /\ \A p, q \in body.scope : p[1] = q[1] => p = q
  <1> DEFINE d == ReadInto(sdk, c)
             items == [n \in DOMAIN c.items |-> ItemJson(sdk, d.items[n])]
             body == Body(sdk, d)
  <1>1. /\ c.header \in Header /\ c.scope \in Scope /\ c.items \in Seq(Item)
        /\ c.env \in OptionalText(DigestText)
    BY DEF Content
  <1>2. /\ d.header = c.header /\ d.scope = c.scope /\ d.env = ReadText(sdk, c.env)
        /\ d.items = [n \in DOMAIN c.items |->
                        [c.items[n] EXCEPT !.note = ReadText(sdk, c.items[n].note)]]
    BY DEF ReadInto, Content
  <1>3. body = [header |-> c.header, scope |-> ScopeJson(sdk, c.scope), items |-> items,
                env |-> EmitText(sdk, ReadText(sdk, c.env))]
    BY <1>2 DEF Body
  <1>4. items \in Seq(WireItem)
    <2>1. ASSUME NEW n \in DOMAIN c.items
          PROVE  items[n] \in WireItem
      <3>1. c.items[n] \in Item
        BY <1>1
      <3>2. items[n] = [kind |-> c.items[n].kind, uri |-> c.items[n].uri,
                        digest |-> c.items[n].digest,
                        note |-> EmitText(sdk, ReadText(sdk, c.items[n].note))]
        BY <1>2, <3>1 DEF ItemJson, Item
      <3>3. EmitText(sdk, ReadText(sdk, c.items[n].note)) \in WireNote
        BY <3>1, EmittedIsOptional DEF Item, WireNote
      <3>4. /\ c.items[n].kind \in Kind /\ c.items[n].uri \in WireUri
            /\ c.items[n].digest \in DigestText
        BY <3>1 DEF Item, WireUri
      <3> HIDE DEF items
      <3> QED BY <3>2, <3>3, <3>4, ItemFields
    <2>2. items = [n \in DOMAIN c.items |-> items[n]]
      OBVIOUS
    <2> HIDE DEF items
    <2> QED BY <1>1, <2>1, <2>2
  <1>5. ScopeJson(sdk, c.scope) \subseteq ScopeKey \X ScopeText
    BY <1>1 DEF ScopeJson, EmittedScopeKeys, ScopeKeysOf, Scope
  <1>6. \A p, q \in ScopeJson(sdk, c.scope) : p[1] = q[1] => p = q
    BY DEF ScopeJson
  <1>7. EmitText(sdk, ReadText(sdk, c.env)) \in WireEnv
    BY <1>1, EmittedIsOptional DEF WireEnv
  <1> QED BY <1>1, <1>3, <1>4, <1>5, <1>6, <1>7 DEF WireBody

\* The body of a bundle with the fields, the scope and every item of a document.
LEMMA RebuiltBody ==
    ASSUME NEW body \in WireBody, NEW c,
           \A p, q \in body.scope : p[1] = q[1] => p = q,
           c.header = body.header, c.scope = ScopeOf(body), c.env = Text(body.env),
           c.items = [n \in 1..Len(body.items) |-> GoItemOf(body.items[n])]
    PROVE  Body("go", c) = NoBlanks(body)
  <1> DEFINE items == [n \in 1..Len(body.items) |-> NoBlankNote(body.items[n])]
  <1>1. body.items \in Seq(WireItem)
    BY DEF WireBody
  <1>2. DOMAIN body.items = 1..Len(body.items)
    BY <1>1
  <1>3. [n \in DOMAIN c.items |-> ItemJson("go", c.items[n])] = items
    <2>1. DOMAIN c.items = 1..Len(body.items)
      OBVIOUS
    <2>2. ASSUME NEW n \in 1..Len(body.items)
          PROVE  ItemJson("go", c.items[n]) = NoBlankNote(body.items[n])
      <3>1. body.items[n] \in WireItem
        BY <1>1
      <3>2. c.items[n] = GoItemOf(body.items[n])
        OBVIOUS
      <3> QED BY <3>1, <3>2, GoItemOfWire
    <2> QED BY <2>1, <2>2
  <1>4. ScopeJson("go", c.scope) = body.scope
    BY ScopeJsonOfScope
  <1>5. EmitText("go", c.env) = NoBlank(body.env)
    <2>1. body.env \in Optional(DigestText \cup {""})
      BY DEF WireBody, WireEnv
    <2> QED BY <2>1, TextOf
  <1>6. Body("go", c) = [header |-> body.header, scope |-> body.scope, items |-> items,
                         env |-> NoBlank(body.env)]
    BY <1>3, <1>4, <1>5 DEF Body
  <1>7. NoBlanks(body) = [header |-> body.header, scope |-> body.scope, items |-> items,
                          env |-> NoBlank(body.env)]
    BY <1>2 DEF NoBlanks
  <1> QED BY <1>6, <1>7

\* What the schema asks of items and scope is what Go accepts.
LEMMA SchemaIsAccepted ==
    ASSUME DocSchemaValid, doc.body \in WireBody
    PROVE  /\ IsRead /\ doc.seal.form # "malformed"
           /\ doc.body.items # <<>>
           /\ AcceptsScope("go", ScopeOf(doc.body))
           /\ \A n \in DOMAIN doc.body.items :
                 /\ ParsesDigest("go", doc.body.items[n].digest)
                 /\ AcceptsItem("go", GoItemOf(doc.body.items[n]))
  BY DEF DocSchemaValid, IsRead, SchemaValid, AcceptsScope, AcceptsItem, AcceptsKind,
         ParsesDigest, GoItemOf, ContentOf

-----------------------------------------------------------------------------
(* The invariant *)

LEMMA NewBundleType ==
    ASSUME NEW header \in Header
    PROVE  NewBundle(header) \in Content
  <1>1. EmptyScope \in Scope
    BY DEF EmptyScope, Scope
  <1>2. <<>> \in Seq(Item) /\ "" \in OptionalText(DigestText)
    BY DEF OptionalText
  <1> QED BY <1>1, <1>2 DEF NewBundle, Content

LEMMA NotYetBuiltType == NotYetBuilt \in Content
  <1>1. PICK c \in Input : c.header \in Header
    BY GoVerifyAssumption DEF Content
  <1> QED BY <1>1, NewBundleType DEF NotYetBuilt

\* What a document under way needs to be.
Editable(d) ==
    /\ d \in WireDoc
    /\ \A p, q \in d.body.scope : p[1] = q[1] => p = q
    /\ d.seal.of \subseteq origin

LEMMA ExportedDoc ==
    ASSUME NEW sdk \in Sdk, NEW c \in Content, NEW isSealed \in BOOLEAN
    PROVE  LET d == ToJSON(sdk, c, isSealed)
           IN  /\ d \in WireDoc
               /\ \A p, q \in d.body.scope : p[1] = q[1] => p = q
               /\ d.seal.of \subseteq Hashed
  <1> DEFINE body == Body(sdk, ReadInto(sdk, c))
             h == [api |-> "v1", body |-> body]
             seal == IF isSealed THEN SealOver(h) ELSE NoSeal
  <1>1. body \in WireBody /\ \A p, q \in body.scope : p[1] = q[1] => p = q
    BY ExportedBody
  <1>2. ToJSON(sdk, c, isSealed) = [api |-> "v1", kind |-> "EvidenceBundle",
                                    body |-> body, seal |-> seal]
    BY DEF ToJSON
  <1> HIDE DEF body
  <1>3. h \in Hashed
    BY <1>1 DEF Hashed, Api
  <1>4. seal \in Seals /\ seal.of \subseteq Hashed
    BY <1>3 DEF SealOver, NoSeal, Seals
  <1> HIDE DEF seal
  <1> QED BY <1>1, <1>2, <1>4 DEF WireDoc, Api

LEMMA InitIInv == Init => IInv
  <1> SUFFICES ASSUME Init PROVE IInv
    OBVIOUS
  <1>1. PICK sdk \in Sdk, c \in Input, isSealed \in BOOLEAN : doc = ToJSON(sdk, c, isSealed)
    BY DEF Init
  <1>2. /\ doc \in WireDoc /\ doc.seal.of \subseteq Hashed
        /\ \A p, q \in doc.body.scope : p[1] = q[1] => p = q
    BY <1>1, ExportedDoc, GoVerifyAssumption
  <1>3. doc.body \in WireBody
    BY <1>2 DEF WireDoc
  <1>4. TypeOK
    <2>1. rebuilt \in Content
      BY NotYetBuiltType DEF Init
    <2>2. edits \in 0..MaxEdits
      BY GoVerifyAssumption DEF Init
    <2>3. origin \subseteq Hashed
      BY <1>2 DEF Init
    <2> QED BY <1>2, <2>1, <2>2, <2>3 DEF Init, TypeOK
  <1>5. ProgramOrder
    <2>1. 0 <= Len(doc.body.items)
      BY <1>3 DEF WireBody
    <2> QED BY <2>1 DEF Init, ProgramOrder, ItemsDone
  <1>6. RebuiltSoFar
    BY DEF Init, RebuiltSoFar, FieldsDone, ItemsDone
  <1> QED BY <1>2, <1>4, <1>5, <1>6
        DEF Init, IInv, OneValuePerKey, SealIsFromOrigin, MatchIsOfRebuilt

LEMMA EditIInv ==
    ASSUME IInv, NEW d, Editable(d), Edit(d)
    PROVE  IInv'
  <1>1. /\ pc = "wire" /\ edits < MaxEdits /\ doc' = d /\ edits' = edits + 1
        /\ UNCHANGED <<pc, origin, failures, rebuilt, at, matched, code>>
    BY DEF Edit, progVars
  <1>2. TypeOK'
    BY <1>1, GoVerifyAssumption DEF IInv, TypeOK, Editable
  <1>3. OneValuePerKey' /\ SealIsFromOrigin'
    BY <1>1 DEF Editable, OneValuePerKey, SealIsFromOrigin
  <1>4. ProgramOrder'
    <2>1. 0 <= Len(d.body.items)
      BY DEF Editable, WireDoc, WireBody
    <2> QED BY <1>1, <2>1 DEF IInv, ProgramOrder, ItemsDone
  <1>5. RebuiltSoFar'
    BY <1>1 DEF RebuiltSoFar, FieldsDone, ItemsDone
  <1>6. MatchIsOfRebuilt' /\ (DocSchemaValid => failures = 0)'
    BY <1>1 DEF IInv, MatchIsOfRebuilt, ProgramOrder
  <1> QED BY <1>2, <1>3, <1>4, <1>5, <1>6 DEF IInv

LEMMA EditEnvelopeIInv ==
    ASSUME IInv, EditEnvelope
    PROVE  IInv'
  <1>0. /\ doc \in WireDoc /\ doc.seal.of \subseteq origin
        /\ \A p, q \in doc.body.scope : p[1] = q[1] => p = q
    BY DEF IInv, TypeOK, OneValuePerKey, SealIsFromOrigin
  <1>1. ASSUME NEW a \in Api
        PROVE  Editable([doc EXCEPT !.api = a])
    BY <1>0 DEF Editable, WireDoc
  <1>2. Editable([doc EXCEPT !.kind = "other"])
    BY <1>0 DEF Editable, WireDoc
  <1>3. ASSUME NEW s \in {NoSeal, BadSeal, Placeholder}
        PROVE  Editable([doc EXCEPT !.seal = s])
    <2>1. s \in Seals /\ s.of = {}
      BY DEF NoSeal, BadSeal, Placeholder, Seals
    <2> QED BY <1>0, <2>1 DEF Editable, WireDoc
  <1> QED BY <1>1, <1>2, <1>3, EditIInv DEF EditEnvelope

\* An edited body is one that JSON can hold, with one value per scope key.
LEMMA EditBodyIInv ==
    ASSUME IInv, EditBody
    PROVE  IInv'
  <1>0. /\ doc \in WireDoc /\ doc.seal.of \subseteq origin
        /\ \A p, q \in doc.body.scope : p[1] = q[1] => p = q
        /\ doc.body.items \in Seq(WireItem)
    BY DEF IInv, TypeOK, OneValuePerKey, SealIsFromOrigin, WireDoc, WireBody
  <1>1. ASSUME NEW is \in Seq(WireItem)
        PROVE  Editable([doc EXCEPT !.body.items = is])
    BY <1>0 DEF Editable, WireDoc, WireBody
  <1>2. ASSUME NEW i \in ItemEdit
        PROVE  Editable([doc EXCEPT !.body.items = Append(@, i)])
    <2>1. Append(doc.body.items, i) \in Seq(WireItem)
      BY <1>0, GoVerifyAssumption
    <2>2. [doc EXCEPT !.body.items = Append(@, i)]
             = [doc EXCEPT !.body.items = Append(doc.body.items, i)]
      OBVIOUS
    <2> QED BY <1>1, <2>1, <2>2
  <1>3. ASSUME NEW n \in DOMAIN doc.body.items, NEW i \in ItemEdit
        PROVE  Editable([doc EXCEPT !.body.items[n] = i])
    <2>1. [doc.body.items EXCEPT ![n] = i] \in Seq(WireItem)
      BY <1>0, GoVerifyAssumption
    <2>2. [doc EXCEPT !.body.items[n] = i]
             = [doc EXCEPT !.body.items = [doc.body.items EXCEPT ![n] = i]]
      OBVIOUS
    <2> QED BY <1>1, <2>1, <2>2
  <1>4. ASSUME doc.body.items # <<>>
        PROVE  Editable([doc EXCEPT !.body.items = Tail(@)])
    <2>1. Tail(doc.body.items) \in Seq(WireItem)
      BY <1>0, <1>4
    <2>2. [doc EXCEPT !.body.items = Tail(@)]
             = [doc EXCEPT !.body.items = Tail(doc.body.items)]
      OBVIOUS
    <2> QED BY <1>1, <2>1, <2>2
  <1>5. ASSUME NEW e \in EnvEdit
        PROVE  Editable([doc EXCEPT !.body.env = e])
    BY <1>0, GoVerifyAssumption DEF Editable, WireDoc, WireBody
  <1>6. ASSUME NEW k \in ScopeKey, NEW v \in ScopeText
        PROVE  Editable([doc EXCEPT !.body.scope =
                            {p \in @ : p[1] # k} \cup {<<k, v>>}])
    <2> DEFINE s == {p \in doc.body.scope : p[1] # k} \cup {<<k, v>>}
    <2>1. s \in SUBSET (ScopeKey \X ScopeText)
      BY <1>0 DEF WireDoc, WireBody
    <2>2. \A p, q \in s : p[1] = q[1] => p = q
      BY <1>0
    <2> HIDE DEF s
    <2>3. Editable([doc EXCEPT !.body.scope = s])
      BY <1>0, <2>1, <2>2 DEF Editable, WireDoc, WireBody
    <2> QED BY <2>3 DEF s
  <1>7. ASSUME NEW h \in Header
        PROVE  Editable([doc EXCEPT !.body.header = h])
    BY <1>0 DEF Editable, WireDoc, WireBody
  <1>8. ASSUME NEW k \in ScopeKey
        PROVE  Editable([doc EXCEPT !.body.scope = {p \in @ : p[1] # k}])
    <2> DEFINE s == {p \in doc.body.scope : p[1] # k}
    <2>1. s \in SUBSET (ScopeKey \X ScopeText)
      BY <1>0 DEF WireDoc, WireBody
    <2>2. \A p, q \in s : p[1] = q[1] => p = q
      BY <1>0
    <2> HIDE DEF s
    <2>3. Editable([doc EXCEPT !.body.scope = s])
      BY <1>0, <2>1, <2>2 DEF Editable, WireDoc, WireBody
    <2> QED BY <2>3 DEF s
  <1> QED BY <1>2, <1>3, <1>4, <1>5, <1>6, <1>7, <1>8, EditIInv DEF EditBody

-----------------------------------------------------------------------------
(* The program *)

\* What a step that leaves the document alone need not look at again.
LEMMA ProgramStep ==
    ASSUME IInv, UNCHANGED <<doc, edits, origin>>,
           pc' \in {"wire", "seal", "digests", "items", "compare", "report", "exit"},
           failures' \in Nat, rebuilt' \in Content, at' \in Nat,
           matched' \in BOOLEAN, code' \in {0, 1},
           ProgramOrder', RebuiltSoFar', MatchIsOfRebuilt',
           DocSchemaValid => failures' = 0
    PROVE  IInv'
  <1>1. TypeOK'
    BY DEF IInv, TypeOK
  <1>2. OneValuePerKey' /\ SealIsFromOrigin'
    BY DEF IInv, OneValuePerKey, SealIsFromOrigin
  <1>3. DocSchemaValid' <=> DocSchemaValid
    BY DEF DocSchemaValid
  <1> QED BY <1>1, <1>2, <1>3 DEF IInv

\* The types the program steps start from.
LEMMA ProgramTypes ==
    ASSUME IInv
    PROVE  /\ failures \in Nat /\ rebuilt \in Content /\ at \in Nat
           /\ matched \in BOOLEAN /\ code \in {0, 1} /\ doc.body \in WireBody
           /\ doc.body.items \in Seq(WireItem) /\ Len(doc.body.items) \in Nat
           /\ rebuilt.items \in Seq(Item)
  BY DEF IInv, TypeOK, WireDoc, WireBody, Content

LEMMA ReadIInv ==
    ASSUME IInv, Read
    PROVE  IInv'
  <1>1. /\ pc = "wire" /\ pc' \in {"seal", "exit"}
        /\ pc' = "seal" <=> IsRead
        /\ code' = IF IsRead THEN code ELSE 1
        /\ UNCHANGED <<doc, edits, origin, failures, rebuilt, at, matched>>
    BY DEF Read, IsRead
  <1>2. /\ ProgramOrder /\ RebuiltSoFar /\ MatchIsOfRebuilt
        /\ DocSchemaValid => failures = 0
    BY DEF IInv
  <1>3. IsRead' <=> IsRead
    BY <1>1 DEF IsRead
  <1>4. ProgramOrder'
    BY <1>1, <1>2, <1>3 DEF ProgramOrder, ItemsDone
  <1>5. RebuiltSoFar'
    BY <1>1, <1>2, <1>3 DEF RebuiltSoFar, FieldsDone, ItemsDone
  <1>6. MatchIsOfRebuilt'
    BY <1>1, <1>2 DEF MatchIsOfRebuilt
  <1> QED BY <1>1, <1>2, <1>4, <1>5, <1>6, ProgramStep, ProgramTypes

LEMMA CheckIInv ==
    ASSUME IInv, CheckSeal \/ CheckNext
    PROVE  IInv'
  <1>2. /\ ProgramOrder /\ RebuiltSoFar /\ MatchIsOfRebuilt
        /\ DocSchemaValid => failures = 0
    BY DEF IInv
  <1>3. /\ pc \in {"seal", "digests"} /\ pc' = "digests"
        /\ failures' \in Nat /\ at' \in Nat /\ at' <= Len(doc.body.items)
        /\ UNCHANGED <<doc, edits, origin, rebuilt, matched, code>>
    BY <1>2, ProgramTypes DEF CheckSeal, CheckNext, ProgramOrder
  <1>4. DocSchemaValid => failures' = 0
    <2> SUFFICES ASSUME DocSchemaValid PROVE failures' = 0
      OBVIOUS
    <2>1. CASE CheckSeal
      BY <2>1, SchemaIsAccepted, ProgramTypes DEF CheckSeal
    <2>2. CASE CheckNext
      <3>1. at + 1 \in DOMAIN doc.body.items
        BY <2>2, ProgramTypes DEF CheckNext
      <3> QED BY <1>2, <2>2, <3>1, SchemaIsAccepted, ProgramTypes DEF CheckNext
    <2> QED BY <2>1, <2>2
  <1>5. ProgramOrder'
    BY <1>2, <1>3 DEF ProgramOrder, ItemsDone, IsRead
  <1>6. RebuiltSoFar'
    BY <1>2, <1>3 DEF RebuiltSoFar, FieldsDone, ItemsDone
  <1>7. MatchIsOfRebuilt'
    BY <1>2, <1>3 DEF MatchIsOfRebuilt
  <1> QED BY <1>3, <1>4, <1>5, <1>6, <1>7, ProgramStep, ProgramTypes

LEMMA RebuildIInv ==
    ASSUME IInv, Rebuild
    PROVE  IInv'
  <1> DEFINE scope == ScopeOf(doc.body)
             scopeOk == AcceptsScope("go", scope)
             env == Text(doc.body.env)
             new == NewBundle(doc.body.header)
  <1>0. /\ ProgramOrder /\ RebuiltSoFar /\ MatchIsOfRebuilt
        /\ DocSchemaValid => failures = 0
    BY DEF IInv
  <1>1. scope \in Scope /\ env \in OptionalText(DigestText)
    <2>1. scope \in Scope
      BY ProgramTypes, ScopeOfType
    <2>2. doc.body.env \in Optional(DigestText \cup {""})
      BY ProgramTypes DEF WireBody, WireEnv
    <2>3. env \in DigestText \cup {""}
      BY <2>2, TextOf
    <2> QED BY <2>1, <2>3 DEF OptionalText
  <1>2. /\ pc = "digests" /\ pc' = "items" /\ at' = 0
        /\ failures' = failures + (IF scopeOk THEN 0 ELSE 1)
        /\ rebuilt' = [new EXCEPT !.env = env,
                                  !.scope = IF scopeOk THEN scope ELSE @]
        /\ UNCHANGED <<doc, edits, origin, matched, code>>
    BY DEF Rebuild
  <1>3. new \in Content /\ new.header = doc.body.header /\ new.items = <<>>
    <2>1. doc.body.header \in Header
      BY ProgramTypes DEF WireBody
    <2>2. new.header = doc.body.header /\ new.items = <<>>
      BY DEF NewBundle
    <2> QED BY <2>1, <2>2, NewBundleType
  <1>4. DocSchemaValid => scopeOk
    BY SchemaIsAccepted, ProgramTypes
  <1> HIDE DEF scope, scopeOk, env, new
  <1>5. /\ rebuilt' \in Content /\ failures' \in Nat
        /\ DocSchemaValid => failures' = 0
    <2> DEFINE sc == IF scopeOk THEN scope ELSE new.scope
    <2>1. sc \in Scope /\ env \in OptionalText(DigestText)
      BY <1>1, <1>3 DEF Content
    <2>2. rebuilt' = [new EXCEPT !.env = env, !.scope = sc]
      BY <1>2, <1>3 DEF Content
    <2> HIDE DEF sc
    <2>3. rebuilt' = [header |-> new.header, scope |-> sc, items |-> new.items,
                      env |-> env]
      BY <2>2, <1>3 DEF Content
    <2>4. rebuilt' \in Content
      BY <2>1, <2>3, <1>3 DEF Content
    <2>5. failures' \in Nat /\ (DocSchemaValid => failures' = 0)
      BY <1>0, <1>2, <1>4, ProgramTypes
    <2> QED BY <2>4, <2>5
  <1>6. ProgramOrder'
    BY <1>0, <1>2, ProgramTypes DEF ProgramOrder, ItemsDone, IsRead
  <1>7. RebuiltSoFar'
    <2>1. rebuilt'.header = doc'.body.header /\ rebuilt'.items = <<>>
      BY <1>2, <1>3 DEF Content
    <2>2. failures' = 0 => rebuilt'.scope = ScopeOf(doc'.body)
                           /\ rebuilt'.env = Text(doc'.body.env)
      BY <1>2, <1>3, ProgramTypes DEF Content, scope, env
    <2>3. rebuilt'.items = [n \in 1..at' |-> GoItemOf(doc'.body.items[n])]
      BY <1>2, <2>1
    <2>4. ~ ItemsDone'
      BY <1>2 DEF ItemsDone
    <2> QED BY <2>1, <2>2, <2>3, <2>4 DEF RebuiltSoFar
  <1>8. MatchIsOfRebuilt'
    BY <1>0, <1>2 DEF MatchIsOfRebuilt
  <1>9. pc' \in {"items"} /\ at' \in Nat /\ matched' \in BOOLEAN /\ code' \in {0, 1}
    BY <1>2, ProgramTypes
  <1> QED BY <1>2, <1>5, <1>6, <1>7, <1>8, <1>9, ProgramStep

LEMMA AddNextIInv ==
    ASSUME IInv, AddNext
    PROVE  IInv'
  <1> DEFINE i == GoItemOf(doc.body.items[at + 1])
             ok == AcceptsItem("go", i)
  <1>0. /\ ProgramOrder /\ RebuiltSoFar /\ MatchIsOfRebuilt
        /\ DocSchemaValid => failures = 0
    BY DEF IInv
  <1>1. /\ pc = "items" /\ at < Len(doc.body.items) /\ at' = at + 1
        /\ IF ok THEN failures' = failures /\ rebuilt' = [rebuilt EXCEPT !.items = Append(@, i)]
                 ELSE failures' = failures + 1 /\ rebuilt' = rebuilt
        /\ UNCHANGED <<pc, doc, edits, origin, matched, code>>
    BY DEF AddNext
  <1>2. at + 1 \in DOMAIN doc.body.items /\ at \in Nat
    BY <1>1, ProgramTypes
  <1>3. i \in Item
    <2>1. doc.body.items[at + 1] \in WireItem
      BY <1>2, ProgramTypes
    <2> QED BY <2>1, GoItemOfWire
  <1>4. DocSchemaValid => ok
    BY <1>2, SchemaIsAccepted, ProgramTypes
  <1>5. Append(rebuilt.items, i) \in Seq(Item)
    BY <1>3, ProgramTypes
  <1>6. GoItemOf(doc.body.items[at + 1]) = i
    OBVIOUS
  <1> HIDE DEF i, ok
  <1>7. ok => rebuilt' = [rebuilt EXCEPT !.items = Append(rebuilt.items, i)]
    BY <1>1
  <1>8. /\ rebuilt' \in Content /\ failures' \in Nat
        /\ DocSchemaValid => failures' = 0
    <2>1. CASE ok
      BY <1>0, <1>1, <1>5, <1>7, <2>1, ProgramTypes DEF Content
    <2>2. CASE ~ ok
      BY <1>1, <1>4, <2>2, ProgramTypes
    <2> QED BY <2>1, <2>2
  <1>9. ProgramOrder'
    BY <1>0, <1>1, <1>2, ProgramTypes DEF ProgramOrder, ItemsDone, IsRead
  <1>10. RebuiltSoFar'
    <2>1. /\ rebuilt'.header = rebuilt.header /\ rebuilt'.scope = rebuilt.scope
          /\ rebuilt'.env = rebuilt.env
          /\ ok => rebuilt'.items = Append(rebuilt.items, i)
      BY <1>1, <1>7, ProgramTypes DEF Content
    <2>2. ~ ItemsDone' /\ FieldsDone
      BY <1>1 DEF ItemsDone, FieldsDone
    <2>3. ASSUME failures' = 0
          PROVE  rebuilt'.items = [n \in 1..at' |-> GoItemOf(doc'.body.items[n])]
      <3>1. ok /\ failures = 0
        BY <1>1, <2>3, ProgramTypes
      <3>2. rebuilt.items = [n \in 1..at |-> GoItemOf(doc.body.items[n])]
        BY <1>0, <2>2, <3>1 DEF RebuiltSoFar
      <3>3. Len(rebuilt.items) = at
        BY <1>2, <3>2, ProgramTypes
      <3>4. Append(rebuilt.items, i)
               = [n \in 1..(at + 1) |-> IF n = at + 1 THEN i ELSE rebuilt.items[n]]
        BY <1>2, <3>3, ProgramTypes
      <3>5. \A n \in 1..(at + 1) : (IF n = at + 1 THEN i ELSE rebuilt.items[n])
                                     = GoItemOf(doc.body.items[n])
        BY <1>2, <1>6, <3>2
      <3> QED BY <1>1, <2>1, <3>1, <3>4, <3>5
    <2> QED BY <1>0, <1>1, <2>1, <2>2, <2>3, ProgramTypes DEF RebuiltSoFar
  <1>11. MatchIsOfRebuilt'
    BY <1>0, <1>1 DEF MatchIsOfRebuilt
  <1>12. pc' \in {"items"} /\ at' \in Nat /\ matched' \in BOOLEAN /\ code' \in {0, 1}
    BY <1>1, <1>2, ProgramTypes
  <1> QED BY <1>1, <1>8, <1>9, <1>10, <1>11, <1>12, ProgramStep

LEMMA SealRebuiltIInv ==
    ASSUME IInv, SealRebuilt
    PROVE  IInv'
  <1>0. /\ ProgramOrder /\ RebuiltSoFar /\ MatchIsOfRebuilt
        /\ DocSchemaValid => failures = 0
    BY DEF IInv
  <1>1. /\ pc = "items" /\ pc' = "compare" /\ at = Len(doc.body.items)
        /\ failures' = failures + (IF CanSeal(rebuilt) THEN 0 ELSE 1)
        /\ UNCHANGED <<doc, edits, origin, rebuilt, at, matched, code>>
    BY DEF SealRebuilt
  <1>2. failures' \in Nat /\ (failures' = 0 => failures = 0 /\ rebuilt.items # <<>>)
    BY <1>1, ProgramTypes DEF CanSeal
  <1>3. DocSchemaValid => failures' = 0
    <2> SUFFICES ASSUME DocSchemaValid PROVE CanSeal(rebuilt)
      BY <1>0, <1>1, ProgramTypes
    <2>1. Len(doc.body.items) > 0
      BY SchemaIsAccepted, ProgramTypes
    <2>2. rebuilt.items = [n \in 1..at |-> GoItemOf(doc.body.items[n])]
      BY <1>0, <1>1 DEF RebuiltSoFar, FieldsDone
    <2>3. 1 \in DOMAIN rebuilt.items
      BY <1>1, <2>1, <2>2, ProgramTypes
    <2> QED BY <2>3 DEF CanSeal
  <1>4. ProgramOrder'
    BY <1>0, <1>1, ProgramTypes DEF ProgramOrder, ItemsDone, IsRead
  <1>5. RebuiltSoFar'
    BY <1>0, <1>1, <1>2 DEF RebuiltSoFar, FieldsDone, ItemsDone
  <1>6. MatchIsOfRebuilt'
    BY <1>0, <1>1 DEF MatchIsOfRebuilt
  <1> QED BY <1>1, <1>2, <1>3, <1>4, <1>5, <1>6, ProgramStep, ProgramTypes

LEMMA CompareIInv ==
    ASSUME IInv, Compare
    PROVE  IInv'
  <1>0. /\ ProgramOrder /\ RebuiltSoFar
        /\ DocSchemaValid => failures = 0
    BY DEF IInv
  <1>1. /\ pc = "compare" /\ pc' = "report" /\ matched' \in BOOLEAN
        /\ matched' => doc.seal = SealOver([api |-> "v1", body |-> Body("go", rebuilt)])
        /\ UNCHANGED <<doc, edits, origin, failures, rebuilt, at, code>>
    BY DEF Compare
  <1>2. ProgramOrder'
    BY <1>0, <1>1 DEF ProgramOrder, ItemsDone, IsRead
  <1>3. RebuiltSoFar'
    BY <1>0, <1>1 DEF RebuiltSoFar, FieldsDone, ItemsDone
  <1>4. MatchIsOfRebuilt'
    BY <1>1 DEF MatchIsOfRebuilt
  <1> QED BY <1>0, <1>1, <1>2, <1>3, <1>4, ProgramStep, ProgramTypes

LEMMA ReportIInv ==
    ASSUME IInv, Report
    PROVE  IInv'
  <1>0. /\ ProgramOrder /\ RebuiltSoFar /\ MatchIsOfRebuilt
        /\ DocSchemaValid => failures = 0
    BY DEF IInv
  <1>1. /\ pc = "report" /\ pc' = "exit" /\ code' = IF failures > 0 THEN 1 ELSE 0
        /\ UNCHANGED <<doc, edits, origin, failures, rebuilt, at, matched>>
    BY DEF Report
  <1>2. ProgramOrder'
    BY <1>0, <1>1, ProgramTypes DEF ProgramOrder, ItemsDone, IsRead
  <1>3. RebuiltSoFar'
    BY <1>0, <1>1 DEF RebuiltSoFar, FieldsDone, ItemsDone
  <1>4. MatchIsOfRebuilt'
    BY <1>0, <1>1 DEF MatchIsOfRebuilt
  <1> QED BY <1>0, <1>1, <1>2, <1>3, <1>4, ProgramStep, ProgramTypes

\* Every step of a document's way and of the program keeps the invariant.
LEMMA NextIInv == IInv /\ [Next]_vars => IInv'
  <1> SUFFICES ASSUME IInv, [Next]_vars PROVE IInv'
    OBVIOUS
  <1>1. CASE EditEnvelope
    BY <1>1, EditEnvelopeIInv
  <1>2. CASE EditBody
    BY <1>2, EditBodyIInv
  <1>3. CASE Read
    BY <1>3, ReadIInv
  <1>4. CASE CheckSeal \/ CheckNext
    BY <1>4, CheckIInv
  <1>5. CASE Rebuild
    BY <1>5, RebuildIInv
  <1>6. CASE AddNext
    BY <1>6, AddNextIInv
  <1>7. CASE SealRebuilt
    BY <1>7, SealRebuiltIInv
  <1>8. CASE Compare
    BY <1>8, CompareIInv
  <1>9. CASE Report
    BY <1>9, ReportIInv
  <1>10. CASE UNCHANGED vars
    BY <1>10 DEF vars, progVars, IInv, TypeOK, OneValuePerKey, SealIsFromOrigin,
                 ProgramOrder, RebuiltSoFar, MatchIsOfRebuilt, DocSchemaValid, IsRead,
                 FieldsDone, ItemsDone
  <1> QED BY <1>1, <1>2, <1>3, <1>4, <1>5, <1>6, <1>7, <1>8, <1>9, <1>10 DEF Next

-----------------------------------------------------------------------------
(* What the program's verdict means *)

\* After any edits and at every point of main (main.go:37-119), a count of no
\* failures says that the Go bundle is the document as far as it is rebuilt, and
\* a document that the schema takes has no failures.
THEOREM InductiveInvariant == Spec => []IInv
  <1> QED BY InitIInv, NextIInv, PTL DEF Spec

\* The variables of main.go keep their types, and so does the document, for every
\* choice of contents and edits.
THEOREM TypeCorrect == Spec => []TypeOK
  <1>1. IInv => TypeOK
    BY DEF IInv
  <1> QED BY <1>1, InductiveInvariant, PTL

\* A program that ended well rebuilt every item, the scope and the fields.
LEMMA PassedIsRebuilt ==
    ASSUME IInv, Passed
    PROVE  /\ Body("go", rebuilt) = NoBlanks(doc.body)
           /\ rebuilt.items # <<>>
  <1>1. ProgramOrder /\ RebuiltSoFar /\ OneValuePerKey
    BY DEF IInv
  <1>2. failures = 0 /\ FieldsDone /\ ItemsDone
    BY <1>1, ProgramTypes DEF Passed, ProgramOrder, FieldsDone, ItemsDone
  <1>3. /\ rebuilt.items # <<>> /\ rebuilt.header = doc.body.header
        /\ rebuilt.scope = ScopeOf(doc.body) /\ rebuilt.env = Text(doc.body.env)
        /\ rebuilt.items = [n \in 1..at |-> GoItemOf(doc.body.items[n])]
    BY <1>1, <1>2 DEF RebuiltSoFar
  <1>4. at = Len(doc.body.items)
    BY <1>1, <1>2 DEF ProgramOrder
  <1> QED BY <1>1, <1>3, <1>4, ProgramTypes, RebuiltBody DEF OneValuePerKey

\* main.go:83-100 leaves a refused item or scope out and seals what is left; if it
\* ends with PASSED, nothing was left out, whatever the document.
THEOREM PassedIsComplete == Spec => []PassedRebuiltItAll
  <1>1. IInv => PassedRebuiltItAll
    BY PassedIsRebuilt DEF PassedRebuiltItAll
  <1> QED BY <1>1, InductiveInvariant, PTL

\* PASSED and "fixture bundle_digest matches" (main.go:102-113) together say that
\* the document is what the exporting bundle sealed, but for blank keys.
THEOREM MatchedIsSealed == Spec => []MatchedIsWhatWasSealed
  <1>1. IInv => MatchedIsWhatWasSealed
    <2> SUFFICES ASSUME IInv, Passed, matched
                 PROVE  \E h \in origin : h.body = NoBlanks(doc.body)
      BY DEF MatchedIsWhatWasSealed
    <2> DEFINE h == [api |-> "v1", body |-> Body("go", rebuilt)]
    <2>1. doc.seal = SealOver(h) /\ doc.seal.of \subseteq origin
      BY DEF IInv, MatchIsOfRebuilt, SealIsFromOrigin
    <2>2. h \in origin
      BY <2>1 DEF SealOver
    <2>3. h.body = NoBlanks(doc.body)
      BY PassedIsRebuilt
    <2> QED BY <2>2, <2>3
  <1> QED BY <1>1, InductiveInvariant, PTL

\* Go's checks (evidence.go Item.validate, Scope.validate, Seal) ask no more than
\* the v1alpha1 schema: a document it takes ends with PASSED.
THEOREM SchemaValidDocumentsPass == Spec => []SchemaValidPasses
  <1>1. IInv => SchemaValidPasses
    BY ProgramTypes DEF IInv, ProgramOrder, SchemaValidPasses, DocSchemaValid, Passed, IsRead
  <1> QED BY <1>1, InductiveInvariant, PTL
=============================================================================
