------------------------- MODULE LocalRunnerProofs -------------------------
(* Theorems about LocalRunner, for every value of its constants. *)
EXTENDS LocalRunner, TLAPS

-----------------------------------------------------------------------------
(* The bundle a call builds *)

\* How many items a bundle has before those of the effects.
Leading(sdk) == CASE sdk = "go" -> 1 [] sdk = "ts" -> 0 [] sdk = "py" -> 2

\* What one item is, whoever makes it.
LEMMA NewItemFields ==
    ASSUME NEW sdk, NEW kind, NEW uri, NEW digest
    PROVE  /\ NewItem(sdk, kind, uri, digest).kind = kind
           /\ NewItem(sdk, kind, uri, digest).uri = uri
           /\ NewItem(sdk, kind, uri, digest).digest = digest
           /\ NewItem(sdk, kind, uri, digest).note = Absent(sdk)
  BY DEF NewItem

LEMMA NewItemType ==
    ASSUME NEW sdk, NEW kind \in {"trace", "effect"},
           NEW uri \in {"local://trace/exec.jsonl", "local://trace/effects.jsonl",
                        "action/resource"},
           NEW digest \in EffectDigest \cup Computed
    PROVE  NewItem(sdk, kind, uri, digest) \in Item
  <1>1. kind \in Kind
    BY DEF Kind, KnownKinds
  <1>2. Absent(sdk) \in OptionalText({})
    BY DEF Absent, OptionalText
  <1> QED BY <1>1, <1>2 DEF NewItem, Item

\* The items of a bundle, one by one: a head about the run, then the effects.
LEMMA BuiltItemsShape ==
    ASSUME NEW sdk \in Sdk, NEW r \in Run, NEW es \in Seq(EffectDigest),
           Len(es) <= MaxEffects
    PROVE  LET items == BuiltItems(sdk, r, es)
               k == Leading(sdk)
           IN  /\ items \in Seq(Item)
               /\ k \in 0..Len(items)
               /\ Len(items) - k <= Len(es)
               /\ \A n \in 1..k : items[n].digest \in
                     {HashOfRun(r), HashOfCount(Len(es))}
               /\ \A n \in 1..(Len(items) - k) : items[k + n].digest = es[n]
               /\ \A n \in DOMAIN items :
                     /\ items[n].kind \in {"trace", "effect"}
                     /\ items[n].uri \in {"local://trace/exec.jsonl",
                            "local://trace/effects.jsonl", "action/resource"}
                     /\ items[n].note = Absent(sdk)
               /\ sdk = "go" /\ es = <<>> =>
                     \A n \in DOMAIN items : items[n].kind # "effect"
  <1> DEFINE trace == NewItem(sdk, "trace", "local://trace/exec.jsonl", HashOfRun(r))
             count == NewItem(sdk, "effect", "local://trace/effects.jsonl",
                              HashOfCount(Len(es)))
             each == [n \in DOMAIN es |->
                         NewItem(sdk, "effect", "action/resource", es[n])]
             items == BuiltItems(sdk, r, es)
  <1>1. HashOfRun(r) \in Computed /\ HashOfCount(Len(es)) \in Computed
    <2>1. Len(es) \in 0..MaxEffects
      BY RunnerAssumption
    <2> QED BY <2>1 DEF Computed
  <1>2. trace \in Item /\ count \in Item
    BY <1>1, NewItemType
  <1>3. /\ each \in Seq(Item) /\ Len(each) = Len(es)
        /\ \A n \in 1..Len(es) :
              each[n] = NewItem(sdk, "effect", "action/resource", es[n])
    <2>1. \A n \in DOMAIN es : NewItem(sdk, "effect", "action/resource", es[n]) \in Item
      BY NewItemType
    <2>2. DOMAIN es = 1..Len(es) /\ Len(es) \in Nat
      OBVIOUS
    <2> QED BY <2>1, <2>2
  <1>4. trace.kind = "trace" /\ trace.uri = "local://trace/exec.jsonl"
        /\ trace.digest = HashOfRun(r) /\ trace.note = Absent(sdk)
    BY NewItemFields
  <1>5. count.kind = "effect" /\ count.uri = "local://trace/effects.jsonl"
        /\ count.digest = HashOfCount(Len(es)) /\ count.note = Absent(sdk)
    BY NewItemFields
  <1>6. \A n \in 1..Len(es) :
            /\ each[n].kind = "effect" /\ each[n].uri = "action/resource"
            /\ each[n].digest = es[n] /\ each[n].note = Absent(sdk)
    BY <1>3, NewItemFields
  <1>7. CASE sdk = "go"
    <2>1. items = <<trace>> \o each
      BY <1>7 DEF BuiltItems
    <2>2. Leading(sdk) = 1
      BY <1>7 DEF Leading
    <2> HIDE DEF trace, each, items
    <2>3. /\ items \in Seq(Item) /\ Len(items) = 1 + Len(es)
          /\ items[1] = trace
          /\ \A n \in 1..Len(es) : items[1 + n] = each[n]
      BY <1>2, <1>3, <2>1
    <2>4. \A n \in DOMAIN items : n = 1 \/ \E j \in 1..Len(es) : n = 1 + j
      <3>1. DOMAIN items = 1..(1 + Len(es)) /\ Len(es) \in Nat
        BY <2>3
      <3>2. \A n \in 1..(1 + Len(es)) : n = 1 \/ (n - 1 \in 1..Len(es) /\ n = 1 + (n - 1))
        BY <3>1
      <3> QED BY <3>1, <3>2
    <2>5. es = <<>> => \A n \in DOMAIN items : items[n].kind # "effect"
      BY <1>4, <2>3, <2>4
    <2>6. \A n \in DOMAIN items :
                     /\ items[n].kind \in {"trace", "effect"}
                     /\ items[n].uri \in {"local://trace/exec.jsonl",
                            "local://trace/effects.jsonl", "action/resource"}
                     /\ items[n].note = Absent(sdk)
      BY <1>4, <1>6, <2>3, <2>4
    <2>7. \A n \in 1..(Len(items) - 1) : items[1 + n].digest = es[n]
      BY <1>6, <2>3
    <2>8. \A n \in 1..1 : items[n].digest \in {HashOfRun(r), HashOfCount(Len(es))}
      BY <1>4, <2>3
    <2>9. 1 \in 0..Len(items) /\ Len(items) - 1 <= Len(es)
      BY <2>3
    <2> QED BY <2>2, <2>3, <2>5, <2>6, <2>7, <2>8, <2>9 DEF items
  <1>8. CASE sdk = "ts"
    <2>1. items = each
      BY <1>8 DEF BuiltItems
    <2>2. Leading(sdk) = 0
      BY <1>8 DEF Leading
    <2> HIDE DEF each, items
    <2>3. /\ items \in Seq(Item) /\ Len(items) = Len(es)
          /\ DOMAIN items = 1..Len(es)
      BY <1>3, <2>1
    <2>4. \A n \in 1..(Len(items) - 0) : items[0 + n].digest = es[n]
      BY <1>6, <2>1, <2>3
    <2>5. 0 \in 0..Len(items) /\ Len(items) - 0 <= Len(es)
      BY <2>3
    <2> QED BY <1>6, <1>8, <2>1, <2>2, <2>3, <2>4, <2>5 DEF items
  <1>9. CASE sdk = "py"
    <2>1. items = <<trace, count>>
      BY <1>9 DEF BuiltItems
    <2>2. Leading(sdk) = 2
      BY <1>9 DEF Leading
    <2> HIDE DEF trace, count, items
    <2>3. /\ items \in Seq(Item) /\ Len(items) = 2
          /\ DOMAIN items = {1, 2}
          /\ items[1] = trace /\ items[2] = count
      BY <1>2, <2>1
    <2>4. \A n \in 1..2 : items[n].digest \in {HashOfRun(r), HashOfCount(Len(es))}
      BY <1>4, <1>5, <2>3
    <2>5. /\ 2 \in 0..Len(items) /\ Len(items) - 2 <= Len(es)
          /\ 1..(Len(items) - 2) = {}
      BY <2>3
    <2> QED BY <1>4, <1>5, <1>9, <2>2, <2>3, <2>4, <2>5 DEF items
  <1> QED BY <1>7, <1>8, <1>9 DEF Sdk

\* What a call can build a bundle from, once it has its effects.
Ready(c) ==
    /\ call[c] \in CallInput
    /\ TheRun(c) \in Run
    /\ fetched[c] \in Seq(EffectDigest) /\ Len(fetched[c]) <= MaxEffects

\* What a call was made with.
LEMMA CallInputType ==
    ASSUME NEW k \in CallInput
    PROVE  /\ k.sdk \in Sdk /\ k.scenario \in Scenario /\ k.run_id \in RunId
           /\ HvRef(k.sdk, k.scenario) \in HvText
           /\ HvRef(k.sdk, k.scenario) = "" <=> k.sdk = "ts" /\ HvOf[k.scenario] = ""
  <1>1. k \in [sdk: Sdk, scenario: Scenario, run_id: RunId]
    BY RunnerAssumption
  <1>2. k.sdk \in Sdk /\ k.scenario \in Scenario /\ k.run_id \in RunId
    BY <1>1
  <1>3. HvOf[k.scenario] \in HvText \cup {Unset} /\ Unset # ""
    BY <1>2, RunnerAssumption DEF HvText
  <1> QED BY <1>2, <1>3 DEF HvRef, HvText

\* The ids of bundles have the schema's pattern exactly for fitting run ids.
LEMMA FitRunIdsMatch ==
    ASSUME NEW sdk, NEW i \in RunId
    PROVE  MatchesPattern(BundleId(sdk, i)) <=> FitRunId(sdk, i)
  <1> DEFINE id == BundleId(sdk, i)
             first == "bundle"
             last == "evidence"
  <1>1. /\ i \in Seq(Word) /\ HeadName \subseteq Name
        /\ first \in HeadName /\ last \in HeadName /\ first \in Word /\ last \in Word
    <2>1. i \in Seq(Word) /\ HeadName \subseteq Name /\ Name \subseteq Word
      BY RunnerAssumption
    <2>2. first \in HeadName /\ last \in HeadName
      BY RunnerAssumption
    <2> QED BY <2>1, <2>2
  <1>2. Len(i) \in Nat /\ Len(i) > 0 /\ DOMAIN i = 1..Len(i)
    <2>1. i # <<>>
      BY RunnerAssumption
    <2> HIDE DEF first, last
    <2> QED BY <1>1, <2>1
  <1>3. CASE sdk = "ts"
    <2>1. id = <<first>> \o i
      BY <1>3 DEF BundleId
    <2> HIDE DEF id, first
    <2>2. /\ Len(id) = Len(i) + 1 /\ id[1] = first
          /\ \A n \in 1..Len(i) : id[n + 1] = i[n]
      BY <1>1, <1>2, <2>1
    <2>3. \A n \in 2..Len(id) : n - 1 \in 1..Len(i) /\ id[n] = i[n - 1]
      BY <1>2, <2>2
    <2>4. \A n \in 1..Len(i) : n + 1 \in 2..Len(id)
      BY <1>2, <2>2
    <2>5. (\A n \in 2..Len(id) : id[n] \in Name) <=> (\A n \in 1..Len(i) : i[n] \in Name)
      BY <2>2, <2>3, <2>4
    <2>6. MatchesPattern(id) <=> \A n \in 1..Len(i) : i[n] \in Name
      BY <1>1, <1>2, <2>2, <2>5 DEF MatchesPattern
    <2> QED BY <1>2, <1>3, <2>6 DEF FitRunId, id
  <1>4. CASE sdk # "ts"
    <2>1. id = Append(i, last)
      BY <1>4 DEF BundleId
    <2> HIDE DEF id, last
    <2>2. /\ Len(id) = Len(i) + 1 /\ id[Len(i) + 1] = last
          /\ \A n \in 1..Len(i) : id[n] = i[n]
      BY <1>1, <1>2, <2>1
    <2>3. id[1] = i[1] /\ Len(id) > 1
      BY <1>2, <2>2
    <2>4. ASSUME i[1] \in HeadName
          PROVE  (\A n \in 2..Len(id) : id[n] \in Name) <=> (\A n \in 1..Len(i) : i[n] \in Name)
      <3>1. \A n \in 2..Len(id) : n = Len(i) + 1 \/ n \in 1..Len(i)
        BY <1>2, <2>2
      <3>2. \A n \in 1..Len(i) : n = 1 \/ n \in 2..Len(id)
        BY <1>2, <2>2
      <3> QED BY <1>1, <2>2, <2>4, <3>1, <3>2
    <2>5. MatchesPattern(id) <=> i[1] \in HeadName /\ \A n \in 1..Len(i) : i[n] \in Name
      BY <2>3, <2>4 DEF MatchesPattern
    <2> QED BY <1>2, <1>4, <2>5 DEF FitRunId, id
  <1> QED BY <1>3, <1>4

\* The fields of the bundle.
LEMMA BuiltFields ==
    ASSUME NEW c \in Call, Ready(c)
    PROVE  LET s == call[c].scenario
               hv == HvRef(call[c].sdk, s)
           IN  /\ Built(c) \in Content
               /\ Built(c).header = [id |-> BundleId(call[c].sdk, call[c].run_id),
                        run_ref |-> TheRun(c), contract |-> ContractOf[s], hv |-> hv]
               /\ Built(c).items = BuiltItems(call[c].sdk, TheRun(c), fetched[c])
               /\ Built(c).env = Absent(call[c].sdk)
               /\ Built(c).scope = BuiltScope(call[c].sdk, s)
  <1> DEFINE s == call[c].scenario
             hv == HvRef(call[c].sdk, s)
             id == BundleId(call[c].sdk, call[c].run_id)
             contract == ContractOf[s]
  <1>1. call[c].sdk \in Sdk /\ s \in Scenario /\ call[c] \in CallInput
    BY CallInputType DEF Ready
  <1>2. hv \in HvText
    BY CallInputType DEF Ready
  <1>3. BuiltItems(call[c].sdk, TheRun(c), fetched[c]) \in Seq(Item)
    BY <1>1, BuiltItemsShape DEF Ready
  <1>4. [id |-> id, run_ref |-> TheRun(c), contract |-> contract, hv |-> hv] \in BundleHeader
    <2>1. id \in {BundleId(k.sdk, k.run_id) : k \in CallInput}
          /\ contract \in {ContractOf[t] : t \in Scenario}
      BY <1>1
    <2> HIDE DEF id, contract, hv
    <2> QED BY <1>2, <2>1 DEF BundleHeader, Ready
  <1>5. BuiltScope(call[c].sdk, s) \in Scope
    BY <1>1 DEF BuiltScope, Scope
  <1>6. Absent(call[c].sdk) \in OptionalText(EffectDigest \cup Computed)
    BY DEF Absent, OptionalText
  <1> QED BY <1>2, <1>3, <1>4, <1>5, <1>6 DEF Built, Content

\* What any SDK emits of a text that is not there, and of a scope whose keys are
\* the two the runners use.
LEMMA EmitAbsent ==
    ASSUME NEW sdk \in Sdk, NEW maker \in Sdk
    PROVE  /\ EmitText(maker, Absent(maker)) = {}
           /\ EmitText(sdk, ReadText(sdk, Absent(maker))) = {}
  <1>1. Absent(maker) \in {"", Unset} /\ EmitText(maker, Absent(maker)) = {}
    BY DEF Absent, EmitText
  <1>2. EmitText(sdk, Absent(sdk)) = {}
    BY DEF Absent, EmitText
  <1> QED BY <1>1, <1>2 DEF ReadText

LEMMA ScopeAgrees ==
    ASSUME NEW sdk, NEW maker, NEW sc
    PROVE  /\ ScopeJson(sdk, sc) = ScopeJson(maker, sc)
           /\ ScopeKeysOf(sc) \subseteq KnownScopeKeys
  <1>1. ScopeKeysOf(sc) \subseteq KnownScopeKeys
    BY DEF ScopeKeysOf, KnownScopeKeys
  <1>2. EmittedScopeKeys(sdk, sc) = ScopeKeysOf(sc)
        /\ EmittedScopeKeys(maker, sc) = ScopeKeysOf(sc)
    BY <1>1 DEF EmittedScopeKeys
  <1> QED BY <1>1, <1>2 DEF ScopeJson

\* The digest a runner seals is the one every SDK computes for what it reads.
LEMMA BuiltBodyAgrees ==
    ASSUME NEW c \in Call, Ready(c), NEW sdk \in Sdk
    PROVE  Body(sdk, ReadInto(sdk, Built(c))) = Body(call[c].sdk, Built(c))
  <1> DEFINE maker == call[c].sdk
             b == Built(c)
             d == ReadInto(sdk, b)
  <1>1. maker \in Sdk
    BY CallInputType DEF Ready
  <1>2. b \in Content /\ b.env = Absent(maker)
    BY BuiltFields
  <1>3. \A n \in DOMAIN b.items : b.items[n].note = Absent(maker) /\ b.items[n] \in Item
    <2>1. b.items = BuiltItems(maker, TheRun(c), fetched[c]) /\ b.items \in Seq(Item)
      BY BuiltFields DEF Content
    <2>2. \A n \in DOMAIN b.items : b.items[n].note = Absent(maker)
      BY <1>1, <2>1, BuiltItemsShape DEF Ready
    <2> QED BY <2>1, <2>2
  <1> HIDE DEF b, maker
  <1>4. /\ d.header = b.header /\ d.scope = b.scope
        /\ d.env = ReadText(sdk, b.env)
        /\ d.items = [n \in DOMAIN b.items |->
                        [b.items[n] EXCEPT !.note = ReadText(sdk, b.items[n].note)]]
    BY <1>2 DEF ReadInto, Content
  <1> HIDE DEF d
  <1>5. EmitText(sdk, d.env) = EmitText(maker, b.env)
    BY <1>1, <1>2, <1>4, EmitAbsent
  <1>6. ScopeJson(sdk, d.scope) = ScopeJson(maker, b.scope)
    BY <1>4, ScopeAgrees
  <1>7. ASSUME NEW n \in DOMAIN b.items
        PROVE  ItemJson(sdk, d.items[n]) = ItemJson(maker, b.items[n])
    <2>1. d.items[n] = [b.items[n] EXCEPT !.note = ReadText(sdk, Absent(maker))]
      BY <1>3, <1>4
    <2>2. /\ d.items[n].kind = b.items[n].kind /\ d.items[n].uri = b.items[n].uri
          /\ d.items[n].digest = b.items[n].digest
          /\ d.items[n].note = ReadText(sdk, Absent(maker))
      BY <1>3, <2>1 DEF Item
    <2>3. EmitText(sdk, d.items[n].note) = EmitText(maker, b.items[n].note)
      BY <1>1, <1>3, <2>2, EmitAbsent
    <2> QED BY <2>2, <2>3 DEF ItemJson
  <1>8. DOMAIN d.items = DOMAIN b.items
    BY <1>4
  <1>9. [n \in DOMAIN d.items |-> ItemJson(sdk, d.items[n])]
          = [n \in DOMAIN b.items |-> ItemJson(maker, b.items[n])]
    BY <1>7, <1>8
  <1>10. Body(sdk, d) = Body(maker, b)
    BY <1>4, <1>5, <1>6, <1>9 DEF Body
  <1> QED BY <1>10 DEF b, d, maker

\* The schema takes the header of a bundle exactly if the call and the run ref fit.
LEMMA BuiltHeaderConforms ==
    ASSUME NEW c \in Call, Ready(c)
    PROVE  Built(c).header \in ConformingHeader <=> FitCall(call[c]) /\ TheRun(c) # ""
  <1> DEFINE k == call[c]
             id == BundleId(k.sdk, k.run_id)
             r == TheRun(c)
             contract == ContractOf[k.scenario]
             hv == HvRef(k.sdk, k.scenario)
             h == Built(c).header
  <1>1. k \in CallInput
    BY DEF Ready
  <1>2. h = [id |-> id, run_ref |-> r, contract |-> contract, hv |-> hv]
        /\ h \in BundleHeader
    BY BuiltFields DEF Content
  <1>3. MatchesPattern(id) <=> FitRunId(k.sdk, k.run_id)
    BY <1>1, CallInputType, FitRunIdsMatch
  <1>4. hv = "" <=> k.sdk = "ts" /\ HvOf[k.scenario] = ""
    BY <1>1, CallInputType
  <1>5. FitCall(k) <=> MatchesPattern(id) /\ contract # "" /\ hv # ""
    BY <1>3, <1>4 DEF FitCall
  <1> HIDE DEF k, id, r, contract, hv, h
  <1>6. h \in ConformingHeader <=> MatchesPattern(id) /\ "" \notin {r, contract, hv}
    BY <1>2 DEF ConformingHeader
  <1>7. h \in ConformingHeader <=> FitCall(k) /\ r # ""
    BY <1>5, <1>6
  <1> QED BY <1>7 DEF k, r, h

\* A bundle that could be built and sealed verifies in every SDK and fits the
\* schema, but for its header.
LEMMA BuiltIsSound ==
    ASSUME NEW c \in Call, Ready(c), Buildable(call[c].sdk, Built(c))
    PROVE  /\ \A sdk \in Sdk : VerifyOk(sdk, ReadInto(sdk, Built(c)),
                                       Digest(call[c].sdk, Built(c)))
           /\ SchemaValid(Built(c), Digest(call[c].sdk, Built(c)))
                <=> FitCall(call[c]) /\ TheRun(c) # ""
  <1> DEFINE b == Built(c)
  <1>1. call[c].sdk \in Sdk
    BY CallInputType DEF Ready
  <1>2. \A n \in DOMAIN b.items :
            /\ b.items[n].uri # ""
            /\ b.items[n].digest \in GoodDigest \cup Computed
    BY DEF Buildable, AcceptsItem, ParsesDigest
  <1>3. b.items # <<>> /\ b \in Content
    BY BuiltFields DEF Buildable, CanSeal
  <1>4. \A n \in DOMAIN b.items : b.items[n].kind \in KnownKinds
    <2>1. b.items = BuiltItems(call[c].sdk, TheRun(c), fetched[c])
      BY BuiltFields
    <2>2. \A n \in DOMAIN b.items : b.items[n].kind \in {"trace", "effect"}
      BY <1>1, <2>1, BuiltItemsShape DEF Ready
    <2> QED BY <2>2 DEF KnownKinds
  <1>5. ScopeKeysOf(b.scope) \subseteq KnownScopeKeys
    BY ScopeAgrees
  <1>6. ASSUME NEW sdk \in Sdk
        PROVE  VerifyOk(sdk, ReadInto(sdk, b), Digest(call[c].sdk, b))
    <2>1. Digest(call[c].sdk, b) = Digest(sdk, ReadInto(sdk, b))
      BY BuiltBodyAgrees DEF Digest
    <2>2. Digest(call[c].sdk, b) # Unsealed
      BY DEF Digest, Unsealed
    <2> HIDE DEF b
    <2>3. ReadInto(sdk, b).items = [n \in DOMAIN b.items |->
                        [b.items[n] EXCEPT !.note = ReadText(sdk, b.items[n].note)]]
      BY <1>3 DEF ReadInto, Content
    <2>4. \A n \in DOMAIN b.items : b.items[n] \in Item
      BY <1>3 DEF Content
    <2>5. \A n \in DOMAIN b.items : ReadInto(sdk, b).items[n].digest = b.items[n].digest
      BY <2>3, <2>4 DEF Item
    <2>6. \A n \in DOMAIN ReadInto(sdk, b).items :
              ParsesDigest(sdk, ReadInto(sdk, b).items[n].digest)
      BY <1>2, <2>3, <2>5 DEF ParsesDigest
    <2> QED BY <2>1, <2>2, <2>6 DEF VerifyOk
  <1>7. SchemaValid(b, Digest(call[c].sdk, b)) <=> b.header \in ConformingHeader
    <2>1. Digest(call[c].sdk, b) # Unsealed
      BY DEF Digest, Unsealed
    <2> QED BY <1>2, <1>3, <1>4, <1>5, <2>1 DEF SchemaValid
  <1> QED BY <1>6, <1>7, BuiltHeaderConforms

\* The body a runner hashes is of the schema's shape.
LEMMA BuiltBodyType ==
    ASSUME NEW c \in Call, Ready(c)
    PROVE  Body(call[c].sdk, Built(c)) \in BodyDoc
  <1> DEFINE maker == call[c].sdk
             b == Built(c)
  <1>1. maker \in Sdk
    BY CallInputType DEF Ready
  <1>2. b \in Content /\ b.env = Absent(maker)
    BY BuiltFields
  <1>3. \A n \in DOMAIN b.items : b.items[n].note = Absent(maker)
    <2>1. b.items = BuiltItems(maker, TheRun(c), fetched[c])
      BY BuiltFields
    <2> QED BY <1>1, <2>1, BuiltItemsShape DEF Ready
  <1> HIDE DEF b, maker
  <1>4. EmitText(maker, Absent(maker)) = {}
    BY <1>1, EmitAbsent
  <1>5. ASSUME NEW n \in DOMAIN b.items PROVE ItemJson(maker, b.items[n]) \in ItemDoc
    <2>1. b.items[n] \in Item
      BY <1>2 DEF Content
    <2> QED BY <1>3, <1>4, <2>1 DEF ItemJson, ItemDoc, Item
  <1>6. [n \in DOMAIN b.items |-> ItemJson(maker, b.items[n])] \in Seq(ItemDoc)
    <2>1. DOMAIN b.items = 1..Len(b.items) /\ Len(b.items) \in Nat
      BY <1>2 DEF Content
    <2> QED BY <1>5, <2>1
  <1>7. ScopeJson(maker, b.scope) \in SUBSET ({"intent_ref", "capability_ref"} \X Scenario)
    BY <1>2 DEF ScopeJson, EmittedScopeKeys, ScopeKeysOf, Content, Scope
  <1>8. Body(maker, b) \in BodyDoc
    BY <1>2, <1>4, <1>6, <1>7 DEF Body, BodyDoc, Content
  <1> QED BY <1>8 DEF b, maker

-----------------------------------------------------------------------------
(* The runtime: records stay, and only grow *)

Grows == \A r \in Run : \A x \in runs[r] : \E y \in runs'[r] : Continues(y, x)

LEMMA ContinuesItself ==
    ASSUME NEW x \in RunRecord
    PROVE  Continues(x, x)
  BY DEF Continues, RunRecord

LEMMA RunsKept ==
    ASSUME TypeOK, RunsAreWellFormed, UNCHANGED runs
    PROVE  Grows /\ runs' \in [Run -> SUBSET RunRecord] /\ RunsAreWellFormed'
  <1>1. \A r \in Run : \A x \in runs[r] : Continues(x, x)
    BY ContinuesItself DEF TypeOK
  <1> QED BY <1>1 DEF Grows, TypeOK, RunsAreWellFormed

\* Starting a run makes a record of it or finds one of an equal request.
LEMMA StartsGrow ==
    ASSUME TypeOK, RunsAreWellFormed, NEW c \in Call, NEW r \in Run, Starts(c, r)
    PROVE  /\ Grows /\ runs' \in [Run -> SUBSET RunRecord] /\ RunsAreWellFormed'
           /\ \E x \in runs'[r] : x.req = RequestOf(c)
  <1>1. CASE runs[r] # {}
    <2>1. UNCHANGED runs /\ \E x \in runs[r] : x.req = RequestOf(c)
      BY <1>1 DEF Starts
    <2> QED BY <2>1, RunsKept
  <1>2. CASE runs[r] = {}
    <2> DEFINE new == [req |-> RequestOf(c), status |-> "pending", effects |-> <<>>]
    <2>1. runs' = [runs EXCEPT ![r] = {new}]
      BY <1>2 DEF Starts
    <2>2. new \in RunRecord
      <3>1. call[c].sdk \in Sdk /\ call[c].scenario \in Scenario
        BY CallInputType DEF TypeOK
      <3>3. HvRef(call[c].sdk, call[c].scenario) \in HvText
        BY CallInputType DEF TypeOK
      <3>4. RequestOf(c) \in Request
        BY <3>1, <3>3 DEF RequestOf, Request
      <3> QED BY <3>4 DEF RunRecord, Status
    <2>3. new.req = RequestOf(c) /\ new.effects = <<>> /\ Len(new.effects) <= MaxEffects
      BY RunnerAssumption
    <2> HIDE DEF new
    <2>4. runs'[r] = {new} /\ \A q \in Run \ {r} : runs'[q] = runs[q]
      BY <2>1 DEF TypeOK
    <2>5. runs' \in [Run -> SUBSET RunRecord]
      BY <2>1, <2>2 DEF TypeOK
    <2>6. Grows
      <3>1. \A q \in Run : \A x \in runs[q] : Continues(x, x)
        BY ContinuesItself DEF TypeOK
      <3> QED BY <1>2, <2>4, <3>1 DEF Grows
    <2>7. RunsAreWellFormed'
      BY <2>3, <2>4 DEF RunsAreWellFormed
    <2> QED BY <2>3, <2>4, <2>5, <2>6, <2>7
  <1> QED BY <1>1, <1>2

\* A change of one record to one that continues it.
LEMMA OneRunGrows ==
    ASSUME TypeOK, RunsAreWellFormed, NEW r \in Run, NEW x \in runs[r],
           NEW y \in RunRecord, runs' = [runs EXCEPT ![r] = {y}],
           Continues(y, x), Len(y.effects) <= MaxEffects, y.status # "pending"
    PROVE  Grows /\ runs' \in [Run -> SUBSET RunRecord] /\ RunsAreWellFormed'
  <1>1. runs'[r] = {y} /\ \A q \in Run \ {r} : runs'[q] = runs[q]
    BY DEF TypeOK
  <1>2. runs' \in [Run -> SUBSET RunRecord]
    BY DEF TypeOK
  <1>3. \A q \in Run : \A z \in runs[q] : Continues(z, z)
    BY ContinuesItself DEF TypeOK
  <1>4. \A z \in runs[r] : z = x
    BY DEF RunsAreWellFormed
  <1>5. Grows
    BY <1>1, <1>3, <1>4 DEF Grows
  <1>6. RunsAreWellFormed'
    BY <1>1 DEF RunsAreWellFormed
  <1> QED BY <1>2, <1>5, <1>6

\* Beginning, interrupting, ending a run and recording an effect of it.
LEMMA RuntimeGrows ==
    ASSUME TypeOK, RunsAreWellFormed, NEW r \in Run, Runtime(r)
    PROVE  Grows /\ runs' \in [Run -> SUBSET RunRecord] /\ RunsAreWellFormed'
  <1>1. ASSUME NEW from, NEW to \in Status \ {"pending"}, SetStatus(r, from, to)
        PROVE  Grows /\ runs' \in [Run -> SUBSET RunRecord] /\ RunsAreWellFormed'
    <2>1. PICK x \in runs[r] : runs' = [runs EXCEPT ![r] = {[x EXCEPT !.status = to]}]
      BY <1>1 DEF SetStatus
    <2> DEFINE y == [x EXCEPT !.status = to]
    <2>2. x \in RunRecord
      BY DEF TypeOK
    <2>3. /\ y \in RunRecord /\ y.req = x.req /\ y.effects = x.effects
          /\ y.status # "pending"
      BY <2>2 DEF RunRecord
    <2>4. Continues(y, x) /\ Len(y.effects) <= MaxEffects
      BY <2>2, <2>3 DEF Continues, RunRecord, RunsAreWellFormed
    <2> HIDE DEF y
    <2>5. runs' = [runs EXCEPT ![r] = {y}]
      BY <2>1 DEF y
    <2> QED BY <2>3, <2>4, <2>5, OneRunGrows
  <1>2. CASE Begin(r) \/ Interrupt(r) \/ \E s \in Outcome : End(r, s)
    <2>1. Outcome \subseteq Status \ {"pending"}
      BY RunnerAssumption DEF Terminal, Status
    <2>2. "running" \in Status \ {"pending"} /\ "interrupted" \in Status \ {"pending"}
      BY DEF Status
    <2> QED BY <1>1, <1>2, <2>1, <2>2 DEF Begin, Interrupt, End
  <1>3. CASE Emit(r)
    <2>1. PICK x \in runs[r] :
              /\ x.status = "running"
              /\ Len(x.effects) < Len(Plan[x.req.scenario])
              /\ runs' = [runs EXCEPT ![r] = {[x EXCEPT !.effects =
                    Append(x.effects, Plan[x.req.scenario][Len(x.effects) + 1])]}]
      BY <1>3 DEF Emit
    <2> DEFINE p == Plan[x.req.scenario]
               e == p[Len(x.effects) + 1]
               y == [x EXCEPT !.effects = Append(x.effects, e)]
    <2>2. x \in RunRecord
      BY DEF TypeOK
    <2>3. x.req.scenario \in Scenario /\ x.effects \in Seq(EffectDigest)
      BY <2>2 DEF RunRecord, Request
    <2>4. PICK m \in 0..MaxEffects : p \in [1..m -> EffectDigest]
      <3>1. p \in UNION {[1..n -> EffectDigest] : n \in 0..MaxEffects}
        BY <2>3, RunnerAssumption
      <3> HIDE DEF p
      <3> QED BY <3>1
    <2>5. Len(p) = m /\ Len(x.effects) \in Nat /\ MaxEffects \in Nat
      <3>1. p \in Seq(EffectDigest) /\ DOMAIN p = 1..m
        BY <2>4, RunnerAssumption
      <3> HIDE DEF p
      <3>2. Len(p) = m
        BY <3>1, <2>4, RunnerAssumption
      <3> QED BY <2>3, <3>2, RunnerAssumption
    <2>6. e \in EffectDigest /\ Len(x.effects) + 1 <= MaxEffects
      BY <2>1, <2>4, <2>5
    <2> HIDE DEF e
    <2>7. /\ y \in RunRecord /\ y.req = x.req /\ y.status = "running"
          /\ y.effects = Append(x.effects, e)
      BY <2>1, <2>2, <2>6, SMTT(40) DEF RunRecord
    <2>8. Continues(y, x) /\ Len(y.effects) <= MaxEffects
      BY <2>3, <2>6, <2>7 DEF Continues
    <2> HIDE DEF y
    <2>9. runs' = [runs EXCEPT ![r] = {y}]
      BY <2>1 DEF y, e
    <2> QED BY <2>7, <2>8, <2>9, OneRunGrows
  <1> QED BY <1>2, <1>3 DEF Runtime

-----------------------------------------------------------------------------
(* The inductive invariant *)

\* What each of the four properties says of one result.
Good(c, res) ==
    /\ \E x \in runs[res.run_id] : x.req = RequestOf(c) /\ TellsOf(res, x)
    /\ \A sdk \in Sdk : VerifyOk(sdk, ReadInto(sdk, res.content), res.digest)
    /\ call[c].sdk = "go" /\ res.status = "pending" =>
          \A n \in DOMAIN res.content.items : res.content.items[n].kind # "effect"
    /\ SchemaValid(res.content, res.digest) <=> FitCall(call[c]) /\ res.run_id # ""

IInv ==
    /\ TypeOK
    /\ CallFollowsItsRun
    /\ \A c \in Call : \A res \in result[c] : Good(c, res)

\* What is told of a run stays true of it as it goes on.
LEMMA TellsOfGrows ==
    ASSUME NEW res \in Result, NEW x \in RunRecord, NEW y \in RunRecord,
           Continues(y, x), TellsOf(res, x)
    PROVE  TellsOf(res, y)
  <1> DEFINE items == res.content.items
  <1>1. items \in Seq(Item) /\ Len(items) \in Nat
    BY DEF Result, Content
  <1>2. x.effects \in Seq(EffectDigest) /\ y.effects \in Seq(EffectDigest)
    BY DEF RunRecord
  <1>3. /\ y.req = x.req /\ Len(x.effects) <= Len(y.effects)
        /\ Len(x.effects) \in Nat /\ Len(y.effects) \in Nat
        /\ \A n \in 1..Len(x.effects) : y.effects[n] = x.effects[n]
    BY <1>2 DEF Continues
  <1>4. PICK k \in 0..Len(items) :
            /\ \A n \in 1..k : items[n].digest \in {HashOfRun(res.run_id)}
                  \cup {HashOfCount(m) : m \in 0..Len(x.effects)}
            /\ Len(items) - k <= Len(x.effects)
            /\ \A n \in 1..(Len(items) - k) : items[k + n].digest = x.effects[n]
    BY DEF TellsOf
  <1> HIDE DEF items
  <1>5. {HashOfCount(m) : m \in 0..Len(x.effects)}
          \subseteq {HashOfCount(m) : m \in 0..Len(y.effects)}
    <2>1. 0..Len(x.effects) \subseteq 0..Len(y.effects)
      BY <1>3
    <2> QED BY <2>1
  <1>6. Len(items) - k <= Len(y.effects)
    BY <1>1, <1>3, <1>4
  <1>7. \A n \in 1..(Len(items) - k) : items[k + n].digest = y.effects[n]
    <2>1. \A n \in 1..(Len(items) - k) : n \in 1..Len(x.effects)
      BY <1>1, <1>3, <1>4
    <2> QED BY <1>3, <1>4, <2>1
  <1>8. \A n \in 1..k : items[n].digest \in {HashOfRun(res.run_id)}
            \cup {HashOfCount(m) : m \in 0..Len(y.effects)}
    BY <1>4, <1>5
  <1> QED BY <1>3, <1>4, <1>6, <1>7, <1>8 DEF TellsOf, items

LEMMA ContinuesTransitive ==
    ASSUME NEW x \in RunRecord, NEW y \in RunRecord, NEW f \in Seq(EffectDigest),
           Continues(y, x), Continues(x, [x EXCEPT !.effects = f])
    PROVE  Continues(y, [y EXCEPT !.effects = f])
  <1>1. /\ x.effects \in Seq(EffectDigest) /\ y.effects \in Seq(EffectDigest)
        /\ [x EXCEPT !.effects = f].effects = f
        /\ [y EXCEPT !.effects = f].effects = f
        /\ [y EXCEPT !.effects = f].req = y.req
    BY DEF RunRecord
  <1>2. /\ Len(f) <= Len(x.effects) /\ Len(x.effects) <= Len(y.effects)
        /\ \A n \in 1..Len(f) : x.effects[n] = f[n]
        /\ \A n \in 1..Len(x.effects) : y.effects[n] = x.effects[n]
    BY <1>1 DEF Continues
  <1>3. /\ Len(f) <= Len(y.effects)
        /\ \A n \in 1..Len(f) : y.effects[n] = f[n]
    BY <1>1, <1>2
  <1> QED BY <1>1, <1>3 DEF Continues

\* A step in which runs only go on: the calls it leaves alone and the results
\* that were there keep what the invariant says of them.
LEMMA StepIInv ==
    ASSUME IInv, TypeOK', Grows, RunsAreWellFormed', call' = call,
           NEW Moved \in SUBSET Call,
           \A c \in Call \ Moved : /\ pc'[c] = pc[c] /\ handle'[c] = handle[c]
                                   /\ fetched'[c] = fetched[c],
           \A c \in Moved : FollowsItsRun(c)',
           \A c \in Call : \A res \in result'[c] \ result[c] : Good(c, res)'
    PROVE  IInv'
  <1> USE DEF IInv
  <1>1. ASSUME NEW c \in Call \ Moved, pc'[c] \in {"started", "fetched"}
        PROVE  \E r \in Run : \E x \in runs'[r] :
                  /\ handle'[c] = {r}
                  /\ x.req = RequestOf(c)'
                  /\ pc'[c] = "fetched" =>
                        Continues(x, [x EXCEPT !.effects = fetched'[c]])
    <2>0. PICK r \in Run : \E x \in runs[r] :
              /\ handle[c] = {r}
              /\ x.req = RequestOf(c)
              /\ pc[c] = "fetched" => Continues(x, [x EXCEPT !.effects = fetched[c]])
      BY <1>1 DEF CallFollowsItsRun, FollowsItsRun
    <2>1. PICK x \in runs[r] :
              /\ handle[c] = {r}
              /\ x.req = RequestOf(c)
              /\ pc[c] = "fetched" => Continues(x, [x EXCEPT !.effects = fetched[c]])
      BY <2>0
    <2>2. PICK y \in runs'[r] : Continues(y, x)
      BY DEF Grows
    <2>3. x \in RunRecord /\ y \in RunRecord /\ fetched[c] \in Seq(EffectDigest)
      BY DEF TypeOK
    <2>4. pc'[c] = "fetched" => Continues(y, [y EXCEPT !.effects = fetched'[c]])
      BY <2>1, <2>2, <2>3, ContinuesTransitive
    <2>5. y.req = RequestOf(c)'
      BY <2>1, <2>2 DEF Continues, RequestOf
    <2> QED BY <2>1, <2>4, <2>5
  <1>2. CallFollowsItsRun'
    BY <1>1 DEF CallFollowsItsRun, FollowsItsRun
  <1>3. ASSUME NEW c \in Call, NEW res \in result[c]
        PROVE  Good(c, res)'
    <2>1. res \in Result /\ res.run_id \in Run
      BY DEF TypeOK, Result
    <2>2. PICK x \in runs[res.run_id] : x.req = RequestOf(c) /\ TellsOf(res, x)
      BY DEF Good
    <2>3. PICK y \in runs'[res.run_id] : Continues(y, x)
      BY <2>1 DEF Grows
    <2>4. x \in RunRecord /\ y \in RunRecord
      BY <2>1 DEF TypeOK
    <2>5. TellsOf(res, y)
      BY <2>1, <2>2, <2>3, <2>4, TellsOfGrows
    <2>6. y.req = RequestOf(c)'
      BY <2>2, <2>3 DEF Continues, RequestOf
    <2> QED BY <2>3, <2>5, <2>6 DEF Good
  <1> QED BY <1>2, <1>3

\* A step of one call.
LEMMA CallStepIInv ==
    ASSUME IInv, TypeOK', Grows, RunsAreWellFormed', call' = call, NEW c \in Call,
           \A d \in Call \ {c} : /\ pc'[d] = pc[d] /\ handle'[d] = handle[d]
                               /\ fetched'[d] = fetched[d],
           FollowsItsRun(c)',
           \A d \in Call : \A res \in result'[d] \ result[d] : Good(d, res)'
    PROVE  IInv'
  <1> DEFINE Moved == {c}
  <1>1. /\ Moved \in SUBSET Call
        /\ \A d \in Moved : FollowsItsRun(d)'
        /\ \A d \in Call \ Moved : /\ pc'[d] = pc[d] /\ handle'[d] = handle[d]
                                  /\ fetched'[d] = fetched[d]
    OBVIOUS
  <1> HIDE DEF Moved
  <1> QED BY <1>1, StepIInv

LEMMA InitIInv == Init => IInv
  <1> SUFFICES ASSUME Init PROVE IInv
    OBVIOUS
  <1>1. TypeOK
    BY RunnerAssumption DEF Init, TypeOK
  <1>2. CallFollowsItsRun
    BY DEF Init, CallFollowsItsRun, RunsAreWellFormed, FollowsItsRun
  <1>3. \A c \in Call : result[c] = {}
    BY DEF Init
  <1> QED BY <1>1, <1>2, <1>3 DEF IInv

\* The run behind a call's handle, as the invariant knows it.
LEMMA HeldRun ==
    ASSUME IInv, NEW c \in Call, pc[c] \in {"started", "fetched"}
    PROVE  /\ TheRun(c) \in Run /\ handle[c] = {TheRun(c)}
           /\ RunOf(c) \in runs[TheRun(c)] /\ RunOf(c) \in RunRecord
           /\ RunOf(c).req = RequestOf(c)
           /\ pc[c] = "fetched" =>
                 Continues(RunOf(c), [RunOf(c) EXCEPT !.effects = fetched[c]])
  <1>0. PICK r \in Run : \E x \in runs[r] :
            /\ handle[c] = {r}
            /\ x.req = RequestOf(c)
            /\ pc[c] = "fetched" => Continues(x, [x EXCEPT !.effects = fetched[c]])
    BY DEF IInv, CallFollowsItsRun, FollowsItsRun
  <1>1. PICK x \in runs[r] :
            /\ handle[c] = {r}
            /\ x.req = RequestOf(c)
            /\ pc[c] = "fetched" => Continues(x, [x EXCEPT !.effects = fetched[c]])
    BY <1>0
  <1>2. TheRun(c) = r
    BY <1>1 DEF TheRun
  <1>3. RunOf(c) \in runs[r]
    BY <1>2 DEF RunOf
  <1>4. RunOf(c) = x
    BY <1>3 DEF IInv, CallFollowsItsRun, RunsAreWellFormed
  <1>5. x \in RunRecord
    BY DEF IInv, TypeOK
  <1> QED BY <1>1, <1>2, <1>3, <1>4, <1>5

\* The result Execute returns meets all that is said of results.
LEMMA FinishedIsGood ==
    ASSUME IInv, NEW c \in Call, pc[c] = "fetched", Buildable(call[c].sdk, Built(c)),
           NEW status \in Status \cup {Unset},
           call[c].sdk = "go" => status = RunOf(c).status,
           NEW res,
           res = [run_id |-> TheRun(c), status |-> status, content |-> Built(c),
                  digest |-> Digest(call[c].sdk, Built(c))],
           UNCHANGED <<runs, call>>
    PROVE  res \in Result /\ Good(c, res)'
  <1> DEFINE sdk == call[c].sdk
             s == call[c].scenario
             r == TheRun(c)
             x == RunOf(c)
             b == Built(c)
  <1>1. /\ r \in Run /\ x \in runs[r] /\ x \in RunRecord /\ x.req = RequestOf(c)
        /\ Continues(x, [x EXCEPT !.effects = fetched[c]])
    BY HeldRun
  <1>2. /\ fetched[c] \in Seq(EffectDigest) /\ x.effects \in Seq(EffectDigest)
        /\ call[c] \in CallInput
    BY <1>1 DEF IInv, TypeOK, RunRecord
  <1>3. /\ Len(fetched[c]) <= Len(x.effects)
        /\ \A n \in 1..Len(fetched[c]) : x.effects[n] = fetched[c][n]
        /\ Len(x.effects) <= MaxEffects
        /\ x.status = "pending" => x.effects = <<>>
    <2>1. [x EXCEPT !.effects = fetched[c]].effects = fetched[c]
      BY <1>1 DEF RunRecord
    <2> QED BY <1>1, <2>1 DEF Continues, IInv, CallFollowsItsRun, RunsAreWellFormed
  <1>4. Ready(c)
    BY <1>1, <1>2, <1>3, RunnerAssumption DEF Ready
  <1>5. /\ b \in Content /\ b.items = BuiltItems(sdk, r, fetched[c])
        /\ b.header = [id |-> BundleId(sdk, call[c].run_id), run_ref |-> r,
                       contract |-> ContractOf[s], hv |-> HvRef(sdk, s)]
        /\ b.scope = BuiltScope(sdk, s)
    BY <1>4, BuiltFields
  <1>head. /\ b.header.run_ref = r /\ b.header.contract = ContractOf[s]
           /\ b.header.hv = HvRef(sdk, s)
           /\ \A k \in ScopeKeysOf(b.scope) : b.scope[k] = s
    <2> DEFINE v == HvRef(sdk, s)
               i == BundleId(sdk, call[c].run_id)
               t == ContractOf[s]
    <2>1. b.header = [id |-> i, run_ref |-> r, contract |-> t, hv |-> v]
      BY <1>5
    <2>2. \A k \in ScopeKeysOf(b.scope) : b.scope[k] = s
      BY <1>5 DEF BuiltScope, ScopeKeysOf
    <2> HIDE DEF b, r, s, v, i, t
    <2>3. b.header.run_ref = r /\ b.header.contract = t /\ b.header.hv = v
      BY <2>1
    <2> QED BY <2>2, <2>3 DEF v, t
  <1>6. res \in Result
    <2>1. Digest(sdk, b) \in SUBSET BodyDoc
      BY <1>4, BuiltBodyType DEF Digest
    <2> QED BY <1>1, <1>5, <2>1 DEF Result
  <1>7. /\ b.items \in Seq(Item) /\ Leading(sdk) \in 0..Len(b.items)
        /\ Len(b.items) - Leading(sdk) <= Len(fetched[c])
        /\ \A n \in 1..Leading(sdk) : b.items[n].digest \in
              {HashOfRun(r), HashOfCount(Len(fetched[c]))}
        /\ \A n \in 1..(Len(b.items) - Leading(sdk)) :
              b.items[Leading(sdk) + n].digest = fetched[c][n]
        /\ sdk = "go" /\ fetched[c] = <<>> =>
              \A n \in DOMAIN b.items : b.items[n].kind # "effect"
    <2>1. sdk \in Sdk
      BY <1>2, CallInputType
    <2>2. fetched[c] \in Seq(EffectDigest) /\ Len(fetched[c]) <= MaxEffects
      BY <1>4 DEF Ready
    <2>3. b.items = BuiltItems(sdk, r, fetched[c])
      BY <1>5
    <2> HIDE DEF sdk, b, r
    <2> QED BY <1>1, <2>1, <2>2, <2>3, BuiltItemsShape
  <1>8. /\ res.run_id = r /\ res.content = b /\ res.status = status
        /\ res.digest = Digest(sdk, b)
    OBVIOUS
  <1>9. TellsOf(res, x)
    <2>1. x.req = [scenario |-> s, hv |-> HvRef(sdk, s)]
      BY <1>1 DEF RequestOf
    <2> HIDE DEF sdk, s, r, x, b
    <2>2. /\ b.header.run_ref = r /\ b.header.contract = ContractOf[s]
          /\ b.header.hv = HvRef(sdk, s)
          /\ \A k \in ScopeKeysOf(b.scope) : b.scope[k] = s
      BY <1>head
    <2>3. Len(fetched[c]) \in 0..Len(x.effects)
      BY <1>2, <1>3
    <2>4. \A n \in 1..Leading(sdk) : b.items[n].digest \in
              {HashOfRun(r)} \cup {HashOfCount(m) : m \in 0..Len(x.effects)}
      BY <1>7, <2>3
    <2>5. Len(b.items) - Leading(sdk) <= Len(x.effects)
      BY <1>2, <1>3, <1>7
    <2>6. \A n \in 1..(Len(b.items) - Leading(sdk)) :
              b.items[Leading(sdk) + n].digest = x.effects[n]
      <3>1. \A n \in 1..(Len(b.items) - Leading(sdk)) : n \in 1..Len(fetched[c])
        BY <1>2, <1>7
      <3> QED BY <1>3, <1>7, <3>1
    <2>7. x.req.scenario = s /\ x.req.hv = HvRef(sdk, s)
      <3> DEFINE v == HvRef(sdk, s)
      <3>1. x.req = [scenario |-> s, hv |-> v]
        BY <2>1
      <3> HIDE DEF v
      <3>2. x.req.scenario = s /\ x.req.hv = v
        BY <3>1
      <3> QED BY <3>2 DEF v
    <2>8. \E k \in 0..Len(b.items) :
              /\ \A n \in 1..k : b.items[n].digest \in
                    {HashOfRun(r)} \cup {HashOfCount(m) : m \in 0..Len(x.effects)}
              /\ Len(b.items) - k <= Len(x.effects)
              /\ \A n \in 1..(Len(b.items) - k) : b.items[k + n].digest = x.effects[n]
      BY <1>7, <2>4, <2>5, <2>6
    <2> QED BY <1>8, <2>2, <2>7, <2>8 DEF TellsOf
  <1>10. /\ \A q \in Sdk : VerifyOk(q, ReadInto(q, b), Digest(sdk, b))
         /\ SchemaValid(b, Digest(sdk, b)) <=> FitCall(call[c]) /\ r # ""
    BY <1>4, BuiltIsSound
  <1>11. sdk = "go" /\ status = "pending" =>
             \A n \in DOMAIN b.items : b.items[n].kind # "effect"
    <2>1. sdk = "go" /\ status = "pending" => fetched[c] = <<>>
      BY <1>2, <1>3
    <2> QED BY <1>7, <2>1
  <1>12. Good(c, res)'
    <2>1. runs' = runs /\ call' = call /\ call[c].scenario = s /\ call[c].sdk = sdk
      OBVIOUS
    <2> HIDE DEF sdk, s, r, x, b
    <2>2. RequestOf(c)' = RequestOf(c)
      BY <2>1 DEF RequestOf
    <2>3. \E y \in runs'[res.run_id] : y.req = RequestOf(c)' /\ TellsOf(res, y)
      BY <1>1, <1>8, <1>9, <2>1, <2>2
    <2>5. /\ \A q \in Sdk : VerifyOk(q, ReadInto(q, res.content), res.digest)
          /\ SchemaValid(res.content, res.digest) <=> FitCall(call'[c]) /\ res.run_id # ""
      BY <1>8, <1>10, <2>1
    <2>6. call'[c].sdk = "go" /\ res.status = "pending" =>
             \A n \in DOMAIN res.content.items : res.content.items[n].kind # "effect"
      BY <1>8, <1>11, <2>1
    <2> QED BY <2>3, <2>5, <2>6 DEF Good
  <1> QED BY <1>6, <1>12

-----------------------------------------------------------------------------
(* One lemma per action *)

\* What every step of a call leaves of the types.
LEMMA GotoType ==
    ASSUME TypeOK, NEW c \in Call, Goto(c, "starting") \/ Goto(c, "started")
              \/ Goto(c, "fetched") \/ Goto(c, "returned") \/ Goto(c, "failed")
    PROVE  /\ pc' \in [Call -> {"ready", "starting", "started", "fetched"} \cup Done]
           /\ \A d \in Call \ {c} : pc'[d] = pc[d]
  BY DEF Goto, TypeOK, Done

\* A call that is made, or ends in an error, without a word from the runtime.
LEMMA CallEndsIInv ==
    ASSUME IInv, NEW c \in Call, Invoke(c) \/ AdapterFails(c)
    PROVE  IInv'
  <1>1. /\ UNCHANGED <<runs, call, handle, fetched, result>>
        /\ Goto(c, "starting") \/ Goto(c, "failed")
    BY DEF Invoke, AdapterFails
  <1>2. pc'[c] \in {"starting", "failed"}
    BY <1>1 DEF Goto, IInv, TypeOK
  <1>3. TypeOK' /\ \A d \in Call \ {c} : pc'[d] = pc[d]
    BY <1>1, GotoType DEF IInv, TypeOK
  <1>4. Grows /\ RunsAreWellFormed'
    BY <1>1, RunsKept DEF IInv, CallFollowsItsRun
  <1>5. FollowsItsRun(c)'
    BY <1>2 DEF FollowsItsRun
  <1> QED BY <1>1, <1>3, <1>4, <1>5, CallStepIInv

LEMMA StartRunIInv ==
    ASSUME IInv, NEW c \in Call, NEW r \in Run, StartRun(c, r)
    PROVE  IInv'
  <1>1. /\ Starts(c, r) /\ Goto(c, "started")
        /\ handle' = [handle EXCEPT ![c] = {r}]
        /\ UNCHANGED <<call, fetched, result>>
    BY DEF StartRun
  <1>2. /\ Grows /\ RunsAreWellFormed' /\ runs' \in [Run -> SUBSET RunRecord]
        /\ \E x \in runs'[r] : x.req = RequestOf(c)
    BY <1>1, StartsGrow DEF IInv, CallFollowsItsRun
  <1>3. /\ handle' \in [Call -> SUBSET Run] /\ handle'[c] = {r}
        /\ \A d \in Call \ {c} : handle'[d] = handle[d]
    BY <1>1 DEF IInv, TypeOK
  <1>4. TypeOK' /\ \A d \in Call \ {c} : pc'[d] = pc[d]
    BY <1>1, <1>2, <1>3, GotoType DEF IInv, TypeOK
  <1>5. pc'[c] = "started"
    BY <1>1 DEF Goto, IInv, TypeOK
  <1>6. FollowsItsRun(c)'
    <2>1. RequestOf(c)' = RequestOf(c)
      BY <1>1 DEF RequestOf
    <2> QED BY <1>2, <1>3, <1>5, <2>1 DEF FollowsItsRun
  <1> QED BY <1>1, <1>2, <1>3, <1>4, <1>6, CallStepIInv

LEMMA StartFailsIInv ==
    ASSUME IInv, NEW c \in Call, StartFails(c)
    PROVE  IInv'
  <1>1. /\ Goto(c, "failed") /\ UNCHANGED <<call, handle, fetched, result>>
        /\ UNCHANGED runs \/ \E r \in Run : Starts(c, r)
    BY DEF StartFails
  <1>2. Grows /\ RunsAreWellFormed' /\ runs' \in [Run -> SUBSET RunRecord]
    BY <1>1, RunsKept, StartsGrow DEF IInv, CallFollowsItsRun
  <1>3. TypeOK' /\ \A d \in Call \ {c} : pc'[d] = pc[d]
    BY <1>1, <1>2, GotoType DEF IInv, TypeOK
  <1>4. FollowsItsRun(c)'
    <2>1. pc'[c] = "failed"
      BY <1>1 DEF Goto, IInv, TypeOK
    <2> QED BY <2>1 DEF FollowsItsRun
  <1> QED BY <1>1, <1>2, <1>3, <1>4, CallStepIInv

LEMMA FetchEffectsIInv ==
    ASSUME IInv, NEW c \in Call, FetchEffects(c)
    PROVE  IInv'
  <1> DEFINE x == RunOf(c)
  <1>1. /\ pc[c] = "started" /\ Goto(c, "fetched")
        /\ fetched' = [fetched EXCEPT ![c] = x.effects]
        /\ UNCHANGED <<runs, call, handle, result>>
    BY DEF FetchEffects
  <1>2. /\ TheRun(c) \in Run /\ handle[c] = {TheRun(c)} /\ x \in runs[TheRun(c)]
        /\ x \in RunRecord /\ x.req = RequestOf(c)
    BY <1>1, HeldRun
  <1> HIDE DEF x
  <1>3. Grows /\ RunsAreWellFormed'
    BY <1>1, RunsKept DEF IInv, CallFollowsItsRun
  <1>4. /\ fetched' \in [Call -> Seq(EffectDigest)] /\ fetched'[c] = x.effects
        /\ \A d \in Call \ {c} : fetched'[d] = fetched[d]
    BY <1>1, <1>2 DEF IInv, TypeOK, RunRecord
  <1>5. TypeOK' /\ \A d \in Call \ {c} : pc'[d] = pc[d]
    BY <1>1, <1>4, GotoType DEF IInv, TypeOK
  <1>6. FollowsItsRun(c)'
    <2>1. [x EXCEPT !.effects = x.effects] = x
      BY <1>2 DEF RunRecord
    <2>2. Continues(x, [x EXCEPT !.effects = fetched'[c]])
      BY <1>2, <1>4, <2>1, ContinuesItself
    <2>3. RequestOf(c)' = RequestOf(c)
      BY <1>1 DEF RequestOf
    <2>4. handle'[c] = handle[c] /\ runs' = runs
      BY <1>1
    <2> DEFINE r == TheRun(c)
    <2>5. r \in Run /\ handle[c] = {r} /\ x \in runs[r]
      BY <1>2
    <2> HIDE DEF r
    <2>6. \E q \in Run : \E y \in runs'[q] :
            /\ handle'[c] = {q}
            /\ y.req = RequestOf(c)'
            /\ Continues(y, [y EXCEPT !.effects = fetched'[c]])
      BY <1>2, <2>2, <2>3, <2>4, <2>5
    <2> QED BY <2>6 DEF FollowsItsRun
  <1> QED BY <1>1, <1>3, <1>4, <1>5, <1>6, CallStepIInv

\* Sealing, with the status each SDK reports.
LEMMA FinishIInv ==
    ASSUME IInv, NEW c \in Call, StatusAndSeal(c) \/ SealOnly(c)
    PROVE  IInv'
  <1>1. PICK status \in Status \cup {Unset} :
            /\ pc[c] = "fetched" /\ Finish(c, status)
            /\ call[c].sdk = "go" => status = RunOf(c).status
    <2>1. CASE StatusAndSeal(c)
      <3>1. pc[c] = "fetched" /\ Finish(c, RunOf(c).status)
        BY <2>1 DEF StatusAndSeal
      <3>2. RunOf(c) \in RunRecord
        BY <3>1, HeldRun
      <3>3. RunOf(c).status \in Status \cup {Unset}
        BY <3>2 DEF RunRecord
      <3> QED BY <3>1, <3>3
    <2>2. CASE SealOnly(c)
      <3>1. "passed" \in Status
        BY DEF Status, Terminal
      <3> QED BY <2>2, <3>1 DEF SealOnly
    <2> QED BY <2>1, <2>2
  <1>2. UNCHANGED <<runs, call, handle, fetched>>
    BY <1>1 DEF Finish
  <1>3. Grows /\ RunsAreWellFormed'
    BY <1>2, RunsKept DEF IInv, CallFollowsItsRun
  <1>4. CASE Buildable(call[c].sdk, Built(c))
    <2>1. PICK res : res = [run_id |-> TheRun(c), status |-> status,
                 content |-> Built(c), digest |-> Digest(call[c].sdk, Built(c))]
      OBVIOUS
    <2>2. result' = [result EXCEPT ![c] = {res}] /\ Goto(c, "returned")
      BY <1>1, <1>4, <2>1 DEF Finish
    <2>3. res \in Result /\ Good(c, res)'
      BY <1>1, <1>2, <1>4, <2>1, FinishedIsGood
    <2>4. /\ result' \in [Call -> SUBSET Result] /\ result'[c] = {res}
          /\ \A d \in Call \ {c} : result'[d] = result[d]
      BY <2>2, <2>3 DEF IInv, TypeOK
    <2>5. TypeOK' /\ \A d \in Call \ {c} : pc'[d] = pc[d]
      BY <1>2, <2>2, <2>4, GotoType DEF IInv, TypeOK
    <2>6. FollowsItsRun(c)'
      <3>1. pc'[c] = "returned"
        BY <2>2 DEF Goto, IInv, TypeOK
      <3> QED BY <3>1 DEF FollowsItsRun
    <2>7. \A d \in Call : \A new \in result'[d] \ result[d] : Good(d, new)'
      BY <2>3, <2>4
    <2> QED BY <1>2, <1>3, <2>5, <2>6, <2>7, CallStepIInv
  <1>5. CASE ~Buildable(call[c].sdk, Built(c))
    <2>1. Goto(c, "failed") /\ UNCHANGED result
      BY <1>1, <1>5 DEF Finish
    <2>2. TypeOK' /\ \A d \in Call \ {c} : pc'[d] = pc[d]
      BY <1>2, <2>1, GotoType DEF IInv, TypeOK
    <2>3. FollowsItsRun(c)'
      <3>1. pc'[c] = "failed"
        BY <2>1 DEF Goto, IInv, TypeOK
      <3> QED BY <3>1 DEF FollowsItsRun
    <2> QED BY <1>2, <1>3, <2>1, <2>2, <2>3, CallStepIInv
  <1> QED BY <1>4, <1>5

LEMMA RuntimeIInv ==
    ASSUME IInv, NEW r \in Run, Runtime(r)
    PROVE  IInv'
  <1>1. Grows /\ RunsAreWellFormed' /\ runs' \in [Run -> SUBSET RunRecord]
    BY RuntimeGrows DEF IInv, CallFollowsItsRun
  <1>2. UNCHANGED <<pc, call, handle, fetched, result>>
    BY DEF Runtime, Begin, Interrupt, End, Emit, SetStatus
  <1>3. TypeOK'
    BY <1>1, <1>2 DEF IInv, TypeOK
  <1> DEFINE Moved == {}
  <1>4. Moved \in SUBSET Call /\ \A c \in Moved : FollowsItsRun(c)'
    OBVIOUS
  <1>5. \A c \in Call : \A res \in result'[c] \ result[c] : Good(c, res)'
    BY <1>2
  <1> HIDE DEF Moved
  <1> QED BY <1>1, <1>2, <1>3, <1>4, <1>5, StepIInv

LEMMA NextIInv == IInv /\ [Next]_vars => IInv'
  <1> SUFFICES ASSUME IInv, [Next]_vars PROVE IInv'
    OBVIOUS
  <1>1. CASE \E c \in Call : Execute(c)
    <2>1. PICK c \in Call : Execute(c)
      BY <1>1
    <2>2. CASE Invoke(c) \/ AdapterFails(c)
      BY <2>2, CallEndsIInv
    <2>3. CASE \E r \in Run : StartRun(c, r)
      BY <2>3, StartRunIInv
    <2>4. CASE StartFails(c)
      BY <2>4, StartFailsIInv
    <2>5. CASE FetchEffects(c)
      BY <2>5, FetchEffectsIInv
    <2>6. CASE StatusAndSeal(c) \/ SealOnly(c)
      BY <2>6, FinishIInv
    <2> QED BY <2>1, <2>2, <2>3, <2>4, <2>5, <2>6 DEF Execute, Answer
  <1>2. CASE \E r \in Run : Runtime(r)
    BY <1>2, RuntimeIInv
  <1>3. CASE UNCHANGED vars
    <2>1. UNCHANGED <<runs, pc, call, handle, fetched, result>>
      BY <1>3 DEF vars
    <2>2. TypeOK' /\ Grows /\ RunsAreWellFormed'
      BY <2>1, RunsKept DEF IInv, TypeOK, CallFollowsItsRun
    <2> DEFINE Moved == {}
    <2>3. Moved \in SUBSET Call /\ \A c \in Moved : FollowsItsRun(c)'
      OBVIOUS
    <2>4. \A c \in Call : \A res \in result'[c] \ result[c] : Good(c, res)'
      BY <2>1
    <2> HIDE DEF Moved
    <2> QED BY <2>1, <2>2, <2>3, <2>4, StepIInv
  <1> QED BY <1>1, <1>2, <1>3 DEF Next, Quiet

-----------------------------------------------------------------------------
(* The theorems *)

\* Every state of every run of the program satisfies the invariant above.
THEOREM InductiveInvariant == Spec => []IInv
  BY InitIInv, NextIInv, PTL DEF Spec

\* Every variable keeps its type: what is hashed is of the schema's shape.
THEOREM TypeCorrect == Spec => []TypeOK
  <1>1. IInv => TypeOK
    BY DEF IInv
  <1> QED BY <1>1, InductiveInvariant, PTL

\* A call under way keeps the run it was given, for any number of calls, runs and
\* scenarios, and a runtime that shares runs (harness.go:258-274).
THEOREM CallsFollowTheirRuns == Spec => []CallFollowsItsRun
  <1>1. IInv => CallFollowsItsRun
    BY DEF IInv
  <1> QED BY <1>1, InductiveInvariant, PTL

\* What Execute returns tells of the run it names, of its request, and of the
\* effects it had, in order (harness.go:276-295, harness.ts, runner.py).
THEOREM ResultsAreOfTheirRuns == Spec => []ResultIsOfItsRun
  <1>1. IInv => ResultIsOfItsRun
    BY DEF IInv, Good, ResultIsOfItsRun
  <1> QED BY <1>1, InductiveInvariant, PTL

\* A returned bundle verifies in all three SDKs, whichever made it.
THEOREM ResultsVerify == Spec => []ResultVerifiesInEverySdk
  <1>1. IInv => ResultVerifiesInEverySdk
    BY DEF IInv, Good, ResultVerifiesInEverySdk
  <1> QED BY <1>1, InductiveInvariant, PTL

\* A Go result whose status is pending has no effect in its evidence.
THEOREM StatusesAreFresh == Spec => []StatusNotOlderThanEvidence
  <1>1. IInv => StatusNotOlderThanEvidence
    BY DEF IInv, Good, StatusNotOlderThanEvidence
  <1> QED BY <1>1, InductiveInvariant, PTL

\* A returned bundle meets the published schema, the pattern of its id and its
\* references included, exactly if run id, contract, harness reference and run ref
\* were fit, whatever calls and runs interleave (harness.go:276, harness.ts:178,
\* runner.py:54).
THEOREM ResultsAreSchemaValid == Spec => []ResultIsSchemaValid
  <1>1. IInv => ResultIsSchemaValid
    BY DEF IInv, Good, ResultIsSchemaValid
  <1> QED BY <1>1, InductiveInvariant, PTL
=============================================================================
