------------------------ MODULE HarnessVersionProofs ------------------------
(* Theorems about HarnessVersion, for every value of its constants. *)
EXTENDS HarnessVersion, TLAPS

-----------------------------------------------------------------------------
(* The canonical body: its type, what it tells apart, where the SDKs agree *)

\* The body of a content is of the schema's shape, Go's with a seed that is set.
LEMMA BodyType ==
    ASSUME NEW sdk \in Sdk, NEW c \in Content, sdk = "go" => c.seed # Unset
    PROVE  Body(sdk, c) \in BodyDoc
  <1>1. LockJson(sdk, c.lock) \in Lock
    <2>1. ASSUME NEW r \in Role PROVE OrZero(c.lock, r) \subseteq Component
      <3>1. ZeroComponent \in Component
        BY DEF ZeroComponent, Component
      <3>2. c.lock[r] \subseteq Component
        BY <2>1 DEF Content, Lock
      <3> QED BY <3>1, <3>2 DEF OrZero
    <2>2. c.lock \in Lock
      BY DEF Content
    <2> QED BY <2>1, <2>2 DEF LockJson, Lock
  <1>2. EmitSeed(sdk, c.seed) \subseteq Name \cup {""}
    BY DEF EmitSeed, Content, OptionalText
  <1> QED BY <1>1, <1>2 DEF Body, BodyDoc, Content

\* A seed that two SDKs emit alike reads alike.
LEMMA EmitSeedInjective ==
    ASSUME NEW s, NEW q, NEW t, NEW u, EmitSeed(s, t) = EmitSeed(q, u)
    PROVE  Plain(t) = Plain(u)
  <1>1. EmitSeed(s, t) = {} => t \in {"", Unset}
    BY DEF EmitSeed
  <1>2. EmitSeed(q, u) = {} => u \in {"", Unset}
    BY DEF EmitSeed
  <1>3. \A x \in EmitSeed(s, t) : x = t
    BY DEF EmitSeed
  <1>4. \A x \in EmitSeed(q, u) : x = u
    BY DEF EmitSeed
  <1> QED BY <1>1, <1>2, <1>3, <1>4 DEF Plain

\* A lock that two SDKs render alike has the same four components.
LEMMA LockJsonInjective ==
    ASSUME NEW s, NEW q, NEW k, NEW m, NEW r \in Required,
           LockJson(s, k) = LockJson(q, m)
    PROVE  OrZero(k, r) = OrZero(m, r)
  <1>1. r \in Role
    BY DEF Role
  <1>2. LockJson(s, k)[r] = LockJson(q, m)[r]
    OBVIOUS
  <1>3. LockJson(s, k)[r] \in {k[r], OrZero(k, r)}
    BY <1>1 DEF LockJson
  <1>4. LockJson(q, m)[r] \in {m[r], OrZero(m, r)}
    BY <1>1 DEF LockJson
  <1>5. s = "go" => LockJson(s, k)[r] = OrZero(k, r)
    BY <1>1 DEF LockJson
  <1>6. s # "go" => LockJson(s, k)[r] = k[r]
    BY <1>1 DEF LockJson
  <1>7. q = "go" => LockJson(q, m)[r] = OrZero(m, r)
    BY <1>1 DEF LockJson
  <1>8. q # "go" => LockJson(q, m)[r] = m[r]
    BY <1>1 DEF LockJson
  <1> QED BY <1>2, <1>5, <1>6, <1>7, <1>8 DEF OrZero

\* Two contents with one canonical body are the same harness, whichever SDKs
\* rendered them: no rule for leaving a key out hides a difference.
LEMMA BodyInjective ==
    ASSUME NEW s, NEW q, NEW c, NEW d, Body(s, c) = Body(q, d)
    PROVE  SameHarness(c, d)
  <1>1. /\ c.ref = d.ref
        /\ LockJson(s, c.lock) = LockJson(q, d.lock)
        /\ c.mode = d.mode
        /\ EmitSeed(s, c.seed) = EmitSeed(q, d.seed)
    BY DEF Body
  <1>2. Plain(c.seed) = Plain(d.seed)
    BY <1>1, EmitSeedInjective
  <1>3. \A r \in Required : OrZero(c.lock, r) = OrZero(d.lock, r)
    BY <1>1, LockJsonInjective
  <1> QED BY <1>1, <1>2, <1>3 DEF SameHarness

\* A lock of exactly the four roles is rendered as it is, by every SDK.
LEMMA LockJsonPortable ==
    ASSUME NEW s, NEW k \in Lock, \A r \in Role : r \in Required <=> k[r] # {}
    PROVE  LockJson(s, k) = k
  <1>1. \A r \in Role : LockJson(s, k)[r] = k[r]
    BY DEF LockJson, OrZero
  <1>2. LockJson(s, k) = [r \in Role |-> LockJson(s, k)[r]]
    BY DEF LockJson
  <1> QED BY <1>1, <1>2 DEF Lock

-----------------------------------------------------------------------------
(* Every step keeps the inductive invariant IInv of HarnessVersion *)

LEMMA InitIInv == Init => IInv
  <1> SUFFICES ASSUME Init PROVE IInv
    OBVIOUS
  <1>1. TypeOK
    BY HarnessAssumption DEF Init, TypeOK, OptionalText, LockRef, RefRef,
       Unpublished, NoLock, NoReference, Lock, Reference
  <1>2. \A h \in Harness : hv[h].sdk = "none" /\ hv[h].lock = h /\ hv[h].ref = h
    BY DEF Init
  <1>3. \A h \in Harness : published[h] = {}
    BY DEF Init
  <1> QED BY <1>1, <1>2, <1>3
      DEF IInv, Ownership, GoSeedIsSet, DigestIsOfPublished, GoHarnessIsFrozen

\* The three constructors, each by what it copies.
LEMMA ConstructIInv ==
    ASSUME IInv, NEW h \in Harness, NEW sdk \in Sdk, NEW k \in CallerLock,
           NEW v \in CallerRef, NEW m \in Mode, NEW s \in SeedInput,
           NEW ownLock \in BOOLEAN, NEW ownRef \in BOOLEAN,
           sdk = "go" => ownLock /\ ownRef,
           Construct(h, sdk, k, v, m, s, ownLock, ownRef)
    PROVE  IInv'
  <1> DEFINE new == [sdk |-> sdk, lock |-> IF ownLock THEN h ELSE k,
                 ref |-> IF ownRef THEN h ELSE v, mode |-> m,
                 seed |-> IF sdk = "go" THEN Plain(s) ELSE s,
                 digest |-> Unpublished]
  <1> USE DEF IInv
  <1>1. /\ hv' = [hv EXCEPT ![h] = new]
        /\ locks' = IF ownLock THEN [locks EXCEPT ![h] = locks[k]] ELSE locks
        /\ refs' = IF ownRef THEN [refs EXCEPT ![h] = refs[v]] ELSE refs
        /\ touched' = touched /\ published' = published
        /\ hv[h].sdk = "none"
        /\ AcceptsRef(sdk, refs[v]) /\ AcceptsLock(sdk, locks[k])
    BY DEF Construct, Made
  <1>2. /\ hv'[h] = new
        /\ \A g \in Harness \ {h} : hv'[g] = hv[g]
    BY <1>1 DEF TypeOK
  <1>3. /\ \A j \in LockRef \ {h} : locks'[j] = locks[j]
        /\ \A j \in RefRef \ {h} : refs'[j] = refs[j]
        /\ ownLock => locks'[h] = locks[k]
        /\ ownRef => refs'[h] = refs[v]
    BY <1>1 DEF TypeOK, LockRef, RefRef
  <1>4. TypeOK'
    <2>1. new \in [sdk: Sdk \cup {"none"}, lock: LockRef, ref: RefRef,
                   mode: Mode, seed: OptionalText(Name), digest: SUBSET BodyDoc]
      <3>1. (IF sdk = "go" THEN Plain(s) ELSE s) \in OptionalText(Name)
        BY HarnessAssumption DEF Plain, OptionalText
      <3> QED BY <3>1 DEF LockRef, RefRef, Unpublished
    <2>2. locks' \in [LockRef -> Lock] /\ refs' \in [RefRef -> Reference]
      BY <1>1 DEF TypeOK, LockRef, RefRef
    <2>3. hv' \in [Harness -> [sdk: Sdk \cup {"none"}, lock: LockRef, ref: RefRef,
                  mode: Mode, seed: OptionalText(Name), digest: SUBSET BodyDoc]]
      BY <1>1, <2>1 DEF TypeOK
    <2> QED BY <1>1, <2>2, <2>3 DEF TypeOK
  <1>5. Ownership'
    BY <1>2 DEF Ownership
  <1>6. GoSeedIsSet'
    <2>1. Plain(s) # Unset
      BY ContractsAssumption DEF Plain
    <2> QED BY <1>2, <2>1 DEF GoSeedIsSet
  <1>7. DigestIsOfPublished'
    BY <1>1, <1>2 DEF DigestIsOfPublished, Sdk
  <1>8. GoHarnessIsFrozen'
    <2> SUFFICES ASSUME NEW g \in Harness \ touched', hv'[g].sdk = "go"
                 PROVE  /\ AcceptsLock("go", locks'[hv'[g].lock])
                        /\ AcceptsRef("go", refs'[hv'[g].ref])
                        /\ hv'[g].digest \in {Unpublished, CanonicalDigest(g)'}
      BY DEF GoHarnessIsFrozen
    <2>1. CASE g = h
      BY <1>1, <1>2, <1>3, <2>1
    <2>2. CASE g # h
      <3>1. hv'[g] = hv[g] /\ hv[g].lock = g /\ hv[g].ref = g
        BY <1>2, <2>2 DEF Ownership
      <3>2. locks'[g] = locks[g] /\ refs'[g] = refs[g]
        BY <1>3, <2>2 DEF LockRef, RefRef
      <3>3. CanonicalDigest(g)' = CanonicalDigest(g)
        BY <3>1, <3>2 DEF CanonicalDigest, ContentOf
      <3> QED BY <1>1, <3>1, <3>2, <3>3 DEF GoHarnessIsFrozen
    <2> QED BY <2>1, <2>2
  <1> QED BY <1>4, <1>5, <1>6, <1>7, <1>8

LEMMA PublishIInv ==
    ASSUME IInv, NEW h \in Harness, Publish(h)
    PROVE  IInv'
  <1> USE DEF IInv
  <1>1. /\ hv' = [hv EXCEPT ![h].digest = CanonicalDigest(h)]
        /\ published' = [published EXCEPT ![h] = {ContentOf(h)}]
        /\ locks' = locks /\ refs' = refs /\ touched' = touched
        /\ hv[h].sdk # "none"
    BY DEF Publish, Made
  <1>2. /\ hv'[h] = [hv[h] EXCEPT !.digest = CanonicalDigest(h)]
        /\ \A g \in Harness \ {h} : hv'[g] = hv[g]
        /\ \A g \in Harness : /\ hv'[g].sdk = hv[g].sdk /\ hv'[g].lock = hv[g].lock
                              /\ hv'[g].ref = hv[g].ref /\ hv'[g].mode = hv[g].mode
                              /\ hv'[g].seed = hv[g].seed
        /\ hv'[h].digest = CanonicalDigest(h)
    BY <1>1 DEF TypeOK
  <1>3. ContentOf(h) \in Content
    BY DEF ContentOf, Content, TypeOK
  <1>4. TypeOK'
    <2>1. CanonicalDigest(h) \subseteq BodyDoc
      <3>1. hv[h].sdk \in Sdk
        BY <1>1 DEF TypeOK
      <3>2. hv[h].sdk = "go" => ContentOf(h).seed # Unset
        BY DEF GoSeedIsSet, ContentOf
      <3> QED BY <1>3, <3>1, <3>2, BodyType DEF CanonicalDigest
    <2> QED BY <1>1, <1>3, <2>1 DEF TypeOK
  <1>5. Ownership' /\ GoSeedIsSet'
    BY <1>2 DEF Ownership, GoSeedIsSet
  <1>6. DigestIsOfPublished'
    <2>1. published'[h] = {ContentOf(h)} /\ \A g \in Harness \ {h} : published'[g] = published[g]
      BY <1>1 DEF TypeOK
    <2>2. hv'[h].digest = {Body(hv'[h].sdk, ContentOf(h))}
      BY <1>2 DEF CanonicalDigest
    <2> QED BY <1>1, <1>2, <2>1, <2>2 DEF DigestIsOfPublished
  <1>7. GoHarnessIsFrozen'
    <2>1. \A g \in Harness : CanonicalDigest(g)' = CanonicalDigest(g)
      BY <1>1, <1>2 DEF CanonicalDigest, ContentOf
    <2> QED BY <1>1, <1>2, <2>1 DEF GoHarnessIsFrozen
  <1> QED BY <1>4, <1>5, <1>6, <1>7

\* Assigning a field: nothing is promised of a harness that was written to.
LEMMA SetFieldIInv ==
    ASSUME IInv, NEW h \in Harness,
           \/ \E m \in Mode : SetMode(h, m)
           \/ \E s \in SeedInput : SetSeed(h, s)
    PROVE  IInv'
  <1> USE DEF IInv
  <1>1. PICK m \in Mode, s \in OptionalText(Name) :
            /\ hv' = [hv EXCEPT ![h] = [@ EXCEPT !.mode = m, !.seed = s]]
            /\ hv[h].sdk = "go" => s # Unset
            /\ touched' = touched \cup {h}
            /\ locks' = locks /\ refs' = refs /\ published' = published
    <2>1. CASE \E m \in Mode : SetMode(h, m)
      <3>1. PICK m \in Mode : SetMode(h, m)
        BY <2>1
      <3>2. hv[h].seed \in OptionalText(Name)
        BY DEF TypeOK
      <3>3. hv' = [hv EXCEPT ![h] = [@ EXCEPT !.mode = m, !.seed = hv[h].seed]]
        BY <3>1 DEF SetMode, TypeOK
      <3> QED BY <3>1, <3>2, <3>3 DEF SetMode, GoSeedIsSet
    <2>2. CASE \E s \in SeedInput : SetSeed(h, s)
      <3>1. PICK s \in SeedInput : SetSeed(h, s)
        BY <2>2
      <3> DEFINE t == IF hv[h].sdk = "go" THEN Plain(s) ELSE s
      <3>2. t \in OptionalText(Name) /\ (hv[h].sdk = "go" => t # Unset)
        BY HarnessAssumption, ContractsAssumption DEF Plain, OptionalText
      <3>3. hv[h].mode \in Mode
        BY DEF TypeOK
      <3>4. hv' = [hv EXCEPT ![h] = [@ EXCEPT !.mode = hv[h].mode, !.seed = t]]
        BY <3>1 DEF SetSeed, TypeOK
      <3> QED BY <3>1, <3>2, <3>3, <3>4 DEF SetSeed
    <2> QED BY <2>1, <2>2
  <1>2. /\ \A g \in Harness \ {h} : hv'[g] = hv[g]
        /\ \A g \in Harness : /\ hv'[g].sdk = hv[g].sdk /\ hv'[g].lock = hv[g].lock
                              /\ hv'[g].ref = hv[g].ref
                              /\ hv'[g].digest = hv[g].digest
        /\ hv'[h].seed = s
    BY <1>1 DEF TypeOK
  <1>3. TypeOK'
    BY <1>1 DEF TypeOK
  <1>4. Ownership' /\ GoSeedIsSet'
    BY <1>1, <1>2 DEF Ownership, GoSeedIsSet
  <1>5. DigestIsOfPublished'
    BY <1>1, <1>2 DEF DigestIsOfPublished
  <1>6. GoHarnessIsFrozen'
    <2>1. \A g \in Harness \ {h} : CanonicalDigest(g)' = CanonicalDigest(g)
      BY <1>1, <1>2 DEF CanonicalDigest, ContentOf
    <2> QED BY <1>1, <1>2, <2>1 DEF GoHarnessIsFrozen
  <1> QED BY <1>3, <1>4, <1>5, <1>6

\* Writing through a lock or a reference: a Go harness nobody wrote to holds
\* neither the caller's nor another harness's.
LEMMA WriteIInv ==
    ASSUME IInv,
           \/ \E k \in LockRef, value \in LockInput : WriteLock(k, value)
           \/ \E v \in RefRef, value \in RefInput : WriteRef(v, value)
    PROVE  IInv'
  <1> USE DEF IInv
  <1>1. hv' = hv /\ published' = published
    BY DEF WriteLock, WriteRef
  <1>2. locks' \in [LockRef -> Lock] /\ refs' \in [RefRef -> Reference]
    BY HarnessAssumption DEF WriteLock, WriteRef, TypeOK
  <1>3. touched' \subseteq Harness /\ touched \subseteq touched'
    BY DEF WriteLock, WriteRef, TypeOK
  <1>4. \A h \in Harness \ touched' : locks'[h] = locks[h] /\ refs'[h] = refs[h]
    BY DEF WriteLock, WriteRef, TypeOK, LockRef, RefRef
  <1>5. TypeOK'
    BY <1>1, <1>2, <1>3 DEF TypeOK
  <1>6. Ownership' /\ GoSeedIsSet' /\ DigestIsOfPublished'
    BY <1>1 DEF Ownership, GoSeedIsSet, DigestIsOfPublished
  <1>7. GoHarnessIsFrozen'
    <2> SUFFICES ASSUME NEW h \in Harness \ touched', hv[h].sdk = "go"
                 PROVE  /\ AcceptsLock("go", locks'[hv[h].lock])
                        /\ AcceptsRef("go", refs'[hv[h].ref])
                        /\ hv[h].digest \in {Unpublished, CanonicalDigest(h)'}
      BY <1>1 DEF GoHarnessIsFrozen
    <2>1. hv[h].lock = h /\ hv[h].ref = h /\ h \notin touched
      BY <1>3 DEF Ownership
    <2>2. locks'[hv[h].lock] = locks[hv[h].lock] /\ refs'[hv[h].ref] = refs[hv[h].ref]
      BY <1>4, <2>1
    <2>3. CanonicalDigest(h)' = CanonicalDigest(h)
      BY <1>1, <2>2 DEF CanonicalDigest, ContentOf
    <2> QED BY <2>1, <2>2, <2>3 DEF GoHarnessIsFrozen
  <1> QED BY <1>5, <1>6, <1>7

LEMMA NextIInv == IInv /\ [Next]_vars => IInv'
  <1> SUFFICES ASSUME IInv, [Next]_vars PROVE IInv'
    OBVIOUS
  <1>1. CASE \E h \in Harness, k \in CallerLock, v \in CallerRef, m \in Mode,
                s \in SeedInput :
                NewGo(h, k, v, m, s) \/ NewTs(h, k, v, m, s) \/ NewPy(h, k, v, m, s)
    <2>1. PICK h \in Harness, k \in CallerLock, v \in CallerRef, m \in Mode,
                s \in SeedInput :
                NewGo(h, k, v, m, s) \/ NewTs(h, k, v, m, s) \/ NewPy(h, k, v, m, s)
      BY <1>1
    <2>2. CASE Construct(h, "go", k, v, m, s, TRUE, TRUE)
      BY <2>2, ConstructIInv DEF Sdk
    <2>3. CASE Construct(h, "ts", k, v, m, s, FALSE, TRUE)
      BY <2>3, ConstructIInv DEF Sdk
    <2>4. CASE Construct(h, "py", k, v, m, s, FALSE, FALSE)
      BY <2>4, ConstructIInv DEF Sdk
    <2> QED BY <2>1, <2>2, <2>3, <2>4 DEF NewGo, NewTs, NewPy
  <1>2. CASE \E h \in Harness : Publish(h)
    BY <1>2, PublishIInv
  <1>3. CASE \E h \in Harness, m \in Mode : SetMode(h, m)
    BY <1>3, SetFieldIInv
  <1>4. CASE \E h \in Harness, s \in SeedInput : SetSeed(h, s)
    BY <1>4, SetFieldIInv
  <1>5. CASE \/ \E k \in LockRef, value \in LockInput : WriteLock(k, value)
             \/ \E v \in RefRef, value \in RefInput : WriteRef(v, value)
    BY <1>5, WriteIInv
  <1>6. CASE UNCHANGED vars
    BY <1>6 DEF vars, IInv, TypeOK, Ownership, GoSeedIsSet, DigestIsOfPublished,
       GoHarnessIsFrozen, CanonicalDigest, ContentOf
  <1> QED BY <1>1, <1>2, <1>3, <1>4, <1>5, <1>6 DEF Next

-----------------------------------------------------------------------------
(* The theorems *)

\* Every state of every run of the program satisfies the invariant above.
THEOREM InductiveInvariant == Spec => []IInv
  BY InitIInv, NextIInv, PTL DEF Spec

\* Every variable keeps its type: what is hashed is of the schema's shape.
THEOREM TypeCorrect == Spec => []TypeOK
  <1>1. IInv => TypeOK
    BY DEF IInv
  <1> QED BY <1>1, InductiveInvariant, PTL

\* A Go harness nobody wrote to stays valid and keeps the digest it published,
\* whatever its caller does to the lock and the reference (harness.go:73-76).
THEOREM GoFreezes == Spec => []GoHarnessIsFrozen
  <1>1. IInv => GoHarnessIsFrozen
    BY DEF IInv
  <1> QED BY <1>1, InductiveInvariant, PTL

\* Two harnesses of any SDKs hold one digest only if they were the same harness
\* when it was published, incomplete locks and repeated publishing included.
THEOREM DigestIdentity == Spec => []DigestIdentifiesHarness
  <1>1. IInv => DigestIdentifiesHarness
    <2> SUFFICES ASSUME IInv, NEW g \in Harness, NEW h \in Harness,
                        NEW c \in published[g], NEW d \in published[h],
                        hv[g].digest = hv[h].digest
                 PROVE  SameHarness(c, d)
      BY DEF DigestIdentifiesHarness
    <2>1. Body(hv[g].sdk, c) = Body(hv[h].sdk, d)
      BY DEF IInv, DigestIsOfPublished
    <2> QED BY <2>1, BodyInjective
  <1> QED BY <1>1, InductiveInvariant, PTL

\* The SDKs compute one digest for a harness they can all express, after any
\* history of construction, aliasing and writes.
THEOREM DigestParity == Spec => []PortableParity
  <1>1. IInv => PortableParity
    <2> SUFFICES ASSUME IInv, NEW g \in Harness, NEW h \in Harness,
                        Portable(g), Portable(h),
                        SameHarness(ContentOf(g), ContentOf(h))
                 PROVE  CanonicalDigest(g) = CanonicalDigest(h)
      BY DEF PortableParity
    <2> DEFINE c == ContentOf(g)
               d == ContentOf(h)
    <2>1. /\ c.lock \in Lock /\ d.lock \in Lock
          /\ \A r \in Role : r \in Required <=> c.lock[r] # {}
          /\ \A r \in Role : r \in Required <=> d.lock[r] # {}
      BY DEF IInv, TypeOK, ContentOf, Portable
    <2>2. c.lock = d.lock
      <3>1. \A r \in Required : c.lock[r] = d.lock[r]
        BY <2>1 DEF SameHarness, OrZero, Role
      <3>2. \A r \in Role : c.lock[r] = d.lock[r]
        BY <2>1, <3>1
      <3> QED BY <2>1, <3>2 DEF Lock
    <2>3. LockJson(hv[g].sdk, c.lock) = LockJson(hv[h].sdk, d.lock)
      BY <2>1, <2>2, LockJsonPortable
    <2>4. EmitSeed(hv[g].sdk, c.seed) = EmitSeed(hv[h].sdk, d.seed)
      <3>1. Plain(c.seed) = Plain(d.seed)
        BY DEF SameHarness
      <3>2. /\ hv[g].sdk = "go" => c.seed # Unset
            /\ hv[g].sdk # "go" => c.seed # ""
        BY DEF IInv, GoSeedIsSet, Portable, ContentOf
      <3>3. /\ hv[h].sdk = "go" => d.seed # Unset
            /\ hv[h].sdk # "go" => d.seed # ""
        BY DEF IInv, GoSeedIsSet, Portable, ContentOf
      <3>4. CASE c.seed \in {"", Unset}
        <4>1. d.seed \in {"", Unset}
          BY <3>1, <3>4 DEF Plain
        <4>2. EmitSeed(hv[g].sdk, c.seed) = {} /\ EmitSeed(hv[h].sdk, d.seed) = {}
          BY <3>2, <3>3, <3>4, <4>1 DEF EmitSeed
        <4> QED BY <4>2
      <3>5. CASE c.seed \notin {"", Unset}
        <4>1. d.seed = c.seed
          BY <3>1, <3>5 DEF Plain
        <4>2. /\ EmitSeed(hv[g].sdk, c.seed) = {c.seed}
              /\ EmitSeed(hv[h].sdk, c.seed) = {c.seed}
          BY <3>5 DEF EmitSeed
        <4> QED BY <4>1, <4>2
      <3> QED BY <3>4, <3>5
    <2> QED BY <2>3, <2>4 DEF CanonicalDigest, Body, SameHarness
  <1> QED BY <1>1, InductiveInvariant, PTL
=============================================================================
