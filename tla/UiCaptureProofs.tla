-------------------------- MODULE UiCaptureProofs --------------------------
(* Theorems about UiCapture, for every value of its constants. *)
EXTENDS UiCapture, TLAPS

IInv == TypeOK /\ CaptureIsInOrder

-----------------------------------------------------------------------------
(* What the invariant says of one capture *)

CaptureOrder(c) ==
    /\ pc[c] # "rejected" => DOMAIN taken[c] = Awaited[pc[c]]
    /\ pc[c] \notin {"ready", "rejected"} => complete[c]
    /\ evidence[c] # {} => pc[c] = "returned" /\ evidence[c] = {taken[c]}
    /\ began[c] <= clock
    /\ \A p \in DOMAIN taken[c] :
          /\ began[c] <= taken[c][p].captured_at
          /\ taken[c][p].captured_at <= clock
          /\ p \in PagePart =>
                <<taken[c][p].captured_at, p, taken[c][p].digest>> \in past
    /\ PagePart \subseteq DOMAIN taken[c] =>
          taken[c]["screenshot"].captured_at <= taken[c]["dom"].captured_at
    /\ Part \subseteq DOMAIN taken[c] =>
          taken[c]["dom"].captured_at <= taken[c]["alert"].captured_at

\* What was awaited, one by one.
LEMMA ArtifactsOf ==
    ASSUME NEW t \in Artifacts
    PROVE  DOMAIN t \subseteq Part /\ \A p \in DOMAIN t : t[p] \in Artifact
  BY DEF Artifacts

\* Stages are one word each.
LEMMA Stages ==
    /\ Awaited["ready"] = {} /\ Awaited["screenshot"] = {}
    /\ Awaited["dom"] = {"screenshot"} /\ Awaited["alert"] = {"screenshot", "dom"}
    /\ Awaited["evidence"] = {"screenshot", "dom", "alert"}
    /\ Awaited["returned"] = {"screenshot", "dom", "alert"}
    /\ After["screenshot"] = "dom" /\ After["dom"] = "alert"
    /\ After["alert"] = "evidence"
    /\ Part = {"screenshot", "dom", "alert"}
  BY DEF Awaited, After, Part, PagePart

\* A step that leaves the page, the clock and the history alone, and every
\* capture but one.
LEMMA CaptureStep ==
    ASSUME IInv, NEW c \in Capture,
           UNCHANGED <<page, clock, past, complete>>,
           pc' \in [Capture -> Part \cup Done \cup {"ready", "evidence"}],
           began' \in [Capture -> 0..MaxTime],
           \A d \in Capture \ {c} : /\ pc'[d] = pc[d] /\ began'[d] = began[d]
                                  /\ taken'[d] = taken[d] /\ evidence'[d] = evidence[d],
           taken' \in [Capture -> Artifacts],
           evidence' \in [Capture -> SUBSET Artifacts],
           CaptureOrder(c)'
    PROVE  IInv'
  <1>1. TypeOK'
    BY DEF IInv, TypeOK
  <1>2. \A d \in Capture : CaptureOrder(d)'
    BY DEF IInv, CaptureIsInOrder, CaptureOrder
  <1>3. ShownAt(clock, page)' \subseteq past'
    BY DEF IInv, CaptureIsInOrder, ShownAt
  <1>4. CaptureIsInOrder'
    BY <1>2, <1>3 DEF CaptureIsInOrder, CaptureOrder
  <1> QED BY <1>1, <1>4 DEF IInv

LEMMA InitIInv == Init => IInv
  <1> SUFFICES ASSUME Init PROVE IInv
    OBVIOUS
  <1>1. ShownAt(0, page) \subseteq (0..MaxTime) \X PagePart \X Shown
    <2>1. 0 \in 0..MaxTime
      BY UiAssumption
    <2> QED BY <2>1 DEF Init, ShownAt
  <1>2. TypeOK
    <2>1. <<>> \in Artifacts
      <3>1. <<>> \in [{} -> Artifact] /\ {} \in SUBSET Part
        OBVIOUS
      <3> QED BY <3>1 DEF Artifacts
    <2>2. 0 \in 0..MaxTime
      BY UiAssumption
    <2>3. taken \in [Capture -> Artifacts]
      BY <2>1 DEF Init
    <2> QED BY <1>1, <2>2, <2>3 DEF Init, TypeOK
  <1>3. CaptureIsInOrder
    BY Stages DEF Init, CaptureIsInOrder, PagePart
  <1> QED BY <1>2, <1>3 DEF IInv

LEMMA CallIInv ==
    ASSUME IInv, NEW c \in Capture, Call(c)
    PROVE  IInv'
  <1> USE DEF IInv
  <1>1. /\ pc[c] = "ready"
        /\ pc' = [pc EXCEPT ![c] = IF complete[c] THEN "screenshot" ELSE "rejected"]
        /\ began' = [began EXCEPT ![c] = clock]
        /\ UNCHANGED <<page, clock, past, complete, taken, evidence>>
    BY DEF Call
  <1>2. /\ pc' \in [Capture -> Part \cup Done \cup {"ready", "evidence"}]
        /\ began' \in [Capture -> 0..MaxTime]
        /\ pc'[c] = (IF complete[c] THEN "screenshot" ELSE "rejected")
        /\ began'[c] = clock /\ clock \in Nat
    BY <1>1, UiAssumption, Stages DEF TypeOK, Done
  <1>3. \A d \in Capture \ {c} : pc'[d] = pc[d] /\ began'[d] = began[d]
    BY <1>1 DEF TypeOK
  <1>4. DOMAIN taken[c] = {} /\ evidence[c] = {}
    BY <1>1, Stages DEF CaptureIsInOrder
  <1>5. CaptureOrder(c)'
    BY <1>1, <1>2, <1>4, Stages DEF CaptureOrder, PagePart
  <1> QED BY <1>1, <1>2, <1>3, <1>5, CaptureStep DEF TypeOK

LEMMA AnswerIInv ==
    ASSUME IInv, NEW c \in Capture, Answer(c)
    PROVE  IInv'
  <1> USE DEF IInv
  <1> DEFINE p == pc[c]
             shown == IF p = "alert" THEN Message ELSE page[p]
             a == [digest |-> shown, captured_at |-> clock]
             t == [q \in DOMAIN taken[c] \cup {p} |-> IF q = p THEN a ELSE taken[c][q]]
  <1>1. /\ p \in Part
        /\ taken' = [taken EXCEPT ![c] = t]
        /\ pc' = [pc EXCEPT ![c] = After[p]]
        /\ UNCHANGED <<page, clock, past, complete, began, evidence>>
    BY DEF Answer, NewArtifact
  <1>2. /\ pc' \in [Capture -> Part \cup Done \cup {"ready", "evidence"}]
        /\ pc'[c] = After[p] /\ \A d \in Capture \ {c} : pc'[d] = pc[d]
    BY <1>1, Stages DEF TypeOK
  <1>3. taken'[c] = t /\ \A d \in Capture \ {c} : taken'[d] = taken[d]
    BY <1>1 DEF TypeOK
  <1>4. a \in Artifact /\ a.captured_at = clock /\ a.digest = shown
    <2>1. p \in PagePart => page[p] \in Shown
      BY DEF TypeOK
    <2>2. p # "alert" => p \in PagePart
      BY <1>1 DEF Part
    <2> QED BY <2>1, <2>2 DEF Artifact, TypeOK
  <1>5. p \in PagePart => <<clock, p, shown>> \in past
    BY Stages DEF CaptureIsInOrder, ShownAt, PagePart
  <1> HIDE DEF a, shown
  <1>6. /\ DOMAIN t = DOMAIN taken[c] \cup {p} /\ t[p] = a
        /\ p \notin DOMAIN taken[c]
        /\ \A q \in DOMAIN taken[c] : t[q] = taken[c][q]
        /\ DOMAIN taken[c] = Awaited[p]
    <2>1. DOMAIN taken[c] = Awaited[p] /\ p \notin Awaited[p]
      BY <1>1, Stages DEF CaptureIsInOrder
    <2> QED BY <2>1
  <1>7. complete[c] /\ evidence[c] = {} /\ began[c] <= clock
    BY <1>1, Stages DEF CaptureIsInOrder
  <1> HIDE DEF t
  <1>8. DOMAIN t = Awaited[After[p]]
    BY <1>1, <1>6, Stages
  <1>9. taken' \in [Capture -> Artifacts]
    <2>1. DOMAIN taken[c] \subseteq Part /\ \A q \in DOMAIN taken[c] : taken[c][q] \in Artifact
      BY ArtifactsOf DEF TypeOK
    <2>2. DOMAIN t \subseteq Part /\ \A q \in DOMAIN t : t[q] \in Artifact
      BY <1>1, <1>4, <1>6, <2>1
    <2>3. t \in [DOMAIN t -> Artifact]
      BY <2>2 DEF t
    <2>4. t \in Artifacts
      BY <2>2, <2>3 DEF Artifacts
    <2> QED BY <1>1, <2>4 DEF TypeOK
  <1>10. \A q \in DOMAIN t :
            /\ began[c] <= t[q].captured_at
            /\ t[q].captured_at <= clock
            /\ q \in PagePart => <<t[q].captured_at, q, t[q].digest>> \in past
    <2>1. ASSUME NEW q \in DOMAIN taken[c]
          PROVE  /\ began[c] <= t[q].captured_at
                 /\ t[q].captured_at <= clock
                 /\ q \in PagePart => <<t[q].captured_at, q, t[q].digest>> \in past
      BY <1>6 DEF CaptureIsInOrder
    <2>2. clock <= clock
      BY UiAssumption DEF TypeOK
    <2> QED BY <1>4, <1>5, <1>6, <1>7, <2>1, <2>2
  <1>11. PagePart \subseteq DOMAIN t => t["screenshot"].captured_at <= t["dom"].captured_at
    <2>1. CASE p = "alert"
      <3>1. t["screenshot"] = taken[c]["screenshot"] /\ t["dom"] = taken[c]["dom"]
        BY <1>6, <2>1, Stages
      <3>2. PagePart \subseteq DOMAIN taken[c]
        BY <1>6, <2>1, Stages DEF PagePart
      <3> QED BY <3>1, <3>2 DEF CaptureIsInOrder
    <2>2. CASE p = "dom"
      <3>1. t["dom"] = a /\ "screenshot" \in DOMAIN t
        BY <1>6, <2>2, Stages
      <3> QED BY <1>4, <1>10, <3>1
    <2>3. CASE p = "screenshot"
      <3>1. "dom" \notin DOMAIN t
        BY <1>8, <2>3, Stages
      <3> QED BY <3>1 DEF PagePart
    <2> QED BY <1>1, <2>1, <2>2, <2>3, Stages
  <1>12. Part \subseteq DOMAIN t => t["dom"].captured_at <= t["alert"].captured_at
    <2>1. CASE p = "alert"
      <3>1. t["alert"] = a /\ "dom" \in DOMAIN t
        BY <1>6, <2>1, Stages
      <3> QED BY <1>4, <1>10, <3>1
    <2>2. CASE p # "alert"
      <3>1. "alert" \notin DOMAIN t
        BY <1>1, <1>8, <2>2, Stages
      <3> QED BY <3>1, Stages
    <2> QED BY <2>1, <2>2
  <1>13. CaptureOrder(c)'
    <2>1. After[p] \notin {"ready", "rejected", "returned"}
      BY <1>1, Stages
    <2> QED BY <1>1, <1>2, <1>3, <1>7, <1>8, <1>10, <1>11, <1>12, <2>1 DEF CaptureOrder
  <1>14. began' \in [Capture -> 0..MaxTime]
    BY <1>1 DEF TypeOK
  <1> QED BY <1>1, <1>2, <1>3, <1>9, <1>13, <1>14, CaptureStep DEF TypeOK

\* A seam that rejects, and the return of the evidence.
LEMMA SettleIInv ==
    ASSUME IInv, NEW c \in Capture, Reject(c) \/ Return(c)
    PROVE  IInv'
  <1> USE DEF IInv
  <1>1. UNCHANGED <<page, clock, past, complete, began, taken>>
    BY DEF Reject, Return
  <1>2. CASE Reject(c)
    <2>1. pc[c] \in Part /\ pc' = [pc EXCEPT ![c] = "rejected"] /\ evidence' = evidence
      BY <1>2 DEF Reject
    <2>2. /\ pc' \in [Capture -> Part \cup Done \cup {"ready", "evidence"}]
          /\ pc'[c] = "rejected" /\ \A d \in Capture \ {c} : pc'[d] = pc[d]
      BY <2>1 DEF TypeOK, Done
    <2>3. evidence[c] = {}
      BY <2>1, Stages DEF CaptureIsInOrder
    <2>4. CaptureOrder(c)'
      BY <1>1, <2>1, <2>2, <2>3 DEF CaptureOrder, CaptureIsInOrder
    <2> QED BY <1>1, <2>1, <2>2, <2>4, CaptureStep DEF TypeOK
  <1>3. CASE Return(c)
    <2>1. /\ pc[c] = "evidence" /\ pc' = [pc EXCEPT ![c] = "returned"]
          /\ evidence' = [evidence EXCEPT ![c] = {taken[c]}]
      BY <1>3 DEF Return
    <2>2. /\ pc' \in [Capture -> Part \cup Done \cup {"ready", "evidence"}]
          /\ pc'[c] = "returned" /\ \A d \in Capture \ {c} : pc'[d] = pc[d]
      BY <2>1 DEF TypeOK, Done
    <2>3. evidence' \in [Capture -> SUBSET Artifacts]
      BY <2>1 DEF TypeOK
    <2>4. /\ evidence'[c] = {taken[c]}
          /\ \A d \in Capture \ {c} : evidence'[d] = evidence[d]
      BY <2>1 DEF TypeOK
    <2>5. /\ DOMAIN taken[c] = Part /\ complete[c] /\ began[c] <= clock
          /\ Awaited["returned"] = Part
      BY <2>1, Stages DEF CaptureIsInOrder
    <2>6. CaptureOrder(c)'
      BY <1>1, <2>1, <2>2, <2>4, <2>5 DEF CaptureOrder, CaptureIsInOrder
    <2> QED BY <1>1, <2>2, <2>3, <2>4, <2>6, CaptureStep DEF TypeOK
  <1> QED BY <1>2, <1>3

\* The page changes, or time passes: what was shown stays in the history.
LEMMA WorldIInv ==
    ASSUME IInv, Tick \/ \E p \in PagePart, v \in Shown : Write(p, v)
    PROVE  IInv'
  <1> USE DEF IInv
  <1>1. /\ UNCHANGED <<pc, complete, began, taken, evidence>>
        /\ clock' \in 0..MaxTime /\ clock <= clock'
        /\ clock \in Nat /\ clock' \in Nat
        /\ page' \in [PagePart -> Shown]
        /\ past' = past \cup ShownAt(clock', page')
    BY UiAssumption DEF Tick, Write, TypeOK
  <1>2. ShownAt(clock', page') \subseteq (0..MaxTime) \X PagePart \X Shown
    BY <1>1 DEF ShownAt
  <1>3. TypeOK'
    BY <1>1, <1>2 DEF TypeOK
  <1>4. ASSUME NEW c \in Capture
        PROVE  CaptureOrder(c)'
    <2>1. began[c] \in Nat /\ \A p \in DOMAIN taken[c] : taken[c][p].captured_at \in Nat
      BY UiAssumption, ArtifactsOf DEF TypeOK, Artifact
    <2>2. began[c] <= clock /\ \A p \in DOMAIN taken[c] : taken[c][p].captured_at <= clock
      BY DEF CaptureIsInOrder
    <2>3. \A t \in Nat : t <= clock => t <= clock'
      BY <1>1
    <2>4. began[c] <= clock' /\ \A p \in DOMAIN taken[c] : taken[c][p].captured_at <= clock'
      BY <2>1, <2>2, <2>3
    <2> QED BY <1>1, <2>4 DEF CaptureOrder, CaptureIsInOrder
  <1>5. CaptureIsInOrder'
    <2>1. ShownAt(clock', page') \subseteq past'
      BY <1>1
    <2> QED BY <1>4, <2>1 DEF CaptureIsInOrder, CaptureOrder, ShownAt
  <1> QED BY <1>3, <1>5

LEMMA NextIInv == IInv /\ [Next]_vars => IInv'
  <1> SUFFICES ASSUME IInv, [Next]_vars PROVE IInv'
    OBVIOUS
  <1>1. CASE \E c \in Capture : Call(c) \/ Resume(c)
    BY <1>1, CallIInv, AnswerIInv, SettleIInv DEF Resume
  <1>2. CASE Tick \/ \E p \in PagePart, v \in Shown : Write(p, v)
    BY <1>2, WorldIInv
  <1>3. CASE UNCHANGED vars
    BY <1>3 DEF vars, IInv, TypeOK, CaptureIsInOrder, ShownAt
  <1> QED BY <1>1, <1>2, <1>3 DEF Next

-----------------------------------------------------------------------------
(* The theorems *)

\* Every variable keeps its type.
THEOREM TypeCorrect == Spec => []TypeOK
  <1>1. IInv => TypeOK
    BY DEF IInv
  <1> QED BY InitIInv, NextIInv, <1>1, PTL DEF Spec

\* A capture under way holds what it has awaited, in order (ui-sfe.ts:84-86).
THEOREM CapturesAreInOrder == Spec => []CaptureIsInOrder
  <1>1. IInv => CaptureIsInOrder
    BY DEF IInv
  <1> QED BY InitIInv, NextIInv, <1>1, PTL DEF Spec

\* Failure evidence is complete, of one call, in order, and of a page that was
\* there, for any number of captures over one seam (ui-sfe.ts:80-88).
THEOREM EvidenceIsHonest == Spec => []EvidenceIsOfItsCapture
  <1>1. IInv => EvidenceIsOfItsCapture
    <2> SUFFICES ASSUME IInv, NEW c \in Capture, NEW e \in evidence[c]
                 PROVE  /\ complete[c] /\ DOMAIN e = Part
                        /\ began[c] <= e["screenshot"].captured_at
                        /\ e["screenshot"].captured_at <= e["dom"].captured_at
                        /\ e["dom"].captured_at <= e["alert"].captured_at
                        /\ e["alert"].captured_at <= clock
                        /\ \A p \in PagePart :
                              <<e[p].captured_at, p, e[p].digest>> \in past
      BY DEF EvidenceIsOfItsCapture
    <2>1. e = taken[c] /\ pc[c] = "returned"
      BY DEF IInv, CaptureIsInOrder
    <2>2. DOMAIN e = Part /\ complete[c]
      BY <2>1, Stages DEF IInv, CaptureIsInOrder
    <2>3. PagePart \subseteq Part /\ {"screenshot", "dom", "alert"} = Part
      BY Stages DEF PagePart
    <2> QED BY <2>1, <2>2, <2>3 DEF IInv, CaptureIsInOrder
  <1> QED BY InitIInv, NextIInv, <1>1, PTL DEF Spec
=============================================================================
