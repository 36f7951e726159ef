----------------------------- MODULE UiCapture -----------------------------
(***************************************************************************)
(* UiRepairFailureEvidence.capture over a UICapture seam: screenshot, DOM  *)
(* and alert are awaited one after the other, while the page and the other *)
(* captures go on.  StaticUICapture keeps the object it was built from, so *)
(* what its owner writes later is what it captures.                        *)
(***************************************************************************)
EXTENDS Naturals

CONSTANTS
    Capture,    \* calls of capture, which may share one seam
    Shown,      \* what the screenshot or the DOM can show
    Message,    \* the text every capture passes to captureAlert
    MaxTime     \* bound on the clock

ASSUME UiAssumption == Message \notin Shown /\ MaxTime \in Nat

VARIABLES
    page,       \* what the object behind the seam shows now
    clock,      \* the wall clock, taken not to go back
    past,       \* history: <<time, part, what it showed>>
    pc,         \* where each capture is
    complete,   \* [Capture -> were a seam, an id and a trace slice ref given]
    began,      \* history: [Capture -> when it was called]
    taken,      \* [Capture -> the artifacts awaited so far]
    evidence    \* [Capture -> the failure evidence returned, at most one]

vars == <<page, clock, past, pc, complete, began, taken, evidence>>

PagePart == {"screenshot", "dom"}
Part == PagePart \cup {"alert"}
Done == {"returned", "rejected"}

\* A digest stands for what was hashed.
Artifact == [digest: Shown \cup {Message}, captured_at: 0..MaxTime]
Artifacts == UNION {[P -> Artifact] : P \in SUBSET Part}
\* Bug: the time is rounded up.
NewArtifactRounded(shown) == [digest |-> shown, captured_at |-> clock + 1]
NewArtifact(shown) == [digest |-> shown, captured_at |-> clock]

\* The part a capture awaits, and what comes after it.
After == [screenshot |-> "dom", dom |-> "alert", alert |-> "evidence"]

ShownAt(t, p) == {<<t, q, p[q]>> : q \in PagePart}

-----------------------------------------------------------------------------
Init ==
    /\ page \in [PagePart -> Shown]
    /\ clock = 0
    /\ past = ShownAt(0, page)
    /\ pc = [c \in Capture |-> "ready"]
    /\ complete \in [Capture -> BOOLEAN]
    /\ began = [c \in Capture |-> 0]
    /\ taken = [c \in Capture |-> <<>>]
    /\ evidence = [c \in Capture |-> {}]

\* Bug: a capture that lacks its seam, id or trace slice ref goes on.
CallUnchecked(c) ==
    /\ pc[c] = "ready"
    /\ pc' = [pc EXCEPT ![c] = "screenshot"]
    /\ began' = [began EXCEPT ![c] = clock]
    /\ UNCHANGED <<page, clock, past, complete, taken, evidence>>

\* The call: without a seam, an id or a trace slice ref it is rejected at once.
Call(c) ==
    /\ pc[c] = "ready"
    /\ pc' = [pc EXCEPT ![c] = IF complete[c] THEN "screenshot" ELSE "rejected"]
    /\ began' = [began EXCEPT ![c] = clock]
    /\ UNCHANGED <<page, clock, past, complete, taken, evidence>>

\* Bug: the seam answers a second screenshot or DOM with the first one it took.
AnswerCached(c) ==
    /\ pc[c] \in Part
    /\ LET before == {d \in Capture : pc[c] \in DOMAIN taken[d]}
           a == IF before # {} THEN taken[CHOOSE d \in before : TRUE][pc[c]]
                ELSE NewArtifact(IF pc[c] = "alert" THEN Message ELSE page[pc[c]])
       IN  taken' = [taken EXCEPT ![c] =
                [q \in DOMAIN @ \cup {pc[c]} |-> IF q = pc[c] THEN a ELSE @[q]]]
    /\ pc' = [pc EXCEPT ![c] = After[@]]
    /\ UNCHANGED <<page, clock, past, complete, began, evidence>>

\* The seam answers: a fresh artifact, whose digest and time are of this moment.
\* captureAlert hashes the message it is passed, not what the object shows.
Answer(c) ==
    /\ pc[c] \in Part
    /\ LET a == NewArtifact(IF pc[c] = "alert" THEN Message ELSE page[pc[c]])
       IN  taken' = [taken EXCEPT ![c] =
                [q \in DOMAIN @ \cup {pc[c]} |-> IF q = pc[c] THEN a ELSE @[q]]]
    /\ pc' = [pc EXCEPT ![c] = After[@]]
    /\ UNCHANGED <<page, clock, past, complete, began, evidence>>

\* Bug: a rejected artifact is asked for again.
RejectAndRetry(c) ==
    /\ pc[c] \in Part
    /\ taken' = [taken EXCEPT ![c] = <<>>]
    /\ pc' = [pc EXCEPT ![c] = "screenshot"]
    /\ UNCHANGED <<page, clock, past, complete, began, evidence>>

\* The seam rejects: so does the capture, whatever it has so far.
Reject(c) ==
    /\ pc[c] \in Part
    /\ pc' = [pc EXCEPT ![c] = "rejected"]
    /\ UNCHANGED <<page, clock, past, complete, began, taken, evidence>>

Return(c) ==
    /\ pc[c] = "evidence"
    /\ evidence' = [evidence EXCEPT ![c] = {taken[c]}]
    /\ pc' = [pc EXCEPT ![c] = "returned"]
    /\ UNCHANGED <<page, clock, past, complete, began, taken>>

\* The page, or the owner of the object, goes on; so does time.
Write(p, v) ==
    /\ page' = [page EXCEPT ![p] = v]
    /\ past' = past \cup ShownAt(clock, page')
    /\ UNCHANGED <<clock, pc, complete, began, taken, evidence>>

Tick ==
    /\ clock < MaxTime
    /\ clock' = clock + 1
    /\ past' = past \cup ShownAt(clock', page)
    /\ UNCHANGED <<page, pc, complete, began, taken, evidence>>

Resume(c) == Answer(c) \/ Reject(c) \/ Return(c)

Next ==
    \/ \E c \in Capture : Call(c) \/ Resume(c)
    \/ \E p \in PagePart, v \in Shown : Write(p, v)
    \/ Tick

\* The seam answers or rejects at last, and a resolved promise resumes its
\* capture; nobody has to call capture.
Fairness == \A c \in Capture : WF_vars(Resume(c))

Spec == Init /\ [][Next]_vars /\ Fairness
-----------------------------------------------------------------------------
(* Properties *)

\* Every variable keeps its type.
TypeOK ==
    /\ page \in [PagePart -> Shown]
    /\ clock \in 0..MaxTime
    /\ past \subseteq (0..MaxTime) \X PagePart \X Shown
    /\ pc \in [Capture -> Part \cup Done \cup {"ready", "evidence"}]
    /\ complete \in [Capture -> BOOLEAN]
    /\ began \in [Capture -> 0..MaxTime]
    /\ taken \in [Capture -> Artifacts]
    /\ evidence \in [Capture -> SUBSET Artifacts]

\* Failure evidence never vouches for a page that was not there: it is complete
\* and of one call, its artifacts were taken within that call and in order, and
\* each shows what the page showed at the time it names, though not all of them
\* need show the same page.
EvidenceIsOfItsCapture ==
    \A c \in Capture : \A e \in evidence[c] :
        /\ complete[c] /\ DOMAIN e = Part
        /\ began[c] <= e["screenshot"].captured_at
        /\ e["screenshot"].captured_at <= e["dom"].captured_at
        /\ e["dom"].captured_at <= e["alert"].captured_at
        /\ e["alert"].captured_at <= clock
        /\ \A p \in PagePart : <<e[p].captured_at, p, e[p].digest>> \in past

\* What was awaited before each point of a capture.
Awaited == [ready |-> {}, screenshot |-> {}, dom |-> {"screenshot"},
            alert |-> PagePart, evidence |-> Part, returned |-> Part]

\* The same of a capture under way: it has the artifacts of the seam calls before
\* the one it awaits, taken since it was called, in order, each of a page that was
\* there; and it has evidence only once it returned.
CaptureIsInOrder ==
    /\ ShownAt(clock, page) \subseteq past
    /\ \A c \in Capture :
          /\ pc[c] # "rejected" => DOMAIN taken[c] = Awaited[pc[c]]
          /\ pc[c] \notin {"ready", "rejected"} => complete[c]
          /\ evidence[c] # {} => pc[c] = "returned" /\ evidence[c] = {taken[c]}
          /\ began[c] <= clock
          /\ \A p \in DOMAIN taken[c] :
                /\ began[c] <= taken[c][p].captured_at
                /\ taken[c][p].captured_at <= clock
                /\ p \in PagePart =>
                      <<taken[c][p].captured_at, p, taken[c][p].digest>> \in past
          /\ PagePart \subseteq DOMAIN taken[c] =>
                taken[c]["screenshot"].captured_at <= taken[c]["dom"].captured_at
          /\ Part \subseteq DOMAIN taken[c] =>
                taken[c]["dom"].captured_at <= taken[c]["alert"].captured_at

\* A capture comes back, with evidence or an error, whatever the page does.
CaptureSettles == \A c \in Capture : pc[c] \in Part ~> pc[c] \in Done
=============================================================================
