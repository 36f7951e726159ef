--------------------------- MODULE SealedEvidence ---------------------------
(***************************************************************************)
(* What seal and verify promise of a set of bundles, without canonical     *)
(* bodies, digests, shared objects or SDKs: a bundle holds some evidence,  *)
(* a seal remembers the evidence it was put on, and verify says whether    *)
(* the two agree.  EvidenceBundle implements it.                           *)
(***************************************************************************)
CONSTANTS
    Bundle,         \* the bundles
    Evidence,       \* what a bundle can say
    Sealable,       \* evidence that may be sealed
    Sound           \* evidence that no reader refuses

VARIABLES
    evidence,   \* [Bundle -> what the bundle says now]
    seal,       \* [Bundle -> the sealed evidence, as a set of at most one]
    valid       \* [Bundle -> what verify answers]

vars == <<evidence, seal, valid>>

\* Verify accepts nothing but the sealed evidence, and that must have been
\* sealable; it may refuse sealed evidence only if that is unsound.
Promise ==
    \A b \in Bundle :
        /\ valid[b] => seal[b] = {evidence[b]} /\ evidence[b] \in Sealable
        /\ seal[b] = {evidence[b]} /\ evidence[b] \in Sound => valid[b]

Init ==
    /\ evidence \in [Bundle -> Evidence]
    /\ seal = [b \in Bundle |-> {}]
    /\ valid = [b \in Bundle |-> FALSE]

\* Sealing binds what the bundle says now and changes nothing else.
SealBundle(b) ==
    /\ evidence[b] \in Sealable
    /\ seal' = [seal EXCEPT ![b] = {evidence[b]}]
    /\ UNCHANGED evidence
    /\ valid' \in [Bundle -> BOOLEAN] /\ Promise'

\* Anything else may change what bundles say, never what was sealed.
Change ==
    /\ evidence' \in [Bundle -> Evidence]
    /\ UNCHANGED seal
    /\ valid' \in [Bundle -> BOOLEAN] /\ Promise'

Next == Change \/ \E b \in Bundle : SealBundle(b)

Spec == Init /\ [][Next]_vars
=============================================================================
