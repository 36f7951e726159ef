----------------------------- MODULE Contracts -----------------------------
(***************************************************************************)
(* What the contracts modules of the three SDKs share: digest strings and  *)
(* who accepts them, and text that may be left out of a JSON object.  A    *)
(* key that is emitted only when it is set is a set of at most one value,  *)
(* so {} is "the key is absent".                                           *)
(***************************************************************************)
CONSTANTS
    DigestText,     \* digest strings a caller may hand over
    StrictDigest,   \* those that match ^sha256:[0-9a-f]{64}$ in full
    NewlineDigest,  \* those that match it but for one trailing newline
    Unset           \* undefined in TypeScript, None in Python

ASSUME ContractsAssumption ==
    /\ StrictDigest \subseteq DigestText
    /\ NewlineDigest \subseteq DigestText
    /\ StrictDigest \cap NewlineDigest = {}
    /\ {"", Unset} \cap DigestText = {}
    /\ Unset # ""

Sdk == {"go", "ts", "py"}

\* A Go string is never undefined; the optional fields of the other two are.
OptionalText(T) == T \cup {"", Unset}

\* A blank optional text and one never set say the same thing to a reader.
Plain(t) == IF t = Unset THEN "" ELSE t

\* How each SDK holds a text that the wire document leaves out.
Absent(sdk) == IF sdk = "go" THEN "" ELSE Unset

\* Python matches with re.match, whose $ also matches before a final newline.
ParsesDigest(sdk, d) ==
    \/ d \in StrictDigest
    \/ sdk = "py" /\ d \in NewlineDigest
=============================================================================
