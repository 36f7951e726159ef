-------------------------- MODULE MCEvidenceBundle --------------------------
(* Finite instances of EvidenceBundle for TLC. *)
EXTENDS EvidenceBundle, TLC

\* A sound item, a missing one whose note is blank, one whose digest no SDK
\* takes, and one that only Python takes.
Sound == [kind |-> "trace", uri |-> "u", digest |-> "sha", note |-> Unset]
Lacking == [kind |-> "missing", uri |-> "u", digest |-> "sha", note |-> ""]
Malformed == [Sound EXCEPT !.digest = "bad"]
Newline == [Sound EXCEPT !.digest = "sha+nl"]

ItemsSmall == {Sound, Malformed}
ItemsMixed == {Lacking, Newline}
NoTamper == {}
TamperSmall == {Malformed}

Extra == [k \in ScopeKey |-> IF k = "team" THEN "v" ELSE Unset]
ScopesSmall == {EmptyScope, Extra}
NoScopes == {}
ScopesExtra == {Extra}

EnvNone == {Unset}
EnvTwo == {Unset, ""}

Symmetry == Permutations(Bundle)
=============================================================================
