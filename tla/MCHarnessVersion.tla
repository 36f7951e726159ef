-------------------------- MODULE MCHarnessVersion --------------------------
(* Finite instances of HarnessVersion for TLC. *)
EXTENDS HarnessVersion, TLC

Sound == [kind |-> "HarnessComponent", name |-> "n", digest |-> "sha"]
Other == [Sound EXCEPT !.kind = "other"]

\* Four components; one of them of another kind; one missing; a fifth role.
Four == [r \in Role |-> IF r \in Required THEN {Sound} ELSE {}]
Odd == [Four EXCEPT !["oracle"] = {Other}]
Three == [Four EXCEPT !["oracle"] = {}]
Five == [Four EXCEPT !["other"] = {Other}]

Sha == [name |-> "n", digest |-> "sha"]

LocksAll == {Four, Odd, Three, Five}
RefsOne == {Sha}
SeedsTwo == {Unset, ""}

Symmetry == Permutations(Harness)
=============================================================================
