----------------------------- MODULE MCGoVerify -----------------------------
(* Finite instances of GoVerify for TLC. *)
EXTENDS GoVerify

Sound == [kind |-> "trace", uri |-> "u", digest |-> "sha", note |-> Unset]
Lacking == [Sound EXCEPT !.kind = "missing", !.note = "n"]
OddKind == [Sound EXCEPT !.kind = "other"]
Newline == [Sound EXCEPT !.digest = "sha+nl"]

ScopeWith(key) == [k \in ScopeKey |-> IF k = key THEN "v" ELSE Unset]

\* Id and refs "h" meet the schema, "unfit" do not.  Two items, one with a note; an item that Go refuses; one that only Python
\* takes; an extra scope key; nothing at all.
Contents ==
    {[header |-> "h", scope |-> s, items |-> i, env |-> e] :
        s \in {EmptyScope, ScopeWith("intent_ref")},
        i \in {<<>>, <<Sound, Lacking>>}, e \in {Unset, "sha", "bad"}}
    \cup {[header |-> "h", scope |-> s, items |-> <<i>>, env |-> Unset] :
        s \in {EmptyScope, ScopeWith("team")}, i \in {Sound, OddKind, Newline}}

Wire(kind, digest, note) ==
    [kind |-> kind, uri |-> "u", digest |-> digest, note |-> note]
Items == {Wire("trace", "sha", {}), Wire("trace", "sha", {""}), Wire("other", "sha", {}),
          Wire("trace", "bad", {}), [Wire("trace", "sha", {}) EXCEPT !.uri = ""]}
Envs == {{}, {""}, {"sha"}, {"bad"}}
=============================================================================
