--------------------------- MODULE MCLocalRunner ---------------------------
(* Finite instances of LocalRunner, with its history, for TLC. *)
EXTENDS LocalRunnerHistory, TLC

CONSTANTS s1, s2, s3, sha, sum, bad

\* s1 comes with a blank harness reference; s2 with a blank contract, and has an
\* effect with a malformed digest.
Plans == (s1 :> <<sha>>) @@ (s2 :> <<bad>>) @@ (s3 :> <<sha, sum>>)
Hvs == (s1 :> "") @@ (s2 :> "hv@v1") @@ (s3 :> Unset)
Contracts == (s1 :> "atomicity@v1") @@ (s2 :> "") @@ (s3 :> "atomicity@v1")

\* "run.e0001" fits every SDK, "run_1" TypeScript alone, "run.001" none.
Fit == <<"run", "e0001">>
FitTs == <<"run_1">>
Unfit == <<"run", "001">>
RunIds == {Fit, FitTs, Unfit}
HeadNames == {"bundle", "evidence", "run", "e0001"}
Names == HeadNames \cup {"run_1"}
Words == Names \cup {"001"}

Calls == [sdk: {"go"}, scenario: {s1, s2}, run_id: {Fit}]
         \cup [sdk: {"py"}, scenario: {s1}, run_id: {Fit, Unfit}]
         \cup [sdk: {"ts"}, scenario: {s1, s2}, run_id: {Fit}]
         \cup [sdk: {"ts"}, scenario: {s3}, run_id: {FitTs}]
=============================================================================
