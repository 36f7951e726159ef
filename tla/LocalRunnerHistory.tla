------------------------- MODULE LocalRunnerHistory -------------------------
(***************************************************************************)
(* LocalRunner with a history of what the runtime had recorded when each   *)
(* Execute was called.  Calls may share a run with earlier and concurrent  *)
(* ones, so a result could tell of an older state of it than its caller    *)
(* has already seen.  No action reads the history.                         *)
(***************************************************************************)
EXTENDS LocalRunner

VARIABLE since      \* [Call -> [Run -> effects the run had when the call was made]]

histVars == <<vars, since>>

\* How many effects the runtime has recorded of a run, started or not.
Recorded(r) == IF runs[r] = {} THEN 0 ELSE Len((CHOOSE x \in runs[r] : TRUE).effects)

HistInit ==
    /\ Init
    /\ since = [c \in Call |-> [r \in Run |-> 0]]

HistNext ==
    \/ \E c \in Call :
          /\ Invoke(c)
          /\ since' = [since EXCEPT ![c] = [r \in Run |-> Recorded(r)]]
    \/ /\ (\E c \in Call : Answer(c) \/ AdapterFails(c))
          \/ (\E r \in Run : Runtime(r)) \/ Quiet
       /\ UNCHANGED since

HistSpec == HistInit /\ [][HistNext]_histVars /\ Fairness
-----------------------------------------------------------------------------
(* Properties *)

\* How many effects the items of a bundle tell of: Go and TypeScript have an
\* item for each, after Go's trace; Python's second item is a digest of the count.
Told(sdk, items) ==
    CASE sdk = "go" -> Len(items) - 1
      [] sdk = "ts" -> Len(items)
      [] sdk = "py" -> CHOOSE n \in 0..MaxEffects : items[2].digest = HashOfCount(n)

\* Evidence is no older than the call that returns it: a result leaves out no
\* effect that its run had when Execute was called, also if the run is another
\* call's and has been fetched, returned and moved on since.
EvidenceIsFresh ==
    \A c \in Call : \A res \in result[c] :
        since[c][res.run_id] <= Told(call[c].sdk, res.content.items)

\* The same of a call under way, that no run forgets, and that a call not made
\* yet has no result: what makes it inductive.
HistInv ==
    /\ since \in [Call -> [Run -> Nat]]
    /\ \A c \in Call, r \in Run : since[c][r] <= Recorded(r)
    /\ \A c \in Call : pc[c] = "fetched" => since[c][TheRun(c)] <= Len(fetched[c])
    /\ \A c \in Call : pc[c] = "ready" => result[c] = {}
    /\ EvidenceIsFresh
=============================================================================
