---------------------- MODULE LocalRunnerHistoryProofs ----------------------
(***************************************************************************)
(* Theorems about LocalRunnerHistory, for every value of its constants: no *)
(* result is older than its call, on top of LocalRunner's own invariant.   *)
(***************************************************************************)
EXTENDS LocalRunnerHistory, LocalRunnerProofs

-----------------------------------------------------------------------------
(* What the runtime had recorded, and what a bundle tells of it *)

\* There is one record of a run, and it is the one counted.
LEMMA RecordedIs ==
    ASSUME IInv, NEW r \in Run
    PROVE  Recorded(r) \in Nat /\ \A x \in runs[r] : Recorded(r) = Len(x.effects)
  <1>1. CASE runs[r] = {}
    BY <1>1 DEF Recorded
  <1>2. CASE runs[r] # {}
    <2> DEFINE y == CHOOSE x \in runs[r] : TRUE
    <2>1. y \in runs[r] /\ \A x \in runs[r] : x = y
      BY <1>2 DEF IInv, CallFollowsItsRun, RunsAreWellFormed
    <2>2. y.effects \in Seq(EffectDigest)
      BY <2>1 DEF IInv, TypeOK, RunRecord
    <2>3. Recorded(r) = Len(y.effects)
      BY <1>2 DEF Recorded
    <2> HIDE DEF y
    <2> QED BY <2>1, <2>2, <2>3
  <1> QED BY <1>1, <1>2

\* A run that only goes on has no fewer effects.
LEMMA RecordedGrows ==
    ASSUME IInv, IInv', Grows, NEW r \in Run
    PROVE  Recorded(r)' \in Nat /\ Recorded(r) <= Recorded(r)'
  <1>1. Recorded(r)' \in Nat /\ \A x \in runs'[r] : Recorded(r)' = Len(x.effects)
    <2>1. CASE runs'[r] = {}
      BY <2>1 DEF Recorded
    <2>2. CASE runs'[r] # {}
      <3> DEFINE y == CHOOSE x \in runs'[r] : TRUE
      <3>1. y \in runs'[r] /\ \A x \in runs'[r] : x = y
        BY <2>2 DEF IInv, CallFollowsItsRun, RunsAreWellFormed
      <3>2. y.effects \in Seq(EffectDigest)
        BY <3>1 DEF IInv, TypeOK, RunRecord
      <3>3. Recorded(r)' = Len(y.effects)
        BY <2>2 DEF Recorded
      <3> HIDE DEF y
      <3> QED BY <3>1, <3>2, <3>3
    <2> QED BY <2>1, <2>2
  <1>2. CASE runs[r] = {}
    <2>1. Recorded(r) = 0
      BY <1>2 DEF Recorded
    <2> QED BY <1>1, <2>1
  <1>3. CASE runs[r] # {}
    <2>1. PICK x \in runs[r] : TRUE
      BY <1>3
    <2>2. PICK y \in runs'[r] : Continues(y, x)
      BY DEF Grows
    <2>3. Recorded(r) = Len(x.effects) /\ Recorded(r)' = Len(y.effects)
      BY <1>1, <2>1, <2>2, RecordedIs
    <2> QED BY <1>1, <2>2, <2>3 DEF Continues
  <1> QED BY <1>2, <1>3

\* A runner's bundle tells of every effect that was fetched: in Python by number.
LEMMA ToldIsAll ==
    ASSUME NEW sdk \in Sdk, NEW r \in Run, NEW es \in Seq(EffectDigest),
           Len(es) <= MaxEffects
    PROVE  Told(sdk, BuiltItems(sdk, r, es)) = Len(es)
  <1> DEFINE trace == NewItem(sdk, "trace", "local://trace/exec.jsonl", HashOfRun(r))
             count == NewItem(sdk, "effect", "local://trace/effects.jsonl",
                              HashOfCount(Len(es)))
             each == [n \in DOMAIN es |->
                         NewItem(sdk, "effect", "action/resource", es[n])]
             items == BuiltItems(sdk, r, es)
  <1>1. DOMAIN es = 1..Len(es) /\ Len(es) \in Nat
    OBVIOUS
  <1> DEFINE Made == {NewItem(sdk, "effect", "action/resource", es[n]) : n \in DOMAIN es}
  <1>2. each \in Seq(Made) /\ Len(each) = Len(es)
    BY <1>1
  <1>3. CASE sdk = "go"
    <2>1. items = <<trace>> \o each
      BY <1>3 DEF BuiltItems
    <2>2. Told(sdk, items) = Len(items) - 1
      BY <1>3 DEF Told
    <2> HIDE DEF trace, each, items, Made
    <2>3. Len(items) = 1 + Len(es)
      BY <1>1, <1>2, <2>1
    <2> QED BY <1>1, <2>2, <2>3 DEF items
  <1>4. CASE sdk = "ts"
    <2>1. items = each
      BY <1>4 DEF BuiltItems
    <2>2. Told(sdk, items) = Len(items)
      BY <1>4 DEF Told
    <2> HIDE DEF each, items
    <2> QED BY <1>2, <2>1, <2>2 DEF items
  <1>5. CASE sdk = "py"
    <2>1. items = <<trace, count>>
      BY <1>5 DEF BuiltItems
    <2>2. count.digest = HashOfCount(Len(es))
      BY NewItemFields
    <2>3. Told(sdk, items)
            = CHOOSE n \in 0..MaxEffects : items[2].digest = HashOfCount(n)
      BY <1>5 DEF Told
    <2> HIDE DEF trace, count, items
    <2>4. items[2].digest = HashOfCount(Len(es))
      BY <2>1, <2>2
    <2>5. Len(es) \in 0..MaxEffects
      BY <1>1, RunnerAssumption
    <2>6. \A n, m \in 0..MaxEffects : HashOfCount(n) = HashOfCount(m) => n = m
      BY DEF HashOfCount
    <2>7. \A n \in 0..MaxEffects : items[2].digest = HashOfCount(n) => n = Len(es)
      BY <2>4, <2>5, <2>6
    <2> QED BY <2>3, <2>4, <2>5, <2>7 DEF items
  <1> QED BY <1>3, <1>4, <1>5 DEF Sdk

-----------------------------------------------------------------------------
(* What one step does to a call and its history *)

\* What c's result is made of when it returns.
Returns(c) ==
    /\ pc[c] = "fetched" /\ pc'[c] = "returned"
    /\ \A res \in result'[c] : res.run_id = TheRun(c) /\ res.content = Built(c)

\* A step leaves c alone, or is one step of it, in the order of Execute.
Moves(c) ==
    /\ call' = call
    /\ \/ since'[c] = since[c]
       \/ /\ pc[c] = "ready" /\ pc'[c] = "starting"
          /\ runs' = runs
          /\ since'[c] = [r \in Run |-> Recorded(r)]
    /\ pc'[c] = "fetched" =>
          \/ FetchEffects(c)
          \/ pc[c] = "fetched" /\ handle'[c] = handle[c] /\ fetched'[c] = fetched[c]
    /\ pc'[c] = "ready" => pc[c] = "ready"
    /\ result'[c] = result[c] \/ Returns(c)

LEMMA OthersMove ==
    ASSUME UNCHANGED <<pc, call, handle, fetched, result, since>>, NEW c \in Call
    PROVE  Moves(c)
  BY DEF Moves

LEMMA CallMoves ==
    ASSUME IInv, HistInv, NEW d \in Call, Answer(d) \/ AdapterFails(d),
           since' = since, NEW c \in Call
    PROVE  Moves(c)
  <1> USE DEF IInv, TypeOK
  <1>1. CASE c # d
    <2>1. /\ call' = call /\ pc'[c] = pc[c] /\ handle'[c] = handle[c]
          /\ fetched'[c] = fetched[c] /\ result'[c] = result[c]
      BY <1>1 DEF Answer, AdapterFails, StartRun, StartFails, FetchEffects,
                  StatusAndSeal, SealOnly, Finish, Goto
    <2> QED BY <2>1 DEF Moves
  <1>2. CASE c = d /\ AdapterFails(c)
    BY <1>2 DEF AdapterFails, Goto, Moves
  <1>3. CASE c = d /\ \E r \in Run : StartRun(c, r)
    BY <1>3 DEF StartRun, Goto, Moves
  <1>4. CASE c = d /\ StartFails(c)
    BY <1>4 DEF StartFails, Goto, Moves
  <1>5. CASE c = d /\ FetchEffects(c)
    <2>1. pc'[c] = "fetched" /\ call' = call /\ result' = result
      BY <1>5 DEF FetchEffects, Goto
    <2> QED BY <1>5, <2>1 DEF Moves
  <1>6. CASE c = d /\ (StatusAndSeal(c) \/ SealOnly(c))
    <2>1. PICK status : pc[c] = "fetched" /\ Finish(c, status)
      BY <1>6 DEF StatusAndSeal, SealOnly
    <2>2. CASE Buildable(call[c].sdk, Built(c))
      <3>1. PICK res : res = [run_id |-> TheRun(c), status |-> status,
                 content |-> Built(c), digest |-> Digest(call[c].sdk, Built(c))]
        OBVIOUS
      <3>2. /\ result' = [result EXCEPT ![c] = {res}] /\ Goto(c, "returned")
            /\ call' = call
        BY <2>1, <2>2, <3>1 DEF Finish
      <3>3. res.run_id = TheRun(c) /\ res.content = Built(c)
        BY <3>1
      <3>4. pc'[c] = "returned" /\ result'[c] = {res}
        BY <3>2 DEF Goto
      <3>5. Returns(c)
        BY <2>1, <3>3, <3>4 DEF Returns
      <3> QED BY <3>2, <3>4, <3>5 DEF Moves
    <2>3. CASE ~Buildable(call[c].sdk, Built(c))
      <3>1. Goto(c, "failed") /\ result' = result /\ call' = call
        BY <2>1, <2>3 DEF Finish
      <3> QED BY <3>1 DEF Goto, Moves
    <2> QED BY <2>2, <2>3
  <1> QED BY <1>1, <1>2, <1>3, <1>4, <1>5, <1>6 DEF Answer

LEMMA InvokeMoves ==
    ASSUME IInv, HistInv, NEW d \in Call, Invoke(d),
           since' = [since EXCEPT ![d] = [r \in Run |-> Recorded(r)]], NEW c \in Call
    PROVE  Moves(c)
  <1>1. /\ pc[d] = "ready" /\ pc' = [pc EXCEPT ![d] = "starting"]
        /\ UNCHANGED <<runs, call, handle, fetched, result>>
    BY DEF Invoke, Goto
  <1> DEFINE now == [r \in Run |-> Recorded(r)]
  <1> HIDE DEF now
  <1>2. since' = [since EXCEPT ![d] = now]
    BY DEF now
  <1>3. CASE c = d
    <2>1. pc'[c] = "starting" /\ since'[c] = now
      BY <1>1, <1>2, <1>3 DEF IInv, TypeOK, HistInv
    <2> QED BY <1>1, <1>3, <2>1 DEF Moves, now
  <1>4. CASE c # d
    <2>1. pc'[c] = pc[c] /\ since'[c] = since[c]
      BY <1>1, <1>2, <1>4 DEF IInv, TypeOK, HistInv
    <2> QED BY <1>1, <2>1 DEF Moves
  <1> QED BY <1>3, <1>4

\* Every step of the specification with its history is one of LocalRunner.
LEMMA HistNextIsNext ==
    ASSUME [HistNext]_histVars
    PROVE  [Next]_vars
  BY DEF HistNext, histVars, Next, Execute, vars

LEMMA EveryoneMoves ==
    ASSUME IInv, HistInv, [HistNext]_histVars, NEW c \in Call
    PROVE  Moves(c) /\ since' \in [Call -> [Run -> Nat]]
  <1>1. CASE \E d \in Call : Invoke(d)
                 /\ since' = [since EXCEPT ![d] = [r \in Run |-> Recorded(r)]]
    <2>1. PICK d \in Call : Invoke(d)
                 /\ since' = [since EXCEPT ![d] = [r \in Run |-> Recorded(r)]]
      BY <1>1
    <2> DEFINE now == [r \in Run |-> Recorded(r)]
    <2>2. now \in [Run -> Nat]
      BY RecordedIs
    <2> HIDE DEF now
    <2>3. since' = [since EXCEPT ![d] = now]
      BY <2>1 DEF now
    <2>4. since' \in [Call -> [Run -> Nat]]
      BY <2>2, <2>3 DEF HistInv
    <2> QED BY <2>1, <2>4, InvokeMoves
  <1>2. CASE (\E d \in Call : Answer(d) \/ AdapterFails(d)) /\ since' = since
    BY <1>2, CallMoves DEF HistInv
  <1>3. CASE ((\E r \in Run : Runtime(r)) \/ UNCHANGED vars) /\ since' = since
    <2>1. UNCHANGED <<pc, call, handle, fetched, result, since>>
      BY <1>3 DEF Runtime, Begin, Interrupt, End, Emit, SetStatus, vars
    <2> QED BY <2>1, OthersMove DEF HistInv
  <1> QED BY <1>1, <1>2, <1>3 DEF HistNext, histVars, Quiet

\* Runs only go on, whoever takes the step.
LEMMA NextGrows ==
    ASSUME IInv, [Next]_vars
    PROVE  Grows
  <1>1. CASE \E r \in Run : Runtime(r)
    BY <1>1, RuntimeGrows DEF IInv, CallFollowsItsRun
  <1>2. CASE \E c \in Call, r \in Run : Starts(c, r)
    BY <1>2, StartsGrow DEF IInv, CallFollowsItsRun
  <1>3. CASE UNCHANGED runs
    BY <1>3, RunsKept DEF IInv, CallFollowsItsRun
  <1> QED BY <1>1, <1>2, <1>3 DEF Next, Execute, Answer, Invoke, AdapterFails, StartRun,
             StartFails, FetchEffects, StatusAndSeal, SealOnly, Finish, Quiet, vars

-----------------------------------------------------------------------------
(* The invariant *)

LEMMA HistInitInv == HistInit => IInv /\ HistInv
  <1> SUFFICES ASSUME HistInit PROVE IInv /\ HistInv
    OBVIOUS
  <1>1. IInv
    BY InitIInv DEF HistInit
  <1>2. \A c \in Call : result[c] = {} /\ pc[c] = "ready"
    BY DEF HistInit, Init
  <1>3. \A r \in Run : Recorded(r) = 0
    BY DEF HistInit, Init, Recorded
  <1>4. /\ since \in [Call -> [Run -> Nat]]
        /\ \A c \in Call, r \in Run : since[c][r] = 0
    BY DEF HistInit
  <1> QED BY <1>1, <1>2, <1>3, <1>4 DEF HistInv, EvidenceIsFresh

\* A result made now is as fresh as what was fetched.
LEMMA ReturnsFresh ==
    ASSUME IInv, HistInv, NEW c \in Call, Returns(c), NEW res \in result'[c]
    PROVE  /\ res.run_id \in Run
           /\ since[c][res.run_id] <= Told(call[c].sdk, res.content.items)
  <1> DEFINE r == TheRun(c)
             es == fetched[c]
  <1>1. /\ pc[c] = "fetched" /\ res.run_id = r /\ res.content = Built(c)
    BY DEF Returns
  <1>2. /\ r \in Run /\ RunOf(c) \in runs[r] /\ RunOf(c) \in RunRecord
        /\ Continues(RunOf(c), [RunOf(c) EXCEPT !.effects = es])
    BY <1>1, HeldRun
  <1>3. es \in Seq(EffectDigest) /\ call[c] \in CallInput
    BY DEF IInv, TypeOK
  <1>4. Len(es) <= MaxEffects
    <2>1. Len(es) <= Len(RunOf(c).effects)
      BY <1>2 DEF Continues, RunRecord
    <2>2. Len(RunOf(c).effects) <= MaxEffects
      BY <1>2 DEF IInv, CallFollowsItsRun, RunsAreWellFormed
    <2>3. Len(es) \in Nat /\ Len(RunOf(c).effects) \in Nat /\ MaxEffects \in Nat
      BY <1>2, <1>3, RunnerAssumption DEF RunRecord
    <2> QED BY <2>1, <2>2, <2>3
  <1>5. Ready(c)
    BY <1>2, <1>3, <1>4 DEF Ready
  <1>6. res.content.items = BuiltItems(call[c].sdk, r, es)
    BY <1>1, <1>5, BuiltFields
  <1>7. call[c].sdk \in Sdk
    BY <1>3, CallInputType
  <1>8. Told(call[c].sdk, BuiltItems(call[c].sdk, r, es)) = Len(es)
    BY <1>2, <1>3, <1>4, <1>7, ToldIsAll
  <1>9. since[c][r] <= Len(es)
    BY <1>1 DEF HistInv
  <1> HIDE DEF r, es
  <1> QED BY <1>1, <1>2, <1>6, <1>8, <1>9

LEMMA HistNextInv ==
    ASSUME IInv, HistInv, [HistNext]_histVars
    PROVE  IInv' /\ HistInv'
  <1>1. IInv' /\ Grows
    BY HistNextIsNext, NextIInv, NextGrows
  <1>2. \A c \in Call : Moves(c)
    BY EveryoneMoves
  <1>3. since' \in [Call -> [Run -> Nat]]
    <2>1. CASE Call = {}
      <3>1. since' = since
        BY <2>1 DEF HistNext, histVars
      <3> QED BY <3>1 DEF HistInv
    <2>2. CASE Call # {}
      BY <2>2, EveryoneMoves
    <2> QED BY <2>1, <2>2
  <1>4. ASSUME NEW c \in Call, NEW r \in Run
        PROVE  since'[c][r] <= Recorded(r)'
    <2>1. Recorded(r) \in Nat /\ Recorded(r) <= Recorded(r)' /\ since[c][r] <= Recorded(r)
      BY <1>1, RecordedIs, RecordedGrows DEF HistInv
    <2>2. since[c][r] \in Nat /\ since'[c][r] \in Nat
      BY <1>3 DEF HistInv
    <2>3. Recorded(r)' \in Nat
      BY <1>1, RecordedGrows
    <2>4. since'[c][r] = since[c][r] \/ since'[c][r] = Recorded(r)
      BY <1>2 DEF Moves
    <2> QED BY <2>1, <2>2, <2>3, <2>4
  <1>5. ASSUME NEW c \in Call, pc'[c] = "fetched"
        PROVE  since'[c][TheRun(c)'] <= Len(fetched'[c])
    <2>1. since'[c] = since[c]
      <3>1. "starting" # "fetched"
        OBVIOUS
      <3> QED BY <1>2, <1>5, <3>1 DEF Moves
    <2>2. CASE FetchEffects(c)
      <3>1. /\ pc[c] = "started" /\ handle' = handle
            /\ fetched' = [fetched EXCEPT ![c] = RunOf(c).effects]
        BY <2>2 DEF FetchEffects
      <3>2. TheRun(c) \in Run /\ RunOf(c) \in runs[TheRun(c)]
        BY <3>1, HeldRun
      <3>3. TheRun(c)' = TheRun(c)
        BY <3>1 DEF TheRun
      <3>4. fetched'[c] = RunOf(c).effects
        BY <3>1 DEF IInv, TypeOK
      <3>5. Recorded(TheRun(c)) = Len(fetched'[c])
        BY <3>2, <3>4, RecordedIs
      <3>6. since[c][TheRun(c)] <= Recorded(TheRun(c))
        BY <3>2 DEF HistInv
      <3> QED BY <2>1, <3>3, <3>5, <3>6
    <2>3. CASE pc[c] = "fetched" /\ handle'[c] = handle[c] /\ fetched'[c] = fetched[c]
      <3>1. TheRun(c)' = TheRun(c)
        BY <2>3 DEF TheRun
      <3> QED BY <2>1, <2>3, <3>1 DEF HistInv
    <2> QED BY <1>2, <1>5, <2>2, <2>3 DEF Moves
  <1>6. ASSUME NEW c \in Call, pc'[c] = "ready" PROVE result'[c] = {}
    BY <1>2, <1>6 DEF Moves, Returns, HistInv
  <1>7. ASSUME NEW c \in Call, NEW res \in result'[c]
        PROVE  since'[c][res.run_id] <= Told(call'[c].sdk, res.content.items)
    <2>1. CASE Returns(c)
      <3>1. since'[c] = since[c] /\ call' = call
        BY <1>2, <2>1 DEF Moves, Returns
      <3>2. since[c][res.run_id] <= Told(call[c].sdk, res.content.items)
        BY <2>1, ReturnsFresh
      <3> QED BY <3>1, <3>2
    <2>2. CASE result'[c] = result[c]
      <3>1. since'[c] = since[c] /\ call' = call
        BY <1>2, <2>2 DEF Moves, HistInv
      <3>2. since[c][res.run_id] <= Told(call[c].sdk, res.content.items)
        BY <2>2 DEF HistInv, EvidenceIsFresh
      <3> QED BY <3>1, <3>2
    <2> QED BY <1>2, <2>1, <2>2 DEF Moves
  <1>8. EvidenceIsFresh'
    BY <1>7 DEF EvidenceIsFresh
  <1> QED BY <1>1, <1>3, <1>4, <1>5, <1>6, <1>8 DEF HistInv

-----------------------------------------------------------------------------
(* The theorems *)

\* The history only watches: with it LocalRunner takes its own steps and no other,
\* so what is proved of LocalRunner holds here too.
THEOREM HistoryOnlyWatches == HistSpec => Spec
  <1>1. HistInit => Init
    BY DEF HistInit
  <1>2. [HistNext]_histVars => [Next]_vars
    BY HistNextIsNext
  <1> QED BY <1>1, <1>2, PTL DEF HistSpec, Spec

\* In every reachable state the history is what the invariant says of it: no call
\* knows of more than the runtime had, or has fetched less (harness.go:258-274).
THEOREM HistoryInvariant == HistSpec => []HistInv
  <1>1. HistInit => IInv /\ HistInv
    BY HistInitInv
  <1>2. (IInv /\ HistInv) /\ [HistNext]_histVars => (IInv /\ HistInv)'
    BY HistNextInv
  <1> QED BY <1>1, <1>2, PTL DEF HistSpec

\* No result leaves out an effect that its run had when Execute was called, for
\* any number of calls that share runs, in any SDKs (harness.go:267-284).
THEOREM ResultsAreFresh == HistSpec => []EvidenceIsFresh
  <1>1. HistInv => EvidenceIsFresh
    BY DEF HistInv
  <1> QED BY <1>1, HistoryInvariant, PTL
=============================================================================
