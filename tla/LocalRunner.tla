---------------------------- MODULE LocalRunner ----------------------------
(***************************************************************************)
(* Execute of the three LocalRunners over a RuntimeAdapter.  Calls run     *)
(* concurrently (goroutines, pending promises, threads); between two       *)
(* adapter calls of one Execute the runtime and the other calls go on.     *)
(* The runtime is outside the repository: it may hand out one run for two  *)
(* equal requests (as the Go test stub does), lose its answer after        *)
(* starting a run, refuse, interrupt, and finish at any time or never.     *)
(***************************************************************************)
EXTENDS Naturals, Sequences

CONSTANTS
    Call,           \* concurrent calls of Execute
    Run,            \* run refs the runtime can hand out; "" is a blank one
    Scenario,       \* scenarios; id, seed and SUT go with them
    HvOf,           \* [Scenario -> harness_version_ref as the caller set it]
    ContractOf,     \* [Scenario -> verification_contract_ref, which may be ""]
    Word,           \* what may stand between two dots of a run id
    RunId,          \* run ids, as the words between their dots
    Name,           \* words that match [a-z][a-z0-9_]*
    HeadName,       \* words that match [a-z][a-z0-9]*
    Plan,           \* [Scenario -> args digests of the effects it will have]
    MaxEffects,     \* bound on the length of a plan
    Outcome,        \* terminal statuses the runtime reports
    CallInput,      \* the calls that may be made: SDK, scenario and run id
    EffectDigest,   \* args digests of effects
    GoodDigest,     \* those that are well-formed
    Unset           \* undefined, or a key that is absent

\* A digest the runner computes stands for the value it was computed from.
HashOfRun(r) == <<"run_ref", r>>
HashOfCount(n) == <<"effects", n>>
Computed == {HashOfRun(r) : r \in Run} \cup {HashOfCount(n) : n \in 0..MaxEffects}

\* The id of a bundle: run id and "evidence", or "bundle" and run id.
BundleId(sdk, runId) ==
    IF sdk = "ts" THEN <<"bundle">> \o runId ELSE Append(runId, "evidence")

HvText == {"", "local@v1", "hv@v1"}
BundleHeader == [id: {BundleId(k.sdk, k.run_id) : k \in CallInput}, run_ref: Run,
                 contract: {ContractOf[s] : s \in Scenario}, hv: HvText]

\* ^[a-z][a-z0-9]*(\.[a-z][a-z0-9_]*)+$, and minLength 1 of three refs.
MatchesPattern(id) ==
    /\ Len(id) > 1
    /\ id[1] \in HeadName
    /\ \A n \in 2..Len(id) : id[n] \in Name
ConformingHeader ==
    {h \in BundleHeader : MatchesPattern(h.id) /\ "" \notin {h.run_ref, h.contract, h.hv}}

INSTANCE EvidenceCore WITH
    Header <- BundleHeader,
    SchemaHeader <- ConformingHeader,
    ScopeKey <- {"intent_ref", "capability_ref"},
    ScopeText <- Scenario,
    DigestText <- EffectDigest \cup Computed,
    StrictDigest <- GoodDigest \cup Computed,
    NewlineDigest <- {},
    Uri <- {"local://trace/exec.jsonl", "local://trace/effects.jsonl",
            "action/resource"},
    NoteText <- {}

Request == [scenario: Scenario, hv: HvText]
Terminal == {"passed", "failed", "inconclusive"}
Status == {"pending", "running", "interrupted"} \cup Terminal
Done == {"returned", "failed"}

ASSUME RunnerAssumption ==
    /\ MaxEffects \in Nat
    /\ Unset \notin HvText
    /\ Plan \in [Scenario -> UNION {[1..n -> EffectDigest] : n \in 0..MaxEffects}]
    /\ HvOf \in [Scenario -> HvText \cup {Unset}]
    /\ RunId \subseteq Seq(Word) \ {<<>>}
    /\ HeadName \subseteq Name /\ Name \subseteq Word
    /\ {"bundle", "evidence"} \subseteq HeadName
    /\ Outcome \subseteq Terminal
    /\ CallInput \subseteq [sdk: Sdk, scenario: Scenario, run_id: RunId]
    /\ GoodDigest \subseteq EffectDigest

VARIABLES
    runs,       \* the runtime: [Run -> set of at most one record of that run]
    pc,         \* where each call is
    call,       \* [Call -> the SDK, scenario and run id it was made with]
    handle,     \* [Call -> set of at most one run ref: StartRun's answer]
    fetched,    \* [Call -> FetchEffects' answer]
    result      \* [Call -> set of at most one result]

vars == <<runs, pc, call, handle, fetched, result>>

RunRecord == [req: Request, status: Status, effects: Seq(EffectDigest)]
Result == [run_id: Run, status: Status \cup {Unset}, content: Content,
           digest: SUBSET BodyDoc]

\* Bug: "" is taken for a reference, in every SDK.
HvRefUnsetOnly(sdk, s) == IF HvOf[s] = Unset THEN "local@v1" ELSE HvOf[s]

\* TypeScript's ?? replaces undefined only; Go and Python replace "" as well.
HvRef(sdk, s) ==
    IF HvOf[s] = Unset \/ (HvOf[s] = "" /\ sdk # "ts")
    THEN "local@v1" ELSE HvOf[s]

RequestOf(c) == [scenario |-> call[c].scenario,
                 hv |-> HvRef(call[c].sdk, call[c].scenario)]

\* The record of the run a call has a handle for.
TheRun(c) == CHOOSE r \in Run : r \in handle[c]
RunOf(c) == CHOOSE x \in runs[TheRun(c)] : TRUE

-----------------------------------------------------------------------------
(* The bundle a call builds *)

NewItem(sdk, kind, uri, digest) ==
    [kind |-> kind, uri |-> uri, digest |-> digest, note |-> Absent(sdk)]

BuiltItems(sdk, r, effects) ==
    LET trace == NewItem(sdk, "trace", "local://trace/exec.jsonl", HashOfRun(r))
        count == NewItem(sdk, "effect", "local://trace/effects.jsonl",
                         HashOfCount(Len(effects)))
        each == [n \in DOMAIN effects |->
                    NewItem(sdk, "effect", "action/resource", effects[n])]
    IN  CASE sdk = "go" -> <<trace>> \o each
          [] sdk = "ts" -> each
          [] sdk = "py" -> <<trace, count>>

BuiltScope(sdk, s) ==
    [k \in {"intent_ref", "capability_ref"} |-> IF sdk = "ts" THEN Unset ELSE s]

Built(c) ==
    LET sdk == call[c].sdk
        s == call[c].scenario
    IN  [header |-> [id |-> BundleId(sdk, call[c].run_id), run_ref |-> TheRun(c),
                     contract |-> ContractOf[s], hv |-> HvRef(sdk, s)],
         scope |-> BuiltScope(sdk, s),
         items |-> BuiltItems(sdk, TheRun(c), fetched[c]),
         env |-> Absent(sdk)]

\* No AddItem fails, and Seal does not.
Buildable(sdk, b) ==
    /\ \A n \in DOMAIN b.items : AcceptsItem(sdk, b.items[n])
    /\ CanSeal(b)

-----------------------------------------------------------------------------
Init ==
    /\ runs = [r \in Run |-> {}]
    /\ pc = [c \in Call |-> "ready"]
    /\ call \in [Call -> CallInput]
    /\ handle = [c \in Call |-> {}]
    /\ fetched = [c \in Call |-> <<>>]
    /\ result = [c \in Call |-> {}]

Goto(c, l) == pc' = [pc EXCEPT ![c] = l]

\* The caller calls Execute.
Invoke(c) ==
    /\ pc[c] = "ready"
    /\ Goto(c, "starting")
    /\ UNCHANGED <<runs, call, handle, fetched, result>>

\* The runtime starts r for c's request: a run of its own, or one it has.
Starts(c, r) ==
    /\ \A x \in runs[r] : x.req = RequestOf(c)
    /\ runs' = IF runs[r] # {} THEN runs
               ELSE [runs EXCEPT ![r] = {[req |-> RequestOf(c),
                        status |-> "pending", effects |-> <<>>]}]

\* Bug: the handle is a field of the runner, which every call that starts writes.
StartRunForAll(c, r) ==
    /\ pc[c] = "starting"
    /\ Starts(c, r)
    /\ handle' = [d \in Call |-> {r}]
    /\ Goto(c, "started")
    /\ UNCHANGED <<call, fetched, result>>

\* StartRun answers with a handle.
StartRun(c, r) ==
    /\ pc[c] = "starting"
    /\ Starts(c, r)
    /\ handle' = [handle EXCEPT ![c] = {r}]
    /\ Goto(c, "started")
    /\ UNCHANGED <<call, fetched, result>>

\* StartRun errs, though the runtime may have started a run; Execute returns
\* the error and calls nothing else.
StartFails(c) ==
    /\ pc[c] = "starting"
    /\ UNCHANGED runs \/ \E r \in Run : Starts(c, r)
    /\ Goto(c, "failed")
    /\ UNCHANGED <<call, handle, fetched, result>>

\* A later adapter call errs: Execute returns the error, the run is not
\* cancelled.  TypeScript and Python never ask for the status.
AdapterFails(c) ==
    /\ pc[c] = "started" \/ (pc[c] = "fetched" /\ call[c].sdk = "go")
    /\ Goto(c, "failed")
    /\ UNCHANGED <<runs, call, handle, fetched, result>>

\* Bug: the effects are a field of the runner, which every call writes.
FetchEffectsShared(c) ==
    /\ pc[c] = "started"
    /\ fetched' = [d \in Call |-> RunOf(c).effects]
    /\ Goto(c, "fetched")
    /\ UNCHANGED <<runs, call, handle, result>>

\* Bug: the runner keeps the effects of a run it has fetched once.
FetchEffectsCached(c) ==
    /\ pc[c] = "started"
    /\ LET known == {d \in Call : pc[d] \in {"fetched", "returned"} /\ handle[d] = handle[c]}
       IN  fetched' = [fetched EXCEPT ![c] =
                         IF known = {} THEN RunOf(c).effects
                         ELSE fetched[CHOOSE d \in known : TRUE]]
    /\ Goto(c, "fetched")
    /\ UNCHANGED <<runs, call, handle, result>>

\* FetchEffects answers with the effects recorded so far; it does not wait.
FetchEffects(c) ==
    /\ pc[c] = "started"
    /\ fetched' = [fetched EXCEPT ![c] = RunOf(c).effects]
    /\ Goto(c, "fetched")
    /\ UNCHANGED <<runs, call, handle, result>>

Finish(c, status) ==
    /\ \E b \in {Built(c)} :
          IF Buildable(call[c].sdk, b)
          THEN /\ Goto(c, "returned")
               /\ result' = [result EXCEPT ![c] =
                    {[run_id |-> TheRun(c), status |-> status, content |-> b,
                      digest |-> Digest(call[c].sdk, b)]}]
          ELSE Goto(c, "failed") /\ UNCHANGED result
    /\ UNCHANGED <<runs, call, handle, fetched>>

\* Bugs: Execute waits for the run to end; the status is what a new run has.
StatusAndSealWaits(c) ==
    /\ pc[c] = "fetched" /\ call[c].sdk = "go"
    /\ RunOf(c).status \in Terminal
    /\ Finish(c, RunOf(c).status)
StatusAndSealStale(c) ==
    /\ pc[c] = "fetched" /\ call[c].sdk = "go"
    /\ Finish(c, "pending")

\* Go: Status answers; the rest of Execute touches only the new bundle.
StatusAndSeal(c) ==
    /\ pc[c] = "fetched" /\ call[c].sdk = "go"
    /\ Finish(c, RunOf(c).status)

\* TypeScript has no status, Python's is the literal "passed".
SealOnly(c) ==
    /\ pc[c] = "fetched" /\ call[c].sdk # "go"
    /\ Finish(c, IF call[c].sdk = "py" THEN "passed" ELSE Unset)

-----------------------------------------------------------------------------
(* The runtime *)

SetStatus(r, from, to) ==
    /\ \E x \in runs[r] :
          /\ x.status \in from
          /\ runs' = [runs EXCEPT ![r] = {[x EXCEPT !.status = to]}]
    /\ UNCHANGED <<pc, call, handle, fetched, result>>

Begin(r) == SetStatus(r, {"pending", "interrupted"}, "running")
Interrupt(r) == SetStatus(r, {"running"}, "interrupted")
End(r, s) == SetStatus(r, {"running"}, s)

Emit(r) ==
    /\ \E x \in runs[r] :
          /\ x.status = "running"
          /\ Len(x.effects) < Len(Plan[x.req.scenario])
          /\ runs' = [runs EXCEPT ![r] = {[x EXCEPT !.effects =
                        Append(@, Plan[x.req.scenario][Len(@) + 1])]}]
    /\ UNCHANGED <<pc, call, handle, fetched, result>>

\* The steps a pending Execute takes when the adapter answers.
Answer(c) ==
    \/ \E r \in Run : StartRun(c, r)
    \/ StartFails(c)
    \/ FetchEffects(c) \/ StatusAndSeal(c) \/ SealOnly(c)

Execute(c) == Invoke(c) \/ Answer(c) \/ AdapterFails(c)

Runtime(r) == Begin(r) \/ Interrupt(r) \/ Emit(r) \/ \E s \in Outcome : End(r, s)

\* Every call is over; the program may stop.
Quiet ==
    /\ \A c \in Call : pc[c] \in Done
    /\ UNCHANGED vars

Next == (\E c \in Call : Execute(c)) \/ (\E r \in Run : Runtime(r)) \/ Quiet

\* Every adapter call is answered at last (an error is an answer, but is never
\* owed); no call need be made and no run need ever begin or end.
Fairness == \A c \in Call : WF_vars(Answer(c))

Spec == Init /\ [][Next]_vars /\ Fairness
-----------------------------------------------------------------------------
(* Properties *)

\* Every variable keeps its type.
TypeOK ==
    /\ runs \in [Run -> SUBSET RunRecord]
    /\ pc \in [Call -> {"ready", "starting", "started", "fetched"} \cup Done]
    /\ call \in [Call -> CallInput]
    /\ handle \in [Call -> SUBSET Run]
    /\ fetched \in [Call -> Seq(EffectDigest)]
    /\ result \in [Call -> SUBSET Result]

\* A result tells of the run x: its refs and its scope are those of the request,
\* and after the items about the run itself (its reference, how many effects it
\* had) come the first effects of that run, in order.
TellsOf(res, x) ==
    LET h == res.content.header
        items == res.content.items
        scope == res.content.scope
    IN  /\ h.run_ref = res.run_id
        /\ h.hv = x.req.hv
        /\ h.contract = ContractOf[x.req.scenario]
        /\ \A k \in ScopeKeysOf(scope) : scope[k] = x.req.scenario
        /\ \E k \in 0..Len(items) :
              /\ \A n \in 1..k : items[n].digest \in
                    {HashOfRun(res.run_id)}
                      \cup {HashOfCount(m) : m \in 0..Len(x.effects)}
              /\ Len(items) - k <= Len(x.effects)
              /\ \A n \in 1..(Len(items) - k) :
                    items[k + n].digest = x.effects[n]

\* What Execute returns is of the scenario it was called with and tells of the
\* run it names, however calls and runs interleave (harness.go:253-295).
ResultIsOfItsRun ==
    \A c \in Call : \A res \in result[c] :
        \E x \in runs[res.run_id] : x.req = RequestOf(c) /\ TellsOf(res, x)

\* "evidence sealed in any SDK verifies in the others": a result is never
\* returned with a bundle that one of the three verify methods refuses.
ResultVerifiesInEverySdk ==
    \A c \in Call, sdk \in Sdk : \A res \in result[c] :
        VerifyOk(sdk, ReadInto(sdk, res.content), res.digest)

\* Go reads the status after the effects, so the status is never older than the
\* evidence: a run reported pending has no effect in its bundle.
StatusNotOlderThanEvidence ==
    \A c \in Call : call[c].sdk = "go" =>
        \A res \in result[c] :
            res.status = "pending" =>
                \A n \in DOMAIN res.content.items :
                    res.content.items[n].kind # "effect"

\* What a caller has to pass: a run id that makes an id of the schema's pattern
\* ("run.001", of Python's README, does not), a contract, and to TypeScript no
\* blank harness reference.
FitRunId(sdk, runId) ==
    /\ sdk # "ts" => runId[1] \in HeadName
    /\ \A n \in DOMAIN runId : runId[n] \in Name
FitCall(k) ==
    /\ FitRunId(k.sdk, k.run_id)
    /\ ContractOf[k.scenario] # ""
    /\ k.sdk = "ts" => HvOf[k.scenario] # ""

\* No runner checks what it is given, nor the header of the bundle it builds: a
\* returned bundle meets the published schema if the caller's arguments and the
\* run ref the runtime chose are fit, and never else.  Whatever came of the run,
\* no effects or a malformed digest, it is not what breaks the schema.
ResultIsSchemaValid ==
    \A c \in Call : \A res \in result[c] :
        SchemaValid(res.content, res.digest) <=> FitCall(call[c]) /\ res.run_id # ""

\* The runtime has one record of a run, with no effects before it begins and no
\* more than were planned.
RunsAreWellFormed ==
    \A r \in Run : \A x \in runs[r] :
        /\ \A y \in runs[r] : x = y
        /\ Len(x.effects) <= MaxEffects
        /\ x.status = "pending" => x.effects = <<>>

\* y is x some time later, or x itself.
Continues(y, x) ==
    /\ y.req = x.req
    /\ Len(x.effects) <= Len(y.effects)
    /\ \A n \in 1..Len(x.effects) : y.effects[n] = x.effects[n]

\* A call under way has a handle of a run for its own request, and what it
\* fetched is how that run's effects began.
FollowsItsRun(c) ==
    pc[c] \in {"started", "fetched"} =>
        \E r \in Run : \E x \in runs[r] :
            /\ handle[c] = {r}
            /\ x.req = RequestOf(c)
            /\ pc[c] = "fetched" => Continues(x, [x EXCEPT !.effects = fetched[c]])

\* What results rest on: no call loses its run to another, and no run is changed
\* behind it but by going on.
CallFollowsItsRun ==
    /\ RunsAreWellFormed
    /\ \A c \in Call : FollowsItsRun(c)

\* Execute comes back, with a result or an error, although the run may stay
\* pending, be interrupted for ever, or never end.
ExecuteReturns == \A c \in Call : pc[c] = "starting" ~> pc[c] \in Done
=============================================================================
