SPECIFICATION HistSpec
CONSTANTS
    s1 = s1
    s2 = s2
    s3 = s3
    sha = sha
    sum = sum
    bad = bad
    Unset = Unset
    Call = {c1, c2}
    Run = {run1, ""}
    Scenario = {s1, s2, s3}
    HvOf <- Hvs
    ContractOf <- Contracts
    Word <- Words
    RunId <- RunIds
    Name <- Names
    HeadName <- HeadNames
    Plan <- Plans
    MaxEffects = 2
    Outcome = {"failed"}
    CallInput <- Calls
    EffectDigest = {sha, sum, bad}
    GoodDigest = {sha, sum}
INVARIANTS
    TypeOK
    CallFollowsItsRun
    ResultIsOfItsRun
    ResultVerifiesInEverySdk
    StatusNotOlderThanEvidence
    ResultIsSchemaValid
    HistInv
    EvidenceIsFresh
PROPERTY ExecuteReturns
