SPECIFICATION Spec
CONSTANTS
    Header = {"h", "unfit"}
    SchemaHeader = {"h"}
    ScopeKey = {"intent_ref", "team"}
    ScopeText = {"v"}
    DigestText = {"sha", "sha+nl", "bad"}
    StrictDigest = {"sha"}
    NewlineDigest = {"sha+nl"}
    Uri = {"u"}
    NoteText = {"n"}
    Unset = "<unset>"
    Input <- Contents
    ItemEdit <- Items
    EnvEdit <- Envs
    MaxEdits = 3
CHECK_DEADLOCK FALSE
INVARIANTS
    TypeOK
    IInv
    PassedRebuiltItAll
    MatchedIsWhatWasSealed
    SchemaValidPasses
