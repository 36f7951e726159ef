SPECIFICATION Spec
CONSTANTS
    Header = {h1, h2}
    SchemaHeader = {h1}
    ScopeKey = {"intent_ref", "team"}
    ScopeText = {"v"}
    DigestText = {"sha", "sha+nl", "bad"}
    StrictDigest = {"sha"}
    NewlineDigest = {"sha+nl"}
    Uri = {"u"}
    NoteText = {"n"}
    Unset = Unset
    Bundle = {b1, b2}
    CallerList = {}
    CallerMap = {m1}
    CallerItem = {o1}
    UsedSdk = {"go"}
    ItemInput <- ItemsSmall
    TamperInput <- TamperSmall
    ScopeInput <- ScopesSmall
    OwnScopeInput <- NoScopes
    EnvInput <- EnvNone
    MaxItems = 2
SYMMETRY Symmetry
INVARIANTS
    TypeOK
    VerifiedIsWhatWasSealed
    GoSealIsVerifiable
PROPERTY
    GoSealIsIsolated
