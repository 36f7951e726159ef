SPECIFICATION Spec
CONSTANTS
    Capture = {c1, c2}
    Shown = {"before", "after"}
    Message = "ui failure observed"
    MaxTime = 1
INVARIANTS
    TypeOK
    EvidenceIsOfItsCapture
    CaptureIsInOrder
PROPERTY
    CaptureSettles
