\* Two request ids, three messages, two drafts, one clear, one fault.
SPECIFICATION Spec
CONSTANTS
    r1 = r1
    r2 = r2
    x1 = x1
    x2 = x2
    Requests = {r1, r2}
    NoRequest = NoRequest
    Texts = {x1, x2}
    NoText = NoText
    MessageBound = 3
    SaveBound = 2
    ClearBound = 1
    FaultBound = 1
SYMMETRY NamesSymmetry
CHECK_DEADLOCK FALSE
INVARIANTS
    OneTaskPerDraft
    GeneratedDraftIsItsTask
    OneMessagePerRequest
    NeverInParallel
