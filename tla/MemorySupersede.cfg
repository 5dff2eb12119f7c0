SPECIFICATION Spec
CONSTANTS
    Client = {c1, c2}
    Extractor = {c1}
    Memory = {m1, m2}
    Key = {k1}
    Scope = {global}
    Content = {t1, t2}
    Evidence = {e1, e2}
    Confidence = {2}
    MinConfidence = 2
    MaxRevision = 2
    MaxProposals = 2
    NoMemory = NoMemory
    NoRecord = NoRecord
    NoEvidence = NoEvidence
SYMMETRY Symmetry
INVARIANTS
    OneActivePerSlot
    InferenceNeverActive
PROPERTIES
    NoLostUpdate
    ImplementsLedger

