SPECIFICATION Spec
CONSTANTS
    Client = {c1}
    Extractor = {c1}
    Memory = {m1}
    Key = {k1}
    Scope = {global}
    Content = {t1}
    Evidence = {e1}
    Confidence = {2}
    MinConfidence = 2
    MaxRevision = 4
    MaxProposals = 2
    NoMemory = NoMemory
    NoRecord = NoRecord
    NoEvidence = NoEvidence
SYMMETRY Symmetry
INVARIANTS
    DeletedStateReadable
