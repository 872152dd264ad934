\* Three constructions, two of which may overlap, with crashes.
CONSTANTS
    Writers = {w1, w2, w3}
    Fingerprints = {f1, f2}
    NoFile = NoFile
    Unreadable = Unreadable
    MaxActive = 2
SPECIFICATION MetaSpec
SYMMETRY WriterSymmetry
INVARIANTS MetaIsLastOpened TornNeedsOverlap
PROPERTY StrictNeverRebrands
\* Every construction ends, and the model has finitely many of them.
CHECK_DEADLOCK FALSE
