SPECIFICATION Spec
CONSTANTS
    Changes = {c1, c2, c3}
    MaxDepth = 2
SYMMETRY Symmetry
INVARIANTS
    RolledBackNeverServed
    TrustedBaseCommitted
    IInv
    FixedChangesDoNotEscape
