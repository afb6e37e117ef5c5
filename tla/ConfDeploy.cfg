CONSTANTS
    h1 = h1
    h2 = h2
    t1 = t1
    Handler = {h1, h2}
    Task = {t1}
    CopyMethods = {1, 3}
SPECIFICATION Spec
SYMMETRY Handlers
CONSTRAINT Bounded
INVARIANTS
    TypeOK
    NotTorn
PROPERTIES
    IsolatedApplies
