CONSTANTS
    h1 = h1
    h2 = h2
    t1 = t1
    Handler = {h1, h2}
    Task = {t1}
    CopyMethods = {1}
SPECIFICATION Spec
PROPERTIES
    DeployedIsApplied
