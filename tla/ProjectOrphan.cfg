CONSTANTS
    Ids = {i1, i2}
    Names = {n1}
    Handlers = {h1, h2}
    None = None
    Scopes <- Overlapping

SPECIFICATION Spec
SYMMETRY Symmetric

INVARIANT
    InstancesAreBound
