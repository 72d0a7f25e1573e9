CONSTANTS
    Clients = {c1, c2}
    Limit = 2
    Window = 2
    Capacity = 1
    MaxTries = 3
    None = None
SYMMETRY Symmetry
SPECIFICATION Spec
INVARIANT TypeOK
INVARIANT SpanBudget
INVARIANT RefusedForCause
