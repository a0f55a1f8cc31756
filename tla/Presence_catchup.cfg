SPECIFICATION Spec
CONSTANTS
    None = None
    Twice = Twice
    Asked = Asked
    Scenarios <- Several
INVARIANTS
    TypeOK
    InStep
PROPERTIES
    NeverBack
    Settles
CHECK_DEADLOCK FALSE
