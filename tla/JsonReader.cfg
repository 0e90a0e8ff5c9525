CONSTANT
    Scopes <- MCScopes
SPECIFICATION JsonSpec
CHECK_DEADLOCK FALSE
INVARIANTS
    AcceptsJson
    JsonInv
