CONSTANTS
    Values = {v1, v2}
    NoValue = NoValue
SPECIFICATION Spec
INVARIANT GetReturnsResult
