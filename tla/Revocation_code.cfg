\* A command while no request is in progress, but a code is outstanding.
CONSTANTS
    Names = {alice}
    Anonymous = Anonymous
    Requests = {r1}
    Sessions = {s1}
    Codes = {c1}
    Tokens = {t1}
    MaxLives = 1
    OperatorAlone = TRUE
    None = None
SPECIFICATION Spec
SYMMETRY MCSymmetry
INVARIANT RemovedNamesHaveNoTokens
