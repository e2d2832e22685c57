\* A command while an approval is in progress.
CONSTANTS
    Names = {alice}
    Anonymous = Anonymous
    Requests = {r1}
    Sessions = {s1}
    Codes = {c1}
    Tokens = {t1}
    MaxLives = 2
    OperatorAlone = FALSE
    None = None
SPECIFICATION Spec
SYMMETRY MCSymmetry
INVARIANT SessionsDieWithPrincipal
