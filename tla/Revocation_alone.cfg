\* Commands while no request is in progress; two names, two lives each.
CONSTANTS
    Names = {alice, bob}
    Anonymous = Anonymous
    Requests = {r1}
    Sessions = {s1}
    Codes = {c1}
    Tokens = {t1, t2}
    MaxLives = 2
    OperatorAlone = TRUE
    None = None
SPECIFICATION Spec
SYMMETRY MCSymmetry
INVARIANT TypeOK
INVARIANT OneLifeAtATime
INVARIANT SessionsDieWithPrincipal
PROPERTY RemovalSparesOthers
