\* Two tabs of one browser, whose sessions replace each other.
CONSTANTS
    Names = {alice}
    Anonymous = Anonymous
    Tabs = {t1, t2}
    Resources = {"slack", "mail"}
    Enrolls = {"mail"}
    Keys = {"slack", "mail"}
    Members = {m1, m2}
    KeysOf <- MCHostKeysOf
    OperatorBindings <- MCBindings
    MaxEdits = 0
    None = None
SPECIFICATION Spec
SYMMETRY MCSymmetry
INVARIANT RoundsKeepTheIdentity
