\* One resource without projection: enrolling anew beside a set.
CONSTANTS
    Names = {alice}
    Anonymous = Anonymous
    Tabs = {t1}
    Resources = {"tool"}
    Enrolls = {"tool"}
    Keys = {"slack", "mail"}
    Members = {m1, m2}
    KeysOf <- MCPlainKeysOf
    OperatorBindings <- MCBindings
    MaxEdits = 0
    None = None
SPECIFICATION Spec
SYMMETRY MCSymmetry
INVARIANT TokensCarryNoSets
