\* A host with three resources, of which two enroll and one has no key; two tabs.
CONSTANTS
    Names = {alice}
    Anonymous = Anonymous
    Tabs = {t1, t2}
    Resources = {"slack", "mail", "status"}
    Enrolls = {"slack", "mail"}
    Keys = {"slack", "mail"}
    Members = {m1, m2}
    KeysOf <- MCHostKeysOf
    OperatorBindings <- MCBindings
    MaxEdits = 1
    None = None
SPECIFICATION Spec
SYMMETRY MCSymmetry
INVARIANT TypeOK
INVARIANT NoCodeWhileUnbound
INVARIANT ChoicesComeFromTheStore
INVARIANT EnteredCodeDecides
PROPERTY EnrollmentsAccumulate
