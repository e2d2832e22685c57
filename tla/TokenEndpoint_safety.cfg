\* Two approvals, four refresh tokens, three requests at a time.
CONSTANTS
    Codes = {c1, c2}
    Tokens = {t1, t2, t3, t4}
    Requests = {r1, r2, r3}
    Clients = {"editor", "agent"}
    Redirects = {"local", "web"}
    Verifiers = {"v1", "v2"}
    Resources = {"slack", "mail"}
    Names = {"alice", "bob"}
    Bindings <- MCBindings
    Approvals <- MCApprovals
    BindingFor <- MCBindingFor
    None = None
SPECIFICATION Spec
SYMMETRY MCSymmetry
INVARIANT TypeOK
INVARIANT OneCredentialPerApproval
INVARIANT TokensMatchApproval
PROPERTY SpentStaysSpent
PROPERTY TokensAreLostOnlyInUse
PROPERTY KeepsTheLedger
