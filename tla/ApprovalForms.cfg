\* One named principal, one browser, three pairing codes.
CONSTANTS
    Shared = shared
    Slots = {shared}
    Rotatable = {shared}
    Server = server
    Callers = {server}
    Secrets <- MCSecrets
    Alone = TRUE
    None = None
    Names = {alice}
    Anonymous = operator
    Enrollments <- MCEnrollments
    Bindings <- MCBindings
    EnrolledBindings <- MCEnrolledBindings
    Typed <- MCTyped
    SecretEntries = {"", " ", "s"}
    PlainEntries = {"", "u", " u"}
SPECIFICATION Spec
INVARIANT TypeOK
INVARIANT CodesIdentifyTheirOwners
INVARIANT SecretsAreNotEchoed
INVARIANT CallbackGetsWhatWasTyped
INVARIANT ChoicesAreListed
