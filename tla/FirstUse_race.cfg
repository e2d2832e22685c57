\* Two calls of Code on an empty store: a boot banner and a form that is posted.
CONSTANTS
    Slots = {"pairing-code"}
    Rotatable = {}
    Callers = {banner, form}
    Secrets = {k1, k2}
    Alone = FALSE
    None = None
SPECIFICATION FirstUseSpec
INVARIANT ReturnedIsStored
