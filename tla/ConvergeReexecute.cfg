\* Two runs over one key: the second finds what the first left pending.
SPECIFICATION Spec
CONSTANTS
    Runs = {r1, r2}
    Keys = {1}
    DependsOn <- Chain
    Inside <- Nested
    Invertible = {1}
    Refusals = {"failed"}
    Docs = {d1, d2}
    Idents = {i1, i2}
    Abouts = {}
    None = None
CHECK_DEADLOCK FALSE
INVARIANTS OneObjectPerKey
