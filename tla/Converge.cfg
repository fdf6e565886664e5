\* Two runs, one after the other, over two keys, one reading from the other.  Two
\* documents make the second run update or keep; four objects are all that
\* two runs can make.
SPECIFICATION Spec
CONSTANTS
    Runs = {r1, r2}
    Keys = {1, 2}
    DependsOn <- Chain
    Inside <- Nested
    Invertible = {1, 2}
    Refusals = {"failed"}
    Docs = {d1, d2}
    Idents = {i1, i2, i3, i4}
    Abouts = {}
    None = None
SYMMETRY Symmetry
CHECK_DEADLOCK FALSE
INVARIANTS TypeOK IntentBeforeEffect
PROPERTIES OnlyOwnRemoved CompensatedIsUndone AppliedIsLive
