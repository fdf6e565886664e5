\* One run over two keys, one inside the other, with the one effector there is:
\* it reports a provider's refusal as it does any other failure.
SPECIFICATION Spec
CONSTANTS
    Runs = {r1}
    Keys = {1, 2}
    DependsOn <- Aside
    Inside <- Nested
    Invertible = {1, 2}
    Refusals = {"failed"}
    Docs = {d1}
    Idents = {i1, i2}
    Abouts = {}
    None = None
CHECK_DEADLOCK FALSE
PROPERTIES RefusedIsRetried
