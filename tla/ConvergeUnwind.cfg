\* One run over three keys: the unwind's passes, whichever way the effector
\* reports a provider's refusal.
SPECIFICATION FairSpec
CONSTANTS
    Runs = {r1}
    Keys = {1, 2, 3}
    DependsOn <- Aside
    Inside <- Nested
    Invertible = {1, 2}
    Refusals = {"blocked", "failed"}
    Docs = {d1}
    Idents = {i1, i2, i3}
    Abouts = {}
    None = None
CHECK_DEADLOCK FALSE
PROPERTIES RetriedUntilNoProgress CollectionFreed
