\* One process that may die or fail between the link and the directory sync
\* and is run again.
SPECIFICATION PowerSpec
CONSTANTS
    Procs = {p1}
    Keys = {k1}
    Docs = {d1, d2}
    Idents = {i1}
    Abouts = {}
    None = None
    NoFile = NoFile
    NoCall = NoCall
    MaxVersion = 3
INVARIANT IntentIsDurable
