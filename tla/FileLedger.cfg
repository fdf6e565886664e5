\* Two processes, one key, power loss at any moment.  Three versions are
\* enough for an intent, its commit, and a second intent or a tombstone.
SPECIFICATION PowerSpec
CONSTANTS
    Procs = {p1, p2}
    Keys = {k1}
    Docs = {d1, d2}
    Idents = {i1}
    Abouts = {a1}
    None = None
    NoFile = NoFile
    NoCall = NoCall
    MaxVersion = 3
SYMMETRY Symmetry
INVARIANTS TypeOK HistoryIsChained AckedSurvives
