\* The same race without power loss, against the atomic compare-and-swap
\* register of module Ledger.
SPECIFICATION Spec
CONSTANTS
    Procs = {p1, p2}
    Keys = {k1}
    Docs = {d1, d2}
    Idents = {i1}
    Abouts = {}
    None = None
    NoFile = NoFile
    NoCall = NoCall
    MaxVersion = 3
SYMMETRY Symmetry
PROPERTIES ImplementsContract
