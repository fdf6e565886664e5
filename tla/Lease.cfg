\* Two runs and a lease of two ticks.  Five ticks let a lease lapse, be
\* broken and lapse again; four claims and five writes let each run acquire,
\* renew and release around the other.
SPECIFICATION Spec
CONSTANTS
    Procs = {p1, p2}
    Claims = {c1, c2, c3, c4}
    TTL = 2
    MaxTime = 5
    MaxWrites = 5
    Scope = Scope
    None = None
SYMMETRY Symmetry
INVARIANTS TypeOK OneHolder
PROPERTIES OwnerOrLapsed
