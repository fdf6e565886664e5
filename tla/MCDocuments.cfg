\* Two or three of everything: tables, nodes, readers, fields, keys.
SPECIFICATION Spec
INVARIANTS
    ResultIsSQL
    EffectsAsAsked
    CompiledIsComplete
    RequestAsDeclared
    
    CachesAreTrue
    OneObject
    Converged
PROPERTY
    OthersUntouched
CHECK_DEADLOCK FALSE
