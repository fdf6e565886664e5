\* Short texts, few digits, short expressions; each module lists its own cases.
SPECIFICATION Spec
PROPERTIES
    NumbersAreRight
    JsonIsTheDocument
    DatesAreRight
    CallIsResolved
    MatchIsRight
    StepsAgree
CHECK_DEADLOCK FALSE
