SPECIFICATION Spec
CONSTANT Stories <- MCStories
INVARIANTS
    TypeOK
    DraftComplete
PROPERTIES
    FormsInOrder
    HandledForRole
    VisitIsUndone
    LentIsReturned
