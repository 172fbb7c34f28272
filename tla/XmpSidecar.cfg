SPECIFICATION Spec
CONSTANTS
    Stars = {0, 1}
    Texts = {t1, t2}
    EditorInWindow = FALSE
INVARIANTS
    TypeOK
    StoresInStep
PROPERTIES
    RatingPreserved
    ReceiptIsTrue
    UserChangeSurvivesSettledReset
