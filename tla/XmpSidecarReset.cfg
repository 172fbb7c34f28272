SPECIFICATION Spec
CONSTANTS
    Stars = {0, 1}
    Texts = {t1}
    EditorInWindow = FALSE
PROPERTY UserChangeSurvivesReset
