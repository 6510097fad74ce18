SPECIFICATION Spec
CONSTANTS
    Packages <- WithAnswers
    Stored <- Given
PROPERTIES
    OnlyForwardFrames
