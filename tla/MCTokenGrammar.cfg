SPECIFICATION Spec
CONSTANTS
    Char <- Chars
    AlgChar <- Codes
    Width <- Widths
    Inputs <- Texts
    MaxLen = 5
    Panic = Panic
    None = None
INVARIANTS ParseIsGrammar NeverPanics CarvedHalfSurvives
CHECK_DEADLOCK FALSE
