SPECIFICATION Spec
CONSTANTS
    Blank = " "
    Quote = "q"
    Hash = "#"
    Minus = "-"
    Digit <- MCDigit
    Lower <- MCLower
    Upper <- MCUpper
    Builtins <- MCBuiltins
    Stems <- MCStems
    HISTORY_LEN = 2
    MAX_LINE = 3
    MAX_ARGS = 2
    I32_MAX = 12
    Sessions <- MCSessions
    NoShown = NoShown
CHECK_DEADLOCK FALSE
INVARIANT ScreenShowsLine
INVARIANT HistoryIsRecent
 
PROPERTY ImplementsTextLine
