CONSTANTS
    Letters = {a}
    Blank = Blank
    Quote = Quote
    Backslash = Backslash
    MaxLine = 6
    MaxArg = 3
    MaxArgs = 2
SPECIFICATION FairSpec
INVARIANTS
    TypeOK
    CountsTheRun
    MeansWhatWasMeant
    WordsWithoutQuotes
    LettersKept
PROPERTIES
    Terminates
CHECK_DEADLOCK FALSE
