SPECIFICATION FrontEndSpec
CONSTANTS
    MaxLen = 5
    MaxBrackets = 6
    Chars <- MCChars
    Sources <- MCSources
    Corpora <- MCCorpora
INVARIANTS TokensCoverSource StatementsEnd BracketsNest
INVARIANTS RoundTrip LayoutFaithful WellLaidAccepted
