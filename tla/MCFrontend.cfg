CONSTANTS
  Width = 3
  MaxLine = 5
  Space = 3
  Chars <- MCChars
  Texts <- MCTexts
  TrueText <- MCTrue
  FalseText <- MCFalse
  Blank = " "

SPECIFICATION FairSpec

INVARIANT TypeOK
INVARIANT OffsetAgrees
INVARIANT RowShowsLine
INVARIANT ScreenIsPage
PROPERTY StoppedIsShown
