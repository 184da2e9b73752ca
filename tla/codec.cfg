\* Two Vocabulary objects and the log's two, MaxCalls calls in any order.
SPECIFICATION Spec
CONSTANTS
  o1 = o1
  o2 = o2
  Objects <- Two
  Strings <- MCStrings
  Ids <- MCIds
  Words <- MCWords
  Dates <- MCDates
  Severities <- MCSeverities
  Texts <- MCTexts
  RecvSize = 11
  MaxCalls = 4
SYMMETRY Symmetry
INVARIANT TypeOK
INVARIANT SizeIsExact
INVARIANT MergeIsReadingBoth
INVARIANT LogIsShownWhole
PROPERTY ReadsWhatWasWritten
PROPERTY CopiesAreEqual
CHECK_DEADLOCK FALSE
