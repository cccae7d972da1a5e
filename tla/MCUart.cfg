SPECIFICATION FairSpec
CONSTANTS
  Line <- Lines
  CR = 13
  LF = 10
  Size = 4
  LineSize = 4
  AnswerSize = 4
  MaxErrors = 1
INVARIANTS
  TypeOK
  ReceivedInOrder
  SentInOrder
  NothingStranded
  AnsweredByItself
PROPERTY
  EveryLineAnswered
