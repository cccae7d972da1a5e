SPECIFICATION VSpec
CONSTANTS
  Line <- Lines
  CR = 13
  LF = 10
  Size = 8
  LineSize = 8
  AnswerSize = 10
  MaxErrors = 0
  Report <- Reports
  MaxImpulses = 2
INVARIANT
  PutIsTransmitted
