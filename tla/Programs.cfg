SPECIFICATION FairSpec
CONSTANTS
    NoQuery = NoQuery
    NoProgram = NoProgram
    NoFile = NoFile
    None = None
INVARIANTS TypeOK Framed ClosedClean Composed NothingLeft QuestionRight AnswersInOrder LibraryRight ParsedRight InOrder DesiredOutput HandedOver
PROPERTIES Answered LineEnds AnswersEnd EachEnds PictureRight
CHECK_DEADLOCK FALSE
