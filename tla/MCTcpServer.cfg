SPECIFICATION FairSpec
CONSTANTS
  RegSize = 4
  BitSize = 4
  Word <- MCWord
  HighByte <- MCHighByte
  Ops <- MCOps
  Acceptors = {a1, a2}
  Conns = {c1, c2}
  NoConn = NoConn
  c1 = c1
  c2 = c2
  Frames <- AllFrames
  Initial <- MCInitial
  HasTimeout = TRUE
  Stale = {0, 255}
  Cuts = {3, 9}
INVARIANTS TypeOK ReadsTheServed AnswersInOrder AnswerTellsTruth NoPanic
PROPERTIES OneAtATime Answered GoneIsNoticed ListensAgain
