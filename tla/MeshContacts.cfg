SPECIFICATION FairSpec
CONSTANTS
  Keys = {k1, k2}
  Manual = {m1}
  None = None
  MaxContacts = 2
  MaxFound = 1
  MaxNode = 2
  MaxRequests = 2
  MaxActs = 6
INVARIANTS TypeOK IndexMeansContact FiledUnderSender AnswerCanBeRead
PROPERTIES ReciprocalEnds
