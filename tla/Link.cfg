SPECIFICATION FairSpec
CONSTANT MaxRequests = 4
INVARIANTS Inductive OwnResponse SizedNeverStands
PROPERTIES SizedArrives GoneEnds
