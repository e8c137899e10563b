SPECIFICATION Spec
CONSTANTS
  w1 = w1
  w2 = w2
  r1 = r1
  k1 = k1
  k2 = k2
  Writer <- MCWriter
  Reader <- MCReader
  Conversation <- MCConversation
SYMMETRY Symmetry
INVARIANTS TypeOK OpenIsComplete NewFilesPrivate NoOrphans EmptyMeansEmpty
PROPERTY ReadersServed
