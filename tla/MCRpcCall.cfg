SPECIFICATION Spec
CONSTANTS
  Absent = Absent
  Null = Null
  Wrong = Wrong
  Blank = Blank
  c1 = c1
  c2 = c2
  t1 = t1
  t2 = t2
  Caller <- MCCaller
  Task <- MCTask
  MaxCalls = 2
  MaxVersion = 1
SYMMETRY Symmetry
INVARIANTS TypeOK RightAndFresh
PROPERTY Implements
