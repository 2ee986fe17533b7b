CONSTANTS
  Cases <- MCCases
  WordBits = 8
  StackWords = 24
  Interference = 1
  Noise = {0, 1}
  Address = {8, 9, 10, 11, 12, 13, 14, 15, 16, 17, 18, 19, 20, 21, 22, 23}
SPECIFICATION Spec
INVARIANTS NoFault MatchesInterpreter SensitiveSlotsAreCleared
PROPERTIES ImplementsNode Terminates
