SPECIFICATION Spec
CONSTANTS
  Scopes = {s1}
  Transfers = {t1, t2}
  Threads = {a, b}
  Controllers = {c1, c2}
  None = None
  MaxRevision = 6
  MaxTokens = 8
SYMMETRY Interchangeable
INVARIANTS
  TypeOK
  Reopens
  NothingMissed
PROPERTIES
  SettledForGood
  OutcomeNamesWriter
