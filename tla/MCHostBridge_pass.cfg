SPECIFICATION FairSpec
CONSTANTS
  m1 = m1
  m2 = m2
  m3 = m3
  m4 = m4
  m5 = m5
  a = a
  b = b
  NoLanguage = NoLanguage
  NotUser = NotUser
  NotObject = NotObject
  Messages <- MCMessages
  Languages <- MCLanguages
  LanguageOf <- MCLanguageOf
  NoEvents = NoEvents
  NoKey = NoKey
  p = p
  Plans = {p}
  MaxRows = 2
  MaxResets = 1
  MaxFaults = 1
  MaxCrashes = 1
INVARIANTS
  AckedIsStored
PROPERTIES
  EventuallySent
CONSTRAINTS MCBound MCOrder MCPlain
CHECK_DEADLOCK FALSE
