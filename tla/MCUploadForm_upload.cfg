SPECIFICATION Spec
CONSTANTS
  single = single
  chain = chain
  renewals = renewals
  loop = loop
  keyed = keyed
  pgp = pgp
  printed = printed
  bare = bare
  armoured = armoured
  locked = locked
  odd = odd
  foreign = foreign
  hollow = hollow
  broken = broken
  empty = empty
  p1 = p1
  t1 = t1
  t2 = t2
  Files = {single, chain, renewals, loop, keyed, pgp, printed, bare, armoured, locked, odd, foreign, hollow, broken}
  Certificates = {"leaf", "ca", "root", "old", "new", "x", "y", "own", "kept", "beside"}
  SubjectOf <- Subject
  IssuerOf <- Issuer
  ExpiryOf <- Expiry
  Passwords = {empty, p1}
  NoPassword = empty
  Bytes <- Contents
  Tasks = {t1, t2}
  None = None
  MaxSteps = 5
INVARIANTS FactsAreChosen RegisteredIsLeaf
PROPERTIES SentWasShown KeyFilesAreRefused ReadingEnds
CHECK_DEADLOCK FALSE
