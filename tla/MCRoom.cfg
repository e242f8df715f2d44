SPECIFICATION Spec
CONSTANTS
  NA = NA
  IndexModulus = 4
  MaxIndex = 3
  Texts = {t1, t2}
  Handles = {h1, h2}
  NoSession = NoSession
  MaxKeys = 2
INVARIANTS SharedKeyReads IndexIdentifiesMessage KeyCoversLaterMessages SessionStartsAtSharedKey
PROPERTIES ImplementsPromise
