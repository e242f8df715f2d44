SPECIFICATION Spec
CONSTANTS
  Alice = Alice
  Bob = Bob
  NoSession = NoSession
  Stray = Stray
  MaxChains = 1
  MaxSkipped = 2
  MaxGap = 2
  MaxMessages = 5
  MaxKeys = 5
INVARIANTS MessageKeyOnce ReadOnce OneConversation UnreadStaysReadable NormalMeansEstablished
PROPERTIES ImplementsPromise
