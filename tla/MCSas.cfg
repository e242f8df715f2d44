SPECIFICATION Spec
CONSTANTS
  a1 = a1
  a2 = a2
  b1 = b1
  Processes <- MCProcesses
  KeyPairs = {k1, k2, k3}
  LowOrder = LowOrder
  Malformed = Malformed
  Inputs = {text1, text2}
  Infos = {atob, btoa}
  None = None
  NoHandle = NoHandle
  Cleared = Cleared
  MaxTags = 3
SYMMETRY Symmetric
INVARIANTS EphemeralUsedOnce AcceptedTagFromPeer
