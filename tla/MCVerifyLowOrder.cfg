SPECIFICATION Spec
CONSTANTS
  alice = alice
  bob = bob
  phone = phone
  laptop = laptop
  edA = edA
  edB = edB
  edC = edC
  cA = cA
  cB = cB
  olm = olm
  megolm = megolm
  Users <- MCUsers
  DeviceIds <- MCDeviceIds
  Signers <- MCSigners
  Curves <- MCCurves
  LowOrder = LowOrder
  Malformed = Malformed
  Absent = Absent
  Algorithms <- MCAlgorithms
  Statements <- MCStatements
  Objects <- MCObjects
  OneTimeKeys <- MCOneTimeKeys
INVARIANT VerifiedKeyOpensSession
