SPECIFICATION BuildSpec
CONSTANTS
  Versions <- MCVersions
  Broken <- MCBroken
  Nothing = Nothing
INVARIANTS RegistrationExact VendoredOnly
