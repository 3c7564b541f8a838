\* Messages arrive in any time, full zones refuse, the client may come back from a
\* second address.
CONSTANTS
  s1 = s1  s2 = s2
  zc = zc
  Server = {s1, s2}
  Zone = {z0, za, zc}
  Unknown = z0
  ServerOf <- MCServerOf
  Home = za
  Port = {p1, p2}
  None = None
  PromptIPC = FALSE
  CapEnabled = TRUE
  MaxLogins = 3
  MaxZonings = 1
  MaxCrashes = 0
SPECIFICATION Spec
CHECK_DEADLOCK FALSE
INVARIANTS TypeOK ClientKey IndInv
PROPERTIES PresenceSpec
