CONSTANTS
  s1 = s1  s2 = s2
  zc = zc
  Server = {s1}
  Zone = {z0, za, zb}
  Unknown = z0
  ServerOf <- MCServerOf
  Home = za
  Port = {p1}
  None = None
  PromptIPC = FALSE
  CapEnabled = FALSE
  MaxLogins = 4
  MaxZonings = 1
  MaxCrashes = 0
SPECIFICATION Spec
CHECK_DEADLOCK FALSE
PROPERTIES NewSessionSurvives
