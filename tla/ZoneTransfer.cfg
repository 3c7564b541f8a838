\* Messages are prompt: the guarantees the players rely on, with a second client
\* address and a crash of a map server.
CONSTANTS
  s1 = s1  s2 = s2
  zc = zc
  Server = {s1, s2}
  Zone = {z0, za, zb, zc}
  Unknown = z0
  ServerOf <- MCServerOf
  Home = za
  Port = {p1, p2}
  None = None
  PromptIPC = TRUE
  CapEnabled = FALSE
  MaxLogins = 4
  MaxZonings = 1
  MaxCrashes = 1
SPECIFICATION FairSpec
CHECK_DEADLOCK FALSE
INVARIANTS OneBody RowFence RowOwned MembersAlive
PROPERTIES LeavesFirst RowReleased
