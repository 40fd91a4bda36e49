CONSTANTS
  AllCaps <- MCCaps
  CapLists <- MCCapLists
  GidLists <- MCGidLists
  Uids <- MCUids
SPECIFICATION Spec
INVARIANTS
  ExecAsConfigured
PROPERTIES
  CleanChildExecs
