CONSTANTS
  chat = chat
  bank = bank
  sys = sys
  new = new
  gA = gA
  gB = gB
  gC = gC
  e1 = e1
  e2 = e2
  lo = lo
  lan1 = lan1
  ad1 = ad1
  ru1 = ru1
  cn1 = cn1
  x1 = x1
  y1 = y1
  NoGroup = NoGroup
  NoAddress = NoAddress
  NetworkStack = NetworkStack
  Packages = {chat, bank, sys, new}
  System = {sys}
  BuiltIn = {bank, new}
  Late = {new}
  Reserved = {lo, lan1}
  Names = {e2, ad1, ru1, cn1, x1, y1}
  SlugOf <- McSlugOf
  BaseOf <- McBaseOf
  Class <- McClass
  NodeConfigs <- McNodeConfigs
  AppConfigs <- McAppConfigs
SPECIFICATION PathSpec
INVARIANTS
  SingBoxAccepts
  StartUsesActiveNode
  NoProxyLoop
  DirectAppsGoDirect
  AppUsesItsNodes
  DnsAgreesWithRoute
