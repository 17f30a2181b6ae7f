SPECIFICATION DescSpec
CONSTANTS
  Int32Max = 7
  Uint32Max = 15
  DefaultTimeout = 4
  DefaultWidth = 2
  DefaultHeight = 3
  RawFiles = {"raw", "image"}
  ParseMAC <- Macs
  MaxOptions = 3
  Typed <- NoneTyped
  Built = {}
  HostsWithPort = {"h:1"}
  MaxSocketPathLen = 2
  MiB = 4
  Word = 32
  DefaultMemory = 2
  IgnitionPort = 10
  NestedSupported = TRUE
  CloudInitImage = "image"
  TypedVms <- InspectedVms
  BuiltVms = {}
  TypedLists = {}
  TypedURIs = {}
INVARIANTS JsonReread
