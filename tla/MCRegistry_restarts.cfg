SPECIFICATION Spec
CONSTANTS
  d1 = d1  d2 = d2  d3 = d3  h1 = h1  h2 = h2
  Devices = {d1, d2, d3}
  Handlers = {h1, h2}
  NoDevice = NoDevice
  MaxWindows = 2
  MaxKeys = 1
  MaxRestarts = 2
SYMMETRY Symmetry
CHECK_DEADLOCK FALSE
INVARIANTS RegistryInv EnrolledTogether
PROPERTY ImplementsDeviceBook
