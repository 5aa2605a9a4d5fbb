SPECIFICATION ImageSpec
CONSTANTS
  w1 = w1
  w2 = w2
  w3 = w3
  h1 = h1
  h2 = h2
  Workers = {w1, w2, w3}
  HostOf <- MCHostOf
  Requests <- MCRequests
  ShaLength = 1
  Nothing = nothing
  MaxFaults = 1
INVARIANTS ImageTypeOK SuccessIsInRegistry ImageIsOwn ImageIsThereToPush NoTagIsLeft
PROPERTY OnlyOverlapsLeaveImages
SYMMETRY Symmetry
