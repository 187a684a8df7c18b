SPECIFICATION Spec
CONSTANTS
  BUFFER_SIZE = 100
  MAXDNAME = 12
  SIZEOF_HEADER = 24
  MAX_JUMPS = 5
  NEW_ID = 513
  Datagrams <- MCDatagrams
  Leftovers <- MCLeftovers
  TARGET <- MCTarget
  Unset <- MCUnset
INVARIANT RedirectsToTarget
