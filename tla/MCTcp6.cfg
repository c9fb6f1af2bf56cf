SPECIFICATION Spec
CONSTANTS
  p1 = p1
  p2 = p2
  Pid = {p1, p2}
  NoPid = NoPid
  Port = {258}
  Family = {FALSE}
  Refresh = 1
  MayFail = TRUE
  Watched <- MCWatched
  Packets <- MCPackets
  Tables <- MCTables
INVARIANT ListedRight6
