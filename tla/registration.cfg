\* Two agents of the same name, one of which fails.
SPECIFICATION FairSpec
CONSTANTS
  p1 = p1
  p2 = p2
  host = host
  Clients = {p1, p2}
  Names = {host}
  NameOf <- SameName
  Conns = {c1, c2, c3}
  NoConn = NoConn
  NetCap = 1
  Faulty = {p1}
  MaxFailures = 1
INVARIANTS TypeOK EntryHasHandler 
PROPERTY GhostsEnd
CHECK_DEADLOCK FALSE
