CONSTANTS
  Addrs <- MCAddrs
  Skipped <- MCSkipped
  Conns <- MCConns
  From <- MCFrom
  Dest <- MCDest
SPECIFICATION Spec
INVARIANT TypeOK
PROPERTIES LANSticky FollowsSets OneExit
