\* Two connections, and sockets left behind up to four descriptors.
SPECIFICATION LiveSpec
CONSTANTS
  Key = {k1, k2}
  MaxFd = 4
INVARIANTS
  TypeOK
  DescriptorsAccounted
  
  WaitsBehindFailure
PROPERTY
  WaitingIsServed
