\* Two processes with three sections between them, one packet.
CONSTANTS
  p1 = p1  p2 = p2  k1 = k1
  NoPacket = NoPacket  Absent = Absent  NoLock = NoLock  NoFile = NoFile
  Procs = {p1, p2}
  Packets = {k1}
  MaxSections = 3
SPECIFICATION FairSpec
 
PROPERTIES ChangesKept Served
CHECK_DEADLOCK FALSE
