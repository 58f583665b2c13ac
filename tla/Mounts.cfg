SPECIFICATION Spec
CONSTANTS
  d1 = d1
  d2 = d2
  u1 = u1
  u2 = u2
  p1 = p1
  p2 = p2
  None = None
  Disks <- TwoDisks
  Users <- TwoUsers
  Pointers <- TwoPointers
  DiskOf <- SameDisk
  Handles <- NoHandles
  Reusers <- NoReusers
  Faulty <- TrackedFaults
INVARIANTS
  TypeOK
  NoMisuse
  OpenFilesExact
  FilesEndWithFs
  OwnDisk
PROPERTIES
  UmountEnds
