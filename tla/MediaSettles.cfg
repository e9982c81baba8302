SPECIFICATION FairSpec
CONSTANTS
  u1 = u1
  c1 = c1
  c2 = c2
  w1 = w1
  w2 = w2
  Uploads <- MCUploads
  Calls <- MCCall
  Workers <- MCWorker
  MaxFaults = 1
  NoUpload = NoUpload
PROPERTIES
  StorageSettles
CHECK_DEADLOCK FALSE
