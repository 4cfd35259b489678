\* One client, three slots: the superblock fills up; unmounting and crashes.
SPECIFICATION Spec
CONSTANTS
  Paths <- Nested
  MAX_INODES = 3
  MAX_CONTENT = 2
  Chars = {1}
  Threads = {t1}
  MaxEnd = 1
  MaxLinks = 2
  Remount = TRUE
  FREE = FREE
  NoRequest = NoRequest
  NoImage = NoImage
INVARIANT Tree
PROPERTY PrivateContents
