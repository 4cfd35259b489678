\* A file is filled to its last byte.
SPECIFICATION Spec
CONSTANTS
  Paths <- Nested
  MAX_INODES = 4
  MAX_CONTENT = 2
  Chars = {1}
  Threads = {t1}
  MaxEnd = 2
  MaxLinks = 2
  Remount = FALSE
  FREE = FREE
  NoRequest = NoRequest
  NoImage = NoImage
INVARIANT Tree
