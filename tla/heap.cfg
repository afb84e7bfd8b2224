\* 26 words: the lock and up to four more blocks.
CONSTANTS
  Len = 26
  Sizes = {0, 1, 9, 16, 40}
  LockBytes = 8
  Tries = 2
SPECIFICATION Spec
INVARIANTS HeapSound
PROPERTIES ImplementsAllocator
