SPECIFICATION Spec
CONSTANTS
  MAX_BUFFER_SIZE = 5
  TextFiles <- MCFiles
  KeyLengths = {1, 2, 3, 4}
  Pool = {1, 25, 26}
INVARIANTS
  SameAsOriginal DecryptionNeverRefused
