\* Two writers, secrets registered at any time, lines of up to two tokens in the buffer.
CONSTANTS
  Tokens = {"a", "b", "x", "newline", "***"}
  Writers = {w1, w2}
  Chunks <- Written
  Secrets = {"s1", "s2"}
  Variants <- Registered
  Limit = 2
  MaxInput = 4
  MaskFaults = {"sink"}
SPECIFICATION MaskSpec
SYMMETRY Symmetry
INVARIANTS MaskedAsAWhole NothingLost
