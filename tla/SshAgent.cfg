CONSTANTS
  Client = {k1, k2}
  Passphrase <- MCPassphrase
  MaxRequests = 3
  ImportedTypes = {"ecdsa-256", "ssh-ed25519"}
  Flags = {0, 2}
  SignedSize = 64
  JoinedLengths = {0, 3, 9}
SPECIFICATION FairSpec
INVARIANTS KeyLoadsAsWritten KeyHasOneOwner Framed SignatureIsReadable
PROPERTIES ImplementsService RequestIsAnswered
CONSTRAINT MixedShort
CHECK_DEADLOCK FALSE
