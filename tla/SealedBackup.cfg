\* Instance of SealedBackup; see SealedBackup.tla.
SPECIFICATION Spec
CONSTANTS
  Size = 5
  TarEnd = 4
  Chunk = 2
  MaxDamage = 2
INVARIANT TypeOK
INVARIANT NonceUsedOnce
INVARIANT RestoredIsWhole
INVARIANT ReportedRestores
