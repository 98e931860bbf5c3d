\* The checksum of a frame, with the table of the source.
SPECIFICATION Spec
CONSTANTS
  crc32_tab <- MCTable
  Poly <- MCPoly
  Contents <- MCContents
  Damages <- MCDamages
  Offsets <- MCOffsets
\* A frame is checked once.
CHECK_DEADLOCK FALSE
INVARIANTS
  TypeOK
  DamageRefused
  IntactAccepted
