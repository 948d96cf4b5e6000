SPECIFICATION ComplectFairSpec
CONSTANTS
  NumSlot = 2
  Type = {"8RP", "6DI6RO", "4AI", "STEEL"}
  Width <- MCWidth
  Total <- MCTotal
INVARIANTS
  ComplectTypeOK
  LookupExact
  EnabledFirst
PROPERTY MappingSettles
