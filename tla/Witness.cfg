CONSTANTS
  B = 4
  Programs <- MCPrograms
  WithBool <- MCWithBool
  WithPointer <- MCWithPointer
  Serializer <- MustSerializeData
  Deserializer <- DeserializeData
SPECIFICATION WitnessSpec
INVARIANTS WitnessTypeOK InOrder Canonical
PROPERTY Delivered
