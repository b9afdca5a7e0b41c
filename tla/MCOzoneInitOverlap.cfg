SPECIFICATION Spec
CONSTANTS
  Helpers = {"gpu"}
  MaxObjects = 4
PROPERTIES
  CreatedOnce
