CONSTANTS
  Manager = {m1, m2}
  Fields <- MC_Fields
  AutoIncrement = {"f_id"}
  OtherColumn = "f_other"
  MaxInits = 3
  MaxFaults = 2
SPECIFICATION Spec
INVARIANTS TypeOK TrueMeansColumns  
CHECK_DEADLOCK FALSE
