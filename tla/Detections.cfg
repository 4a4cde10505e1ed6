SPECIFICATION Spec
CONSTANTS
  car = car
  None = None
  Inputs <- MCInputs
  Frame <- MCFrame
  Classes = 2
  ClassNames <- MCClassNames
  ConfThreshold = 50
  NmsThreshold = 30
INVARIANTS TypeOK RoiInFrame OnlyFlatImagesThrow BoxesAreConfidentRows
  OverlapIsIou KeptApart LostHasBetter MapsBack NamesOfConfig
