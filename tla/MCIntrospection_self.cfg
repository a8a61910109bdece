SPECIFICATION MCSpec
CONSTANTS
  Game = {o1}
  Foreign = {}
  Internal = {}
  InModule = {}
  Forms = {}
  Object = o1
  FormObject <- MCFormObject
  Zero = Zero
  Inputs = {o1, Zero}
  RegisterInputs = {o1, Zero}
  NumRegs = 1
  StackSize = 3
  Block1 = 3
  Block2 = 2
  MaxChanges = 0
INVARIANT ReferencesDescribed
CHECK_DEADLOCK FALSE
