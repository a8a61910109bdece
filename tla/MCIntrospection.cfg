SPECIFICATION MCSpec
CONSTANTS
  Game = {o1, i}
  Foreign = {x}
  Internal = {i}
  InModule = {m}
  Forms = {f}
  Object = o1
  FormObject <- MCFormObject
  Zero = Zero
  Inputs = {o1, x, i, m, f}
  RegisterInputs = {o1, f}
  NumRegs = 1
  StackSize = 3
  Block1 = 3
  Block2 = 2
  MaxChanges = 1
INVARIANTS TypeOK DescriptionsRight ReferencesRight RelevantListed BackfillComplete
CHECK_DEADLOCK FALSE
