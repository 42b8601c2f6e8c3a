\* Up to three numbers, then a line that is none, or the end of the input.
SPECIFICATION FairSpec
CONSTANTS
  Inputs <- SmallInputs
  function_1 <- Function1
  function_2 <- Function2
INVARIANTS
  TypeOK
  ResultsInOrder
  CompleteOnReturn
PROPERTIES
  EndsAfterStop
