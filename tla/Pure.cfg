\* a state is one sample: there is nothing after it
CHECK_DEADLOCK FALSE
SPECIFICATION Spec
CONSTANTS
  Top = 4
  Full = 4
  BankBytes = 16
  BankSide = 8
  TrainerBytes = 3
  ProgramBytes = 5
  Topics = {"blending", "colours", "files", "bodies"}
  Samples <- MCSamples
INVARIANTS CompositeAsPorterDuff BlendLaws ColoursSurvive FilesReadBack BodyDecodes
