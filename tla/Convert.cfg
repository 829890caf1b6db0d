\* Lines of up to eight words: enough for a parenthesis with two pictures in it
\* that is merged into the one before, and for a merge of four.
SPECIFICATION Spec
CONSTANTS
  Files = {"file"}
  Shapes = {"qr"}
  Canvases = {"xc"}
  Plain = {"crop", "palette", "pixpalette"}
  Options = {"filter", "compose", "size"}
  Keys = {"crop", "size", "resize", "radius", "format", "pix_fmt"}
  MaxSteps = 6
  Deepest = 1
  MaxWords = 8
  MaxSources = 4
  MaxChanges = 2
  MaxOptions = 1
INVARIANTS
  TypeOK
  AcceptedLineRuns
  AnswerIsMeant
  IndicesInStep
  QueryGetsItsFormat
CHECK_DEADLOCK FALSE
