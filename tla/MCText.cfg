SPECIFICATION Spec
CONSTANTS
  Byte = 2
  Width = 3
  MaxFrameSize = 5
  MaxControlFrameSize = 2
  MaxText = 6
  MaxArgs = 2
  MaxStatements = 3
  MaxFrames = 3
  MaxBody = 7
  MaxElements = 4
  SqlCharacters <- Characters
  Values <- GoValues
  Statements <- FewStatements
  ArrayElements <- JsonElements
INVARIANTS BindsFaithfully WireIsFaithful
CHECK_DEADLOCK FALSE
