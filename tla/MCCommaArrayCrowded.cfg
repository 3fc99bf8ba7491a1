CONSTANTS
  Comment <- MCComment
  Names <- MCNames
  Remarks <- MCRemarks
  Text <- MCText
  SingleLinePad <- MCPad
  C = "#"
  MaxItems = 4
SPECIFICATION Spec
VIEW view
CHECK_DEADLOCK FALSE
PROPERTIES
  ReorderKeepsComments
