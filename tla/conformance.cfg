\* Requests a single deviation away from a well-formed one, ASCII names.
SPECIFICATION Spec
CONSTANTS
  Requests = {r1}
  Names = {ascii1, ascii2}
  ascii1 = ascii1
  ascii2 = ascii2
  html = html
  nonAscii = nonAscii
  NoName = NoName
  Messages <- NearMessages
  HtmlNames = {}
  NonAsciiNames = {}
  MaxRequests = 3
INVARIANTS
  SameState
  SameAnswers
  FaultsShow
