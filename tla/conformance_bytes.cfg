\* A name outside ASCII.
SPECIFICATION Spec
CONSTANTS
  Requests = {r1}
  Names = {nonAscii}
  ascii1 = ascii1
  ascii2 = ascii2
  html = html
  nonAscii = nonAscii
  NoName = NoName
  Messages <- PlainMessages
  HtmlNames = {}
  NonAsciiNames = {nonAscii}
  MaxRequests = 1
INVARIANT SameData
