SPECIFICATION Spec
CONSTANTS
  ResponseLines <- MCResponseLines
  SizeLines <- MCSizeLines
  RequestLines <- MCRequestLines
  RequestFields <- MCRequestFields
  UriStarts <- MCUriStarts
  UriPieces = {"a", "v", "1", ".", "/", "?", "#", ":", "@", "[", "]"}
  MaxLines = 5
  MaxFields = 3
  MaxCuts = 1
  MaxPieces = 4
INVARIANTS MessageExact FramingExact UriExact
CHECK_DEADLOCK FALSE
