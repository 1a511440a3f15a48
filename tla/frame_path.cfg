SPECIFICATION Spec
CONSTANTS
  Node <- MCNode
  Authors <- MCAuthors
  Time <- MCTime
  Channel = {"general"}
  Capital = {"General"}
  Body <- MCBody
  ReplyText <- MCReplyText
  Foreign <- MCForeign
  Threshold = 3
  Overhead = 1
  MaxFragments = 2
  MaxPosts = 1
  MaxForeign = 1
  MaxVectors = 1
INVARIANTS OneEncoding RowsAgree OnlyForeignStops ClaimsHeld
