SPECIFICATION ProxySpec
CONSTANTS
  Piece <- MCPiece
  Nothing = Nothing
  Requests <- MCRequests
  Replies <- MCReplies
  Rule <- MCRule
  Inputs <- MCInputs
  Method = {"GET", "POST"}
  Path = {}
INVARIANTS TypeOK NormalForm DecidedAsRead ForwardedIsAllowed ConnectionsApart SwitchedTogether
INVARIANTS ServedAsConfigured ReadOnlyReachesNoWrite RefusedForAReason
