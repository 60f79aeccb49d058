SPECIFICATION Spec
CONSTANTS
  a = a
  b = b
  img = img
  r1 = r1
  r2 = r2
  A = A
  B = B
  Requests = {r1, r2}
  Tokens = {a, b, img}
  Generated = {a, b}
  Prompt <- MCPrompt
  TokenMap <- MCTokenMap
  Dead = Dead
  Pad = Pad
  ZeroId = ZeroId
  None = None
  MaxNgram = 3
  BlockSize = 2
  Pools <- MCPools
  Drafts <- MCDrafts
  MaxLen = 4
  MaxPreempts = 1
  Runners <- MCRunners
INVARIANTS
  TypeOK
  HashesExact
  SlotsHoldHistory
\* A run ends when the requests have their tokens.
CHECK_DEADLOCK FALSE
