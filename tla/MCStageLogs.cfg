CONSTANTS
  NumStages = 2
  MaxLogBytes = 3
  MaxChunkBytes = 2
  ChannelCapacity = 2
  EventSizes = {1, 2, 3}
  MaxOutput = 5
  PageLimits = {1, 2}
SPECIFICATION Spec
INVARIANTS RowsInv TruncationTold PagesExact
