CONSTANTS
  None = None
  Leader = leader
  Descendants = {child}
  PipeCapacity = 1
  ChannelCapacity = 1
  RetainLimit = 1
  MaxChunks = 2
  LogLimit = 5
SPECIFICATION Spec
INVARIANTS CancelledLeavesNoProcess
