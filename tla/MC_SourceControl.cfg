\* The source block's setters, start() and stop() over the mnemonic link,
\* with every reply arriving in one segment.
CONSTANTS
  RadioRates = {1, 3}
  Values = {}
  Splits = FALSE
  Channels <- MCChannels
  StreamOf <- MCStreamOf
  NumOutputStreams = 1
  MaxSr = 2
  MaxCalls = 5
SPECIFICATION Spec
INVARIANT ActiveIsSelectedStream
INVARIANT ManagerFollowsActive
