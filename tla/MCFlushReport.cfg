SPECIFICATION Spec
CONSTANTS
  Keys <- ProducerConsumerKeys
  MaxRuns = 2
  MaxAborts = 0
INVARIANT ParsesCompleteRuns
