\* The sink's throttle and its setters, serialized with work(), over the
\* mnemonic link with every reply arriving as one whole line: the radio
\* runs at 1 or 3 samples/us (3 above MAX_SR_MHZ, so it is sent SPR 0 and
\* re-queried), other queries answer 2; batches of 1 and 2, three setter
\* calls, six microseconds.  The behaviour ends at the time bound, or when
\* work() returns WORK_DONE.
CONSTANTS
  RadioRates = {1, 3}
  Values = {2}
  Splits = FALSE
  MaxSr = 2
  Batches = {1, 2}
  MaxTime = 6
  MaxTotal = 8
  MaxCalls = 3
  Serialized = TRUE
SPECIFICATION Spec
CHECK_DEADLOCK FALSE
INVARIANT TypeOK
INVARIANT PacedToRate
INVARIANT RateIsRadioRate
PROPERTY NoUnderrunSleep
