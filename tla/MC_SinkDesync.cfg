\* The sink over the mnemonic link as TCP may deliver it: a reply line in
\* one segment or split in two.  Time does not matter to the question and
\* is held at 0.  Expected: RateIsRadioRate is violated, since one
\* read_some can return part of a line and leave the rest to be taken as
\* the reply to the next query.
CONSTANTS
  RadioRates = {1, 3}
  Values = {2}
  Splits = TRUE
  MaxSr = 2
  Batches = {1}
  MaxTime = 0
  MaxTotal = 2
  MaxCalls = 2
  Serialized = TRUE
SPECIFICATION Spec
CHECK_DEADLOCK FALSE
INVARIANT RateIsRadioRate
