\* Each fails (run with -continue): an answer of closed_symbols with none of the
\* members the decoder looks for, one with success: false and an error_code that
\* is no number, a map of halts that name themselves by "symbol", and an answer
\* of all_indicators that reports an error.
SPECIFICATION FeedSpec
CONSTANTS
  Names = {2}
  MaxList = 1
INVARIANTS HaltsAnswerIsAList HaltsRefusalIsAnError MapsKeepNames IndicatorRefusalIsAnError
