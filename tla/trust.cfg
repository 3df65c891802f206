\* Two requests at once and one person who is asked; every text of five
\* pieces followed by every Location of three; every day of the years;
\* every answer of seven bytes however it is cut.  An address that was
\* refused, a year that is over and an answer that is read have no next step.
SPECIFICATION TrustSpec
CONSTANTS
  Workers = {w1, w2}
  NoWorker = NoWorker
  Hosts = {h1, h2, h3}
  NoHost = NoHost
  TrustedMax = 2
  MaxWord = 4
  HOST_SIZE = 5
  PATH_SIZE = 9
  LOC_SIZE = 9
  ABSOLUTE_SIZE = 14
  PORT = 9
  PORT_MAX = 98
  MaxOpening = 5
  MaxLocation = 3
  MaxHops = 1
  Years = {1970, 1971, 1972, 1999, 2000, 2001, 2023, 2024, 2025, 2026, 2027, 2028, 2099, 2100, 2101, 2399, 2400, 2401}
  HEAD_MAX = 6
  REQUEST_BUF = 7
  HEAD_LEAST = 5
  SIZE_MAX = 15
  MaxStream = 7
  MaxDigits = 2
  Answers <- ShortAnswers
INVARIANTS RingIsWord NoBlankCheque UrlClean ResolvesAsReferences DaysExact HoweverCut KeptIsDrained
CHECK_DEADLOCK FALSE
