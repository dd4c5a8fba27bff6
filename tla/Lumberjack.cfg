\* Two sends of up to two events to two hosts in sticky order or three in
\* load-balanced order, the counter about to wrap, one dropped future; and every
\* sequence of up to three frames out of a small set, the last one also malformed
\* or cut off, read in pieces of one, two and five bytes.
SPECIFICATION MCSpec
CONSTANTS
  MaxSends = 2
  MaxBatch = 2
  MaxConns = 2
  MaxCancels = 1
  SeqSpace = 8
  StartSeqs = {6}
  Configs <- Mixed
  max_window_events = 2
  max_window_bytes = 2
INVARIANT WindowsExact
PROPERTIES RefinesDelivery  SendReturns
CHECK_DEADLOCK FALSE
