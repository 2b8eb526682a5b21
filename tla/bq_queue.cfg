\* Two workers, as create_chain_ctx(2, chains) would start, one of which also
\* adds, another adder and a caller of wait_digest; timers that expire as the
\* signal comes, and spurious wake-ups.  The process may abort, so it may stop.
SPECIFICATION FairSpec
CONSTANTS
  w1 = w1
  w2 = w2
  main = main
  d1 = d1
  a = a
  b = b
  None = None
  Threads = {w1, w2, main, d1}
  Adders = {w1, main}
  Takers = {w1, w2}
  Digesters = {d1}
  Items = {a, b}
  MaxAdds = 3
  SpuriousWakeups = TRUE
INVARIANTS
  TypeOK
  NodesAccountedFor
  NoLostWakeup
  AbortNeedsAnother
PROPERTIES
  ImplementsFifo
  EveryItemTaken
  DigestedWhenDepleted
CHECK_DEADLOCK FALSE
