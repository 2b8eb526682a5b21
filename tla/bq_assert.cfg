\* Two workers, as create_chain_ctx(2, chains) would start; no spurious
\* wake-ups: does a woken taker find an item?
SPECIFICATION Spec
CONSTANTS
  w1 = w1
  w2 = w2
  main = main
  a = a
  None = None
  Threads = {w1, w2, main}
  Adders = {main}
  Takers = {w1, w2}
  Digesters = {}
  Items = {a}
  MaxAdds = 3
  SpuriousWakeups = FALSE
INVARIANTS
  AssertHolds
CHECK_DEADLOCK FALSE
