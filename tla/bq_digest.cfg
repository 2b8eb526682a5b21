\* Does wait_digest have no effect on an empty queue, as its header says?
SPECIFICATION Spec
CONSTANTS
  w1 = w1
  main = main
  d1 = d1
  a = a
  None = None
  Threads = {w1, main, d1}
  Adders = {main}
  Takers = {w1}
  Digesters = {d1}
  Items = {a}
  MaxAdds = 2
  SpuriousWakeups = FALSE
PROPERTIES
  NoEffectWhenEmpty
