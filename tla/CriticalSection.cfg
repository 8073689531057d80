\* Two cores contending, each with a thread and an interrupt handler, under the
\* scheduling the hardware and the callers owe; and the single-core build.
CONSTANTS
  c1 = c1
  c2 = c2
  Core <- TwoCores
  NoOwner = NoOwner
  MaxNest = 3
  Multicore = TRUE
SPECIFICATION MCSpec
INVARIANTS
  TypeOK
  MutualExclusion
  MaskAsWanted
PROPERTIES
  KeepsPromise
  Progress
  SingleBuild
