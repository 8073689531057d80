------------------------------- MODULE DmaStream -------------------------------
(***************************************************************************)
(* A double-buffered DMA stream (dma.rs): the engine plays two buffers in  *)
(* turn, out of memory, for ever; feed refills the one it is not playing,  *)
(* through the core's cache, telling by CONBLK_AD which that is.  A buffer *)
(* holds a chunk, known by its number; one that is half new is Torn.       *)
(***************************************************************************)
EXTENDS Integers

CONSTANTS Chunks,     \* chunks the caller feeds after the first two (bound)
          MayBeLate,  \* the caller may be slower than the engine
          MayFail     \* the engine may stop on an error

VARIABLES step,       \* where the caller is: out of feed, waiting, filling, cleaning, or dropped
          next,       \* Stream::next, the buffer feed refills
          fed,        \* chunks handed over so far, the first two among them
          cached,     \* what the core sees in each buffer
          memory,     \* what the engine sees
          engine,     \* off, running, or stopped by an error
          block,      \* the control block CONBLK_AD names
          sound,      \* the chunk the engine plays
          late,       \* the engine reached a buffer before it was refilled
          gap         \* what it played was not the chunk after the last

vars == <<step, next, fed, cached, memory, engine, block, sound, late, gap>>

Torn == -1
Halves == {0, 1}
Other(k) == 1 - k

\* stream_peripheral: both buffers cleaned, both blocks chained, the engine started at the first.
Init == /\ step = "out" /\ next = 0 /\ fed = 2
        /\ cached = [k \in Halves |-> k + 1] /\ memory = [k \in Halves |-> k + 1]
        /\ engine = "running" /\ block = 0 /\ sound = 1 /\ late = FALSE /\ gap = FALSE

engineVars == <<engine, block, sound, late, gap>>

\* feed, until the engine is on the other buffer.
Feed == /\ step = "out" /\ fed < 2 + Chunks /\ step' = "wait"
        /\ UNCHANGED <<next, fed, cached, memory, engineVars>>
Seen == /\ step = "wait" /\ block # next /\ step' = "fill"
        /\ UNCHANGED <<next, fed, cached, memory, engineVars>>

\* fill writes the core's cache, which may write a line back at any time.
Fill == /\ step = "fill" /\ cached' = [cached EXCEPT ![next] = fed + 1] /\ step' = "clean"
        /\ UNCHANGED <<next, fed, memory, engineVars>>
WriteBack == /\ step = "clean" /\ memory[next] # cached[next]
             /\ memory' = [memory EXCEPT ![next] = Torn]
             /\ UNCHANGED <<step, next, fed, cached, engineVars>>

\* clean_range, and the other buffer is next.
Clean == /\ step = "clean" /\ memory' = [memory EXCEPT ![next] = cached[next]]
         /\ fed' = fed + 1 /\ next' = Other(next) /\ step' = "out"
         /\ UNCHANGED <<cached, engineVars>>

\* The guard is dropped: halt resets the channel before the buffers are the caller's again.
Drop == /\ step = "out" /\ step' = "dropped" /\ engine' = "off"
        /\ UNCHANGED <<next, fed, cached, memory, block, sound, late, gap>>

\* The caller writes its buffers anew.
Reuse == /\ step = "dropped" /\ \E k \in Halves : memory' = [memory EXCEPT ![k] = Torn]
         /\ UNCHANGED <<step, next, fed, cached, engineVars>>

\* The engine goes to the other block: in time when feed waits for just that, or late.
InTime == step = "wait" /\ block = next
Advance ==
  /\ engine = "running" /\ (InTime \/ MayBeLate)
  /\ block' = Other(block) /\ sound' = memory[Other(block)]
  /\ late' = (late \/ ~InTime)
  /\ gap' = (gap \/ memory[Other(block)] # sound + 1)
  /\ UNCHANGED <<step, next, fed, cached, memory, engine>>

\* A fault of the bus stops the engine where it is.
Fault == /\ MayFail /\ engine = "running" /\ engine' = "error"
         /\ UNCHANGED <<step, next, fed, cached, memory, block, sound, late, gap>>

Next == Feed \/ Seen \/ Fill \/ WriteBack \/ Clean \/ Drop \/ Reuse \/ Advance \/ Fault
\* The loop looks many times while a buffer plays.
Fairness == SF_vars(Seen) /\ WF_vars(Fill) /\ WF_vars(Clean) /\ WF_vars(Advance)
Spec == Init /\ [][Next]_vars /\ Fairness

(* ----------------------------- properties ------------------------------- *)

Numbers == Torn..(2 + Chunks)
TypeOK == /\ step \in {"out", "wait", "fill", "clean", "dropped"} /\ next \in Halves
          /\ fed \in 2..(2 + Chunks) /\ cached \in [Halves -> Numbers]
          /\ memory \in [Halves -> Numbers] /\ engine \in {"off", "running", "error"}
          /\ block \in Halves /\ sound \in Numbers /\ late \in BOOLEAN /\ gap \in BOOLEAN

\* dma.rs Stream::feed: a caller that keeps ahead of the engine hears every chunk once and in
\* order, none of it half written and none of it left in the cache.
Gapless == gap => late

\* dma.rs Stream::feed: the buffer the engine plays is not written, unless the caller was late.
NotUnderTheEngine == (step \in {"fill", "clean"} /\ engine = "running" /\ block = next) => late

\* dma.rs Stream::drop: no engine reads the buffers once the caller has them back.
QuietWhenDropped == step = "dropped" => engine # "running"

\* dma.rs Stream::feed: it returns, unless the engine stopped on an error, which it does not look at.
FeedReturns == (step = "wait") ~> (step # "wait" \/ engine = "error")
================================================================================
