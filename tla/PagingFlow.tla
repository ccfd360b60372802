------------------------------ MODULE PagingFlow ------------------------------
(***************************************************************************)
(* The paging of ExtMem keeps the promise of FrameFlow: descriptors swap   *)
(* their offsets and roles all the time, yet the frames they stand for     *)
(* move in an orderly way and none is lost or made up.                     *)
(***************************************************************************)
EXTENDS ExtMem, Totals

\* Frames in the hands of threads: the descriptors they collected, and the page
\* that was just mapped and is not yet on inactive_list.
Collected  == [t \in Threads |-> Len(fault[t].frees)]
Publishing == {t \in Threads : pc[t] = "publish"}
HeldFrames == Total(Collected) + Cardinality(Publishing)

\* Frames under pages on the lists that reclaim scans, the ones being looked at
\* included.
Scanning       == {e \in Scanners : scan[e] # 0}
ResidentFrames == Len(fifo["active"]) + Len(fifo["inactive"]) + Cardinality(Scanning)

\* The evictor has not handed its victim's frame on.
HasVictimsFrame(e) == pc[e] \in {"protect", "back"} \/ evict[e].dpage # 0

Evicting       == {e \in Evictors : HasVictimsFrame(e)}
EvictingFrames == Len(fifo["eviction"]) + Cardinality(Evicting)

Flow == INSTANCE FrameFlow WITH
          NFrames <- NDram, free <- Len(fifo["dram_free"]), held <- HeldFrames,
          resident <- ResidentFrames, evicting <- EvictingFrames

\* First touch, swap-in, prefetch, reclaim and eviction implement the flow of
\* NDram frames: every step moves one frame to its next place or none.
PagingImplementsFlow == Flow!Spec

=============================================================================
