------------------------------- MODULE FrameFlow -------------------------------
(***************************************************************************)
(* What the paging of ExtMem promises about DRAM, whoever does it and with *)
(* whatever policy: there are NFrames frames; each is free, held by a      *)
(* thread that is about to use it, resident under a page of the            *)
(* application, or on its way out; and it moves between these places one   *)
(* frame at a time and in this order.                                      *)
(***************************************************************************)
EXTENDS Naturals

CONSTANT NFrames

VARIABLES free, held, resident, evicting

flow == <<free, held, resident, evicting>>

Init == free = NFrames /\ held = 0 /\ resident = 0 /\ evicting = 0

\* A thread takes a free frame.
Take == /\ free > 0
        /\ free' = free - 1 /\ held' = held + 1
        /\ UNCHANGED <<resident, evicting>>

\* A thread that does not need its frame gives it back.
GiveBack == /\ held > 0
            /\ held' = held - 1 /\ free' = free + 1
            /\ UNCHANGED <<resident, evicting>>

\* The frame gets a page, and reclaim can see it.
Use == /\ held > 0
       /\ held' = held - 1 /\ resident' = resident + 1
       /\ UNCHANGED <<free, evicting>>

\* Reclaim picks the page.
Pick == /\ resident > 0
        /\ resident' = resident - 1 /\ evicting' = evicting + 1
        /\ UNCHANGED <<free, held>>

\* A worker evicts it, for anybody.
Evict == /\ evicting > 0
         /\ evicting' = evicting - 1 /\ free' = free + 1
         /\ UNCHANGED <<held, resident>>

\* A thread evicts it, for itself.
EvictForSelf == /\ evicting > 0
                /\ evicting' = evicting - 1 /\ held' = held + 1
                /\ UNCHANGED <<free, resident>>

Next == Take \/ GiveBack \/ Use \/ Pick \/ Evict \/ EvictForSelf

Spec == Init /\ [][Next]_flow

=============================================================================
