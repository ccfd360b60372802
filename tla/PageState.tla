------------------------------ MODULE PageState ------------------------------
(***************************************************************************)
(* The state ExtMem's threads share: the struct user_page descriptors, the *)
(* policy's fifo lists that hold them, the hash table from virtual address *)
(* to descriptor, and the two things outside the library that they stand   *)
(* for: the page table (written through userfaultfd and madvise) and the   *)
(* swap device.  The other modules add the threads that work on it.        *)
(*                                                                         *)
(* A page number is a virtual address divided by PAGE_SIZE, and an offset  *)
(* is a virtual_offset divided by PAGE_SIZE.  As in the code, 0 is "no     *)
(* address" and also the NULL descriptor.                                  *)
(***************************************************************************)
EXTENDS Integers, Sequences, FiniteSets

CONSTANTS
    NVa,            \* pages of the application's mapping
    NDram,          \* dramsize / PAGE_SIZE: frames the policy may use
    NDisk,          \* disksize / PAGE_SIZE: slots of the swap device
    Threads,        \* application threads, which page for themselves
    Workers,        \* eviction workers, one per page they evict at a time
    Kswapd,         \* the background reclaim thread, or {} when it only sleeps
    Vals,           \* contents of a page
    Zero,           \* the contents of a page that was never written
    Stale,          \* what the swap device holds where nothing was written yet
    PrefetchRate    \* CORE_PREFETCH_RATE; 0 when TRY_PREFETCH is off

ASSUME SizeAssumption ==
    /\ NVa \in Nat /\ NDram \in Nat \ {0} /\ NDisk \in Nat \ {0}
    /\ PrefetchRate \in Nat
    /\ Zero \in Vals /\ Stale \in Vals

ASSUME ExecutorAssumption ==
    Threads \cap Workers = {} /\ Kswapd \cap (Threads \cup Workers) = {}

VA        == 1 .. NVa
Pages     == 1 .. (NDram + NDisk)
Offsets   == 0 .. (NDram + NDisk)
InDram(o) == o < NDram    \* offset < dramsize
InDisk(o) == o < NDisk    \* offset < disksize
Executors == Threads \cup Workers \cup Kswapd
Evictors  == Threads \cup Workers
Scanners  == Threads \cup Kswapd

(***************************************************************************)
(* The lists of disklinux.c.  The queues are dequeued, so their order      *)
(* matters; disk_active_list and disk_reserve_list only ever lose a member *)
(* that is named, so membership, the page's own list field, is all of them *)
(* that can be seen.                                                       *)
(***************************************************************************)
Queues == {"active", "inactive", "eviction", "dram_free", "disk_free"}
Lists  == Queues \cup {"disk_active", "disk_reserve", "none"}

VARIABLES
    page,    \* the descriptors
    fifo,    \* the queues, oldest entry (queue->last) first
    pages,   \* the hash table of core.c
    pte,     \* the kernel's page table for the mapping
    disk,    \* the swap device; it has contents at every offset a descriptor may
             \* name, so that an offset out of place shows as a failed property
    pc,      \* where each thread is
    fault,   \* locals of a thread that handles a fault
    scan,    \* the page a reclaim scan holds between two lists
    evict,   \* locals of an eviction
    failed   \* the assert() that ended the process, or "none"

sharedVars == <<page, fifo, pages, pte, disk>>
vars == <<page, fifo, pages, pte, disk, pc, fault, scan, evict, failed>>

-----------------------------------------------------------------------------
(* Types of the descriptors and of each thread's locals.                   *)

UserPage == [va : VA \cup {0}, virtual_offset : Offsets, in_dram : BOOLEAN,
             swapped_out : BOOLEAN, migrating : BOOLEAN,
             reserve : Pages \cup {0}, list : Lists]

Pte == [present : BOOLEAN, wp : BOOLEAN, dirty : BOOLEAN, data : Vals]

NoPte == [present |-> FALSE, wp |-> FALSE, dirty |-> FALSE, data |-> Zero]

\* job: which caller of the policy waits for a free frame.  reading: pages
\* whose contents are read from disk, the rest of prefetch_list; buf: what was
\* read; frees: freepage_list; page: the page the handler now works on.
NoFault == [addr |-> 0, job |-> "none", page |-> 0,
            reading |-> <<>>, buf |-> <<>>, frees |-> <<>>]

NoEvict == [victim |-> 0, dpage |-> 0, old_offset |-> 0,
            backed |-> FALSE, writeback |-> FALSE]

(***************************************************************************)
(* lrudisk_init and calloc: every frame and every slot gets a descriptor   *)
(* of its own, on the free list of its kind.                               *)
(***************************************************************************)
InitPage(p) ==
    [va |-> 0,
     virtual_offset |-> IF p <= NDram THEN p - 1 ELSE p - NDram - 1,
     in_dram |-> p <= NDram, swapped_out |-> p > NDram, migrating |-> FALSE,
     reserve |-> 0, list |-> IF p <= NDram THEN "dram_free" ELSE "disk_free"]

InitFifo ==
    [q \in Queues |-> CASE q = "dram_free" -> [i \in 1 .. NDram |-> i]
                        [] q = "disk_free" -> [i \in 1 .. NDisk |-> NDram + i]
                        [] OTHER           -> <<>>]

InitPages == /\ page = [p \in Pages |-> InitPage(p)]
             /\ fifo = InitFifo
             /\ pages = [v \in VA |-> 0]
             /\ pte = [v \in VA |-> NoPte]
             /\ disk = [s \in Offsets |-> Stale]

-----------------------------------------------------------------------------
(* fifo.c, on the sequence a list represents (module Fifo has the pointers).*)

EnqueueFifo(q, p) == [fifo EXCEPT ![q] = Append(@, p)]

DequeueFifo(q) == [fifo EXCEPT ![q] = Tail(@)]

\* The hash table of core.c, under pages_lock.
find_page(v) == pages[v]

add_page(v, p) == [pages EXCEPT ![v] = p]

\* Where an executor is, in a process that is alive.
At(e, label) == failed = "none" /\ pc[e] = label

\* assert(): the process aborts, and nothing more happens.
Abort(label) == /\ failed' = label
                /\ UNCHANGED <<sharedVars, pc, fault, scan, evict>>

-----------------------------------------------------------------------------
(* The kernel, as userfaultfd and madvise show it.                          *)

\* UFFDIO_COPY; the page comes in clean, the case in which a later eviction
\* relies on the copy on disk.
UffdioCopy(v, d) ==
    [pte EXCEPT ![v] = [present |-> TRUE, wp |-> FALSE, dirty |-> FALSE, data |-> d]]

\* UFFDIO_WRITEPROTECT of a page that has no page table entry has no effect.
UffdioWriteprotect(v) == [pte EXCEPT ![v].wp = @ \/ pte[v].present]

MadviseDontneed(v) == [pte EXCEPT ![v] = NoPte]

\* A write to the swap device, submitted and waited for.
DiskWrite(s, d) == [disk EXCEPT ![s] = d]

=============================================================================
