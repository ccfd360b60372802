------------------------------- MODULE Intercept -------------------------------
(***************************************************************************)
(* The interception layer: the hook on the system calls of the process,    *)
(* its filters, and the flag internal_call that tells the application's    *)
(* calls from the library's own.                                           *)
(*                                                                         *)
(* libc_mmap and libc_munmap are intercepted like any other call, so       *)
(* extmem_mmap and extmem_munmap come back to the hook.  internal_call is  *)
(* one flag of a thread, not a depth: the fault handlers clear it on some  *)
(* of their returns and leave it set on others, and extmem_mmap runs one   *)
(* of them for every page it populates.                                    *)
(***************************************************************************)
EXTENDS Naturals

CONSTANTS
    Apps,        \* threads of the application
    Daemons,     \* eviction and prefetch threads of the policy
    Main,        \* the thread that loads the library
    Pages        \* pages of a mapping that mmap populates

ASSUME InterceptAssumption == /\ Main \in Apps
                              /\ Apps \cap Daemons = {}
                              /\ Pages \in Nat \ {0}

AllThreads == Apps \cup Daemons

VARIABLES
    is_init,
    internal_call,     \* for each thread
    allocator_lock,    \* the threads that hold it
    at,                \* where each thread is
    frame,             \* whose call of handle_first_fault it is
    left,              \* pages that are left to populate
    syscall            \* the last call the hook was asked about

vars == <<is_init, internal_call, allocator_lock, at, frame, left, syscall>>

Mapping == [op : {"mmap"}, anonymous : BOOLEAN, stack : BOOLEAN, large : BOOLEAN]

Large == [op |-> "mmap", anonymous |-> TRUE, stack |-> FALSE, large |-> TRUE]
Buffer == [op |-> "mmap", anonymous |-> TRUE, stack |-> FALSE, large |-> FALSE]
Ring == [op |-> "mmap", anonymous |-> FALSE, stack |-> FALSE, large |-> FALSE]
Unmap == [op |-> "munmap"]

Init == /\ is_init = FALSE
        /\ internal_call = [t \in AllThreads |-> t = Main]
        /\ allocator_lock = {}
        /\ at = [t \in AllThreads |-> IF t = Main THEN "init" ELSE "none"]
        /\ frame = [t \in AllThreads |-> "none"]
        /\ left = [t \in AllThreads |-> 0]
        /\ syscall = [by |-> "nobody", native |-> TRUE, call |-> Ring]

GoTo(t, label) == at' = [at EXCEPT ![t] = label]

SetInternal(t, value) == internal_call' = [internal_call EXCEPT ![t] = value]

-----------------------------------------------------------------------------
(* The filters: which calls go to the kernel.                               *)

mmap_filter(t, call) ==
    \/ ~call.anonymous
    \/ call.stack
    \/ internal_call[t]
    \/ ~is_init
    \/ ~call.large

munmap_filter(t) == internal_call[t]

Native(t, call) == IF call.op = "mmap" THEN mmap_filter(t, call) ELSE munmap_filter(t)

Asked(t, who, call) == syscall' = [by |-> who, native |-> Native(t, call), call |-> call]

-----------------------------------------------------------------------------
(* Loading the library.                                                     *)

\* extmem_init: its buffers are mapped and the policy's threads started before
\* is_init is set.
InitMaps ==
    /\ at[Main] = "init"
    /\ Asked(Main, "extmem", Buffer)
    /\ UNCHANGED <<is_init, internal_call, allocator_lock, at, frame, left>>

StartDaemon(d) ==
    /\ at[Main] = "init" /\ at[d] = "none"
    /\ GoTo(d, "start")
    /\ UNCHANGED <<is_init, internal_call, allocator_lock, frame, left, syscall>>

\* The thread's first statement; "forever".
DaemonRuns(d) ==
    /\ at[d] = "start"
    /\ SetInternal(d, TRUE)
    /\ GoTo(d, "daemon")
    /\ UNCHANGED <<is_init, allocator_lock, frame, left, syscall>>

InitDone ==
    /\ at[Main] = "init"
    /\ \A d \in Daemons : at[d] # "none"
    /\ is_init' = TRUE
    /\ SetInternal(Main, FALSE)
    /\ GoTo(Main, "app")
    /\ UNCHANGED <<allocator_lock, frame, left, syscall>>

\* pthread_create of the application maps a stack.
StartThread(t, u) ==
    /\ at[t] = "app" /\ at[u] = "none"
    /\ Asked(t, "app", [Large EXCEPT !.stack = TRUE])
    /\ GoTo(u, "app")
    /\ UNCHANGED <<is_init, internal_call, allocator_lock, frame, left>>

-----------------------------------------------------------------------------
(* The application's calls.                                                 *)

hook(t, call) ==
    /\ at[t] = "app"
    /\ Asked(t, "app", call)
    /\ IF Native(t, call) THEN UNCHANGED at
       ELSE GoTo(t, IF call.op = "mmap" THEN "mmap" ELSE "munmap")
    /\ UNCHANGED <<is_init, internal_call, allocator_lock, frame, left>>

\* extmem_mmap up to libc_mmap: the same length, anonymous.
extmem_mmap(t) ==
    /\ at[t] = "mmap"
    /\ SetInternal(t, TRUE)
    /\ GoTo(t, "libc_mmap")
    /\ UNCHANGED <<is_init, allocator_lock, frame, left, syscall>>

libc_mmap(t) ==
    /\ at[t] = "libc_mmap"
    /\ Asked(t, "extmem", Large)
    /\ IF Native(t, Large)
       THEN /\ \E n \in {0, Pages} : left' = [left EXCEPT ![t] = n]
            /\ GoTo(t, "populate")
       ELSE /\ GoTo(t, "mmap")
            /\ UNCHANGED left
    /\ UNCHANGED <<is_init, internal_call, allocator_lock, frame>>

\* Mutant: the loop runs one page past the end of the mapping.
Populate_OffByOne(t) ==
    /\ at[t] = "populate"
    /\ left' = [left EXCEPT ![t] = @ - 1]
    /\ frame' = [frame EXCEPT ![t] = "populate"]
    /\ GoTo(t, "first")
    /\ UNCHANGED <<is_init, internal_call, allocator_lock, syscall>>

\* extmem_mmap_populate: a first fault for every page of the mapping.
Populate(t) ==
    /\ at[t] = "populate"
    /\ left[t] > 0
    /\ left' = [left EXCEPT ![t] = @ - 1]
    /\ frame' = [frame EXCEPT ![t] = "populate"]
    /\ GoTo(t, "first")
    /\ UNCHANGED <<is_init, internal_call, allocator_lock, syscall>>

MmapReturn(t) ==
    /\ at[t] = "populate"
    /\ left[t] = 0
    /\ SetInternal(t, FALSE)
    /\ GoTo(t, "app")
    /\ UNCHANGED <<is_init, allocator_lock, frame, left, syscall>>

\* Mutant: the flag is not set.
extmem_munmap_NoFlag(t) ==
    /\ at[t] = "munmap"
    /\ allocator_lock = {}
    /\ allocator_lock' = {t}
    /\ GoTo(t, "libc_munmap")
    /\ UNCHANGED <<is_init, internal_call, frame, left, syscall>>

\* extmem_munmap up to libc_munmap, which it calls with allocator_lock held.
extmem_munmap(t) ==
    /\ at[t] = "munmap"
    /\ allocator_lock = {}
    /\ allocator_lock' = {t}
    /\ SetInternal(t, TRUE)
    /\ GoTo(t, "libc_munmap")
    /\ UNCHANGED <<is_init, frame, left, syscall>>

libc_munmap(t) ==
    /\ at[t] = "libc_munmap"
    /\ Asked(t, "extmem", Unmap)
    /\ IF Native(t, Unmap)
       THEN /\ SetInternal(t, FALSE)
            /\ allocator_lock' = {}
            /\ GoTo(t, "app")
       ELSE /\ GoTo(t, "munmap")
            /\ UNCHANGED <<internal_call, allocator_lock>>
    /\ UNCHANGED <<is_init, frame, left>>

-----------------------------------------------------------------------------
(* Faults.                                                                  *)

\* uswap_sig_handler, on a page that is new, swapped out or write-protected.
uswap_sig_handler(t, kind) ==
    /\ is_init /\ at[t] = "app"
    /\ SetInternal(t, TRUE)
    /\ frame' = [frame EXCEPT ![t] = "signal"]
    /\ GoTo(t, kind)
    /\ UNCHANGED <<is_init, allocator_lock, left, syscall>>

\* A fault being handled maps a buffer or a ring the first time the thread
\* needs one; so does a daemon.
InternalMap(t, call) ==
    /\ at[t] \in {"frame", "missing", "daemon"}
    /\ Asked(t, "extmem", call)
    /\ UNCHANGED <<is_init, internal_call, allocator_lock, at, frame, left>>

\* handle_first_fault up to the frame it asks the policy for.
handle_first_fault(t) ==
    /\ at[t] = "first"
    /\ SetInternal(t, TRUE)
    /\ GoTo(t, "frame")
    /\ UNCHANGED <<is_init, allocator_lock, frame, left, syscall>>

\* The page is new: it is added under allocator_lock, mapped, and the flag
\* cleared.  Somebody else added it: the function returns, with the flag set.
FirstReturn(t) ==
    /\ at[t] = "frame"
    /\ allocator_lock = {}
    /\ \/ SetInternal(t, FALSE)
       \/ UNCHANGED internal_call
    /\ GoTo(t, frame[t])
    /\ UNCHANGED <<is_init, allocator_lock, frame, left, syscall>>

\* handle_missing_fault clears the flag unless somebody else moves the page;
\* handle_wp_fault leaves it.
MissingReturn(t) ==
    /\ \/ at[t] = "missing" /\ SetInternal(t, FALSE)
       \/ at[t] \in {"missing", "wp"} /\ UNCHANGED internal_call
    /\ GoTo(t, "signal")
    /\ UNCHANGED <<is_init, allocator_lock, frame, left, syscall>>

\* Mutant: the handlers are trusted to have cleared the flag.
SignalReturn_Trusts(t) ==
    /\ at[t] = "signal"
    /\ GoTo(t, "app")
    /\ UNCHANGED <<is_init, internal_call, allocator_lock, frame, left, syscall>>

SignalReturn(t) ==
    /\ at[t] = "signal"
    /\ SetInternal(t, FALSE)
    /\ GoTo(t, "app")
    /\ UNCHANGED <<is_init, allocator_lock, frame, left, syscall>>

-----------------------------------------------------------------------------
ExtMemStep(t) ==
    \/ extmem_mmap(t) \/ libc_mmap(t) \/ Populate(t) \/ MmapReturn(t)
    \/ extmem_munmap(t) \/ libc_munmap(t)
    \/ handle_first_fault(t) \/ FirstReturn(t) \/ MissingReturn(t)
    \/ SignalReturn(t)

Next ==
    \/ InitMaps \/ InitDone
    \/ \E d \in Daemons : StartDaemon(d) \/ DaemonRuns(d)
    \/ \E t \in Apps : ExtMemStep(t)
    \/ \E t, u \in Apps : StartThread(t, u)
    \/ \E t \in Apps, call \in Mapping \cup {Unmap} : hook(t, call)
    \/ \E t \in Apps, kind \in {"first", "missing", "wp"} : uswap_sig_handler(t, kind)
    \/ \E t \in AllThreads, call \in {Buffer, Ring} : InternalMap(t, call)

Spec == Init /\ [][Next]_vars

-----------------------------------------------------------------------------
\* Every variable keeps its type; a mapping is populated page by page to its end.
TypeOK ==
    /\ is_init \in BOOLEAN
    /\ internal_call \in [AllThreads -> BOOLEAN]
    /\ allocator_lock \subseteq Apps
    /\ at \in [AllThreads -> {"none", "init", "start", "daemon", "app", "mmap", "libc_mmap",
                              "populate", "munmap", "libc_munmap", "first", "frame",
                              "missing", "wp", "signal"}]
    /\ frame \in [AllThreads -> {"none", "populate", "signal"}]
    /\ left \in [AllThreads -> 0 .. Pages]
    /\ syscall \in [by : {"nobody", "app", "extmem"}, native : BOOLEAN,
                    call : Mapping \cup {Unmap}]

(* The library never manages its own memory: a call it makes itself goes to  *)
(* the kernel, whichever handlers ran in the thread before.  libc_munmap is  *)
(* called with allocator_lock held and would wait for it for ever, libc_mmap *)
(* would recurse.                                                            *)
InternalCallsAreNative == syscall.by = "extmem" => syscall.native

(* Nothing the application maps or unmaps escapes the library once it is     *)
(* initialised: a large anonymous mapping is managed, and every munmap is    *)
(* seen, although the fault handlers do not all clear internal_call.         *)
MappingsAreManaged ==
    /\ syscall.by = "app" /\ syscall.call \in {Large, Unmap} => ~syscall.native
    /\ \A t \in Apps : at[t] = "app" => ~internal_call[t]

=============================================================================
