---------------------------- MODULE InterceptProofs ----------------------------
(***************************************************************************)
(* Proofs about the interception layer, for any number of threads and      *)
(* pages.                                                                  *)
(*                                                                         *)
(* What a call is taken for depends on internal_call alone, and several    *)
(* handlers return with the flag set.  The argument is that the flag is    *)
(* known wherever it matters: it is set at every place from which the      *)
(* library calls the kernel (FlagSet), and clear where the application     *)
(* runs (FlagClear), in every thread and after any nesting of handlers.    *)
(***************************************************************************)
EXTENDS Intercept, TLAPS

\* Places of a thread of the application, and of a daemon.
AppLabels == {"none", "init", "app", "mmap", "libc_mmap", "populate", "munmap", "libc_munmap",
              "first", "frame", "missing", "wp", "signal"}
DaemonLabels == {"none", "start", "daemon"}

\* From these places the library may call mmap or munmap itself.
CallingLabels == {"init", "libc_mmap", "libc_munmap", "frame", "missing", "daemon"}

\* A daemon handles no faults of its own, and no application thread is a daemon.
Roles == /\ \A t \in Apps : at[t] \in AppLabels
         /\ \A d \in Daemons : at[d] \in DaemonLabels

\* The library is loaded before a thread of the application runs.
Loaded == \A t \in Apps : at[t] \notin {"none", "init"} => is_init

\* A call of handle_first_fault has somewhere to return to.
Returns == \A t \in Apps : at[t] \in {"first", "frame"} => frame[t] # "none"

FlagSet == \A t \in AllThreads : at[t] \in CallingLabels => internal_call[t]

FlagClear == \A t \in AllThreads : at[t] \in {"none", "app"} => ~internal_call[t]

\* What the hook answered last.
Answered == /\ syscall.by = "extmem" => syscall.native
            /\ syscall.by = "app" /\ syscall.call \in {Large, Unmap} => ~syscall.native

InterceptInv == TypeOK /\ Roles /\ Loaded /\ Returns /\ FlagSet /\ FlagClear /\ Answered

USE DEF AppLabels, DaemonLabels, CallingLabels

\* The calls the model tells apart are well-typed and distinct.
LEMMA CallTypes ==
    /\ Large \in Mapping /\ Buffer \in Mapping /\ Ring \in Mapping
    /\ [Large EXCEPT !.stack = TRUE] \in Mapping
    /\ Unmap \notin Mapping
    /\ Large.op = "mmap" /\ Unmap.op = "munmap" /\ Buffer.op = "mmap" /\ Ring.op = "mmap"
    /\ Large.anonymous /\ Large.large /\ ~Large.stack
    /\ ~Buffer.large /\ ~Ring.anonymous
    /\ Large # [Large EXCEPT !.stack = TRUE] /\ Unmap # [Large EXCEPT !.stack = TRUE]
    /\ \A call \in Mapping : call.op = "mmap"
  BY DEF Large, Buffer, Ring, Unmap, Mapping

\* A place is left for another one: the parts of the invariant that say where
\* threads are hold again when they do for the thread that moved.
LEMMA Move ==
    ASSUME InterceptInv, NEW t \in AllThreads, NEW label, NEW flag \in BOOLEAN,
           at' = [at EXCEPT ![t] = label],
           internal_call' = [internal_call EXCEPT ![t] = flag],
           is_init' = is_init, frame' = frame,
           t \in Apps => label \in AppLabels,
           t \in Daemons => label \in DaemonLabels,
           t \in Apps /\ label \notin {"none", "init"} => is_init,
           label \in {"first", "frame"} => frame[t] # "none",
           label \in CallingLabels => flag,
           label \in {"none", "app"} => ~flag
    PROVE  /\ at' \in [AllThreads -> AppLabels \cup DaemonLabels]
           /\ internal_call' \in [AllThreads -> BOOLEAN]
           /\ Roles' /\ Loaded' /\ Returns' /\ FlagSet' /\ FlagClear'
  BY DEF InterceptInv, TypeOK, Roles, Loaded, Returns, FlagSet, FlagClear, AllThreads

\* The same when the handler leaves the flag alone.
LEMMA MoveOnly ==
    ASSUME InterceptInv, NEW t \in AllThreads, NEW label,
           at' = [at EXCEPT ![t] = label],
           UNCHANGED <<internal_call, is_init, frame>>,
           t \in Apps => label \in AppLabels,
           t \in Daemons => label \in DaemonLabels,
           t \in Apps /\ label \notin {"none", "init"} => is_init,
           label \in {"first", "frame"} => frame[t] # "none",
           label \in CallingLabels => internal_call[t],
           label \in {"none", "app"} => ~internal_call[t]
    PROVE  /\ at' \in [AllThreads -> AppLabels \cup DaemonLabels]
           /\ internal_call' \in [AllThreads -> BOOLEAN]
           /\ Roles' /\ Loaded' /\ Returns' /\ FlagSet' /\ FlagClear'
  <1>1. internal_call[t] \in BOOLEAN /\ internal_call' = [internal_call EXCEPT ![t] = internal_call[t]]
    BY DEF InterceptInv, TypeOK
  <1> QED  BY <1>1, Move

\* What the filters answer to a call.
LEMMA Filters ==
    ASSUME InterceptInv, NEW t \in AllThreads, NEW call \in Mapping \cup {Unmap}
    PROVE  /\ Native(t, call) \in BOOLEAN
           /\ internal_call[t] => Native(t, call)
           /\ call \in {Buffer, Ring} => Native(t, call)
           /\ is_init /\ ~internal_call[t] /\ call \in {Large, Unmap} => ~Native(t, call)
  BY CallTypes DEF InterceptInv, TypeOK, Native, mmap_filter, munmap_filter, Mapping

\* The hook's answer to a call is the right one: for the library's own calls
\* when its flag is set or the call is of a kind it never manages, for the
\* application's when the flag is clear.
LEMMA Answers ==
    ASSUME InterceptInv, NEW t \in AllThreads, NEW who \in {"app", "extmem"},
           NEW call \in Mapping \cup {Unmap}, Asked(t, who, call),
           who = "extmem" => internal_call[t] \/ call \in {Buffer, Ring},
           who = "app" => is_init /\ ~internal_call[t]
    PROVE  /\ Answered'
           /\ syscall' \in [by : {"nobody", "app", "extmem"}, native : BOOLEAN,
                            call : Mapping \cup {Unmap}]
  BY Filters DEF Asked, Answered

-----------------------------------------------------------------------------
(* One lemma for each action.                                               *)

\* extmem_init calls mmap, starts the daemons and sets is_init.
LEMMA LoadingInv ==
    ASSUME InterceptInv,
           InitMaps \/ InitDone \/ \E d \in Daemons : StartDaemon(d) \/ DaemonRuns(d)
    PROVE  InterceptInv'
  <1> USE InterceptAssumption DEF GoTo, SetInternal, AllThreads
  <1>1. CASE InitMaps
    <2>1. Answered' /\ syscall' \in [by : {"nobody", "app", "extmem"}, native : BOOLEAN,
                                     call : Mapping \cup {Unmap}]
      BY <1>1, Answers, CallTypes DEF InitMaps
    <2> QED  BY <1>1, <2>1 DEF InitMaps, InterceptInv, TypeOK, Roles, Loaded, Returns, FlagSet, FlagClear
  <1>2. CASE InitDone
    <2>1. /\ is_init' = TRUE
          /\ internal_call' = [internal_call EXCEPT ![Main] = FALSE]
          /\ at' = [at EXCEPT ![Main] = "app"]
          /\ UNCHANGED <<allocator_lock, frame, left, syscall>>
      BY <1>2 DEF InitDone
    <2>2. TypeOK' /\ Answered'
      BY <2>1 DEF InterceptInv, TypeOK, Answered
    <2> QED  BY <2>1, <2>2 DEF InterceptInv, TypeOK, Roles, Loaded, Returns, FlagSet, FlagClear
  <1>3. ASSUME NEW d \in Daemons, StartDaemon(d)  PROVE InterceptInv'
    BY <1>3, MoveOnly DEF StartDaemon, InterceptInv, TypeOK, Answered
  <1>4. ASSUME NEW d \in Daemons, DaemonRuns(d)  PROVE InterceptInv'
    BY <1>4, Move DEF DaemonRuns, InterceptInv, TypeOK, Answered
  <1> QED  BY <1>1, <1>2, <1>3, <1>4

\* pthread_create of the application.
LEMMA StartThreadInv ==
    ASSUME InterceptInv, NEW t \in Apps, NEW u \in Apps, StartThread(t, u)
    PROVE  InterceptInv'
  <1> USE DEF GoTo, AllThreads
  <1>1. is_init /\ ~internal_call[t] /\ ~internal_call[u]
    BY DEF StartThread, InterceptInv, Loaded, FlagClear
  <1>2. Answered' /\ syscall' \in [by : {"nobody", "app", "extmem"}, native : BOOLEAN,
                                   call : Mapping \cup {Unmap}]
    BY <1>1, Answers, CallTypes DEF StartThread
  <1>3. /\ at' \in [AllThreads -> AppLabels \cup DaemonLabels]
        /\ Roles' /\ Loaded' /\ Returns' /\ FlagSet' /\ FlagClear'
    BY <1>1, MoveOnly, InterceptAssumption DEF StartThread
  <1> QED  BY <1>2, <1>3 DEF StartThread, InterceptInv, TypeOK

\* The hook, on a call of the application.
LEMMA HookInv ==
    ASSUME InterceptInv, NEW t \in Apps, NEW call \in Mapping \cup {Unmap}, hook(t, call)
    PROVE  InterceptInv'
  <1> USE DEF GoTo, AllThreads
  <1>1. is_init /\ ~internal_call[t]
    BY DEF hook, InterceptInv, Loaded, FlagClear
  <1>2. Answered' /\ syscall' \in [by : {"nobody", "app", "extmem"}, native : BOOLEAN,
                                   call : Mapping \cup {Unmap}]
    BY <1>1, Answers DEF hook
  <1>3. /\ at' \in [AllThreads -> AppLabels \cup DaemonLabels]
        /\ Roles' /\ Loaded' /\ Returns' /\ FlagSet' /\ FlagClear'
    <2>1. CASE Native(t, call)
      BY <2>1 DEF hook, InterceptInv, TypeOK, Roles, Loaded, Returns, FlagSet, FlagClear
    <2>2. CASE ~Native(t, call)
      BY <1>1, <2>2, MoveOnly, InterceptAssumption DEF hook
    <2> QED  BY <2>1, <2>2
  <1> QED  BY <1>2, <1>3 DEF hook, InterceptInv, TypeOK

\* extmem_mmap and extmem_mmap_populate.
LEMMA MmapInv ==
    ASSUME InterceptInv, NEW t \in Apps,
           extmem_mmap(t) \/ libc_mmap(t) \/ Populate(t) \/ MmapReturn(t)
    PROVE  InterceptInv'
  <1> USE DEF GoTo, SetInternal, AllThreads
  <1>0. t \notin Daemons
    BY InterceptAssumption
  <1>1. CASE extmem_mmap(t)
    BY <1>0, <1>1, Move DEF extmem_mmap, InterceptInv, TypeOK, Loaded, Answered
  <1>2. CASE libc_mmap(t)
    <2>1. internal_call[t] /\ is_init /\ Native(t, Large)
      BY <1>2, Filters, CallTypes DEF libc_mmap, InterceptInv, FlagSet, Loaded
    <2>2. Answered' /\ syscall' \in [by : {"nobody", "app", "extmem"}, native : BOOLEAN,
                                     call : Mapping \cup {Unmap}]
      BY <1>2, <2>1, Answers, CallTypes DEF libc_mmap
    <2>3. /\ at' \in [AllThreads -> AppLabels \cup DaemonLabels]
          /\ Roles' /\ Loaded' /\ Returns' /\ FlagSet' /\ FlagClear'
      BY <1>0, <1>2, <2>1, MoveOnly DEF libc_mmap
    <2>4. left' \in [AllThreads -> 0 .. Pages]
      BY <1>2, <2>1, InterceptAssumption DEF libc_mmap, InterceptInv, TypeOK
    <2> QED  BY <1>2, <2>2, <2>3, <2>4 DEF libc_mmap, InterceptInv, TypeOK
  <1>3. CASE Populate(t)
    <2>1. is_init /\ left[t] \in 1 .. Pages
      BY <1>3, InterceptAssumption DEF Populate, InterceptInv, TypeOK, Loaded
    <2>2. left' \in [AllThreads -> 0 .. Pages]
      BY <1>3, <2>1, InterceptAssumption DEF Populate, InterceptInv, TypeOK
    <2>3. TypeOK' /\ Answered'
      BY <1>3, <2>2 DEF Populate, InterceptInv, TypeOK, Answered
    <2> QED
      BY <1>0, <1>3, <2>1, <2>3
      DEF Populate, InterceptInv, TypeOK, Roles, Loaded, Returns, FlagSet, FlagClear
  <1>4. CASE MmapReturn(t)
    BY <1>0, <1>4, Move DEF MmapReturn, InterceptInv, TypeOK, Loaded, Answered
  <1> QED  BY <1>1, <1>2, <1>3, <1>4

\* extmem_munmap.
LEMMA MunmapInv ==
    ASSUME InterceptInv, NEW t \in Apps, extmem_munmap(t) \/ libc_munmap(t)
    PROVE  InterceptInv'
  <1> USE DEF GoTo, SetInternal, AllThreads
  <1>0. t \notin Daemons
    BY InterceptAssumption
  <1>1. CASE extmem_munmap(t)
    BY <1>0, <1>1, Move DEF extmem_munmap, InterceptInv, TypeOK, Loaded, Answered
  <1>2. CASE libc_munmap(t)
    <2>1. internal_call[t] /\ is_init /\ Native(t, Unmap)
      BY <1>2, Filters, CallTypes DEF libc_munmap, InterceptInv, FlagSet, Loaded
    <2>2. Answered' /\ syscall' \in [by : {"nobody", "app", "extmem"}, native : BOOLEAN,
                                     call : Mapping \cup {Unmap}]
      BY <1>2, <2>1, Answers, CallTypes DEF libc_munmap
    <2>3. /\ at' \in [AllThreads -> AppLabels \cup DaemonLabels]
          /\ internal_call' \in [AllThreads -> BOOLEAN]
          /\ Roles' /\ Loaded' /\ Returns' /\ FlagSet' /\ FlagClear'
      BY <1>0, <1>2, <2>1, Move DEF libc_munmap
    <2> QED  BY <1>2, <2>1, <2>2, <2>3 DEF libc_munmap, InterceptInv, TypeOK
  <1> QED  BY <1>1, <1>2

\* The signal handler and the fault handlers, with the flag as each leaves it.
LEMMA FaultInv ==
    ASSUME InterceptInv, NEW t \in Apps,
           \/ \E kind \in {"first", "missing", "wp"} : uswap_sig_handler(t, kind)
           \/ handle_first_fault(t) \/ FirstReturn(t) \/ MissingReturn(t) \/ SignalReturn(t)
    PROVE  InterceptInv'
  <1> USE DEF GoTo, SetInternal, AllThreads
  <1>0. t \notin Daemons
    BY InterceptAssumption
  <1>1. ASSUME NEW kind \in {"first", "missing", "wp"}, uswap_sig_handler(t, kind)
        PROVE  InterceptInv'
    <2>1. TypeOK' /\ Answered'
      BY <1>1 DEF uswap_sig_handler, InterceptInv, TypeOK, Answered
    <2> QED
      BY <1>0, <1>1, <2>1
      DEF uswap_sig_handler, InterceptInv, TypeOK, Roles, Loaded, Returns, FlagSet, FlagClear
  <1>2. CASE handle_first_fault(t)
    BY <1>0, <1>2, Move DEF handle_first_fault, InterceptInv, TypeOK, Loaded, Returns, Answered
  <1>3. CASE FirstReturn(t)
    <2>1. is_init /\ frame[t] \in {"populate", "signal"}
      BY <1>3 DEF FirstReturn, InterceptInv, TypeOK, Loaded, Returns
    <2>2. CASE internal_call' = [internal_call EXCEPT ![t] = FALSE]
      BY <1>0, <1>3, <2>1, <2>2, Move DEF FirstReturn, InterceptInv, TypeOK, Answered
    <2>3. CASE UNCHANGED internal_call
      BY <1>0, <1>3, <2>1, <2>3, MoveOnly DEF FirstReturn, InterceptInv, TypeOK, Answered
    <2> QED  BY <1>3, <2>2, <2>3 DEF FirstReturn
  <1>4. CASE MissingReturn(t)
    <2>1. is_init
      BY <1>4 DEF MissingReturn, InterceptInv, Loaded
    <2>2. CASE internal_call' = [internal_call EXCEPT ![t] = FALSE]
      BY <1>0, <1>4, <2>1, <2>2, Move DEF MissingReturn, InterceptInv, TypeOK, Answered
    <2>3. CASE UNCHANGED internal_call
      BY <1>0, <1>4, <2>1, <2>3, MoveOnly DEF MissingReturn, InterceptInv, TypeOK, Answered
    <2> QED  BY <1>4, <2>2, <2>3 DEF MissingReturn
  <1>5. CASE SignalReturn(t)
    BY <1>0, <1>5, Move DEF SignalReturn, InterceptInv, TypeOK, Loaded, Answered
  <1> QED  BY <1>1, <1>2, <1>3, <1>4, <1>5

\* Buffers and rings that are mapped the first time they are needed.
LEMMA InternalMapInv ==
    ASSUME InterceptInv, NEW t \in AllThreads, NEW call \in {Buffer, Ring}, InternalMap(t, call)
    PROVE  InterceptInv'
  <1>1. Answered' /\ syscall' \in [by : {"nobody", "app", "extmem"}, native : BOOLEAN,
                                   call : Mapping \cup {Unmap}]
    BY Answers, CallTypes DEF InternalMap
  <1> QED
    BY <1>1
    DEF InternalMap, InterceptInv, TypeOK, Roles, Loaded, Returns, FlagSet, FlagClear

\* Every step preserves the invariant.
LEMMA StepInv == InterceptInv /\ [Next]_vars => InterceptInv'
  <1> SUFFICES ASSUME InterceptInv, [Next]_vars  PROVE InterceptInv'
    OBVIOUS
  <1>1. CASE UNCHANGED vars
    BY <1>1
    DEF vars, InterceptInv, TypeOK, Roles, Loaded, Returns, FlagSet, FlagClear, Answered
  <1>2. CASE InitMaps \/ InitDone \/ \E d \in Daemons : StartDaemon(d) \/ DaemonRuns(d)
    BY <1>2, LoadingInv
  <1>3. ASSUME NEW t \in Apps, ExtMemStep(t)  PROVE InterceptInv'
    BY <1>3, MmapInv, MunmapInv, FaultInv DEF ExtMemStep
  <1>4. CASE \E t, u \in Apps : StartThread(t, u)
    BY <1>4, StartThreadInv
  <1>5. CASE \E t \in Apps, call \in Mapping \cup {Unmap} : hook(t, call)
    BY <1>5, HookInv
  <1>6. CASE \E t \in Apps, kind \in {"first", "missing", "wp"} : uswap_sig_handler(t, kind)
    BY <1>6, FaultInv
  <1>7. CASE \E t \in AllThreads, call \in {Buffer, Ring} : InternalMap(t, call)
    BY <1>7, InternalMapInv
  <1> QED  BY <1>1, <1>2, <1>3, <1>4, <1>5, <1>6, <1>7 DEF Next

\* The invariant holds in every state.
LEMMA Invariance == Spec => []InterceptInv
  <1>1. Init => InterceptInv
    <2> SUFFICES ASSUME Init  PROVE InterceptInv
      OBVIOUS
    <2>1. TypeOK
      <3>1. internal_call \in [AllThreads -> BOOLEAN]
        BY Zenon DEF Init
      <3>2. syscall \in [by : {"nobody", "app", "extmem"}, native : BOOLEAN,
                         call : Mapping \cup {Unmap}]
        BY CallTypes DEF Init
      <3>3. left \in [AllThreads -> 0 .. Pages] /\ frame \in [AllThreads -> {"none", "populate", "signal"}]
        BY InterceptAssumption DEF Init
      <3>4. at \in [AllThreads -> AppLabels \cup DaemonLabels]
        BY DEF Init
      <3> QED  BY <3>1, <3>2, <3>3, <3>4 DEF Init, TypeOK
    <2>2. Roles /\ Loaded /\ Returns
      BY InterceptAssumption DEF Init, AllThreads, Roles, Loaded, Returns
    <2>3. \A t \in AllThreads : at[t] \in {"init", "none"} /\ (internal_call[t] <=> at[t] = "init")
      BY DEF Init
    <2>4. FlagSet /\ FlagClear
      BY <2>3 DEF FlagSet, FlagClear
    <2> QED  BY <2>1, <2>2, <2>4 DEF Init, InterceptInv, Answered
  <1> QED  BY <1>1, StepInv, PTL DEF Spec

-----------------------------------------------------------------------------
\* Every variable of the layer keeps its type; populating a mapping of any size
\* ends with its last page.
THEOREM InterceptTypes == Spec => []TypeOK
  <1>1. InterceptInv => TypeOK
    BY DEF InterceptInv
  <1> QED  BY <1>1, Invariance, PTL

\* A call the library makes itself goes to the kernel, with any number of
\* threads and whichever handlers ran in the thread before.
THEOREM LibraryCallsAreNative == Spec => []InternalCallsAreNative
  <1>1. InterceptInv => InternalCallsAreNative
    BY DEF InterceptInv, Answered, InternalCallsAreNative
  <1> QED  BY <1>1, Invariance, PTL

\* No large mapping and no munmap of the application escapes the library.
THEOREM ApplicationIsManaged == Spec => []MappingsAreManaged
  <1>1. InterceptInv => MappingsAreManaged
    BY DEF InterceptInv, Answered, FlagClear, MappingsAreManaged, AllThreads
  <1> QED  BY <1>1, Invariance, PTL

=============================================================================
