---------------------------- MODULE UpdateThread ----------------------------
(***************************************************************************)
(* A component's update thread at work on one item: ItemUpdate and         *)
(* ComponentUpdateThread of include/daoComponentUpdateThread.hpp, between  *)
(* a shared memory that another process publishes to (ShmFifo, S) and a    *)
(* DoubleBuffer (include/daoDoubleBuffer.hpp) that the component's         *)
(* real-time thread reads.  None of the three takes a lock.                *)
(***************************************************************************)
EXTENDS Integers

CONSTANTS N, Parts, MaxFrames       \* see ShmFifo

ASSUME NAssumption == N \in Nat \ {0}
ASSUME PartsAssumption == Parts # {}
ASSUME MaxFramesAssumption == MaxFrames \in Nat

VARIABLES write, cnt0, data, lastWritten, sem, wpc, todo, unposted,
          rpc, li, tailIdx, tailCnt, seen, copy, base,  \* see ShmFifo
          counter,          \* m_counter of the ItemUpdate
          upc, idx, left,   \* update thread: where it is, the fifo index it has
                            \* read, the parts left to copy
          active, buf,      \* m_active_index and the two m_buffer
          cpc, ptr, got,    \* real-time thread: where it is, the buffer it has a
                            \* pointer to, what it has read from it
          loading,          \* the frame being copied
          loaded,           \* the newest frame loaded, or skipped by OnceOnStart
          shown, begun      \* the buffer as it was when Active() returned, and the
                            \* updates that have been at work since

S == INSTANCE ShmFifo WITH Readers <- {}

shm == <<write, cnt0, data, lastWritten, sem, wpc, todo, unposted,
         rpc, li, tailIdx, tailCnt, seen, copy, base>>
item == <<counter, upc, idx, left, loading, loaded>>
buffer == <<active, buf>>
consumer == <<cpc, ptr, got, shown>>
vars == <<shm, item, buffer, consumer, begun>>

Buffers == {0, 1}
Unread == [p \in Parts |-> -1]
Zero == [p \in Parts |-> 0]

Init ==
    /\ S!Init
    /\ counter = 0 /\ upc = "off" /\ idx = 0 /\ left = {}
    /\ loading = 0 /\ loaded = 0
    /\ active = 0 /\ buf = [b \in Buffers |-> Zero]
    /\ cpc = "idle" /\ ptr = 0 /\ got = Unread /\ shown = Zero /\ begun = 0

-----------------------------------------------------------------------------
\* The other process: daoShmImage2Shm, again and again.
PublishStep ==
    \/ \E p \in Parts : S!CopyIn(p)
    \/ S!Finalize \/ S!FinalizeAdvance \/ S!TimestampShm \/ S!FinalizeReturn

Publish == (S!Image2Shm \/ PublishStep) /\ UNCHANGED <<item, buffer, consumer, begun>>

-----------------------------------------------------------------------------
(***************************************************************************)
(* The update thread.  Shm::get_counter is two reads: the head, then the   *)
(* counter of that slot.                                                   *)
(***************************************************************************)
ItemFrame == UNCHANGED <<shm, consumer>>

ReadHead(from, to) ==
    /\ upc = from
    /\ upc' = to
    /\ idx' = lastWritten
    /\ UNCHANGED <<counter, left, loading, loaded, buffer, begun>>
    /\ ItemFrame

\* OnceOnStart: setCounter.  What was published before is not loaded.
OnceOnStart == ReadHead("off", "startCnt")

SetCounter ==
    /\ upc = "startCnt"
    /\ upc' = "test"
    /\ counter' = cnt0[idx]
    /\ loaded' = IF cnt0[idx] > loaded THEN cnt0[idx] ELSE loaded
    /\ idx' = 0
    /\ UNCHANGED <<left, loading, buffer, begun>>
    /\ ItemFrame

\* check_update: if (get_counter() > m_counter).
CheckHead == ReadHead("test", "testCnt")

\* Mutant: off by one, a single new frame is not noticed.
CheckCounterLate ==
    /\ upc = "testCnt"
    /\ upc' = IF cnt0[idx] > counter + 1 THEN "frame" ELSE "test"
    /\ idx' = 0
    /\ UNCHANGED <<counter, left, loading, loaded, buffer, begun>>
    /\ ItemFrame

CheckCounter ==
    /\ upc = "testCnt"
    /\ upc' = IF cnt0[idx] > counter THEN "frame" ELSE "test"
    /\ idx' = 0
    /\ UNCHANGED <<counter, left, loading, loaded, buffer, begun>>
    /\ ItemFrame

\* Mutant: takes the slot after the head.
GetFrameNext ==
    /\ upc = "frame"
    /\ upc' = "copy"
    /\ idx' = S!Succ(lastWritten)
    /\ left' = Parts
    /\ loading' = S!HeadFrame
    /\ begun' = IF cpc = "read" /\ begun < 2 THEN begun + 1 ELSE begun
    /\ UNCHANGED <<counter, loaded, buffer>>
    /\ ItemFrame

\* Mutant: takes the oldest frame of the ring.
GetFrameOldest ==
    /\ upc = "frame"
    /\ upc' = "copy"
    /\ idx' = S!Succ(lastWritten)
    /\ left' = Parts
    /\ loading' = cnt0[S!Succ(lastWritten)]
    /\ begun' = IF cpc = "read" /\ begun < 2 THEN begun + 1 ELSE begun
    /\ UNCHANGED <<counter, loaded, buffer>>
    /\ ItemFrame

\* get_frame(): a pointer into shared memory, to the newest segment.
GetFrame ==
    /\ upc = "frame"
    /\ upc' = "copy"
    /\ idx' = lastWritten
    /\ left' = Parts
    /\ loading' = S!HeadFrame
    /\ begun' = IF cpc = "read" /\ begun < 2 THEN begun + 1 ELSE begun
    /\ UNCHANGED <<counter, loaded, buffer>>
    /\ ItemFrame

Inactive == 1 - active

\* Mutant: the memcpy goes to the buffer in use.
CopyActive(p) ==
    /\ upc = "copy" /\ p \in left
    /\ left' = left \ {p}
    /\ buf' = [buf EXCEPT ![active][p] = data[idx][p]]
    /\ UNCHANGED <<counter, upc, idx, loading, loaded, active, begun>>
    /\ ItemFrame

\* CopyAndSwap: the memcpy to Passive(), then SwapBuffers().
CopyPassive(p) ==
    /\ upc = "copy" /\ p \in left
    /\ left' = left \ {p}
    /\ buf' = [buf EXCEPT ![Inactive][p] = data[idx][p]]
    /\ UNCHANGED <<counter, upc, idx, loading, loaded, active, begun>>
    /\ ItemFrame

SwapBuffers ==
    /\ upc = "copy" /\ left = {}
    /\ active' = Inactive
    /\ loaded' = loading
    /\ loading' = 0
    /\ upc' = "again"
    /\ idx' = 0
    /\ UNCHANGED <<counter, left, buf, begun>>
    /\ ItemFrame

\* m_counter = get_counter(), read anew.
AgainHead == ReadHead("again", "againCnt")

AgainCounter ==
    /\ upc = "againCnt"
    /\ upc' = "test"
    /\ counter' = cnt0[idx]
    /\ idx' = 0
    /\ UNCHANGED <<left, loading, loaded, buffer, begun>>
    /\ ItemFrame

\* The thread is stopped; a later Start runs OnceOnStart again.
Stopped ==
    /\ upc = "test"
    /\ upc' = "off"
    /\ UNCHANGED <<counter, idx, left, loading, loaded, buffer, begun>>
    /\ ItemFrame

UpdateStep ==
    \/ OnceOnStart \/ SetCounter
    \/ CheckHead \/ CheckCounter
    \/ GetFrame \/ (\E p \in Parts : CopyPassive(p)) \/ SwapBuffers
    \/ AgainHead \/ AgainCounter

-----------------------------------------------------------------------------
(***************************************************************************)
(* The real-time thread.                                                   *)
(***************************************************************************)
Active ==
    /\ cpc = "idle"
    /\ cpc' = "read"
    /\ ptr' = active
    /\ shown' = buf[active]
    /\ begun' = IF upc = "copy" THEN 1 ELSE 0
    /\ UNCHANGED <<shm, item, buffer, got>>

ReadPart(p) ==
    /\ cpc = "read" /\ got[p] = -1
    /\ got' = [got EXCEPT ![p] = buf[ptr][p]]
    /\ UNCHANGED <<shm, item, buffer, cpc, ptr, shown, begun>>

Processed ==
    /\ cpc = "read" /\ \A p \in Parts : got[p] # -1
    /\ cpc' = "idle"
    /\ ptr' = 0 /\ got' = Unread /\ shown' = Zero /\ begun' = 0
    /\ UNCHANGED <<shm, item, buffer>>

ConsumerStep == Active \/ (\E p \in Parts : ReadPart(p)) \/ Processed

Next == Publish \/ UpdateStep \/ Stopped \/ ConsumerStep

Spec == Init /\ [][Next]_vars

\* The publisher ends the frame it has begun, the update thread keeps polling.
FairSpec ==
    /\ Spec
    /\ WF_vars(PublishStep /\ UNCHANGED <<item, buffer, consumer, begun>>)
    /\ WF_vars(UpdateStep)
-----------------------------------------------------------------------------
(***************************************************************************)
(* Properties.                                                             *)
(***************************************************************************)

\* What the update thread has copied is the frame that was newest when it took
\* the pointer, unless the publisher has since come round the whole ring to
\* that slot.
LoadIsWhole ==
    upc = "copy" /\ S!Newest < loading + N - 1
        => \A p \in Parts \ left : buf[Inactive][p] = loading

\* The buffer that Active() returned stays as it was until the second update
\* begins (an update in progress counts as the first).
ConsumerUndisturbed ==
    cpc = "read" /\ begun <= 1 => \A p \in Parts : got[p] \in {-1, shown[p]}

\* The buffers are loaded in the order of publication: a swap never replaces a
\* frame by an older one, although m_counter itself may go back.
LoadsInOrder == [][active' # active => loading >= loaded]_vars

\* m_counter catches up with the shared memory whenever the publisher pauses,
\* so the thread does not reload the same frame for ever.
CounterCatchesUp == counter # S!Newest ~> counter = S!Newest
=============================================================================
