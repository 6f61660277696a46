------------------------- MODULE UpdateThreadProofs -------------------------
(***************************************************************************)
(* UpdateThread is right for every depth of the shared memory and every    *)
(* way of cutting a frame: what is loaded is one frame, the loads are in   *)
(* order, and the reader of the double buffer is undisturbed for one       *)
(* update.  The proofs use the ring invariant of ShmFifo, whose writer the *)
(* publisher is, by instantiating its proofs without readers.              *)
(***************************************************************************)
EXTENDS UpdateThread, TLAPS

SP == INSTANCE ShmFifoReaderProofs WITH Readers <- {}

\* What is known of the shared memory: its types, its counters and data, and
\* where the newest frame is.
ShmInv == SP!TypeOK /\ SP!RingInv /\ SP!StampedPlace

\* The types of the rest.
UpdateTypes ==
    /\ counter \in Nat /\ idx \in 0 .. N-1 /\ left \subseteq Parts
    /\ loading \in Nat /\ loaded \in Nat
    /\ upc \in {"off", "startCnt", "test", "testCnt", "frame", "copy", "again", "againCnt"}
    /\ active \in Buffers /\ buf \in [Buffers -> [Parts -> Nat]]
    /\ cpc \in {"idle", "read"} /\ ptr \in Buffers
    /\ got \in [Parts -> Nat \cup {-1}] /\ shown \in [Parts -> Nat]
    /\ begun \in 0 .. 2

\* The frame being copied is not older than the one loaded before, the update
\* thread copies from the place of that frame, and what it has copied is that
\* frame until the publisher comes round to it.
LoadInv ==
    /\ loaded <= SP!HeadFrame
    /\ upc = "copy" =>
          /\ loaded <= loading /\ loading <= SP!HeadFrame
          /\ idx = SP!Place(loading)
          /\ SP!Newest < loading + N - 1
                => \A p \in Parts \ left : buf[Inactive][p] = loading

\* Until a second update begins, the buffer that the real-time thread has a
\* pointer to is not the one that an update writes.  In between it has read
\* nothing.
ConsumerInv ==
    /\ cpc = "idle" => \A p \in Parts : got[p] = -1
    /\ cpc = "read" /\ begun <= 1 =>
          /\ buf[ptr] = shown
          /\ \A p \in Parts : got[p] \in {-1, shown[p]}
          /\ begun = 0 => ptr = active /\ upc # "copy"
          /\ upc = "copy" => ptr = active

UpdateInv == ShmInv /\ UpdateTypes /\ LoadInv /\ ConsumerInv

-----------------------------------------------------------------------------
\* The instance that the proofs use is the one that the module uses.
LEMMA SameShm ==
    /\ S!Init <=> SP!Init
    /\ S!Newest = SP!Newest /\ S!HeadFrame = SP!HeadFrame
    /\ S!Image2Shm \/ PublishStep => SP!WriterCall \/ SP!WriterStep
<1>1. S!Init <=> SP!Init
  BY DEF S!Init, S!InitData, S!InitMetadata, S!InitSemaphores, S!InitReaders, S!Slots,
     S!Blank, S!NotCopied, S!SEMAPHORE_MAXVAL,
     SP!Init, SP!InitData, SP!InitMetadata, SP!InitSemaphores, SP!InitReaders, SP!Slots,
     SP!Blank, SP!NotCopied, SP!SEMAPHORE_MAXVAL
<1>2. S!Newest = SP!Newest /\ S!HeadFrame = SP!HeadFrame
  BY DEF S!Newest, S!HeadFrame, S!Stamped, S!Prior, SP!Newest, SP!HeadFrame, SP!Stamped, SP!Prior
<1>3. S!Image2Shm => SP!WriterCall
  BY DEF S!Image2Shm, S!BeginWrite, S!WritingIdx, S!Succ, S!reader,
     SP!WriterCall, SP!Image2Shm, SP!BeginWrite, SP!WritingIdx, SP!Succ, SP!reader
<1>4. PublishStep => SP!WriterStep
  BY DEF PublishStep, SP!WriterStep,
     S!CopyIn, S!Finalize, S!LowerFlag, S!FinalizeAdvance, S!TimestampShm, S!FinalizeReturn,
     S!WritingIdx, S!Succ, S!Prior, S!reader, S!shared,
     SP!CopyIn, SP!Finalize, SP!LowerFlag, SP!FinalizeAdvance, SP!TimestampShm,
     SP!FinalizeReturn, SP!WritingIdx, SP!Succ, SP!Prior, SP!reader, SP!shared
<1>5. QED
  BY <1>1, <1>2, <1>3, <1>4

\* Everything has just been made.
LEMMA InitUpdate == Init => UpdateInv
<1> SUFFICES ASSUME Init
             PROVE  UpdateInv
  OBVIOUS
<1>1. SP!Init
  BY SameShm DEF Init
<1>2. ShmInv
  <2>1. SP!TypeOK
    BY <1>1, SP!InitType, NAssumption, PartsAssumption, MaxFramesAssumption
  <2>2. SP!RingInv
    BY <1>1, SP!InitRing, NAssumption, PartsAssumption, MaxFramesAssumption
  <2>3. SP!StampedPlace
    BY <1>1, SP!InitView, NAssumption, PartsAssumption, MaxFramesAssumption DEF SP!ReaderView
  <2>4. QED
    BY <2>1, <2>2, <2>3 DEF ShmInv
<1>3. UpdateTypes
  BY NAssumption DEF Init, UpdateTypes, Buffers, Zero, Unread
<1>4. LoadInv
  <2>1. SP!HeadFrame \in Nat
    BY <1>2, SP!HeadPlace, NAssumption, PartsAssumption, MaxFramesAssumption DEF ShmInv
  <2>2. QED
    BY <2>1 DEF Init, LoadInv
<1>5. ConsumerInv
  BY DEF Init, ConsumerInv, Unread
<1>6. QED
  BY <1>2, <1>3, <1>4, <1>5 DEF UpdateInv

-----------------------------------------------------------------------------
(***************************************************************************)
(* The publisher.                                                          *)
(***************************************************************************)

\* A step of daoShmImage2Shm keeps what is known of the shared memory, and the
\* frames only get newer.
LEMMA PublisherShm ==
    ASSUME ShmInv, Publish
    PROVE  /\ ShmInv'
           /\ SP!Newest \in Nat /\ SP!Newest' \in Nat /\ SP!Newest <= SP!Newest'
           /\ SP!HeadFrame \in Nat /\ SP!HeadFrame' \in Nat
           /\ SP!HeadFrame <= SP!HeadFrame'
<1>1. SP!WriterCall \/ SP!WriterStep
  BY SameShm DEF Publish
<1>2. SP!TypeOK'
  BY <1>1, SP!WriterType, NAssumption, PartsAssumption, MaxFramesAssumption DEF ShmInv
<1>3. SP!RingInv'
  <2>1. [SP!Next]_SP!vars
    BY <1>1 DEF SP!Next
  <2>2. QED
    BY <2>1, SP!NextRing, NAssumption, PartsAssumption, MaxFramesAssumption DEF ShmInv
<1>4. SP!StampedPlace' /\ SP!HeadFrame <= SP!HeadFrame' /\ SP!HeadFrame' \in Nat
  BY <1>1, SP!WriterHead, NAssumption, PartsAssumption, MaxFramesAssumption DEF ShmInv
<1>5. SP!Newest \in Nat
  BY SP!OpenFollowsStamped, NAssumption, PartsAssumption, MaxFramesAssumption DEF ShmInv
<1>6. SP!Newest' \in Nat /\ SP!Newest <= SP!Newest'
  BY <1>1, SP!WriterGrows, NAssumption, PartsAssumption, MaxFramesAssumption DEF ShmInv
<1>7. SP!HeadFrame \in Nat
  BY SP!HeadPlace, NAssumption, PartsAssumption, MaxFramesAssumption DEF ShmInv
<1>8. QED
  BY <1>2, <1>3, <1>4, <1>5, <1>6, <1>7 DEF ShmInv

\* What has been copied stays the frame it is, until the publisher has come
\* round; the publisher touches nothing of the component.
LEMMA PublishKeeps ==
    ASSUME UpdateInv, Publish
    PROVE  UpdateInv'
<1>1. /\ ShmInv'
      /\ SP!Newest \in Nat /\ SP!Newest' \in Nat /\ SP!Newest <= SP!Newest'
      /\ SP!HeadFrame \in Nat /\ SP!HeadFrame' \in Nat
      /\ SP!HeadFrame <= SP!HeadFrame'
  BY PublisherShm DEF UpdateInv
<1>2. UNCHANGED <<item, buffer, consumer, begun>>
  BY DEF Publish
<1>3. UpdateTypes'
  BY <1>2 DEF UpdateInv, UpdateTypes, item, buffer, consumer
<1>4. LoadInv'
  <2>1. loading \in Nat /\ loaded \in Nat /\ N \in Nat
    BY NAssumption DEF UpdateInv, UpdateTypes
  <2>2. Inactive' = Inactive /\ SP!Place(loading)' = SP!Place(loading)
    BY <1>2 DEF item, buffer, Inactive, SP!Place
  <2>3. loaded <= SP!HeadFrame'
    BY <1>1, <2>1 DEF UpdateInv, LoadInv
  <2>4. loading <= SP!HeadFrame => loading <= SP!HeadFrame'
    BY <1>1, <2>1
  <2>5. SP!Newest' < loading + N - 1 => SP!Newest < loading + N - 1
    BY <1>1, <2>1
  <2>6. QED
    BY <1>2, <2>2, <2>3, <2>4, <2>5 DEF UpdateInv, LoadInv, item, buffer
<1>5. ConsumerInv'
  BY <1>2 DEF UpdateInv, ConsumerInv, item, buffer, consumer
<1>6. QED
  BY <1>1, <1>3, <1>4, <1>5 DEF UpdateInv

-----------------------------------------------------------------------------
(***************************************************************************)
(* The update thread.                                                      *)
(***************************************************************************)

\* The shared memory as it is for a step that leaves it alone.
LEMMA ShmKept ==
    ASSUME ShmInv, UNCHANGED shm
    PROVE  /\ ShmInv'
           /\ SP!Newest' = SP!Newest /\ SP!HeadFrame' = SP!HeadFrame
           /\ SP!Newest \in Nat /\ SP!HeadFrame \in Nat /\ SP!Newest <= SP!HeadFrame
           /\ lastWritten = SP!Place(SP!HeadFrame) /\ lastWritten \in 0 .. N-1
           /\ \A i \in 0 .. N-1 : cnt0[i] \in 0 .. SP!Newest
<1>1. SP!Newest' = SP!Newest /\ SP!HeadFrame' = SP!HeadFrame
  BY DEF shm, SP!Newest, SP!Stamped, SP!Prior, SP!HeadFrame
<1>2. ShmInv'
  BY <1>1 DEF ShmInv, shm, SP!TypeOK, SP!RingInv, SP!HistoryWindow, SP!DataInv,
     SP!StampedPlace, SP!Place, SP!Stamped, SP!Prior, SP!Open, SP!WritingIdx, SP!Succ
<1>3. SP!Newest \in Nat
  BY SP!OpenFollowsStamped, NAssumption, PartsAssumption, MaxFramesAssumption DEF ShmInv
<1>4. SP!HeadFrame \in Nat /\ SP!Newest <= SP!HeadFrame /\ lastWritten = SP!Place(SP!HeadFrame)
  BY SP!HeadPlace, NAssumption, PartsAssumption, MaxFramesAssumption DEF ShmInv
<1>5. lastWritten \in 0 .. N-1
  BY DEF ShmInv, SP!TypeOK, SP!Slots
<1>6. \A i \in 0 .. N-1 : cnt0[i] \in 0 .. SP!Newest
  BY SP!WindowLemma, NAssumption, PartsAssumption, MaxFramesAssumption DEF ShmInv, SP!Slots
<1>7. QED
  BY <1>1, <1>2, <1>3, <1>4, <1>5, <1>6

\* A step that reads shared memory, and neither copies nor swaps.
LEMMA PlainUpdate ==
    ASSUME UpdateInv, UNCHANGED <<shm, consumer, buffer, left, loading, begun>>,
           upc # "copy", upc' # "copy", loaded' \in Nat, loaded' <= SP!HeadFrame,
           idx' \in 0 .. N-1, counter' \in Nat,
           upc' \in {"off", "startCnt", "test", "testCnt", "frame", "again", "againCnt"}
    PROVE  UpdateInv'
<1>1. ShmInv' /\ SP!HeadFrame' = SP!HeadFrame
  BY ShmKept DEF UpdateInv
<1>2. UpdateTypes'
  BY DEF UpdateInv, UpdateTypes, consumer, buffer
<1>3. LoadInv'
  BY <1>1 DEF LoadInv
<1>4. ConsumerInv'
  BY DEF UpdateInv, ConsumerInv, consumer, buffer
<1>5. QED
  BY <1>1, <1>2, <1>3, <1>4 DEF UpdateInv

\* get_frame() takes the newest frame, from its place.
LEMMA GetFrameKeeps ==
    ASSUME UpdateInv, GetFrame
    PROVE  UpdateInv'
<1>1. UNCHANGED <<shm, consumer, buffer>>
  BY DEF GetFrame, ItemFrame
<1>2. /\ ShmInv' /\ SP!HeadFrame' = SP!HeadFrame /\ SP!HeadFrame \in Nat
      /\ lastWritten = SP!Place(SP!HeadFrame) /\ lastWritten \in 0 .. N-1
  BY <1>1, ShmKept DEF UpdateInv
<1>3. loading' = SP!HeadFrame /\ idx' = lastWritten /\ left' = Parts /\ loaded' = loaded
      /\ upc = "frame" /\ upc' = "copy" /\ counter' = counter
  BY SameShm DEF GetFrame
<1>4. begun' = IF cpc = "read" /\ begun < 2 THEN begun + 1 ELSE begun
  BY DEF GetFrame
<1>5. UpdateTypes'
  <2>1. begun' \in 0 .. 2
    BY <1>4 DEF UpdateInv, UpdateTypes
  <2>2. QED
    BY <1>1, <1>2, <1>3, <2>1 DEF UpdateInv, UpdateTypes, consumer, buffer
<1>6. LoadInv'
  <2>1. SP!Place(loading)' = SP!Place(SP!HeadFrame)
    BY <1>3 DEF SP!Place
  <2>2. loaded <= SP!HeadFrame
    BY DEF UpdateInv, LoadInv
  <2>3. Parts \ left' = {}
    BY <1>3
  <2>4. QED
    BY <1>2, <1>3, <2>1, <2>2, <2>3 DEF LoadInv
<1>7. ConsumerInv'
  <2>1. begun \in 0 .. 2
    BY DEF UpdateInv, UpdateTypes
  <2>2. begun' <= 1 /\ cpc = "read" => begun = 0 /\ begun' = 1
    BY <1>4, <2>1
  <2>3. QED
    BY <1>1, <1>3, <2>1, <2>2 DEF UpdateInv, ConsumerInv, consumer, buffer
<1>8. QED
  BY <1>2, <1>5, <1>6, <1>7 DEF UpdateInv

\* One piece of the memcpy to Passive(): it comes from the place of the frame,
\* and does not touch the buffer of a reader that is at its first update.
LEMMA CopyKeeps ==
    ASSUME UpdateInv, NEW p \in Parts, CopyPassive(p)
    PROVE  UpdateInv'
<1>1. /\ upc = "copy" /\ upc' = "copy" /\ p \in left /\ left' = left \ {p}
      /\ buf' = [buf EXCEPT ![Inactive][p] = data[idx][p]]
      /\ UNCHANGED <<shm, consumer, counter, idx, loading, loaded, active, begun>>
  BY DEF CopyPassive, ItemFrame
<1>2. ShmInv' /\ SP!HeadFrame' = SP!HeadFrame /\ SP!Newest' = SP!Newest
  BY <1>1, ShmKept DEF UpdateInv
<1>3. Inactive \in Buffers /\ Inactive # active /\ Inactive' = Inactive
  BY <1>1 DEF UpdateInv, UpdateTypes, Inactive, Buffers
<1>4. data[idx][p] \in Nat
  BY DEF UpdateInv, ShmInv, SP!TypeOK, SP!Slots, UpdateTypes
<1>5. /\ \A b \in Buffers : b # Inactive => buf'[b] = buf[b]
      /\ \A q \in Parts : buf'[Inactive][q] = IF q = p THEN data[idx][p] ELSE buf[Inactive][q]
      /\ buf' \in [Buffers -> [Parts -> Nat]]
  BY <1>1, <1>3, <1>4 DEF UpdateInv, UpdateTypes
<1>6. UpdateTypes'
  BY <1>1, <1>5 DEF UpdateInv, UpdateTypes, consumer
<1>7. LoadInv'
  <2>1. loading \in Nat /\ loading <= SP!HeadFrame /\ idx = SP!Place(loading)
    BY <1>1 DEF UpdateInv, UpdateTypes, LoadInv
  <2>2. ASSUME SP!Newest < loading + N - 1
        PROVE  \A q \in Parts \ left' : buf'[Inactive][q] = loading
    <3>1. data[idx][p] = SP!Content(loading)
      BY <2>1, <2>2, SP!PlaceHolds, NAssumption, PartsAssumption, MaxFramesAssumption
         DEF UpdateInv, ShmInv
    <3>2. data[idx][p] = loading
      BY <2>1, <3>1 DEF SP!Content
    <3>3. \A q \in Parts \ left : buf[Inactive][q] = loading
      BY <1>1, <2>2 DEF UpdateInv, LoadInv
    <3>4. QED
      BY <1>1, <1>5, <3>2, <3>3
  <2>3. SP!Place(loading)' = SP!Place(loading)
    BY <1>1 DEF SP!Place
  <2>4. QED
    BY <1>1, <1>2, <1>3, <2>1, <2>2, <2>3 DEF UpdateInv, LoadInv
<1>8. ConsumerInv'
  <2>1. cpc = "read" /\ begun <= 1 => ptr = active /\ active \in Buffers
    BY <1>1 DEF UpdateInv, ConsumerInv, UpdateTypes
  <2>2. cpc = "read" /\ begun <= 1 => buf'[ptr] = buf[ptr]
    BY <1>3, <1>5, <2>1
  <2>3. QED
    BY <1>1, <2>1, <2>2 DEF UpdateInv, ConsumerInv, consumer
<1>9. QED
  BY <1>2, <1>6, <1>7, <1>8 DEF UpdateInv

\* SwapBuffers: only at the end of an update, which a reader that took its
\* pointer before that update has counted.
LEMMA SwapKeeps ==
    ASSUME UpdateInv, SwapBuffers
    PROVE  UpdateInv'
<1>1. /\ upc = "copy" /\ upc' = "again" /\ active' = Inactive
      /\ loaded' = loading /\ loading' = 0 /\ idx' = 0
      /\ UNCHANGED <<shm, consumer, counter, left, buf, begun>>
  BY DEF SwapBuffers, ItemFrame
<1>2. ShmInv' /\ SP!HeadFrame' = SP!HeadFrame
  BY <1>1, ShmKept DEF UpdateInv
<1>3. Inactive \in Buffers
  BY DEF UpdateInv, UpdateTypes, Inactive, Buffers
<1>4. UpdateTypes'
  BY <1>1, <1>3, NAssumption DEF UpdateInv, UpdateTypes, consumer
<1>5. LoadInv'
  BY <1>1, <1>2 DEF UpdateInv, LoadInv
<1>6. ConsumerInv'
  BY <1>1 DEF UpdateInv, ConsumerInv, consumer
<1>7. QED
  BY <1>2, <1>4, <1>5, <1>6 DEF UpdateInv

\* No step of the update thread breaks the invariant, whatever the publisher and
\* the real-time thread are at.
LEMMA UpdateStepKeeps ==
    ASSUME UpdateInv, UpdateStep \/ Stopped
    PROVE  UpdateInv'
<1>1. ASSUME UNCHANGED shm
      PROVE  /\ SP!Newest \in Nat /\ SP!HeadFrame \in Nat /\ SP!Newest <= SP!HeadFrame
             /\ lastWritten \in 0 .. N-1 /\ cnt0[idx] \in 0 .. SP!Newest
             /\ counter \in Nat /\ loaded \in Nat /\ loaded <= SP!HeadFrame
             /\ idx \in 0 .. N-1 /\ 0 \in 0 .. N-1
  BY <1>1, ShmKept, NAssumption DEF UpdateInv, UpdateTypes, LoadInv
<1>2. ASSUME NEW from, NEW to, ReadHead(from, to),
             from \in {"off", "test", "again"}, to \in {"startCnt", "testCnt", "againCnt"}
      PROVE  UpdateInv'
  <2>1. UNCHANGED <<shm, consumer, buffer, left, loading, begun, counter, loaded>>
        /\ upc = from /\ upc' = to /\ idx' = lastWritten
    BY <1>2 DEF ReadHead, ItemFrame
  <2>2. QED
    BY <1>1, <1>2, <2>1, PlainUpdate
<1>3. CASE OnceOnStart \/ CheckHead \/ AgainHead
  BY <1>2, <1>3 DEF OnceOnStart, CheckHead, AgainHead
<1>4. CASE SetCounter
  <2>1. /\ UNCHANGED <<shm, consumer, buffer, left, loading, begun>>
        /\ upc = "startCnt" /\ upc' = "test" /\ idx' = 0 /\ counter' = cnt0[idx]
        /\ loaded' = IF cnt0[idx] > loaded THEN cnt0[idx] ELSE loaded
    BY <1>4 DEF SetCounter, ItemFrame
  <2>2. loaded' \in Nat /\ loaded' <= SP!HeadFrame /\ counter' \in Nat
    BY <1>1, <2>1
  <2>3. QED
    BY <1>1, <2>1, <2>2, PlainUpdate
<1>5. CASE CheckCounter
  <2>1. /\ UNCHANGED <<shm, consumer, buffer, left, loading, begun, counter, loaded>>
        /\ upc = "testCnt" /\ upc' \in {"frame", "test"} /\ idx' = 0
    BY <1>5 DEF CheckCounter, ItemFrame
  <2>2. QED
    BY <1>1, <2>1, PlainUpdate
<1>6. CASE AgainCounter
  <2>1. /\ UNCHANGED <<shm, consumer, buffer, left, loading, begun, loaded>>
        /\ upc = "againCnt" /\ upc' = "test" /\ idx' = 0 /\ counter' = cnt0[idx]
    BY <1>6 DEF AgainCounter, ItemFrame
  <2>2. counter' \in Nat
    BY <1>1, <2>1
  <2>3. QED
    BY <1>1, <2>1, <2>2, PlainUpdate
<1>7. CASE Stopped
  <2>1. /\ UNCHANGED <<shm, consumer, buffer, left, loading, begun, counter, loaded, idx>>
        /\ upc = "test" /\ upc' = "off"
    BY <1>7 DEF Stopped, ItemFrame
  <2>2. QED
    BY <1>1, <2>1, PlainUpdate
<1>8. QED
  BY <1>3, <1>4, <1>5, <1>6, <1>7, GetFrameKeeps, CopyKeeps, SwapKeeps DEF UpdateStep

-----------------------------------------------------------------------------
(***************************************************************************)
(* The real-time thread.                                                   *)
(***************************************************************************)

\* The real-time thread writes nothing that it shares, and reads the buffer it
\* has been given.
LEMMA ConsumerKeeps ==
    ASSUME UpdateInv, ConsumerStep
    PROVE  UpdateInv'
<1>1. UNCHANGED <<shm, item, buffer>>
  BY DEF ConsumerStep, Active, ReadPart, Processed
<1>2. ShmInv' /\ SP!HeadFrame' = SP!HeadFrame /\ SP!Newest' = SP!Newest
  BY <1>1, ShmKept DEF UpdateInv
<1>3. LoadInv'
  BY <1>1, <1>2 DEF UpdateInv, LoadInv, item, buffer, Inactive, SP!Place
<1>4. active \in Buffers /\ ptr \in Buffers /\ buf \in [Buffers -> [Parts -> Nat]]
      /\ got \in [Parts -> Nat \cup {-1}] /\ shown \in [Parts -> Nat]
      /\ begun \in 0 .. 2
  BY DEF UpdateInv, UpdateTypes
<1>5. CASE Active
  <2>1. /\ cpc = "idle" /\ cpc' = "read" /\ ptr' = active /\ shown' = buf[active]
        /\ begun' = (IF upc = "copy" THEN 1 ELSE 0) /\ got' = got
    BY <1>5 DEF Active
  <2>2. UpdateTypes'
    BY <1>1, <1>4, <2>1 DEF UpdateInv, UpdateTypes, item, buffer
  <2>3. \A p \in Parts : got[p] = -1
    BY <2>1 DEF UpdateInv, ConsumerInv
  <2>4. ConsumerInv'
    BY <1>1, <2>1, <2>3 DEF ConsumerInv, item, buffer
  <2>5. QED
    BY <1>2, <1>3, <2>2, <2>4 DEF UpdateInv
<1>6. ASSUME NEW p \in Parts, ReadPart(p)
      PROVE  UpdateInv'
  <2>1. /\ cpc = "read" /\ got' = [got EXCEPT ![p] = buf[ptr][p]]
        /\ UNCHANGED <<cpc, ptr, shown, begun>>
    BY <1>6 DEF ReadPart
  <2>2. UpdateTypes'
    BY <1>1, <1>4, <2>1 DEF UpdateInv, UpdateTypes, item, buffer
  <2>3. ConsumerInv'
    BY <1>1, <1>4, <2>1 DEF UpdateInv, ConsumerInv, item, buffer
  <2>4. QED
    BY <1>2, <1>3, <2>2, <2>3 DEF UpdateInv
<1>7. CASE Processed
  <2>1. /\ cpc' = "idle" /\ ptr' = 0 /\ got' = Unread /\ shown' = Zero /\ begun' = 0
    BY <1>7 DEF Processed
  <2>2. UpdateTypes'
    BY <1>1, <2>1 DEF UpdateInv, UpdateTypes, item, buffer, Buffers, Unread, Zero
  <2>3. ConsumerInv'
    BY <2>1 DEF ConsumerInv, Unread
  <2>4. QED
    BY <1>2, <1>3, <2>2, <2>3 DEF UpdateInv
<1>8. QED
  BY <1>5, <1>6, <1>7 DEF ConsumerStep

-----------------------------------------------------------------------------
(***************************************************************************)
(* Theorems.                                                               *)
(***************************************************************************)

\* The invariant of the publisher, the update thread and the real-time thread.
THEOREM UpdateCorrect == Spec => []UpdateInv
<1>1. UpdateInv /\ [Next]_vars => UpdateInv'
  <2>1. ASSUME UpdateInv, UNCHANGED vars
        PROVE  UpdateInv'
    <3>1. ShmInv' /\ SP!HeadFrame' = SP!HeadFrame /\ SP!Newest' = SP!Newest
      BY <2>1, ShmKept DEF UpdateInv, vars
    <3>2. QED
      BY <2>1, <3>1 DEF UpdateInv, UpdateTypes, LoadInv, ConsumerInv, Inactive, SP!Place,
         vars, item, buffer, consumer
  <2>2. QED
    BY <2>1, PublishKeeps, UpdateStepKeeps, ConsumerKeeps DEF Next
<1>2. QED
  BY <1>1, InitUpdate, PTL DEF Spec

\* ItemUpdate, CopyAndSwap: what is copied out of shared memory without a lock is
\* one frame, whole, for every depth and every speed of the publisher that does
\* not come round to the slot.
THEOREM WholeLoads == Spec => []LoadIsWhole
<1>1. UpdateInv => LoadIsWhole
  BY SameShm DEF UpdateInv, LoadInv, LoadIsWhole
<1>2. QED
  BY <1>1, UpdateCorrect, PTL

\* DoubleBuffer::Active: the reader of the buffer is undisturbed by one update.
THEOREM UndisturbedReader == Spec => []ConsumerUndisturbed
<1>1. UpdateInv => ConsumerUndisturbed
  BY DEF UpdateInv, ConsumerInv, ConsumerUndisturbed
<1>2. QED
  BY <1>1, UpdateCorrect, PTL

\* ItemUpdate: no swap replaces a frame by an older one, although the counter
\* that decides whether to load may go back.
THEOREM OrderedLoads == Spec => LoadsInOrder
<1>1. UpdateInv /\ [Next]_vars => [active' # active => loading >= loaded]_vars
  <2> SUFFICES ASSUME UpdateInv, Next, active' # active
               PROVE  loading >= loaded
    BY DEF vars, buffer
  <2>1. upc = "copy"
    BY DEF Next, Publish, UpdateStep, Stopped, ConsumerStep, OnceOnStart, SetCounter,
       CheckHead, CheckCounter, GetFrame, CopyPassive, SwapBuffers, AgainHead,
       AgainCounter, ReadHead, Active, ReadPart, Processed, buffer
  <2>2. loaded <= loading /\ loaded \in Nat /\ loading \in Nat
    BY <2>1 DEF UpdateInv, UpdateTypes, LoadInv
  <2>3. QED
    BY <2>2
<1>2. QED
  BY <1>1, UpdateCorrect, PTL DEF Spec, LoadsInOrder

\* The publisher inside this module is a writer of ShmFifo, and nothing that the
\* component does disturbs the shared memory.
THEOREM RefinesShmFifo == Spec => SP!Spec
<1>1. Init => SP!Init
  BY SameShm DEF Init
<1>2. [Next]_vars => [SP!Next]_SP!vars
  <2> SUFFICES ASSUME [Next]_vars
               PROVE  SP!Next \/ UNCHANGED SP!vars
    OBVIOUS
  <2>1. ASSUME UNCHANGED shm
        PROVE  UNCHANGED SP!vars
    BY <2>1 DEF shm, SP!vars, SP!shared, SP!writer, SP!reader
  <2>2. CASE Publish
    BY <2>2, SameShm DEF Publish, SP!Next
  <2>3. CASE UpdateStep \/ Stopped
    BY <2>1, <2>3 DEF UpdateStep, Stopped, OnceOnStart, SetCounter, CheckHead, CheckCounter,
       GetFrame, CopyPassive, SwapBuffers, AgainHead, AgainCounter, ReadHead, ItemFrame
  <2>4. CASE ConsumerStep
    BY <2>1, <2>4 DEF ConsumerStep, Active, ReadPart, Processed
  <2>5. CASE UNCHANGED vars
    BY <2>1, <2>5 DEF vars
  <2>6. QED
    BY <2>2, <2>3, <2>4, <2>5 DEF Next
<1>3. QED
  BY <1>1, <1>2, PTL DEF Spec, SP!Spec
=============================================================================
