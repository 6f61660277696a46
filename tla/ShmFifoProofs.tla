--------------------------- MODULE ShmFifoProofs ---------------------------
(***************************************************************************)
(* Theorems about ShmFifo, for every depth N, every set of readers and     *)
(* every way of cutting a frame into parts.                                *)
(***************************************************************************)
EXTENDS ShmFifo, TLAPS

-----------------------------------------------------------------------------
(***************************************************************************)
(* Index arithmetic.                                                       *)
(***************************************************************************)

\* (last_written + 1) % fifo_size is the next slot, or 0 after the last one.
LEMMA SuccLemma ==
    ASSUME NEW i \in Slots
    PROVE  /\ Succ(i) = IF i = N - 1 THEN 0 ELSE i + 1
           /\ Succ(i) \in Slots
<1>1. N \in Nat /\ N > 0 /\ i \in Nat /\ i < N
  BY NAssumption DEF Slots
<1>2. CASE i = N - 1
  <2>1. N % N = 0
    BY <1>1
  <2>2. QED
    BY <1>1, <1>2, <2>1 DEF Succ, Slots
<1>3. CASE i # N - 1
  <2>1. i + 1 \in Nat /\ i + 1 < N
    BY <1>1, <1>3
  <2>2. (i + 1) % N = i + 1
    BY <1>1, <2>1
  <2>3. QED
    BY <1>1, <1>3, <2>1, <2>2 DEF Succ, Slots
<1>4. QED
  BY <1>2, <1>3

\* The slot that daoShmTimestampShm counts from is the one before the head.
LEMMA PriorLemma ==
    ASSUME NEW i \in Slots
    PROVE  /\ Prior(i) \in Slots
           /\ Prior(Succ(i)) = i
           /\ Succ(Prior(i)) = i
<1>1. N \in Nat /\ N > 0 /\ i \in Nat /\ i < N
  BY NAssumption DEF Slots
<1>2. Prior(i) \in Slots
  BY <1>1 DEF Prior, Slots
<1>3. Prior(Succ(i)) = i
  BY <1>1, SuccLemma DEF Prior
<1>4. Succ(Prior(i)) = i
  BY <1>1, <1>2, SuccLemma DEF Prior
<1>5. QED
  BY <1>2, <1>3, <1>4

-----------------------------------------------------------------------------
(***************************************************************************)
(* Types.                                                                  *)
(***************************************************************************)

\* A shared memory just created has the declared types.
LEMMA InitType == Init => TypeOK
BY NAssumption DEF Init, InitData, InitMetadata, InitSemaphores, InitReaders, TypeOK,
                   Slots, WriterAt, ReaderAt, SEMAPHORE_MAXVAL, Blank, NotCopied

\* No step of the writer leaves the types; daoSemPost respects SEMAPHORE_MAXVAL.
LEMMA WriterType == TypeOK /\ (WriterCall \/ WriterStep) => TypeOK'
<1> SUFFICES ASSUME TypeOK, WriterCall \/ WriterStep
             PROVE  TypeOK'
  OBVIOUS
<1>0. WritingIdx \in Slots
  BY SuccLemma DEF TypeOK, WritingIdx
<1>1. ASSUME NEW ps, NEW next, ps \subseteq Parts, next \in {"frame", "stage"},
             BeginWrite(ps, next)
      PROVE  TypeOK'
  BY <1>0, <1>1 DEF TypeOK, BeginWrite, reader, WriterAt
<1>2. CASE WriterCall
  <2>1. CASE Image2Shm \/ Image2ShmQuiet \/ CombineShm2Shm
    BY <2>1, <1>1 DEF Image2Shm, Image2ShmQuiet, CombineShm2Shm
  <2>2. CASE \E p \in Parts : ImagePart2Shm(p)
    BY <2>2, <1>1 DEF ImagePart2Shm
  <2>3. CASE CombineTooManyChannels
    BY <1>0, <2>3 DEF TypeOK, CombineTooManyChannels, writer, reader
  <2>4. CASE ImagePart2ShmFinalize
    BY <1>0, <2>4 DEF TypeOK, ImagePart2ShmFinalize, LowerFlag, reader, WriterAt
  <2>5. QED
    BY <1>2, <2>1, <2>2, <2>3, <2>4 DEF WriterCall
<1>3. CASE WriterStep
  <2>1. ASSUME NEW p \in Parts, CopyIn(p)
        PROVE  TypeOK'
    BY <1>0, <2>1 DEF TypeOK, CopyIn, reader
  <2>2. CASE EndStage
    BY <1>0, <2>2 DEF TypeOK, EndStage, reader, WriterAt
  <2>3. CASE Finalize
    BY <1>0, <2>3 DEF TypeOK, Finalize, LowerFlag, reader, WriterAt
  <2>4. CASE FinalizeAdvance
    BY <1>0, <2>4 DEF TypeOK, FinalizeAdvance, reader, WriterAt
  <2>5. CASE TimestampShm
    BY <2>5, PriorLemma DEF TypeOK, TimestampShm, reader, WriterAt
  <2>6. ASSUME NEW r \in Readers, SemPost(r)
        PROVE  TypeOK'
    <3>1. sem' \in [Readers -> 0 .. SEMAPHORE_MAXVAL]
      <4>1. sem[r] \in 0 .. 1
        BY DEF TypeOK, SEMAPHORE_MAXVAL
      <4>2. CASE sem[r] < 1
        <5>1. sem[r] + 1 \in 0 .. 1
          BY <4>1, <4>2
        <5>2. sem' = [sem EXCEPT ![r] = sem[r] + 1]
          BY <4>2, <2>6 DEF SemPost, SEMAPHORE_MAXVAL
        <5>3. QED
          BY <5>1, <5>2 DEF TypeOK, SEMAPHORE_MAXVAL
      <4>3. CASE ~(sem[r] < 1)
        BY <4>3, <2>6 DEF TypeOK, SemPost, SEMAPHORE_MAXVAL
      <4>4. QED
        BY <4>2, <4>3
    <3>2. QED
      BY <2>6, <3>1 DEF TypeOK, SemPost, shared, reader
  <2>7. CASE FinalizeReturn
    BY <2>7 DEF TypeOK, FinalizeReturn, shared, reader, WriterAt
  <2>8. QED
    BY <1>3, <2>1, <2>2, <2>3, <2>4, <2>5, <2>6, <2>7 DEF WriterStep
<1>4. QED
  BY <1>2, <1>3

\* The open slot follows the newest stamped one, in and out of a commit.
LEMMA OpenFollowsStamped ==
    ASSUME TypeOK
    PROVE  /\ Stamped \in Slots
           /\ Open \in Slots
           /\ Open = Succ(Stamped)
           /\ Newest \in Nat
           /\ wpc # "stamp" => Newest = cnt0[lastWritten]
<1>1. lastWritten \in Slots /\ cnt0 \in [Slots -> Nat]
  BY DEF TypeOK
<1>2. Stamped \in Slots
  BY <1>1, PriorLemma DEF Stamped
<1>3. Open = Succ(Stamped)
  BY <1>1, PriorLemma DEF Open, Stamped, WritingIdx
<1>4. Open \in Slots
  BY <1>2, <1>3, SuccLemma
<1>5. QED
  BY <1>1, <1>2, <1>3, <1>4 DEF Newest, Stamped

\* What a step of a reader can do to its own state; shared memory and the
\* writer are never among it.
LEMMA ReaderType ==
    ASSUME NEW r \in Readers, TypeOK, ReaderCall(r) \/ ReaderStep(r)
    PROVE  TypeOK' /\ UNCHANGED <<shared, writer>>
<1> USE DEF TypeOK, ReaderFrame, shared, writer, Goto, ReaderAt
<1>0. 0 \in Slots
  BY NAssumption DEF Slots
<1>1. ASSUME NEW from, NEW to \in ReaderAt, ReadHead(r, from, to)
      PROVE  TypeOK' /\ UNCHANGED <<shared, writer>>
  BY <1>1 DEF ReadHead
<1>2. ASSUME NEW from, NEW to \in ReaderAt, Goto(r, from, to), Stay
      PROVE  TypeOK' /\ UNCHANGED <<shared, writer>>
  BY <1>2 DEF Stay
<1>3. ASSUME NEW from, NEW to \in ReaderAt, Goto(r, from, to),
             NEW i \in Slots, NEW c \in Nat, SetTail(r, i, c)
      PROVE  TypeOK' /\ UNCHANGED <<shared, writer>>
  BY <1>0, <1>3 DEF SetTail
<1>4. ASSUME NEW from, NEW to \in ReaderAt, Goto(r, from, to), DropCopy(r)
      PROVE  TypeOK' /\ UNCHANGED <<shared, writer>>
  BY <1>4 DEF DropCopy, Blank
<1>5. CASE ReaderCall(r)
  <2>1. CASE GetNextHead(r)
    BY <2>1, <1>2 DEF GetNextHead
  <2>2. CASE ResetTailHead(r) \/ WaitForNextHead(r) \/ GetNewestHead(r)
    BY <2>2, <1>1 DEF ResetTailHead, WaitForNextHead, GetNewestHead
  <2>3. CASE \/ WaitForNextInterrupted(r) \/ WaitForSemaphore(r)
             \/ SemaphoreTimeout(r) \/ SemaphoreInterrupted(r)
    BY <2>3, <1>2 DEF WaitForNextInterrupted, WaitForSemaphore, SemaphoreTimeout,
       SemaphoreInterrupted
  <2>4. ASSUME NEW p \in Parts, CopyOut(r, p)
        PROVE  TypeOK' /\ UNCHANGED <<shared, writer>>
    BY <2>4 DEF CopyOut
  <2>5. CASE WaitForCounter(r)
    BY <2>5, OpenFollowsStamped DEF WaitForCounter
  <2>6. CASE SpinInterrupted(r)
    BY <2>6, <1>0 DEF SpinInterrupted, Forget
  <2>7. ASSUME NEW k \in Slots, GetHistory(r, k)
        PROVE  TypeOK' /\ UNCHANGED <<shared, writer>>
    <3>1. Back(k) \in Slots
      BY NAssumption DEF Back, Slots
    <3>2. HeadFrame - k \in Int
      <4>1. Newest \in Nat /\ k \in Int
        BY OpenFollowsStamped DEF Slots
      <4>2. HeadFrame \in Int
        BY <4>1 DEF HeadFrame
      <4>3. QED
        BY <4>1, <4>2
    <3>3. QED
      BY <2>7, <3>1, <3>2 DEF GetHistory
  <2>8. QED
    BY <1>5, <2>1, <2>2, <2>3, <2>4, <2>5, <2>6, <2>7 DEF ReaderCall
<1>6. CASE ReaderStep(r)
  <2>1. CASE GetNextNotReady(r) \/ GetNextNewLap(r) \/ GetNextLapped(r) \/ CheckFlagLow(r)
    BY <2>1, <1>2 DEF GetNextNotReady, GetNextNewLap, GetNextLapped, CheckFlagLow
  <2>2. CASE GetNextSuccess(r)
    BY <2>2, <1>3, SuccLemma DEF GetNextSuccess
  <2>3. CASE GetNextLapHead(r) \/ WaitForNextAgain(r) \/ GetNewestWoken(r)
    BY <2>3, <1>1 DEF GetNextLapHead, WaitForNextAgain, GetNewestWoken
  <2>4. CASE GetNextOverwrite(r) \/ ResetTail(r)
    BY <2>4, <1>3 DEF GetNextOverwrite, ResetTail
  <2>5. CASE WaitForNextPoll(r)
    BY <2>5, <1>0 DEF WaitForNextPoll
  <2>6. CASE SemaphoreTaken(r)
    BY <2>6 DEF SemaphoreTaken, SEMAPHORE_MAXVAL
  <2>7. CASE GetNewestSegment(r)
    BY <2>7, <1>0 DEF GetNewestSegment
  <2>8. CASE CheckFlagRaised(r) \/ CheckSegmentOverwrite(r)
    BY <2>8, <1>4 DEF CheckFlagRaised, CheckSegmentOverwrite
  <2>9. CASE SpinReturn(r)
    BY <2>9, <1>2 DEF SpinReturn
  <2>10. CASE GetNewestSpun(r)
    BY <2>10 DEF GetNewestSpun
  <2>11. ASSUME NEW p \in Parts, CopyHistory(r, p)
         PROVE  TypeOK' /\ UNCHANGED <<shared, writer>>
    BY <2>11 DEF CopyHistory
  <2>12. CASE HistoryReturn(r)
    BY <2>12, <1>0 DEF HistoryReturn, Forget, Blank
  <2>13. QED
    BY <1>6, <2>1, <2>2, <2>3, <2>4, <2>5, <2>6, <2>7, <2>8, <2>9, <2>10, <2>11, <2>12
       DEF ReaderStep
<1>7. QED
  BY <1>5, <1>6

\* Type correctness: the writer's index stays inside the ring, no semaphore
\* passes SEMAPHORE_MAXVAL, whatever the interleaving.
THEOREM TypeCorrect == Spec => []TypeOK
<1>1. TypeOK /\ [Next]_vars => TypeOK'
  <2>1. ASSUME TypeOK, UNCHANGED vars
        PROVE  TypeOK'
    BY <2>1 DEF TypeOK, vars, shared, writer, reader
  <2>2. QED
    BY <2>1, WriterType, ReaderType DEF Next
<1>2. QED
  BY <1>1, InitType, PTL DEF Spec

-----------------------------------------------------------------------------
(***************************************************************************)
(* The ring: counters and data.                                            *)
(***************************************************************************)

\* One step along the ring brings a slot one further behind.
LEMMA BehindLemma ==
    ASSUME NEW i \in Slots, NEW j \in Slots
    PROVE  /\ Behind(i, j) \in 0 .. N-1
           /\ Behind(i, j) = 0 <=> i = j
           /\ i # Succ(j) => Behind(i, Succ(j)) = Behind(i, j) + 1
           /\ Behind(Succ(j), j) = N - 1
<1>1. N \in Nat /\ N > 0 /\ i \in Nat /\ i < N /\ j \in Nat /\ j < N
  BY NAssumption DEF Slots
<1>2. CASE j = N - 1
  <2>1. Succ(j) = 0
    BY <1>2, SuccLemma
  <2>2. QED
    BY <1>1, <1>2, <2>1 DEF Behind
<1>3. CASE j # N - 1
  <2>1. Succ(j) = j + 1
    BY <1>3, SuccLemma
  <2>2. QED
    BY <1>1, <1>3, <2>1 DEF Behind
<1>4. QED
  BY <1>2, <1>3

RingInv == HistoryWindow /\ DataInv

\* The ring invariant holds in a shared memory just created.
LEMMA InitRing == Init => RingInv
<1> SUFFICES ASSUME Init
             PROVE  RingInv
  OBVIOUS
<1>1. TypeOK
  BY InitType
<1>2. /\ cnt0 = [i \in Slots |-> 0]
      /\ data = [i \in Slots |-> [p \in Parts |-> 0]]
      /\ wpc = "idle"
  BY DEF Init, InitData, InitMetadata
<1>3. Newest = 0
  BY <1>1, <1>2, OpenFollowsStamped DEF Newest
<1>4. HistoryWindow
  <2> SUFFICES ASSUME NEW i \in Slots
               PROVE  cnt0[i] = IF Behind(i, Stamped) <= Newest
                                THEN Newest - Behind(i, Stamped) ELSE 0
    BY DEF HistoryWindow
  <2>1. Behind(i, Stamped) \in 0 .. N-1
    BY <1>1, OpenFollowsStamped, BehindLemma
  <2>2. QED
    BY <1>2, <1>3, <2>1, NAssumption
<1>5. DataInv
  BY <1>1, <1>2, <1>3, OpenFollowsStamped DEF DataInv
<1>6. QED
  BY <1>4, <1>5 DEF RingInv

\* A step that leaves counters, data and head alone, and does not enter a
\* place of the writer with a stronger obligation, keeps the ring.
LEMMA RingFrame ==
    ASSUME TypeOK, RingInv, UNCHANGED <<cnt0, data, lastWritten>>,
           \/ UNCHANGED <<wpc, todo>>
           \/ wpc \notin {"stamp"} /\ wpc' \in {"idle", "stage"}
           \/ wpc \notin {"stamp"} /\ wpc' = "frame" /\ todo' = Parts
           \/ wpc \notin {"stamp"} /\ wpc' = "advance"
                 /\ \A p \in Parts : data[Open][p] = Newest + 1
    PROVE  RingInv'
<1>1. Stamped' = Stamped /\ Newest' = Newest /\ Open' = Open
  BY DEF Stamped, Newest, Open, WritingIdx, Succ
<1>2. HistoryWindow'
  BY <1>1 DEF RingInv, HistoryWindow
<1>3. DataInv'
  BY <1>1 DEF RingInv, DataInv
<1>4. QED
  BY <1>2, <1>3 DEF RingInv

\* A piece of the memcpy only touches the open slot, and puts the next frame there.
LEMMA CopyInRing ==
    ASSUME TypeOK, RingInv, NEW p \in Parts, CopyIn(p)
    PROVE  RingInv'
<1>1. Stamped' = Stamped /\ Newest' = Newest /\ Open' = Open
  BY DEF CopyIn, Stamped, Newest, Open, WritingIdx, Succ
<1>2. /\ Open = WritingIdx
      /\ Open \in Slots
      /\ Newest = cnt0[lastWritten]
  BY OpenFollowsStamped DEF CopyIn, Open
<1>3. data' = [data EXCEPT ![Open][p] = Newest + 1]
  BY <1>2 DEF CopyIn
<1>4. HistoryWindow'
  BY <1>1 DEF RingInv, HistoryWindow, CopyIn
<1>5. DataInv'
  BY <1>1, <1>2, <1>3 DEF RingInv, DataInv, CopyIn, TypeOK
<1>6. QED
  BY <1>4, <1>5 DEF RingInv

\* The head moves: the stamped slot and the open slot stay what they were.
LEMMA AdvanceRing ==
    ASSUME TypeOK, RingInv, FinalizeAdvance
    PROVE  RingInv'
<1>1. /\ lastWritten \in Slots
      /\ lastWritten' = Succ(lastWritten)
      /\ wpc = "advance" /\ wpc' = "stamp"
      /\ UNCHANGED <<cnt0, data, todo>>
  BY DEF FinalizeAdvance, WritingIdx, TypeOK
<1>2. Stamped' = Stamped
  BY <1>1, PriorLemma DEF Stamped, Prior
<1>3. Newest' = Newest /\ Open' = Open
  BY <1>1, <1>2 DEF Newest, Open, WritingIdx
<1>4. HistoryWindow'
  BY <1>1, <1>2, <1>3 DEF RingInv, HistoryWindow
<1>5. DataInv'
  BY <1>1, <1>3 DEF RingInv, DataInv
<1>6. QED
  BY <1>4, <1>5 DEF RingInv

\* The counter arrives: the open slot becomes the newest stamped one.
LEMMA StampRing ==
    ASSUME TypeOK, RingInv, TimestampShm
    PROVE  /\ RingInv'
           /\ Newest' = Newest + 1
           /\ Stamped' = Open
           /\ cnt0' = [cnt0 EXCEPT ![Open] = Newest + 1]
<1>1. /\ wpc = "stamp" /\ wpc' = "post"
      /\ Open = lastWritten
      /\ Stamped = Prior(lastWritten)
      /\ UNCHANGED <<data, lastWritten>>
  BY DEF TimestampShm, Open, Stamped
<1>2. /\ Open \in Slots /\ Stamped \in Slots /\ Open = Succ(Stamped)
      /\ Newest \in Nat /\ cnt0 \in [Slots -> Nat]
  BY OpenFollowsStamped DEF TypeOK
<1>3. cnt0' = [cnt0 EXCEPT ![Open] = Newest + 1]
  BY <1>1 DEF TimestampShm, Newest
<1>4. Stamped' = Open
  BY <1>1 DEF Stamped, Open
<1>5. Newest' = Newest + 1
  BY <1>2, <1>3, <1>4 DEF Newest
<1>6. Open' = Succ(Open)
  BY <1>1 DEF Open, WritingIdx, Succ
<1>7. HistoryWindow'
  <2>1. ASSUME NEW i \in Slots
        PROVE  cnt0'[i] = IF Behind(i, Open) <= Newest + 1
                          THEN Newest + 1 - Behind(i, Open) ELSE 0
    <3>1. CASE i = Open
      <4>1. Behind(i, Open) = 0
        BY <1>2, <3>1, BehindLemma
      <4>2. QED
        BY <1>2, <1>3, <3>1, <4>1
    <3>2. CASE i # Open
      <4>1. Behind(i, Open) = Behind(i, Stamped) + 1
        BY <1>2, <3>2, BehindLemma
      <4>2. Behind(i, Stamped) \in 0 .. N-1
        BY <1>2, BehindLemma
      <4>3. cnt0[i] = IF Behind(i, Stamped) <= Newest
                      THEN Newest - Behind(i, Stamped) ELSE 0
        BY DEF RingInv, HistoryWindow
      <4>4. cnt0'[i] = cnt0[i]
        BY <1>2, <1>3, <3>2
      <4>5. QED
        BY <1>2, <4>1, <4>2, <4>3, <4>4, NAssumption
    <3>3. QED
      BY <3>1, <3>2
  <2>2. ASSUME NEW i \in Slots
        PROVE  (cnt0[i] = IF Behind(i, Stamped) <= Newest
                          THEN Newest - Behind(i, Stamped) ELSE 0)'
    <3>1. Behind(i, Stamped)' = Behind(i, Open)
      BY <1>4 DEF Behind
    <3>2. Behind(i, Open) \in Int
      BY <1>2, BehindLemma
    <3>3. QED
      BY <1>2, <1>5, <2>1, <3>1, <3>2
  <2>3. QED
    BY <2>2 DEF HistoryWindow
<1>8. DataInv'
  <2>1. \A p \in Parts : data[Open][p] = Newest + 1
    BY <1>1 DEF RingInv, DataInv
  <2>2. \A i \in Slots : \A p \in Parts : data'[i][p] = cnt0'[i]
    BY <1>1, <1>2, <1>3, <2>1 DEF RingInv, DataInv
  <2>3. Open' \in Slots
    BY <1>2, <1>6, SuccLemma
  <2>4. QED
    BY <1>1, <2>2, <2>3 DEF DataInv
<1>9. QED
  BY <1>3, <1>4, <1>5, <1>7, <1>8 DEF RingInv

\* Every step of writer and readers keeps the ring invariant.
LEMMA NextRing == TypeOK /\ RingInv /\ [Next]_vars => RingInv'
<1> SUFFICES ASSUME TypeOK, RingInv, [Next]_vars
             PROVE  RingInv'
  OBVIOUS
<1>1. CASE WriterCall
  <2>1. CASE Image2Shm \/ Image2ShmQuiet \/ CombineShm2Shm
    BY <2>1, RingFrame DEF Image2Shm, Image2ShmQuiet, CombineShm2Shm, BeginWrite
  <2>2. CASE \E p \in Parts : ImagePart2Shm(p)
    BY <2>2, RingFrame DEF ImagePart2Shm, BeginWrite
  <2>3. CASE CombineTooManyChannels
    BY <2>3, RingFrame DEF CombineTooManyChannels, writer
  <2>4. CASE ImagePart2ShmFinalize
    <3>1. \A p \in Parts : data[Open][p] = Newest + 1
      BY <2>4, OpenFollowsStamped DEF ImagePart2ShmFinalize, Assembled, Open
    <3>2. QED
      BY <2>4, <3>1, RingFrame DEF ImagePart2ShmFinalize, LowerFlag
  <2>5. QED
    BY <1>1, <2>1, <2>2, <2>3, <2>4 DEF WriterCall
<1>2. CASE WriterStep
  <2>1. CASE \E p \in Parts : CopyIn(p)
    BY <2>1, CopyInRing
  <2>2. CASE EndStage
    BY <2>2, RingFrame DEF EndStage
  <2>3. CASE Finalize
    <3>1. \A p \in Parts : data[Open][p] = Newest + 1
      BY <2>3 DEF Finalize, RingInv, DataInv
    <3>2. QED
      BY <2>3, <3>1, RingFrame DEF Finalize, LowerFlag
  <2>4. CASE FinalizeAdvance
    BY <2>4, AdvanceRing
  <2>5. CASE TimestampShm
    BY <2>5, StampRing
  <2>6. CASE \E r \in Readers : SemPost(r)
    BY <2>6, RingFrame DEF SemPost, shared
  <2>7. CASE FinalizeReturn
    BY <2>7, RingFrame DEF FinalizeReturn, shared
  <2>8. QED
    BY <1>2, <2>1, <2>2, <2>3, <2>4, <2>5, <2>6, <2>7 DEF WriterStep
<1>3. CASE \E r \in Readers : ReaderCall(r) \/ ReaderStep(r)
  BY <1>3, ReaderType, RingFrame DEF shared, writer
<1>4. CASE UNCHANGED vars
  BY <1>4, RingFrame DEF vars, shared, writer
<1>5. QED
  BY <1>1, <1>2, <1>3, <1>4 DEF Next

\* The ring invariant holds in every reachable state.
LEMMA RingCorrect == Spec => []RingInv
<1>1. QED
  BY InitRing, NextRing, TypeCorrect, PTL DEF Spec

\* The counters around the ring are always the numbers of the last N frames,
\* for every depth and in the middle of a commit too.
THEOREM HistoryCorrect == Spec => []HistoryWindow
<1>1. RingInv => HistoryWindow
  BY DEF RingInv
<1>2. QED
  BY <1>1, RingCorrect, PTL

\* No counter is above the newest one, and the slot that carries the frame d
\* before the newest is the slot d behind it.
LEMMA WindowLemma ==
    ASSUME TypeOK, RingInv
    PROVE  /\ \A i \in Slots : cnt0[i] \in 0 .. Newest
           /\ \A i \in Slots : cnt0[i] > 0 => cnt0[i] = Newest - Behind(i, Stamped)
           /\ \A i, j \in Slots : cnt0[i] > 0 /\ cnt0[i] = cnt0[j] => i = j
           /\ cnt0[Open] > 0 => cnt0[Open] = Newest + 1 - N
<1>1. Stamped \in Slots /\ Newest \in Nat /\ Open \in Slots /\ Open = Succ(Stamped)
  BY OpenFollowsStamped
<1>2. N \in Nat
  BY NAssumption
<1>3. ASSUME NEW i \in Slots
      PROVE  /\ Behind(i, Stamped) \in 0 .. N-1
             /\ cnt0[i] \in 0 .. Newest
             /\ cnt0[i] > 0 => cnt0[i] = Newest - Behind(i, Stamped)
  <2>1. Behind(i, Stamped) \in 0 .. N-1
    BY <1>1, BehindLemma
  <2>2. cnt0[i] = IF Behind(i, Stamped) <= Newest
                  THEN Newest - Behind(i, Stamped) ELSE 0
    BY DEF RingInv, HistoryWindow
  <2>3. QED
    BY <1>1, <1>2, <2>1, <2>2
<1>4. ASSUME NEW i \in Slots, NEW j \in Slots, cnt0[i] > 0, cnt0[i] = cnt0[j]
      PROVE  i = j
  <2>1. Behind(i, Stamped) = Behind(j, Stamped)
    BY <1>1, <1>2, <1>3, <1>4
  <2>2. i \in Int /\ j \in Int /\ Stamped \in Int /\ i < N /\ j < N /\ i >= 0 /\ j >= 0
    BY <1>1, <1>2 DEF Slots
  <2>3. QED
    BY <1>2, <2>1, <2>2 DEF Behind
<1>5. cnt0[Open] > 0 => cnt0[Open] = Newest + 1 - N
  <2>1. Behind(Open, Stamped) = N - 1
    BY <1>1, BehindLemma
  <2>2. QED
    BY <1>1, <1>2, <1>3, <2>1
<1>6. QED
  BY <1>3, <1>4, <1>5

\* The ring invariant implies that the last N - 1 frames are there.
LEMMA RingRetains == TypeOK /\ RingInv => RetainsLastFrames
<1> SUFFICES ASSUME TypeOK, RingInv,
                    NEW c \in 1 .. Newest, c > Newest + 1 - N
             PROVE  c \in Retained
  BY DEF RetainsLastFrames
<1> DEFINE d == Newest - c
           i == IF d <= Stamped THEN Stamped - d ELSE Stamped - d + N
<1>1. /\ N \in Nat /\ Newest \in Nat /\ c \in Nat /\ c > 0
      /\ Stamped \in Nat /\ Stamped < N
      /\ d \in Nat /\ d < N - 1 /\ d <= Newest
  BY OpenFollowsStamped, NAssumption DEF Slots
<1>2. i \in Slots /\ Behind(i, Stamped) = d
  BY <1>1 DEF Slots, Behind
<1>3. cnt0[i] = c
  <2>1. cnt0[i] = IF Behind(i, Stamped) <= Newest
                  THEN Newest - Behind(i, Stamped) ELSE 0
    BY <1>2 DEF RingInv, HistoryWindow
  <2>2. QED
    BY <1>1, <1>2, <2>1
<1>4. i # Open
  <2>1. Behind(Open, Stamped) = N - 1
    BY OpenFollowsStamped, BehindLemma
  <2>2. QED
    BY <1>1, <1>2, <2>1
<1>5. Intact(i)
  BY <1>1, <1>2, <1>3, <1>4 DEF Intact, RingInv, DataInv
<1>6. QED
  BY <1>2, <1>3, <1>5 DEF Retained

\* The last N - 1 committed frames are readable whole at every instant, for
\* every depth: the history that get_history() and GetArbitrarySegment rely on.
THEOREM HistoryIsRetained == Spec => []RetainsLastFrames
<1>1. QED
  BY RingRetains, RingCorrect, TypeCorrect, PTL

-----------------------------------------------------------------------------
(***************************************************************************)
(* The readers' copies.                                                    *)
(***************************************************************************)

\* What holds between a reader's tail, its copy and the slot of the tail: the
\* contents of a slot only get newer, so a part that was copied is between the
\* frame of the tail and what the slot holds now.
TailInv(r) ==
    /\ tailCnt[r] <= Newest
    /\ \A p \in Parts : tailCnt[r] <= data[tailIdx[r]][p]
    /\ rpc[r] # "history" =>
          \A p \in Parts : copy[r][p] # NotCopied =>
             tailCnt[r] <= copy[r][p] /\ copy[r][p] <= data[tailIdx[r]][p]
    /\ rpc[r] \notin {"copy", "checkCnt", "history"} => copy[r] = Blank
    /\ rpc[r] = "checkCnt" => \A p \in Parts : copy[r][p] # NotCopied
    /\ N = 1 /\ rpc[r] \in {"nextCnt", "lapHead", "lapCnt"} => tailCnt[r] < Newest

ReaderInv == \A r \in Readers : TailInv(r)

\* A slot never holds anything older than the frame of its counter.
LEMMA SlotData ==
    ASSUME TypeOK, RingInv, NEW i \in Slots, NEW p \in Parts
    PROVE  /\ data[i][p] \in Nat
           /\ cnt0[i] <= data[i][p]
           /\ data[i][p] <= Newest + 1
<1>1. Open \in Slots /\ Newest \in Nat /\ cnt0[i] \in Nat
  BY OpenFollowsStamped DEF TypeOK
<1>2. cnt0[i] <= Newest
  BY <1>1, WindowLemma
<1>3. data[i][p] \in {cnt0[i], Newest + 1}
  BY DEF RingInv, DataInv
<1>4. QED
  BY <1>1, <1>2, <1>3

\* The writer only makes counters and data newer.
LEMMA WriterGrows ==
    ASSUME TypeOK, RingInv, WriterCall \/ WriterStep
    PROVE  /\ Newest' \in Nat /\ Newest <= Newest'
           /\ \A i \in Slots : \A p \in Parts : data[i][p] <= data'[i][p]
           /\ UNCHANGED <<reader>>
<1>1. Newest \in Nat /\ Open \in Slots
  BY OpenFollowsStamped
<1>2. \A i \in Slots : \A p \in Parts : data[i][p] \in Nat
  BY DEF TypeOK
<1>3. CASE UNCHANGED <<cnt0, data, lastWritten, reader>> /\ wpc # "stamp" /\ wpc' # "stamp"
  <2>1. Newest' = Newest
    BY <1>3 DEF Newest, Stamped
  <2>2. QED
    BY <1>1, <1>2, <1>3, <2>1
<1>4. CASE WriterCall
  BY <1>3, <1>4 DEF WriterCall, Image2Shm, Image2ShmQuiet, ImagePart2Shm,
     CombineShm2Shm, CombineTooManyChannels, ImagePart2ShmFinalize, LowerFlag,
     BeginWrite, writer
<1>5. CASE EndStage \/ Finalize \/ FinalizeReturn \/ \E r \in Readers : SemPost(r)
  BY <1>3, <1>5 DEF EndStage, Finalize, LowerFlag, FinalizeReturn, SemPost, shared
<1>6. ASSUME NEW p \in Parts, CopyIn(p)
      PROVE  /\ Newest' = Newest
             /\ \A i \in Slots : \A q \in Parts : data[i][q] <= data'[i][q]
             /\ UNCHANGED <<reader>>
  <2>1. Newest' = Newest /\ UNCHANGED <<reader>>
    BY <1>6 DEF CopyIn, Newest, Stamped
  <2>2. WritingIdx = Open /\ cnt0[lastWritten] = Newest
    BY <1>6, OpenFollowsStamped DEF CopyIn, Open
  <2>3. data' = [data EXCEPT ![Open][p] = Newest + 1]
    BY <1>6, <2>2 DEF CopyIn
  <2>4. ASSUME NEW i \in Slots, NEW q \in Parts
        PROVE  data[i][q] <= data'[i][q]
    <3>1. data[i][q] \in Nat /\ data[i][q] <= Newest + 1
      BY SlotData
    <3>2. data'[i][q] = IF i = Open /\ q = p THEN Newest + 1 ELSE data[i][q]
      BY <2>3 DEF TypeOK
    <3>3. QED
      BY <1>1, <3>1, <3>2
  <2>5. QED
    BY <2>1, <2>4
<1>7. CASE FinalizeAdvance
  <2>1. Stamped' = Stamped
    BY <1>7, PriorLemma DEF FinalizeAdvance, Stamped, WritingIdx, TypeOK, Prior
  <2>2. Newest' = Newest
    BY <1>7, <2>1 DEF FinalizeAdvance, Newest
  <2>3. QED
    BY <1>1, <1>2, <1>7, <2>2 DEF FinalizeAdvance
<1>8. CASE TimestampShm
  <2>1. Newest' = Newest + 1
    BY <1>8, StampRing
  <2>2. QED
    BY <1>1, <1>2, <1>8, <2>1 DEF TimestampShm
<1>9. QED
  BY <1>1, <1>4, <1>5, <1>6, <1>7, <1>8 DEF WriterStep

\* The reader invariant holds when the readers have just opened the memory.
LEMMA InitReader == Init => ReaderInv
<1> SUFFICES ASSUME Init, NEW r \in Readers
             PROVE  TailInv(r)
  BY DEF ReaderInv
<1>1. TypeOK
  BY InitType
<1>2. tailCnt[r] = 0 /\ rpc[r] = "ready" /\ copy[r] = Blank /\ tailIdx[r] \in Slots
  BY <1>1 DEF Init, InitMetadata, InitReaders, TypeOK
<1>3. Newest \in Nat
  BY <1>1, OpenFollowsStamped
<1>4. \A p \in Parts : data[tailIdx[r]][p] \in Nat /\ copy[r][p] = NotCopied
  BY <1>1, <1>2 DEF TypeOK, Blank
<1>5. QED
  BY <1>2, <1>3, <1>4 DEF TailInv

\* The writer cannot invalidate what a reader knows.
LEMMA WriterKeepsReader ==
    ASSUME TypeOK, RingInv, ReaderInv, WriterCall \/ WriterStep
    PROVE  ReaderInv'
<1> SUFFICES ASSUME NEW r \in Readers
             PROVE  TailInv(r)'
  BY DEF ReaderInv
<1>1. /\ Newest \in Nat /\ Newest' \in Nat /\ Newest <= Newest'
      /\ \A i \in Slots : \A p \in Parts : data[i][p] <= data'[i][p]
      /\ UNCHANGED <<rpc, tailIdx, tailCnt, copy>>
  BY OpenFollowsStamped, WriterGrows DEF reader
<1>2. TypeOK'
  BY WriterType
<1>3. tailIdx[r] \in Slots /\ tailCnt[r] \in Nat
  BY DEF TypeOK
<1>4. \A p \in Parts : /\ data[tailIdx[r]][p] \in Nat
                       /\ data'[tailIdx[r]][p] \in Nat
                       /\ copy[r][p] \in Nat \cup {NotCopied}
  BY <1>2, <1>3 DEF TypeOK
<1>5. TailInv(r)
  BY DEF ReaderInv
<1>6. /\ tailCnt[r] <= Newest'
      /\ N = 1 /\ rpc[r] \in {"nextCnt", "lapHead", "lapCnt"} => tailCnt[r] < Newest'
  BY <1>1, <1>3, <1>5 DEF TailInv
<1>7. ASSUME NEW p \in Parts
      PROVE  /\ tailCnt[r] <= data'[tailIdx[r]][p]
             /\ rpc[r] # "history" /\ copy[r][p] # NotCopied =>
                  tailCnt[r] <= copy[r][p] /\ copy[r][p] <= data'[tailIdx[r]][p]
  <2>1. data[tailIdx[r]][p] <= data'[tailIdx[r]][p]
    BY <1>1, <1>3
  <2>2. QED
    BY <1>3, <1>4, <1>5, <2>1 DEF TailInv, NotCopied
<1>8. QED
  BY <1>1, <1>5, <1>6, <1>7 DEF TailInv

\* A reader's step leaves the other readers alone.
LEMMA OthersUnchanged ==
    ASSUME NEW r \in Readers, TypeOK, ReaderCall(r) \/ ReaderStep(r),
           NEW s \in Readers, s # r
    PROVE  /\ rpc'[s] = rpc[s] /\ li'[s] = li[s]
           /\ tailIdx'[s] = tailIdx[s] /\ tailCnt'[s] = tailCnt[s]
           /\ copy'[s] = copy[s]
<1>1. CASE ReaderCall(r)
  BY <1>1 DEF ReaderCall, TypeOK, GetNextHead, ResetTailHead, WaitForNextHead,
     WaitForNextInterrupted, WaitForSemaphore, SemaphoreTimeout, SemaphoreInterrupted,
     GetNewestHead, CopyOut, WaitForCounter, SpinInterrupted, GetHistory, Forget, Goto, Stay, ReadHead
<1>2. CASE ReaderStep(r)
  BY <1>2 DEF ReaderStep, TypeOK, GetNextNotReady, GetNextNewLap, GetNextSuccess,
     GetNextLapped, GetNextLapHead, GetNextOverwrite, ResetTail, WaitForNextAgain,
     WaitForNextPoll, SemaphoreTaken, GetNewestWoken, GetNewestSegment,
     CheckFlagRaised, CheckFlagLow, CheckSegmentOverwrite, SpinReturn, GetNewestSpun,
     CopyHistory, HistoryReturn, Forget, Goto, Stay, ReadHead, SetTail, DropCopy
<1>3. QED
  BY <1>1, <1>2

\* The tail of a reader moves to a slot with that slot's counter.
LEMMA TailMoves ==
    ASSUME NEW r \in Readers, TypeOK, RingInv, TailInv(r),
           NEW i \in Slots, NEW from, Goto(r, from, "ready"),
           from \notin {"copy", "checkCnt", "history"}, SetTail(r, i, cnt0[i])
    PROVE  TailInv(r)'
<1>1. /\ tailIdx'[r] = i /\ tailCnt'[r] = cnt0[i] /\ rpc'[r] = "ready"
      /\ copy'[r] = Blank
      /\ UNCHANGED <<cnt0, data, lastWritten, wpc>>
  BY DEF SetTail, Goto, TypeOK, ReaderFrame, shared, writer, TailInv
<1>2. Newest' = Newest
  BY <1>1 DEF Newest, Stamped
<1>3. cnt0[i] <= Newest
  BY WindowLemma, OpenFollowsStamped DEF TypeOK
<1>4. \A p \in Parts : cnt0[i] <= data[i][p]
  BY SlotData
<1>5. \A p \in Parts : copy'[r][p] = NotCopied
  BY <1>1 DEF Blank
<1>6. QED
  BY <1>1, <1>2, <1>3, <1>4, <1>5 DEF TailInv

\* A step that only moves the reader's place, outside the test for new data.
LEMMA PlaceMoves ==
    ASSUME NEW r \in Readers, TypeOK, TailInv(r),
           UNCHANGED <<cnt0, data, lastWritten, wpc>>,
           tailIdx'[r] = tailIdx[r], tailCnt'[r] = tailCnt[r], copy'[r] = copy[r],
           copy[r] = Blank, rpc'[r] \notin {"copy", "checkCnt"},
           N = 1 /\ rpc'[r] \in {"nextCnt", "lapHead", "lapCnt"} => tailCnt[r] < Newest
    PROVE  TailInv(r)'
<1>1. Newest' = Newest
  BY DEF Newest, Stamped
<1>2. QED
  BY <1>1 DEF TailInv, Blank

\* A step of a reader keeps the reader invariant.
LEMMA ReaderKeepsReader ==
    ASSUME NEW r \in Readers, TypeOK, RingInv, ReaderInv, ReaderCall(r) \/ ReaderStep(r)
    PROVE  ReaderInv'
<1>1. TypeOK' /\ UNCHANGED <<cnt0, data, lastWritten, wpc>>
  BY ReaderType DEF shared, writer
<1>2. Newest' = Newest
  BY <1>1 DEF Newest, Stamped
<1>3. ASSUME NEW s \in Readers, s # r
      PROVE  TailInv(s)'
  BY <1>1, <1>2, <1>3, OthersUnchanged DEF ReaderInv, TailInv
<1>4. TailInv(r)'
  <2>0. /\ TailInv(r) /\ tailIdx[r] \in Slots /\ tailCnt[r] \in Nat /\ li[r] \in Slots
        /\ \A p \in Parts : copy[r][p] \in Nat \cup {NotCopied}
        /\ copy \in [Readers -> [Parts -> Nat \cup {NotCopied}]]
        /\ rpc \in [Readers -> ReaderAt]
    BY DEF ReaderInv, TypeOK
  <2>1. CASE GetNextHead(r)
    <3>1. N = 1 => rpc'[r] = "nextSame"
      <4>1. N = 1 => tailIdx[r] = 0 /\ lastWritten = 0
        BY DEF TypeOK, Slots
      <4>2. QED
        BY <2>0, <2>1, <4>1 DEF GetNextHead, Goto
    <3>2. QED
      BY <1>1, <2>0, <2>1, <3>1, PlaceMoves DEF GetNextHead, Goto, Stay, TailInv
  <2>2. CASE GetNextNewLap(r)
    <3>1. N = 1 => tailCnt[r] < Newest
      <4>1. ASSUME N = 1
            PROVE  cnt0[tailIdx[r]] = Newest
        BY <2>0, <4>1, OpenFollowsStamped DEF Newest, Slots
      <4>2. cnt0[tailIdx[r]] \in Nat /\ cnt0[tailIdx[r]] # tailCnt[r]
        BY <2>0, <2>2 DEF GetNextNewLap, TypeOK
      <4>3. tailCnt[r] <= Newest
        BY <2>0 DEF TailInv
      <4>4. Newest \in Nat
        BY OpenFollowsStamped
      <4>5. tailCnt[r] \in Nat
        BY <2>0
      <4>6. QED
        BY <4>1, <4>2, <4>3, <4>4, <4>5
    <3>2. QED
      BY <1>1, <2>0, <2>2, <3>1, PlaceMoves DEF GetNextNewLap, Goto, Stay, TailInv
  <2>3. CASE GetNextLapped(r)
    BY <1>1, <2>0, <2>3, PlaceMoves DEF GetNextLapped, Goto, Stay, TailInv
  <2>4. CASE GetNextLapHead(r)
    BY <1>1, <2>0, <2>4, PlaceMoves DEF GetNextLapHead, ReadHead, Goto, TailInv
  <2>5. CASE GetNextNotReady(r) \/ WaitForNextInterrupted(r) \/ WaitForSemaphore(r)
               \/ SemaphoreTimeout(r) \/ SemaphoreInterrupted(r)
    BY <1>1, <2>0, <2>5, PlaceMoves DEF GetNextNotReady, WaitForNextInterrupted,
       WaitForSemaphore, SemaphoreTimeout, SemaphoreInterrupted, Goto, Stay, TailInv
  <2>6. CASE ResetTailHead(r) \/ WaitForNextHead(r) \/ WaitForNextAgain(r)
               \/ GetNewestHead(r) \/ GetNewestWoken(r)
    BY <1>1, <2>0, <2>6, PlaceMoves DEF ResetTailHead, WaitForNextHead,
       WaitForNextAgain, GetNewestHead, GetNewestWoken, ReadHead, Goto, TailInv
  <2>7. CASE WaitForNextPoll(r) \/ SemaphoreTaken(r) \/ GetNewestSegment(r)
    BY <1>1, <2>0, <2>7, PlaceMoves DEF WaitForNextPoll, SemaphoreTaken,
       GetNewestSegment, Goto, TailInv
  <2>8. CASE GetNextSuccess(r)
    <3>1. Succ(tailIdx[r]) \in Slots
      BY <2>0, SuccLemma
    <3>2. QED
      BY <2>0, <2>8, <3>1, TailMoves DEF GetNextSuccess
  <2>9. CASE GetNextOverwrite(r) \/ ResetTail(r)
    BY <2>0, <2>9, TailMoves DEF GetNextOverwrite, ResetTail
  <2>10. ASSUME NEW p \in Parts, CopyOut(r, p)
         PROVE  TailInv(r)'
    <3>1. /\ rpc[r] # "history" /\ rpc'[r] = "copy"
          /\ tailIdx'[r] = tailIdx[r] /\ tailCnt'[r] = tailCnt[r]
          /\ \A q \in Parts : copy'[r][q] =
                 IF q = p THEN data[tailIdx[r]][p] ELSE copy[r][q]
      BY <2>0, <2>10 DEF CopyOut
    <3>2. \A q \in Parts : data[tailIdx[r]][q] \in Nat
      BY <2>0 DEF TypeOK
    <3>3. QED
      BY <1>1, <1>2, <2>0, <3>1, <3>2 DEF TailInv
  <2>11. CASE CheckFlagRaised(r) \/ CheckSegmentOverwrite(r)
    <3>1. /\ rpc'[r] = "ready" /\ copy'[r] = Blank
          /\ tailIdx'[r] = tailIdx[r] /\ tailCnt'[r] = tailCnt[r]
      BY <2>0, <2>11 DEF CheckFlagRaised, CheckSegmentOverwrite, Goto, DropCopy
    <3>2. \A q \in Parts : copy'[r][q] = NotCopied
      BY <3>1 DEF Blank
    <3>3. QED
      BY <1>1, <1>2, <2>0, <3>1, <3>2 DEF TailInv
  <2>12. CASE CheckFlagLow(r)
    BY <1>1, <1>2, <2>0, <2>12 DEF CheckFlagLow, Goto, Stay, TailInv
  <2>13. CASE WaitForCounter(r) \/ SpinReturn(r) \/ SpinInterrupted(r) \/ GetNewestSpun(r)
    BY <1>1, <2>0, <2>13, PlaceMoves DEF WaitForCounter, SpinReturn, SpinInterrupted,
       GetNewestSpun, Goto, Stay, TailInv
  <2>14. ASSUME NEW k \in Slots, GetHistory(r, k)
         PROVE  TailInv(r)'
    BY <1>1, <2>0, <2>14, PlaceMoves DEF GetHistory, Goto, TailInv
  <2>15. ASSUME NEW p \in Parts, CopyHistory(r, p)
         PROVE  TailInv(r)'
    BY <1>1, <1>2, <2>0, <2>15 DEF CopyHistory, TailInv
  <2>16. CASE HistoryReturn(r)
    <3>1. /\ rpc'[r] = "ready" /\ copy'[r] = Blank
          /\ tailIdx'[r] = tailIdx[r] /\ tailCnt'[r] = tailCnt[r]
      BY <2>0, <2>16 DEF HistoryReturn, Goto
    <3>2. \A q \in Parts : copy'[r][q] = NotCopied
      BY <3>1 DEF Blank
    <3>3. QED
      BY <1>1, <1>2, <2>0, <3>1, <3>2 DEF TailInv
  <2>17. QED
    BY <2>1, <2>2, <2>3, <2>4, <2>5, <2>6, <2>7, <2>8, <2>9, <2>10, <2>11, <2>12,
       <2>13, <2>14, <2>15, <2>16 DEF ReaderCall, ReaderStep
<1>5. QED
  BY <1>3, <1>4 DEF ReaderInv

\* The reader invariant holds in every reachable state.
LEMMA ReaderCorrect == Spec => []ReaderInv
<1>1. TypeOK /\ RingInv /\ ReaderInv /\ [Next]_vars => ReaderInv'
  <2>1. ASSUME ReaderInv, UNCHANGED vars
        PROVE  ReaderInv'
    BY <2>1 DEF ReaderInv, TailInv, vars, shared, writer, reader, Newest, Stamped
  <2>2. QED
    BY <2>1, WriterKeepsReader, ReaderKeepsReader DEF Next
<1>2. QED
  BY <1>1, InitReader, RingCorrect, TypeCorrect, PTL DEF Spec

\* daoShmCheckSegmentOverwrite: an approved copy of a slot that holds what its
\* counter says is that frame, for every depth.
THEOREM ApprovedCopies == Spec => []ApprovedCopyIsWhole
<1>1. TypeOK /\ ReaderInv => ApprovedCopyIsWhole
  <2> SUFFICES ASSUME TypeOK, ReaderInv, NEW r \in Readers,
                      CheckPasses(r), Intact(tailIdx[r]), NEW p \in Parts
               PROVE  copy[r][p] = tailCnt[r]
    BY DEF ApprovedCopyIsWhole
  <2>1. rpc[r] # "history" /\ copy[r][p] # NotCopied /\ data[tailIdx[r]][p] = tailCnt[r]
    BY DEF CheckPasses, ReaderInv, TailInv, Intact
  <2>2. tailCnt[r] <= copy[r][p] /\ copy[r][p] <= tailCnt[r]
    BY <2>1 DEF ReaderInv, TailInv
  <2>3. tailCnt[r] \in Nat /\ copy[r][p] \in Nat
    BY <2>1 DEF TypeOK
  <2>4. QED
    BY <2>2, <2>3
<1>2. QED
  BY <1>1, ReaderCorrect, TypeCorrect, PTL

\* At depth 1 every frame that daoShmGetNextSegment delivers is newer than the
\* one before.  (At greater depths it is not: see the run fifo_order.)
THEOREM DepthOneInOrder == N = 1 => (Spec => NextIsNewer)
<1> SUFFICES ASSUME N = 1
             PROVE  Spec => NextIsNewer
  OBVIOUS
<1> DEFINE Newer == \A r \in Readers :
                        rpc[r] \in {"nextCnt", "lapCnt"} /\ rpc'[r] = "ready"
                            => tailCnt'[r] > tailCnt[r]
<1>1. TypeOK /\ RingInv /\ ReaderInv /\ [Next]_vars => [Newer]_vars
  <2> SUFFICES ASSUME TypeOK, RingInv, ReaderInv, Next, NEW r \in Readers,
                      rpc[r] \in {"nextCnt", "lapCnt"}, rpc'[r] = "ready"
               PROVE  tailCnt'[r] > tailCnt[r]
    OBVIOUS
  <2>1. ReaderCall(r) \/ ReaderStep(r)
    <3>1. CASE WriterCall \/ WriterStep
      BY <3>1, WriterGrows DEF reader
    <3>2. ASSUME NEW s \in Readers, ReaderCall(s) \/ ReaderStep(s), s # r
          PROVE  FALSE
      BY <3>2, OthersUnchanged
    <3>3. QED
      BY <3>1, <3>2 DEF Next
  <2>2. tailCnt[r] \in Nat /\ tailCnt \in [Readers -> Nat] /\ li[r] \in Slots
        /\ rpc \in [Readers -> ReaderAt]
    BY DEF TypeOK
  <2>3. GetNextSuccess(r) \/ GetNextOverwrite(r)
    BY <2>1, <2>2 DEF ReaderCall, ReaderStep, Goto, ReadHead, GetNextHead,
       ResetTailHead, WaitForNextHead, WaitForNextInterrupted, WaitForSemaphore,
       SemaphoreTimeout, SemaphoreInterrupted, GetNewestHead, CopyOut,
       GetNextNotReady, GetNextNewLap,
       GetNextLapped, GetNextLapHead, ResetTail, WaitForNextAgain,
       WaitForNextPoll, SemaphoreTaken, GetNewestWoken, GetNewestSegment,
       CheckFlagRaised, CheckFlagLow, CheckSegmentOverwrite, WaitForCounter,
       SpinInterrupted, GetHistory, SpinReturn, GetNewestSpun, CopyHistory, HistoryReturn
  <2>4. CASE GetNextSuccess(r)
    BY <2>2, <2>4 DEF GetNextSuccess, SetTail
  <2>5. CASE GetNextOverwrite(r)
    <3>1. tailCnt[r] < Newest
      BY <2>5 DEF GetNextOverwrite, Goto, ReaderInv, TailInv
    <3>2. cnt0[li[r]] = Newest
      BY <2>2, OpenFollowsStamped DEF Newest, Slots
    <3>3. QED
      BY <2>2, <2>5, <3>1, <3>2, OpenFollowsStamped DEF GetNextOverwrite, SetTail
  <2>6. QED
    BY <2>3, <2>4, <2>5
<1>2. QED
  BY <1>1, ReaderCorrect, RingCorrect, TypeCorrect, PTL DEF Spec, NextIsNewer

-----------------------------------------------------------------------------
(***************************************************************************)
(* Refinement of FrameHistory.                                             *)
(***************************************************************************)

\* Overwriting a part gives up the frame in the open slot, if it was there.
LEMMA CopyInRefines ==
    ASSUME TypeOK, RingInv, NEW p \in Parts, CopyIn(p)
    PROVE  History!Recycle \/ UNCHANGED <<Newest, Retained>>
<1>1. Newest' = Newest /\ UNCHANGED cnt0
  BY DEF CopyIn, Newest, Stamped
<1>2. PICK o \in Slots : o = Open
  BY OpenFollowsStamped
<1>3. WritingIdx = o /\ cnt0[lastWritten] = Newest /\ Newest \in Nat /\ cnt0[o] \in Nat
  BY <1>2, OpenFollowsStamped DEF CopyIn, Open, TypeOK
<1>4. data' = [data EXCEPT ![o][p] = Newest + 1]
  BY <1>3 DEF CopyIn
<1>5. cnt0[o] <= Newest
  BY WindowLemma, <1>3
<1>6. ~Intact(o)'
  <2>1. data'[o][p] = Newest + 1
    BY <1>4 DEF TypeOK
  <2>2. cnt0'[o] # data'[o][p]
    BY <1>1, <1>3, <1>5, <2>1
  <2>3. QED
    BY <2>2 DEF Intact
<1>7. \A j \in Slots : j # o => (Intact(j)' <=> Intact(j))
  BY <1>1, <1>4 DEF Intact, TypeOK
<1>8. \A j \in Slots : Intact(j)' <=> Intact(j) /\ j # o
  BY <1>6, <1>7
<1>9. Retained' = {cnt0[j] : j \in {k \in Slots : Intact(k) /\ k # o}}
  <2>1. {k \in Slots : Intact(k)}' = {k \in Slots : Intact(k) /\ k # o}
    BY <1>8
  <2>2. QED
    BY <1>1, <2>1 DEF Retained
<1>10. CASE ~Intact(o)
  <2>1. {k \in Slots : Intact(k) /\ k # o} = {k \in Slots : Intact(k)}
    BY <1>10
  <2>2. QED
    BY <1>1, <1>9, <2>1 DEF Retained
<1>11. CASE Intact(o)
  <2>1. cnt0[o] = Newest + 1 - N
    BY <1>2, <1>11, WindowLemma DEF Intact
  <2>2. Newest + 1 - N \in Retained
    BY <1>11, <2>1 DEF Retained
  <2>3. \A j \in Slots : j # o /\ Intact(j) => cnt0[j] # cnt0[o]
    BY WindowLemma DEF Intact
  <2>4. Retained' = Retained \ {Newest + 1 - N}
    BY <1>9, <2>1, <2>3 DEF Retained
  <2>5. QED
    BY <1>1, <2>2, <2>4 DEF History!Recycle, History!Oldest
<1>12. QED
  BY <1>10, <1>11

\* Storing the counter publishes the frame.
LEMMA StampRefines ==
    ASSUME TypeOK, RingInv, TimestampShm
    PROVE  History!Publish
<1>1. PICK o \in Slots : o = Open
  BY OpenFollowsStamped
<1>2. /\ Newest' = Newest + 1
      /\ cnt0' = [cnt0 EXCEPT ![o] = Newest + 1]
      /\ Newest \in Nat /\ cnt0[o] \in Nat
      /\ cnt0 \in [Slots -> Nat]
      /\ UNCHANGED data
      /\ wpc = "stamp"
  BY <1>1, StampRing, OpenFollowsStamped DEF TypeOK, TimestampShm
<1>3. \A p \in Parts : data[o][p] = Newest + 1
  BY <1>1, <1>2 DEF RingInv, DataInv
<1>4. cnt0[o] <= Newest
  BY <1>2, WindowLemma
<1>5. ~Intact(o)
  BY <1>2, <1>3, <1>4, PartsAssumption DEF Intact
<1>6. Newest + 1 - N \notin Retained
  <2> SUFFICES ASSUME NEW j \in Slots, Intact(j), cnt0[j] = Newest + 1 - N
               PROVE  FALSE
    BY DEF Retained
  <2>1. j # Open
    BY <1>1, <1>5
  <2>2. cnt0[j] = Newest - Behind(j, Stamped)
    BY WindowLemma DEF Intact
  <2>3. Stamped \in Slots /\ Open = Succ(Stamped)
    BY OpenFollowsStamped
  <2>4. Behind(j, Open) = Behind(j, Stamped) + 1 /\ Behind(j, Open) \in 0 .. N-1
        /\ Behind(j, Stamped) \in 0 .. N-1
    BY <1>1, <2>1, <2>3, BehindLemma
  <2>5. QED
    BY <1>2, <2>2, <2>4, NAssumption
<1>7. Retained' = Retained \cup {Newest + 1}
  <2>1. \A j \in Slots : cnt0'[j] = IF j = o THEN Newest + 1 ELSE cnt0[j]
    BY <1>2
  <2>2. Intact(o)'
    BY <1>2, <1>3, <2>1 DEF Intact
  <2>3. \A j \in Slots : j # o => (Intact(j)' <=> Intact(j))
    BY <1>2, <2>1 DEF Intact
  <2>4. \A j \in Slots : Intact(j)' <=> Intact(j) \/ j = o
    BY <2>2, <2>3
  <2>5. {k \in Slots : Intact(k)}' = {k \in Slots : Intact(k)} \cup {o}
    BY <2>4
  <2>6. Retained' = {cnt0'[j] : j \in {k \in Slots : Intact(k)} \cup {o}}
    BY <2>5 DEF Retained
  <2>7. QED
    BY <1>5, <2>1, <2>6 DEF Retained
<1>8. QED
  BY <1>2, <1>6, <1>7 DEF History!Publish, History!Oldest

\* The lock-free ring implements the history of numbered frames: frames are
\* published whole and in order, and only the oldest is ever given up.
THEOREM Refinement == Spec => HistorySpec
<1>1. Init => History!Init
  <2> SUFFICES ASSUME Init
               PROVE  Newest = 0 /\ Retained = {}
    BY DEF History!Init
  <2>1. TypeOK /\ cnt0 = [i \in Slots |-> 0]
    BY InitType DEF Init, InitMetadata
  <2>2. QED
    BY <2>1, OpenFollowsStamped DEF Newest, Retained, Intact
<1>2. TypeOK /\ RingInv /\ [Next]_vars => [History!Next]_<<Newest, Retained>>
  <2> SUFFICES ASSUME TypeOK, RingInv, [Next]_vars
               PROVE  History!Next \/ UNCHANGED <<Newest, Retained>>
    OBVIOUS
  <2>1. ASSUME UNCHANGED <<cnt0, data, lastWritten>>,
               wpc' = wpc \/ (wpc # "stamp" /\ wpc' # "stamp")
        PROVE  UNCHANGED <<Newest, Retained>>
    BY <2>1 DEF Newest, Stamped, Retained, Intact
  <2>2. CASE WriterCall
    BY <2>1, <2>2 DEF WriterCall, Image2Shm, Image2ShmQuiet, ImagePart2Shm,
       CombineShm2Shm, CombineTooManyChannels, ImagePart2ShmFinalize, LowerFlag,
       BeginWrite, writer
  <2>3. CASE EndStage \/ Finalize \/ FinalizeReturn \/ \E r \in Readers : SemPost(r)
    BY <2>1, <2>3 DEF EndStage, Finalize, LowerFlag, FinalizeReturn, SemPost, shared
  <2>4. CASE \E p \in Parts : CopyIn(p)
    BY <2>4, CopyInRefines DEF History!Next
  <2>5. CASE FinalizeAdvance
    <3>1. Stamped' = Stamped
      BY <2>5, PriorLemma DEF FinalizeAdvance, Stamped, WritingIdx, TypeOK, Prior
    <3>2. UNCHANGED <<cnt0, data>>
      BY <2>5 DEF FinalizeAdvance
    <3>3. QED
      BY <3>1, <3>2 DEF Newest, Retained, Intact
  <2>6. CASE TimestampShm
    BY <2>6, StampRefines DEF History!Next
  <2>7. CASE \E r \in Readers : ReaderCall(r) \/ ReaderStep(r)
    BY <2>1, <2>7, ReaderType DEF shared, writer
  <2>8. CASE UNCHANGED vars
    BY <2>1, <2>8 DEF vars, shared, writer
  <2>9. QED
    BY <2>2, <2>3, <2>4, <2>5, <2>6, <2>7, <2>8 DEF Next, WriterStep
<1>3. QED
  BY <1>1, <1>2, RingCorrect, TypeCorrect, PTL
     DEF Spec, HistorySpec, History!Spec, History!vars
=============================================================================
