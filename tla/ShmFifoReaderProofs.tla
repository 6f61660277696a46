------------------------ MODULE ShmFifoReaderProofs ------------------------
(***************************************************************************)
(* More theorems about ShmFifo: what a reader may conclude from the indices *)
(* and counters it read, whatever the writer did since.  They rest on the  *)
(* ring invariant of ShmFifoProofs and on the place of a frame in the ring: *)
(* frame c always goes to slot (c - 1) % fifo_size.                        *)
(***************************************************************************)
EXTENDS ShmFifoProofs

-----------------------------------------------------------------------------
(***************************************************************************)
(* Arithmetic modulo the depth of the ring.                                *)
(***************************************************************************)

\* Division by fifo_size leaves a quotient and a remainder below it.
LEMMA ModDef ==
    ASSUME NEW a \in Int
    PROVE  a % N \in 0 .. N-1 /\ a \div N \in Int /\ a = N * (a \div N) + (a % N)
BY NAssumption

\* A multiple of fifo_size that is not 0 is at least fifo_size.
LEMMA MultipleLemma ==
    ASSUME NEW d \in Int, d >= 1
    PROVE  N * d >= N
BY NAssumption

\* The remainder is determined by any way of writing the number.
LEMMA ModUnique ==
    ASSUME NEW a \in Int, NEW q \in Int, NEW i \in 0 .. N-1, a = N * q + i
    PROVE  a % N = i
<1>1. PICK q2 \in Int, j \in 0 .. N-1 : a = N * q2 + j /\ a % N = j
  BY ModDef
<1>2. N * (q2 - q) = i - j /\ N * (q - q2) = j - i
  BY <1>1, NAssumption
<1>3. CASE q2 = q
  BY <1>1, <1>2, <1>3, NAssumption
<1>4. CASE q2 - q >= 1
  <2>1. N * (q2 - q) >= N
    BY <1>4, MultipleLemma
  <2>2. QED
    BY <1>2, <2>1, NAssumption
<1>5. CASE q - q2 >= 1
  <2>1. N * (q - q2) >= N
    BY <1>5, MultipleLemma
  <2>2. QED
    BY <1>2, <2>1, NAssumption
<1>6. QED
  BY <1>3, <1>4, <1>5

\* Where frame c goes; the frames before the first one are counted too.
Place(c) == (c - 1) % N

\* Places are slots, and the next frame goes to the next slot.
LEMMA PlaceLemma ==
    ASSUME NEW c \in Int
    PROVE  Place(c) \in Slots /\ Place(c + 1) = Succ(Place(c))
<1>1. PICK q \in Int, i \in 0 .. N-1 : c - 1 = N * q + i /\ Place(c) = i
  BY ModDef DEF Place
<1>2. i \in Slots
  BY DEF Slots
<1>3. CASE i = N - 1
  <2>1. c = N * (q + 1) + 0 /\ 0 \in 0 .. N-1
    BY <1>1, <1>3, NAssumption
  <2>2. c % N = 0
    BY <2>1, ModUnique
  <2>3. QED
    BY <1>1, <1>2, <1>3, <2>2, SuccLemma DEF Place
<1>4. CASE i # N - 1
  <2>1. c = N * q + (i + 1) /\ i + 1 \in 0 .. N-1
    BY <1>1, <1>4, NAssumption
  <2>2. c % N = i + 1
    BY <2>1, ModUnique
  <2>3. QED
    BY <1>1, <1>2, <1>4, <2>2, SuccLemma DEF Place
<1>5. QED
  BY <1>3, <1>4

\* The slot d before the place of a frame is the place of the frame d before.
LEMMA PlaceBehind ==
    ASSUME NEW c \in Int, NEW i \in Slots
    PROVE  i = Place(c - Behind(i, Place(c)))
<1>1. PICK q \in Int, j \in 0 .. N-1 : c - 1 = N * q + j /\ Place(c) = j
  BY ModDef DEF Place
<1>2. i \in 0 .. N-1 /\ i \in Int /\ j \in Int /\ N \in Int
  BY NAssumption DEF Slots
<1>3. CASE i <= j
  <2>1. Behind(i, j) = j - i /\ c - (j - i) - 1 \in Int
        /\ c - (j - i) - 1 = N * q + i
    BY <1>1, <1>2, <1>3 DEF Behind
  <2>2. (c - (j - i) - 1) % N = i
    BY <1>2, <2>1, ModUnique
  <2>3. QED
    BY <1>1, <2>1, <2>2 DEF Place
<1>4. CASE ~(i <= j)
  <2>1. /\ Behind(i, j) = j - i + N /\ q - 1 \in Int
        /\ c - (j - i + N) - 1 \in Int
        /\ c - (j - i + N) - 1 = N * (q - 1) + i
    BY <1>1, <1>2, <1>4 DEF Behind
  <2>2. (c - (j - i + N) - 1) % N = i
    BY <1>2, <2>1, ModUnique
  <2>3. QED
    BY <1>1, <2>1, <2>2 DEF Place
<1>5. QED
  BY <1>3, <1>4

\* The other way round: the place of the frame d before, for less than a lap,
\* is d slots behind.
LEMMA BehindPlace ==
    ASSUME NEW c \in Int, NEW d \in 0 .. N-1
    PROVE  Behind(Place(c - d), Place(c)) = d
<1>1. PICK q \in Int, j \in 0 .. N-1 : c - 1 = N * q + j /\ Place(c) = j
  BY ModDef DEF Place
<1>2. d \in Int /\ j \in Int /\ N \in Int
  BY NAssumption
<1>3. CASE d <= j
  <2>1. j - d \in 0 .. N-1 /\ c - d - 1 \in Int /\ c - d - 1 = N * q + (j - d)
    BY <1>1, <1>2, <1>3
  <2>2. Place(c - d) = j - d
    BY <1>2, <2>1, ModUnique DEF Place
  <2>3. QED
    BY <1>1, <1>2, <1>3, <2>2 DEF Behind
<1>4. CASE ~(d <= j)
  <2>1. /\ j - d + N \in 0 .. N-1 /\ q - 1 \in Int /\ c - d - 1 \in Int
        /\ c - d - 1 = N * (q - 1) + (j - d + N)
    BY <1>1, <1>2, <1>4
  <2>2. Place(c - d) = j - d + N
    BY <1>2, <2>1, ModUnique DEF Place
  <2>3. QED
    BY <1>1, <1>2, <1>4, <2>2 DEF Behind
<1>5. QED
  BY <1>3, <1>4

-----------------------------------------------------------------------------
(***************************************************************************)
(* Frames and slots.                                                       *)
(***************************************************************************)

\* The newest stamped frame is in its place.
StampedPlace == Stamped = Place(Newest)

\* A frame that has its counter is in its place.
LEMMA CounterPlace ==
    ASSUME TypeOK, RingInv, StampedPlace, NEW i \in Slots, cnt0[i] > 0
    PROVE  i = Place(cnt0[i])
<1>1. cnt0[i] = Newest - Behind(i, Stamped) /\ Newest \in Int
  BY WindowLemma, OpenFollowsStamped
<1>2. i = Place(Newest - Behind(i, Stamped))
  BY <1>1, PlaceBehind DEF StampedPlace
<1>3. QED
  BY <1>1, <1>2

\* The place of the frame at the head is the head.
LEMMA HeadPlace ==
    ASSUME TypeOK, StampedPlace
    PROVE  /\ HeadFrame \in Nat /\ Newest <= HeadFrame
           /\ lastWritten = Place(HeadFrame)
<1>1. Newest \in Nat /\ Newest \in Int /\ lastWritten \in Slots
  BY OpenFollowsStamped DEF TypeOK
<1>2. CASE wpc = "stamp"
  <2>1. lastWritten = Succ(Stamped) /\ HeadFrame = Newest + 1
    BY <1>1, <1>2, PriorLemma DEF Stamped, HeadFrame
  <2>2. QED
    BY <1>1, <2>1, PlaceLemma DEF StampedPlace
<1>3. CASE wpc # "stamp"
  BY <1>1, <1>3 DEF Stamped, HeadFrame, StampedPlace
<1>4. QED
  BY <1>2, <1>3

\* The parts of frame c; a number below 1 stands for no frame, and zeros.
Content(c) == IF c > 0 THEN c ELSE 0

\* The place of a frame holds that frame, whole, until the writer comes round
\* to it again.
LEMMA PlaceHolds ==
    ASSUME TypeOK, RingInv, StampedPlace,
           NEW c \in Int, c <= HeadFrame, Newest < c + N - 1, NEW p \in Parts
    PROVE  data[Place(c)][p] = Content(c)
<1>1. Newest \in Nat /\ N \in Nat /\ Stamped \in Slots /\ Open = Succ(Stamped)
  BY OpenFollowsStamped, NAssumption
<1>2. CASE c <= Newest
  <2>1. PICK d \in 0 .. N-1 : c = Newest - d /\ d < N - 1
    <3>1. Newest - c \in 0 .. N-1 /\ c = Newest - (Newest - c) /\ Newest - c < N - 1
      BY <1>1, <1>2
    <3>2. QED
      BY <3>1
  <2>2. Place(c) \in Slots /\ Behind(Place(c), Stamped) = d
    BY <1>1, <2>1, BehindPlace, PlaceLemma DEF StampedPlace
  <2>3. cnt0[Place(c)] = IF d <= Newest THEN Newest - d ELSE 0
    BY <2>2 DEF RingInv, HistoryWindow
  <2>4. Place(c) # Open
    <3>1. Behind(Open, Stamped) = N - 1
      BY <1>1, BehindLemma
    <3>2. QED
      BY <1>1, <2>1, <2>2, <3>1
  <2>5. data[Place(c)][p] = cnt0[Place(c)]
    BY <2>2, <2>4 DEF RingInv, DataInv
  <2>6. QED
    BY <1>1, <2>1, <2>3, <2>5 DEF Content
<1>3. CASE ~(c <= Newest)
  <2>1. c = Newest + 1 /\ wpc = "stamp"
    BY <1>1, <1>3 DEF HeadFrame
  <2>2. Place(c) = Open
    BY <1>1, <2>1, PlaceLemma DEF StampedPlace
  <2>3. data[Open][p] = Newest + 1
    BY <2>1 DEF RingInv, DataInv
  <2>4. QED
    BY <1>1, <2>1, <2>2, <2>3 DEF Content
<1>4. QED
  BY <1>2, <1>3

-----------------------------------------------------------------------------
(***************************************************************************)
(* What a reader may conclude.                                             *)
(***************************************************************************)

\* A tail is in the place of its frame.
TailPlace(r) == tailCnt[r] > 0 => tailIdx[r] = Place(tailCnt[r])

\* Until the head leaves the slot the spin started from, the frame at the head
\* is the one it started from; after that it is a newer one.
SpinView(r) ==
    /\ rpc[r] = "spin" => /\ base[r] <= HeadFrame
                          /\ base[r] = HeadFrame => li[r] = lastWritten
    /\ rpc[r] = "spunHead" => base[r] < HeadFrame

\* The slot that get_history copies is the place of the frame it names.
HistoryView(r) ==
    rpc[r] = "history" =>
        /\ base[r] <= HeadFrame
        /\ li[r] = Place(base[r])
        /\ Newest < base[r] + N - 1 =>
              \A p \in Parts : copy[r][p] \in {NotCopied, Content(base[r])}

\* Nothing is posted for the reader, and nothing about to be posted.
Quiet(r) == sem[r] = 0 /\ wpc # "stamp" /\ r \notin unposted

\* In such a state the reader has the newest frame, has just read where it is,
\* or is about to read that.
SleepView(r) ==
    Quiet(r) /\ rpc[r] # "newestHead" =>
        IF rpc[r] = "newestCnt" THEN li[r] = lastWritten ELSE seen[r] = Newest

ViewInv(r) == TailPlace(r) /\ SpinView(r) /\ HistoryView(r) /\ SleepView(r)

ReaderView == StampedPlace /\ \A r \in Readers : ViewInv(r)

\* It holds when the readers have just opened the memory.
LEMMA InitView == Init => ReaderView
<1> SUFFICES ASSUME Init
             PROVE  ReaderView
  OBVIOUS
<1>1. TypeOK /\ wpc = "idle" /\ lastWritten = N - 1 /\ cnt0 = [i \in Slots |-> 0]
  BY InitType DEF Init, InitMetadata
<1>2. Newest = 0 /\ Stamped = N - 1
  BY <1>1, OpenFollowsStamped DEF Newest, Stamped
<1>3. StampedPlace
  <2>1. 0 - 1 = N * (0 - 1) + (N - 1) /\ N - 1 \in 0 .. N-1 /\ 0 - 1 \in Int
    BY NAssumption
  <2>2. (0 - 1) % N = N - 1
    BY <2>1, ModUnique
  <2>3. QED
    BY <1>2, <2>2 DEF StampedPlace, Place
<1>4. ASSUME NEW r \in Readers
      PROVE  ViewInv(r)
  BY <1>2 DEF Init, InitReaders, ViewInv, TailPlace, SpinView, HistoryView, SleepView
<1>5. QED
  BY <1>3, <1>4 DEF ReaderView

\* What the writer does to the head: the frame there only gets newer, a new one
\* is in another place, and every reader is told of it.
LEMMA WriterHead ==
    ASSUME TypeOK, RingInv, StampedPlace, WriterCall \/ WriterStep
    PROVE  /\ StampedPlace'
           /\ HeadFrame <= HeadFrame' /\ HeadFrame' \in Nat
           /\ HeadFrame' = HeadFrame => lastWritten' = lastWritten
           /\ \A r \in Readers : Quiet(r)' =>
                 Quiet(r) /\ lastWritten' = lastWritten /\ Newest' = Newest
<1> DEFINE Goal == /\ StampedPlace'
                   /\ HeadFrame <= HeadFrame' /\ HeadFrame' \in Nat
                   /\ HeadFrame' = HeadFrame => lastWritten' = lastWritten
                   /\ \A r \in Readers : Quiet(r)' =>
                         Quiet(r) /\ lastWritten' = lastWritten /\ Newest' = Newest
<1>1. /\ Newest \in Nat /\ Stamped \in Slots /\ HeadFrame \in Nat
      /\ lastWritten \in Slots /\ Open = Succ(Stamped)
  BY OpenFollowsStamped, HeadPlace DEF TypeOK
<1>2. CASE UNCHANGED <<cnt0, lastWritten, sem, unposted>> /\ wpc # "stamp" /\ wpc' # "stamp"
  <2>1. Newest' = Newest /\ HeadFrame' = HeadFrame /\ Stamped' = Stamped
    BY <1>2 DEF Newest, Stamped, HeadFrame
  <2>2. QED
    BY <1>1, <1>2, <2>1 DEF StampedPlace, Quiet, Place
<1>3. CASE WriterCall
  BY <1>2, <1>3 DEF WriterCall, Image2Shm, Image2ShmQuiet, ImagePart2Shm,
     CombineShm2Shm, CombineTooManyChannels, ImagePart2ShmFinalize, LowerFlag,
     BeginWrite, writer
<1>4. CASE EndStage \/ Finalize \/ FinalizeReturn \/ \E p \in Parts : CopyIn(p)
  BY <1>2, <1>4 DEF EndStage, Finalize, LowerFlag, FinalizeReturn, CopyIn, shared
<1>5. ASSUME NEW s \in Readers, SemPost(s)
      PROVE  Goal
  <2>1. UNCHANGED <<cnt0, lastWritten, wpc>> /\ wpc = "post"
    BY <1>5 DEF SemPost, shared
  <2>2. Newest' = Newest /\ HeadFrame' = HeadFrame /\ Stamped' = Stamped
    BY <2>1 DEF Newest, Stamped, HeadFrame
  <2>3. ASSUME NEW r \in Readers, Quiet(r)'
        PROVE  Quiet(r)
    <3>1. sem \in [Readers -> 0 .. 1] /\ sem[s] \in 0 .. 1
      BY DEF TypeOK, SEMAPHORE_MAXVAL
    <3>2. sem'[r] = IF r = s /\ sem[s] < 1 THEN sem[s] + 1 ELSE sem[r]
      BY <1>5, <3>1 DEF SemPost, SEMAPHORE_MAXVAL
    <3>3. r # s
      BY <2>3, <3>1, <3>2 DEF Quiet
    <3>4. QED
      BY <1>5, <2>3, <3>2, <3>3 DEF Quiet, SemPost
  <2>4. QED
    BY <1>1, <2>1, <2>2, <2>3 DEF StampedPlace, Place
<1>6. CASE FinalizeAdvance
  <2>1. Stamped' = Stamped /\ wpc = "advance" /\ wpc' = "stamp" /\ UNCHANGED cnt0
    BY <1>1, <1>6, PriorLemma DEF FinalizeAdvance, Stamped, WritingIdx, Prior
  <2>2. Newest' = Newest
    BY <2>1 DEF Newest
  <2>3. HeadFrame' = Newest + 1 /\ HeadFrame = Newest
    BY <2>1, <2>2 DEF HeadFrame
  <2>4. QED
    BY <1>1, <2>1, <2>2, <2>3 DEF StampedPlace, Place, Quiet
<1>7. CASE TimestampShm
  <2>1. Newest' = Newest + 1 /\ Stamped' = Open /\ wpc' = "post" /\ wpc = "stamp"
        /\ unposted' = Readers /\ lastWritten' = lastWritten
    BY <1>7, StampRing DEF TimestampShm
  <2>2. HeadFrame' = HeadFrame
    BY <2>1 DEF HeadFrame
  <2>3. Place(Newest + 1) = Open
    BY <1>1, PlaceLemma DEF StampedPlace
  <2>4. QED
    BY <1>1, <2>1, <2>2, <2>3 DEF StampedPlace, Quiet, Place
<1>8. QED
  BY <1>3, <1>4, <1>5, <1>6, <1>7 DEF WriterStep

\* The writer cannot invalidate what a reader knows of its indices.
LEMMA WriterKeepsView ==
    ASSUME TypeOK, RingInv, ReaderView, WriterCall \/ WriterStep
    PROVE  ReaderView'
<1>1. /\ StampedPlace'
      /\ HeadFrame <= HeadFrame' /\ HeadFrame' \in Nat
      /\ HeadFrame' = HeadFrame => lastWritten' = lastWritten
      /\ \A r \in Readers : Quiet(r)' =>
            Quiet(r) /\ lastWritten' = lastWritten /\ Newest' = Newest
  BY WriterHead DEF ReaderView
<1>2. Newest \in Nat /\ Newest' \in Nat /\ Newest <= Newest' /\ HeadFrame \in Nat
  BY OpenFollowsStamped, HeadPlace, WriterGrows DEF ReaderView
<1>3. UNCHANGED <<rpc, li, tailIdx, tailCnt, seen, copy, base>>
  BY WriterGrows DEF reader
<1> SUFFICES ASSUME NEW r \in Readers
             PROVE  ViewInv(r)'
  BY <1>1 DEF ReaderView
<1>4. ViewInv(r) /\ base[r] \in Int /\ N \in Nat
  BY NAssumption DEF ReaderView, TypeOK
<1>5. TailPlace(r)'
  BY <1>3, <1>4 DEF ViewInv, TailPlace, Place
<1>6. SpinView(r)'
  BY <1>1, <1>2, <1>3, <1>4 DEF ViewInv, SpinView
<1>7. HistoryView(r)'
  BY <1>1, <1>2, <1>3, <1>4 DEF ViewInv, HistoryView, Place, Content
<1>8. SleepView(r)'
  BY <1>1, <1>3, <1>4 DEF ViewInv, SleepView
<1>9. QED
  BY <1>5, <1>6, <1>7, <1>8 DEF ViewInv

\* A reader's step leaves what the others know, and their semaphores, alone.
LEMMA OthersKeepView ==
    ASSUME NEW r \in Readers, TypeOK, ReaderCall(r) \/ ReaderStep(r),
           NEW s \in Readers, s # r
    PROVE  seen'[s] = seen[s] /\ base'[s] = base[s] /\ sem'[s] = sem[s]
<1>1. CASE ReaderCall(r)
  BY <1>1 DEF ReaderCall, TypeOK, GetNextHead, ResetTailHead, WaitForNextHead,
     WaitForNextInterrupted, WaitForSemaphore, SemaphoreTimeout, SemaphoreInterrupted,
     GetNewestHead, CopyOut, WaitForCounter, SpinInterrupted, GetHistory, Forget, Goto, Stay, ReadHead
<1>2. CASE ReaderStep(r)
  BY <1>2 DEF ReaderStep, TypeOK, GetNextNotReady, GetNextNewLap, GetNextSuccess,
     GetNextLapped, GetNextLapHead, GetNextOverwrite, ResetTail, WaitForNextAgain,
     WaitForNextPoll, SemaphoreTaken, GetNewestWoken, GetNewestSegment,
     CheckFlagRaised, CheckFlagLow, CheckSegmentOverwrite, SpinReturn, GetNewestSpun,
     CopyHistory, HistoryReturn, Forget, Goto, Stay, ReadHead, SetTail, DropCopy
<1>3. QED
  BY <1>1, <1>2

\* A step that leaves tail and semaphore alone, and leads to none of the places
\* the invariant speaks of.
LEMMA PlainStep ==
    ASSUME NEW r \in Readers, ViewInv(r),
           UNCHANGED <<cnt0, lastWritten, wpc, unposted>>,
           tailIdx'[r] = tailIdx[r], tailCnt'[r] = tailCnt[r],
           seen'[r] = seen[r], sem'[r] = sem[r],
           rpc[r] \notin {"newestHead", "newestCnt"},
           rpc'[r] \notin {"spin", "spunHead", "history", "newestHead", "newestCnt"}
    PROVE  ViewInv(r)'
<1>1. Newest' = Newest /\ (Quiet(r)' <=> Quiet(r))
  BY DEF Newest, Stamped, Quiet
<1>2. QED
  BY <1>1 DEF ViewInv, TailPlace, SpinView, HistoryView, SleepView, Place

\* The head was just read: that is where the newest frame is, if it is quiet.
LEMMA HeadJustRead ==
    ASSUME NEW r \in Readers, ViewInv(r),
           UNCHANGED <<cnt0, lastWritten, wpc, unposted>>,
           tailIdx'[r] = tailIdx[r], tailCnt'[r] = tailCnt[r],
           rpc'[r] = "newestCnt", li'[r] = lastWritten
    PROVE  ViewInv(r)'
BY DEF ViewInv, TailPlace, SpinView, HistoryView, SleepView, Place

\* The tail moves onto a slot with that slot's counter.
LEMMA TailFound ==
    ASSUME NEW r \in Readers, TypeOK, RingInv, StampedPlace, ViewInv(r),
           NEW i \in Slots, NEW from, Goto(r, from, "ready"),
           from \notin {"newestHead", "newestCnt"}, SetTail(r, i, cnt0[i])
    PROVE  ViewInv(r)'
<1>1. /\ tailIdx'[r] = i /\ tailCnt'[r] = cnt0[i] /\ rpc[r] = from /\ rpc'[r] = "ready"
      /\ seen'[r] = seen[r] /\ sem'[r] = sem[r]
      /\ UNCHANGED <<cnt0, lastWritten, wpc, unposted>>
  BY DEF SetTail, Goto, TypeOK, ReaderFrame, shared, writer
<1>2. Newest' = Newest /\ (Quiet(r)' <=> Quiet(r))
  BY <1>1 DEF Newest, Stamped, Quiet
<1>3. TailPlace(r)'
  BY <1>1, CounterPlace DEF TailPlace, Place
<1>4. QED
  BY <1>1, <1>2, <1>3 DEF ViewInv, SpinView, HistoryView, SleepView

\* A step of a reader keeps what the readers know.
LEMMA ReaderKeepsView ==
    ASSUME NEW r \in Readers, TypeOK, RingInv, ReaderInv, ReaderView,
           ReaderCall(r) \/ ReaderStep(r)
    PROVE  ReaderView'
<1>1. UNCHANGED <<cnt0, data, lastWritten, wpc, unposted>>
  BY ReaderType DEF shared, writer
<1>2. /\ Newest' = Newest /\ HeadFrame' = HeadFrame /\ Stamped' = Stamped
      /\ StampedPlace /\ StampedPlace'
  BY <1>1 DEF Newest, Stamped, HeadFrame, ReaderView, StampedPlace, Place
<1>3. ASSUME NEW s \in Readers, s # r
      PROVE  ViewInv(s)'
  <2>1. /\ rpc'[s] = rpc[s] /\ li'[s] = li[s] /\ copy'[s] = copy[s]
        /\ tailIdx'[s] = tailIdx[s] /\ tailCnt'[s] = tailCnt[s]
        /\ seen'[s] = seen[s] /\ base'[s] = base[s] /\ sem'[s] = sem[s]
    BY <1>3, OthersUnchanged, OthersKeepView
  <2>2. Quiet(s)' <=> Quiet(s)
    BY <1>1, <2>1 DEF Quiet
  <2>3. QED
    BY <1>1, <1>2, <2>1, <2>2
       DEF ReaderView, ViewInv, TailPlace, SpinView, HistoryView, SleepView, Place, Content
<1>4. ViewInv(r)'
  <2>0. /\ ViewInv(r) /\ TailInv(r)
        /\ li[r] \in Slots /\ tailIdx[r] \in Slots /\ tailCnt[r] \in Nat /\ base[r] \in Int
        /\ rpc \in [Readers -> ReaderAt] /\ li \in [Readers -> Slots]
        /\ tailIdx \in [Readers -> Slots] /\ tailCnt \in [Readers -> Nat]
        /\ seen \in [Readers -> Nat] /\ base \in [Readers -> Int]
        /\ sem \in [Readers -> 0 .. 1]
        /\ copy \in [Readers -> [Parts -> Nat \cup {NotCopied}]]
        /\ Newest \in Nat /\ HeadFrame \in Nat /\ Newest <= HeadFrame
        /\ lastWritten = Place(HeadFrame)
    BY <1>2, OpenFollowsStamped, HeadPlace
       DEF ReaderView, ReaderInv, TypeOK, SEMAPHORE_MAXVAL
  <2>1. CASE GetNextHead(r) \/ WaitForNextInterrupted(r) \/ WaitForSemaphore(r)
               \/ SemaphoreTimeout(r) \/ GetNextNotReady(r) \/ GetNextNewLap(r)
               \/ GetNextLapped(r) \/ CheckFlagLow(r)
    BY <1>1, <2>0, <2>1, PlainStep DEF GetNextHead, WaitForNextInterrupted,
       WaitForSemaphore, SemaphoreTimeout, GetNextNotReady, GetNextNewLap,
       GetNextLapped, CheckFlagLow, Goto, Stay
  <2>2. CASE GetNextLapHead(r) \/ ResetTailHead(r) \/ WaitForNextHead(r)
               \/ WaitForNextAgain(r)
    BY <1>1, <2>0, <2>2, PlainStep DEF GetNextLapHead, ResetTailHead,
       WaitForNextHead, WaitForNextAgain, ReadHead, Goto
  <2>3. CASE WaitForNextPoll(r) \/ SpinInterrupted(r)
    BY <1>1, <2>0, <2>3, PlainStep DEF WaitForNextPoll, SpinInterrupted, Forget, Goto
  <2>4. CASE CheckFlagRaised(r) \/ CheckSegmentOverwrite(r) \/ HistoryReturn(r)
    BY <1>1, <2>0, <2>4, PlainStep DEF CheckFlagRaised, CheckSegmentOverwrite,
       HistoryReturn, Forget, DropCopy, Goto
  <2>5. CASE \E p \in Parts : CopyOut(r, p)
    BY <1>1, <2>0, <2>5, PlainStep DEF CopyOut
  <2>6. CASE GetNewestHead(r) \/ GetNewestWoken(r)
    BY <1>1, <2>0, <2>6, HeadJustRead DEF GetNewestHead, GetNewestWoken, ReadHead, Goto
  <2>7. CASE GetNewestSpun(r)
    BY <1>1, <2>0, <2>7, HeadJustRead DEF GetNewestSpun, Goto
  <2>8. CASE GetNextSuccess(r)
    <3>1. Succ(tailIdx[r]) \in Slots
      BY <2>0, SuccLemma
    <3>2. QED
      BY <1>2, <2>0, <2>8, <3>1, TailFound DEF GetNextSuccess
  <2>9. CASE GetNextOverwrite(r) \/ ResetTail(r)
    BY <1>2, <2>0, <2>9, TailFound DEF GetNextOverwrite, ResetTail
  <2>10. CASE SemaphoreTaken(r) \/ SemaphoreInterrupted(r)
    <3>1. rpc'[r] = "newestHead" /\ tailIdx'[r] = tailIdx[r] /\ tailCnt'[r] = tailCnt[r]
      BY <2>0, <2>10 DEF SemaphoreTaken, SemaphoreInterrupted, Goto, Stay
    <3>2. QED
      BY <2>0, <3>1 DEF ViewInv, TailPlace, SpinView, HistoryView, SleepView, Place
  <2>11. CASE GetNewestSegment(r)
    <3>1. /\ rpc[r] = "newestCnt" /\ rpc'[r] = "ready" /\ seen'[r] = cnt0[li[r]]
          /\ tailIdx'[r] = tailIdx[r] /\ tailCnt'[r] = tailCnt[r] /\ sem'[r] = sem[r]
      BY <2>0, <2>11 DEF GetNewestSegment, Goto
    <3>2. Quiet(r)' => Quiet(r) /\ li[r] = lastWritten /\ Newest = cnt0[lastWritten]
      BY <1>1, <2>0, <3>1, OpenFollowsStamped DEF Quiet, ViewInv, SleepView
    <3>3. QED
      BY <1>2, <2>0, <3>1, <3>2 DEF ViewInv, TailPlace, SpinView, HistoryView, SleepView, Place
  <2>12. CASE WaitForCounter(r)
    <3>1. /\ rpc[r] = "ready" /\ rpc'[r] = "spin" /\ li'[r] = lastWritten /\ base'[r] = Newest
          /\ tailIdx'[r] = tailIdx[r] /\ tailCnt'[r] = tailCnt[r]
          /\ sem'[r] = sem[r] /\ seen'[r] = seen[r]
      BY <2>0, <2>12 DEF WaitForCounter, Goto
    <3>2. Quiet(r)' <=> Quiet(r)
      BY <1>1, <3>1 DEF Quiet
    <3>3. QED
      BY <1>1, <1>2, <2>0, <3>1, <3>2
         DEF ViewInv, TailPlace, SpinView, HistoryView, SleepView, Place
  <2>13. CASE SpinReturn(r)
    <3>1. /\ rpc[r] = "spin" /\ rpc'[r] = "spunHead" /\ base'[r] = base[r]
          /\ tailIdx'[r] = tailIdx[r] /\ tailCnt'[r] = tailCnt[r]
          /\ sem'[r] = sem[r] /\ seen'[r] = seen[r]
      BY <2>0, <2>13 DEF SpinReturn, Goto, Stay
    <3>2. base[r] < HeadFrame
      <4>1. base[r] <= HeadFrame /\ (base[r] = HeadFrame => li[r] = lastWritten)
        BY <2>0, <3>1 DEF ViewInv, SpinView
      <4>2. CASE N = 1
        <5>1. cnt0[0] = Newest
          BY <4>2, OpenFollowsStamped DEF Newest, Slots
        <5>2. base[r] < Newest
          BY <2>0, <2>13, <4>2, <5>1 DEF SpinReturn, SpinEnds
        <5>3. QED
          BY <2>0, <5>2
      <4>3. CASE N # 1
        <5>1. lastWritten # li[r]
          BY <2>13, <4>3 DEF SpinReturn, SpinEnds
        <5>2. base[r] # HeadFrame
          BY <4>1, <5>1
        <5>3. base[r] \in Int /\ HeadFrame \in Int
          BY <2>0
        <5>4. QED
          BY <4>1, <5>2, <5>3
      <4>4. QED
        BY <4>2, <4>3
    <3>3. Quiet(r)' <=> Quiet(r)
      BY <1>1, <3>1 DEF Quiet
    <3>4. QED
      BY <1>2, <2>0, <3>1, <3>2, <3>3
         DEF ViewInv, TailPlace, SpinView, HistoryView, SleepView, Place
  <2>14. ASSUME NEW k \in Slots, GetHistory(r, k)
         PROVE  ViewInv(r)'
    <3>1. /\ rpc[r] = "ready" /\ rpc'[r] = "history"
          /\ li'[r] = Back(k) /\ base'[r] = HeadFrame - k
          /\ tailIdx'[r] = tailIdx[r] /\ tailCnt'[r] = tailCnt[r]
          /\ sem'[r] = sem[r] /\ seen'[r] = seen[r] /\ copy'[r] = copy[r]
      <4>1. Back(k) \in Slots
        BY NAssumption DEF Back, Slots, TypeOK
      <4>2. QED
        BY <2>0, <2>14, <4>1 DEF GetHistory, Goto
    <3>2. Back(k) = Place(HeadFrame - k)
      <4>1. PICK q \in Int, j \in 0 .. N-1 : HeadFrame - 1 = N * q + j /\ lastWritten = j
        BY <2>0, ModDef DEF Place
      <4>2. /\ lastWritten \in Int /\ k \in Int /\ N \in Nat
            /\ lastWritten - k + N \in Int
        BY <4>1, NAssumption DEF Slots
      <4>3. PICK q2 \in Int, b \in 0 .. N-1 : lastWritten - k + N = N * q2 + b /\ Back(k) = b
        BY <4>2, ModDef DEF Back
      <4>4. /\ HeadFrame - k - 1 \in Int /\ q + q2 - 1 \in Int
            /\ HeadFrame - k - 1 = N * (q + q2 - 1) + b
        BY <2>0, <4>1, <4>2, <4>3
      <4>5. (HeadFrame - k - 1) % N = b
        BY <4>4, ModUnique
      <4>6. QED
        BY <4>3, <4>5 DEF Place
    <3>3. \A p \in Parts : copy'[r][p] = NotCopied
      BY <2>0, <3>1 DEF TailInv, Blank
    <3>4. HeadFrame - k <= HeadFrame
      BY <2>0 DEF Slots
    <3>5. Quiet(r)' <=> Quiet(r)
      BY <1>1, <3>1 DEF Quiet
    <3>6. QED
      BY <1>2, <2>0, <3>1, <3>2, <3>3, <3>4, <3>5
         DEF ViewInv, TailPlace, SpinView, HistoryView, SleepView, Place
  <2>15. ASSUME NEW p \in Parts, CopyHistory(r, p)
         PROVE  ViewInv(r)'
    <3>1. /\ rpc[r] = "history" /\ rpc'[r] = "history" /\ UNCHANGED <<li, base, seen, sem>>
          /\ tailIdx'[r] = tailIdx[r] /\ tailCnt'[r] = tailCnt[r]
          /\ \A q \in Parts : copy'[r][q] = IF q = p THEN data[li[r]][p] ELSE copy[r][q]
      BY <2>0, <2>15 DEF CopyHistory
    <3>2. Newest < base[r] + N - 1 => data[li[r]][p] = Content(base[r])
      BY <1>2, <2>0, <3>1, PlaceHolds DEF ViewInv, HistoryView
    <3>3. HistoryView(r)'
      BY <1>2, <2>0, <3>1, <3>2 DEF ViewInv, HistoryView, Place, Content
    <3>4. Quiet(r)' <=> Quiet(r)
      BY <1>1, <3>1 DEF Quiet
    <3>5. QED
      BY <1>2, <2>0, <3>1, <3>3, <3>4 DEF ViewInv, TailPlace, SpinView, SleepView, Place
  <2>16. QED
    BY <2>1, <2>2, <2>3, <2>4, <2>5, <2>6, <2>7, <2>8, <2>9, <2>10, <2>11, <2>12,
       <2>13, <2>14, <2>15, ReaderCall(r) \/ ReaderStep(r) DEF ReaderCall, ReaderStep
<1>5. QED
  BY <1>2, <1>3, <1>4 DEF ReaderView

\* What the readers know holds in every reachable state.
LEMMA ViewCorrect == Spec => []ReaderView
<1>1. TypeOK /\ RingInv /\ ReaderInv /\ ReaderView /\ [Next]_vars => ReaderView'
  <2>1. ASSUME ReaderView, UNCHANGED vars
        PROVE  ReaderView'
    BY <2>1 DEF ReaderView, StampedPlace, ViewInv, TailPlace, SpinView, HistoryView,
       SleepView, Quiet, HeadFrame, Newest, Stamped, Place, Content,
       vars, shared, writer, reader
  <2>2. QED
    BY <2>1, WriterKeepsView, ReaderKeepsView DEF Next
<1>2. QED
  BY <1>1, InitView, ReaderCorrect, RingCorrect, TypeCorrect, PTL DEF Spec

\* daoShmGetNextSegment, daoShmResetTail: a tail names a committed frame and the
\* slot that frame went to, for every depth and every interleaving.
THEOREM TailsOnTrack == Spec => []TailOnTrack
<1>1. ReaderInv /\ ReaderView => TailOnTrack
  BY DEF ReaderInv, TailInv, ReaderView, ViewInv, TailPlace, Place, TailOnTrack
<1>2. QED
  BY <1>1, ViewCorrect, ReaderCorrect, PTL

\* daoSemPostAll: no commit goes unannounced to a reader that sleeps on its
\* semaphore, although the post is skipped when the semaphore is at its maximum.
THEOREM NoLostWakeup == Spec => []SleeperHasNewest
<1>1. ReaderView => SleeperHasNewest
  BY DEF ReaderView, ViewInv, SleepView, Quiet, SleeperHasNewest
<1>2. QED
  BY <1>1, ViewCorrect, PTL

\* daoShmWaitForCounter: who comes out of the spin wait finds newer data at the
\* head, although the head moves before the counter is stamped.
THEOREM SpinFindsNewer == Spec => []SpinBringsNewer
<1>1. TypeOK /\ RingInv /\ ReaderView => SpinBringsNewer
  <2> SUFFICES ASSUME TypeOK, RingInv, ReaderView, NEW r \in Readers,
                      rpc[r] = "spunHead", NEW p \in Parts
               PROVE  data[lastWritten][p] > base[r]
    BY DEF SpinBringsNewer
  <2>1. base[r] < HeadFrame /\ base[r] \in Int
    BY DEF ReaderView, ViewInv, SpinView, TypeOK
  <2>2. HeadFrame \in Nat /\ Newest \in Nat /\ lastWritten \in Slots
    BY HeadPlace, OpenFollowsStamped DEF ReaderView, TypeOK
  <2>3. data[lastWritten][p] \in Nat /\ data[lastWritten][p] >= HeadFrame
    <3>1. CASE wpc = "stamp"
      BY <2>2, <3>1 DEF RingInv, DataInv, Open, HeadFrame
    <3>2. CASE wpc # "stamp"
      BY <2>2, <3>2, SlotData, OpenFollowsStamped DEF HeadFrame
    <3>3. QED
      BY <3>1, <3>2
  <2>4. QED
    BY <2>1, <2>2, <2>3
<1>2. QED
  BY <1>1, ViewCorrect, RingCorrect, TypeCorrect, PTL

\* get_history: the slot k before the head yields the frame k before the head's,
\* as long as the writer has not come round to it.
THEOREM HistoryItems == Spec => []HistoryItemIsRight
<1>1. ReaderView => HistoryItemIsRight
  BY DEF ReaderView, ViewInv, HistoryView, Content, HistoryItemIsRight
<1>2. QED
  BY <1>1, ViewCorrect, PTL

-----------------------------------------------------------------------------
(***************************************************************************)
(* The order of delivery.  daoShmGetNextSegment may hand out an older frame *)
(* after a newer one (run fifo_order); NewerUnlessUnstamped says when, and  *)
(* that there is no other case.                                           *)
(***************************************************************************)

\* A tail that is out of place has met the first frame, and a reader that looks
\* for a next frame knows there is one, in the place where it is going to look.
OrderView(r) ==
    /\ tailIdx[r] # Place(tailCnt[r]) => HeadFrame >= 1
    /\ rpc[r] = "resetCnt" /\ li[r] # Place(0) => HeadFrame >= 1
    /\ rpc[r] \in {"nextCnt", "lapHead"} => tailCnt[r] < HeadFrame
    /\ rpc[r] = "lapCnt" =>
          \E h \in 0 .. HeadFrame : tailCnt[r] < h /\ li[r] = Place(h)

ReaderOrder == \A r \in Readers : OrderView(r)

\* The places repeat every fifo_size frames.
LEMMA PlacePeriod ==
    ASSUME NEW c \in Int, NEW q \in Int
    PROVE  Place(c + N * q) = Place(c)
<1>1. PICK k \in Int, i \in 0 .. N-1 : c - 1 = N * k + i /\ Place(c) = i
  BY ModDef DEF Place
<1>2. N * (q + k) = N * q + N * k /\ N * q \in Int /\ N * k \in Int
  BY <1>1, NAssumption
<1>3. (c + N * q) - 1 = N * (q + k) + i /\ (c + N * q) - 1 \in Int /\ q + k \in Int
  BY <1>1, <1>2
<1>4. ((c + N * q) - 1) % N = i
  BY <1>1, <1>3, ModUnique
<1>5. QED
  BY <1>1, <1>4 DEF Place

\* The counter found in the place of a frame that has been stamped is that frame
\* or a later one.
LEMMA CounterAtPlace ==
    ASSUME TypeOK, RingInv, StampedPlace, NEW c \in Nat, c <= Newest
    PROVE  cnt0[Place(c)] >= c /\ cnt0[Place(c)] \in Nat
<1>1. Newest \in Nat /\ Stamped = Place(Newest) /\ Place(c) \in Slots
  BY OpenFollowsStamped, PlaceLemma DEF StampedPlace
<1>2. PICK q \in Int, d \in 0 .. N-1 : Newest - c = N * q + d
  <2>1. Newest - c \in Int
    BY <1>1
  <2>2. QED
    BY <2>1, ModDef
<1>3. q >= 0
  <2>1. SUFFICES ASSUME q <= -1
                 PROVE  FALSE
    BY <1>2
  <2>2. 0 - q \in Int /\ 0 - q >= 1
    BY <1>2, <2>1
  <2>3. N * (0 - q) >= N
    BY <2>2, MultipleLemma
  <2>4. N * (0 - q) = 0 - N * q /\ N * q \in Int /\ N \in Nat
    BY <1>2, NAssumption
  <2>5. QED
    BY <1>1, <1>2, <2>3, <2>4
<1>4. N * q >= 0 /\ N * q \in Int
  <2>1. CASE q = 0
    BY <2>1, NAssumption
  <2>2. CASE q >= 1
    <3>1. N * q >= N
      BY <1>2, <2>2, MultipleLemma
    <3>2. QED
      BY <1>2, <3>1, NAssumption
  <2>3. QED
    BY <1>2, <1>3, <2>1, <2>2
<1>5. Place(Newest - d) = Place(c)
  <2>1. Newest - d = c + N * q
    BY <1>1, <1>2, <1>4
  <2>2. QED
    BY <1>2, <2>1, PlacePeriod
<1>6. Behind(Place(c), Stamped) = d
  BY <1>1, <1>2, <1>5, BehindPlace
<1>7. cnt0[Place(c)] = IF d <= Newest THEN Newest - d ELSE 0
  BY <1>1, <1>6 DEF RingInv, HistoryWindow
<1>8. d <= Newest - c /\ Newest - c >= 0 /\ d \in Int
  BY <1>1, <1>2, <1>4
<1>9. QED
  BY <1>1, <1>7, <1>8

\* A tail that is not newer than the newest frame, and not it, is behind the head.
LEMMA HeadIsNewer ==
    ASSUME NEW r \in Readers, TypeOK, StampedPlace, ViewInv(r), TailInv(r), OrderView(r),
           tailIdx[r] # lastWritten \/ cnt0[tailIdx[r]] # tailCnt[r]
    PROVE  tailCnt[r] < HeadFrame
<1>1. /\ HeadFrame \in Nat /\ Newest <= HeadFrame /\ Newest \in Nat
      /\ lastWritten = Place(HeadFrame) /\ tailCnt[r] \in Nat
  BY HeadPlace, OpenFollowsStamped DEF TypeOK
<1>2. tailCnt[r] <= Newest
  BY DEF TailInv
<1>3. CASE tailIdx[r] # Place(tailCnt[r])
  BY <1>1, <1>3 DEF OrderView, ViewInv, TailPlace
<1>4. CASE tailIdx[r] = Place(tailCnt[r])
  <2>1. SUFFICES ASSUME tailCnt[r] = HeadFrame
                 PROVE  FALSE
    BY <1>1, <1>2
  <2>2. tailIdx[r] = lastWritten
    BY <1>1, <1>4, <2>1
  <2>3. wpc # "stamp"
    BY <1>1, <1>2, <2>1 DEF HeadFrame
  <2>4. cnt0[tailIdx[r]] = Newest /\ HeadFrame = Newest
    BY <2>2, <2>3 DEF Newest, Stamped, HeadFrame
  <2>5. QED
    BY <2>1, <2>2, <2>4
<1>5. QED
  BY <1>3, <1>4

\* A reader that has just opened the memory is in the place before the first frame.
LEMMA InitOrder == Init => ReaderOrder
<1> SUFFICES ASSUME Init, NEW r \in Readers
             PROVE  OrderView(r)
  BY DEF ReaderOrder
<1>1. StampedPlace /\ TypeOK
  BY InitView, InitType DEF ReaderView
<1>2. tailIdx[r] = N - 1 /\ tailCnt[r] = 0 /\ rpc[r] = "ready" /\ wpc = "idle"
      /\ lastWritten = N - 1 /\ cnt0 = [i \in Slots |-> 0]
  BY DEF Init, InitReaders, InitMetadata
<1>3. HeadFrame = 0 /\ lastWritten = Place(HeadFrame)
  BY <1>1, <1>2, HeadPlace, OpenFollowsStamped DEF HeadFrame, Newest, Stamped
<1>4. QED
  BY <1>2, <1>3 DEF OrderView

\* The writer only makes the head newer.
LEMMA WriterKeepsOrder ==
    ASSUME TypeOK, RingInv, StampedPlace, ReaderOrder, WriterCall \/ WriterStep
    PROVE  ReaderOrder'
<1> SUFFICES ASSUME NEW r \in Readers
             PROVE  OrderView(r)'
  BY DEF ReaderOrder
<1>1. HeadFrame <= HeadFrame' /\ HeadFrame' \in Nat /\ HeadFrame \in Nat
  BY WriterHead, HeadPlace
<1>2. UNCHANGED <<rpc, li, tailIdx, tailCnt>> /\ OrderView(r) /\ tailCnt[r] \in Nat
  BY WriterGrows DEF reader, ReaderOrder, TypeOK
<1>3. 0 .. HeadFrame \subseteq 0 .. HeadFrame'
  BY <1>1
<1>4. Place(0)' = Place(0) /\ Place(tailCnt[r])' = Place(tailCnt[r])
      /\ \A h \in Int : Place(h)' = Place(h)
  BY <1>2 DEF Place
<1>5. rpc[r] \in {"nextCnt", "lapHead"} => tailCnt[r] < HeadFrame'
  BY <1>1, <1>2 DEF OrderView
<1>6. rpc[r] = "lapCnt" => \E h \in 0 .. HeadFrame' : tailCnt[r] < h /\ li[r] = Place(h)
  BY <1>2, <1>3 DEF OrderView
<1>7. (HeadFrame >= 1) => (HeadFrame' >= 1)
  BY <1>1
<1>8. QED
  BY <1>2, <1>4, <1>5, <1>6, <1>7 DEF OrderView, Place

\* A step of a reader that leaves the tail alone and does not go on to look for a
\* next frame says nothing new about the order.
LEMMA OrderElsewhere ==
    ASSUME NEW r \in Readers, OrderView(r), HeadFrame' = HeadFrame,
           tailIdx'[r] = tailIdx[r], tailCnt'[r] = tailCnt[r],
           rpc'[r] \notin {"nextCnt", "lapHead", "lapCnt", "resetCnt"}
    PROVE  OrderView(r)'
BY DEF OrderView, Place

\* The steps of a reader keep the order, those of daoShmGetNextSegment and
\* daoShmResetTail because of what they have just compared.
LEMMA ReaderKeepsOrder ==
    ASSUME NEW r \in Readers, TypeOK, RingInv, ReaderInv, ReaderView, ReaderOrder,
           ReaderCall(r) \/ ReaderStep(r)
    PROVE  ReaderOrder'
<1>1. UNCHANGED <<cnt0, data, lastWritten, wpc, unposted>>
  BY ReaderType DEF shared, writer
<1>2. HeadFrame' = HeadFrame
  BY <1>1 DEF Newest, Stamped, HeadFrame
<1>3. ASSUME NEW s \in Readers, s # r
      PROVE  OrderView(s)'
  <2>1. /\ rpc'[s] = rpc[s] /\ li'[s] = li[s]
        /\ tailIdx'[s] = tailIdx[s] /\ tailCnt'[s] = tailCnt[s]
    BY <1>3, OthersUnchanged
  <2>2. QED
    BY <1>2, <2>1 DEF ReaderOrder, OrderView, Place
<1>4. OrderView(r) /\ ViewInv(r) /\ TailInv(r) /\ StampedPlace
  BY DEF ReaderOrder, ReaderView, ReaderInv
<1>5. /\ HeadFrame \in Nat /\ lastWritten = Place(HeadFrame) /\ Newest <= HeadFrame
      /\ Newest \in Nat /\ tailCnt[r] \in Nat /\ tailIdx[r] \in Slots /\ li[r] \in Slots
      /\ lastWritten \in Slots
  BY <1>4, HeadPlace, OpenFollowsStamped DEF TypeOK
<1>6. rpc \in [Readers -> ReaderAt] /\ li \in [Readers -> Slots]
      /\ tailIdx \in [Readers -> Slots] /\ tailCnt \in [Readers -> Nat]
  BY DEF TypeOK
<1> SUFFICES OrderView(r)'
  BY <1>3 DEF ReaderOrder
<1>7. CASE GetNextHead(r)
  <2>1. /\ rpc'[r] \in {"nextSame", "nextCnt"} /\ tailIdx' = tailIdx /\ tailCnt' = tailCnt
        /\ rpc'[r] = "nextCnt" => tailIdx[r] # lastWritten
    BY <1>6, <1>7 DEF GetNextHead, Goto, Stay
  <2>2. CASE rpc'[r] = "nextCnt"
    <3>1. tailCnt[r] < HeadFrame
      BY <1>4, <2>1, <2>2, HeadIsNewer
    <3>2. QED
      BY <1>2, <1>4, <2>1, <2>2, <3>1 DEF OrderView, Place
  <2>3. CASE rpc'[r] = "nextSame"
    BY <1>2, <1>4, <2>1, <2>3, OrderElsewhere
  <2>4. QED
    BY <2>1, <2>2, <2>3
<1>8. CASE GetNextNewLap(r)
  <2>1. /\ rpc'[r] = "nextCnt" /\ tailIdx' = tailIdx /\ tailCnt' = tailCnt
        /\ cnt0[tailIdx[r]] # tailCnt[r]
    BY <1>6, <1>8 DEF GetNextNewLap, Goto, Stay
  <2>2. tailCnt[r] < HeadFrame
    BY <1>4, <2>1, HeadIsNewer
  <2>3. QED
    BY <1>2, <1>4, <2>1, <2>2 DEF OrderView, Place
<1>9. CASE GetNextSuccess(r)
  <2>1. /\ rpc[r] = "nextCnt" /\ rpc'[r] = "ready"
    BY <1>6, <1>9 DEF GetNextSuccess, Goto
  <2>2. HeadFrame >= 1
    BY <1>4, <1>5, <2>1 DEF OrderView
  <2>3. QED
    BY <1>2, <2>1, <2>2 DEF OrderView
<1>10. CASE GetNextLapped(r)
  <2>1. /\ rpc[r] = "nextCnt" /\ rpc'[r] = "lapHead"
        /\ tailIdx' = tailIdx /\ tailCnt' = tailCnt
    BY <1>6, <1>10 DEF GetNextLapped, Goto, Stay
  <2>2. QED
    BY <1>2, <1>4, <2>1 DEF OrderView, Place
<1>11. CASE GetNextLapHead(r)
  <2>1. /\ rpc[r] = "lapHead" /\ rpc'[r] = "lapCnt" /\ li'[r] = lastWritten
        /\ tailIdx' = tailIdx /\ tailCnt' = tailCnt
    BY <1>6, <1>11 DEF GetNextLapHead, ReadHead, Goto
  <2>2. tailCnt[r] < HeadFrame /\ HeadFrame \in 0 .. HeadFrame
    BY <1>4, <1>5, <2>1 DEF OrderView
  <2>3. \E h \in 0 .. HeadFrame : tailCnt[r] < h /\ lastWritten = Place(h)
    BY <1>5, <2>2
  <2>4. QED
    BY <1>2, <1>4, <2>1, <2>3 DEF OrderView, Place
<1>12. CASE GetNextOverwrite(r)
  <2>1. rpc[r] = "lapCnt" /\ rpc'[r] = "ready"
    BY <1>6, <1>12 DEF GetNextOverwrite, Goto
  <2>2. HeadFrame >= 1
    BY <1>4, <1>5, <2>1 DEF OrderView
  <2>3. QED
    BY <1>2, <2>1, <2>2 DEF OrderView
<1>13. CASE ResetTailHead(r)
  <2>1. /\ rpc'[r] = "resetCnt" /\ li'[r] = lastWritten
        /\ tailIdx' = tailIdx /\ tailCnt' = tailCnt
    BY <1>6, <1>13 DEF ResetTailHead, ReadHead, Goto
  <2>2. lastWritten # Place(0) => HeadFrame >= 1
    BY <1>5
  <2>3. QED
    BY <1>2, <1>4, <2>1, <2>2 DEF OrderView, Place
<1>14. CASE ResetTail(r)
  <2>1. /\ rpc[r] = "resetCnt" /\ rpc'[r] = "ready"
        /\ tailIdx'[r] = li[r] /\ tailCnt'[r] = cnt0[li[r]]
    BY <1>6, <1>14 DEF ResetTail, Goto, SetTail
  <2>2. cnt0[li[r]] \in Nat
    BY <1>5 DEF TypeOK
  <2>3. li[r] # Place(cnt0[li[r]]) => HeadFrame >= 1
    <3>1. CASE cnt0[li[r]] > 0
      BY <1>4, <1>5, <3>1, CounterPlace
    <3>2. CASE cnt0[li[r]] = 0
      BY <1>4, <2>1, <3>2 DEF OrderView
    <3>3. QED
      BY <2>2, <3>1, <3>2
  <2>4. QED
    BY <1>2, <2>1, <2>3 DEF OrderView, Place
<1>15. ASSUME UNCHANGED <<tailIdx, tailCnt>>,
              rpc'[r] \notin {"nextCnt", "lapHead", "lapCnt", "resetCnt"}
       PROVE  OrderView(r)'
  BY <1>2, <1>4, <1>15, OrderElsewhere
<1>16. CASE \/ WaitForNextHead(r) \/ WaitForNextInterrupted(r) \/ WaitForSemaphore(r)
            \/ SemaphoreTimeout(r) \/ SemaphoreInterrupted(r) \/ GetNewestHead(r)
            \/ WaitForCounter(r) \/ SpinInterrupted(r)
            \/ (\E k \in Slots : GetHistory(r, k)) \/ (\E p \in Parts : CopyOut(r, p))
  BY <1>6, <1>15, <1>16 DEF WaitForNextHead, WaitForNextInterrupted, WaitForSemaphore,
     SemaphoreTimeout, SemaphoreInterrupted, GetNewestHead, WaitForCounter,
     SpinInterrupted, GetHistory, CopyOut, Goto, Stay, ReadHead
<1>17. CASE \/ GetNextNotReady(r) \/ WaitForNextAgain(r) \/ WaitForNextPoll(r)
            \/ SemaphoreTaken(r) \/ GetNewestWoken(r) \/ GetNewestSegment(r)
            \/ SpinReturn(r) \/ GetNewestSpun(r)
            \/ (\E p \in Parts : CopyHistory(r, p)) \/ HistoryReturn(r)
            \/ CheckFlagRaised(r) \/ CheckFlagLow(r) \/ CheckSegmentOverwrite(r)
  BY <1>6, <1>15, <1>17 DEF GetNextNotReady, WaitForNextAgain, WaitForNextPoll,
     SemaphoreTaken, GetNewestWoken, GetNewestSegment, SpinReturn, GetNewestSpun,
     CopyHistory, HistoryReturn, CheckFlagRaised, CheckFlagLow, CheckSegmentOverwrite,
     DropCopy, Goto, Stay, ReadHead
<1>18. QED
  BY <1>7, <1>8, <1>9, <1>10, <1>11, <1>12, <1>13, <1>14, <1>16, <1>17
     DEF ReaderCall, ReaderStep

\* What the readers know of the order holds in every reachable state.
LEMMA OrderCorrect == Spec => []ReaderOrder
<1>1. TypeOK /\ RingInv /\ ReaderInv /\ ReaderView /\ ReaderOrder /\ [Next]_vars
         => ReaderOrder'
  <2>1. ASSUME ReaderOrder, UNCHANGED vars
        PROVE  ReaderOrder'
    BY <2>1 DEF ReaderOrder, OrderView, HeadFrame, Newest, Stamped, Place,
       vars, shared, writer, reader
  <2>2. QED
    BY <2>1, WriterKeepsOrder, ReaderKeepsOrder DEF Next, ReaderView
<1>2. QED
  BY <1>1, InitOrder, ViewCorrect, ReaderCorrect, RingCorrect, TypeCorrect, PTL DEF Spec

\* daoShmGetNextSegment: a frame that is not newer than the one before is only
\* delivered to a reader that recovers from a lap while the head has moved and the
\* counter has not followed, for every depth of the ring.
THEOREM DeliveryOrder == Spec => NewerUnlessUnstamped
<1> DEFINE Newer == \A r \in Readers :
                        rpc[r] \in {"nextCnt", "lapCnt"} /\ rpc'[r] = "ready" /\ ~Unstamped(r)
                            => tailCnt'[r] > tailCnt[r]
<1>1. TypeOK /\ RingInv /\ ReaderInv /\ ReaderView /\ ReaderOrder /\ [Next]_vars
         => [Newer]_vars
  <2> SUFFICES ASSUME TypeOK, RingInv, ReaderView, ReaderOrder, Next, NEW r \in Readers,
                      rpc[r] \in {"nextCnt", "lapCnt"}, rpc'[r] = "ready", ~Unstamped(r)
               PROVE  tailCnt'[r] > tailCnt[r]
    OBVIOUS
  <2>1. ReaderCall(r) \/ ReaderStep(r)
    <3>1. CASE WriterCall \/ WriterStep
      BY <3>1, WriterGrows DEF reader
    <3>2. ASSUME NEW s \in Readers, ReaderCall(s) \/ ReaderStep(s), s # r
          PROVE  FALSE
      BY <3>2, OthersUnchanged
    <3>3. QED
      BY <3>1, <3>2 DEF Next
  <2>2. tailCnt[r] \in Nat /\ tailCnt \in [Readers -> Nat] /\ rpc \in [Readers -> ReaderAt]
    BY DEF TypeOK
  <2>3. GetNextSuccess(r) \/ GetNextOverwrite(r)
    BY <2>1, <2>2 DEF ReaderCall, ReaderStep, Goto, ReadHead, GetNextHead,
       ResetTailHead, WaitForNextHead, WaitForNextInterrupted, WaitForSemaphore,
       SemaphoreTimeout, SemaphoreInterrupted, GetNewestHead, CopyOut,
       GetNextNotReady, GetNextNewLap,
       GetNextLapped, GetNextLapHead, ResetTail, WaitForNextAgain,
       WaitForNextPoll, SemaphoreTaken, GetNewestWoken, GetNewestSegment,
       CheckFlagRaised, CheckFlagLow, CheckSegmentOverwrite, WaitForCounter,
       SpinInterrupted, GetHistory, SpinReturn, GetNewestSpun, CopyHistory, HistoryReturn
  <2>4. CASE GetNextSuccess(r)
    BY <2>2, <2>4 DEF GetNextSuccess, SetTail
  <2>5. CASE GetNextOverwrite(r)
    <3>1. rpc[r] = "lapCnt" /\ tailCnt'[r] = cnt0[li[r]]
      BY <2>2, <2>5 DEF GetNextOverwrite, Goto, SetTail
    <3>2. PICK h \in 0 .. HeadFrame : tailCnt[r] < h /\ li[r] = Place(h)
      BY <3>1 DEF ReaderOrder, OrderView
    <3>3. /\ HeadFrame \in Nat /\ Newest \in Nat /\ lastWritten = Place(HeadFrame)
          /\ StampedPlace /\ h \in Nat
      BY HeadPlace, OpenFollowsStamped DEF ReaderView
    <3>4. h <= Newest
      <4>1. SUFFICES ASSUME ~(h <= Newest)
                     PROVE  Unstamped(r)
        OBVIOUS
      <4>2. wpc = "stamp" /\ h = HeadFrame
        BY <3>3, <4>1 DEF HeadFrame
      <4>3. QED
        BY <3>1, <3>2, <3>3, <4>2 DEF Unstamped
    <3>5. cnt0[li[r]] >= h /\ cnt0[li[r]] \in Nat
      BY <3>2, <3>3, <3>4, CounterAtPlace
    <3>6. QED
      BY <2>2, <3>1, <3>2, <3>3, <3>5
  <2>6. QED
    BY <2>3, <2>4, <2>5
<1>2. QED
  BY <1>1, OrderCorrect, ViewCorrect, ReaderCorrect, RingCorrect, TypeCorrect, PTL
     DEF Spec, NewerUnlessUnstamped
=============================================================================
