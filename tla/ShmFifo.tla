------------------------------ MODULE ShmFifo ------------------------------
(***************************************************************************)
(* The FIFO shared memory of src/c/dao.c: one writer process, any number   *)
(* of reader processes, no lock.  The ring of N slots (fifo_size) lives in *)
(* shared memory; every reader keeps its tail in its own IMAGE struct.     *)
(*                                                                         *)
(* One action is one access to shared memory.  A frame is a function from  *)
(* Parts to numbers: memcpy moves one part at a time, so another process   *)
(* can see a slot half written, and the parts of frame c all carry c.      *)
(***************************************************************************)
EXTENDS Integers, FiniteSets

CONSTANTS N,          \* fifo_size, the depth of the ring
          Readers,    \* the reader processes
          Parts,      \* the pieces a frame is copied in
          MaxFrames   \* bound: the writer commits at most this many frames

ASSUME NAssumption == N \in Nat \ {0}
ASSUME PartsAssumption == Parts # {}
ASSUME MaxFramesAssumption == MaxFrames \in Nat

Slots == 0 .. N-1

VARIABLES
    write,        \* md[i].write
    cnt0,         \* md[i].cnt0
    data,         \* the data segment of slot i
    lastWritten,  \* md[0].fifo_last_written
    sem,          \* the named semaphore that each reader waits on
    wpc, todo, unposted,     \* writer: where it is, parts and semaphores left
    rpc, li,                 \* readers: where they are, index just read
    tailIdx, tailCnt,        \* readers: fifo_last_read, fifo_last_read_cnt0
    seen, copy,              \* readers: cnt0 of the last GetNewestSegment and
                             \* the client's copy of a segment
    base                     \* readers: the frame that a call started from

shared == <<write, cnt0, data, lastWritten>>
writer == <<wpc, todo, unposted>>
reader == <<rpc, li, tailIdx, tailCnt, seen, copy, base>>
vars == <<shared, sem, writer, reader>>

SEMAPHORE_MAXVAL == 1
NotCopied == -1
Blank == [p \in Parts |-> NotCopied]

Succ(i) == (i + 1) % N
Prior(i) == IF i = 0 THEN N - 1 ELSE i - 1

\* Mutant: the frame is written over the newest one.
WritingInPlace == lastWritten

\* The slot that the next frame goes to: (last_written + 1) % fifo_size.
WritingIdx == Succ(lastWritten)

\* The slot of the newest frame that has its counter: the head, except
\* between the store to fifo_last_written and the store to cnt0.
Stamped == IF wpc = "stamp" THEN Prior(lastWritten) ELSE lastWritten

Newest == cnt0[Stamped]

\* The frame at the head.
HeadFrame == IF wpc = "stamp" THEN Newest + 1 ELSE Newest

-----------------------------------------------------------------------------
\* daoShmImageCreate_FIFO: data and metadata zeroed, the head on the last slot.
InitData == data = [i \in Slots |-> [p \in Parts |-> 0]]

InitMetadata ==
    /\ write = [i \in Slots |-> 0]
    /\ cnt0 = [i \in Slots |-> 0]
    /\ lastWritten = N - 1

\* daoImageCreateSem: one semaphore per reader; a new one has the value 0, one
\* left by an earlier shared memory of that name keeps the value it had.
InitSemaphores == sem \in [Readers -> 0 .. SEMAPHORE_MAXVAL]

\* daoShmShm2Img: a reader maps the memory and ends with daoShmResetTail.
InitReaders ==
    /\ rpc = [r \in Readers |-> "ready"]
    /\ li = [r \in Readers |-> 0]
    /\ tailIdx = [r \in Readers |-> N - 1]
    /\ tailCnt = [r \in Readers |-> 0]
    /\ seen = [r \in Readers |-> 0]
    /\ copy = [r \in Readers |-> Blank]
    /\ base = [r \in Readers |-> 0]

Init ==
    /\ InitData
    /\ InitMetadata
    /\ InitSemaphores
    /\ InitReaders
    /\ wpc = "idle" /\ todo = {} /\ unposted = {}

-----------------------------------------------------------------------------
(***************************************************************************)
(* The writer.  Only the writer changes shared memory, so the index it     *)
(* computed at the start of a call and the one daoShmImagePart2ShmFinalize *)
(* computes again are the same.                                            *)
(***************************************************************************)

\* Raises the slot's flag and starts moving the parts ps into it.
BeginWrite(ps, next) ==
    /\ wpc = "idle"
    /\ cnt0[lastWritten] < MaxFrames
    /\ write' = [write EXCEPT ![WritingIdx] = 1]
    /\ wpc' = next
    /\ todo' = ps
    /\ UNCHANGED <<cnt0, data, lastWritten, sem, unposted, reader>>

Image2Shm == BeginWrite(Parts, "frame")

Image2ShmQuiet == BeginWrite(Parts, "stage")

ImagePart2Shm(p) == BeginWrite({p}, "stage")

\* Writes the sum of the newest frames of the channels; as a writer of this
\* shared memory it is daoShmImage2Shm with another source.
CombineShm2Shm == BeginWrite(Parts, "frame")

\* More than DAO_MAX_COMBINE_CHANNELS channels: returns DAO_ERROR after it
\* has raised the flag.
CombineTooManyChannels ==
    /\ wpc = "idle"
    /\ write' = [write EXCEPT ![WritingIdx] = 1]
    /\ UNCHANGED <<cnt0, data, lastWritten, sem, writer, reader>>

\* Mutant: the memcpy goes one slot too far.
CopyInNext(p) ==
    /\ wpc \in {"frame", "stage"}
    /\ p \in todo
    /\ data' = [data EXCEPT ![Succ(WritingIdx)][p] = cnt0[lastWritten] + 1]
    /\ todo' = todo \ {p}
    /\ UNCHANGED <<write, cnt0, lastWritten, sem, wpc, unposted, reader>>

\* One piece of the memcpy.
CopyIn(p) ==
    /\ wpc \in {"frame", "stage"}
    /\ p \in todo
    /\ data' = [data EXCEPT ![WritingIdx][p] = cnt0[lastWritten] + 1]
    /\ todo' = todo \ {p}
    /\ UNCHANGED <<write, cnt0, lastWritten, sem, wpc, unposted, reader>>

\* daoShmImage2ShmQuiet and daoShmImagePart2Shm lower the flag and return.
EndStage ==
    /\ wpc = "stage"
    /\ todo = {}
    /\ write' = [write EXCEPT ![WritingIdx] = 0]
    /\ wpc' = "idle"
    /\ UNCHANGED <<cnt0, data, lastWritten, sem, todo, unposted, reader>>

\* The frame in the writing slot is complete (the caller of
\* daoShmImagePart2ShmFinalize has sent every part of it).
Assembled == \A p \in Parts : data[WritingIdx][p] = cnt0[lastWritten] + 1

\* daoShmImagePart2ShmFinalize, its four steps in the order of the code.
LowerFlag ==
    /\ write' = [write EXCEPT ![WritingIdx] = 0]
    /\ wpc' = "advance"
    /\ UNCHANGED <<cnt0, data, lastWritten, sem, todo, unposted, reader>>

Finalize == wpc = "frame" /\ todo = {} /\ LowerFlag

ImagePart2ShmFinalize == wpc = "idle" /\ Assembled /\ LowerFlag

FinalizeAdvance ==
    /\ wpc = "advance"
    /\ lastWritten' = WritingIdx
    /\ wpc' = "stamp"
    /\ UNCHANGED <<write, cnt0, data, sem, todo, unposted, reader>>

\* Mutant: the counter of the slot itself is incremented.
TimestampOwnSlot ==
    /\ wpc = "stamp"
    /\ cnt0' = [cnt0 EXCEPT ![lastWritten] = @ + 1]
    /\ wpc' = "post"
    /\ unposted' = Readers
    /\ UNCHANGED <<write, data, lastWritten, sem, todo, reader>>

TimestampShm ==
    /\ wpc = "stamp"
    /\ cnt0' = [cnt0 EXCEPT ![lastWritten] = cnt0[Prior(lastWritten)] + 1]
    /\ wpc' = "post"
    /\ unposted' = Readers
    /\ UNCHANGED <<write, data, lastWritten, sem, todo, reader>>

\* Mutant: no test against SEMAPHORE_MAXVAL.
SemPostAlways(r) ==
    /\ wpc = "post"
    /\ r \in unposted
    /\ sem' = [sem EXCEPT ![r] = @ + 1]
    /\ unposted' = unposted \ {r}
    /\ UNCHANGED <<shared, wpc, todo, reader>>

\* Mutant: off by one in the test, nothing is ever posted.
SemPostNever(r) ==
    /\ wpc = "post"
    /\ r \in unposted
    /\ sem' = IF sem[r] < SEMAPHORE_MAXVAL - 1
              THEN [sem EXCEPT ![r] = @ + 1] ELSE sem
    /\ unposted' = unposted \ {r}
    /\ UNCHANGED <<shared, wpc, todo, reader>>

\* daoSemPost, for every semaphore of daoSemPostAll and for semlog: posts only
\* below the maximum.  With one poster the value read by sem_getvalue can only
\* be lowered before the post, never raised.
SemPost(r) ==
    /\ wpc = "post"
    /\ r \in unposted
    /\ sem' = IF sem[r] < SEMAPHORE_MAXVAL
              THEN [sem EXCEPT ![r] = @ + 1] ELSE sem
    /\ unposted' = unposted \ {r}
    /\ UNCHANGED <<shared, wpc, todo, reader>>

FinalizeReturn ==
    /\ wpc = "post"
    /\ unposted = {}
    /\ wpc' = "idle"
    /\ UNCHANGED <<shared, sem, todo, unposted, reader>>

\* The steps of a call that has started: the writer does not stop midway.
WriterStep ==
    \/ \E p \in Parts : CopyIn(p)
    \/ EndStage
    \/ Finalize
    \/ FinalizeAdvance
    \/ TimestampShm
    \/ \E r \in Readers : SemPost(r)
    \/ FinalizeReturn

WriterCall ==
    \/ Image2Shm
    \/ Image2ShmQuiet
    \/ \E p \in Parts : ImagePart2Shm(p)
    \/ CombineShm2Shm
    \/ CombineTooManyChannels
    \/ ImagePart2ShmFinalize

-----------------------------------------------------------------------------
(***************************************************************************)
(* The readers.                                                            *)
(***************************************************************************)
ReaderFrame == UNCHANGED <<shared, writer>>

Goto(r, from, to) == rpc[r] = from /\ rpc' = [rpc EXCEPT ![r] = to]

\* Reads the head into a local index.
ReadHead(r, from, to) ==
    /\ Goto(r, from, to)
    /\ li' = [li EXCEPT ![r] = lastWritten]
    /\ UNCHANGED <<sem, tailIdx, tailCnt, seen, copy, base>>
    /\ ReaderFrame

\* Moves the tail, and forgets the local index.
SetTail(r, i, c) ==
    /\ tailIdx' = [tailIdx EXCEPT ![r] = i]
    /\ tailCnt' = [tailCnt EXCEPT ![r] = c]
    /\ li' = [li EXCEPT ![r] = 0]
    /\ UNCHANGED <<sem, seen, copy, base>>
    /\ ReaderFrame

Stay == UNCHANGED <<sem, li, tailIdx, tailCnt, seen, copy, base>> /\ ReaderFrame

\* daoShmGetNextSegment.  First the test for no new data, two reads: at the
\* head, and still with the counter of the tail.
GetNextHead(r) ==
    /\ Goto(r, "ready", IF tailIdx[r] = lastWritten THEN "nextSame" ELSE "nextCnt")
    /\ Stay

\* Mutant: the test for no new data never says so.
GetNextNotReadyEarly(r) ==
    /\ Goto(r, "nextSame", "nextCnt")
    /\ cnt0[tailIdx[r]] = tailCnt[r]
    /\ Stay

GetNextNotReady(r) ==
    /\ Goto(r, "nextSame", "ready")
    /\ cnt0[tailIdx[r]] = tailCnt[r]
    /\ Stay

GetNextNewLap(r) ==
    /\ Goto(r, "nextSame", "nextCnt")
    /\ cnt0[tailIdx[r]] # tailCnt[r]
    /\ Stay

\* DAO_SUCCESS: the next slot carries the next counter.
GetNextSuccess(r) ==
    /\ Goto(r, "nextCnt", "ready")
    /\ cnt0[Succ(tailIdx[r])] = tailCnt[r] + 1
    /\ SetTail(r, Succ(tailIdx[r]), tailCnt[r] + 1)

\* Lapped: the tail goes to the newest segment, in two more reads.
GetNextLapped(r) ==
    /\ Goto(r, "nextCnt", "lapHead")
    /\ cnt0[Succ(tailIdx[r])] # tailCnt[r] + 1
    /\ Stay

GetNextLapHead(r) == ReadHead(r, "lapHead", "lapCnt")

\* Mutant: after a lap the counter is the next one, not that of the newest slot.
GetNextOverwriteCounts(r) ==
    /\ Goto(r, "lapCnt", "ready")
    /\ SetTail(r, li[r], tailCnt[r] + 1)

\* DAO_OVERWRITE.
GetNextOverwrite(r) ==
    /\ Goto(r, "lapCnt", "ready")
    /\ SetTail(r, li[r], cnt0[li[r]])

\* daoShmResetTail.
ResetTailHead(r) == ReadHead(r, "ready", "resetCnt")

ResetTail(r) ==
    /\ Goto(r, "resetCnt", "ready")
    /\ SetTail(r, li[r], cnt0[li[r]])

\* daoShmWaitForNextSegment = daoShmWaitForTargetCounter(fifo_last_read_cnt0 + 1).
WaitForNextHead(r) == ReadHead(r, "ready", "waitCnt")

WaitForNextAgain(r) == ReadHead(r, "waitRetry", "waitCnt")

\* Mutant: waits for more than the target.
WaitForNextPollBeyond(r) ==
    /\ Goto(r, "waitCnt", IF cnt0[li[r]] > tailCnt[r] + 1 THEN "ready" ELSE "waitRetry")
    /\ li' = [li EXCEPT ![r] = 0]
    /\ UNCHANGED <<sem, tailIdx, tailCnt, seen, copy, base>>
    /\ ReaderFrame

WaitForNextPoll(r) ==
    /\ Goto(r, "waitCnt", IF cnt0[li[r]] >= tailCnt[r] + 1 THEN "ready" ELSE "waitRetry")
    /\ li' = [li EXCEPT ![r] = 0]
    /\ UNCHANGED <<sem, tailIdx, tailCnt, seen, copy, base>>
    /\ ReaderFrame

\* nanosleep interrupted by a signal: DAO_ERROR.
WaitForNextInterrupted(r) == Goto(r, "waitRetry", "ready") /\ Stay

\* get_frame / get_data: optionally wait for the semaphore, with or without a
\* timeout, then daoShmGetNewestSegment.
WaitForSemaphore(r) == Goto(r, "ready", "semWait") /\ Stay

SemaphoreTaken(r) ==
    /\ Goto(r, "semWait", "newestHead")
    /\ sem[r] > 0
    /\ sem' = [sem EXCEPT ![r] = @ - 1]
    /\ UNCHANGED <<li, tailIdx, tailCnt, seen, copy, base>>
    /\ ReaderFrame

\* A signal ends sem_wait, and the code goes on as if it had been posted.
SemaphoreInterrupted(r) == Goto(r, "semWait", "newestHead") /\ Stay

\* sem_timedwait fails: the time is over, which does not look at the semaphore
\* again, or a signal came.
SemaphoreTimeout(r) == Goto(r, "semWait", "ready") /\ Stay

GetNewestHead(r) == ReadHead(r, "ready", "newestCnt")

GetNewestWoken(r) == ReadHead(r, "newestHead", "newestCnt")

GetNewestSegment(r) ==
    /\ Goto(r, "newestCnt", "ready")
    /\ seen' = [seen EXCEPT ![r] = cnt0[li[r]]]
    /\ li' = [li EXCEPT ![r] = 0]
    /\ UNCHANGED <<sem, tailIdx, tailCnt, copy, base>>
    /\ ReaderFrame

\* daoShmWaitForCounter, as get_frame and get_data use it with SPIN: a memory of
\* one slot is watched by its counter, a deeper one by its head.
WaitForCounter(r) ==
    /\ Goto(r, "ready", "spin")
    /\ li' = [li EXCEPT ![r] = lastWritten]
    /\ base' = [base EXCEPT ![r] = Newest]
    /\ UNCHANGED <<sem, tailIdx, tailCnt, seen, copy>>
    /\ ReaderFrame

\* Mutant: the head is compared with the slot before the one it started from.
SpinEndsEarly(r) == IF N = 1 THEN cnt0[0] > base[r] ELSE lastWritten # Prior(li[r])


SpinEnds(r) == IF N = 1 THEN cnt0[0] > base[r] ELSE lastWritten # li[r]

SpinReturn(r) == Goto(r, "spin", "spunHead") /\ SpinEnds(r) /\ Stay

Forget(r) ==
    /\ li' = [li EXCEPT ![r] = 0]
    /\ base' = [base EXCEPT ![r] = 0]

\* nanosleep interrupted by a signal: DAO_ERROR.
SpinInterrupted(r) ==
    /\ Goto(r, "spin", "ready")
    /\ Forget(r)
    /\ UNCHANGED <<sem, tailIdx, tailCnt, seen, copy>>
    /\ ReaderFrame

GetNewestSpun(r) ==
    /\ Goto(r, "spunHead", "newestCnt")
    /\ li' = [li EXCEPT ![r] = lastWritten]
    /\ base' = [base EXCEPT ![r] = 0]
    /\ UNCHANGED <<sem, tailIdx, tailCnt, seen, copy>>
    /\ ReaderFrame

\* Mutant: the history starts one slot too early.
BackEarly(k) == (lastWritten - k + N - 1) % N

\* The slot k before the head.
Back(k) == (lastWritten - k + N) % N

\* get_history: reads the head once, and then the last slots, oldest first, each
\* through daoShmGetArbitrarySegment and without a check.  Which frame a slot
\* yields does not depend on the slots read before, so a call reads one of them.
GetHistory(r, k) ==
    /\ Goto(r, "ready", "history")
    /\ li' = [li EXCEPT ![r] = Back(k)]
    /\ base' = [base EXCEPT ![r] = HeadFrame - k]
    /\ UNCHANGED <<sem, tailIdx, tailCnt, seen, copy>>
    /\ ReaderFrame

CopyHistory(r, p) ==
    /\ rpc[r] = "history"
    /\ copy[r][p] = NotCopied
    /\ copy' = [copy EXCEPT ![r][p] = data[li[r]][p]]
    /\ UNCHANGED <<sem, rpc, li, tailIdx, tailCnt, seen, base>>
    /\ ReaderFrame

HistoryReturn(r) ==
    /\ Goto(r, "history", "ready")
    /\ \A p \in Parts : copy[r][p] # NotCopied
    /\ copy' = [copy EXCEPT ![r] = Blank]
    /\ Forget(r)
    /\ UNCHANGED <<sem, tailIdx, tailCnt, seen>>
    /\ ReaderFrame

\* The client copies the segment at its tail out of shared memory, part by
\* part, and then validates the copy.
CopyOut(r, p) ==
    /\ rpc[r] \in {"ready", "copy"}
    /\ copy[r][p] = NotCopied
    /\ rpc' = [rpc EXCEPT ![r] = "copy"]
    /\ copy' = [copy EXCEPT ![r][p] = data[tailIdx[r]][p]]
    /\ UNCHANGED <<sem, li, tailIdx, tailCnt, seen, base>>
    /\ ReaderFrame

DropCopy(r) ==
    /\ copy' = [copy EXCEPT ![r] = Blank]
    /\ UNCHANGED <<sem, li, tailIdx, tailCnt, seen, base>>
    /\ ReaderFrame

\* daoShmCheckSegmentOverwrite: the flag, then the counter.
CheckFlagRaised(r) ==
    /\ Goto(r, "copy", "ready")
    /\ \A p \in Parts : copy[r][p] # NotCopied
    /\ write[tailIdx[r]] = 1
    /\ DropCopy(r)

CheckFlagLow(r) ==
    /\ Goto(r, "copy", "checkCnt")
    /\ \A p \in Parts : copy[r][p] # NotCopied
    /\ write[tailIdx[r]] = 0
    /\ Stay

\* The verdict is DAO_SUCCESS when CheckPasses(r), DAO_OVERWRITE otherwise.
CheckSegmentOverwrite(r) ==
    /\ Goto(r, "checkCnt", "ready")
    /\ DropCopy(r)

\* Mutant: the counter is only compared from below.
CheckPassesLater(r) == rpc[r] = "checkCnt" /\ cnt0[tailIdx[r]] >= tailCnt[r]

CheckPasses(r) == rpc[r] = "checkCnt" /\ cnt0[tailIdx[r]] = tailCnt[r]

\* The steps of a call that has started.
ReaderStep(r) ==
    \/ GetNextNotReady(r) \/ GetNextNewLap(r) \/ GetNextSuccess(r)
    \/ GetNextLapped(r) \/ GetNextLapHead(r) \/ GetNextOverwrite(r)
    \/ ResetTail(r)
    \/ WaitForNextAgain(r) \/ WaitForNextPoll(r)
    \/ SemaphoreTaken(r)
    \/ GetNewestWoken(r) \/ GetNewestSegment(r)
    \/ SpinReturn(r) \/ GetNewestSpun(r)
    \/ (\E p \in Parts : CopyHistory(r, p)) \/ HistoryReturn(r)
    \/ CheckFlagRaised(r) \/ CheckFlagLow(r) \/ CheckSegmentOverwrite(r)

ReaderCall(r) ==
    \/ GetNextHead(r)
    \/ ResetTailHead(r)
    \/ WaitForNextHead(r)
    \/ WaitForNextInterrupted(r)
    \/ WaitForSemaphore(r)
    \/ SemaphoreInterrupted(r) \/ SemaphoreTimeout(r)
    \/ GetNewestHead(r)
    \/ WaitForCounter(r)
    \/ SpinInterrupted(r)
    \/ \E k \in Slots : GetHistory(r, k)
    \/ \E p \in Parts : CopyOut(r, p)

Next ==
    \/ WriterCall
    \/ WriterStep
    \/ \E r \in Readers : ReaderCall(r)
    \/ \E r \in Readers : ReaderStep(r)

Spec == Init /\ [][Next]_vars

\* A process that is inside a call keeps running; whether it makes a call is
\* its own choice.
Fairness ==
    /\ WF_vars(WriterStep)
    /\ \A r \in Readers : WF_vars(ReaderStep(r))

FairSpec == Spec /\ Fairness
-----------------------------------------------------------------------------
(***************************************************************************)
(* Properties.                                                             *)
(***************************************************************************)
WriterAt == {"idle", "frame", "stage", "advance", "stamp", "post"}

ReaderAt == {"ready", "nextSame", "nextCnt", "lapHead", "lapCnt", "resetCnt",
             "waitCnt", "waitRetry", "semWait", "newestHead", "newestCnt",
             "copy", "checkCnt", "spin", "spunHead", "history"}

\* The types of the shared memory, of the semaphores (never above
\* SEMAPHORE_MAXVAL) and of the state of writer and readers.
TypeOK ==
    /\ write \in [Slots -> {0, 1}]
    /\ cnt0 \in [Slots -> Nat]
    /\ data \in [Slots -> [Parts -> Nat]]
    /\ lastWritten \in Slots
    /\ sem \in [Readers -> 0 .. SEMAPHORE_MAXVAL]
    /\ wpc \in WriterAt
    /\ todo \subseteq Parts
    /\ unposted \subseteq Readers
    /\ rpc \in [Readers -> ReaderAt]
    /\ li \in [Readers -> Slots]
    /\ tailIdx \in [Readers -> Slots]
    /\ tailCnt \in [Readers -> Nat]
    /\ seen \in [Readers -> Nat]
    /\ copy \in [Readers -> [Parts -> Nat \cup {NotCopied}]]
    /\ base \in [Readers -> Int]

\* How many slots back from slot j slot i is.
Behind(i, j) == IF i <= j THEN j - i ELSE j - i + N

\* Walking back from the newest frame the counters go down by one per slot
\* and stop at 0, across every step of a commit: daoShmTimestampShm counts up
\* from the neighbour and never from a stale slot.
HistoryWindow ==
    \A i \in Slots :
        cnt0[i] = IF Behind(i, Stamped) <= Newest
                  THEN Newest - Behind(i, Stamped) ELSE 0

\* The one slot whose contents may differ from what its counter says: the
\* slot after the newest stamped one.
Open == IF wpc = "stamp" THEN lastWritten ELSE WritingIdx

\* Every other slot holds the frame of its counter; the open slot holds, part by
\* part, its old frame or the next one, and the next one whole by the time the
\* head moves onto it.
DataInv ==
    /\ \A i \in Slots : i # Open => \A p \in Parts : data[i][p] = cnt0[i]
    /\ \A p \in Parts : data[Open][p] \in {cnt0[Open], Newest + 1}
    /\ wpc = "frame" => \A p \in Parts \ todo : data[Open][p] = Newest + 1
    /\ wpc \in {"advance", "stamp"} => \A p \in Parts : data[Open][p] = Newest + 1

Intact(i) == cnt0[i] > 0 /\ \A p \in Parts : data[i][p] = cnt0[i]

Retained == {cnt0[i] : i \in {j \in Slots : Intact(j)}}

\* At every instant, also in the middle of a write, the last N - 1 frames that
\* were committed can be read whole from the slots that carry their counters:
\* a write touches no slot but the one after the head.
RetainsLastFrames ==
    \A c \in 1 .. Newest : c > Newest + 1 - N => c \in Retained

\* A tail names a frame that was committed, and the slot that frame went to,
\* however the reads of the reader interleaved with the steps of a commit.
TailOnTrack ==
    \A r \in Readers :
        /\ tailCnt[r] <= Newest
        /\ tailCnt[r] > 0 => tailIdx[r] = (tailCnt[r] - 1) % N

\* A copy that daoShmCheckSegmentOverwrite approves at an instant when the
\* slot holds the frame its counter names is that frame, all of it: the check
\* can only be fooled by a slot that has new data and still the old counter.
ApprovedCopyIsWhole ==
    \A r \in Readers :
        CheckPasses(r) /\ Intact(tailIdx[r])
            => \A p \in Parts : copy[r][p] = tailCnt[r]

\* A reader that sleeps on its semaphore with nothing posted, and nothing about
\* to be posted, has seen the newest frame: no commit goes unannounced.
SleeperHasNewest ==
    \A r \in Readers :
        /\ rpc[r] = "semWait"
        /\ sem[r] = 0
        /\ wpc # "stamp" /\ r \notin unposted
        => seen[r] = Newest

\* A reader that comes out of the spin wait finds a frame at the head that is
\* newer than the newest one at the time it went in, even if it samples the
\* head before the counter is stamped.
SpinBringsNewer ==
    \A r \in Readers :
        rpc[r] = "spunHead" => \A p \in Parts : data[lastWritten][p] > base[r]

\* What get_history reads k slots before the head is the frame k before the one
\* that was at the head (nothing, before the first frame), as long as the writer
\* has not come round to that slot.
HistoryItemIsRight ==
    \A r \in Readers :
        rpc[r] = "history" /\ Newest < base[r] + N - 1
            => \A p \in Parts :
                  copy[r][p] \in {NotCopied, IF base[r] > 0 THEN base[r] ELSE 0}

\* The ring implements the history of numbered frames.
History == INSTANCE FrameHistory
               WITH Depth <- N, newest <- Newest, retained <- Retained

HistorySpec == History!Spec

\* daoShmWaitForNextSegment returns once a frame beyond the tail is committed,
\* provided the writer does not die inside a commit.
WaitForNextReturns ==
    \A r \in Readers :
        rpc[r] \in {"waitCnt", "waitRetry"} /\ Newest > tailCnt[r]
            ~> rpc[r] \notin {"waitCnt", "waitRetry"}


\* Every frame that daoShmGetNextSegment delivers is newer than the one it
\* delivered before ("consume frames one-by-one in order").
NextIsNewer ==
    [][\A r \in Readers :
          rpc[r] \in {"nextCnt", "lapCnt"} /\ rpc'[r] = "ready"
              => tailCnt'[r] > tailCnt[r]]_vars

\* The reader recovers from a lap at the slot that the writer has made the head
\* and not yet given its counter.
Unstamped(r) == wpc = "stamp" /\ rpc[r] = "lapCnt" /\ li[r] = lastWritten

\* In every other case the frame that daoShmGetNextSegment delivers is newer than
\* the one it delivered before.
NewerUnlessUnstamped ==
    [][\A r \in Readers :
          rpc[r] \in {"nextCnt", "lapCnt"} /\ rpc'[r] = "ready" /\ ~Unstamped(r)
              => tailCnt'[r] > tailCnt[r]]_vars

\* daoShmCheckSegmentOverwrite does not approve a copy that mixes two frames
\* ("Use daoShmCheckSegmentOverwrite if strict data integrity is required").
ApprovedCopyIsNotTorn ==
    \A r \in Readers :
        CheckPasses(r) => \A p, q \in Parts : copy[r][p] = copy[r][q]
=============================================================================
